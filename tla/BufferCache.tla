----------------------------- MODULE BufferCache -----------------------------
(***************************************************************************)
(* The buffer cache of fs/buffer.c together with the request layer of     *)
(* kernel/blk_drv/ll_rw_blk.c and the completion interrupt of the hard   *)
(* disk driver (kernel/blk_drv/hd.c, end_request of blk.h).               *)
(*                                                                         *)
(* Processes run kernel code without preemption: a process keeps the CPU  *)
(* (variable cur) from the system call until it sleeps or returns to the  *)
(* caller, so the code between two sleep_on calls is one run of actions   *)
(* of that process.  The disk interrupt may fire between any two of them. *)
(* sleep_on/wake_up (kernel/sched.c, not in this repository) are modelled *)
(* as in the spec: wake_up makes every sleeper on the queue runnable and   *)
(* each one re-tests its condition.                                       *)
(*                                                                         *)
(* The system has one block device, so a (b_dev, b_blocknr) pair is the   *)
(* block number alone and b_dev = 0 is NoBlk.  Block contents are data    *)
(* versions: each client write stores a fresh version, and the ghost      *)
(* variable latest remembers the last version written to each block.     *)
(* This module has no inodes: sync_inodes(), called by sys_sync and       *)
(* sync_dev, has nothing to write here (InodeCache composes it).          *)
(***************************************************************************)
EXTENDS Naturals, Sequences, FiniteSets, SequencesExt

CONSTANTS
  Procs,        \* the processes calling bread/brelse/sync
  NR_BUFFERS,   \* number of buffer heads made by buffer_init
  Blocks,       \* block numbers of the device (positive integers)
  NR_REQUEST,   \* size of the request table of ll_rw_blk.c
  MaxWrites,    \* bound on the number of client writes (versions)
  WriteErrors,  \* TRUE when a write request may end with end_request(0)
  NoProc        \* model value: no process holds the CPU

ASSUME /\ NR_BUFFERS \in Nat \ {0}
       /\ Blocks \subseteq Nat \ {0} /\ Blocks # {}
       /\ NR_REQUEST \in Nat \ {0}
       /\ MaxWrites \in Nat
       /\ WriteErrors \in BOOLEAN
       /\ NoProc \notin Procs

Buffers  == 1..NR_BUFFERS
NoBuf    == 0
NoBlk    == 0
Versions == 0..MaxWrites
Slots    == 1..NR_REQUEST
READ     == 0
WRITE    == 1

\* Wait queues: the b_wait of each buffer, buffer_wait, wait_for_request.
Running        == <<"running", 0>>
BWait(b)       == <<"b_wait", b>>
BufferWait     == <<"buffer_wait", 0>>
WaitForRequest == <<"wait_for_request", 0>>
Channels == {Running, BufferWait, WaitForRequest} \cup {BWait(b) : b \in Buffers}

PCs == {"idle", "getblk", "gh_wait", "gb_wait", "sync", "rw_lock", "rw_req",
        "br_check", "br_wait", "hold", "brelse"}

DefaultBlock == CHOOSE k \in Blocks : TRUE

FreeRequest == [bh |-> NoBuf, cmd |-> READ, sector |-> 0]

VARIABLES
  b_blocknr,   \* b_blocknr[b], NoBlk while b_dev = 0
  b_count, b_dirt, b_lock, b_uptodate,
  b_data,      \* version held in the buffer's data block
  free_list,   \* the circular free list, from free_list on, as a sequence
  request,     \* request[r]; bh = NoBuf when request[r].dev = -1
  queue,       \* the request list of the disk, current_request first
  disk,        \* disk[k]: the version stored on the disk in block k
  latest,      \* ghost: version of the last client write to block k
  nwrites,     \* number of client writes so far
  pc,          \* where each process is in the code
  blk,         \* the block a process's bread asks for
  bh,          \* the buffer getblk/bread works on
  si,          \* loop index of sys_sync/sync_dev
  pass,        \* which of the two loops of sync_dev
  caller,      \* who called the sync loop: "sys_sync" or "getblk"
  rwbuf, rwcmd,\* arguments of the ll_rw_block in progress
  rwret,       \* who called ll_rw_block: "bread" or "sync"
  sleeping,    \* the wait queue a process sleeps on, or Running
  cur          \* the process on the CPU, NoProc in the scheduler

bufVars   == <<b_blocknr, b_count, b_dirt, b_lock, b_uptodate, b_data, free_list>>
ioVars    == <<request, queue, disk>>
ghostVars == <<latest, nwrites>>
frameVars == <<blk, bh, si, pass, caller, rwbuf, rwcmd, rwret>>
vars == <<bufVars, ioVars, ghostVars, pc, frameVars, sleeping, cur>>

-----------------------------------------------------------------------------
(* Scheduling and wait queues.                                             *)

\* p may take a step: it is runnable and either on the CPU or the
\* scheduler may pick it.
Runs(p) == cur \in {NoProc, p} /\ sleeping[p] = Running

\* wake_up(ch): every process asleep on ch becomes runnable.
Wake(s, ch) == [q \in Procs |-> IF s[q] = ch THEN Running ELSE s[q]]

\* sleep_on(ch): p gives up the CPU until woken; it then re-runs the test
\* of the loop around sleep_on, i.e. the same pc.
SleepOn(p, ch) ==
  /\ sleeping' = [sleeping EXCEPT ![p] = ch]
  /\ cur' = NoProc

-----------------------------------------------------------------------------
(* Lookup helpers of buffer.c.                                            *)

\* find_buffer: the buffer of the hash chain that holds block k.
FindBuffer(k) ==
  IF \E b \in Buffers : b_blocknr[b] = k
  THEN CHOOSE b \in Buffers : b_blocknr[b] = k
  ELSE NoBuf

BADNESS(b) == 2 * b_dirt[b] + b_lock[b]

\* The do-while loop of getblk over the free list, from position i with
\* the best candidate found so far; it stops at the first candidate of
\* badness 0.
RECURSIVE ScanFrom(_, _)
ScanFrom(i, best) ==
  IF i > Len(free_list) THEN best
  ELSE LET t == free_list[i] IN
       IF b_count[t] = 0 /\ (best = NoBuf \/ BADNESS(t) < BADNESS(best))
       THEN IF BADNESS(t) = 0 THEN t ELSE ScanFrom(i + 1, t)
       ELSE ScanFrom(i + 1, best)

ScanFreeList == ScanFrom(1, NoBuf)

\* The buffer whose lock a process at a wait_on_buffer/lock_buffer tests,
\* NoBuf where it tests none.
SyncSkips(p) == caller[p] = "getblk" /\ b_blocknr[si[p]] = NoBlk
WaitTarget(p) ==
  CASE pc[p] \in {"gh_wait", "gb_wait", "br_wait", "brelse"} -> bh[p]
    [] pc[p] = "rw_lock" -> rwbuf[p]
    [] pc[p] = "sync" /\ si[p] \in Buffers /\ ~SyncSkips(p) -> si[p]
    [] OTHER -> NoBuf

-----------------------------------------------------------------------------
(* The request layer.                                                      *)

\* IN_ORDER of blk.h for requests of the one device.
IN_ORDER(r1, r2) ==
  \/ r1.cmd < r2.cmd
  \/ r1.cmd = r2.cmd /\ r1.sector < r2.sector

\* A queue without the elevator: req always goes right behind the
\* request the device is working on.
ElevatorBehindCurrent(q, req, i) == i

\* The loop of add_request: the position in q after which req is linked,
\* scanning from tmp = q[i].
RECURSIVE ElevatorPos(_, _, _)
ElevatorPos(q, req, i) ==
  IF i = Len(q) THEN i
  ELSE IF /\ IN_ORDER(request[q[i]], req) \/ ~IN_ORDER(request[q[i]], request[q[i+1]])
          /\ IN_ORDER(req, request[q[i+1]])
       THEN i
       ELSE ElevatorPos(q, req, i + 1)

\* add_request: an idle device takes req as current_request; otherwise
\* the elevator links it into the list.
AddRequest(r, req) ==
  IF queue = <<>> THEN <<r>>
  ELSE InsertAt(queue, ElevatorPos(queue, req, 1) + 1, r)

\* make_request's search for a free request: reads may use the whole
\* table, writes only the first two thirds; the search runs downwards.
RequestLimit(cmd) == IF cmd = READ THEN NR_REQUEST ELSE (NR_REQUEST * 2) \div 3
FreeSlots(cmd) == {r \in 1..RequestLimit(cmd) : request[r].bh = NoBuf}

\* The test of make_request after lock_buffer: nothing to transfer.
NothingToDo(b, cmd) ==
  \/ cmd = WRITE /\ b_dirt[b] = 0
  \/ cmd = READ /\ b_uptodate[b] = 1

\* ll_rw_block returns to its caller (bread or the sync loop).
RwReturn(p) ==
  /\ IF rwret[p] = "bread"
     THEN /\ pc' = [pc EXCEPT ![p] = "br_wait"]
          /\ UNCHANGED si
     ELSE /\ pc' = [pc EXCEPT ![p] = "sync"]
          /\ si' = [si EXCEPT ![p] = @ + 1]
  /\ rwbuf' = [rwbuf EXCEPT ![p] = NoBuf]
  /\ rwcmd' = [rwcmd EXCEPT ![p] = READ]
  /\ rwret' = [rwret EXCEPT ![p] = "bread"]

\* The locals of the sync loop die when it returns.
ReturnFromSync(p) ==
  /\ si' = [si EXCEPT ![p] = 1]
  /\ pass' = [pass EXCEPT ![p] = 1]
  /\ caller' = [caller EXCEPT ![p] = "sys_sync"]

\* A call of ll_rw_block(cmd, b) by p, returning to ret.
CallRw(p, b, cmd, ret) ==
  /\ pc' = [pc EXCEPT ![p] = "rw_lock"]
  /\ rwbuf' = [rwbuf EXCEPT ![p] = b]
  /\ rwcmd' = [rwcmd EXCEPT ![p] = cmd]
  /\ rwret' = [rwret EXCEPT ![p] = ret]

-----------------------------------------------------------------------------
(* State changes of getblk, get_hash_table and brelse.  Each variant     *)
(* defined just before a helper is the helper with a plausible bug, used *)
(* to show that a property depends on that line of the code.            *)

\* get_hash_table: bh->b_count++ before wait_on_buffer.
TakeRefLate(b) == b_count' = b_count
TakeRef(b) == b_count' = [b_count EXCEPT ![b] = @ + 1]

\* The candidate after wait_on_buffer: unreferenced (if (bh->b_count)
\* goto repeat) and clean (while (bh->b_dirt) sync_dev).
ReclaimableIgnoringCount(b) == b_lock[b] = 0 /\ b_dirt[b] = 0
ReclaimableIgnoringDirt(b) == b_lock[b] = 0 /\ b_count[b] = 0
Reclaimable(b) == b_lock[b] = 0 /\ b_count[b] = 0 /\ b_dirt[b] = 0

\* The re-check at the end of getblk: someone else cached the block
\* while getblk slept.
CachedMeanwhileUnchecked(k) == FALSE
CachedMeanwhile(k) == FindBuffer(k) # NoBuf

\* remove_from_queues then insert_into_queues: the buffer goes to the
\* end of the free list (its hash chain is FindBuffer's business).
RequeueNoRemove(b) == Append(free_list, b)
Requeue(b) == Append(Remove(free_list, b), b)

\* The end of getblk: b_count=1, b_dirt=0, b_uptodate=0, requeued under
\* the new block.
ClaimKeepUptodate(b, k) ==
  /\ b_count' = [b_count EXCEPT ![b] = 1]
  /\ b_dirt' = [b_dirt EXCEPT ![b] = 0]
  /\ b_uptodate' = b_uptodate
  /\ b_blocknr' = [b_blocknr EXCEPT ![b] = k]
  /\ free_list' = Requeue(b)
Claim(b, k) ==
  /\ b_count' = [b_count EXCEPT ![b] = 1]
  /\ b_dirt' = [b_dirt EXCEPT ![b] = 0]
  /\ b_uptodate' = [b_uptodate EXCEPT ![b] = 0]
  /\ b_blocknr' = [b_blocknr EXCEPT ![b] = k]
  /\ free_list' = Requeue(b)

\* brelse(buf) once buf is unlocked: the reference is dropped and
\* buffer_wait is woken.  (b_count = 0 here would panic; RefCountExact
\* shows it never is.)
ReleaseNoWake(p) ==
  /\ b_count[bh[p]] > 0
  /\ b_count' = [b_count EXCEPT ![bh[p]] = @ - 1]
  /\ UNCHANGED sleeping
  /\ pc' = [pc EXCEPT ![p] = "idle"]
  /\ blk' = [blk EXCEPT ![p] = DefaultBlock]
  /\ bh' = [bh EXCEPT ![p] = NoBuf]
  /\ cur' = NoProc
Release(p) ==
  /\ b_count[bh[p]] > 0
  /\ b_count' = [b_count EXCEPT ![bh[p]] = @ - 1]
  /\ sleeping' = Wake(sleeping, BufferWait)
  /\ pc' = [pc EXCEPT ![p] = "idle"]
  /\ blk' = [blk EXCEPT ![p] = DefaultBlock]
  /\ bh' = [bh EXCEPT ![p] = NoBuf]
  /\ cur' = NoProc

-----------------------------------------------------------------------------
(* Process steps.  Each action is the code a process runs from one sleep  *)
(* point (or call) to the next.                                           *)

Init ==
  /\ b_blocknr = [b \in Buffers |-> NoBlk]
  /\ b_count = [b \in Buffers |-> 0]
  /\ b_dirt = [b \in Buffers |-> 0]
  /\ b_lock = [b \in Buffers |-> 0]
  /\ b_uptodate = [b \in Buffers |-> 0]
  /\ b_data = [b \in Buffers |-> 0]
  /\ free_list = [i \in 1..NR_BUFFERS |-> i]
  /\ request = [r \in Slots |-> FreeRequest]
  /\ queue = <<>>
  /\ disk = [k \in Blocks |-> 0]
  /\ latest = [k \in Blocks |-> 0]
  /\ nwrites = 0
  /\ pc = [p \in Procs |-> "idle"]
  /\ blk = [p \in Procs |-> DefaultBlock]
  /\ bh = [p \in Procs |-> NoBuf]
  /\ si = [p \in Procs |-> 1]
  /\ pass = [p \in Procs |-> 1]
  /\ caller = [p \in Procs |-> "sys_sync"]
  /\ rwbuf = [p \in Procs |-> NoBuf]
  /\ rwcmd = [p \in Procs |-> READ]
  /\ rwret = [p \in Procs |-> "bread"]
  /\ sleeping = [p \in Procs |-> Running]
  /\ cur = NoProc

\* A client calls bread(dev, k); bread calls getblk.
Bread(p, k) ==
  /\ pc[p] = "idle" /\ Runs(p)
  /\ pc' = [pc EXCEPT ![p] = "getblk"]
  /\ blk' = [blk EXCEPT ![p] = k]
  /\ cur' = p
  /\ UNCHANGED <<bufVars, ioVars, ghostVars, bh, si, pass, caller, rwbuf, rwcmd, rwret, sleeping>>

\* A client calls sys_sync: sync_inodes() has no inode to write here, then
\* the loop over the whole pool starts.
SysSync(p) ==
  /\ pc[p] = "idle" /\ Runs(p)
  /\ pc' = [pc EXCEPT ![p] = "sync"]
  /\ si' = [si EXCEPT ![p] = 1]
  /\ caller' = [caller EXCEPT ![p] = "sys_sync"]
  /\ cur' = p
  /\ UNCHANGED <<bufVars, ioVars, ghostVars, blk, bh, pass, rwbuf, rwcmd, rwret, sleeping>>

\* wait_on_buffer / lock_buffer find the buffer locked: sleep on b_wait.
SleepOnBuffer(p) ==
  /\ Runs(p)
  /\ WaitTarget(p) # NoBuf
  /\ b_lock[WaitTarget(p)] = 1
  /\ SleepOn(p, BWait(WaitTarget(p)))
  /\ UNCHANGED <<bufVars, ioVars, ghostVars, pc, frameVars>>

\* getblk, at repeat: get_hash_table finds the block in the hash table
\* and takes a reference before it waits on the buffer.
GetHashTable(p) ==
  /\ pc[p] = "getblk" /\ Runs(p)
  /\ FindBuffer(blk[p]) # NoBuf
  /\ LET b == FindBuffer(blk[p]) IN
       /\ TakeRef(b)
       /\ bh' = [bh EXCEPT ![p] = b]
  /\ pc' = [pc EXCEPT ![p] = "gh_wait"]
  /\ cur' = p
  /\ UNCHANGED <<b_blocknr, b_dirt, b_lock, b_uptodate, b_data, free_list,
                 ioVars, ghostVars, blk, si, pass, caller, rwbuf, rwcmd, rwret, sleeping>>

\* get_hash_table after wait_on_buffer: the buffer still holds the block
\* and is returned.  (The other branch, b_count-- and retry, needs the
\* identity to change under a reference; HolderKeepsBlock shows it never
\* does.)
GetHashTableFound(p) ==
  /\ pc[p] = "gh_wait" /\ Runs(p)
  /\ b_lock[bh[p]] = 0
  /\ b_blocknr[bh[p]] = blk[p]
  /\ pc' = [pc EXCEPT ![p] = "br_check"]
  /\ cur' = p
  /\ UNCHANGED <<bufVars, ioVars, ghostVars, frameVars, sleeping>>

\* getblk on a miss: the free-list scan finds an unreferenced buffer.
GetblkScan(p) ==
  /\ pc[p] = "getblk" /\ Runs(p)
  /\ FindBuffer(blk[p]) = NoBuf
  /\ ScanFreeList # NoBuf
  /\ bh' = [bh EXCEPT ![p] = ScanFreeList]
  /\ pc' = [pc EXCEPT ![p] = "gb_wait"]
  /\ cur' = p
  /\ UNCHANGED <<bufVars, ioVars, ghostVars, blk, si, pass, caller, rwbuf, rwcmd, rwret, sleeping>>

\* getblk on a miss with every buffer referenced: sleep on buffer_wait,
\* then goto repeat.
GetblkSleep(p) ==
  /\ pc[p] = "getblk" /\ Runs(p)
  /\ FindBuffer(blk[p]) = NoBuf
  /\ ScanFreeList = NoBuf
  /\ SleepOn(p, BufferWait)
  /\ UNCHANGED <<bufVars, ioVars, ghostVars, pc, frameVars>>

\* getblk after wait_on_buffer(bh): someone took a reference meanwhile,
\* goto repeat.
GetblkRepeat(p) ==
  /\ pc[p] = "gb_wait" /\ Runs(p)
  /\ b_lock[bh[p]] = 0
  /\ b_count[bh[p]] > 0
  /\ pc' = [pc EXCEPT ![p] = "getblk"]
  /\ cur' = p
  /\ UNCHANGED <<bufVars, ioVars, ghostVars, frameVars, sleeping>>

\* while (bh->b_dirt): sync_dev(bh->b_dev), two loops over the pool.
GetblkSyncDev(p) ==
  /\ pc[p] = "gb_wait" /\ Runs(p)
  /\ b_lock[bh[p]] = 0
  /\ b_count[bh[p]] = 0
  /\ b_dirt[bh[p]] = 1
  /\ pc' = [pc EXCEPT ![p] = "sync"]
  /\ si' = [si EXCEPT ![p] = 1]
  /\ pass' = [pass EXCEPT ![p] = 1]
  /\ caller' = [caller EXCEPT ![p] = "getblk"]
  /\ cur' = p
  /\ UNCHANGED <<bufVars, ioVars, ghostVars, blk, bh, rwbuf, rwcmd, rwret, sleeping>>

\* The candidate is free and clean, but while getblk slept another
\* process put the block into the cache: goto repeat.
GetblkRecheck(p) ==
  /\ pc[p] = "gb_wait" /\ Runs(p)
  /\ Reclaimable(bh[p])
  /\ CachedMeanwhile(blk[p])
  /\ pc' = [pc EXCEPT ![p] = "getblk"]
  /\ cur' = p
  /\ UNCHANGED <<bufVars, ioVars, ghostVars, frameVars, sleeping>>

\* The end of getblk: the buffer is the only one of its kind, unused,
\* unlocked and clean; it is taken, moved to the end of the free list by
\* remove_from_queues/insert_into_queues and rehashed under the new block.
GetblkClaim(p) ==
  /\ pc[p] = "gb_wait" /\ Runs(p)
  /\ Reclaimable(bh[p])
  /\ ~CachedMeanwhile(blk[p])
  /\ Claim(bh[p], blk[p])
  /\ pc' = [pc EXCEPT ![p] = "br_check"]
  /\ cur' = p
  /\ UNCHANGED <<b_lock, b_data, ioVars, ghostVars, frameVars, sleeping>>

\* The sync loop (sys_sync, or one loop of sync_dev for getblk) moves on:
\* sync_dev skips a buffer of another device, or the buffer, once
\* unlocked, needs no write.
SyncDirty(p) ==
  /\ b_dirt[si[p]] = 1
  /\ caller[p] = "sys_sync" \/ b_blocknr[si[p]] # NoBlk
SyncNext(p) ==
  /\ pc[p] = "sync" /\ Runs(p)
  /\ si[p] \in Buffers
  /\ SyncSkips(p) \/ (b_lock[si[p]] = 0 /\ ~SyncDirty(p))
  /\ si' = [si EXCEPT ![p] = @ + 1]
  /\ cur' = p
  /\ UNCHANGED <<bufVars, ioVars, ghostVars, pc, blk, bh, pass, caller, rwbuf, rwcmd, rwret, sleeping>>

\* The sync loop finds the buffer dirty: ll_rw_block(WRITE, bh).
SyncWrite(p) ==
  /\ pc[p] = "sync" /\ Runs(p)
  /\ si[p] \in Buffers
  /\ ~SyncSkips(p)
  /\ b_lock[si[p]] = 0
  /\ SyncDirty(p)
  /\ CallRw(p, si[p], WRITE, "sync")
  /\ cur' = p
  /\ UNCHANGED <<bufVars, ioVars, ghostVars, blk, bh, si, pass, caller, sleeping>>

\* Between the two loops of sync_dev: sync_inodes() (no inodes here).
SyncDevInodes(p) ==
  /\ pc[p] = "sync" /\ Runs(p)
  /\ si[p] = NR_BUFFERS + 1
  /\ caller[p] = "getblk" /\ pass[p] = 1
  /\ si' = [si EXCEPT ![p] = 1]
  /\ pass' = [pass EXCEPT ![p] = 2]
  /\ cur' = p
  /\ UNCHANGED <<bufVars, ioVars, ghostVars, pc, blk, bh, caller, rwbuf, rwcmd, rwret, sleeping>>

\* sys_sync returns to the user.
SysSyncDone(p) ==
  /\ pc[p] = "sync" /\ Runs(p)
  /\ si[p] = NR_BUFFERS + 1
  /\ caller[p] = "sys_sync"
  /\ pc' = [pc EXCEPT ![p] = "idle"]
  /\ ReturnFromSync(p)
  /\ cur' = NoProc
  /\ UNCHANGED <<bufVars, ioVars, ghostVars, blk, bh, rwbuf, rwcmd, rwret, sleeping>>

\* sync_dev returns to getblk, which waits on its candidate again and
\* re-tests b_count and b_dirt (pc gb_wait).
SyncDevDone(p) ==
  /\ pc[p] = "sync" /\ Runs(p)
  /\ si[p] = NR_BUFFERS + 1
  /\ caller[p] = "getblk" /\ pass[p] = 2
  /\ pc' = [pc EXCEPT ![p] = "gb_wait"]
  /\ ReturnFromSync(p)
  /\ cur' = p
  /\ UNCHANGED <<bufVars, ioVars, ghostVars, blk, bh, rwbuf, rwcmd, rwret, sleeping>>

\* make_request: lock_buffer takes the lock for the transfer.  Every
\* caller in this module waited on the buffer and tested b_dirt (sync) or
\* b_uptodate (bread) just before, without sleeping since, so the
\* "nothing to do" test after lock_buffer never succeeds here and its
\* unlock-and-return branch is not an action.
MakeRequestLock(p) ==
  /\ pc[p] = "rw_lock" /\ Runs(p)
  /\ b_lock[rwbuf[p]] = 0
  /\ ~NothingToDo(rwbuf[p], rwcmd[p])
  /\ b_lock' = [b_lock EXCEPT ![rwbuf[p]] = 1]
  /\ pc' = [pc EXCEPT ![p] = "rw_req"]
  /\ cur' = p
  /\ UNCHANGED <<b_blocknr, b_count, b_dirt, b_uptodate, b_data, free_list,
                 ioVars, ghostVars, frameVars, sleeping>>

\* make_request: no free request; sleep on wait_for_request, goto repeat.
MakeRequestSleep(p) ==
  /\ pc[p] = "rw_req" /\ Runs(p)
  /\ FreeSlots(rwcmd[p]) = {}
  /\ SleepOn(p, WaitForRequest)
  /\ UNCHANGED <<bufVars, ioVars, ghostVars, pc, frameVars>>

\* make_request fills the highest free request and add_request links it
\* (clearing b_dirt); ll_rw_block returns with the buffer still locked.
MakeRequestAdd(p) ==
  /\ pc[p] = "rw_req" /\ Runs(p)
  /\ FreeSlots(rwcmd[p]) # {}
  /\ LET r   == Max(FreeSlots(rwcmd[p]))
         b   == rwbuf[p]
         req == [bh |-> b, cmd |-> rwcmd[p], sector |-> 2 * b_blocknr[b]]
     IN /\ request' = [request EXCEPT ![r] = req]
        /\ queue' = AddRequest(r, req)
        /\ b_dirt' = [b_dirt EXCEPT ![b] = 0]
  /\ RwReturn(p)
  /\ cur' = p
  /\ UNCHANGED <<b_blocknr, b_count, b_lock, b_uptodate, b_data, free_list,
                 disk, ghostVars, blk, bh, pass, caller, sleeping>>

\* bread after getblk: an up-to-date buffer is returned at once.
BreadCached(p) ==
  /\ pc[p] = "br_check" /\ Runs(p)
  /\ b_uptodate[bh[p]] = 1
  /\ pc' = [pc EXCEPT ![p] = "hold"]
  /\ cur' = NoProc
  /\ UNCHANGED <<bufVars, ioVars, ghostVars, frameVars, sleeping>>

\* bread after getblk: ll_rw_block(READ, bh).
BreadRead(p) ==
  /\ pc[p] = "br_check" /\ Runs(p)
  /\ b_uptodate[bh[p]] = 0
  /\ CallRw(p, bh[p], READ, "bread")
  /\ cur' = p
  /\ UNCHANGED <<bufVars, ioVars, ghostVars, blk, bh, si, pass, caller, sleeping>>

\* bread after wait_on_buffer: the read succeeded.
BreadDone(p) ==
  /\ pc[p] = "br_wait" /\ Runs(p)
  /\ b_lock[bh[p]] = 0
  /\ b_uptodate[bh[p]] = 1
  /\ pc' = [pc EXCEPT ![p] = "hold"]
  /\ cur' = NoProc
  /\ UNCHANGED <<bufVars, ioVars, ghostVars, frameVars, sleeping>>

\* bread after wait_on_buffer: the read failed; brelse and return NULL.
BreadFail(p) ==
  /\ pc[p] = "br_wait" /\ Runs(p)
  /\ b_lock[bh[p]] = 0
  /\ b_uptodate[bh[p]] = 0
  /\ Release(p)
  /\ UNCHANGED <<b_blocknr, b_dirt, b_lock, b_uptodate, b_data, free_list,
                 ioVars, ghostVars, si, pass, caller, rwbuf, rwcmd, rwret>>

\* The holder of a buffer from bread changes its data and marks it dirty
\* (as _bmap, write_inode or add_entry do).
WriteBuffer(p) ==
  /\ pc[p] = "hold" /\ Runs(p)
  /\ nwrites < MaxWrites
  /\ b_data' = [b_data EXCEPT ![bh[p]] = nwrites + 1]
  /\ b_dirt' = [b_dirt EXCEPT ![bh[p]] = 1]
  /\ latest' = [latest EXCEPT ![blk[p]] = nwrites + 1]
  /\ nwrites' = nwrites + 1
  /\ cur' = NoProc
  /\ UNCHANGED <<b_blocknr, b_count, b_lock, b_uptodate, free_list, ioVars,
                 pc, frameVars, sleeping>>

\* The holder calls brelse.
Brelse(p) ==
  /\ pc[p] = "hold" /\ Runs(p)
  /\ pc' = [pc EXCEPT ![p] = "brelse"]
  /\ cur' = p
  /\ UNCHANGED <<bufVars, ioVars, ghostVars, frameVars, sleeping>>

\* brelse after wait_on_buffer.
BrelseDone(p) ==
  /\ pc[p] = "brelse" /\ Runs(p)
  /\ b_lock[bh[p]] = 0
  /\ Release(p)
  /\ UNCHANGED <<b_blocknr, b_dirt, b_lock, b_uptodate, b_data, free_list,
                 ioVars, ghostVars, si, pass, caller, rwbuf, rwcmd, rwret>>

-----------------------------------------------------------------------------
(* The disk interrupt: read_intr/write_intr end the current request with *)
(* end_request(ok), which sets b_uptodate, unlocks the buffer, wakes its *)
(* waiters and wait_for_request, frees the request and moves on to the   *)
(* next one.  A failed request is one that reached MAX_ERRORS or lay    *)
(* beyond the partition.                                                 *)

\* end_request: unlock_buffer wakes b_wait, then wait_for_request is woken.
EndRequestWakeBufferOnly(s, b) == Wake(s, BWait(b))
EndRequestWake(s, b) == Wake(Wake(s, BWait(b)), WaitForRequest)

EndRequest(ok) ==
  /\ queue # <<>>
  /\ LET r  == Head(queue)
         b  == request[r].bh
         k  == b_blocknr[b]
         rd == request[r].cmd = READ
     IN /\ ok \/ rd \/ WriteErrors
        /\ b_uptodate' = [b_uptodate EXCEPT ![b] = IF ok THEN 1 ELSE 0]
        /\ b_data' = IF ok /\ rd THEN [b_data EXCEPT ![b] = disk[k]] ELSE b_data
        /\ disk' = IF ok /\ ~rd THEN [disk EXCEPT ![k] = b_data[b]] ELSE disk
        /\ b_lock' = [b_lock EXCEPT ![b] = 0]
        /\ sleeping' = EndRequestWake(sleeping, b)
        /\ request' = [request EXCEPT ![r] = FreeRequest]
        /\ queue' = Tail(queue)
  /\ UNCHANGED <<b_blocknr, b_count, b_dirt, free_list, ghostVars, pc, frameVars, cur>>

-----------------------------------------------------------------------------
Proc(p) ==
  \/ \E k \in Blocks : Bread(p, k)
  \/ SysSync(p)
  \/ SleepOnBuffer(p)
  \/ GetHashTable(p) \/ GetHashTableFound(p)
  \/ GetblkScan(p) \/ GetblkSleep(p)
  \/ GetblkRepeat(p) \/ GetblkSyncDev(p) \/ GetblkRecheck(p) \/ GetblkClaim(p)
  \/ SyncNext(p) \/ SyncWrite(p) \/ SyncDevInodes(p) \/ SysSyncDone(p) \/ SyncDevDone(p)
  \/ MakeRequestLock(p) \/ MakeRequestSleep(p) \/ MakeRequestAdd(p)
  \/ BreadCached(p) \/ BreadRead(p) \/ BreadDone(p) \/ BreadFail(p)
  \/ WriteBuffer(p) \/ Brelse(p) \/ BrelseDone(p)

Interrupt == \E ok \in BOOLEAN : EndRequest(ok)

Next == (\E p \in Procs : Proc(p)) \/ Interrupt

Spec == Init /\ [][Next]_vars

\* The disk eventually answers every request (after at most MAX_ERRORS
\* retries, or at once for a sector beyond the partition).
FairSpec == Spec /\ WF_vars(Interrupt)

-----------------------------------------------------------------------------
(* Properties.                                                             *)

TypeOK ==
  /\ b_blocknr \in [Buffers -> Blocks \cup {NoBlk}]
  /\ b_count \in [Buffers -> 0..Cardinality(Procs)]
  /\ b_dirt \in [Buffers -> {0, 1}]
  /\ b_lock \in [Buffers -> {0, 1}]
  /\ b_uptodate \in [Buffers -> {0, 1}]
  /\ b_data \in [Buffers -> Versions]
  /\ free_list \in Seq(Buffers) /\ Len(free_list) = NR_BUFFERS
  /\ request \in [Slots -> [bh : Buffers \cup {NoBuf}, cmd : {READ, WRITE},
                            sector : {0} \cup {2 * k : k \in Blocks}]]
  /\ queue \in Seq(Slots)
  /\ disk \in [Blocks -> Versions] /\ latest \in [Blocks -> Versions]
  /\ nwrites \in Versions
  /\ pc \in [Procs -> PCs]
  /\ sleeping \in [Procs -> Channels]
  /\ cur \in Procs \cup {NoProc}

\* The processes whose bh is a counted reference: from get_hash_table's
\* b_count++ or getblk's b_count=1 until brelse.
RefHeld(p) ==
  \/ pc[p] \in {"gh_wait", "br_check", "br_wait", "hold", "brelse"}
  \/ pc[p] \in {"rw_lock", "rw_req"} /\ rwret[p] = "bread"

\* getblk/brelse keep b_count equal to the number of references the
\* processes hold, across every sleep of getblk, get_hash_table and
\* brelse.
RefCountExact ==
  \A b \in Buffers :
    b_count[b] = Cardinality({p \in Procs : RefHeld(p) /\ bh[p] = b})

\* A buffer a process holds a reference to still caches the block the
\* process asked for: getblk never repurposes a buffer under a holder.
HolderKeepsBlock ==
  \A p \in Procs : RefHeld(p) => b_blocknr[bh[p]] = blk[p]

\* The re-check of find_buffer at the end of getblk: at most one buffer
\* caches a block, whatever the processes did while getblk slept.
UniqueBlocks ==
  \A b1, b2 \in Buffers :
    b1 # b2 /\ b_blocknr[b1] # NoBlk => b_blocknr[b1] # b_blocknr[b2]

\* bread never hands out stale data: an up-to-date buffer holds the last
\* version any process wrote to its block.
CacheCoherent ==
  \A b \in Buffers :
    b_blocknr[b] # NoBlk /\ b_uptodate[b] = 1 => b_data[b] = latest[b_blocknr[b]]

WritePending(b) == \E r \in Slots : request[r].bh = b /\ request[r].cmd = WRITE

\* No write is lost: the last version of every block is on the disk, or an
\* up-to-date buffer of that block is dirty or has its write queued.
NoLostWrite ==
  \A k \in Blocks :
    \/ disk[k] = latest[k]
    \/ \E b \in Buffers :
         /\ b_blocknr[b] = k /\ b_uptodate[b] = 1
         /\ b_dirt[b] = 1 \/ WritePending(b)

\* No lost wakeup: a process asleep on a wait queue still has a reason to
\* sleep, i.e. whoever removed the reason woke the queue.
NoLostWakeup ==
  \A p \in Procs :
    /\ \A b \in Buffers : sleeping[p] = BWait(b) => b_lock[b] = 1
    /\ sleeping[p] = BufferWait => \A b \in Buffers : b_count[b] > 0
    /\ sleeping[p] = WaitForRequest => FreeSlots(rwcmd[p]) = {}

\* Every queued request is eventually ended: the elevator of add_request
\* cannot pass over a request forever.
RequestServed ==
  \A r \in Slots : request[r].bh # NoBuf ~> request[r].bh = NoBuf

-----------------------------------------------------------------------------
(* Refinement: the cache implements the block device of spec 4.1.  The    *)
(* content of a block is that of its up-to-date buffer if it has one, and  *)
(* the disk's otherwise; a process holds a block from the return of bread *)
(* to the end of brelse, and sees the data of its buffer.                 *)

Content(k) ==
  LET up == {b \in Buffers : b_blocknr[b] = k /\ b_uptodate[b] = 1}
  IN  IF up = {} THEN disk[k] ELSE b_data[CHOOSE b \in up : TRUE]

Holding(p) == pc[p] \in {"hold", "brelse"}

Device == INSTANCE BlockDevice WITH
  mem  <- [k \in Blocks |-> Content(k)],
  held <- [p \in Procs |-> IF Holding(p) THEN blk[p] ELSE NoBlk],
  seen <- [p \in Procs |-> IF Holding(p) THEN b_data[bh[p]] ELSE 0],
  nw   <- nwrites

\* bread, the writes of holders and brelse behave as the block device of
\* the spec: a successful bread returns the block's current content,
\* only a holder's write changes a block, and eviction, write-back, sync
\* and the disk interrupt never change what a later bread returns.
DeviceRefined == Device!Spec
=============================================================================

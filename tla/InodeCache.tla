----------------------------- MODULE InodeCache -----------------------------
(***************************************************************************)
(* The in-memory inode table of fs/inode.c: iget with get_empty_inode,    *)
(* iput, read_inode, write_inode, sync_inodes and the inode locks.        *)
(*                                                                         *)
(* As in BufferCache, processes run without preemption from one sleep to  *)
(* the next (variable cur), and wake_up(&inode->i_wait) makes every       *)
(* sleeper on the inode runnable to re-test its condition.  The inode     *)
(* table block that read_inode and write_inode reach through bread and    *)
(* brelse is abstracted to dstore[n], the on-disk copy of inode n: their  *)
(* bread is a point where the caller may sleep (holding the inode lock)   *)
(* and any other process may run; what happens to the block below is the  *)
(* business of BufferCache.  One device: an inode's (i_dev, i_num) is     *)
(* i_num alone and i_dev = 0 is NoIno.  Inode contents are versions: a    *)
(* holder's change stores a fresh version and marks the inode dirty, and  *)
(* the ghost latest[n] remembers the last version given to inode n.       *)
(* Links never drop to zero here (truncate and free_inode are in          *)
(* bitmap.c/truncate.c), no inode is a pipe or a mount point.             *)
(***************************************************************************)
EXTENDS Naturals, FiniteSets

CONSTANTS
  Procs,      \* processes calling iget/iput/sync
  NR_INODE,   \* size of inode_table
  Inums,      \* inode numbers of the device (positive integers)
  MaxWrites,  \* bound on the number of changes to held inodes
  NoProc      \* model value: no process holds the CPU

ASSUME /\ NR_INODE \in Nat \ {0}
       /\ Inums \subseteq Nat \ {0} /\ Inums # {}
       /\ MaxWrites \in Nat
       /\ NoProc \notin Procs

Slots    == 1..NR_INODE
NoSlot   == 0
NoIno    == 0
Versions == 0..MaxWrites

Running  == <<"running", 0>>
IWait(i) == <<"i_wait", i>>
Channels == {Running} \cup {IWait(i) : i \in Slots}

PCs == {"idle", "gei", "gei_wait", "ig_search", "ig_wait", "ri_bread",
        "hold", "iput", "wi_lock", "wi_bread", "sync"}

\* Where write_inode returns to.
Returns == {"gei", "iput", "sync"}

DefaultIno == CHOOSE n \in Inums : TRUE

VARIABLES
  i_num,      \* i_num[i]; NoIno while i_dev = 0
  i_count, i_lock, i_dirt,
  i_data,     \* the version of the d_inode part of the slot
  last_inode, \* the static scan position of get_empty_inode
  dstore,     \* dstore[n]: version of inode n in the inode table block
  latest,     \* ghost: the last version given to inode n
  nwrites,
  pc,
  want,       \* the inode number iget looks for
  empty,      \* the slot get_empty_inode gave iget
  ino,        \* the slot the process works on (or holds)
  si,         \* loop index of sync_inodes
  ret,        \* where write_inode returns to
  sleeping, cur

inodeVars == <<i_num, i_count, i_lock, i_dirt, i_data, last_inode>>
ghostVars == <<latest, nwrites>>
frameVars == <<want, empty, ino, si, ret>>
vars == <<inodeVars, dstore, ghostVars, pc, frameVars, sleeping, cur>>

-----------------------------------------------------------------------------
(* Scheduling, as in BufferCache.                                         *)

Runs(p) == cur \in {NoProc, p} /\ sleeping[p] = Running

Wake(s, ch) == [q \in Procs |-> IF s[q] = ch THEN Running ELSE s[q]]

SleepOn(p, ch) ==
  /\ sleeping' = [sleeping EXCEPT ![p] = ch]
  /\ cur' = NoProc

\* unlock_inode: i_lock = 0 and wake_up(&inode->i_wait).
UnlockInodeNoWake(i) ==
  /\ i_lock' = [i_lock EXCEPT ![i] = 0]
  /\ UNCHANGED sleeping
UnlockInode(i) ==
  /\ i_lock' = [i_lock EXCEPT ![i] = 0]
  /\ sleeping' = Wake(sleeping, IWait(i))

-----------------------------------------------------------------------------
(* Lookup helpers.                                                         *)

\* The loop of get_empty_inode: from the slot after last_inode, once round
\* the table; an unreferenced slot is remembered, and the first one that
\* is also clean and unlocked ends the loop.  The result is the candidate
\* and the new last_inode.
RECURSIVE EmptyScan(_, _, _)
EmptyScan(k, at, found) ==
  IF k > NR_INODE THEN <<found, at>>
  ELSE LET t == (at % NR_INODE) + 1 IN
       IF i_count[t] = 0
       THEN IF i_dirt[t] = 0 /\ i_lock[t] = 0 THEN <<t, t>>
            ELSE EmptyScan(k + 1, t, t)
       ELSE EmptyScan(k + 1, t, found)

\* The slots whose (i_dev, i_num) iget's search loop matches.
CachedSlotsUnlocked(n) == {i \in Slots : i_num[i] = n /\ i_lock[i] = 0}
CachedSlots(n) == {i \in Slots : i_num[i] = n}

\* The end of get_empty_inode's do-while: the candidate is unlocked, clean
\* and still unreferenced.  Its other branches (write_inode while the
\* candidate is dirty, scan again when it was referenced meanwhile) are not
\* actions: UnreferencedClean shows an unreferenced inode is always clean
\* and unlocked, so the first candidate is taken at once.  For the same
\* reason write_inode always finds its inode dirty after lock_inode, and
\* its unlock-and-return branch is not an action either.
Reusable(i) == i_lock[i] = 0 /\ i_dirt[i] = 0 /\ i_count[i] = 0

\* memset(inode, 0, sizeof(*inode)): the slot forgets its inode.
ResetSlotKeepName(i) ==
  /\ i_num' = i_num
  /\ i_data' = [i_data EXCEPT ![i] = 0]
ResetSlot(i) ==
  /\ i_num' = [i_num EXCEPT ![i] = NoIno]
  /\ i_data' = [i_data EXCEPT ![i] = 0]

\* iput, at repeat, with the last reference: a dirty inode is written.
IputMustWriteNever(i) == FALSE
IputMustWrite(i) == i_dirt[i] = 1

\* The inode a process at a wait_on_inode or lock_inode tests, if any.
WaitTarget(p) ==
  CASE pc[p] \in {"gei_wait", "ig_wait", "iput", "wi_lock"} -> ino[p]
    [] pc[p] = "sync" /\ si[p] \in Slots -> si[p]
    [] OTHER -> NoSlot

\* write_inode(ino) is called and returns to r.
CallWriteInode(p, i, r) ==
  /\ pc' = [pc EXCEPT ![p] = "wi_lock"]
  /\ ino' = [ino EXCEPT ![p] = i]
  /\ ret' = [ret EXCEPT ![p] = r]

\* write_inode returns: get_empty_inode and iput wait on the inode again;
\* sync_inodes goes on with the next slot.
WriteInodeReturn(p) ==
  /\ pc' = [pc EXCEPT ![p] = IF ret[p] = "gei" THEN "gei_wait"
                              ELSE IF ret[p] = "iput" THEN "iput" ELSE "sync"]
  /\ si' = IF ret[p] = "sync" THEN [si EXCEPT ![p] = @ + 1] ELSE si
  /\ ino' = IF ret[p] = "sync" THEN [ino EXCEPT ![p] = NoSlot] ELSE ino
  /\ ret' = [ret EXCEPT ![p] = "gei"]

\* iget after wait_on_inode: the slot still holds the inode looked for.
StillNamedUnchecked(i, n) == TRUE
StillNamed(i, n) == i_num[i] = n

\* iput with more than one reference: "inode->i_count--; return;"
DropRefLost(i) == i_count
DropRef(i) == [i_count EXCEPT ![i] = @ - 1]

\* iget takes the found inode (i_count++) and drops the empty one with
\* iput(empty), whose i_dev is 0 (i_count--).
RefSwapLeak(i, e) == [i_count EXCEPT ![i] = @ + 1]
RefSwap(i, e) == [i_count EXCEPT ![i] = @ + 1, ![e] = @ - 1]

\* read_inode: lock_inode before the bread that may sleep (bread gives the
\* CPU away while it waits for the disk).
ReadLockSkipped(i) == i_lock' = i_lock
ReadLock(i) == i_lock' = [i_lock EXCEPT ![i] = 1]

-----------------------------------------------------------------------------
(* Process steps, each from one sleep point or call to the next.          *)

Init ==
  /\ i_num = [i \in Slots |-> NoIno]
  /\ i_count = [i \in Slots |-> 0]
  /\ i_lock = [i \in Slots |-> 0]
  /\ i_dirt = [i \in Slots |-> 0]
  /\ i_data = [i \in Slots |-> 0]
  /\ last_inode = 1
  /\ dstore = [n \in Inums |-> 0]
  /\ latest = [n \in Inums |-> 0]
  /\ nwrites = 0
  /\ pc = [p \in Procs |-> "idle"]
  /\ want = [p \in Procs |-> DefaultIno]
  /\ empty = [p \in Procs |-> NoSlot]
  /\ ino = [p \in Procs |-> NoSlot]
  /\ si = [p \in Procs |-> 1]
  /\ ret = [p \in Procs |-> "gei"]
  /\ sleeping = [p \in Procs |-> Running]
  /\ cur = NoProc

\* The process returns to the user; its frame dies.
ToIdle(p) ==
  /\ pc' = [pc EXCEPT ![p] = "idle"]
  /\ want' = [want EXCEPT ![p] = DefaultIno]
  /\ ino' = [ino EXCEPT ![p] = NoSlot]
  /\ cur' = NoProc

\* A caller asks for inode n: iget calls get_empty_inode first.
Iget(p, n) ==
  /\ pc[p] = "idle" /\ Runs(p)
  /\ pc' = [pc EXCEPT ![p] = "gei"]
  /\ want' = [want EXCEPT ![p] = n]
  /\ cur' = p
  /\ UNCHANGED <<inodeVars, dstore, ghostVars, empty, ino, si, ret, sleeping>>

\* wait_on_inode / lock_inode find the inode locked: sleep on i_wait.
SleepOnInode(p) ==
  /\ Runs(p)
  /\ WaitTarget(p) # NoSlot
  /\ i_lock[WaitTarget(p)] = 1
  /\ SleepOn(p, IWait(WaitTarget(p)))
  /\ UNCHANGED <<inodeVars, dstore, ghostVars, pc, frameVars>>

\* get_empty_inode: the scan finds an unreferenced slot.  (With none, the
\* code panics "No free inodes in mem"; with NR_INODE at least the
\* references the processes can hold, InodeRefCountExact rules it out.)
GetEmptyScan(p) ==
  /\ pc[p] = "gei" /\ Runs(p)
  /\ LET r == EmptyScan(1, last_inode, NoSlot) IN
       /\ r[1] # NoSlot
       /\ ino' = [ino EXCEPT ![p] = r[1]]
       /\ last_inode' = r[2]
  /\ pc' = [pc EXCEPT ![p] = "gei_wait"]
  /\ cur' = p
  /\ UNCHANGED <<i_num, i_count, i_lock, i_dirt, i_data, dstore, ghostVars,
                 want, empty, si, ret, sleeping>>



\* memset(inode, 0), i_count = 1: iget has its empty inode and searches.
GetEmptyTake(p) ==
  /\ pc[p] = "gei_wait" /\ Runs(p)
  /\ Reusable(ino[p])
  /\ ResetSlot(ino[p])
  /\ i_count' = [i_count EXCEPT ![ino[p]] = 1]
  /\ empty' = [empty EXCEPT ![p] = ino[p]]
  /\ ino' = [ino EXCEPT ![p] = NoSlot]
  /\ pc' = [pc EXCEPT ![p] = "ig_search"]
  /\ cur' = p
  /\ UNCHANGED <<i_lock, i_dirt, last_inode, dstore, ghostVars, want, si, ret, sleeping>>

\* iget's search loop finds a slot naming the inode and waits on it.
IgetFound(p) ==
  /\ pc[p] = "ig_search" /\ Runs(p)
  /\ CachedSlots(want[p]) # {}
  /\ ino' = [ino EXCEPT ![p] = CHOOSE i \in CachedSlots(want[p]) :
                                  \A j \in CachedSlots(want[p]) : i <= j]
  /\ pc' = [pc EXCEPT ![p] = "ig_wait"]
  /\ cur' = p
  /\ UNCHANGED <<inodeVars, dstore, ghostVars, want, empty, si, ret, sleeping>>

\* After wait_on_inode the slot names another inode: search from the start.
IgetRecheck(p) ==
  /\ pc[p] = "ig_wait" /\ Runs(p)
  /\ i_lock[ino[p]] = 0
  /\ ~StillNamed(ino[p], want[p])
  /\ pc' = [pc EXCEPT ![p] = "ig_search"]
  /\ ino' = [ino EXCEPT ![p] = NoSlot]
  /\ cur' = p
  /\ UNCHANGED <<inodeVars, dstore, ghostVars, want, empty, si, ret, sleeping>>

\* The slot still names the inode: i_count++, iput(empty), return it.
IgetTake(p) ==
  /\ pc[p] = "ig_wait" /\ Runs(p)
  /\ i_lock[ino[p]] = 0
  /\ StillNamed(ino[p], want[p])
  /\ i_count' = RefSwap(ino[p], empty[p])
  /\ empty' = [empty EXCEPT ![p] = NoSlot]
  /\ pc' = [pc EXCEPT ![p] = "hold"]
  /\ cur' = NoProc
  /\ UNCHANGED <<i_num, i_lock, i_dirt, i_data, last_inode, dstore, ghostVars,
                 want, ino, si, ret, sleeping>>

\* Not cached: the empty inode gets the number and read_inode locks it
\* and calls bread for the inode table block.  (lock_inode cannot sleep:
\* nobody else knows the empty slot yet.)
IgetNew(p) ==
  /\ pc[p] = "ig_search" /\ Runs(p)
  /\ CachedSlots(want[p]) = {}
  /\ i_num' = [i_num EXCEPT ![empty[p]] = want[p]]
  /\ ReadLock(empty[p])
  /\ ino' = [ino EXCEPT ![p] = empty[p]]
  /\ empty' = [empty EXCEPT ![p] = NoSlot]
  /\ pc' = [pc EXCEPT ![p] = "ri_bread"]
  /\ cur' = NoProc
  /\ UNCHANGED <<i_count, i_dirt, i_data, last_inode, dstore, ghostVars,
                 want, si, ret, sleeping>>

\* read_inode after bread: copy the d_inode, brelse, unlock_inode.
ReadInodeDone(p) ==
  /\ pc[p] = "ri_bread" /\ Runs(p)
  /\ i_data' = [i_data EXCEPT ![ino[p]] = dstore[i_num[ino[p]]]]
  /\ UnlockInode(ino[p])
  /\ pc' = [pc EXCEPT ![p] = "hold"]
  /\ cur' = NoProc
  /\ UNCHANGED <<i_num, i_count, i_dirt, last_inode, dstore, ghostVars, frameVars>>

\* The holder changes the inode (i_size, i_mtime, i_zone...) and sets
\* i_dirt, without locking it, as file_write and _bmap do.
ModifyInode(p) ==
  /\ pc[p] = "hold" /\ Runs(p)
  /\ nwrites < MaxWrites
  /\ i_data' = [i_data EXCEPT ![ino[p]] = nwrites + 1]
  /\ i_dirt' = [i_dirt EXCEPT ![ino[p]] = 1]
  /\ latest' = [latest EXCEPT ![want[p]] = nwrites + 1]
  /\ nwrites' = nwrites + 1
  /\ cur' = NoProc
  /\ UNCHANGED <<i_num, i_count, i_lock, last_inode, dstore, pc, frameVars, sleeping>>

\* The holder calls iput, which first waits on the inode.
IputStart(p) ==
  /\ pc[p] = "hold" /\ Runs(p)
  /\ pc' = [pc EXCEPT ![p] = "iput"]
  /\ cur' = p
  /\ UNCHANGED <<inodeVars, dstore, ghostVars, frameVars, sleeping>>

\* iput, repeat: another reference remains, i_count--.
IputDec(p) ==
  /\ pc[p] = "iput" /\ Runs(p)
  /\ i_lock[ino[p]] = 0
  /\ i_count[ino[p]] > 1
  /\ i_count' = DropRef(ino[p])
  /\ ToIdle(p)
  /\ UNCHANGED <<i_num, i_lock, i_dirt, i_data, last_inode, dstore, ghostVars,
                 empty, si, ret, sleeping>>

\* iput, last reference of a dirty inode: write_inode, wait, repeat.
IputWrite(p) ==
  /\ pc[p] = "iput" /\ Runs(p)
  /\ i_lock[ino[p]] = 0
  /\ i_count[ino[p]] = 1
  /\ IputMustWrite(ino[p])
  /\ CallWriteInode(p, ino[p], "iput")
  /\ cur' = p
  /\ UNCHANGED <<inodeVars, dstore, ghostVars, want, empty, si, sleeping>>

\* iput, last reference of a clean inode: i_count-- to 0; the inode stays
\* cached for a later iget.
IputLast(p) ==
  /\ pc[p] = "iput" /\ Runs(p)
  /\ i_lock[ino[p]] = 0
  /\ i_count[ino[p]] = 1
  /\ ~IputMustWrite(ino[p])
  /\ i_count' = [i_count EXCEPT ![ino[p]] = 0]
  /\ ToIdle(p)
  /\ UNCHANGED <<i_num, i_lock, i_dirt, i_data, last_inode, dstore, ghostVars,
                 empty, si, ret, sleeping>>

\* write_inode: lock_inode; the inode is dirty and has a device, so the
\* inode table block is read with bread.
WriteInodeLock(p) ==
  /\ pc[p] = "wi_lock" /\ Runs(p)
  /\ i_lock[ino[p]] = 0
  /\ i_dirt[ino[p]] = 1 /\ i_num[ino[p]] # NoIno
  /\ i_lock' = [i_lock EXCEPT ![ino[p]] = 1]
  /\ pc' = [pc EXCEPT ![p] = "wi_bread"]
  /\ cur' = NoProc
  /\ UNCHANGED <<i_num, i_count, i_dirt, i_data, last_inode, dstore, ghostVars,
                 frameVars, sleeping>>


\* write_inode after bread: copy the d_inode into the block, b_dirt = 1,
\* i_dirt = 0, brelse, unlock_inode.
WriteInodeDone(p) ==
  /\ pc[p] = "wi_bread" /\ Runs(p)
  /\ dstore' = [dstore EXCEPT ![i_num[ino[p]]] = i_data[ino[p]]]
  /\ i_dirt' = [i_dirt EXCEPT ![ino[p]] = 0]
  /\ UnlockInode(ino[p])
  /\ WriteInodeReturn(p)
  /\ cur' = p
  /\ UNCHANGED <<i_num, i_count, i_data, last_inode, ghostVars, want, empty>>

\* sys_sync calls sync_inodes: a loop over the table.
SyncInodes(p) ==
  /\ pc[p] = "idle" /\ Runs(p)
  /\ pc' = [pc EXCEPT ![p] = "sync"]
  /\ si' = [si EXCEPT ![p] = 1]
  /\ cur' = p
  /\ UNCHANGED <<inodeVars, dstore, ghostVars, want, empty, ino, ret, sleeping>>

\* sync_inodes after wait_on_inode: a clean inode is skipped.
SyncNext(p) ==
  /\ pc[p] = "sync" /\ Runs(p)
  /\ si[p] \in Slots
  /\ i_lock[si[p]] = 0
  /\ i_dirt[si[p]] = 0
  /\ si' = [si EXCEPT ![p] = @ + 1]
  /\ cur' = p
  /\ UNCHANGED <<inodeVars, dstore, ghostVars, pc, want, empty, ino, ret, sleeping>>

\* sync_inodes: a dirty inode is written with write_inode.
SyncWrite(p) ==
  /\ pc[p] = "sync" /\ Runs(p)
  /\ si[p] \in Slots
  /\ i_lock[si[p]] = 0
  /\ i_dirt[si[p]] = 1
  /\ CallWriteInode(p, si[p], "sync")
  /\ cur' = p
  /\ UNCHANGED <<inodeVars, dstore, ghostVars, want, empty, si, sleeping>>

\* sync_inodes is done.
SyncDone(p) ==
  /\ pc[p] = "sync" /\ Runs(p)
  /\ si[p] = NR_INODE + 1
  /\ pc' = [pc EXCEPT ![p] = "idle"]
  /\ si' = [si EXCEPT ![p] = 1]
  /\ cur' = NoProc
  /\ UNCHANGED <<inodeVars, dstore, ghostVars, want, empty, ino, ret, sleeping>>

-----------------------------------------------------------------------------
Next ==
  \E p \in Procs :
    \/ \E n \in Inums : Iget(p, n)
    \/ SleepOnInode(p)
    \/ GetEmptyScan(p) \/ GetEmptyTake(p)
    \/ IgetFound(p) \/ IgetRecheck(p) \/ IgetTake(p) \/ IgetNew(p) \/ ReadInodeDone(p)
    \/ ModifyInode(p) \/ IputStart(p) \/ IputDec(p) \/ IputWrite(p) \/ IputLast(p)
    \/ WriteInodeLock(p) \/ WriteInodeDone(p)
    \/ SyncInodes(p) \/ SyncNext(p) \/ SyncWrite(p) \/ SyncDone(p)

Spec == Init /\ [][Next]_vars

-----------------------------------------------------------------------------
(* Properties.                                                             *)

TypeOK ==
  /\ i_num \in [Slots -> Inums \cup {NoIno}]
  /\ i_count \in [Slots -> 0..Cardinality(Procs)]
  /\ i_lock \in [Slots -> {0, 1}] /\ i_dirt \in [Slots -> {0, 1}]
  /\ i_data \in [Slots -> Versions]
  /\ last_inode \in Slots
  /\ dstore \in [Inums -> Versions] /\ latest \in [Inums -> Versions]
  /\ pc \in [Procs -> PCs]
  /\ empty \in [Procs -> Slots \cup {NoSlot}] /\ ino \in [Procs -> Slots \cup {NoSlot}]
  /\ ret \in [Procs -> Returns]
  /\ sleeping \in [Procs -> Channels]

\* p holds a counted reference to ino[p]: from iget's return (or read_inode)
\* until iput drops it.
HoldsRef(p) ==
  \/ pc[p] \in {"ri_bread", "hold", "iput"}
  \/ pc[p] \in {"wi_lock", "wi_bread"} /\ ret[p] = "iput"

\* i_count of every slot is exactly the number of references held: the
\* empty inodes of running igets and the inodes held between iget and
\* iput.  get_empty_inode's "while (inode->i_count)" re-test after it
\* slept is what keeps a revived inode from being reset under its holder,
\* and the iput(empty) of iget is what returns the spare slot.
InodeRefCountExact ==
  \A i \in Slots :
    i_count[i] = Cardinality({p \in Procs : empty[p] = i})
                 + Cardinality({p \in Procs : HoldsRef(p) /\ ino[p] = i})

\* No inode number is in two slots: iget searches only after
\* get_empty_inode, which may sleep, and the search sees slots still
\* being read in by read_inode.
UniqueInodes ==
  \A i, j \in Slots : i # j /\ i_num[i] # NoIno => i_num[i] # i_num[j]

\* Whoever holds an inode from iget holds the inode it asked for: iget
\* re-tests (i_dev, i_num) after wait_on_inode, because the slot may have
\* been reused by get_empty_inode while it slept.
HolderHasInode ==
  \A p \in Procs : HoldsRef(p) => i_num[ino[p]] = want[p]

\* No change to an inode is lost: the latest version is in the inode
\* table block, or in a cached dirty slot of that inode.  It is what
\* get_empty_inode's write_inode loop and iput's dirty loop are for.
NoLostInodeUpdate ==
  \A n \in Inums :
    \/ dstore[n] = latest[n]
    \/ \E i \in Slots : i_num[i] = n /\ i_dirt[i] = 1 /\ i_data[i] = latest[n]

\* A cached inode that is not being read in holds the latest version of
\* its inode: nobody gets at a slot read_inode is still filling, since it
\* is locked from before the bread until after the copy.
CachedInodeCurrent ==
  \A i \in Slots :
    i_num[i] # NoIno /\ ~(\E p \in Procs : pc[p] = "ri_bread" /\ ino[p] = i)
      => i_data[i] = latest[i_num[i]]

\* An unreferenced inode is clean and unlocked: every change is made by a
\* holder, and iput writes a dirty inode back (and re-tests, since it
\* may be changed again while write_inode sleeps) before it drops the
\* last reference.  So get_empty_inode never has to write an inode back.
UnreferencedClean ==
  \A i \in Slots : i_count[i] = 0 => i_dirt[i] = 0 /\ i_lock[i] = 0

\* Nobody sleeps on an unlocked inode: every unlock_inode wakes i_wait.
NoLostWakeup ==
  \A p \in Procs, i \in Slots : sleeping[p] = IWait(i) => i_lock[i] = 1

====

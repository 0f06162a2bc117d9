------------------------------- MODULE Super -------------------------------
(***************************************************************************)
(* The superblock table of fs/super.c and the mount points it ties to the *)
(* inode table: get_super, read_super, put_super, sys_mount, sys_umount,  *)
(* and from fs/inode.c the parts of iget, iput, write_inode and           *)
(* sync_inodes that act on mount points; sys_chdir (fs/open.c) is how a   *)
(* process keeps a directory, and so a mounted file system, in use.       *)
(*                                                                         *)
(* Processes run without preemption from one sleep to the next (variable  *)
(* cur).  A wait loop "while (x->lock) sleep_on(&x->wait)" is a guard on  *)
(* the lock: wake_up wakes every sleeper, which tests the lock again.     *)
(* bread and sync_dev sleep only when they start a transfer, so after     *)
(* them the process may or may not keep the CPU.  Each procedure call     *)
(* pushes its return point on stack[p].                                   *)
(*                                                                         *)
(* The inodes are the directories of the root device that can be mount   *)
(* points, the root directory, and the root inode of each other device;   *)
(* all stay in the inode table (InodeCache models eviction).  A           *)
(* superblock's bitmap buffers are counted, not named: s_imap[s] and      *)
(* s_zmap[s] are the numbers of inode and zone bitmap buffers the slot    *)
(* holds references to.  Device nodes named to mount/umount are block     *)
(* devices and every path given to chdir is a directory.                  *)
(***************************************************************************)
EXTENDS Naturals, Sequences, FiniteSets, FiniteSetsExt

CONSTANTS
  Procs,        \* processes making system calls
  Mounters,     \* the processes that call sys_mount
  Umounters,    \* the processes that call sys_umount
  NR_SUPER,     \* size of super_block[]
  ROOT_DEV,     \* the root device (a positive integer)
  Devs,         \* the other devices that can be mounted
  ROOT_INO,     \* inode number of a root directory
  Dirs,         \* inode numbers of other directories of the root device
  IMAP_BLOCKS,  \* s_imap_blocks of every device
  ZMAP_BLOCKS,  \* s_zmap_blocks of every device
  NoProc,       \* model value: no process holds the CPU
  Namers,       \* the processes that call sys_open, sys_close, sys_unlink
  Files,        \* inode numbers of the regular files of the root device
  Names,        \* file names (model values) used in the root directory
  NoName,       \* model value: an entry that never held a name
  NENT,         \* entries of the root directory (one block)
  NR_OPEN,      \* size of a process's filp[]
  NR_FILE       \* size of file_table[]

ASSUME /\ Mounters \subseteq Procs /\ Umounters \subseteq Procs /\ NoProc \notin Procs
       /\ NR_SUPER \in Nat \ {0}
       /\ ROOT_DEV \in Nat \ {0} /\ Devs \subseteq Nat \ {0, ROOT_DEV}
       /\ ROOT_INO \in Nat \ {0} /\ Dirs \subseteq Nat \ {0, ROOT_INO}
       /\ IMAP_BLOCKS \in Nat /\ ZMAP_BLOCKS \in Nat
       /\ Namers \subseteq Procs /\ NoName \notin Names
       /\ Files \subseteq Nat \ ({0, ROOT_INO} \cup Dirs)
       /\ NENT \in Nat \ {0} /\ NR_OPEN \in Nat \ {0} /\ NR_FILE \in Nat \ {0}

Slots    == 1..NR_SUPER
AllDevs  == {ROOT_DEV} \cup Devs
Root(d)  == <<d, ROOT_INO>>
RootDir  == Root(ROOT_DEV)
File(f)  == <<ROOT_DEV, f>>
FileInodes == {File(f) : f \in Files}
Inodes   == {<<ROOT_DEV, n>> : n \in {ROOT_INO} \cup Dirs} \cup {Root(d) : d \in Devs}
            \cup FileInodes
Entries  == 1..NENT
FileSlots == 1..NR_FILE
Fds      == 0..NR_OPEN - 1
NoInode  == <<0, 0>>
NoDir    == 0    \* a chdir target outside the modelled inodes

\* mount_root: "mi->i_count += 3; /* it is logically used 4 times */"
\* (s_isup, s_imount, pwd and root of process 1)
BaseRefs(n) == IF n = RootDir THEN 4 ELSE 0

VARIABLES
  s_dev, s_lock, s_imount, s_imap, s_zmap,   \* super_block[]
  i_count, i_lock, i_dirt, i_mount,          \* the modelled inodes
  pc, stack,                                 \* program point, return points
  dev, sb, tgt, via, res, dir_i, ip, wi, todo, pwd,  \* locals, current->pwd
  cur,
  de_ino, de_name,   \* the root directory's entries: inode number, name
  imap,              \* the inode bitmap bits of Files
  i_nlinks,          \* link counts of the modelled inodes
  filp,              \* current->filp[]: file_table indices, 0 for NULL
  f_count, f_inode,  \* file_table[]
  nm, ent, fino, dref, \* namei locals: name, entry found, file inode, dir held
  fd                 \* sys_open's fd

superVars == <<s_dev, s_lock, s_imount, s_imap, s_zmap>>
inodeVars == <<i_count, i_lock, i_dirt, i_mount>>
localVars == <<dev, sb, tgt, via, res, dir_i, ip, wi, todo, pwd>>
dirVars   == <<de_ino, de_name, imap, i_nlinks>>
fileVars  == <<filp, f_count, f_inode, fd>>
nameVars  == <<nm, ent, fino, dref>>
vars == <<superVars, inodeVars, pc, stack, localVars, cur, dirVars, fileVars, nameVars>>

Runs(p)  == cur \in {NoProc, p}
Keep(p)  == cur' = p
Sleep    == cur' = NoProc
\* bread, brelse and sync_dev sleep only if they must wait for the disk
MaySleep(p) == cur' \in {NoProc, p}

Goto(p, l)       == pc' = [pc EXCEPT ![p] = l] /\ UNCHANGED stack
Call(p, l, back) == /\ pc' = [pc EXCEPT ![p] = l]
                    /\ stack' = [stack EXCEPT ![p] = <<back>> \o @]
Ret(p)           == /\ pc' = [pc EXCEPT ![p] = Head(stack[p])]
                    /\ stack' = [stack EXCEPT ![p] = Tail(@)]
\* returning from the system call lets the scheduler run another process
Resume(p) == cur' = IF Head(stack[p]) = "idle" THEN NoProc ELSE p

Set(f, x, v) == [f EXCEPT ![x] = v]

Init ==
  /\ s_dev    = [s \in Slots |-> IF s = 1 THEN ROOT_DEV ELSE 0]
  /\ s_lock   = [s \in Slots |-> 0]
  /\ s_imount = [s \in Slots |-> IF s = 1 THEN RootDir ELSE NoInode]
  /\ s_imap   = [s \in Slots |-> IF s = 1 THEN IMAP_BLOCKS ELSE 0]
  /\ s_zmap   = [s \in Slots |-> IF s = 1 THEN ZMAP_BLOCKS ELSE 0]
  /\ i_count  = [n \in Inodes |-> BaseRefs(n)]
  /\ i_lock   = [n \in Inodes |-> 0]
  /\ i_dirt   = [n \in Inodes |-> 0]
  /\ i_mount  = [n \in Inodes |-> 0]
  /\ pc    = [p \in Procs |-> "idle"]
  /\ stack = [p \in Procs |-> <<>>]
  /\ dev = [p \in Procs |-> 0]
  /\ sb  = [p \in Procs |-> 0]
  /\ tgt = [p \in Procs |-> NoInode]
  /\ via = [p \in Procs |-> NoInode]
  /\ res = [p \in Procs |-> NoInode]
  /\ dir_i = [p \in Procs |-> NoInode]
  /\ ip  = [p \in Procs |-> NoInode]
  /\ wi  = [p \in Procs |-> NoInode]
  /\ todo = [p \in Procs |-> {}]
  /\ pwd = [p \in Procs |-> NoInode]
  /\ cur = NoProc
  /\ de_ino = [e \in Entries |-> 0]
  /\ de_name = [e \in Entries |-> NoName]
  /\ imap = [f \in Files |-> 0]
  /\ i_nlinks = [n \in Inodes |-> IF n \in FileInodes THEN 0 ELSE 2]
  /\ filp = [p \in Procs |-> [d \in Fds |-> 0]]
  /\ fd = [p \in Procs |-> 0]
  /\ f_count = [i \in FileSlots |-> 0]
  /\ f_inode = [i \in FileSlots |-> NoInode]
  /\ nm = [p \in Procs |-> NoName]
  /\ ent = [p \in Procs |-> 0]
  /\ fino = [p \in Procs |-> NoInode]
  /\ dref = [p \in Procs |-> FALSE]

(***************************************************************************)
(* Waiting: lock_super, wait_on_super, wait_on_inode, lock_inode.  A      *)
(* process that finds the lock it waits for held gives up the CPU.       *)
(***************************************************************************)
WaitsOn(p) ==
  CASE pc[p] \in {"rs_lock", "ps_lock", "gs_wait"} -> s_lock[sb[p]] = 1
    [] pc[p] = "ig" -> i_lock[tgt[p]] = 1
    [] pc[p] = "ip" -> i_lock[ip[p]] = 1
    [] OTHER        -> FALSE

SleepOn(p) ==
  /\ cur = p /\ WaitsOn(p)
  /\ Sleep
  /\ UNCHANGED <<superVars, inodeVars, pc, stack, localVars>>

(***************************************************************************)
(* get_super(dev): the first slot of the device; if it is locked, wait   *)
(* and test s_dev again, scanning from the start if it changed.          *)
(***************************************************************************)
SupersOfNone(d) == {}
SupersOf(d) == {s \in Slots : s_dev[s] = d}

GetSuperNone(p) ==
  /\ Runs(p) /\ pc[p] = "gs" /\ SupersOf(dev[p]) = {}
  /\ sb' = Set(sb, p, 0)
  /\ Ret(p) /\ Resume(p)
  /\ UNCHANGED <<superVars, inodeVars, dev, tgt, via, res, dir_i, ip, wi, todo, pwd>>

GetSuperFound(p) ==
  /\ Runs(p) /\ pc[p] = "gs" /\ SupersOf(dev[p]) # {}
  /\ LET s == Min(SupersOf(dev[p])) IN
       /\ sb' = Set(sb, p, s)
       /\ IF s_lock[s] = 0 THEN Ret(p) /\ Resume(p)
                           ELSE Goto(p, "gs_wait") /\ Sleep
  /\ UNCHANGED <<superVars, inodeVars, dev, tgt, via, res, dir_i, ip, wi, todo, pwd>>

\* "if (s->s_dev == dev) return s;" after wait_on_super
StillSuper(p) == s_dev[sb[p]] = dev[p]

GetSuperWake(p) ==
  /\ Runs(p) /\ pc[p] = "gs_wait" /\ s_lock[sb[p]] = 0
  /\ IF StillSuper(p) THEN Ret(p) /\ Resume(p)
                      ELSE Goto(p, "gs") /\ Keep(p)
  /\ UNCHANGED <<superVars, inodeVars, localVars>>

(***************************************************************************)
(* read_super(dev), called by sys_mount.                                  *)
(***************************************************************************)
ReadSuperStart(p) ==
  /\ Runs(p) /\ pc[p] = "rs"
  /\ Call(p, "gs", "rs_got") /\ Keep(p)
  /\ UNCHANGED <<superVars, inodeVars, localVars>>

FreeSupers == {s \in Slots : s_dev[s] = 0}

\* lock_super(s) on the slot just claimed: a free slot can still be
\* locked by a put_super that is releasing its bitmaps; then sleep.
\* Otherwise take the lock and bread(dev, 1).
LockSuper(p, s) ==
  IF s_lock[s] = 0
    THEN s_lock' = Set(s_lock, s, 1) /\ Goto(p, "rs_read") /\ MaySleep(p)
    ELSE UNCHANGED s_lock /\ Goto(p, "rs_lock") /\ Sleep

ReadSuperGot(p) ==
  /\ Runs(p) /\ pc[p] = "rs_got"
  /\ \/ sb[p] # 0 /\ Ret(p) /\ Keep(p) /\ UNCHANGED <<superVars, sb>>
     \/ sb[p] = 0 /\ FreeSupers = {} /\ Ret(p) /\ Keep(p)
        /\ UNCHANGED <<superVars, sb>>
     \/ sb[p] = 0 /\ FreeSupers # {}
        /\ LET s == Min(FreeSupers) IN
             /\ s_dev' = Set(s_dev, s, dev[p])
             /\ s_imount' = Set(s_imount, s, NoInode)
             /\ sb' = Set(sb, p, s)
             /\ LockSuper(p, s)
        /\ UNCHANGED <<s_imap, s_zmap>>
  /\ UNCHANGED <<inodeVars, dev, tgt, via, res, dir_i, ip, wi, todo, pwd>>

\* woken in lock_super(s): take the lock, then bread(dev, 1)
ReadSuperLock(p) ==
  /\ Runs(p) /\ pc[p] = "rs_lock" /\ s_lock[sb[p]] = 0
  /\ s_lock' = Set(s_lock, sb[p], 1)
  /\ Goto(p, "rs_read") /\ MaySleep(p)
  /\ UNCHANGED <<s_dev, s_imount, s_imap, s_zmap, inodeVars, localVars>>

\* the superblock is unreadable, or its magic is wrong: free the slot
ReadSuperBlock(p) ==
  /\ Runs(p) /\ pc[p] = "rs_read"
  /\ \/ Goto(p, "rs_imap") /\ Keep(p)
        /\ UNCHANGED <<s_dev, s_lock, sb>>
     \/ s_dev' = Set(s_dev, sb[p], 0) /\ s_lock' = Set(s_lock, sb[p], 0)
        /\ sb' = Set(sb, p, 0)
        /\ Ret(p) /\ Keep(p)
  /\ UNCHANGED <<s_imount, s_imap, s_zmap, inodeVars, dev, tgt, via, res, dir_i, ip, wi, todo, pwd>>

\* "for (i=0 ; i < s->s_imap_blocks ; i++) if (s->s_imap[i]=bread(..)) block++; else break;"
ImapLeftPastEnd(s) == s_imap[s] <= IMAP_BLOCKS
ImapLeft(s) == s_imap[s] < IMAP_BLOCKS

ReadSuperImap(p) ==
  /\ Runs(p) /\ pc[p] = "rs_imap"
  /\ \/ ImapLeft(sb[p]) /\ s_imap' = Set(s_imap, sb[p], s_imap[sb[p]] + 1)
        /\ UNCHANGED stack /\ MaySleep(p) /\ UNCHANGED pc
     \/ ImapLeft(sb[p]) /\ Goto(p, "rs_zmap") /\ MaySleep(p)
        /\ UNCHANGED s_imap
     \/ ~ImapLeft(sb[p]) /\ Goto(p, "rs_zmap") /\ Keep(p)
        /\ UNCHANGED s_imap
  /\ UNCHANGED <<s_dev, s_lock, s_imount, s_zmap, inodeVars, localVars>>

ReadSuperZmap(p) ==
  /\ Runs(p) /\ pc[p] = "rs_zmap"
  /\ \/ s_zmap[sb[p]] < ZMAP_BLOCKS
        /\ s_zmap' = Set(s_zmap, sb[p], s_zmap[sb[p]] + 1)
        /\ UNCHANGED stack /\ MaySleep(p) /\ UNCHANGED pc
     \/ s_zmap[sb[p]] < ZMAP_BLOCKS /\ Goto(p, "rs_check") /\ MaySleep(p)
        /\ UNCHANGED s_zmap
     \/ s_zmap[sb[p]] = ZMAP_BLOCKS /\ Goto(p, "rs_check") /\ Keep(p)
        /\ UNCHANGED s_zmap
  /\ UNCHANGED <<s_dev, s_lock, s_imount, s_imap, inodeVars, localVars>>

\* "for(i=0;i<I_MAP_SLOTS;i++) brelse(s->s_imap[i]); ... s_zmap ..."
ReleaseImapOnly(s) == s_imap' = Set(s_imap, s, 0) /\ s_zmap' = s_zmap
ReleaseMaps(s) == s_imap' = Set(s_imap, s, 0) /\ s_zmap' = Set(s_zmap, s, 0)

\* "if (block != 2+s->s_imap_blocks+s->s_zmap_blocks)": a read failed
ReadSuperCheck(p) ==
  /\ Runs(p) /\ pc[p] = "rs_check"
  /\ LET s == sb[p] IN
     \/ s_imap[s] = IMAP_BLOCKS /\ s_zmap[s] = ZMAP_BLOCKS
        /\ s_lock' = Set(s_lock, s, 0)
        /\ UNCHANGED <<s_dev, s_imap, s_zmap, sb>>
     \/ ~(s_imap[s] = IMAP_BLOCKS /\ s_zmap[s] = ZMAP_BLOCKS)
        /\ ReleaseMaps(s)
        /\ s_dev' = Set(s_dev, s, 0) /\ s_lock' = Set(s_lock, s, 0)
        /\ sb' = Set(sb, p, 0)
  /\ Ret(p) /\ Keep(p)
  /\ UNCHANGED <<s_imount, inodeVars, dev, tgt, via, res, dir_i, ip, wi, todo, pwd>>

(***************************************************************************)
(* iget of a cached inode: wait for it, take a reference, and if it is a *)
(* mount point release it and look up the root inode of the device       *)
(* mounted on it.  The slot is found before the iput that may sleep and  *)
(* its s_dev is read after it.                                           *)
(***************************************************************************)
MountedOn(n) == {s \in Slots : s_imount[s] = n}

\* "for (i = 0 ; i<NR_SUPER ; i++) if (super_block[i].s_imount==inode) break;"
MountSlotByDev(n) == Min({s \in Slots : s_dev[s] = n[1]})
MountSlot(n) == Min(MountedOn(n))

IgetFind(p) ==
  /\ Runs(p) /\ pc[p] = "ig" /\ i_lock[tgt[p]] = 0
  /\ i_count' = [i_count EXCEPT ![tgt[p]] = @ + 1]
  /\ IF i_mount[tgt[p]] = 1
       THEN /\ MountedOn(tgt[p]) # {}
            /\ sb' = Set(sb, p, MountSlot(tgt[p]))
            /\ via' = Set(via, p, tgt[p])
            /\ ip' = Set(ip, p, tgt[p])
            /\ Call(p, "ip", "ig_cross") /\ Keep(p)
            /\ UNCHANGED res
       ELSE /\ res' = Set(res, p, tgt[p])
            /\ Ret(p) /\ Resume(p)
            /\ UNCHANGED <<sb, via, ip>>
  /\ UNCHANGED <<superVars, i_lock, i_dirt, i_mount, dev, tgt, dir_i, wi, todo, pwd>>

\* "dev = super_block[i].s_dev; nr = ROOT_INO;" and scan again.  With
\* s_dev = 0 read_inode would panic; CrossingReachesMounted rules it out.
IgetCross(p) ==
  /\ Runs(p) /\ pc[p] = "ig_cross" /\ s_dev[sb[p]] # 0
  /\ tgt' = Set(tgt, p, Root(s_dev[sb[p]]))
  /\ via' = Set(via, p, NoInode)
  /\ Goto(p, "ig") /\ Keep(p)
  /\ UNCHANGED <<superVars, inodeVars, dev, sb, res, dir_i, ip, wi, todo, pwd>>

(***************************************************************************)
(* iput: wait for the inode; more than one reference: drop it; the last *)
(* one of an inode without links: truncate and free it (IputFree); else  *)
(* write the inode back first if it is dirty and try again.  iput of a   *)
(* free inode panics; with one sys_umount at a time it never happens     *)
(* (MountRefExact).                                                       *)
(***************************************************************************)
DropRefLost(n) == i_count
DropRef(n) == [i_count EXCEPT ![n] = @ - 1]

IputStart(p) ==
  /\ Runs(p) /\ pc[p] = "ip" /\ i_lock[ip[p]] = 0
  /\ LET n == ip[p] IN
     \/ i_count[n] > 1 /\ i_count' = DropRef(n)
        /\ ip' = Set(ip, p, NoInode) /\ Ret(p) /\ Resume(p)
        /\ UNCHANGED wi
     \/ i_count[n] = 1 /\ i_nlinks[n] = 0
        /\ Goto(p, "ip_free") /\ MaySleep(p)
        /\ UNCHANGED <<i_count, ip, wi>>
     \/ i_count[n] = 1 /\ i_nlinks[n] # 0 /\ i_dirt[n] = 0
        /\ i_count' = [i_count EXCEPT ![n] = 0]
        /\ ip' = Set(ip, p, NoInode) /\ Ret(p) /\ Resume(p)
        /\ UNCHANGED wi
     \/ i_count[n] = 1 /\ i_nlinks[n] # 0 /\ i_dirt[n] = 1
        /\ wi' = Set(wi, p, n) /\ Call(p, "wi", "ip") /\ Keep(p)
        /\ UNCHANGED <<i_count, ip>>
  /\ UNCHANGED <<superVars, i_lock, i_dirt, i_mount, dev, sb, tgt, via, res, dir_i, todo, pwd>>

\* write_inode: lock_inode, then bread the inode block (the inode's device
\* is the root device, whose superblock is never locked).  Both callers
\* (iput and sync_inodes) found the inode dirty and unlocked just before,
\* without sleeping since, so lock_inode never waits and the "!i_dirt"
\* early return never fires.
WriteInodeLock(p) ==
  /\ Runs(p) /\ pc[p] = "wi"
  /\ i_lock' = Set(i_lock, wi[p], 1)
  /\ Goto(p, "wi_done") /\ MaySleep(p)
  /\ UNCHANGED <<superVars, i_count, i_dirt, i_mount, localVars>>

WriteInodeDone(p) ==
  /\ Runs(p) /\ pc[p] = "wi_done"
  /\ i_dirt' = Set(i_dirt, wi[p], 0) /\ i_lock' = Set(i_lock, wi[p], 0)
  /\ Ret(p) /\ Resume(p)
  /\ UNCHANGED <<superVars, i_count, i_mount, localVars>>

\* sync_inodes, the first half of sys_sync: every inode in table order,
\* waiting for it and writing it if dirty.  Here only the mount point
\* (sys_mount sets its i_dirt) and files (new_inode, sys_unlink) are ever
\* dirtied or locked, so the visit of any other inode does nothing.  The
\* code's namei also dirties the inode it returns ("dir->i_dirt=1", for
\* i_atime), the directory of sys_chdir and sys_mount; the model leaves
\* that out, so a chdir target or a crossed root is never written back
\* and its last iput never sleeps.  Such an iput holds the last
\* reference, so a sys_umount of its device meanwhile returns EBUSY.
Dirtyable == {<<ROOT_DEV, x>> : x \in Dirs} \cup FileInodes
NextInode(S) == CHOOSE n \in S : \A m \in S : n[2] <= m[2]

SyncStart(p) ==
  /\ Runs(p) /\ pc[p] = "idle"
  /\ todo' = Set(todo, p, Dirtyable)
  /\ Goto(p, "si") /\ Keep(p)
  /\ UNCHANGED <<superVars, inodeVars, dev, sb, tgt, via, res, dir_i, ip, wi, pwd>>

SyncNext(p) ==
  /\ Runs(p) /\ pc[p] = "si" /\ todo[p] # {}
  /\ LET n == NextInode(todo[p]) IN
       /\ i_lock[n] = 0
       /\ todo' = Set(todo, p, todo[p] \ {n})
       /\ IF i_dirt[n] = 1 THEN wi' = Set(wi, p, n) /\ Call(p, "wi", "si")
                           ELSE UNCHANGED wi /\ Goto(p, "si")
  /\ Keep(p)
  /\ UNCHANGED <<superVars, inodeVars, dev, sb, tgt, via, res, dir_i, ip, pwd>>

SyncSleep(p) ==
  /\ cur = p /\ pc[p] = "si" /\ todo[p] # {}
  /\ i_lock[NextInode(todo[p])] = 1
  /\ Sleep
  /\ UNCHANGED <<superVars, inodeVars, pc, stack, localVars>>

SyncDone(p) ==
  /\ Runs(p) /\ pc[p] = "si" /\ todo[p] = {}
  /\ Goto(p, "idle") /\ Sleep
  /\ UNCHANGED <<superVars, inodeVars, localVars>>

(***************************************************************************)
(* sys_chdir: namei, then iput(current->pwd), then current->pwd = inode.  *)
(* A target of NoDir is a directory outside the modelled inodes.         *)
(***************************************************************************)
Chdir(p, x) ==
  /\ Runs(p) /\ pc[p] = "idle"
  /\ IF x = NoDir
       THEN /\ res' = Set(res, p, NoInode) /\ Goto(p, "cd_got")
            /\ UNCHANGED tgt
       ELSE /\ tgt' = Set(tgt, p, <<ROOT_DEV, x>>) /\ Call(p, "ig", "cd_got")
            /\ UNCHANGED res
  /\ Keep(p)
  /\ UNCHANGED <<superVars, inodeVars, dev, sb, via, dir_i, ip, wi, todo, pwd>>

ChdirGot(p) ==
  /\ Runs(p) /\ pc[p] = "cd_got"
  /\ \/ pwd[p] = NoInode /\ Goto(p, "cd_set") /\ UNCHANGED <<ip, pwd>>
     \/ pwd[p] # NoInode /\ ip' = Set(ip, p, pwd[p]) /\ pwd' = Set(pwd, p, NoInode)
        /\ Call(p, "ip", "cd_set")
  /\ Keep(p)
  /\ UNCHANGED <<superVars, inodeVars, dev, sb, tgt, via, res, dir_i, wi, todo>>

ChdirSet(p) ==
  /\ Runs(p) /\ pc[p] = "cd_set"
  /\ pwd' = Set(pwd, p, res[p]) /\ res' = Set(res, p, NoInode)
  /\ Goto(p, "idle") /\ Sleep
  /\ UNCHANGED <<superVars, inodeVars, dev, sb, tgt, via, dir_i, ip, wi, todo>>

(***************************************************************************)
(* sys_mount(dev_name, dir_name): namei of the device node and iput of   *)
(* it (iput of a block device calls sync_dev), then namei of the         *)
(* directory: an iget that crosses into a mounted file system.           *)
(***************************************************************************)
MountStart(p, d, x) ==
  /\ Runs(p) /\ pc[p] = "idle" /\ p \in Mounters
  /\ dev' = Set(dev, p, d)
  /\ tgt' = Set(tgt, p, <<ROOT_DEV, x>>)
  /\ Call(p, "ig", "mnt_dir") /\ MaySleep(p)
  /\ UNCHANGED <<superVars, inodeVars, sb, via, res, dir_i, ip, wi, todo, pwd>>

\* "if (dir_i->i_count != 1 || dir_i->i_num == ROOT_INO)": EBUSY
DirBusy(n) == i_count[n] # 1 \/ n[2] = ROOT_INO

MountDir(p) ==
  /\ Runs(p) /\ pc[p] = "mnt_dir"
  /\ res' = Set(res, p, NoInode)
  /\ \/ DirBusy(res[p]) /\ ip' = Set(ip, p, res[p])
        /\ Call(p, "ip", "idle") /\ UNCHANGED dir_i
     \/ ~DirBusy(res[p]) /\ dir_i' = Set(dir_i, p, res[p])
        /\ Call(p, "rs", "mnt_sb") /\ UNCHANGED ip
  /\ Keep(p)
  /\ UNCHANGED <<superVars, inodeVars, dev, sb, tgt, via, wi, todo, pwd>>

\* slot s is a superblock with a file system mounted on it
HasMount(s) == s # 0 /\ s_imount[s] # NoInode

\* "/* NOTE! we don't iput(dir_i) */ return 0;": the superblock keeps it
MountDone(p) == Goto(p, "idle") /\ Sleep /\ UNCHANGED ip

\* no superblock, or the device is mounted already: iput(dir_i), EBUSY.
\* The "dir_i->i_mount" test (EPERM) is dead: namei would have crossed a
\* mount point, and while sys_mount holds dir_i no other sys_mount passes
\* the "i_count != 1" test on it, so nobody mounts on it meanwhile.
MountSuper(p) ==
  /\ Runs(p) /\ pc[p] = "mnt_sb"
  /\ dir_i' = Set(dir_i, p, NoInode)
  /\ \/ (sb[p] = 0 \/ HasMount(sb[p]))
        /\ ip' = Set(ip, p, dir_i[p]) /\ Call(p, "ip", "idle") /\ Keep(p)
        /\ UNCHANGED <<s_imount, i_mount, i_dirt>>
     \/ sb[p] # 0 /\ ~HasMount(sb[p])
        /\ s_imount' = Set(s_imount, sb[p], dir_i[p])
        /\ i_mount' = Set(i_mount, dir_i[p], 1)
        /\ i_dirt' = Set(i_dirt, dir_i[p], 1)
        /\ MountDone(p)
  /\ UNCHANGED <<s_dev, s_lock, s_imap, s_zmap, i_count, i_lock, dev, sb, tgt, via, res, wi, todo, pwd>>

(***************************************************************************)
(* sys_umount(dev_name) and put_super(dev).                               *)
(***************************************************************************)
UmountStart(p, d) ==
  /\ Runs(p) /\ pc[p] = "idle" /\ p \in Umounters
  /\ dev' = Set(dev, p, d)
  /\ IF d = ROOT_DEV THEN Goto(p, "idle") /\ Sleep
                     ELSE Call(p, "gs", "um_sb") /\ MaySleep(p)
  /\ UNCHANGED <<superVars, inodeVars, sb, tgt, via, res, dir_i, ip, wi, todo, pwd>>

\* "if (inode->i_dev==dev && inode->i_count) return -EBUSY;"
InUse(d) == \E n \in Inodes : n[1] = d /\ i_count[n] > 0

\* "sb->s_imount->i_mount=0; iput(sb->s_imount);"
UnmarkSkipped(n) == i_mount
Unmark(n) == Set(i_mount, n, 0)

UmountSuper(p) ==
  /\ Runs(p) /\ pc[p] = "um_sb"
  /\ \/ ~HasMount(sb[p])
        /\ Goto(p, "idle") /\ Sleep /\ UNCHANGED <<i_mount, ip>>
     \/ HasMount(sb[p]) /\ InUse(dev[p])
        /\ Goto(p, "idle") /\ Sleep /\ UNCHANGED <<i_mount, ip>>
     \/ HasMount(sb[p]) /\ ~InUse(dev[p])
        /\ i_mount' = Unmark(s_imount[sb[p]])
        /\ ip' = Set(ip, p, s_imount[sb[p]])
        /\ Call(p, "ip", "um_put") /\ Keep(p)
  /\ UNCHANGED <<superVars, i_count, i_lock, i_dirt, dev, sb, tgt, via, res, dir_i, wi, todo, pwd>>

\* "sb->s_imount = NULL; iput(sb->s_isup) [NULL]; put_super(dev);"
UmountPut(p) ==
  /\ Runs(p) /\ pc[p] = "um_put"
  /\ s_imount' = Set(s_imount, sb[p], NoInode)
  /\ Call(p, "gs", "ps_sb") /\ Keep(p)
  /\ UNCHANGED <<s_dev, s_lock, s_imap, s_zmap, inodeVars, localVars>>

\* put_super: get_super found the slot again (with one sys_umount at a
\* time it always does, and its s_imount is NULL), lock_super it.
PutSuperLock(p) ==
  /\ Runs(p) /\ pc[p] = "ps_sb" /\ sb[p] # 0 /\ ~HasMount(sb[p])
  /\ Goto(p, "ps_lock") /\ Keep(p)
  /\ UNCHANGED <<superVars, inodeVars, localVars>>

\* "sb->s_dev = 0;" then brelse every bitmap buffer, which may sleep
PutSuperRelease(p) ==
  /\ Runs(p) /\ pc[p] = "ps_lock" /\ s_lock[sb[p]] = 0
  /\ s_lock' = Set(s_lock, sb[p], 1)
  /\ s_dev' = Set(s_dev, sb[p], 0)
  /\ ReleaseMaps(sb[p])
  /\ Goto(p, "ps_free") /\ MaySleep(p)
  /\ UNCHANGED <<s_imount, inodeVars, localVars>>

\* free_super, then sync_dev(dev) and return
PutSuperFree(p) ==
  /\ Runs(p) /\ pc[p] = "ps_free"
  /\ s_lock' = Set(s_lock, sb[p], 0)
  /\ Goto(p, "idle") /\ Sleep
  /\ UNCHANGED <<s_dev, s_imount, s_imap, s_zmap, inodeVars, localVars>>

(***************************************************************************)
(* Files of the root directory: sys_open with open_namei (O_CREAT, no    *)
(* O_EXCL or O_TRUNC), sys_close, sys_unlink, and the end of iput that    *)
(* deletes an inode.  Every path is "/name": dir_namei takes a reference *)
(* to the root directory (current->root->i_count++) without sleeping.    *)
(* The directory is one block of NENT entries whose i_size covers them   *)
(* all; extending it needs a new zone, and the model's disk has none.    *)
(* new_inode, free_inode and truncate (fs/bitmap.c, fs/truncate.c) are   *)
(* modelled from the spec: a new inode takes the first free bit of the   *)
(* inode bitmap; deletion truncates (which may sleep) and then clears    *)
(* the bit and the in-memory inode.                                       *)
(***************************************************************************)
TakeDir(p)  == [i_count EXCEPT ![RootDir] = @ + 1]
\* iput(dir): the root directory is never its last reference
DropDirLost(p) == i_count
DropDir(p)  == [i_count EXCEPT ![RootDir] = @ - 1]
FreeFiles   == {i \in FileSlots : f_count[i] = 0}
FreeFd(p)   == /\ filp' = [filp EXCEPT ![p][fd[p]] = 0]
               /\ f_count' = Set(f_count, filp[p][fd[p]], 0)
\* match: "if (!de || !de->inode || ...) return 0;" and the name compare
NamedAny(a) == {e \in Entries : de_name[e] = a}
Named(a)    == {e \in Entries : de_ino[e] # 0 /\ de_name[e] = a}
\* "inode->i_nlinks--" on an unsigned char i_nlinks (include/linux/fs.h)
NlinkDecNone(x) == x
NlinkDec(x) == (x + 255) % 256

\* sys_open: the first free filp[] slot and the first free file_table
\* entry (if either is missing it returns EINVAL at once, a step that
\* changes nothing), then open_namei's dir_namei and find_entry's bread.
FreeFds(p)  == {d \in Fds : filp[p][d] = 0}

OpenStart(p, a) ==
  /\ Runs(p) /\ pc[p] = "idle" /\ p \in Namers
  /\ FreeFds(p) # {} /\ FreeFiles # {}
  /\ LET d == Min(FreeFds(p))
         i == Min(FreeFiles)
     IN  /\ filp' = [filp EXCEPT ![p][d] = i] /\ fd' = Set(fd, p, d)
         /\ f_count' = Set(f_count, i, 1)
  /\ i_count' = TakeDir(p) /\ dref' = Set(dref, p, TRUE) /\ nm' = Set(nm, p, a)
  /\ Call(p, "fe", "op_fe") /\ MaySleep(p)
  /\ UNCHANGED <<superVars, i_lock, i_dirt, i_mount, localVars, dirVars, f_inode, ent, fino>>

\* find_entry: the first entry in use with the name ("match" skips
\* entries whose inode is 0); the buffer is kept when it is found, and
\* brelse'd otherwise.
FindEntry(p) ==
  /\ Runs(p) /\ pc[p] = "fe"
  /\ ent' = Set(ent, p, IF Named(nm[p]) = {} THEN 0 ELSE Min(Named(nm[p])))
  /\ Ret(p) /\ IF Named(nm[p]) = {} THEN MaySleep(p) ELSE Keep(p)
  /\ UNCHANGED <<superVars, inodeVars, localVars, dirVars, fileVars, nm, fino, dref>>

\* found: "inr = de->inode; brelse(bh); iput(dir);" then iget(dev, inr)
OpenFound(p) ==
  /\ Runs(p) /\ pc[p] = "op_fe" /\ ent[p] # 0
  /\ i_count' = DropDir(p) /\ dref' = Set(dref, p, FALSE)
  /\ tgt' = Set(tgt, p, File(de_ino[ent[p]]))
  /\ Call(p, "ig", "op_got") /\ MaySleep(p)
  /\ UNCHANGED <<superVars, i_lock, i_dirt, i_mount, dev, sb, via, res, dir_i, ip, wi, todo, pwd,
                 dirVars, fileVars, nm, ent, fino>>

\* sys_open: "f->f_inode = inode; return (fd);"
OpenGot(p) ==
  /\ Runs(p) /\ pc[p] = "op_got"
  /\ f_inode' = Set(f_inode, filp[p][fd[p]], res[p]) /\ res' = Set(res, p, NoInode)
  /\ Goto(p, "idle") /\ Sleep
  /\ UNCHANGED <<superVars, inodeVars, dev, sb, tgt, via, dir_i, ip, wi, todo, pwd,
                 dirVars, filp, f_count, fd, nameVars>>

\* not found, O_CREAT: new_inode's get_empty_inode, which may sleep
OpenMiss(p) ==
  /\ Runs(p) /\ pc[p] = "op_fe" /\ ent[p] = 0
  /\ Goto(p, "op_new") /\ MaySleep(p)
  /\ UNCHANGED <<superVars, inodeVars, localVars, dirVars, fileVars, nameVars>>

\* new_inode: the first zero bit; none: iput(dir), ENOSPC, and sys_open
\* frees the fd.  Otherwise set the bit and "i_count=1; i_nlinks=1;
\* i_dirt=1", then add_entry's bread.  The table slot get_empty_inode
\* returned is the inode of that number: a number whose old inode is
\* still referenced is not picked (see README).
FreeBits == {f \in Files : imap[f] = 0}

OpenNoSpace(p) ==
  /\ Runs(p) /\ pc[p] = "op_new" /\ FreeBits = {}
  /\ i_count' = DropDir(p) /\ dref' = Set(dref, p, FALSE) /\ FreeFd(p)
  /\ Goto(p, "idle") /\ Sleep
  /\ UNCHANGED <<superVars, i_lock, i_dirt, i_mount, localVars, dirVars, f_inode, fd, nm, ent, fino>>

OpenNew(p) ==
  /\ Runs(p) /\ pc[p] = "op_new" /\ FreeBits # {}
  /\ LET f == Min(FreeBits) IN
       /\ i_count[File(f)] = 0
       /\ imap' = Set(imap, f, 1)
       /\ i_count' = Set(i_count, File(f), 1)
       /\ i_nlinks' = Set(i_nlinks, File(f), 1)
       /\ i_dirt' = Set(i_dirt, File(f), 1)
       /\ fino' = Set(fino, p, File(f))
  /\ Goto(p, "op_add") /\ MaySleep(p)
  /\ UNCHANGED <<superVars, i_lock, i_mount, localVars, de_ino, de_name, fileVars, nm, ent, dref>>

\* add_entry: the first entry whose inode is 0 gets the name, and open_namei
\* sets "de->inode = inode->i_num" before it can sleep; brelse, iput(dir).
\* No free entry: "inode->i_nlinks--; iput(inode); iput(dir); ENOSPC".
FreeEntries == {e \in Entries : de_ino[e] = 0}

OpenAdd(p) ==
  /\ Runs(p) /\ pc[p] = "op_add"
  /\ LET free == FreeEntries IN
     \/ free # {}
        /\ de_ino' = Set(de_ino, Min(free), fino[p][2])
        /\ de_name' = Set(de_name, Min(free), nm[p])
        /\ i_count' = DropDir(p) /\ dref' = Set(dref, p, FALSE)
        /\ f_inode' = Set(f_inode, filp[p][fd[p]], fino[p]) /\ fino' = Set(fino, p, NoInode)
        /\ Goto(p, "idle") /\ Sleep
        /\ UNCHANGED <<i_nlinks, ip, filp, f_count, fd>>
     \/ free = {}
        /\ i_nlinks' = [i_nlinks EXCEPT ![fino[p]] = NlinkDec(@)]
        /\ ip' = Set(ip, p, fino[p]) /\ fino' = Set(fino, p, NoInode)
        /\ Call(p, "ip", "op_fail") /\ MaySleep(p)
        /\ UNCHANGED <<de_ino, de_name, i_count, dref, fileVars>>
  /\ UNCHANGED <<superVars, i_lock, i_dirt, i_mount, dev, sb, tgt, via, res, dir_i, wi, todo, pwd,
                 imap, nm, ent>>

OpenFail(p) ==
  /\ Runs(p) /\ pc[p] = "op_fail"
  /\ i_count' = DropDir(p) /\ dref' = Set(dref, p, FALSE) /\ FreeFd(p)
  /\ Goto(p, "idle") /\ Sleep
  /\ UNCHANGED <<superVars, i_lock, i_dirt, i_mount, localVars, dirVars, f_inode, fd, nm, ent, fino>>

\* sys_close: "current->filp[fd] = NULL; if (--filp->f_count) return (0);
\* iput(filp->f_inode);".  Without fork no file is shared, so the count
\* always drops to zero.  The f_inode left in a free entry is never read.
Close(p, d) ==
  /\ Runs(p) /\ pc[p] = "idle" /\ p \in Namers /\ filp[p][d] # 0
  /\ filp' = [filp EXCEPT ![p][d] = 0]
  /\ f_count' = Set(f_count, filp[p][d], 0) /\ f_inode' = Set(f_inode, filp[p][d], NoInode)
  /\ ip' = Set(ip, p, f_inode[filp[p][d]])
  /\ Call(p, "ip", "idle") /\ Keep(p)
  /\ UNCHANGED <<superVars, inodeVars, dev, sb, tgt, via, res, dir_i, wi, todo, pwd, dirVars, fd, nameVars>>

\* sys_unlink: dir_namei, then find_entry; not found: iput(dir), ENOENT.
\* Found: iget(dir->i_dev, de->inode), with the entry's inode number read
\* before iget can sleep.
UnlinkStart(p, a) ==
  /\ Runs(p) /\ pc[p] = "idle" /\ p \in Namers
  /\ i_count' = TakeDir(p) /\ dref' = Set(dref, p, TRUE) /\ nm' = Set(nm, p, a)
  /\ Call(p, "fe", "ul_fe") /\ MaySleep(p)
  /\ UNCHANGED <<superVars, i_lock, i_dirt, i_mount, localVars, dirVars, fileVars, ent, fino>>

UnlinkFind(p) ==
  /\ Runs(p) /\ pc[p] = "ul_fe"
  /\ \/ ent[p] = 0
        /\ i_count' = DropDir(p) /\ dref' = Set(dref, p, FALSE)
        /\ Goto(p, "idle") /\ Sleep
        /\ UNCHANGED tgt
     \/ ent[p] # 0
        /\ tgt' = Set(tgt, p, File(de_ino[ent[p]]))
        /\ Call(p, "ig", "ul_got") /\ MaySleep(p)
        /\ UNCHANGED <<i_count, dref>>
  /\ UNCHANGED <<superVars, i_lock, i_dirt, i_mount, dev, sb, via, res, dir_i, ip, wi, todo, pwd,
                 dirVars, fileVars, nm, ent, fino>>

\* "if (!inode->i_nlinks) { printk(...); inode->i_nlinks=1; }
\*  de->inode = 0; bh->b_dirt = 1; brelse(bh);"
UnlinkGot(p) ==
  /\ Runs(p) /\ pc[p] = "ul_got"
  /\ LET n == res[p] IN
       /\ i_nlinks' = IF i_nlinks[n] = 0 THEN Set(i_nlinks, n, 1) ELSE i_nlinks
       /\ fino' = Set(fino, p, n)
  /\ de_ino' = Set(de_ino, ent[p], 0)
  /\ res' = Set(res, p, NoInode)
  /\ Goto(p, "ul_rel") /\ MaySleep(p)
  /\ UNCHANGED <<superVars, inodeVars, dev, sb, tgt, via, dir_i, ip, wi, todo, pwd,
                 de_name, imap, fileVars, nm, ent, dref>>

\* "inode->i_nlinks--; inode->i_dirt = 1; iput(inode); iput(dir);"
UnlinkRel(p) ==
  /\ Runs(p) /\ pc[p] = "ul_rel"
  /\ i_nlinks' = [i_nlinks EXCEPT ![fino[p]] = NlinkDec(@)]
  /\ i_dirt' = Set(i_dirt, fino[p], 1)
  /\ ip' = Set(ip, p, fino[p]) /\ fino' = Set(fino, p, NoInode)
  /\ Call(p, "ip", "ul_dir") /\ Keep(p)
  /\ UNCHANGED <<superVars, i_count, i_lock, i_mount, dev, sb, tgt, via, res, dir_i, wi, todo, pwd,
                 de_ino, de_name, imap, fileVars, nm, ent, dref>>

UnlinkDir(p) ==
  /\ Runs(p) /\ pc[p] = "ul_dir"
  /\ i_count' = DropDir(p) /\ dref' = Set(dref, p, FALSE)
  /\ Goto(p, "idle") /\ Sleep
  /\ UNCHANGED <<superVars, i_lock, i_dirt, i_mount, localVars, dirVars, fileVars, nm, ent, fino>>

\* iput of the last reference to an inode without links, after truncate:
\* free_inode panics "trying to free inode with count>1", else clears the
\* bitmap bit and memsets the inode.
IputFree(p) ==
  /\ Runs(p) /\ pc[p] = "ip_free"
  /\ LET n == ip[p] IN
       /\ imap' = Set(imap, n[2], 0)
       /\ i_count' = Set(i_count, n, 0) /\ i_dirt' = Set(i_dirt, n, 0)
       /\ i_nlinks' = Set(i_nlinks, n, 0)
  /\ ip' = Set(ip, p, NoInode) /\ Ret(p) /\ Resume(p)
  /\ UNCHANGED <<superVars, i_lock, i_mount, dev, sb, tgt, via, res, dir_i, wi, todo, pwd,
                 de_ino, de_name, fileVars, nameVars>>

\* the operations of the mount table, which leave the files alone
MountProc(p) ==
  \/ SleepOn(p) \/ SyncSleep(p)
  \/ GetSuperNone(p) \/ GetSuperFound(p) \/ GetSuperWake(p)
  \/ ReadSuperStart(p) \/ ReadSuperGot(p) \/ ReadSuperLock(p)
  \/ ReadSuperBlock(p) \/ ReadSuperImap(p) \/ ReadSuperZmap(p) \/ ReadSuperCheck(p)
  \/ IgetFind(p) \/ IgetCross(p) \/ IputStart(p)
  \/ WriteInodeLock(p) \/ WriteInodeDone(p)
  \/ SyncStart(p) \/ SyncNext(p) \/ SyncDone(p)
  \/ \E x \in Dirs \cup {NoDir} : Chdir(p, x)
  \/ ChdirGot(p) \/ ChdirSet(p)
  \/ \E d \in AllDevs, x \in {ROOT_INO} \cup Dirs : MountStart(p, d, x)
  \/ MountDir(p) \/ MountSuper(p)
  \/ \E d \in AllDevs : UmountStart(p, d)
  \/ UmountSuper(p) \/ UmountPut(p)
  \/ PutSuperLock(p) \/ PutSuperRelease(p) \/ PutSuperFree(p)

FileProc(p) ==
  \/ \E a \in Names : OpenStart(p, a) \/ UnlinkStart(p, a)
  \/ FindEntry(p) \/ OpenFound(p) \/ OpenGot(p) \/ OpenMiss(p)
  \/ OpenNoSpace(p) \/ OpenNew(p) \/ OpenAdd(p) \/ OpenFail(p)
  \/ \E d \in Fds : Close(p, d)
  \/ UnlinkFind(p) \/ UnlinkGot(p) \/ UnlinkRel(p) \/ UnlinkDir(p)
  \/ IputFree(p)

Proc(p) ==
  \/ MountProc(p) /\ UNCHANGED <<dirVars, fileVars, nameVars>>
  \/ FileProc(p)

Next == \E p \in Procs : Proc(p)

Spec == Init /\ [][Next]_vars

\* The state as TLC tells states apart: a process back in user mode has
\* no locals (dev, sb, tgt and wi are assigned before any use in the next
\* call; res, dir_i, ip and via are empty there), and a process that is
\* not in sync_inodes has no list of inodes left to visit.
Live(p) ==
  IF pc[p] = "idle" THEN <<pwd[p], filp[p]>>
  ELSE <<dev[p], sb[p], tgt[p], via[p], res[p], dir_i[p], ip[p], wi[p],
         IF pc[p] = "si" \/ "si" \in {stack[p][i] : i \in 1..Len(stack[p])}
           THEN todo[p] ELSE {}, pwd[p], filp[p], nm[p], ent[p], fino[p], dref[p], fd[p]>>
\* the name left in an entry whose inode is 0 is never read again, and a
\* free file_table entry's f_inode is never read
LiveEntries == [e \in Entries |-> IF de_ino[e] = 0 THEN NoName ELSE de_name[e]]
LiveFiles == [i \in FileSlots |-> IF f_count[i] = 0 THEN NoInode ELSE f_inode[i]]
LiveView == <<superVars, inodeVars, pc, stack, [p \in Procs |-> Live(p)], cur,
              de_ino, LiveEntries, imap, i_nlinks, f_count, LiveFiles>>

-----------------------------------------------------------------------------
PCs == {"idle", "gs", "gs_wait", "rs", "rs_got", "rs_lock", "rs_read",
        "rs_imap", "rs_zmap", "rs_check", "ig", "ig_cross", "ip", "wi",
        "wi_done", "si", "cd_got", "cd_set", "mnt_dir", "mnt_sb", "um_sb",
        "um_put", "ps_sb", "ps_lock", "ps_free", "fe", "op_fe", "op_got",
        "op_new", "op_add", "op_fail", "ul_fe", "ul_got", "ul_rel", "ul_dir",
        "ip_free"}
MaxRefs == 4 + NR_SUPER + 4 * Cardinality(Procs)

TypeOK ==
  /\ s_dev \in [Slots -> {0} \cup AllDevs]
  /\ s_lock \in [Slots -> {0, 1}]
  /\ s_imount \in [Slots -> Inodes \cup {NoInode}]
  /\ s_imap \in [Slots -> 0..IMAP_BLOCKS]
  /\ s_zmap \in [Slots -> 0..ZMAP_BLOCKS]
  /\ i_count \in [Inodes -> 0..MaxRefs]
  /\ i_lock \in [Inodes -> {0, 1}]
  /\ i_dirt \in [Inodes -> {0, 1}]
  /\ i_mount \in [Inodes -> {0, 1}]
  /\ pc \in [Procs -> PCs]
  /\ \A p \in Procs : Len(stack[p]) <= 3 /\ \A i \in 1..Len(stack[p]) : stack[p][i] \in PCs
  /\ sb \in [Procs -> {0} \cup Slots]
  /\ \A v \in {tgt, via, res, dir_i, ip, wi, pwd} : v \in [Procs -> Inodes \cup {NoInode}]
  /\ cur \in Procs \cup {NoProc}
  /\ de_ino \in [Entries -> {0} \cup Files] /\ de_name \in [Entries -> Names \cup {NoName}]
  /\ imap \in [Files -> {0, 1}] /\ i_nlinks \in [Inodes -> 0..255]
  /\ filp \in [Procs -> [Fds -> {0} \cup FileSlots]] /\ fd \in [Procs -> Fds] /\ f_count \in [FileSlots -> {0, 1}]
  /\ f_inode \in [FileSlots -> FileInodes \cup {NoInode}]
  /\ nm \in [Procs -> Names \cup {NoName}] /\ ent \in [Procs -> {0} \cup Entries]
  /\ fino \in [Procs -> FileInodes \cup {NoInode}] /\ dref \in [Procs -> BOOLEAN]

\* The superblock table never holds one device twice: read_super looks
\* the device up with get_super before it claims a free slot, and the
\* claim does not sleep after the lookup (super.c:109-119).
UniqueSuper ==
  \A s, t \in Slots : s # t /\ s_dev[s] # 0 => s_dev[s] # s_dev[t]

\* A superblock that no read_super is setting up holds every bitmap
\* buffer of its device while it is in use, and none once it is free:
\* read_super's failure path and put_super release all they took
\* (super.c:92-95, 176-183).  A slot is being set up while it is locked,
\* or claimed by a read_super asleep in lock_super.
SettingUp(s) == s_lock[s] = 1 \/ \E p \in Procs : pc[p] = "rs_lock" /\ sb[p] = s

BitmapsPinned ==
  \A s \in Slots : ~SettingUp(s) =>
    IF s_dev[s] # 0 THEN s_imap[s] = IMAP_BLOCKS /\ s_zmap[s] = ZMAP_BLOCKS
                    ELSE s_imap[s] = 0 /\ s_zmap[s] = 0

\* Every reference to a modelled inode is accounted for: mount_root's
\* four, one for each superblock mounted on it (until sys_umount clears
\* i_mount and takes that reference over to iput it), a process's pwd,
\* an open file's f_inode, the root directory a path lookup holds, and
\* the inode a process holds in iget's result, sys_mount's dir_i, a new
\* or unlinked file, or iput's argument.  Neither the mount crossing of
\* iget, sys_umount, nor open, close and unlink lose or duplicate a
\* reference.
Held(n) ==
  Cardinality({p \in Procs : pwd[p] = n}) + Cardinality({p \in Procs : res[p] = n})
  + Cardinality({p \in Procs : dir_i[p] = n}) + Cardinality({p \in Procs : ip[p] = n})
  + Cardinality({p \in Procs : fino[p] = n}) + Cardinality({p \in Procs : dref[p] /\ n = RootDir})
  + Cardinality({i \in FileSlots : f_count[i] > 0 /\ f_inode[i] = n})
SuperRefs(n) == IF i_mount[n] = 1 THEN Cardinality(MountedOn(n)) ELSE 0

MountRefExact ==
  \A n \in Inodes : i_count[n] = BaseRefs(n) + SuperRefs(n) + Held(n)

\* An inode marked as a mount point has a superblock in use mounted on
\* it: iget's "Mounted inode hasn't got sb" branch (inode.c:302) is dead,
\* and get_super's re-test after wait_on_super (super.c:66) keeps
\* sys_mount from mounting on a slot that was freed meanwhile.
MountFlagHasSuper ==
  \A n \in Inodes : i_mount[n] = 1 => \E s \in MountedOn(n) : s_dev[s] # 0

\* When iget reads super_block[i].s_dev after releasing the mount point,
\* slot i is still the superblock mounted on that inode, so iget goes on
\* to the root of the file system mounted there (spec: iget of a mount
\* point returns the root inode of the mounted file system).  The iput
\* between the lookup of the slot and the read of s_dev cannot sleep,
\* because the superblock's own reference keeps i_count above one.
CrossingReachesMounted ==
  \A p \in Procs : pc[p] = "ig_cross" =>
    s_dev[sb[p]] # 0 /\ s_imount[sb[p]] = via[p]

\* The root directory and the link counts agree: a file's i_nlinks is the
\* number of entries naming it, plus one while open_namei holds it
\* between new_inode and "de->inode = inode->i_num", plus one while
\* sys_unlink has cleared the entry and not yet decremented i_nlinks; and
\* no entry names an inode whose bitmap bit is free.  sys_unlink clears
\* the entry it found before iget slept (namei.c:721-753).
Linking(n)   == {p \in Procs : pc[p] = "op_add" /\ fino[p] = n}
Unlinking(n) == {p \in Procs : pc[p] = "ul_rel" /\ fino[p] = n}
EntriesOf(f) == {e \in Entries : de_ino[e] = f}

LinkCountExact ==
  \A f \in Files :
    /\ i_nlinks[File(f)] = Cardinality(EntriesOf(f)) + Cardinality(Linking(File(f)))
                           + Cardinality(Unlinking(File(f)))
    /\ EntriesOf(f) # {} => imap[f] = 1

====

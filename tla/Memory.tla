------------------------------- MODULE Memory -------------------------------
(***************************************************************************)
(* Page frames, page tables and copy-on-write of mm/memory.c, with the     *)
(* fork path of kernel/fork.c (find_empty_process, copy_process, copy_mem) *)
(* that calls copy_page_tables.                                            *)
(*                                                                         *)
(* None of this code sleeps: get_free_page scans mem_map at once, and a    *)
(* fork, a page fault or an exit runs to its end on the CPU.  Each system  *)
(* call or fault is one action; what is checked is every sequence of them *)
(* by every task.                                                          *)
(*                                                                         *)
(* A task's space is NDIR page-directory entries (16 for a task's 64 MB   *)
(* in the code); dir names the page table of each, and the table has NPTE  *)
(* entries (1024 in the code), each a record of the present bit, the R/W   *)
(* bit and the page address.  Page tables are never shared between tasks, *)
(* so the entries are kept per task, indexed by <<directory, entry>>.      *)
(* Pages below LOW_MEM are the kernel's: task 0 maps NPTE of them through  *)
(* its one page table, which lies there too; mem_map counts only the       *)
(* NFRAMES pages above LOW_MEM.  Page content is a version number; view is *)
(* the ghost content each task should see at each of its pages.            *)
(***************************************************************************)
EXTENDS Naturals, FiniteSets, FiniteSetsExt

CONSTANTS
    NR_TASKS,   \* task slots: 0..NR_TASKS-1, task 0 is the kernel's
    NDIR,       \* directory entries of a task's space (16 in the code)
    NPTE,       \* entries of a page table (1024 in the code)
    LOW_COPY,   \* entries copied when forking task 0 (0xA0 in the code)
    NFRAMES,    \* pages above LOW_MEM
    PID_MAX,    \* the largest positive last_pid (2^31-1 in the code)
    MaxWrites   \* bound on user writes

ASSUME /\ NR_TASKS \in Nat /\ NR_TASKS >= 2 /\ NDIR \in Nat \ {0}
       /\ NPTE \in Nat \ {0} /\ LOW_COPY \in 1..NPTE
       /\ NFRAMES \in Nat /\ MaxWrites \in Nat
       /\ PID_MAX \in Nat /\ PID_MAX >= NR_TASKS

Slots == 0..NR_TASKS - 1
Dirs == 0..NDIR - 1
VPages == 0..NPTE - 1
VAddrs == Dirs \X VPages
LOW_MEM == NPTE + 1                      \* pages 0..NPTE are the kernel's
KernelTable == NPTE                      \* task 0's page table
Frames == LOW_MEM..LOW_MEM + NFRAMES - 1
Pages == 0..LOW_MEM + NFRAMES - 1
Versions == 0..MaxWrites
Pids == 0..PID_MAX

Entry == [p : BOOLEAN, rw : BOOLEAN, pg : Pages]
Absent == [p |-> FALSE, rw |-> FALSE, pg |-> 0]      \* *pg_table = 0
Map(a, w) == [p |-> TRUE, rw |-> w, pg |-> a]         \* a | 7, or a | 5

VARIABLES
    mem_map,   \* use count of each page above LOW_MEM
    data,      \* content of every physical page
    task,      \* task[nr] != NULL
    pid,       \* task[nr]->pid
    tpage,     \* the page holding task[nr]'s task_struct
    dir,       \* the page table named by each directory entry, or 0
    pte,       \* the entries of those page tables
    last_pid,
    view,      \* ghost: what each task has written or inherited
    nwrites    \* ghost: writes so far

vars == <<mem_map, data, task, pid, tpage, dir, pte, last_pid, view, nwrites>>

(***************************************************************************)
(* get_free_page: "std; repne scasb" scans mem_map from its end, so the    *)
(* highest free page is taken; mem_map is set to 1 and the page cleared.   *)
(* 0 means none.                                                           *)
(***************************************************************************)
FreeFrames(m) == {f \in Frames : m[f] = 0}
GetFreePage(m) == IF FreeFrames(m) = {} THEN 0 ELSE Max(FreeFrames(m))
Take(m, f) == [m EXCEPT ![f] = 1]
Clear(d, f) == [d EXCEPT ![f] = 0]

\* free_page(addr): below LOW_MEM nothing; "if (mem_map[addr]--) return",
\* else mem_map[addr] = 0 and panic.
FreePage(m, a) ==
    IF a < LOW_MEM THEN m ELSE [m EXCEPT ![a] = IF @ = 0 THEN 0 ELSE @ - 1]

\* free_page_tables(from, size) over the directory entries ds: free_page
\* of every present page of each present entry's table, then of the table.
RECURSIVE FreeList(_, _)
FreeList(m, pgs) ==
    IF pgs = {} THEN m
    ELSE LET x == CHOOSE x \in pgs : TRUE
         IN FreeList(FreePage(m, x[2]), pgs \ {x})
TablePages(t, ds) == {<<d, dir[t][d]>> : d \in {e \in ds : dir[t][e] # 0}}
MappedPages(t, ds) ==
    {<<a, pte[t][a].pg>> : a \in {b \in ds \X VPages : dir[t][b[1]] # 0 /\ pte[t][b].p}}
FreeTables(m, t, ds) == FreeList(FreeList(m, MappedPages(t, ds)), TablePages(t, ds))

(***************************************************************************)
(* find_empty_process: "if ((++last_pid)<0) last_pid=1", then again while  *)
(* some task has that pid.  The increment overflows a signed long; the     *)
(* build wraps it, which the model keeps at PID_MAX.                       *)
(***************************************************************************)
BumpNoWrap(lp) == lp + 1
Bump(lp) == IF lp = PID_MAX THEN 1 ELSE lp + 1
NextPidUnchecked(lp) == Bump(lp)
RECURSIVE NextPid(_)
NextPid(lp) ==
    IF \E i \in Slots : task[i] /\ pid[i] = Bump(lp)
      THEN NextPid(Bump(lp)) ELSE Bump(lp)

\* The first free slot, task 0 excluded; 0 for -EAGAIN.
FreeSlots == {i \in Slots \ {0} : ~task[i]}
EmptySlot == IF FreeSlots = {} THEN 0 ELSE Min(FreeSlots)

(***************************************************************************)
(* copy_page_tables(from, to, size), for a fork of task t.  Task 0's       *)
(* space is 640 kB, one directory entry, of which only the first LOW_COPY  *)
(* entries are copied ("nr = (from==0)?0xA0:1024"); a user task's is all  *)
(* NDIR entries.  Each present directory entry gets a new page table from  *)
(* get_free_page, in order; a present page is copied write-protected       *)
(* (this_page &= ~2), and above LOW_MEM the parent's entry is              *)
(* write-protected too and mem_map incremented.                            *)
(***************************************************************************)
SpaceDirs(t) == IF t = 0 THEN {0} ELSE Dirs
FromDirs(t) == {d \in SpaceDirs(t) : dir[t][d] # 0}
Copied(t, a) == a[1] \in FromDirs(t) /\ pte[t][a].p /\ (t = 0 => a[2] < LOW_COPY)
ChildEntry(t, a) ==
    IF Copied(t, a) THEN Map(pte[t][a].pg, FALSE) ELSE Absent
ParentEntryKeepWrite(t, a) == pte[t][a]
ParentEntry(t, a) ==
    IF Copied(t, a) /\ pte[t][a].pg >= LOW_MEM
      THEN Map(pte[t][a].pg, FALSE) ELSE pte[t][a]
\* mem_map[this_page]++ for every copied page above LOW_MEM
SharesNone(t, f) == 0
Shares(t, f) == Cardinality({a \in VAddrs : Copied(t, a) /\ pte[t][a].pg = f})

\* The n-th page get_free_page hands out from the free set S (from 0)
RECURSIVE NthFree(_, _)
NthFree(S, n) == IF n = 0 THEN Max(S) ELSE NthFree(S \ {Max(S)}, n - 1)
\* Its place among the present directory entries decides a table's page
Rank(ds, d) == Cardinality({e \in ds : e < d})

Init ==
    /\ mem_map = [f \in Frames |-> 0]
    /\ data = [x \in Pages |-> 0]
    /\ task = [i \in Slots |-> i = 0]
    /\ pid = [i \in Slots |-> 0]
    /\ tpage = [i \in Slots |-> 0]
    /\ dir = [i \in Slots |-> [d \in Dirs |->
                IF i = 0 /\ d = 0 THEN KernelTable ELSE 0]]
    /\ pte = [i \in Slots |-> [a \in VAddrs |->
                IF i = 0 /\ a[1] = 0 THEN Map(a[2], TRUE) ELSE Absent]]
    /\ last_pid = 0
    /\ view = [i \in Slots |-> [a \in VAddrs |-> 0]]
    /\ nwrites = 0

Alive == {i \in Slots : task[i]}
Users == Alive \ {0}

(***************************************************************************)
(* sys_fork by task t: find_empty_process, then copy_process.              *)
(***************************************************************************)

\* find_empty_process returns -EAGAIN: every slot is taken.  last_pid has
\* moved on all the same.
ForkNoSlot(t) ==
    /\ t \in Alive /\ EmptySlot = 0
    /\ last_pid' = NextPid(last_pid)
    /\ UNCHANGED <<mem_map, data, task, pid, tpage, dir, pte, view, nwrites>>

\* copy_process: "p = get_free_page(); if (!p) return -EAGAIN"
ForkNoTaskPage(t) ==
    /\ t \in Alive /\ EmptySlot # 0 /\ GetFreePage(mem_map) = 0
    /\ last_pid' = NextPid(last_pid)
    /\ UNCHANGED <<mem_map, data, task, pid, tpage, dir, pte, view, nwrites>>

\* copy_mem: copy_page_tables runs out of pages for page tables after
\* copying the directory entries before it and returns -1; copy_mem calls
\* free_page_tables on the child's space, copy_process sets task[nr] =
\* NULL and free_page(p).  The parent's entries copied so far stay
\* write-protected; every page taken was cleared.
ForkNoTable(t) ==
    LET p == GetFreePage(mem_map)
        free == FreeFrames(mem_map) \ {p}
        done == {d \in FromDirs(t) : Rank(FromDirs(t), d) < Cardinality(free)}
    IN
    /\ t \in Alive /\ EmptySlot # 0 /\ p # 0
    /\ Cardinality(free) < Cardinality(FromDirs(t))
    /\ last_pid' = NextPid(last_pid)
    /\ pte' = [pte EXCEPT ![t] = [a \in VAddrs |->
                 IF a[1] \in done THEN ParentEntry(t, a) ELSE pte[t][a]]]
    /\ data' = [x \in Pages |-> IF x \in free \cup {p} THEN 0 ELSE data[x]]
    /\ UNCHANGED <<mem_map, task, pid, tpage, dir, view, nwrites>>

\* The fork succeeds: task[nr] = p with the new pid, and copy_page_tables
\* gives the child a page table for each present directory entry of t.
Fork(t) ==
    LET nr == EmptySlot
        p == GetFreePage(mem_map)
        free == FreeFrames(mem_map) \ {p}
        tb(d) == NthFree(free, Rank(FromDirs(t), d))
        tables == {tb(d) : d \in FromDirs(t)}
    IN
    /\ t \in Alive /\ nr # 0 /\ p # 0
    /\ Cardinality(free) >= Cardinality(FromDirs(t))
    /\ last_pid' = NextPid(last_pid)
    /\ task' = [task EXCEPT ![nr] = TRUE]
    /\ pid' = [pid EXCEPT ![nr] = NextPid(last_pid)]
    /\ tpage' = [tpage EXCEPT ![nr] = p]
    /\ dir' = [dir EXCEPT ![nr] = [d \in Dirs |->
                 IF d \in FromDirs(t) THEN tb(d) ELSE 0]]
    /\ pte' = [pte EXCEPT ![nr] = [a \in VAddrs |-> ChildEntry(t, a)],
                          ![t] = [a \in VAddrs |-> ParentEntry(t, a)]]
    /\ mem_map' = [f \in Frames |->
                     IF f \in tables \cup {p} THEN 1 ELSE mem_map[f] + Shares(t, f)]
    /\ data' = [x \in Pages |-> IF x \in tables \cup {p} THEN 0 ELSE data[x]]
    /\ view' = [view EXCEPT ![nr] = view[t]]
    /\ UNCHANGED nwrites

(***************************************************************************)
(* A user task writes to one of its pages.                                 *)
(***************************************************************************)

\* The entry is present and writable: the write lands in the page.
Write(t, a) ==
    /\ t \in Users /\ pte[t][a].p /\ pte[t][a].rw
    /\ nwrites < MaxWrites
    /\ data' = [data EXCEPT ![pte[t][a].pg] = nwrites + 1]
    /\ view' = [view EXCEPT ![t][a] = nwrites + 1]
    /\ nwrites' = nwrites + 1
    /\ UNCHANGED <<mem_map, task, pid, tpage, dir, pte, last_pid>>

\* do_wp_page -> un_wp_page: "old_page >= LOW_MEM && mem_map[...]==1":
\* the page is no longer shared, so the entry is made writable again.
UnWpSoleUser(t, a) ==
    pte[t][a].pg >= LOW_MEM /\ mem_map[pte[t][a].pg] = 1

UnWpReuse(t, a) ==
    /\ t \in Users /\ pte[t][a].p /\ ~pte[t][a].rw
    /\ UnWpSoleUser(t, a)
    /\ pte' = [pte EXCEPT ![t][a].rw = TRUE]
    /\ UNCHANGED <<mem_map, data, task, pid, tpage, dir, last_pid, view, nwrites>>

\* un_wp_page otherwise: new_page = get_free_page(); mem_map[old]-- above
\* LOW_MEM; the entry names the new page, writable; copy_page.
UnWpCopy(t, a) ==
    LET old == pte[t][a].pg
        new == GetFreePage(mem_map)
    IN
    /\ t \in Users /\ pte[t][a].p /\ ~pte[t][a].rw
    /\ ~UnWpSoleUser(t, a)
    /\ new # 0
    /\ mem_map' = IF old >= LOW_MEM
                    THEN [Take(mem_map, new) EXCEPT ![old] = @ - 1]
                    ELSE Take(mem_map, new)
    /\ pte' = [pte EXCEPT ![t][a] = Map(new, TRUE)]
    /\ data' = [data EXCEPT ![new] = data[old]]
    /\ UNCHANGED <<task, pid, tpage, dir, last_pid, view, nwrites>>

\* do_exit (kernel/exit.c, not in this tree) of task t: free_page_tables
\* of its space, and the release of its task_struct page.
ExitState(t) ==
    /\ mem_map' = FreePage(FreeTables(mem_map, t, Dirs), tpage[t])
    /\ task' = [task EXCEPT ![t] = FALSE]
    /\ pid' = [pid EXCEPT ![t] = 0]
    /\ tpage' = [tpage EXCEPT ![t] = 0]
    /\ dir' = [dir EXCEPT ![t] = [d \in Dirs |-> 0]]
    /\ pte' = [pte EXCEPT ![t] = [a \in VAddrs |-> Absent]]

\* un_wp_page: "if (!(new_page=get_free_page())) oom()"; oom kills the task.
UnWpOom(t, a) ==
    /\ t \in Users /\ pte[t][a].p /\ ~pte[t][a].rw
    /\ ~UnWpSoleUser(t, a)
    /\ GetFreePage(mem_map) = 0
    /\ ExitState(t)
    /\ UNCHANGED <<data, last_pid, view, nwrites>>

\* do_no_page for an anonymous page: get_empty_page(address):
\* tmp = get_free_page(), put_page(tmp, address), which first takes a page
\* for the page table when the directory entry is not present.
NoPage(t, a) ==
    LET tmp == GetFreePage(mem_map)
        m1 == Take(mem_map, tmp)
        tb == IF dir[t][a[1]] # 0 THEN dir[t][a[1]] ELSE GetFreePage(m1)
    IN
    /\ t \in Users /\ ~pte[t][a].p
    /\ tmp # 0 /\ tb # 0
    /\ mem_map' = IF dir[t][a[1]] # 0 THEN m1 ELSE Take(m1, tb)
    /\ data' = [data EXCEPT ![tmp] = 0, ![tb] = IF dir[t][a[1]] # 0 THEN @ ELSE 0]
    /\ dir' = [dir EXCEPT ![t][a[1]] = tb]
    /\ pte' = [pte EXCEPT ![t][a] = Map(tmp, TRUE)]
    /\ view' = [view EXCEPT ![t][a] = 0]
    /\ UNCHANGED <<task, pid, tpage, last_pid, nwrites>>

\* get_empty_page: get_free_page or put_page failed; free_page(tmp) (0 is
\* ignored) and oom().
NoPageOom(t, a) ==
    LET tmp == GetFreePage(mem_map) IN
    /\ t \in Users /\ ~pte[t][a].p
    /\ \/ tmp = 0
       \/ tmp # 0 /\ dir[t][a[1]] = 0 /\ GetFreePage(Take(mem_map, tmp)) = 0
    /\ ExitState(t)
    /\ data' = IF tmp = 0 THEN data ELSE Clear(data, tmp)
    /\ UNCHANGED <<last_pid, view, nwrites>>

\* A user task exits.
Exit(t) ==
    /\ t \in Users
    /\ ExitState(t)
    /\ UNCHANGED <<data, last_pid, view, nwrites>>

Next ==
    \E t \in Slots :
        \/ ForkNoSlot(t) \/ ForkNoTaskPage(t) \/ ForkNoTable(t) \/ Fork(t)
        \/ Exit(t)
        \/ \E a \in VAddrs :
             \/ Write(t, a) \/ UnWpReuse(t, a) \/ UnWpCopy(t, a)
             \/ UnWpOom(t, a) \/ NoPage(t, a) \/ NoPageOom(t, a)

Spec == Init /\ [][Next]_vars

-----------------------------------------------------------------------------
TypeOK ==
    /\ mem_map \in [Frames -> 0..NR_TASKS * (NDIR * NPTE + NDIR + 1)]
    /\ data \in [Pages -> Versions]
    /\ task \in [Slots -> BOOLEAN]
    /\ pid \in [Slots -> Pids]
    /\ tpage \in [Slots -> {0} \cup Frames]
    /\ dir \in [Slots -> [Dirs -> {0, KernelTable} \cup Frames]]
    /\ pte \in [Slots -> [VAddrs -> Entry]]
    /\ last_pid \in Pids
    /\ view \in [Slots -> [VAddrs -> Versions]]
    /\ nwrites \in 0..MaxWrites

\* The uses of page f: entries mapping it, page tables and task_structs
\* held in it.
Uses(f) ==
    Cardinality({ta \in Alive \X VAddrs : pte[ta[1]][ta[2]].p
                                       /\ pte[ta[1]][ta[2]].pg = f})
      + Cardinality({td \in Alive \X Dirs : dir[td[1]][td[2]] = f})
      + Cardinality({t \in Alive : tpage[t] = f})

\* mem_map of every page above LOW_MEM is exactly its number of uses, over
\* any sequence of forks, copy-on-write faults, demand faults, failures
\* and exits: free_page never finds a free page (the panic of
\* memory.c:102) and no used page is handed out again by get_free_page.
MemMapExact == \A f \in Frames : mem_map[f] = Uses(f)

\* Copy-on-write keeps tasks apart: every page a task maps holds what that
\* task last wrote there or inherited at fork, whatever the other tasks
\* sharing it have written since.
PrivateView ==
    \A t \in Alive, a \in VAddrs :
        pte[t][a].p => data[pte[t][a].pg] = view[t][a]

\* find_empty_process never gives a new task the pid of a live one, also
\* after last_pid wraps around.
UniquePids ==
    \A i, j \in Alive : i # j => pid[i] # pid[j]
=============================================================================

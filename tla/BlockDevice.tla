---------------------------- MODULE BlockDevice ----------------------------
(***************************************************************************)
(* What the buffer cache promises its callers (spec 4.1): a device of     *)
(* blocks that processes read, write and release.  read(dev, block)       *)
(* hands a process the current content of the block, or a failure, and   *)
(* the process keeps the block until release; a write by a holder         *)
(* changes the block's content, and every holder of the block sees it     *)
(* (they share one buffer).  Nothing else changes a block: write-back,    *)
(* eviction, sync and I/O completion are invisible at this level.         *)
(***************************************************************************)
EXTENDS Naturals

CONSTANTS
  Procs,        \* the processes using the device
  Blocks,       \* its block numbers
  MaxWrites,    \* bound on the number of writes (versions)
  NoBlk         \* "holds no block"

ASSUME NoBlk \notin Blocks

Versions == 0..MaxWrites

VARIABLES
  mem,          \* mem[k]: the content of block k, as a version
  held,         \* held[p]: the block p holds, or NoBlk
  seen,         \* seen[p]: the content p sees in the block it holds
  nw            \* writes so far

vars == <<mem, held, seen, nw>>

Init ==
  /\ mem = [k \in Blocks |-> 0]
  /\ held = [p \in Procs |-> NoBlk]
  /\ seen = [p \in Procs |-> 0]
  /\ nw = 0

\* read succeeds: p holds block k and sees its current content
Read(p, k) ==
  /\ held[p] = NoBlk
  /\ held' = [held EXCEPT ![p] = k]
  /\ seen' = [seen EXCEPT ![p] = mem[k]]
  /\ UNCHANGED <<mem, nw>>

\* a holder writes a fresh version; all holders of the block see it
Write(p) ==
  /\ held[p] # NoBlk /\ nw < MaxWrites
  /\ mem' = [mem EXCEPT ![held[p]] = nw + 1]
  /\ seen' = [q \in Procs |-> IF held[q] = held[p] THEN nw + 1 ELSE seen[q]]
  /\ nw' = nw + 1
  /\ UNCHANGED held

Release(p) ==
  /\ held[p] # NoBlk
  /\ held' = [held EXCEPT ![p] = NoBlk]
  /\ seen' = [seen EXCEPT ![p] = 0]
  /\ UNCHANGED <<mem, nw>>

Next == \E p \in Procs : (\E k \in Blocks : Read(p, k)) \/ Write(p) \/ Release(p)

Spec == Init /\ [][Next]_vars
=============================================================================

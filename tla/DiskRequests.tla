---------------------------- MODULE DiskRequests ----------------------------
(***************************************************************************)
(* What a block driver promises ll_rw_blk (spec 3: the request layer is    *)
(* consumed through a submit operation and a completion callback): the     *)
(* requests of the device's list are served one at a time, from the head,  *)
(* and each ends exactly once with end_request(ok).  A request that ends   *)
(* with ok = 1 has moved the whole block: a read has the disk's block in   *)
(* its buffer, a write has put its buffer on the disk.  A request that     *)
(* fails may have moved part of it: each sector of a read's buffer holds   *)
(* its old bytes or the disk's, and each sector of a write's block on disk *)
(* holds its old bytes or the buffer's.  Nothing else changes the disk.    *)
(***************************************************************************)
EXTENDS Naturals, Sequences, SequencesExt

CONSTANTS
  Reqs,      \* the request table
  Blocks,    \* block numbers on the disk; block k is sectors 2k and 2k+1
  Vals,      \* contents of a sector
  Garbage,   \* the contents of a read's buffer before the read
  READ, WRITE

Halves == 1..2
Sector(k, i) == 2 * k + i - 1
Sectors == {Sector(k, i) : k \in Blocks, i \in Halves}

VARIABLES
  queue,     \* the device's request list, current request first
  cmd, blk,  \* cmd[r], blk[r]: what request r asks for
  buf,       \* buf[r][i]: sector i of the buffer of request r
  disk,      \* disk[s]: the contents of sector s
  up         \* up[r]: the uptodate argument r's end_request was called with

vars == <<queue, cmd, blk, buf, disk, up>>

Init ==
  /\ queue = <<>>
  /\ cmd \in [Reqs -> {READ, WRITE}]
  /\ blk \in [Reqs -> Blocks]
  /\ buf = [r \in Reqs |-> [i \in Halves |-> Garbage]]
  /\ disk \in [Sectors -> Vals]
  /\ up = [r \in Reqs |-> 0]

\* A free request is filled and linked anywhere behind the current one;
\* no two requests of the list are for the same block (its buffer is locked).
Submit(r, c, k) ==
  /\ r \notin ToSet(queue)
  /\ \A q \in ToSet(queue) : blk[q] # k
  /\ \E pos \in 1..Len(queue) + 1 :
        /\ queue # <<>> => pos > 1
        /\ queue' = InsertAt(queue, pos, r)
  /\ cmd' = [cmd EXCEPT ![r] = c]
  /\ blk' = [blk EXCEPT ![r] = k]
  /\ \E d \in [Halves -> Vals] :
       buf' = [buf EXCEPT ![r] = IF c = READ THEN [i \in Halves |-> Garbage] ELSE d]
  /\ UNCHANGED <<disk, up>>

\* What the destination of a sector's transfer holds when it ends: src's
\* contents if it succeeded, dst's old ones or src's if it failed.
Moved(ok, dst, src) == IF ok = 1 THEN {src} ELSE {dst, src}

\* The current request ends.
Complete(ok) ==
  /\ queue # <<>>
  /\ LET r == Head(queue)
         S(i) == Sector(blk[r], i)
     IN /\ queue' = Tail(queue)
        /\ up' = [up EXCEPT ![r] = ok]
        /\ IF cmd[r] = READ
             THEN /\ \E x \in Moved(ok, buf[r][1], disk[S(1)]),
                       y \in Moved(ok, buf[r][2], disk[S(2)]) :
                       buf' = [buf EXCEPT ![r] = <<x, y>>]
                  /\ UNCHANGED disk
             ELSE /\ \E x \in Moved(ok, disk[S(1)], buf[r][1]),
                       y \in Moved(ok, disk[S(2)], buf[r][2]) :
                       disk' = [disk EXCEPT ![S(1)] = x, ![S(2)] = y]
                  /\ UNCHANGED buf
  /\ UNCHANGED <<cmd, blk>>

Next ==
  \/ \E r \in Reqs, c \in {READ, WRITE}, k \in Blocks : Submit(r, c, k)
  \/ \E ok \in {0, 1} : Complete(ok)

Spec == Init /\ [][Next]_vars
=============================================================================

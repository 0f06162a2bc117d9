----------------------------- MODULE HardDisk -----------------------------
(***************************************************************************)
(* The AT hard-disk driver of kernel/blk_drv/hd.c, below the request list  *)
(* of ll_rw_blk.c.  do_hd_request takes the current request and sends the *)
(* drive a command with hd_out, naming the interrupt routine (do_hd) that  *)
(* the drive's next interrupt runs: read_intr, write_intr or recal_intr.   *)
(* A request is a block of two sectors; the drive interrupts once for      *)
(* every sector and reports success or an error (win_result).  On an       *)
(* error bad_rw_intr counts it in CURRENT->errors, ends the request with   *)
(* end_request(0) at MAX_ERRORS, and past MAX_ERRORS/2 asks for a reset,   *)
(* which do_hd_request carries out (WIN_SPECIFY, then WIN_RESTORE) before  *)
(* it retries the request from the sector it had reached.                  *)
(*                                                                         *)
(* Everything runs in the disk interrupt or in add_request with interrupts *)
(* off, so the steps are atomic; dpc = "request" is the loop of            *)
(* do_hd_request (label repeat), which nothing can interrupt.  The drive   *)
(* is the fault model: every interrupt may report an error, and a failed   *)
(* write may or may not have reached the sector.                           *)
(***************************************************************************)
EXTENDS Naturals, Sequences, SequencesExt

CONSTANTS
  NR_REQUEST,   \* size of the request table
  Blocks,       \* block numbers on the disk
  NR_SECTS,     \* hd[dev].nr_sects: sectors of the partition
  MAX_ERRORS,   \* errors a request may take (7)
  Unwritten,    \* the contents of a sector no request has written
  Garbage       \* a read's buffer before the read

ASSUME /\ NR_REQUEST \in Nat \ {0}
       /\ Blocks \subseteq Nat /\ NR_SECTS \in Nat /\ MAX_ERRORS \in Nat \ {0}
       /\ Garbage # Unwritten /\ Garbage \notin Nat /\ Unwritten \notin Nat

READ == 0
WRITE == 1

Reqs == 1..NR_REQUEST
Halves == 1..2
Sector(k, i) == 2 * k + i - 1
Sectors == {Sector(k, i) : k \in Blocks, i \in Halves}
\* A sector holds what nobody wrote, or what was meant for it: the data a
\* write carries for sector s is s, so a misplaced sector shows.
Vals == {Unwritten} \cup Sectors
WriteData(k) == [i \in Halves |-> Sector(k, i)]

Intrs == {"none", "read_intr", "write_intr", "recal_intr"}

VARIABLES
  queue,        \* the list from hd's current_request on
  rq,           \* rq[r]: cmd, blk (of its buffer), sector, nr_sectors, errors
  buf,          \* buf[r][i]: sector i of the buffer of request r
  disk,         \* disk[s]: what the drive holds in sector s
  up,           \* up[r]: the argument of r's end_request (its b_uptodate)
  do_hd,        \* the routine the next disk interrupt runs
  pending,      \* the drive owes an interrupt for the command it was sent
  reset, recalibrate,
  dpc,          \* "request" while do_hd_request loops, else "idle"
  before,       \* ghost: the current request's block on disk when it became current
  streak        \* ghost: streak[r], errors in a row on r's current sector

vars == <<queue, rq, buf, disk, up, do_hd, pending, reset, recalibrate, dpc,
          before, streak>>

InList == ToSet(queue)
CURRENT == Head(queue)
Slot(r) == 3 - rq[r].nr        \* CURRENT->buffer: the sector of buf now moved

\* blk_dev_init: every request free (dev = -1), the rest of it zero.
Init ==
  /\ queue = <<>>
  /\ rq = [r \in Reqs |-> [cmd |-> READ, blk |-> 0, sector |-> 0, nr |-> 0, errors |-> 0]]
  /\ buf = [r \in Reqs |-> [i \in Halves |-> Garbage]]
  /\ disk = [s \in Sectors |-> Unwritten]
  /\ up = [r \in Reqs |-> 0]
  /\ do_hd = "none" /\ pending = FALSE
  /\ reset = 0 /\ recalibrate = 0
  /\ dpc = "idle"
  /\ before = [i \in Halves |-> Unwritten]
  /\ streak = [r \in Reqs |-> 0]

\* The block of the request at the head of q, for the ghost (no step that
\* makes a request current writes to its block: blocks of the list differ).
BlockOnDisk(q) == IF q = <<>> THEN before
                  ELSE [i \in Halves |-> disk[Sector(rq[Head(q)].blk, i)]]

-----------------------------------------------------------------------------
(* The request list (ll_rw_blk.c).                                         *)

\* IN_ORDER of blk.h for requests of the one device.
IN_ORDER(r1, r2) ==
  \/ r1.cmd < r2.cmd
  \/ r1.cmd = r2.cmd /\ r1.sector < r2.sector

\* The loop of add_request: the position in q after which req is linked.
RECURSIVE ElevatorPos(_, _, _)
ElevatorPos(q, req, i) ==
  IF i = Len(q) THEN i
  ELSE IF /\ IN_ORDER(rq[q[i]], req) \/ ~IN_ORDER(rq[q[i]], rq[q[i+1]])
          /\ IN_ORDER(req, rq[q[i+1]])
       THEN i
       ELSE ElevatorPos(q, req, i + 1)

\* make_request fills a free request for the locked buffer of block k
\* (no other request is for k), and add_request links it; an idle device
\* takes it as current_request and add_request calls do_hd_request.
MakeRequest(r, c, k) ==
  LET req == [cmd |-> c, blk |-> k, sector |-> 2 * k, nr |-> 2, errors |-> 0]
  IN /\ dpc = "idle"
     /\ r \notin InList
     /\ \A q \in InList : rq[q].blk # k
     /\ rq' = [rq EXCEPT ![r] = req]
     /\ buf' = [buf EXCEPT ![r] = IF c = READ THEN [i \in Halves |-> Garbage] ELSE WriteData(k)]
     /\ streak' = [streak EXCEPT ![r] = 0]
     /\ IF queue = <<>>
          THEN /\ queue' = <<r>>
               /\ dpc' = "request"
               /\ before' = [i \in Halves |-> disk[Sector(k, i)]]
          ELSE /\ queue' = InsertAt(queue, ElevatorPos(queue, req, 1) + 1, r)
               /\ UNCHANGED <<dpc, before>>
     /\ UNCHANGED <<disk, up, do_hd, pending, reset, recalibrate>>

-----------------------------------------------------------------------------
(* end_request (blk.h) and bad_rw_intr.                                    *)

\* end_request(ok): b_uptodate = ok, unlock the buffer and wake its
\* waiters, free the request and make the next one current.
EndRequest(ok) ==
  /\ up' = [up EXCEPT ![CURRENT] = ok]
  /\ queue' = Tail(queue)
  /\ before' = BlockOnDisk(Tail(queue))

\* The reset test of bad_rw_intr reads CURRENT->errors after end_request
\* may have moved CURRENT on: to the next request, or to NULL, whose read
\* is undefined and may or may not exceed MAX_ERRORS/2.
ResetTest(q, e) ==
  IF q = <<>> THEN UNCHANGED reset \/ reset' = 1
  ELSE reset' = IF e[Head(q)].errors > MAX_ERRORS \div 2 THEN 1 ELSE reset

\* bad_rw_intr: one more error for CURRENT.
BadRwIntr ==
  LET r  == CURRENT
      e  == [rq EXCEPT ![r].errors = @ + 1]
  IN /\ rq' = e
     /\ streak' = [streak EXCEPT ![r] = @ + 1]
     /\ IF e[r].errors >= MAX_ERRORS
          THEN EndRequest(0) /\ ResetTest(Tail(queue), e)
          ELSE /\ ResetTest(queue, e)
               /\ UNCHANGED <<up, queue, before>>

-----------------------------------------------------------------------------
(* do_hd_request, one pass of its loop.                                    *)

\* An hd_out that sends the command without setting do_hd.
HdOutNoIntr(intr) == do_hd' = "none" /\ pending' = TRUE /\ dpc' = "idle"

\* hd_out: do_hd is set before the command goes to the drive.
HdOut(intr) == do_hd' = intr /\ pending' = TRUE /\ dpc' = "idle"

\* INIT_REQUEST: no current request, the driver stops.
HdRequestIdle ==
  /\ dpc = "request" /\ queue = <<>>
  /\ dpc' = "idle"
  /\ UNCHANGED <<queue, rq, buf, disk, up, do_hd, pending, reset, recalibrate,
                 before, streak>>

\* The sector test: two sectors from CURRENT->sector must fit the partition.
Beyond(sector) == sector + 2 > NR_SECTS

HdRequestBeyond ==
  /\ dpc = "request" /\ queue # <<>>
  /\ Beyond(rq[CURRENT].sector)
  /\ EndRequest(0)
  /\ UNCHANGED <<rq, buf, disk, do_hd, pending, reset, recalibrate, dpc, streak>>

\* A reset that stays asked for: do_hd_request resets the drive again
\* after every recal_intr.
ResetHdKeep ==
  /\ reset = 1
  /\ recalibrate' = 1
  /\ HdOut("recal_intr")
  /\ UNCHANGED <<queue, rq, up, reset, before, streak>>

\* The reset asked for by bad_rw_intr: reset_hd sends WIN_SPECIFY, and
\* recalibrate makes the next pass send WIN_RESTORE.
ResetHd ==
  /\ reset = 1
  /\ reset' = 0 /\ recalibrate' = 1
  /\ HdOut("recal_intr")
  /\ UNCHANGED <<queue, rq, up, before, streak>>

\* The sector is on the partition: reset, recalibrate or transfer.
HdRequestIssue ==
  /\ dpc = "request" /\ queue # <<>>
  /\ ~Beyond(rq[CURRENT].sector)
  /\ \/ ResetHd
     \/ /\ reset = 0 /\ recalibrate = 1
        /\ recalibrate' = 0
        /\ HdOut("recal_intr")                    \* WIN_RESTORE
        /\ UNCHANGED <<queue, rq, up, reset, before, streak>>
     \/ /\ reset = 0 /\ recalibrate = 0 /\ rq[CURRENT].cmd = READ
        /\ HdOut("read_intr")                     \* WIN_READ
        /\ UNCHANGED <<queue, rq, up, reset, recalibrate, before, streak>>
     \/ /\ reset = 0 /\ recalibrate = 0 /\ rq[CURRENT].cmd = WRITE
        /\ \/ HdOut("write_intr")                 \* DRQ came: port_write
              /\ UNCHANGED <<queue, rq, up, reset, recalibrate, before, streak>>
           \/ /\ do_hd' = "write_intr"            \* no DRQ in 3000 polls
              /\ BadRwIntr
              /\ UNCHANGED <<pending, dpc, recalibrate>>
  /\ UNCHANGED <<buf, disk>>

-----------------------------------------------------------------------------
(* The disk interrupt: hd_interrupt takes do_hd (xchgl with 0) and runs it *)
(* with the drive's status; ok is win_result() = 0.                        *)

\* A read_intr that does not advance CURRENT->sector.
ReadIntrSameSector(ok) ==
  LET r == CURRENT IN
  \/ /\ ~ok
     /\ BadRwIntr
     /\ dpc' = "request" /\ do_hd' = "none" /\ pending' = FALSE
     /\ UNCHANGED <<buf, disk, recalibrate>>
  \/ /\ ok
     /\ buf' = [buf EXCEPT ![r][Slot(r)] = disk[rq[r].sector]]
     /\ rq' = [rq EXCEPT ![r].errors = 0, ![r].nr = @ - 1]
     /\ streak' = [streak EXCEPT ![r] = 0]
     /\ IF rq[r].nr > 1
          THEN /\ do_hd' = "read_intr" /\ pending' = TRUE /\ dpc' = "idle"
               /\ UNCHANGED <<queue, up, before>>
          ELSE /\ EndRequest(1)
               /\ dpc' = "request" /\ do_hd' = "none" /\ pending' = FALSE
     /\ UNCHANGED <<disk, reset, recalibrate>>

\* read_intr: an error retries; a sector read moves the request on.
ReadIntr(ok) ==
  LET r == CURRENT IN
  \/ /\ ~ok
     /\ BadRwIntr
     /\ dpc' = "request" /\ do_hd' = "none" /\ pending' = FALSE
     /\ UNCHANGED <<buf, disk, recalibrate>>
  \/ /\ ok
     /\ buf' = [buf EXCEPT ![r][Slot(r)] = disk[rq[r].sector]]
     /\ rq' = [rq EXCEPT ![r].errors = 0, ![r].sector = @ + 1, ![r].nr = @ - 1]
     /\ streak' = [streak EXCEPT ![r] = 0]
     /\ IF rq[r].nr > 1
          THEN /\ do_hd' = "read_intr" /\ pending' = TRUE /\ dpc' = "idle"
               /\ UNCHANGED <<queue, up, before>>
          ELSE /\ EndRequest(1)
               /\ dpc' = "request" /\ do_hd' = "none" /\ pending' = FALSE
     /\ UNCHANGED <<disk, reset, recalibrate>>

\* write_intr: the drive has written the sector port_write gave it, or,
\* on an error, may have.  A success moves on without clearing errors.
WriteIntr(ok) ==
  LET r == CURRENT
      s == rq[r].sector
      v == buf[r][Slot(r)]
  IN
  \/ /\ ~ok
     /\ \E w \in {disk[s], v} : disk' = [disk EXCEPT ![s] = w]
     /\ BadRwIntr
     /\ dpc' = "request" /\ do_hd' = "none" /\ pending' = FALSE
     /\ UNCHANGED <<buf, recalibrate>>
  \/ /\ ok
     /\ disk' = [disk EXCEPT ![s] = v]
     /\ streak' = [streak EXCEPT ![r] = 0]
     /\ IF rq[r].nr > 1
          THEN /\ rq' = [rq EXCEPT ![r].nr = @ - 1, ![r].sector = @ + 1]
               /\ do_hd' = "write_intr" /\ pending' = TRUE /\ dpc' = "idle"
               /\ UNCHANGED <<queue, up, before>>
          ELSE /\ rq' = [rq EXCEPT ![r].nr = @ - 1]
               /\ EndRequest(1)
               /\ dpc' = "request" /\ do_hd' = "none" /\ pending' = FALSE
     /\ UNCHANGED <<buf, reset, recalibrate>>

\* recal_intr: an error counts against the request; then do_hd_request.
RecalIntr(ok) ==
  /\ \/ ~ok /\ BadRwIntr
     \/ ok /\ UNCHANGED <<rq, queue, up, reset, before, streak>>
  /\ dpc' = "request" /\ do_hd' = "none" /\ pending' = FALSE
  /\ UNCHANGED <<buf, disk, recalibrate>>

HdInterrupt ==
  /\ pending /\ dpc = "idle"
  /\ \E ok \in BOOLEAN :
       CASE do_hd = "read_intr"  -> ReadIntr(ok)
         [] do_hd = "write_intr" -> WriteIntr(ok)
         [] do_hd = "recal_intr" -> RecalIntr(ok)

HdRequest == HdRequestIdle \/ HdRequestBeyond \/ HdRequestIssue

Next ==
  \/ \E r \in Reqs, c \in {READ, WRITE}, k \in Blocks : MakeRequest(r, c, k)
  \/ HdRequest
  \/ HdInterrupt

Spec == Init /\ [][Next]_vars

\* The drive answers every command it was sent, and the CPU runs
\* do_hd_request to its end.
FairSpec == Spec /\ WF_vars(HdInterrupt) /\ WF_vars(HdRequest)

-----------------------------------------------------------------------------
(* Properties.                                                             *)

TypeOK ==
  /\ queue \in Seq(Reqs) /\ Len(queue) <= NR_REQUEST
  /\ rq \in [Reqs -> [cmd : {READ, WRITE}, blk : Blocks, sector : 0..2 * NR_SECTS + 2,
                      nr : 0..2, errors : 0..MAX_ERRORS]]
  /\ buf \in [Reqs -> [Halves -> Vals \cup {Garbage}]]
  /\ disk \in [Sectors -> Vals]
  /\ up \in [Reqs -> {0, 1}]
  /\ do_hd \in Intrs /\ pending \in BOOLEAN /\ dpc \in {"idle", "request"}
  /\ reset \in {0, 1} /\ recalibrate \in {0, 1}
  /\ pending => do_hd # "none"

\* What ll_rw_blk sees of the driver: the current request's buffer keeps
\* its old bytes, and its block on disk its old contents, until
\* end_request; every other buffer and sector is as it is.
AbsBuf == [r \in Reqs |->
            IF r \in InList /\ r = CURRENT /\ rq[r].cmd = READ
              THEN [i \in Halves |-> Garbage] ELSE buf[r]]
AbsDisk == [s \in Sectors |->
             IF queue # <<>> /\ rq[CURRENT].cmd = WRITE
                /\ s \in {Sector(rq[CURRENT].blk, i) : i \in Halves}
               THEN before[s - 2 * rq[CURRENT].blk + 1]
               ELSE disk[s]]

Abstract == INSTANCE DiskRequests WITH
  cmd  <- [r \in Reqs |-> rq[r].cmd],
  blk  <- [r \in Reqs |-> rq[r].blk],
  buf  <- AbsBuf,
  disk <- AbsDisk

\* hd.c serves the request list as the block driver ll_rw_blk relies on:
\* whatever errors, resets and retries the drive causes, requests end in
\* list order, each exactly once; a request that ends with uptodate = 1
\* moved all of its block to the right sectors or buffer halves, and one
\* that fails moved at most some of its sectors, none to a wrong place.
DiskRefined == Abstract!Spec

\* Every request on hd's list is eventually ended by end_request, success
\* or failure: bad_rw_intr's MAX_ERRORS bound and the reset/recalibrate
\* sequence of do_hd_request never retry a request forever, however
\* often the drive reports errors.
RequestEnds == \A r \in Reqs : r \in InList ~> r \notin InList

\* "Max read/write errors/sector" (hd.c:33): a request ends with
\* end_request(0) only if its block lies beyond the partition, or after
\* MAX_ERRORS errors in a row on one of its sectors.
FailsOnlyAfterRetries ==
  [][\A r \in Reqs :
       r \in InList /\ r \notin ToSet(queue') /\ up'[r] = 0
         => Beyond(2 * rq[r].blk) \/ streak'[r] >= MAX_ERRORS]_vars
=============================================================================

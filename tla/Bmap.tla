-------------------------------- MODULE Bmap --------------------------------
(***************************************************************************)
(* The block-address translator of fs/inode.c: _bmap, with bmap (create=0) *)
(* and create_block (create=1), run by several processes on one inode.     *)
(*                                                                         *)
(* An inode has NR_DIRECT direct zones, zone[NR_DIRECT] names an indirect  *)
(* block and zone[NR_DIRECT+1] a double-indirect block; a block of zone    *)
(* numbers has ADDR_PER_BLOCK entries.  The code's literals are 7 and 512; *)
(* the model keeps its arithmetic (block-7, block<512, block>>9,           *)
(* block&511) over these two constants.                                    *)
(*                                                                         *)
(* The kernel is non-preemptive: a process keeps the CPU (cur) until it    *)
(* reaches a point where the code may sleep.  _bmap may sleep in bread and *)
(* inside new_block (getblk); each such point ends an action.              *)
(*                                                                         *)
(* new_block (fs/bitmap.c, not in this tree) is modelled from the spec:    *)
(* it takes the lowest clear bit of the zone bitmap at once, then gets a   *)
(* buffer for the zone (may sleep), clears it and returns the zone.  A     *)
(* free zone holds whatever was last written to it (Garbage).              *)
(***************************************************************************)
EXTENDS Naturals, FiniteSets, SequencesExt

CONSTANTS
    Procs,          \* processes that call bmap / create_block
    Creators,       \* the processes that call create_block
    NR_DIRECT,      \* direct zones (7 in the code)
    ADDR_PER_BLOCK, \* zone numbers in a block (512 in the code)
    NZONES,         \* data zones of the device: zone numbers 1..NZONES
    Garbage,        \* the stale content of a zone never cleared
    NoProc

ASSUME /\ Creators \subseteq Procs
       /\ NR_DIRECT \in Nat \ {0} /\ ADDR_PER_BLOCK \in Nat \ {0}
       /\ NZONES \in Nat \ {0}

Zones == 1..NZONES
Bits == 1..NZONES + 1          \* the bitmap has bits past the last zone
ZoneVal == 0..NZONES
Idx == 0..ADDR_PER_BLOCK - 1
Slots == 0..NR_DIRECT + 1      \* i_zone[0..8]
IND == NR_DIRECT               \* i_zone[7]
DIND == NR_DIRECT + 1          \* i_zone[8]
MaxBlock == NR_DIRECT + ADDR_PER_BLOCK + ADDR_PER_BLOCK * ADDR_PER_BLOCK
Blocks == 0..MaxBlock - 1      \* the code panics outside this range

\* Where the value new_block returns is stored, and what follows
Stages == {"dz", "iz", "ie", "dz2", "de1", "de2"}

PCs == {"idle", "start", "ind_check", "ind_read", "dind_check",
        "dind_read1", "dind_read2", "nb", "nb_wait", "nb_ret", "got"}

VARIABLES
    i_zone,    \* the inode's zone pointers
    bdata,     \* zone -> its content as zone numbers
    zmap,      \* the set bits of the zone bitmap
    pc, blk, bhz, i, nz, stage, cre, res,
    cur

vars == <<i_zone, bdata, zmap, pc, blk, bhz, i, nz, stage, cre, res, cur>>
frame == <<blk, bhz, i, nz, stage, cre, res>>

Runs(p) == cur \in {NoProc, p}

\* The index arithmetic of _bmap
IndIndex(k) == k - NR_DIRECT                       \* block -= 7
DindOff(k) == k - NR_DIRECT - ADDR_PER_BLOCK       \* block -= 512
DindOuter(k) == DindOff(k) \div ADDR_PER_BLOCK     \* block>>9
DindInnerShifted(k) == DindOff(k) \div ADDR_PER_BLOCK
DindInner(k) == DindOff(k) % ADDR_PER_BLOCK        \* block&511

\* ((unsigned short *) bh->b_data)[x] of a buffer holding zone z
Entry(z, x) == IF z \in Zones THEN bdata[z][x] ELSE IF z = 0 THEN 0 ELSE Garbage

\* bmap(inode, k): the lookup _bmap does when create is 0
BmapRead(k) ==
    IF k < NR_DIRECT THEN i_zone[k]
    ELSE IF IndIndex(k) < ADDR_PER_BLOCK THEN Entry(i_zone[IND], IndIndex(k))
    ELSE Entry(Entry(i_zone[DIND], DindOuter(k)), DindInner(k))

\* "if (create && !i)": the test before every new_block call
NeedsBlockAlways(z) == TRUE
NeedsBlock(z) == z = 0

\* new_block's "if (j >= sb->s_nzones) return 0"
NewBlockFailsLate(j) == j > NZONES + 1
NewBlockFails(j) == j > NZONES

\* set_bit in the zone bitmap
TakeZone(j) == zmap' = zmap \cup {j}

\* clear_block(bh->b_data)
ClearBlockSkipped(z) == bdata' = bdata
ClearBlock(z) == bdata' = [bdata EXCEPT ![z] = [x \in Idx |-> 0]]

\* ((unsigned short *) bh->b_data)[x] = v; bh->b_dirt = 1
SetEntryLost(z, x, v) == bdata' = bdata
SetEntry(z, x, v) == bdata' = [bdata EXCEPT ![z][x] = v]

Init ==
    /\ i_zone = [s \in Slots |-> 0]
    /\ bdata = [z \in Zones |-> [x \in Idx |-> Garbage]]
    /\ zmap = {}
    /\ pc = [p \in Procs |-> "idle"]
    /\ blk = [p \in Procs |-> 0]
    /\ bhz = [p \in Procs |-> 0]
    /\ i = [p \in Procs |-> 0]
    /\ nz = [p \in Procs |-> 0]
    /\ stage = [p \in Procs |-> "dz"]
    /\ cre = [p \in Procs |-> FALSE]
    /\ res = [p \in Procs |-> 0]
    /\ cur = NoProc

\* Go to pc l keeping the CPU / after a point where the code may sleep
Goto(p, l) == pc' = [pc EXCEPT ![p] = l]

\* "return v": the caller holds the block number in res
Return(p, v) ==
    /\ Goto(p, "got")
    /\ res' = [res EXCEPT ![p] = v]
    /\ cur' = p

\* A create=1 test found no block: call new_block for stage s
CallNewBlock(p, s) ==
    /\ Goto(p, "nb")
    /\ stage' = [stage EXCEPT ![p] = s]
    /\ cur' = p

\* A caller (a read, write or directory operation) calls bmap or create_block
Call(p) ==
    /\ pc[p] = "idle" /\ Runs(p)
    /\ \E k \in Blocks, c \in BOOLEAN :
         /\ c => p \in Creators
         /\ blk' = [blk EXCEPT ![p] = k]
         /\ cre' = [cre EXCEPT ![p] = c]
    /\ Goto(p, "start")
    /\ cur' = p
    /\ UNCHANGED <<i_zone, bdata, zmap, bhz, i, nz, stage, res>>

\* block < 7: "if (create && !inode->i_zone[block])" calls new_block
DirectCreate(p) ==
    /\ pc[p] = "start" /\ Runs(p) /\ blk[p] < NR_DIRECT
    /\ cre[p] /\ NeedsBlock(i_zone[blk[p]])
    /\ CallNewBlock(p, "dz")
    /\ UNCHANGED <<i_zone, bdata, zmap, blk, bhz, i, nz, cre, res>>

\* block < 7 otherwise: "return inode->i_zone[block]"
DirectLookup(p) ==
    /\ pc[p] = "start" /\ Runs(p) /\ blk[p] < NR_DIRECT
    /\ ~(cre[p] /\ NeedsBlock(i_zone[blk[p]]))
    /\ Return(p, i_zone[blk[p]])
    /\ UNCHANGED <<i_zone, bdata, zmap, blk, bhz, i, nz, stage, cre>>

\* block -= 7; block < 512: create the indirect block if it is missing
StartIndirect(p) ==
    /\ pc[p] = "start" /\ Runs(p) /\ blk[p] >= NR_DIRECT
    /\ IndIndex(blk[p]) < ADDR_PER_BLOCK
    /\ IF cre[p] /\ NeedsBlock(i_zone[IND])
         THEN CallNewBlock(p, "iz")
         ELSE Goto(p, "ind_check") /\ cur' = p /\ UNCHANGED stage
    /\ UNCHANGED <<i_zone, bdata, zmap, blk, bhz, i, nz, cre, res>>

\* "if (!inode->i_zone[7]) return 0"; else bread(i_zone[7]), which may sleep
IndCheck(p) ==
    /\ pc[p] = "ind_check" /\ Runs(p)
    /\ IF i_zone[IND] = 0
         THEN Return(p, 0) /\ UNCHANGED bhz
         ELSE /\ Goto(p, "ind_read")
              /\ bhz' = [bhz EXCEPT ![p] = i_zone[IND]]
              /\ cur' = NoProc
              /\ UNCHANGED res
    /\ UNCHANGED <<i_zone, bdata, zmap, blk, i, nz, stage, cre>>

\* i = b_data[block]; "if (create && !i)" calls new_block, else return i
IndRead(p) ==
    /\ pc[p] = "ind_read" /\ Runs(p)
    /\ LET e == Entry(bhz[p], IndIndex(blk[p])) IN
         /\ i' = [i EXCEPT ![p] = e]
         /\ IF cre[p] /\ NeedsBlock(e)
              THEN CallNewBlock(p, "ie") /\ UNCHANGED res
              ELSE Return(p, e) /\ UNCHANGED stage
    /\ UNCHANGED <<i_zone, bdata, zmap, blk, bhz, nz, cre>>

\* block -= 512: create the double-indirect block if it is missing
StartDouble(p) ==
    /\ pc[p] = "start" /\ Runs(p) /\ blk[p] >= NR_DIRECT
    /\ IndIndex(blk[p]) >= ADDR_PER_BLOCK
    /\ IF cre[p] /\ NeedsBlock(i_zone[DIND])
         THEN CallNewBlock(p, "dz2")
         ELSE Goto(p, "dind_check") /\ cur' = p /\ UNCHANGED stage
    /\ UNCHANGED <<i_zone, bdata, zmap, blk, bhz, i, nz, cre, res>>

\* "if (!inode->i_zone[8]) return 0"; else bread(i_zone[8]), which may sleep
DindCheck(p) ==
    /\ pc[p] = "dind_check" /\ Runs(p)
    /\ IF i_zone[DIND] = 0
         THEN Return(p, 0) /\ UNCHANGED bhz
         ELSE /\ Goto(p, "dind_read1")
              /\ bhz' = [bhz EXCEPT ![p] = i_zone[DIND]]
              /\ cur' = NoProc
              /\ UNCHANGED res
    /\ UNCHANGED <<i_zone, bdata, zmap, blk, i, nz, stage, cre>>

\* After new_block, or when i was found: brelse; "if (!i) return 0";
\* bread(i), which may sleep
DindDescend(p, v) ==
    /\ i' = [i EXCEPT ![p] = v]
    /\ IF v = 0
         THEN Return(p, 0) /\ UNCHANGED bhz
         ELSE /\ Goto(p, "dind_read2")
              /\ bhz' = [bhz EXCEPT ![p] = v]
              /\ cur' = NoProc
              /\ UNCHANGED res

\* i = b_data[block>>9]; "if (create && !i)" calls new_block
DindRead1(p) ==
    /\ pc[p] = "dind_read1" /\ Runs(p)
    /\ LET e == Entry(bhz[p], DindOuter(blk[p])) IN
         IF cre[p] /\ NeedsBlock(e)
           THEN CallNewBlock(p, "de1") /\ UNCHANGED <<i, bhz, res>>
           ELSE DindDescend(p, e) /\ UNCHANGED stage
    /\ UNCHANGED <<i_zone, bdata, zmap, blk, nz, cre>>

\* i = b_data[block&511]; "if (create && !i)" calls new_block, else return i
DindRead2(p) ==
    /\ pc[p] = "dind_read2" /\ Runs(p)
    /\ LET e == Entry(bhz[p], DindInner(blk[p])) IN
         /\ i' = [i EXCEPT ![p] = e]
         /\ IF cre[p] /\ NeedsBlock(e)
              THEN CallNewBlock(p, "de2") /\ UNCHANGED res
              ELSE Return(p, e) /\ UNCHANGED stage
    /\ UNCHANGED <<i_zone, bdata, zmap, blk, bhz, nz, cre>>

\* bread returns NULL on a read error: "return 0"
BreadFail(p) ==
    /\ pc[p] \in {"ind_read", "dind_read1", "dind_read2"} /\ Runs(p)
    /\ Return(p, 0)
    /\ UNCHANGED <<i_zone, bdata, zmap, blk, bhz, i, nz, stage, cre>>

(***************************************************************************)
(* new_block(dev): find_first_zero in the zone bitmap and set_bit at once; *)
(* "if (j >= sb->s_nzones) return 0" comes after set_bit.  Otherwise       *)
(* getblk(dev, j), which may sleep; then clear_block and return j.         *)
(***************************************************************************)
NewBlockFull(p) ==
    /\ pc[p] = "nb" /\ Runs(p)
    /\ \/ Bits \subseteq zmap /\ UNCHANGED zmap
       \/ /\ ~(Bits \subseteq zmap)
          /\ NewBlockFails(Min(Bits \ zmap))
          /\ TakeZone(Min(Bits \ zmap))
    /\ nz' = [nz EXCEPT ![p] = 0]
    /\ Goto(p, "nb_ret")
    /\ cur' = p
    /\ UNCHANGED <<i_zone, bdata, blk, bhz, i, stage, cre, res>>

NewBlockTake(p) ==
    /\ pc[p] = "nb" /\ Runs(p)
    /\ ~(Bits \subseteq zmap)
    /\ LET j == Min(Bits \ zmap) IN
         /\ ~NewBlockFails(j)
         /\ TakeZone(j)
         /\ nz' = [nz EXCEPT ![p] = j]
    /\ Goto(p, "nb_wait")
    /\ cur' = NoProc
    /\ UNCHANGED <<i_zone, bdata, blk, bhz, i, stage, cre, res>>

NewBlockDone(p) ==
    /\ pc[p] = "nb_wait" /\ Runs(p)
    /\ ClearBlock(nz[p])
    /\ Goto(p, "nb_ret")
    /\ cur' = p
    /\ UNCHANGED <<i_zone, zmap, blk, bhz, i, nz, stage, cre, res>>

(***************************************************************************)
(* Back in _bmap with v = new_block(...): the assignment and what follows  *)
(* it, one action per call site.                                           *)
(***************************************************************************)
AfterNewBlock(p, s) == pc[p] = "nb_ret" /\ stage[p] = s /\ Runs(p)

\* "if ((inode->i_zone[block]=new_block(...)))"; "return inode->i_zone[block]"
AssignDirect(p) ==
    /\ AfterNewBlock(p, "dz")
    /\ i_zone' = [i_zone EXCEPT ![blk[p]] = nz[p]]
    /\ Return(p, nz[p])
    /\ UNCHANGED <<bdata, zmap, blk, bhz, i, nz, stage, cre>>

\* i_zone[7] = new_block(...), then "if (!inode->i_zone[7])"
AssignInd(p) ==
    /\ AfterNewBlock(p, "iz")
    /\ i_zone' = [i_zone EXCEPT ![IND] = nz[p]]
    /\ Goto(p, "ind_check")
    /\ cur' = p
    /\ UNCHANGED <<bdata, zmap, blk, bhz, i, nz, stage, cre, res>>

\* i_zone[8] = new_block(...), then "if (!inode->i_zone[8])"
AssignDind(p) ==
    /\ AfterNewBlock(p, "dz2")
    /\ i_zone' = [i_zone EXCEPT ![DIND] = nz[p]]
    /\ Goto(p, "dind_check")
    /\ cur' = p
    /\ UNCHANGED <<bdata, zmap, blk, bhz, i, nz, stage, cre, res>>

\* "if ((i=new_block(...))) b_data[x]=i" into the buffer of zone bhz
StoreEntry(p, x) ==
    IF nz[p] # 0 THEN SetEntry(bhz[p], x, nz[p]) ELSE UNCHANGED bdata

\* i = new_block(...) in the indirect block; brelse; "return i"
AssignIndEntry(p) ==
    /\ AfterNewBlock(p, "ie")
    /\ StoreEntry(p, IndIndex(blk[p]))
    /\ i' = [i EXCEPT ![p] = nz[p]]
    /\ Return(p, nz[p])
    /\ UNCHANGED <<i_zone, zmap, blk, bhz, nz, stage, cre>>

\* i = new_block(...) at block>>9 of the double-indirect block
AssignDindEntry1(p) ==
    /\ AfterNewBlock(p, "de1")
    /\ StoreEntry(p, DindOuter(blk[p]))
    /\ DindDescend(p, nz[p])
    /\ UNCHANGED <<i_zone, zmap, blk, nz, stage, cre>>

\* i = new_block(...) at block&511 of the second-level block; "return i"
AssignDindEntry2(p) ==
    /\ AfterNewBlock(p, "de2")
    /\ StoreEntry(p, DindInner(blk[p]))
    /\ i' = [i EXCEPT ![p] = nz[p]]
    /\ Return(p, nz[p])
    /\ UNCHANGED <<i_zone, zmap, blk, bhz, nz, stage, cre>>

\* The caller is done with the block number; its frame is gone
Done(p) ==
    /\ pc[p] = "got" /\ Runs(p)
    /\ pc' = [pc EXCEPT ![p] = "idle"]
    /\ blk' = [blk EXCEPT ![p] = 0]
    /\ bhz' = [bhz EXCEPT ![p] = 0]
    /\ i' = [i EXCEPT ![p] = 0]
    /\ nz' = [nz EXCEPT ![p] = 0]
    /\ stage' = [stage EXCEPT ![p] = "dz"]
    /\ cre' = [cre EXCEPT ![p] = FALSE]
    /\ res' = [res EXCEPT ![p] = 0]
    /\ cur' = NoProc
    /\ UNCHANGED <<i_zone, bdata, zmap>>

Next ==
    \E p \in Procs :
        \/ Call(p) \/ DirectCreate(p) \/ DirectLookup(p)
        \/ StartIndirect(p) \/ IndCheck(p) \/ IndRead(p)
        \/ StartDouble(p) \/ DindCheck(p) \/ DindRead1(p) \/ DindRead2(p)
        \/ BreadFail(p)
        \/ NewBlockFull(p) \/ NewBlockTake(p) \/ NewBlockDone(p)
        \/ AssignDirect(p) \/ AssignInd(p) \/ AssignDind(p)
        \/ AssignIndEntry(p) \/ AssignDindEntry1(p) \/ AssignDindEntry2(p)
        \/ Done(p)

Spec == Init /\ [][Next]_vars

-----------------------------------------------------------------------------
(***************************************************************************)
(* Properties                                                              *)
(***************************************************************************)

TypeOK ==
    /\ i_zone \in [Slots -> ZoneVal]
    /\ bdata \in [Zones -> [Idx -> ZoneVal \cup {Garbage}]]
    /\ zmap \subseteq Bits
    /\ pc \in [Procs -> PCs]
    /\ blk \in [Procs -> Blocks]
    /\ bhz \in [Procs -> ZoneVal]
    /\ i \in [Procs -> ZoneVal \cup {Garbage}]
    /\ nz \in [Procs -> ZoneVal]
    /\ stage \in [Procs -> Stages]
    /\ cre \in [Procs -> BOOLEAN]
    /\ res \in [Procs -> ZoneVal \cup {Garbage}]
    /\ cur \in Procs \cup {NoProc}

\* The blocks of zone numbers reachable from the inode
IndirectBlocks ==
    ({i_zone[IND], i_zone[DIND]}
       \cup {Entry(i_zone[DIND], x) : x \in Idx}) \cap Zones

\* Every place a zone number is stored: <<0, slot>> in the inode,
\* <<z, x>> in a block of zone numbers
Positions == ({0} \X Slots) \cup (IndirectBlocks \X Idx)
PosVal(q) == IF q[1] = 0 THEN i_zone[q[2]] ELSE bdata[q[1]][q[2]]

\* Zones the file uses, and zones taken by a new_block still running
Referenced == {PosVal(q) : q \in Positions} \cap Zones
InFlight == {nz[p] : p \in {q \in Procs : pc[q] \in {"nb_wait", "nb_ret"}}} \cap Zones

\* The file as the sequence of its blocks in logical order: the direct
\* zones, the entries of the indirect block, then the entries of the
\* second-level blocks in the order of the double-indirect block.
Contents(z) ==
    IF z \in Zones THEN [x \in 1..ADDR_PER_BLOCK |-> bdata[z][x - 1]]
    ELSE [x \in 1..ADDR_PER_BLOCK |-> IF z = 0 THEN 0 ELSE Garbage]
LeafOrder ==
    [x \in 1..NR_DIRECT |-> i_zone[x - 1]]
      \o Contents(i_zone[IND])
      \o FlattenSeq([j \in 1..ADDR_PER_BLOCK |->
                       Contents(Contents(i_zone[DIND])[j])])

\* bmap's arithmetic (block-7, block<512, block>>9, block&511) finds the
\* k-th block of the file in the order the tree stores it, for every k.
BmapMatchesReference == \A k \in Blocks : BmapRead(k) = LeafOrder[k + 1]

\* No stale zone content is ever read as a zone number: a block linked
\* into the file, or returned by _bmap, was cleared by new_block first.
NoGarbageMapped ==
    /\ \A q \in Positions : PosVal(q) # Garbage
    /\ \A p \in Procs : pc[p] = "got" => res[p] # Garbage

\* Every zone new_block marked used is in the file or still being linked
\* by a running _bmap: create_block leaks no block.
NoLeak == zmap \cap Zones = Referenced \cup InFlight

\* create_block never overwrites an existing non-zero zone entry (spec
\* 4.2): once a slot of the inode or of a linked block names a zone, it
\* keeps naming it.
NoZoneOverwrite ==
    [][/\ \A s \in Slots : i_zone[s] # 0 => i_zone'[s] = i_zone[s]
       /\ \A z \in IndirectBlocks, x \in Idx :
            bdata[z][x] \in Zones => bdata'[z][x] = bdata[z][x]]_vars
=============================================================================

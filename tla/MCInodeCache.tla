--------------------------- MODULE MCInodeCache ----------------------------
(* The inode table of fs/inode.c instantiated for TLC: processes are model *)
(* values and interchangeable.                                             *)
EXTENDS InodeCache, TLC

CONSTANTS p1, p2, p3

MCProcs == {p1, p2, p3}
MCProcsTwo == {p1, p2}

\* Processes are interchangeable: nothing in the code orders them.
ProcSymmetry == Permutations(MCProcs)
ProcSymmetryTwo == Permutations(MCProcsTwo)
====

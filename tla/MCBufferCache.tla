--------------------------- MODULE MCBufferCache ---------------------------
(* Model-checking instance of BufferCache: a small pool, a few processes,  *)
(* more blocks than buffers so that getblk must evict, and a request table *)
(* small enough that writes wait for a free request.                       *)
EXTENDS BufferCache, TLC

CONSTANTS p1, p2, p3

MCProcs == {p1, p2, p3}
MCProcsTwo == {p1, p2}

\* Processes are interchangeable: nothing in the code orders them.
ProcSymmetry == Permutations(MCProcs)
ProcSymmetryTwo == Permutations(MCProcsTwo)
=============================================================================

------------------------------- MODULE MCBmap -------------------------------
(* Bmap instantiated for TLC: processes are model values.                  *)
EXTENDS Bmap

CONSTANTS p1, p2

MCProcs == {p1, p2}
MCCreatorsOne == {p1}
MCCreatorsTwo == {p1, p2}
=============================================================================

------------------------------ MODULE MCMemory ------------------------------
(* Memory instantiated for TLC.                                             *)
EXTENDS Memory
=============================================================================

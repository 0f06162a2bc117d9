---------------------------- MODULE MCHardDisk ----------------------------
(* Model-checking instance of HardDisk.                                    *)
EXTENDS HardDisk
=============================================================================

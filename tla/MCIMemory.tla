------------------------------ MODULE MCIMemory ------------------------------
(* An instance of IMemory for TLC. *)
EXTENDS IMemory

CONSTANTS p1, p2, d1
=============================================================================

------------------------------ MODULE MCCreation ------------------------------
(***************************************************************************)
(* An instance of Creation for TLC: one thread of the application, others  *)
(* that come to life as workers and masters.                               *)
(***************************************************************************)
EXTENDS Creation, TLC

CONSTANT main

MCSymmetry == Permutations(Threads \ {main})
=============================================================================

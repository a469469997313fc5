----------------------------- MODULE MCJobLists -----------------------------
(***************************************************************************)
(* An instance of JobLists for TLC.                                        *)
(***************************************************************************)
EXTENDS JobLists, TLC

MCSymmetry == Permutations(Cells)
=============================================================================

---------------------------- MODULE MCTeamSaves ----------------------------
(* The players of the team may be swapped.                                  *)
EXTENDS TeamSaves, TLC

Symmetry == Permutations(Names)
=============================================================================

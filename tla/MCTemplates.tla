---------------------------- MODULE MCTemplates ----------------------------
(* Two requests at a time and three edits of one template, with two texts  *)
(* and two lists of variables.                                             *)
EXTENDS Templates, TLC

Symmetry == Permutations(Editors) \cup Permutations(Contents) \cup Permutations(Variables)
=============================================================================

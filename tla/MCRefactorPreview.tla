-------------------------- MODULE MCRefactorPreview --------------------------
(* Two files, two requests that may race, one cached preview at a time. *)
EXTENDS RefactorPreview
CONSTANTS r1, r2
MCAppliers == {r1, r2}
MCShapes == {Files}
=============================================================================

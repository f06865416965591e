--------------------------- MODULE MCUndoHistory ---------------------------
(* One transaction that edits a file and renames it, and its restore.      *)
EXTENDS UndoHistory, MCUndoScenes
=============================================================================

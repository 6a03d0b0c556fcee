--------------------------- MODULE MCUndoSession ---------------------------
(* Small instances of UndoSession for TLC. *)
EXTENDS UndoSession
=============================================================================

--------------------------- MODULE MCBoardHistory ---------------------------
(***************************************************************************)
(* The board of MCBoard with the history of its key and of its switches.   *)
(***************************************************************************)
EXTENDS MCBoard, BoardProperties
=============================================================================

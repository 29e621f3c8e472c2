-------------------------- MODULE MCDocumentLanes --------------------------
(* DocumentLanes for TLC: one line each, and bounds. *)
EXTENDS DocumentLanes

CONSTANTS mine, theirs
=============================================================================

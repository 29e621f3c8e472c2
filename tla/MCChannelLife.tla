--------------------------- MODULE MCChannelLife ---------------------------
(* ChannelLife for TLC: bounds only. *)
EXTENDS ChannelLife
=============================================================================

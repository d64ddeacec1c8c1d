----------------------------- MODULE MCFishing -----------------------------
(* Small instances of Fishing. *)
EXTENDS Fishing

TwoChunks == <<2, 1>>
OneChunk == <<2>>
=============================================================================

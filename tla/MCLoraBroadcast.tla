--------------------------- MODULE MCLoraBroadcast ---------------------------
(* Instances of LoraBroadcast for TLC. *)
EXTENDS LoraBroadcast

MCFailing == {"create", "malloc", "copy_in", "broadcast", "copy_out", "sync", "free"}
=============================================================================

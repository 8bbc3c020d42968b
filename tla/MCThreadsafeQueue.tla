------------------------- MODULE MCThreadsafeQueue -------------------------
(* ThreadsafeQueue for TLC. *)
EXTENDS ThreadsafeQueue
=============================================================================

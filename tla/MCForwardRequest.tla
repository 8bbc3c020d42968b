-------------------------- MODULE MCForwardRequest --------------------------
(* ForwardRequest for TLC. *)
EXTENDS ForwardRequest
=============================================================================

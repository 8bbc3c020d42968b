------------------------------- MODULE MCTimer -------------------------------
(* Timer with small bounds, for TLC.                                       *)
EXTENDS Timer, TLC
=============================================================================

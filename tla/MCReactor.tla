------------------------------ MODULE MCReactor ------------------------------
(* Reactor with sets of model values, for TLC.                             *)
EXTENDS Reactor, TLC

\* Clients, descriptors and slots are interchangeable.
Symmetry == Permutations(Conn) \cup Permutations(Fd) \cup Permutations(Slot)

\* The history of deliveries, which no action and none of the safety
\* invariants reads.
WithoutHistory ==
  <<reactorVars, loop, events, kernelVars, workVars, net, sent, rx, hup, full>>
=============================================================================

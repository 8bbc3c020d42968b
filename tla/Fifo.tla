-------------------------------- MODULE Fifo --------------------------------
(***************************************************************************)
(* What a thread-safe queue promises: pushes and pops take effect one at a *)
(* time, in first-in first-out order, and a pop that finds nothing found   *)
(* the queue empty.                                                        *)
(***************************************************************************)
EXTENDS Sequences

CONSTANTS Value, Consumer

VARIABLES
  queue,   \* what has been pushed and not popped
  popped,  \* what each consumer has popped, in order
  misses   \* how many try_pops of each consumer have found nothing, modulo 2

vars == <<queue, popped, misses>>

Init ==
  /\ queue = <<>>
  /\ popped = [c \in Consumer |-> <<>>]
  /\ misses = [c \in Consumer |-> FALSE]

Push(v) ==
  /\ queue' = Append(queue, v)
  /\ UNCHANGED <<popped, misses>>

Pop(c) ==
  /\ queue # <<>>
  /\ popped' = [popped EXCEPT ![c] = Append(@, Head(queue))]
  /\ queue' = Tail(queue)
  /\ UNCHANGED misses

Miss(c) ==
  /\ queue = <<>>
  /\ misses' = [misses EXCEPT ![c] = ~@]
  /\ UNCHANGED <<queue, popped>>

Next == (\E v \in Value : Push(v)) \/ (\E c \in Consumer : Pop(c) \/ Miss(c))

Spec == Init /\ [][Next]_vars
=============================================================================

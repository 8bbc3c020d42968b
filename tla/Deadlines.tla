------------------------------ MODULE Deadlines ------------------------------
(***************************************************************************)
(* What a timer promises: each id has at most one deadline; setting a      *)
(* deadline replaces the one before; the callback of an id runs once per   *)
(* deadline, never before it and never after it was cancelled.             *)
(***************************************************************************)
EXTENDS Naturals

CONSTANTS Id, None

VARIABLES
  now,    \* the clock
  due,    \* the deadline of each id that has one
  fired   \* ids whose callback has run since their deadline was last set

Init ==
  /\ now \in Nat
  /\ due = [id \in Id |-> None]
  /\ fired = {}

Set(id) ==
  /\ due'[id] \in Nat /\ due'[id] >= now
  /\ due' = [due EXCEPT ![id] = due'[id]]
  /\ fired' = fired \ {id}
  /\ UNCHANGED now

Cancel(id) ==
  /\ due' = [due EXCEPT ![id] = None]
  /\ UNCHANGED <<now, fired>>

Expire(id) ==
  /\ due[id] # None /\ due[id] <= now
  /\ due' = [due EXCEPT ![id] = None]
  /\ fired' = fired \cup {id}
  /\ UNCHANGED now

Pass ==
  /\ now' \in Nat /\ now' > now
  /\ UNCHANGED <<due, fired>>

Next == Pass \/ \E id \in Id : Set(id) \/ Cancel(id) \/ Expire(id)

Spec == Init /\ [][Next]_<<now, due, fired>>
=============================================================================

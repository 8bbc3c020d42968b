-------------------------------- MODULE Timer --------------------------------
(***************************************************************************)
(* timer (timer.h) as the event loop of hpserver::listen drives it.        *)
(*                                                                         *)
(* A deadline that is moved or removed leaves its node in the heap; a node *)
(* counts only while it agrees with the entry of its id in version and     *)
(* time.  The loop handles events, runs tick(), and asks                   *)
(* get_next_timeout_ms() (which runs tick() once more) how long epoll_wait *)
(* may sleep.  The clock is read by tick() and again for the answer, and   *)
(* goes on between the readings and before epoll_wait.  Deadlines states   *)
(* what this machinery is for.                                             *)
(***************************************************************************)
EXTENDS Integers, FiniteSets, Bags

CONSTANTS
  Id,           \* the ids: client descriptors
  Timeout,      \* timeouts, in milliseconds
  UnitsPerMs,   \* resolution of the steady clock
  CompactMin,   \* kCompactMinHeapSize
  CompactRatio, \* kCompactRatioThreshold
  MaxTime,      \* bound on the clock while deadlines are set
  MaxHeap,      \* bound on the heap
  MaxVersion,   \* bound on how often an entry is adjusted
  None

ASSUME TimerAssumption ==
  /\ IsFiniteSet(Id)
  /\ Timeout \subseteq Nat
  /\ {UnitsPerMs, CompactMin, CompactRatio} \subseteq Nat \ {0}
  /\ None \notin Nat /\ None \notin [at : Nat, version : Nat]

VARIABLES
  entries,  \* entries_
  heap,     \* heap_: a bag of nodes
  now,      \* clock_type::now()
  phase,    \* "handle": the loop may call add, adjust, remove; "tick": in the
            \* loop of tick(); "callback": in a callback; "ask": tick() has ended;
            \* "asked": get_next_timeout_ms has returned; "poll": in epoll_wait
  timeout,  \* timeout_ms of the loop
  lag,      \* history: time from the last clock reading to epoll_wait
  wake,     \* in "poll": when epoll_wait times out, None if it never does
  fired     \* history: ids whose callback has run since they were last set

asking == <<timeout, lag, wake>>
vars == <<entries, heap, now, phase, asking, fired>>

Entry == [at : Nat, version : Nat]
Node  == [id : Id, at : Nat, version : Nat]

\* Every variable has its type; the heap holds each node a positive number of
\* times.
TypeOK ==
  /\ entries \in [Id -> Entry \cup {None}]
  /\ IsABag(heap) /\ DOMAIN heap \subseteq Node
  /\ now \in Nat
  /\ phase \in {"handle", "tick", "callback", "ask", "asked", "poll"}
  /\ timeout \in Int /\ lag \in Nat
  /\ wake \in Nat \cup {None}
  /\ fired \subseteq Id

Init ==
  /\ entries = [id \in Id |-> None]
  /\ heap = EmptyBag
  /\ now = 0
  /\ phase = "tick"
  /\ timeout = 0 /\ lag = 0 /\ wake = None
  /\ fired = {}

\* Mutant: a node counts as long as its id has an entry.
LivePresent(n) == entries[n.id] # None

Live(n) ==
  entries[n.id] # None /\ entries[n.id].version = n.version /\ entries[n.id].at = n.at

\* The nodes heap_.top() may be: those that expire first.
Tops == {n \in DOMAIN heap : \A m \in DOMAIN heap : n.at <= m.at}

Pop(n) == heap' = heap (-) SetToBag({n})

\* maybe_compact_heap, with the table es and the heap h of the caller.
NodesOf(es)    == {[id |-> id, at |-> es[id].at, version |-> es[id].version] :
                     id \in {i \in Id : es[i] # None}}

Compact(es, h) ==
  LET live == {i \in Id : es[i] # None}
  IN  IF BagCardinality(h) < CompactMin THEN h
      ELSE IF live = {} THEN EmptyBag
      ELSE IF BagCardinality(h) <= Cardinality(live) * CompactRatio THEN h
      ELSE SetToBag(NodesOf(es))

-----------------------------------------------------------------------------
\* Handlers set deadlines; the callbacks only close their client.
MayCall == phase = "handle" /\ now <= MaxTime /\ BagCardinality(heap) < MaxHeap

\* The part add and adjust share.
Put(id, version, t) ==
  LET e == [at |-> now + t * UnitsPerMs, version |-> version]
      n == [id |-> id, at |-> e.at, version |-> version]
  IN  /\ version <= MaxVersion
      /\ entries' = [entries EXCEPT ![id] = e]
      /\ heap' = Compact(entries', heap (+) SetToBag({n}))
      /\ fired' = fired \ {id}
      /\ UNCHANGED <<now, phase, asking>>

\* A new entry starts with version 0, whatever its id had before.
Add(id, t) ==
  /\ MayCall
  /\ Put(id, IF entries[id] = None THEN 1 ELSE entries[id].version + 1, t)

\* adjust of an id without an entry returns at once.
Adjust(id, t) ==
  /\ MayCall
  /\ entries[id] # None
  /\ Put(id, entries[id].version + 1, t)

Remove(id) ==
  /\ phase \in {"handle", "callback"}
  /\ entries' = [entries EXCEPT ![id] = None]
  /\ heap' = Compact(entries', heap)
  /\ UNCHANGED <<now, phase, asking, fired>>

\* The handlers, or the callback, are done and tick() goes on.
Return ==
  /\ phase \in {"handle", "callback"}
  /\ phase' = "tick"
  /\ UNCHANGED <<entries, heap, now, asking, fired>>

\* One turn of discard_stale_top.
Discard(n) ==
  /\ phase = "tick"
  /\ n \in Tops /\ ~Live(n)
  /\ Pop(n)
  /\ UNCHANGED <<entries, now, phase, asking, fired>>

\* One turn of tick: the entry is erased before its callback runs.
Fire(n) ==
  /\ phase = "tick"
  /\ n \in Tops /\ Live(n) /\ n.at <= now
  /\ entries' = [entries EXCEPT ![n.id] = None]
  /\ Pop(n)
  /\ fired' = fired \cup {n.id}
  /\ phase' = "callback"
  /\ UNCHANGED <<now, asking>>

\* Mutant: a stale node ends tick().
TickEndsAtStale ==
  /\ phase = "tick"
  /\ heap = EmptyBag \/ \E n \in Tops : ~Live(n) \/ n.at > now
  /\ phase' = "ask"
  /\ UNCHANGED <<entries, heap, now, asking, fired>>

\* tick() ends when the first deadline lies ahead, or there is none.
TickEnds ==
  /\ phase = "tick"
  /\ heap = EmptyBag \/ \E n \in Tops : Live(n) /\ n.at > now
  /\ phase' = "ask"
  /\ UNCHANGED <<entries, heap, now, asking, fired>>

\* duration_cast cuts towards zero.
InMs(diff) == IF diff >= 0 THEN diff \div UnitsPerMs ELSE -(-diff \div UnitsPerMs)

\* Mutant: the timeout is rounded up.
TimeoutRoundedUp(diff) ==
  LET count == InMs(diff + UnitsPerMs - 1) IN IF count > 0 THEN count ELSE 0

TimeoutFor(diff) == LET count == InMs(diff) IN IF count > 0 THEN count ELSE 0

\* The rest of get_next_timeout_ms: the deadline may have come since tick() ended.
Ask ==
  /\ phase = "ask"
  /\ phase' = "asked"
  /\ \/ heap = EmptyBag /\ timeout' = -1
     \/ \E n \in Tops : timeout' = TimeoutFor(n.at - now)
  /\ lag' = 0
  /\ UNCHANGED <<entries, heap, now, wake, fired>>

\* epoll_wait begins; a negative timeout is none.
Poll ==
  /\ phase = "asked"
  /\ phase' = "poll"
  /\ wake' = IF timeout < 0 THEN None ELSE now + timeout * UnitsPerMs
  /\ UNCHANGED <<entries, heap, now, timeout, lag, fired>>

\* epoll_wait returns, with events, on a signal, or because it timed out.
Wake ==
  /\ phase = "poll"
  /\ phase' = "handle"
  /\ wake' = None
  /\ UNCHANGED <<entries, heap, now, timeout, lag, fired>>

TimesOut == Wake /\ wake # None /\ wake <= now

\* The clock goes on; epoll_wait does not sleep past its timeout.
Pass ==
  /\ now < MaxTime \/ (phase = "poll" /\ wake # None)
  /\ phase = "poll" /\ wake # None => now < wake
  /\ now' = now + 1
  /\ lag' = IF phase = "asked" THEN lag + 1 ELSE lag
  /\ UNCHANGED <<entries, heap, phase, timeout, wake, fired>>

LoopStep == Return \/ (\E n \in DOMAIN heap : Discard(n) \/ Fire(n)) \/ TickEnds \/ Ask \/ Poll

Next ==
  \/ \E id \in Id : (\E t \in Timeout : Add(id, t) \/ Adjust(id, t)) \/ Remove(id)
  \/ LoopStep
  \/ Wake
  \/ Pass

Spec == Init /\ [][Next]_vars

\* The event loop is scheduled, its handlers return, the clock goes on, and
\* epoll_wait ends when its timeout has passed.  No event is ever promised.
FairSpec == Spec /\ WF_vars(LoopStep) /\ WF_vars(TimesOut) /\ WF_vars(Pass)

-----------------------------------------------------------------------------
(* Correctness                                                             *)

\* Lazy deletion and compaction never drop the node of an entry: every client
\* with an idle timeout is still in the heap.
LiveHasNode == NodesOf(entries) \subseteq DOMAIN heap

\* epoll_wait does not sleep past a deadline by more than the time the loop took
\* to get there from the clock reading behind the timeout, and not at all when the
\* deadline had come by that reading, although the heap also holds nodes that no
\* longer count: the loop is awake when an idle client is due.
WakesInTime ==
  phase = "poll" =>
    \A id \in Id :
      entries[id] # None => wake # None /\ (timeout = 0 \/ wake <= entries[id].at + lag)

\* No client stays overdue: once its deadline has come it is closed, or has been
\* active again, even if no descriptor ever has another event.
OverdueServed ==
  \A id \in Id :
    entries[id] # None /\ entries[id].at <= now ~> entries[id] = None \/ entries[id].at > now

\* The timer keeps the promise of Deadlines: in particular no client is closed
\* before its last activity is kClientIdleTimeoutMs old.
DeadlineOf == [id \in Id |-> IF entries[id] = None THEN None ELSE entries[id].at]

Promise == INSTANCE Deadlines WITH due <- DeadlineOf

KeepsPromise == Promise!Spec
=============================================================================

--------------------------- MODULE ThreadsafeQueue ---------------------------
(***************************************************************************)
(* threadsafe_queue (threadsafe_queue.h): a linked list with a dummy node  *)
(* at its end and one mutex for each end.                                  *)
(*                                                                         *)
(* A push writes the dummy, links a new one and moves the tail with        *)
(* tail_mtx held; a pop holds head_mtx and takes tail_mtx only to compare  *)
(* the two ends.  So a pop runs beside a push, and each of their accesses  *)
(* is a step.  Fifo states what this is for.                               *)
(***************************************************************************)
EXTENDS Naturals, Sequences, FiniteSets

CONSTANTS
  Producer,   \* threads that push
  Consumer,   \* threads that pop
  Value,      \* values, each pushed at most once
  Null        \* the null pointer, and no value

ASSUME QueueAssumption ==
  /\ Producer \cap Consumer = {}
  /\ Null \notin Value \cup Producer \cup Consumer \cup Nat
  /\ IsFiniteSet(Value)

VARIABLES
  data,     \* data of each node
  next,     \* next of each node
  head,     \* head
  tail,     \* tail
  headMtx,  \* who holds head_mtx
  tailMtx,  \* who holds tail_mtx
  place,       \* where each thread is
  val,      \* the value a thread pushes, or has moved out of the queue
  new,      \* the node a producer has made
  popped,   \* history: what each consumer has popped
  misses    \* history: try_pops that found nothing, modulo 2

queueVars == <<data, next, head, tail, headMtx, tailMtx, place, val, new, popped, misses>>

Thread == Producer \cup Consumer

\* A node is named by its number: one for each value, and the first dummy.
ListNode == 0..Cardinality(Value)

\* Every variable has its type; head and tail are never null, and what a pop
\* moves out of a node is a value.
QueueTypeOK ==
  /\ data \in [ListNode -> Value \cup {Null}]
  /\ next \in [ListNode -> ListNode \cup {Null}]
  /\ head \in ListNode
  /\ tail \in ListNode
  /\ headMtx \in Consumer \cup {Null}
  /\ tailMtx \in Producer \cup {Null}
  /\ place \in [Thread -> {"idle", "lock", "link", "move", "notify", "tryPop", "waitPop",
                        "tryCompare", "waitCompare", "block", "wait", "take", "unlink"}]
  /\ val \in [Thread -> Value \cup {Null}]
  /\ new \in [Producer -> ListNode \cup {Null}]
  /\ popped \in [Consumer -> Seq(Value)]
  /\ misses \in [Consumer -> BOOLEAN]

QueueInit ==
  /\ data = [n \in ListNode |-> Null]
  /\ next = [n \in ListNode |-> Null]
  /\ head = 0 /\ tail = 0
  /\ headMtx = Null /\ tailMtx = Null
  /\ place = [t \in Thread |-> "idle"]
  /\ val = [t \in Thread |-> Null]
  /\ new = [p \in Producer |-> Null]
  /\ popped = [c \in Consumer |-> <<>>]
  /\ misses = [c \in Consumer |-> FALSE]

Goto(t, l) == place' = [place EXCEPT ![t] = l]
list == <<data, next, head, tail>>
histories == <<popped, misses>>

-----------------------------------------------------------------------------
(* push()                                                                  *)

\* Values nobody has pushed yet, and nodes nobody has made yet.
Fresh ==
  Value \ ({data[n] : n \in ListNode} \cup {val[t] : t \in Thread})
Unused ==
  ListNode \ ({tail} \cup {new[p] : p \in Producer}
          \cup {n \in ListNode : data[n] # Null \/ next[n] # Null})

Call(p) ==
  /\ place[p] = "idle"
  /\ \E v \in Fresh, n \in Unused :
       /\ \A m \in Unused : n <= m
       /\ val' = [val EXCEPT ![p] = v]
       /\ new' = [new EXCEPT ![p] = n]
  /\ Goto(p, "lock")
  /\ UNCHANGED <<list, headMtx, tailMtx, histories>>

WriteData(p) ==
  /\ place[p] = "lock"
  /\ tailMtx = Null
  /\ tailMtx' = p
  /\ data' = [data EXCEPT ![tail] = val[p]]
  /\ Goto(p, "link")
  /\ UNCHANGED <<next, head, tail, headMtx, val, new, histories>>

Link(p) ==
  /\ place[p] = "link"
  /\ next' = [next EXCEPT ![tail] = new[p]]
  /\ Goto(p, "move")
  /\ UNCHANGED <<data, head, tail, headMtx, tailMtx, val, new, histories>>

MoveTail(p) ==
  /\ place[p] = "move"
  /\ tail' = new[p]
  /\ tailMtx' = Null
  /\ val' = [val EXCEPT ![p] = Null]
  /\ new' = [new EXCEPT ![p] = Null]
  /\ Goto(p, "notify")
  /\ UNCHANGED <<data, next, head, headMtx, histories>>

\* data_cond.notify_one, without head_mtx.
Notify(p) ==
  /\ place[p] = "notify"
  /\ LET waiting == {c \in Consumer : place[c] = "wait"}
     IN  \/ waiting = {} /\ Goto(p, "idle")
         \/ \E c \in waiting : place' = [place EXCEPT ![p] = "idle", ![c] = "waitPop"]
  /\ UNCHANGED <<list, headMtx, tailMtx, val, new, histories>>

-----------------------------------------------------------------------------
(* try_pop() and wait_pop()                                                *)

CallPop(c) ==
  /\ place[c] = "idle"
  /\ \E l \in {"tryPop", "waitPop"} : Goto(c, l)
  /\ UNCHANGED <<list, headMtx, tailMtx, val, new, histories>>

LockHead(c) ==
  /\ place[c] \in {"tryPop", "waitPop"}
  /\ headMtx = Null
  /\ headMtx' = c
  /\ Goto(c, IF place[c] = "tryPop" THEN "tryCompare" ELSE "waitCompare")
  /\ UNCHANGED <<list, tailMtx, val, new, histories>>

\* Mutant: a try_pop does not wait for tail_mtx.
CompareImpatient(c) ==
  /\ place[c] \in {"tryCompare", "waitCompare"}
  /\ \/ /\ tailMtx = Null /\ head # tail
        /\ Goto(c, "take")
        /\ UNCHANGED <<headMtx, misses>>
     \/ /\ tailMtx # Null \/ head = tail
        /\ misses' = [misses EXCEPT ![c] = ~@]
        /\ Goto(c, "idle")
        /\ headMtx' = Null
  /\ UNCHANGED <<list, tailMtx, val, new, popped>>

\* Mutant: a try_pop that finds nothing tries again.
CompareRetries(c) ==
  /\ place[c] \in {"tryCompare", "waitCompare"}
  /\ tailMtx = Null
  /\ \/ /\ head # tail
        /\ Goto(c, "take")
        /\ UNCHANGED headMtx
     \/ /\ head = tail
        /\ Goto(c, IF place[c] = "tryCompare" THEN "tryPop" ELSE "waitPop")
        /\ headMtx' = Null
  /\ UNCHANGED <<list, tailMtx, val, new, histories>>

\* With tail_mtx taken for a moment (get_tail), the ends are compared.
Compare(c) ==
  /\ place[c] \in {"tryCompare", "waitCompare"}
  /\ tailMtx = Null
  /\ \/ /\ head # tail
        /\ Goto(c, "take")
        /\ UNCHANGED <<headMtx, misses>>
     \/ /\ head = tail /\ place[c] = "tryCompare"
        /\ misses' = [misses EXCEPT ![c] = ~@]
        /\ Goto(c, "idle")
        /\ headMtx' = Null
     \/ /\ head = tail /\ place[c] = "waitCompare"
        /\ Goto(c, "block")
        /\ UNCHANGED <<headMtx, misses>>
  /\ UNCHANGED <<list, tailMtx, val, new, popped>>

\* data_cond.wait releases head_mtx and blocks.
Block(c) ==
  /\ place[c] = "block"
  /\ headMtx' = Null
  /\ Goto(c, "wait")
  /\ UNCHANGED <<list, tailMtx, val, new, histories>>

\* A condition variable may wake a thread for no reason.
Spurious(c) ==
  /\ place[c] = "wait"
  /\ Goto(c, "waitPop")
  /\ UNCHANGED <<list, headMtx, tailMtx, val, new, histories>>

\* res = std::move(*head->data)
TakeData(c) ==
  /\ place[c] = "take"
  /\ val' = [val EXCEPT ![c] = data[head]]
  /\ Goto(c, "unlink")
  /\ UNCHANGED <<list, headMtx, tailMtx, new, histories>>

\* pop_head, the end of the call and the release of head_mtx.
Unlink(c) ==
  /\ place[c] = "unlink"
  /\ head' = next[head]
  /\ popped' = [popped EXCEPT ![c] = Append(@, val[c])]
  /\ val' = [val EXCEPT ![c] = Null]
  /\ headMtx' = Null
  /\ Goto(c, "idle")
  /\ UNCHANGED <<data, next, tail, tailMtx, new, misses>>

-----------------------------------------------------------------------------
PushStep(p) == WriteData(p) \/ Link(p) \/ MoveTail(p) \/ Notify(p)
PopStep(c)  == LockHead(c) \/ Compare(c) \/ Block(c) \/ TakeData(c) \/ Unlink(c)

QueueNext ==
  \/ \E p \in Producer : Call(p) \/ PushStep(p)
  \/ \E c \in Consumer : CallPop(c) \/ PopStep(c) \/ Spurious(c)

QueueSpec == QueueInit /\ [][QueueNext]_queueVars

\* Every thread inside a call is scheduled, and one that waits for a mutex gets
\* it if it is free again and again.  No thread has to wake without a notify.
FairQueueSpec ==
  /\ QueueSpec
  /\ \A p \in Producer : WF_queueVars(PushStep(p)) /\ SF_queueVars(WriteData(p))
  /\ \A c \in Consumer : WF_queueVars(PopStep(c)) /\ SF_queueVars(LockHead(c)) /\ SF_queueVars(Compare(c))

-----------------------------------------------------------------------------
(* Properties.                                                             *)

\* The i-th node after the head, how many come before the dummy at the tail, and
\* their values.
At[i \in ListNode] == IF i = 0 THEN head ELSE next[At[i - 1]]

Length == CHOOSE k \in ListNode : At[k] = tail /\ \A i \in 0 .. (k - 1) : At[i] # tail

Contents == [i \in 1 .. Length |-> data[At[i - 1]]]

Queue == INSTANCE Fifo WITH queue <- Contents

\* The list with its two mutexes is a queue: every push and pop takes effect at
\* one moment, in order, and try_pop fails only when the queue is empty.
IsFifo == Queue!Spec

\* No call waits for ever for a mutex: a push or try_pop returns, whatever the
\* others do.
CallsReturn ==
  /\ \A p \in Producer : place[p] = "lock" ~> place[p] = "idle"
  /\ \A c \in Consumer : place[c] = "tryPop" ~> place[c] = "idle"

\* What the test WaitPopBlocksUntilPush says of wait_pop: it returns after a
\* push, so a consumer does not wait while there is something to pop.
WaitPopReturns ==
  \A c \in Consumer : place[c] = "wait" /\ head # tail ~> place[c] # "wait" \/ head = tail
=============================================================================

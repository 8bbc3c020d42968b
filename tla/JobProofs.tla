------------------------------ MODULE JobProofs ------------------------------
(***************************************************************************)
(* Proofs about ForwardRequest, for any number of addresses, pieces and    *)
(* waits, and about ThreadsafeQueue, through which its jobs come to the    *)
(* workers and its answers back to the event loop, for any number of       *)
(* threads and values.                                                     *)
(*                                                                         *)
(* The inductive invariant of ForwardRequest says what each place in       *)
(* forward_request knows of the attempt it is in: which bytes out_response *)
(* holds, how many attempts have failed and how many requests are out.     *)
(* The one of the queue describes the walk from head to tail.              *)
(***************************************************************************)
EXTENDS ForwardRequest, ThreadsafeQueue, FiniteSetTheorems, WellFoundedInduction, TLAPS


Before == {"start", "connect", "send"}

\* What is left from the attempt before is cleared before anything is received.
Cleared ==
  /\ pc \in {"start", "send", "receive", "end"} => left = 0
  /\ pc = "send" \/ (pc = "connect" /\ left > 0) => out = <<>> /\ arrived = "nothing"
  /\ pc # "connect" => \A i \in 1..Len(out) : out[i] = attempt

\* An attempt that is under way has not failed, and no success was reported.
Counted ==
  /\ pc \in Before \cup {"receive"} => Len(failed) = attempt
  /\ pc = "end" => Len(failed) = attempt + 1
  /\ result # "none" => pc = "done"
  /\ result = "ok" => arrived # "part" /\ Len(failed) = attempt
  /\ pc = "receive" => /\ parser \in {"start", "header", "length", "close"}
                       /\ parser = "start" => arrived = "nothing"

\* A request is sent once in an attempt; what made the first attempt fail after
\* it was sent is what errno said.
SentOnce ==
  /\ requests <= attempt + (IF pc \in Before THEN 0 ELSE 1)
  /\ pc = "end" /\ attempt = 0 /\ requests = 1 => failed[1] = final
  /\ pc \in Before /\ attempt = 1 /\ requests = 1 => failed[1] \in Transient
  /\ requests = 2 => failed[1] \in Transient

\* A step in which the attempt fails, of which all that matters is this.
AttemptFails(why) ==
  /\ pc \in {"connect", "send", "receive"}
  /\ why \in {"dns"} \cup Errno /\ FailsFor(final', why)
  /\ why = final' \/ pc = "connect"
  /\ left' = 0 /\ UNCHANGED <<attempt, result, requests>>
  /\ \A i \in 1..Len(out') : out'[i] = attempt

IInv == TypeOK /\ Cleared /\ Counted /\ SentOnce

-----------------------------------------------------------------------------
\* What Append does to the history of failures, for the step of each action.
LEMMA FailedAppend ==
  ASSUME NEW why \in {"dns"} \cup Errno, TypeOK
  PROVE  /\ Append(failed, why) \in Seq({"dns"} \cup Errno)
         /\ Len(Append(failed, why)) = Len(failed) + 1
         /\ Len(failed) > 0 => Append(failed, why)[1] = failed[1]
         /\ Len(failed) = 0 => Append(failed, why)[1] = why
BY DEF TypeOK, Errno, Transient

LEMMA FailedTyped ==
  ASSUME IInv, NEW why, AttemptFails(why)
  PROVE  failed' \in Seq({"dns"} \cup Errno)
BY FailedAppend DEF AttemptFails, FailsFor, IInv

\* An attempt that fails, wherever it does, leaves the invariant in place.
LEMMA FailStep ==
  ASSUME IInv, TypeOK', NEW why, AttemptFails(why)
  PROVE  IInv'
<1> USE DEF AttemptFails
<1>1. /\ Len(failed') = Len(failed) + 1 /\ Len(failed) = attempt
      /\ Len(failed) > 0 => failed'[1] = failed[1]
      /\ Len(failed) = 0 => failed'[1] = why
  BY FailedAppend DEF FailsFor, IInv, Counted, Before
<1>2. pc' = "end" /\ result' = "none" /\ attempt \in 0..1 /\ requests \in 0..2
  BY DEF FailsFor, IInv, TypeOK, Counted
<1>3. Cleared'
  BY <1>2 DEF Cleared
<1>4. Counted'
  BY <1>1, <1>2 DEF Counted, Before
<1>5. SentOnce'
  <2>1. requests <= attempt + 1
    BY <1>2 DEF IInv, SentOnce
  <2>2. attempt = 0 /\ requests = 1 => failed'[1] = final'
    BY <1>1, <1>2 DEF IInv, SentOnce, Before
  <2>3. requests = 2 => failed'[1] \in Transient
    BY <1>1, <1>2, <2>1 DEF IInv, SentOnce
  <2> QED BY <1>2, <2>1, <2>2, <2>3 DEF SentOnce, Before
<1> QED BY <1>3, <1>4, <1>5 DEF IInv

LEMMA InitInv == Init => IInv
BY ForwardAssumption
DEF Init, IInv, TypeOK, Cleared, Counted, SentOnce, Before, Errno, Transient

LEMMA NextInv == IInv /\ [Next]_vars => IInv'
<1> SUFFICES ASSUME IInv, [Next]_vars PROVE IInv'
  OBVIOUS
<1> USE ForwardAssumption
<1>1. CASE Start
  BY <1>1 DEF Start, Return, IInv, TypeOK, Cleared, Counted, SentOnce, Before, Errno, Transient
<1>2. CASE Resolve
  <2>1. CASE left' \in 1..MaxAddresses /\ UNCHANGED <<pc, final, failed>>
    BY <1>2, <2>1 DEF Resolve, IInv, TypeOK, Cleared, Counted, SentOnce, Before, Errno, Transient
  <2>2. CASE FailsFor(errno', "dns") /\ UNCHANGED left
    <3>1. AttemptFails("dns")
      BY <1>2, <2>2 DEF AttemptFails, Resolve, Fails, FailsFor, IInv, TypeOK, Cleared, Errno, Transient
    <3>2. failed' \in Seq({"dns"} \cup Errno)
      BY <3>1, FailedTyped
    <3>3. TypeOK'
      BY <1>2, <2>2, <3>2 DEF Resolve, Fails, FailsFor, IInv, TypeOK, Errno, Transient
    <3> QED BY <3>1, <3>3, FailStep
  <2> QED BY <1>2, <2>1, <2>2 DEF Resolve
<1>3. CASE TryAddress
  <2>1. CASE pc' = "send"
    BY <1>3, <2>1 DEF TryAddress, FailsFor, Fails, IInv, TypeOK, Cleared, Counted, SentOnce, Before, Errno, Transient
  <2>2. CASE pc' # "send" /\ left = 1
    <3>1. AttemptFails(errno')
      BY <1>3, <2>2 DEF AttemptFails, TryAddress, Fails, FailsFor, IInv, TypeOK, Cleared, Errno, Transient, SysError
    <3>2. failed' \in Seq({"dns"} \cup Errno)
      BY <3>1, FailedTyped
    <3>3. TypeOK'
      BY <1>3, <2>2, <3>2 DEF TryAddress, Fails, FailsFor, IInv, TypeOK, Errno, Transient, SysError
    <3> QED BY <3>1, <3>3, FailStep
  <2>3. CASE pc' # "send" /\ left # 1
    BY <1>3, <2>3
    DEF TryAddress, IInv, TypeOK, Cleared, Counted, SentOnce, Before, Errno, Transient, SysError
  <2> QED BY <2>1, <2>2, <2>3
<1>4. CASE Send
  <2>1. CASE pc' = "receive"
    BY <1>4, <2>1 DEF Send, FailsFor, Fails, IInv, TypeOK, Cleared, Counted, SentOnce, Before, Errno, Transient
  <2>2. CASE pc' # "receive"
    <3>1. AttemptFails(errno')
      BY <1>4, <2>2 DEF AttemptFails, Send, Fails, FailsFor, IInv, TypeOK, Cleared, Errno, Transient, SysError
    <3>2. failed' \in Seq({"dns"} \cup Errno)
      BY <3>1, FailedTyped
    <3>3. TypeOK'
      BY <1>4, <2>2, <3>2 DEF Send, Fails, FailsFor, IInv, TypeOK, Errno, Transient, SysError
    <3> QED BY <3>1, <3>3, FailStep
  <2> QED BY <2>1, <2>2
<1>5. CASE Piece
  <2>1. /\ out' \in Seq(0..1) /\ Len(out') = Len(out) + 1
        /\ \A i \in 1..Len(out') : out'[i] = attempt
    BY <1>5 DEF Piece, IInv, TypeOK, Cleared
  <2>2. /\ parser' \in {"start", "header", "length", "close", "complete", "error"}
        /\ parser' = "start" => parser = "start"
    BY <1>5 DEF Piece, After
  <2>3. CASE parser' = "error"
    <3>1. AttemptFails("EPROTO")
      BY <1>5, <2>1, <2>3 DEF AttemptFails, Piece, Fails, FailsFor, IInv, TypeOK, Cleared, Errno, Transient
    <3>2. failed' \in Seq({"dns"} \cup Errno)
      BY <3>1, FailedTyped
    <3>3. TypeOK'
      BY <1>5, <2>1, <2>3, <3>2 DEF Piece, Fails, FailsFor, IInv, TypeOK, Errno, Transient
    <3> QED BY <3>1, <3>3, FailStep
  <2>4. CASE parser' # "error"
    BY <1>5, <2>1, <2>2, <2>4
    DEF Piece, Return, IInv, TypeOK, Cleared, Counted, SentOnce, Before, Errno, Transient
  <2> QED BY <2>3, <2>4
<1>6. CASE Eof
  <2>1. CASE MayFinish(parser)
    BY <1>6, <2>1 DEF Eof, MayFinish, Return, IInv, TypeOK, Cleared, Counted, SentOnce, Before, Errno, Transient
  <2>2. CASE ~MayFinish(parser)
    <3>1. AttemptFails("ECONNRESET")
      BY <1>6, <2>2 DEF AttemptFails, Eof, Fails, FailsFor, IInv, TypeOK, Cleared, Errno, Transient
    <3>2. failed' \in Seq({"dns"} \cup Errno)
      BY <3>1, FailedTyped
    <3>3. TypeOK'
      BY <1>6, <2>2, <3>2 DEF Eof, Fails, FailsFor, IInv, TypeOK, Errno, Transient
    <3> QED BY <3>1, <3>3, FailStep
  <2> QED BY <2>1, <2>2
<1>7. CASE Timeout
  <2>1. CASE out # <<>> /\ retries < MaxRetries
    BY <1>7, <2>1 DEF Timeout, IInv, TypeOK, Cleared, Counted, SentOnce, Before, Errno, Transient
  <2>2. CASE ~(out # <<>> /\ retries < MaxRetries)
    <3>1. AttemptFails("ETIMEDOUT")
      BY <1>7, <2>2 DEF AttemptFails, Timeout, Fails, FailsFor, IInv, TypeOK, Cleared, Errno, Transient
    <3>2. failed' \in Seq({"dns"} \cup Errno)
      BY <3>1, FailedTyped
    <3>3. TypeOK'
      BY <1>7, <2>2, <3>2 DEF Timeout, Fails, FailsFor, IInv, TypeOK, Errno, Transient
    <3> QED BY <3>1, <3>3, FailStep
  <2> QED BY <2>1, <2>2
<1>8. CASE ReceiveError
  <2>1. AttemptFails(errno')
    BY <1>8 DEF AttemptFails, ReceiveError, Fails, FailsFor, IInv, TypeOK, Cleared, Errno, Transient, SysError
  <2>2. failed' \in Seq({"dns"} \cup Errno)
    BY <2>1, FailedTyped
  <2>3. TypeOK'
    BY <1>8, <2>2 DEF ReceiveError, Fails, FailsFor, IInv, TypeOK, Errno, Transient, SysError
  <2> QED BY <2>1, <2>3, FailStep
<1>9. CASE EndAttempt
  BY <1>9 DEF EndAttempt, Return, IInv, TypeOK, Cleared, Counted, SentOnce, Before, Errno, Transient
<1>10. CASE UNCHANGED vars
  BY <1>10 DEF vars, IInv, TypeOK, Cleared, Counted, SentOnce
<1> QED
  BY <1>1, <1>2, <1>3, <1>4, <1>5, <1>6, <1>7, <1>8, <1>9, <1>10 DEF Next, Step, Receive, Done

\* The invariant holds throughout forward_request.
LEMMA Inductive == Spec => []IInv
BY InitInv, NextInv, PTL DEF Spec

\* What forward_request returns as a success is one response, whole: out_response
\* is cleared between the attempts, and no truncated or failed attempt counts.
THEOREM ReturnsWholeResponse == Spec => []WholeResponse
<1>1. IInv => WholeResponse
  BY DEF IInv, Cleared, Counted, WholeResponse
<1> QED BY <1>1, Inductive, PTL

\* The request is sent a second time, and no third, only after the first upstream
\* timed out or reset the connection.
THEOREM ResendsAfterTransient == Spec => []ResentAfterTransient
<1>1. IInv => ResentAfterTransient
  BY DEF IInv, TypeOK, SentOnce, ResentAfterTransient
<1> QED BY <1>1, Inductive, PTL

-----------------------------------------------------------------------------
(***************************************************************************)
(* ThreadsafeQueue.                                                        *)
(***************************************************************************)


\* Induction over the numbers, for a set of them.
LEMMA SetInduction ==
  ASSUME NEW S \in SUBSET Nat, 0 \in S, \A n \in S : n + 1 \in S
  PROVE  S = Nat
<1> DEFINE T == Nat \ S
<1> DEFINE R == {p \in Nat \X Nat : p[1] < p[2]}
<1> SUFFICES ASSUME T # {} PROVE FALSE
  BY Zenon
<1>1. IsWellFoundedOn(R, Nat)
  BY NatLessThanWellFounded DEF OpToRel
<1>2. PICK x \in T : \A y \in T : ~(<<y, x>> \in R)
  <2> HIDE DEF T, R
  <2>1. T \subseteq Nat
    BY DEF T
  <2> QED
    BY <1>1, <2>1, WFMin, Zenon
<1>3. x - 1 \in T
  OBVIOUS
<1>4. <<x - 1, x>> \in R
  OBVIOUS
<1> QED
  BY <1>2, <1>3, <1>4

-----------------------------------------------------------------------------
(* The walk along the list: At is a recursive function, so that it exists  *)
(* and takes the steps of its definition is to be proved first.            *)

Last == Cardinality(Value)

LEMMA Nodes == Last \in Nat /\ ListNode = 0..Last /\ IsFiniteSet(ListNode) /\ Cardinality(ListNode) = Last + 1
<1>1. Last \in Nat
  BY QueueAssumption, FS_CardinalityType, Zenon DEF Last
<1>2. ListNode = 0..Last
  BY DEF ListNode, Last
<1>3. IsFiniteSet(0..Last) /\ Cardinality(0..Last) = IF 0 > Last THEN 0 ELSE Last - 0 + 1
  BY <1>1, FS_Interval
<1> QED
  BY <1>1, <1>2, <1>3

\* g walks along nx, starting at h.
Walks(n, h, nx, g) == g = [i \in 0..n |-> IF i = 0 THEN h ELSE nx[g[i - 1]]]

LEMMA WalkExists ==
  ASSUME NEW h, NEW nx
  PROVE  \E g : Walks(Last, h, nx, g)
<1> DEFINE S == {m \in Nat : \E g : Walks(m, h, nx, g)}
<1>1. 0 \in S
  <2>1. Walks(0, h, nx, [i \in 0..0 |-> h])
    BY DEF Walks
  <2> QED
    BY <2>1
<1>2. ASSUME NEW m \in S PROVE m + 1 \in S
  <2>1. PICK g : Walks(m, h, nx, g)
    BY <1>2
  <2> DEFINE f == [i \in 0..(m + 1) |-> IF i = m + 1 THEN nx[g[m]] ELSE g[i]]
  <2>2. \A i \in 0..m : f[i] = g[i]
    OBVIOUS
  <2>3. f[m + 1] = nx[g[m]]
    OBVIOUS
  <2>4. \A i \in 0..m : g[i] = IF i = 0 THEN h ELSE nx[g[i - 1]]
    BY <2>1 DEF Walks
  <2>5. \A i \in 0..(m + 1) : f[i] = IF i = 0 THEN h ELSE nx[f[i - 1]]
    <3> HIDE DEF f
    <3> TAKE i \in 0..(m + 1)
    <3>1. CASE i = m + 1
      <4>1. f[i - 1] = g[m]
        BY <2>2, <3>1
      <4> QED
        BY <2>3, <3>1, <4>1
    <3>2. CASE i \in 1..m
      <4>1. f[i] = g[i] /\ f[i - 1] = g[i - 1]
        BY <2>2, <3>2
      <4> QED
        BY <2>4, <3>2, <4>1
    <3>3. CASE i = 0
      BY <2>2, <2>4, <3>3
    <3> QED
      BY <3>1, <3>2, <3>3
  <2>6. Walks(m + 1, h, nx, f)
    BY <2>5 DEF Walks
  <2> HIDE DEF f
  <2> QED
    BY <2>6
<1> HIDE DEF S
<1>3. S = Nat
  <2>1. S \in SUBSET Nat
    BY DEF S
  <2> QED
    BY <1>1, <1>2, <2>1, SetInduction, Zenon
<1> QED
  BY <1>3, Nodes, Zenon DEF S

Steps(h, nx, g) == g[0] = h /\ \A i \in 0..(Last - 1) : g[i + 1] = nx[g[i]]

LEMMA WalkSteps ==
  ASSUME NEW h, NEW nx, NEW g, Walks(Last, h, nx, g)
  PROVE  Steps(h, nx, g)
<1>0. \A j \in 0..Last : g[j] = IF j = 0 THEN h ELSE nx[g[j - 1]]
  BY Zenon DEF Walks
<1>1. g[0] = h
  BY <1>0, Nodes
<1>2. ASSUME NEW i \in 0..(Last - 1) PROVE g[i + 1] = nx[g[i]]
  <2>1. i + 1 \in 0..Last /\ i + 1 # 0 /\ i + 1 - 1 = i
    BY Nodes
  <2> QED
    BY <1>0, <2>1
<1> QED
  BY <1>1, <1>2 DEF Steps

\* The nodes from the head on, before and after a step.
LEMMA AtWalks == Steps(head, next, At) /\ Steps(head', next', At')
<1>1. Walks(Last, head, next, At)
  <2> DEFINE D(g) == [i \in ListNode |-> IF i = 0 THEN head ELSE next[g[i - 1]]]
  <2>1. \E g : g = D(g)
    <3>1. PICK g : Walks(Last, head, next, g)
      BY WalkExists, Zenon
    <3>2. g = D(g)
      BY <3>1, Nodes, Zenon DEF Walks
    <3> HIDE DEF D
    <3> QED
      BY <3>2, Zenon
  <2>2. At = CHOOSE g : g = D(g)
    BY Zenon DEF At
  <2> HIDE DEF D
  <2>3. At = D(At)
    BY <2>1, <2>2, Zenon
  <2> QED
    BY <2>3, Nodes, Zenon DEF Walks, D
<1>2. Walks(Last, head', next', At')
  <2> DEFINE D(g) == [i \in ListNode |-> IF i = 0 THEN head' ELSE next'[g[i - 1]]]
  <2>1. \E g : g = D(g)
    <3>1. PICK g : Walks(Last, head', next', g)
      BY WalkExists, Zenon
    <3>2. g = D(g)
      BY <3>1, Nodes, Zenon DEF Walks
    <3> HIDE DEF D
    <3> QED
      BY <3>2, Zenon
  <2>2. At' = CHOOSE g : g = D(g)
    BY Zenon DEF At
  <2> HIDE DEF D
  <2>3. At' = D(At')
    BY <2>1, <2>2, Zenon
  <2> QED
    BY <2>3, Nodes, Zenon DEF Walks, D
<1> QED
  BY <1>1, <1>2, WalkSteps, Zenon

-----------------------------------------------------------------------------
(* The inductive invariant of the queue.                                   *)

\* g comes to t after k steps, over nodes that are all different.
Route(k, t, g) ==
  /\ k \in ListNode /\ g[k] = t
  /\ \A i \in 0..k : g[i] \in ListNode
  /\ \A i \in 0..k, j \in 0..k : g[i] = g[j] => i = j

\* The nodes between the ends hold values; none of them is a node that a push has
\* made and not yet linked.
Linked ==
  \E k \in ListNode :
    /\ Route(k, tail, At)
    /\ \A i \in 0..(k - 1) : data[At[i]] \in Value
    /\ \A p \in Producer, i \in 0..k : new[p] # At[i]

\* A mutex is held by the one thread that is where the code holds it.
Locks ==
  /\ \A p \in Producer : tailMtx = p <=> place[p] \in {"link", "move"}
  /\ \A c \in Consumer :
       headMtx = c <=> place[c] \in {"tryCompare", "waitCompare", "block", "take", "unlink"}

\* What a push under way has done to the dummy; no two of them made the same node.
Pushes ==
  /\ \A p \in Producer :
       /\ place[p] \in {"lock", "link", "move"} => val[p] \in Value /\ new[p] \in ListNode
       /\ place[p] \in {"link", "move"} => data[tail] = val[p]
       /\ place[p] = "move" => next[tail] = new[p]
  /\ \A p \in Producer, q \in Producer : new[p] # Null /\ new[p] = new[q] => p = q

\* Between the comparison and the end of the pop the queue does not become empty
\* and the head does not move, though no pop holds tail_mtx by then.
Pops ==
  \A c \in Consumer :
    /\ place[c] \in {"take", "unlink"} => head # tail
    /\ place[c] = "unlink" => val[c] = data[head]

QueueInv == QueueTypeOK /\ Linked /\ Locks /\ Pushes /\ Pops

\* Where g comes to t first.
FirstOf(t, g) == CHOOSE j \in ListNode : g[j] = t /\ \A i \in 0..(j - 1) : g[i] # t

LEMMA FirstAt ==
  ASSUME NEW k, NEW t, NEW g, Route(k, t, g)
  PROVE  k = FirstOf(t, g)
<1> DEFINE First(j) == j \in ListNode /\ g[j] = t /\ \A i \in 0..(j - 1) : g[i] # t
<1>0. k \in Nat /\ ListNode \subseteq Nat
  BY Nodes DEF Route
<1>1. First(k)
  <2>1. ASSUME NEW i \in 0..(k - 1), g[i] = t PROVE FALSE
    <3>1. i \in 0..k /\ k \in 0..k /\ i # k
      BY <1>0
    <3> QED
      BY <2>1, <3>1, Zenon DEF Route
  <2> QED
    BY <2>1, Zenon DEF Route
<1>2. ASSUME NEW j, First(j) PROVE j = k
  <2>0. j \in Nat
    BY <1>0, <1>2
  <2>1. CASE j < k
    <3>1. j \in 0..k /\ k \in 0..k
      BY <1>0, <2>0, <2>1
    <3> QED
      BY <1>2, <3>1, Zenon DEF Route
  <2>2. CASE k < j
    <3>1. k \in 0..(j - 1)
      BY <1>0, <2>0, <2>2
    <3> QED
      BY <1>2, <3>1, Zenon DEF Route
  <2> QED
    BY <1>0, <2>0, <2>1, <2>2
<1> QED
  BY <1>1, <1>2, Zenon DEF FirstOf

\* Contents in terms of the invariant's k, before and after a step.
LEMMA ContentsAre ==
  ASSUME NEW k
  PROVE  /\ Route(k, tail, At) => Contents = [i \in 1..k |-> data[At[i - 1]]]
         /\ Route(k, tail', At') => Contents' = [i \in 1..k |-> data'[At'[i - 1]]]
<1>1. Route(k, tail, At) => Length = k
  <2>1. Length = FirstOf(tail, At)
    BY Zenon DEF Length, FirstOf
  <2> QED
    BY <2>1, FirstAt, Zenon
<1>2. Route(k, tail', At') => Length' = k
  <2>1. Length' = FirstOf(tail', At')
    BY Zenon DEF Length, FirstOf
  <2> QED
    BY <2>1, FirstAt, Zenon
<1>3. Contents = [i \in 1..Length |-> data[At[i - 1]]]
  BY Zenon DEF Contents
<1>4. Contents' = [i \in 1..Length' |-> data'[At'[i - 1]]]
  BY Zenon DEF Contents
<1> QED
  BY <1>1, <1>2, <1>3, <1>4, Zenon

\* f is at each of k steps where g is d steps later.
Trails(k, d, f, g) == \A i \in 0..k : f[i] = g[i + d]

\* What makes it so: the same links on the way.
Alike(k, d, h, nx, f, h2, nx2, g) ==
  /\ Steps(h, nx, f) /\ Steps(h2, nx2, g)
  /\ k \in Nat /\ d \in Nat /\ k + d <= Last
  /\ f[0] = g[d] /\ \A i \in 0..(k - 1) : nx[g[i + d]] = nx2[g[i + d]]

LEMMA WalksAlike ==
  ASSUME NEW k, NEW d, NEW h, NEW nx, NEW f, NEW h2, NEW nx2, NEW g, Alike(k, d, h, nx, f, h2, nx2, g)
  PROVE  Trails(k, d, f, g)
<1>0. k \in Nat /\ d \in Nat /\ k + d <= Last /\ Last \in Nat
  BY Nodes DEF Alike
<1>1. \A i \in 0..(Last - 1) : f[i + 1] = nx[f[i]] /\ g[i + 1] = nx2[g[i]]
  BY Zenon DEF Alike, Steps
<1> DEFINE S == {i \in Nat : i <= k => f[i] = g[i + d]}
<1>2. 0 \in S
  BY <1>0 DEF Alike
<1>3. ASSUME NEW i \in S PROVE i + 1 \in S
  <2> SUFFICES ASSUME i + 1 <= k PROVE f[i + 1] = g[(i + 1) + d]
    OBVIOUS
  <2>1. i \in 0..(Last - 1) /\ i + d \in 0..(Last - 1) /\ i \in 0..(k - 1) /\ (i + 1) + d = (i + d) + 1
    BY <1>0
  <2>2. f[i] = g[i + d]
    BY <1>0, <1>3
  <2>3. f[i + 1] = nx[f[i]] /\ g[(i + d) + 1] = nx2[g[i + d]]
    BY <1>1, <2>1, Zenon
  <2>4. nx[g[i + d]] = nx2[g[i + d]]
    BY <2>1, Zenon DEF Alike
  <2> QED
    BY <2>1, <2>2, <2>3, <2>4, Zenon
<1> HIDE DEF S
<1>4. S = Nat
  <2>1. S \in SUBSET Nat
    BY DEF S
  <2> QED
    BY <1>2, <1>3, <2>1, SetInduction, Zenon
<1> QED
  BY <1>0, <1>4 DEF S, Trails

\* The list as an invariant knows it: k nodes before the dummy.
List(k) ==
  /\ Route(k, tail, At)
  /\ \A i \in 0..(k - 1) : data[At[i]] \in Value
  /\ \A p \in Producer, i \in 0..k : new[p] # At[i]

LEMMA ListIs == Linked => \E k \in ListNode : List(k)
BY Zenon DEF Linked, List

LEMMA LinkedIs == \A k : (List(k))' => Linked'
BY Zenon DEF Linked, List, Route

LEMMA ListBasics ==
  ASSUME NEW k, List(k)
  PROVE  /\ k \in 0..Last /\ Last \in Nat
         /\ At[0] = head /\ At[k] = tail
         /\ \A i \in 0..(k - 1) : At[i + 1] = next[At[i]]
         /\ \A i \in 0..(k - 1) : At[i] # tail
<1>1. k \in 0..Last /\ Last \in Nat /\ At[k] = tail
  BY Nodes DEF List, Route
<1>2. At[0] = head /\ \A i \in 0..(Last - 1) : At[i + 1] = next[At[i]]
  BY AtWalks, Zenon DEF Steps
<1>3. \A i \in 0..(k - 1) : i \in 0..(Last - 1) /\ i \in 0..k /\ k \in 0..k /\ i # k
  BY <1>1
<1>4. \A i \in 0..(k - 1) : At[i] # At[k]
  BY <1>3, Zenon DEF List, Route
<1> QED
  BY <1>1, <1>2, <1>3, <1>4, Zenon

\* A pop that found the ends different finds a value and a next node.
LEMMA HeadOfList ==
  ASSUME Linked, head # tail
  PROVE  data[head] \in Value /\ next[head] \in ListNode
<1>1. PICK k \in ListNode : List(k)
  BY ListIs, Zenon
<1>2. k # 0
  BY <1>1, ListBasics, Zenon
<1>3. 0 \in 0..(k - 1) /\ 0 + 1 = 1 /\ 1 \in 0..k
  BY <1>1, <1>2, Nodes
<1>4. At[0] = head /\ At[1] = next[At[0]]
  BY <1>1, <1>3, ListBasics, Zenon
<1> QED
  BY <1>1, <1>3, <1>4, Zenon DEF List, Route

-----------------------------------------------------------------------------
(* The conjuncts that are not about the list as a whole.                   *)

LEMMA QueueTyped ==
  ASSUME QueueInv, [QueueNext]_queueVars
  PROVE  QueueTypeOK'
<1>0. QueueTypeOK /\ Linked
  BY DEF QueueInv
<1>1. CASE UNCHANGED queueVars
  BY <1>0, <1>1, Zenon DEF QueueTypeOK, queueVars, ListNode
<1>2. ASSUME NEW p \in Producer, Call(p) PROVE QueueTypeOK'
  BY <1>0, <1>2 DEF QueueTypeOK, Call, Goto, list, histories, Thread, Fresh, Unused, ListNode
<1>3. ASSUME NEW p \in Producer, WriteData(p) PROVE QueueTypeOK'
  BY <1>0, <1>3 DEF QueueTypeOK, WriteData, Goto, histories, Thread, ListNode
<1>4. ASSUME NEW p \in Producer, Link(p) PROVE QueueTypeOK'
  BY <1>0, <1>4 DEF QueueTypeOK, Link, Goto, histories, Thread, ListNode
<1>5. ASSUME NEW p \in Producer, MoveTail(p) PROVE QueueTypeOK'
  <2>1. new[p] \in ListNode
    BY <1>5, Zenon DEF QueueInv, Pushes, MoveTail
  <2> QED
    BY <1>0, <1>5, <2>1 DEF QueueTypeOK, MoveTail, Goto, histories, Thread, ListNode
<1>6. ASSUME NEW p \in Producer, Notify(p) PROVE QueueTypeOK'
  <2>1. /\ place' = [place EXCEPT ![p] = "idle"] \/ \E c \in Consumer : place' = [place EXCEPT ![p] = "idle", ![c] = "waitPop"]
        /\ UNCHANGED <<list, headMtx, tailMtx, val, new, histories>>
    BY <1>6, Zenon DEF Notify, Goto
  <2> DEFINE places == {"idle", "lock", "link", "move", "notify", "tryPop", "waitPop",
                        "tryCompare", "waitCompare", "block", "wait", "take", "unlink"}
  <2>2. place' \in [Thread -> places]
    <3>1. place \in [Thread -> places] /\ p \in Thread /\ Consumer \subseteq Thread
      BY <1>0 DEF QueueTypeOK, Thread
    <3>2. "idle" \in places /\ "waitPop" \in places
      OBVIOUS
    <3> HIDE DEF places
    <3> QED
      BY <2>1, <3>1, <3>2
  <2> QED
    BY <1>0, <2>1, <2>2, Zenon DEF QueueTypeOK, list, histories, Thread, ListNode
<1>7. ASSUME NEW c \in Consumer, CallPop(c) PROVE QueueTypeOK'
  BY <1>0, <1>7 DEF QueueTypeOK, CallPop, Goto, list, histories, Thread, ListNode
<1>8. ASSUME NEW c \in Consumer, LockHead(c) PROVE QueueTypeOK'
  BY <1>0, <1>8 DEF QueueTypeOK, LockHead, Goto, list, histories, Thread, ListNode
<1>9. ASSUME NEW c \in Consumer, Compare(c) PROVE QueueTypeOK'
  <2>1. /\ \E l \in {"take", "idle", "block"} : place' = [place EXCEPT ![c] = l]
        /\ headMtx' = headMtx \/ headMtx' = Null
        /\ misses' = misses \/ misses' = [misses EXCEPT ![c] = ~@]
        /\ UNCHANGED <<list, tailMtx, val, new, popped>>
    BY <1>9, Zenon DEF Compare, Goto
  <2>2. misses' \in [Consumer -> BOOLEAN]
    BY <1>0, <2>1, Zenon DEF QueueTypeOK
  <2> QED
    BY <1>0, <2>1, <2>2 DEF QueueTypeOK, list, Thread, ListNode
<1>10. ASSUME NEW c \in Consumer, Block(c) PROVE QueueTypeOK'
  BY <1>0, <1>10 DEF QueueTypeOK, Block, Goto, list, histories, Thread, ListNode
<1>11. ASSUME NEW c \in Consumer, Spurious(c) PROVE QueueTypeOK'
  BY <1>0, <1>11 DEF QueueTypeOK, Spurious, Goto, list, histories, Thread, ListNode
<1>12. ASSUME NEW c \in Consumer, TakeData(c) PROVE QueueTypeOK'
  <2>1. c \in Thread /\ data[head] \in Value \cup {Null}
    BY <1>0 DEF QueueTypeOK, Thread
  <2>2. val' \in [Thread -> Value \cup {Null}]
    BY <1>0, <1>12, <2>1, Zenon DEF QueueTypeOK, TakeData
  <2> QED
    BY <1>0, <1>12, <2>1, <2>2 DEF QueueTypeOK, TakeData, Goto, list, histories, ListNode
<1>13. ASSUME NEW c \in Consumer, Unlink(c) PROVE QueueTypeOK'
  <2>1. head # tail /\ val[c] = data[head]
    BY <1>13, Zenon DEF QueueInv, Pops, Unlink
  <2>2. val[c] \in Value /\ next[head] \in ListNode
    BY <1>0, <2>1, HeadOfList, Zenon
  <2>3. Append(popped[c], val[c]) \in Seq(Value)
    BY <1>0, <2>2 DEF QueueTypeOK
  <2> QED
    BY <1>0, <1>13, <2>2, <2>3 DEF QueueTypeOK, Unlink, Goto, Thread, ListNode
<1> QED
  BY <1>1, <1>2, <1>3, <1>4, <1>5, <1>6, <1>7, <1>8, <1>9, <1>10, <1>11, <1>12, <1>13, Zenon
     DEF QueueNext, PushStep, PopStep

LEMMA LocksKept ==
  ASSUME QueueInv, [QueueNext]_queueVars
  PROVE  Locks'
<1>0. QueueTypeOK /\ Locks /\ Pushes /\ Pops /\ Producer \cap Consumer = {}
  BY QueueAssumption DEF QueueInv
<1>00. Null \notin Producer \cup Consumer
  BY QueueAssumption
<1>1. CASE UNCHANGED queueVars
  BY <1>0, <1>1, Zenon DEF Locks, queueVars, ListNode
<1>2. ASSUME NEW p \in Producer, Call(p) PROVE Locks'
  BY <1>0, <1>00, <1>2, SMTT(20) DEF QueueTypeOK, Locks, Call, Goto, Thread, ListNode, list, histories, Fresh, Unused
<1>3. ASSUME NEW p \in Producer, WriteData(p) PROVE Locks'
  BY <1>0, <1>00, <1>3, SMTT(20) DEF QueueTypeOK, Locks, WriteData, Goto, Thread, ListNode, histories
<1>4. ASSUME NEW p \in Producer, Link(p) PROVE Locks'
  BY <1>0, <1>00, <1>4, SMTT(20) DEF QueueTypeOK, Locks, Link, Goto, Thread, ListNode, histories
<1>5. ASSUME NEW p \in Producer, MoveTail(p) PROVE Locks'
  BY <1>0, <1>00, <1>5, SMTT(20) DEF QueueTypeOK, Locks, MoveTail, Goto, Thread, ListNode, histories
<1>6. ASSUME NEW p \in Producer, Notify(p) PROVE Locks'
  <2>1. \A q \in Producer : place[q] \in {"link", "move"} <=> place'[q] \in {"link", "move"}
    BY <1>0, <1>6 DEF QueueTypeOK, Notify, Goto, Thread
  <2>2. \A c \in Consumer : place'[c] = place[c] \/ (place[c] = "wait" /\ place'[c] = "waitPop")
    BY <1>0, <1>6 DEF QueueTypeOK, Notify, Goto, Thread
  <2>3. UNCHANGED <<headMtx, tailMtx>>
    BY <1>6, Zenon DEF Notify
  <2> QED
    BY <1>0, <2>1, <2>2, <2>3 DEF Locks
<1>7. ASSUME NEW c \in Consumer, CallPop(c) PROVE Locks'
  BY <1>0, <1>00, <1>7, SMTT(20) DEF QueueTypeOK, Locks, CallPop, Goto, Thread, ListNode, list, histories
<1>8. ASSUME NEW c \in Consumer, LockHead(c) PROVE Locks'
  BY <1>0, <1>00, <1>8, SMTT(20) DEF QueueTypeOK, Locks, LockHead, Goto, Thread, ListNode, list, histories
<1>9. ASSUME NEW c \in Consumer, Compare(c) PROVE Locks'
  BY <1>0, <1>00, <1>9, SMTT(20) DEF QueueTypeOK, Locks, Compare, Goto, Thread, ListNode, list
<1>10. ASSUME NEW c \in Consumer, Block(c) PROVE Locks'
  BY <1>0, <1>00, <1>10, SMTT(20) DEF QueueTypeOK, Locks, Block, Goto, Thread, ListNode, list, histories
<1>11. ASSUME NEW c \in Consumer, Spurious(c) PROVE Locks'
  BY <1>0, <1>00, <1>11, SMTT(20) DEF QueueTypeOK, Locks, Spurious, Goto, Thread, ListNode, list, histories
<1>12. ASSUME NEW c \in Consumer, TakeData(c) PROVE Locks'
  BY <1>0, <1>00, <1>12, SMTT(20) DEF QueueTypeOK, Locks, TakeData, Goto, Thread, ListNode, list, histories
<1>13. ASSUME NEW c \in Consumer, Unlink(c) PROVE Locks'
  BY <1>0, <1>00, <1>13, SMTT(20) DEF QueueTypeOK, Locks, Unlink, Goto, Thread, ListNode
<1> QED
  BY <1>1, <1>2, <1>3, <1>4, <1>5, <1>6, <1>7, <1>8, <1>9, <1>10, <1>11, <1>12, <1>13, Zenon
     DEF QueueNext, PushStep, PopStep

LEMMA PushesKept ==
  ASSUME QueueInv, [QueueNext]_queueVars
  PROVE  Pushes'
<1>0. QueueTypeOK /\ Locks /\ Pushes /\ Pops /\ Producer \cap Consumer = {}
  BY QueueAssumption DEF QueueInv
<1>00. Null \notin Producer \cup Consumer
  BY QueueAssumption
<1>1. CASE UNCHANGED queueVars
  BY <1>0, <1>1, Zenon DEF Pushes, queueVars, ListNode
<1>2. ASSUME NEW p \in Producer, Call(p) PROVE Pushes'
  BY <1>0, <1>00, <1>2, SMTT(20) DEF QueueTypeOK, Pushes, Call, Goto, Thread, ListNode, list, histories, Fresh, Unused
<1>3. ASSUME NEW p \in Producer, WriteData(p) PROVE Pushes'
  <2>1. \A q \in Producer : place[q] \notin {"link", "move"}
    BY <1>0, <1>00, <1>3, Zenon DEF Locks, WriteData
  <2>2. \A q \in Producer : place'[q] = IF q = p THEN "link" ELSE place[q]
    BY <1>0, <1>3 DEF QueueTypeOK, WriteData, Goto, Thread
  <2>3. data'[tail] = val[p] /\ place[p] = "lock" /\ UNCHANGED <<tail, next, val, new>>
    BY <1>0, <1>3, SMTT(20) DEF QueueTypeOK, WriteData
  <2> QED
    BY <1>0, <2>1, <2>2, <2>3 DEF Pushes, ListNode
<1>4. ASSUME NEW p \in Producer, Link(p) PROVE Pushes'
  <2>1. \A q \in Producer : place[q] \in {"link", "move"} => q = p
    BY <1>0, <1>4, Zenon DEF Locks, Link
  <2>2. \A q \in Producer : place'[q] = IF q = p THEN "move" ELSE place[q]
    BY <1>0, <1>4 DEF QueueTypeOK, Link, Goto, Thread
  <2>3. next'[tail] = new[p] /\ place[p] = "link" /\ UNCHANGED <<tail, data, val, new>>
    BY <1>0, <1>4 DEF QueueTypeOK, Link
  <2> QED
    BY <1>0, <2>1, <2>2, <2>3 DEF Pushes, ListNode
<1>5. ASSUME NEW p \in Producer, MoveTail(p) PROVE Pushes'
  <2>1. \A q \in Producer : place[q] \in {"link", "move"} => q = p
    BY <1>0, <1>5, Zenon DEF Locks, MoveTail
  <2>2. \A q \in Producer : place'[q] = IF q = p THEN "notify" ELSE place[q]
    BY <1>0, <1>5 DEF QueueTypeOK, MoveTail, Goto, Thread
  <2>3. \A q \in Producer : /\ new'[q] = IF q = p THEN Null ELSE new[q]
                            /\ val'[q] = IF q = p THEN Null ELSE val[q]
    BY <1>0, <1>5 DEF QueueTypeOK, MoveTail, Thread
  <2> QED
    BY <1>0, <2>1, <2>2, <2>3 DEF Pushes, ListNode
<1>6. ASSUME NEW p \in Producer, Notify(p) PROVE Pushes'
  BY <1>0, <1>00, <1>6, SMTT(20) DEF QueueTypeOK, Pushes, Notify, Goto, Thread, ListNode, list, histories
<1>7. ASSUME NEW c \in Consumer, CallPop(c) PROVE Pushes'
  BY <1>0, <1>00, <1>7, SMTT(20) DEF QueueTypeOK, Pushes, CallPop, Goto, Thread, ListNode, list, histories
<1>8. ASSUME NEW c \in Consumer, LockHead(c) PROVE Pushes'
  BY <1>0, <1>00, <1>8, SMTT(20) DEF QueueTypeOK, Pushes, LockHead, Goto, Thread, ListNode, list, histories
<1>9. ASSUME NEW c \in Consumer, Compare(c) PROVE Pushes'
  BY <1>0, <1>00, <1>9, SMTT(20) DEF QueueTypeOK, Pushes, Compare, Goto, Thread, ListNode, list
<1>10. ASSUME NEW c \in Consumer, Block(c) PROVE Pushes'
  BY <1>0, <1>00, <1>10, SMTT(20) DEF QueueTypeOK, Pushes, Block, Goto, Thread, ListNode, list, histories
<1>11. ASSUME NEW c \in Consumer, Spurious(c) PROVE Pushes'
  BY <1>0, <1>00, <1>11, SMTT(20) DEF QueueTypeOK, Pushes, Spurious, Goto, Thread, ListNode, list, histories
<1>12. ASSUME NEW c \in Consumer, TakeData(c) PROVE Pushes'
  BY <1>0, <1>00, <1>12, SMTT(20) DEF QueueTypeOK, Pushes, TakeData, Goto, Thread, ListNode, list, histories
<1>13. ASSUME NEW c \in Consumer, Unlink(c) PROVE Pushes'
  BY <1>0, <1>00, <1>13, SMTT(20) DEF QueueTypeOK, Pushes, Unlink, Goto, Thread, ListNode
<1> QED
  BY <1>1, <1>2, <1>3, <1>4, <1>5, <1>6, <1>7, <1>8, <1>9, <1>10, <1>11, <1>12, <1>13, Zenon
     DEF QueueNext, PushStep, PopStep

LEMMA PopsKept ==
  ASSUME QueueInv, [QueueNext]_queueVars
  PROVE  Pops'
<1>0. QueueTypeOK /\ Locks /\ Pushes /\ Pops /\ Producer \cap Consumer = {}
  BY QueueAssumption DEF QueueInv
<1>00. Null \notin Producer \cup Consumer
  BY QueueAssumption
<1>1. CASE UNCHANGED queueVars
  BY <1>0, <1>1, Zenon DEF Pops, queueVars, ListNode
<1>2. ASSUME NEW p \in Producer, Call(p) PROVE Pops'
  BY <1>0, <1>00, <1>2, SMTT(20) DEF QueueTypeOK, Pops, Call, Goto, Thread, ListNode, list, histories, Fresh, Unused
<1>3. ASSUME NEW p \in Producer, WriteData(p) PROVE Pops'
  BY <1>0, <1>00, <1>3, SMTT(20) DEF QueueTypeOK, Pops, WriteData, Goto, Thread, ListNode, histories
<1>4. ASSUME NEW p \in Producer, Link(p) PROVE Pops'
  BY <1>0, <1>00, <1>4, SMTT(20) DEF QueueTypeOK, Pops, Link, Goto, Thread, ListNode, histories
<1>5. ASSUME NEW p \in Producer, MoveTail(p) PROVE Pops'
  <2>1. \A c \in Consumer : place'[c] = place[c] /\ val'[c] = val[c]
    BY <1>0, <1>5 DEF QueueTypeOK, MoveTail, Goto, Thread
  <2>2. head # new[p]
    <3>1. PICK k \in ListNode : List(k)
      BY ListIs, Zenon DEF QueueInv
    <3>2. 0 \in 0..k /\ At[0] = head
      BY <3>1, ListBasics, Nodes
    <3> QED
      BY <3>1, <3>2, Zenon DEF List
  <2>3. tail' = new[p] /\ UNCHANGED <<head, data>>
    BY <1>5, Zenon DEF MoveTail
  <2> QED
    BY <1>0, <2>1, <2>2, <2>3 DEF Pops
<1>6. ASSUME NEW p \in Producer, Notify(p) PROVE Pops'
  <2>1. \A c \in Consumer : place'[c] = place[c] \/ place'[c] = "waitPop"
    BY <1>0, <1>6 DEF QueueTypeOK, Notify, Goto, Thread
  <2>2. UNCHANGED <<data, head, tail, val>>
    BY <1>6, Zenon DEF Notify, list
  <2> QED
    BY <1>0, <2>1, <2>2 DEF Pops
<1>7. ASSUME NEW c \in Consumer, CallPop(c) PROVE Pops'
  BY <1>0, <1>00, <1>7, SMTT(20) DEF QueueTypeOK, Pops, CallPop, Goto, Thread, ListNode, list, histories
<1>8. ASSUME NEW c \in Consumer, LockHead(c) PROVE Pops'
  BY <1>0, <1>00, <1>8, SMTT(20) DEF QueueTypeOK, Pops, LockHead, Goto, Thread, ListNode, list, histories
<1>9. ASSUME NEW c \in Consumer, Compare(c) PROVE Pops'
  BY <1>0, <1>00, <1>9, SMTT(20) DEF QueueTypeOK, Pops, Compare, Goto, Thread, ListNode, list
<1>10. ASSUME NEW c \in Consumer, Block(c) PROVE Pops'
  BY <1>0, <1>00, <1>10, SMTT(20) DEF QueueTypeOK, Pops, Block, Goto, Thread, ListNode, list, histories
<1>11. ASSUME NEW c \in Consumer, Spurious(c) PROVE Pops'
  BY <1>0, <1>00, <1>11, SMTT(20) DEF QueueTypeOK, Pops, Spurious, Goto, Thread, ListNode, list, histories
<1>12. ASSUME NEW c \in Consumer, TakeData(c) PROVE Pops'
  BY <1>0, <1>00, <1>12, SMTT(20) DEF QueueTypeOK, Pops, TakeData, Goto, Thread, ListNode, list, histories
<1>13. ASSUME NEW c \in Consumer, Unlink(c) PROVE Pops'
  <2>1. \A b \in Consumer : place[b] \in {"take", "unlink"} => b = c
    BY <1>0, <1>13, Zenon DEF Locks, Unlink
  <2>2. \A b \in Consumer : place'[b] = IF b = c THEN "idle" ELSE place[b]
    BY <1>0, <1>13 DEF QueueTypeOK, Unlink, Goto, Thread
  <2> QED
    BY <2>1, <2>2 DEF Pops
<1> QED
  BY <1>1, <1>2, <1>3, <1>4, <1>5, <1>6, <1>7, <1>8, <1>9, <1>10, <1>11, <1>12, <1>13, Zenon
     DEF QueueNext, PushStep, PopStep

-----------------------------------------------------------------------------
(* What each step does to the list and to its contents.                    *)

LEMMA AtSame ==
  ASSUME UNCHANGED <<next, head>>
  PROVE  At' = At
BY Zenon DEF At, ListNode

\* A step that leaves the list alone.
LEMMA ListSame ==
  ASSUME NEW k, List(k), UNCHANGED <<list, new>>
  PROVE  (List(k))' /\ Contents' = Contents
<1>1. At' = At
  BY AtSame, Zenon DEF list
<1>2. (List(k))'
  BY <1>1, Zenon DEF List, Route, list, ListNode
<1>3. Contents' = Contents
  BY <1>1, Zenon DEF Contents, Length, list, ListNode
<1> QED
  BY <1>2, <1>3

\* A new node is none of the list's.
LEMMA ListCall ==
  ASSUME QueueInv, NEW k, List(k), NEW p \in Producer, Call(p)
  PROVE  (List(k))' /\ Contents' = Contents
<1>1. At' = At /\ UNCHANGED <<data, tail>>
  BY AtSame, Zenon DEF list, Call
<1>2. PICK n \in Unused : new' = [new EXCEPT ![p] = n]
  BY Zenon DEF Call
<1>3. n \in ListNode /\ n # tail /\ next[n] = Null
  BY <1>2 DEF Unused
<1>4. ASSUME NEW i \in 0..k PROVE At[i] # n
  <2>1. CASE i = k
    BY <1>3, <2>1, ListBasics, Zenon
  <2>2. CASE i # k
    <3>1. i \in 0..(k - 1) /\ i + 1 \in 0..k
      BY <2>2, ListBasics
    <3>2. next[At[i]] \in ListNode
      BY <3>1, ListBasics, Zenon DEF List, Route
    <3>3. Null \notin ListNode
      BY QueueAssumption, Nodes
    <3> QED
      BY <1>3, <3>2, <3>3, Zenon
  <2> QED
    BY <2>1, <2>2
<1>5. \A q \in Producer : new'[q] = n \/ new'[q] = new[q]
  BY <1>2 DEF QueueInv, QueueTypeOK
<1>6. \A q \in Producer, i \in 0..k : new'[q] # At[i]
  BY <1>4, <1>5, Zenon DEF List
<1>7. Route(k, tail, At) /\ \A i \in 0..(k - 1) : data[At[i]] \in Value
  BY Zenon DEF List
<1>8. (List(k))'
  BY <1>1, <1>6, <1>7, Zenon DEF List, Route, ListNode
<1>9. Contents' = Contents
  BY <1>1, Zenon DEF Contents, Length, ListNode
<1> QED
  BY <1>8, <1>9

\* The same nodes with the same values.
LEMMA ContentsSame ==
  ASSUME NEW k, Route(k, tail, At), Route(k, tail', At'), k \in Nat,
         \A i \in 0..(k - 1) : data'[At'[i]] = data[At[i]]
  PROVE  Contents' = Contents
<1>1. Contents = [i \in 1..k |-> data[At[i - 1]]]
  BY ContentsAre, Zenon
<1>2. Contents' = [i \in 1..k |-> data'[At'[i - 1]]]
  BY ContentsAre, Zenon
<1>3. \A i \in 1..k : data'[At'[i - 1]] = data[At[i - 1]]
  <2>1. \A i \in 1..k : i - 1 \in 0..(k - 1)
    OBVIOUS
  <2> QED
    BY <2>1, Zenon
<1> QED
  BY <1>1, <1>2, <1>3, Zenon

\* The dummy's data is not yet part of the contents.
LEMMA ListWrite ==
  ASSUME QueueInv, NEW k, List(k), NEW p \in Producer, WriteData(p)
  PROVE  (List(k))' /\ Contents' = Contents
<1>0. k \in Nat
  BY ListBasics
<1>1. At' = At /\ UNCHANGED <<tail, new>>
  BY AtSame, Zenon DEF WriteData
<1>2. \A n \in ListNode : n # tail => data'[n] = data[n]
  BY DEF WriteData, QueueInv, QueueTypeOK
<1>3. \A i \in 0..(k - 1) : At[i] \in ListNode /\ At[i] # tail
  <2>1. \A i \in 0..(k - 1) : i \in 0..k
    BY <1>0
  <2> QED
    BY <2>1, ListBasics, Zenon DEF List, Route
<1>4. \A i \in 0..(k - 1) : data'[At'[i]] = data[At[i]]
  BY <1>1, <1>2, <1>3, Zenon
<1>5. (List(k))'
  BY <1>1, <1>4, Zenon DEF List, Route, ListNode
<1>6. Route(k, tail, At) /\ Route(k, tail', At')
  BY <1>5, Zenon DEF List, Route, ListNode
<1> QED
  BY <1>0, <1>4, <1>5, <1>6, ContentsSame, Zenon

\* Nor is its successor, while the tail is where it was.
LEMMA ListLink ==
  ASSUME QueueInv, NEW k, List(k), NEW p \in Producer, Link(p)
  PROVE  (List(k))' /\ Contents' = Contents
<1>0. k \in 0..Last /\ Last \in Nat
  BY ListBasics
<1>1. UNCHANGED <<tail, new, data, head>>
  BY Zenon DEF Link
<1>2. \A n \in ListNode : n # tail => next'[n] = next[n]
  BY DEF Link, QueueInv, QueueTypeOK
<1>3. \A i \in 0..(k - 1) : At[i] \in ListNode /\ At[i] # tail
  <2>1. \A i \in 0..(k - 1) : i \in 0..k
    BY <1>0
  <2> QED
    BY <2>1, ListBasics, Zenon DEF List, Route
<1>4. Trails(k, 0, At', At)
  <2>1. \A i \in 0..(k - 1) : i + 0 = i
    BY <1>0
  <2>2. \A i \in 0..(k - 1) : next'[At[i + 0]] = next[At[i + 0]]
    BY <1>2, <1>3, <2>1, Zenon
  <2>3. At'[0] = At[0]
    BY <1>1, AtWalks, Zenon DEF Steps
  <2>4. k \in Nat /\ 0 \in Nat /\ k + 0 <= Last
    BY <1>0
  <2>5. Alike(k, 0, head', next', At', head, next, At)
    BY <2>2, <2>3, <2>4, AtWalks, Zenon DEF Alike
  <2> QED
    BY <2>5, WalksAlike, Zenon
<1>5. \A i \in 0..k : At'[i] = At[i]
  BY <1>0, <1>4 DEF Trails
<1>6. \A i \in 0..(k - 1) : i \in 0..k
  BY <1>0
<1>7. \A i \in 0..(k - 1) : data'[At'[i]] = data[At[i]]
  BY <1>1, <1>5, <1>6, Zenon
<1>8. Route(k, tail', At')
  <2>1. k \in 0..k
    BY <1>0
  <2> QED
    BY <1>1, <1>5, <2>1, Zenon DEF List, Route
<1>9. (List(k))'
  <2>1. \A i \in 0..(k - 1) : data'[At'[i]] \in Value
    BY <1>7, Zenon DEF List
  <2>2. \A q \in Producer, i \in 0..k : new'[q] # At'[i]
    BY <1>1, <1>5, Zenon DEF List
  <2> QED
    BY <1>8, <2>1, <2>2, Zenon DEF List, Route
<1> QED
  BY <1>0, <1>7, <1>8, <1>9, ContentsSame DEF List

\* There is a number left for one more node.
LEMMA ListRoom ==
  ASSUME NEW k, List(k), NEW n \in ListNode, \A i \in 0..k : At[i] # n
  PROVE  k + 1 \in ListNode
<1>0. k \in 0..Last /\ Last \in Nat
  BY ListBasics
<1>1. SUFFICES ASSUME k = Last PROVE FALSE
  BY <1>0, Nodes
<1> DEFINE f == [i \in 0..(k + 1) |-> IF i = k + 1 THEN n ELSE At[i]]
<1>2. \A i \in 0..(k + 1) : i = k + 1 \/ i \in 0..k
  BY <1>0
<1>3. \A i \in 0..(k + 1) : f[i] \in ListNode
  BY <1>2, Zenon DEF List, Route
<1>4. f \in [0..(k + 1) -> ListNode]
  BY <1>3, Zenon
<1>5. ASSUME NEW i \in 0..(k + 1), NEW j \in 0..(k + 1), i # j PROVE f[i] # f[j]
  BY <1>2, <1>5, Zenon DEF List, Route
<1>6. IsFiniteSet(0..(k + 1)) /\ Cardinality(0..(k + 1)) = k + 2
  BY <1>0, FS_Interval
<1> HIDE DEF f
<1>7. Cardinality(ListNode) < Cardinality(0..(k + 1))
  BY <1>0, <1>1, <1>6, Nodes
<1>8. \E i, j \in 0..(k + 1) : i # j /\ f[i] = f[j]
  BY <1>4, <1>6, <1>7, Nodes, FS_PigeonHole, Zenon
<1> QED
  BY <1>5, <1>8, Zenon

\* The push takes effect when the tail moves.
LEMMA ListMove ==
  ASSUME QueueInv, NEW k, List(k), NEW p \in Producer, MoveTail(p)
  PROVE  (List(k + 1))' /\ Contents' = Append(Contents, val[p]) /\ val[p] \in Value
<1>0. k \in 0..Last /\ Last \in Nat
  BY ListBasics
<1>1. At' = At /\ tail' = new[p] /\ UNCHANGED data
  BY AtSame, Zenon DEF MoveTail
<1>2. val[p] \in Value /\ new[p] \in ListNode /\ data[tail] = val[p] /\ next[tail] = new[p]
  BY Zenon DEF QueueInv, Pushes, MoveTail
<1>3. k + 1 \in ListNode
  BY <1>2, ListRoom, Zenon DEF List
<1>4. At[k] = tail /\ At[k + 1] = new[p]
  <2>1. k \in 0..(Last - 1)
    BY <1>0, <1>3, Nodes
  <2> QED
    BY <1>2, <2>1, AtWalks, ListBasics, Zenon DEF Steps
<1>5. \A i \in 0..(k + 1) : i = k + 1 \/ i \in 0..k
  BY <1>0
<1>6. Route(k + 1, tail', At')
  <2>1. \A i \in 0..(k + 1) : At[i] \in ListNode
    BY <1>2, <1>4, <1>5, Zenon DEF List, Route
  <2>2. \A i \in 0..(k + 1), j \in 0..(k + 1) : At[i] = At[j] => i = j
    BY <1>4, <1>5, Zenon DEF List, Route
  <2> QED
    BY <1>1, <1>3, <1>4, <2>1, <2>2, Zenon DEF Route
<1>7. (List(k + 1))'
  <2>1. \A i \in 0..((k + 1) - 1) : i = k \/ i \in 0..(k - 1)
    BY <1>0
  <2>2. \A i \in 0..((k + 1) - 1) : data'[At'[i]] \in Value
    BY <1>1, <1>2, <1>4, <2>1, Zenon DEF List
  <2>3. \A q \in Producer : new'[q] = IF q = p THEN Null ELSE new[q]
    BY DEF QueueInv, QueueTypeOK, MoveTail
  <2>4. \A q \in Producer, r \in Producer : new[q] # Null /\ new[q] = new[r] => q = r
    BY Zenon DEF QueueInv, Pushes
  <2>5. Null \notin ListNode
    BY QueueAssumption, Nodes
  <2>6. ASSUME NEW q \in Producer, NEW i \in 0..(k + 1) PROVE new'[q] # At[i]
    <3>1. CASE q = p
      <4>1. At[i] \in ListNode
        BY <1>2, <1>4, <1>5, Zenon DEF List, Route
      <4> QED
        BY <2>3, <2>5, <3>1, <4>1, Zenon
    <3>2. CASE q # p
      BY <1>2, <1>4, <1>5, <2>3, <2>4, <2>5, <3>2, Zenon DEF List
    <3> QED
      BY <3>1, <3>2
  <2> QED
    BY <1>1, <1>6, <2>2, <2>6, Zenon DEF List, Route
<1>8. Contents' = Append(Contents, val[p])
  <2>1. Contents = [i \in 1..k |-> data[At[i - 1]]]
    BY ContentsAre, Zenon DEF List
  <2>2. Contents' = [i \in 1..(k + 1) |-> data[At[i - 1]]]
    BY <1>1, <1>6, ContentsAre, Zenon
  <2>3. data[At[(k + 1) - 1]] = val[p]
    BY <1>0, <1>2, <1>4
  <2>4. \A i \in 1..k : data[At[i - 1]] \in Value
    <3>1. \A i \in 1..k : i - 1 \in 0..(k - 1)
      BY <1>0
    <3> QED
      BY <3>1, Zenon DEF List
  <2> DEFINE e(i) == data[At[i - 1]]
  <2>5. Contents = [i \in 1..k |-> e(i)] /\ Contents' = [i \in 1..(k + 1) |-> e(i)] /\ e(k + 1) = val[p]
        /\ \A i \in 1..k : e(i) \in Value
    BY <2>1, <2>2, <2>3, <2>4, Zenon
  <2> HIDE DEF e
  <2> QED
    BY <1>0, <1>2, <2>5
<1> QED
  BY <1>2, <1>7, <1>8

\* The pop takes effect when the head moves.
LEMMA ListUnlink ==
  ASSUME QueueInv, NEW k, List(k), NEW c \in Consumer, Unlink(c)
  PROVE  /\ (List(k - 1))'
         /\ Contents # <<>> /\ Contents' = Tail(Contents) /\ val[c] = Head(Contents)
<1>0. k \in 0..Last /\ Last \in Nat
  BY ListBasics
<1>1. head' = next[head] /\ UNCHANGED <<tail, next, data, new>>
  BY Zenon DEF Unlink
<1>2. head # tail /\ val[c] = data[head]
  BY Zenon DEF QueueInv, Pops, Unlink
<1>3. k \in 1..Last /\ k - 1 \in ListNode
  <2>1. k # 0
    BY <1>2, ListBasics, Zenon
  <2> QED
    BY <1>0, <2>1, Nodes
<1>4. Trails(k - 1, 1, At', At)
  <2>1. \A i \in 0..((k - 1) - 1) : next'[At[i + 1]] = next[At[i + 1]]
    BY <1>1, Zenon
  <2>2. At'[0] = At[1]
    <3>1. 0 \in 0..(Last - 1) /\ 0 + 1 = 1
      BY <1>0, <1>3
    <3> QED
      BY <1>1, <3>1, AtWalks, Zenon DEF Steps
  <2>3. k - 1 \in Nat /\ 1 \in Nat /\ (k - 1) + 1 <= Last
    BY <1>3
  <2>4. Alike(k - 1, 1, head', next', At', head, next, At)
    BY <2>1, <2>2, <2>3, AtWalks, Zenon DEF Alike
  <2> QED
    BY <2>4, WalksAlike, Zenon
<1>5. \A i \in 0..(k - 1) : At'[i] = At[i + 1] /\ i + 1 \in 0..k
  BY <1>3, <1>4 DEF Trails
<1>6. Route(k - 1, tail', At')
  <2>1. (k - 1) + 1 = k /\ k - 1 \in 0..(k - 1)
    BY <1>3
  <2>2. At'[k - 1] = tail'
    BY <1>1, <1>5, <2>1, ListBasics, Zenon
  <2>3. \A i \in 0..(k - 1) : At'[i] \in ListNode
    BY <1>5, Zenon DEF List, Route
  <2>4. ASSUME NEW i \in 0..(k - 1), NEW j \in 0..(k - 1), At'[i] = At'[j] PROVE i = j
    <3>1. i + 1 = j + 1
      BY <1>5, <2>4, Zenon DEF List, Route
    <3> QED
      BY <1>3, <3>1
  <2> QED
    BY <1>3, <2>2, <2>3, <2>4, Zenon DEF Route
<1>7. (List(k - 1))'
  <2>1. \A i \in 0..((k - 1) - 1) : i \in 0..(k - 1) /\ i + 1 \in 0..(k - 1)
    BY <1>3
  <2>2. \A i \in 0..((k - 1) - 1) : data'[At'[i]] \in Value
    BY <1>1, <1>5, <2>1, Zenon DEF List
  <2>3. \A q \in Producer, i \in 0..(k - 1) : new'[q] # At'[i]
    BY <1>1, <1>5, Zenon DEF List
  <2> QED
    BY <1>6, <2>2, <2>3, Zenon DEF List, Route
<1>8. Contents # <<>> /\ Contents' = Tail(Contents) /\ val[c] = Head(Contents)
  <2> DEFINE e(i) == data[At[i - 1]]
  <2>1. Contents = [i \in 1..k |-> e(i)]
    BY ContentsAre, Zenon DEF List
  <2>2. Contents' = [i \in 1..(k - 1) |-> data'[At'[i - 1]]]
    BY <1>6, ContentsAre, Zenon
  <2>3. \A i \in 1..(k - 1) : i - 1 \in 0..(k - 1) /\ (i - 1) + 1 = (i + 1) - 1
    BY <1>3
  <2>4. \A i \in 1..(k - 1) : data'[At'[i - 1]] = e(i + 1)
    BY <1>1, <1>5, <2>3, Zenon
  <2>5. Contents' = [i \in 1..(k - 1) |-> e(i + 1)]
    BY <2>2, <2>4, Zenon
  <2>6. e(1) = val[c]
    BY <1>2, ListBasics
  <2>7. \A i \in 1..k : e(i) \in Value
    <3>1. \A i \in 1..k : i - 1 \in 0..(k - 1)
      BY <1>0
    <3> QED
      BY <3>1, Zenon DEF List
  <2> HIDE DEF e
  <2>8. Contents \in Seq(Value) /\ Len(Contents) = k
    BY <1>3, <2>1, <2>7
  <2>9. Tail(Contents) = [i \in 1..(k - 1) |-> e(i + 1)]
    BY <1>3, <2>1, <2>7
  <2>10. Contents # <<>>
    BY <1>3, <2>8
  <2>11. Head(Contents) = e(1)
    BY <1>3, <2>1
  <2> QED
    BY <2>5, <2>6, <2>9, <2>10, <2>11, Zenon
<1> QED
  BY <1>7, <1>8

\* Every step of the list is a step of the queue, or none.
LEMMA ListSteps ==
  ASSUME QueueInv, [QueueNext]_queueVars
  PROVE  Linked' /\ [Queue!Next]_(Queue!vars)
<1>0. PICK k \in ListNode : List(k)
  BY ListIs, Zenon DEF QueueInv
<1> DEFINE Goal == Linked' /\ [Queue!Next]_(Queue!vars)
<1> DEFINE Quiet == UNCHANGED <<list, new, popped, misses>>
<1>1. ASSUME Quiet PROVE Goal
  <2>1. (List(k))' /\ Contents' = Contents
    BY <1>0, <1>1, ListSame, Zenon
  <2> QED
    BY <1>1, <2>1, LinkedIs, Zenon DEF Queue!vars
<1>2. ASSUME NEW p \in Producer, Call(p) PROVE Goal
  <2>1. (List(k))' /\ Contents' = Contents
    BY <1>0, <1>2, ListCall, Zenon
  <2> QED
    BY <1>2, <2>1, LinkedIs, Zenon DEF Queue!vars, Call, histories
<1>3. ASSUME NEW p \in Producer, WriteData(p) PROVE Goal
  <2>1. (List(k))' /\ Contents' = Contents
    BY <1>0, <1>3, ListWrite, Zenon
  <2> QED
    BY <1>3, <2>1, LinkedIs, Zenon DEF Queue!vars, WriteData, histories
<1>4. ASSUME NEW p \in Producer, Link(p) PROVE Goal
  <2>1. (List(k))' /\ Contents' = Contents
    BY <1>0, <1>4, ListLink, Zenon
  <2> QED
    BY <1>4, <2>1, LinkedIs, Zenon DEF Queue!vars, Link, histories
<1>5. ASSUME NEW p \in Producer, MoveTail(p) PROVE Goal
  <2>1. (List(k + 1))' /\ Contents' = Append(Contents, val[p]) /\ val[p] \in Value
    BY <1>0, <1>5, ListMove, Zenon
  <2>2. Queue!Push(val[p])
    BY <1>5, <2>1, Zenon DEF Queue!Push, MoveTail, histories
  <2> QED
    BY <2>1, <2>2, LinkedIs, Zenon DEF Queue!Next
<1>6. ASSUME NEW p \in Producer, Notify(p) PROVE Goal
  BY <1>1, <1>6, Zenon DEF Notify, histories
<1>7. ASSUME NEW c \in Consumer, CallPop(c) \/ LockHead(c) \/ Block(c) \/ Spurious(c) \/ TakeData(c)
      PROVE  Goal
  BY <1>1, <1>7, Zenon DEF CallPop, LockHead, Block, Spurious, TakeData, histories
<1>8. ASSUME NEW c \in Consumer, Compare(c) PROVE Goal
  <2>1. CASE UNCHANGED misses
    BY <1>1, <1>8, <2>1, Zenon DEF Compare
  <2>2. CASE head = tail /\ misses' = [misses EXCEPT ![c] = ~@]
    <3>1. UNCHANGED <<list, new>> /\ UNCHANGED popped
      BY <1>8, Zenon DEF Compare
    <3>2. (List(k))' /\ Contents' = Contents
      BY <1>0, <3>1, ListSame, Zenon
    <3>3. k = 0
      <4>1. 0 \in 0..k /\ k \in 0..k
        BY <1>0, Nodes
      <4>2. At[0] = head /\ At[k] = tail
        BY <1>0, ListBasics, Zenon
      <4> QED
        BY <1>0, <2>2, <4>1, <4>2, Zenon DEF List, Route
    <3>4. Contents = <<>>
      <4>1. Contents = [i \in 1..0 |-> data[At[i - 1]]]
        BY <1>0, <3>3, ContentsAre, Zenon DEF List
      <4> QED
        BY <4>1
    <3>5. Queue!Miss(c)
      BY <2>2, <3>1, <3>2, <3>4, Zenon DEF Queue!Miss
    <3> QED
      BY <3>2, <3>5, LinkedIs, Zenon DEF Queue!Next
  <2> QED
    BY <1>8, <2>1, <2>2, Zenon DEF Compare
<1>9. ASSUME NEW c \in Consumer, Unlink(c) PROVE Goal
  <2>1. /\ (List(k - 1))'
        /\ Contents # <<>> /\ Contents' = Tail(Contents) /\ val[c] = Head(Contents)
    BY <1>0, <1>9, ListUnlink, Zenon
  <2>2. Queue!Pop(c)
    BY <1>9, <2>1, Zenon DEF Queue!Pop, Unlink
  <2> QED
    BY <2>1, <2>2, LinkedIs, Zenon DEF Queue!Next
<1>10. CASE UNCHANGED queueVars
  BY <1>1, <1>10, Zenon DEF queueVars, list
<1> QED
  BY <1>2, <1>3, <1>4, <1>5, <1>6, <1>7, <1>8, <1>9, <1>10, Zenon DEF QueueNext, PushStep, PopStep

LEMMA QueueStarts ==
  ASSUME QueueInit
  PROVE  QueueInv /\ Queue!Init
<1>1. QueueTypeOK
  <2>1. 0 \in ListNode
    BY Nodes
  <2>2. <<>> \in Seq(Value)
    OBVIOUS
  <2> QED
    BY <2>1, <2>2 DEF QueueTypeOK, QueueInit
<1>2. Locks /\ Pushes /\ Pops
  BY QueueAssumption DEF QueueInit, Locks, Pushes, Pops, Thread
<1>3. At[0] = 0 /\ 0 \in ListNode
  BY AtWalks, Nodes DEF Steps, QueueInit
<1>4. Null \notin ListNode
  BY QueueAssumption, Nodes
<1>5. Route(0, tail, At)
  BY <1>3 DEF Route, QueueInit
<1>6. List(0)
  BY <1>3, <1>4, <1>5, SMTT(20) DEF List, QueueInit
<1>7. Contents = <<>>
  <2>1. Contents = [i \in 1..0 |-> data[At[i - 1]]]
    BY <1>5, ContentsAre, Zenon
  <2> QED
    BY <2>1
<1> QED
  BY <1>1, <1>2, <1>3, <1>6, <1>7, Zenon DEF QueueInv, Linked, List, Queue!Init, QueueInit

\* threadsafe_queue: head and tail are never null, and a pop never moves out of a
\* node without data, for any number of threads and values.
THEOREM QueueTypeCorrect == QueueSpec => []QueueTypeOK
<1>1. QueueInit => QueueInv
  BY QueueStarts
<1>2. QueueInv /\ [QueueNext]_queueVars => QueueInv'
  BY QueueTyped, LocksKept, PushesKept, PopsKept, ListSteps, Zenon DEF QueueInv
<1>3. QueueInv => QueueTypeOK
  BY DEF QueueInv
<1> QED
  BY <1>1, <1>2, <1>3, PTL DEF QueueSpec

\* threadsafe_queue with one mutex for each end implements Fifo, for any number of
\* threads and values: a push takes effect when tail moves, a pop when head moves,
\* a try_pop that fails when it compares the two.
THEOREM ListIsFifo == QueueSpec => IsFifo
<1>1. QueueInit => QueueInv /\ Queue!Init
  BY QueueStarts
<1>2. QueueInv /\ [QueueNext]_queueVars => QueueInv'
  BY QueueTyped, LocksKept, PushesKept, PopsKept, ListSteps, Zenon DEF QueueInv
<1>3. QueueInv /\ [QueueNext]_queueVars => [Queue!Next]_(Queue!vars)
  BY ListSteps, Zenon
<1> QED
  BY <1>1, <1>2, <1>3, PTL DEF QueueSpec, IsFifo, Queue!Spec
===============================================================================

--------------------------- MODULE ThreadPoolProofs ---------------------------
(***************************************************************************)
(* Proofs about ThreadPool for every number of producers, workers and      *)
(* tasks and every bound of the queue.                                     *)
(***************************************************************************)
EXTENDS ThreadPool, SequenceTheorems, TLAPS

(* The inductive invariant.                                                *)

\* Each kind of thread has its own part of the code.
PcOK ==
  /\ \A p \in Producer : pc[p] \in {"idle", "push", "tryPush", "full", "notFull",
                                    "enqueue", "count"}
  /\ \A w \in WorkerId : pc[w] \in {"pop", "sub", "zero", "work", "wait", "cv", "exit"}
  /\ pc[Owner] \in {"idle", "clearAll", "flag", "clear", "sub", "zero", "notify",
                    "join", "sweep"}

\* A thread has a task in its hands exactly while it should.
ArgOK ==
  /\ \A p \in Producer : arg[p] \in Task <=>
       pc[p] \in {"push", "tryPush", "full", "notFull", "enqueue"}
  /\ \A w \in WorkerId : arg[w] \in Task <=> pc[w] \in {"sub", "zero", "work"}

\* mtx is held between two steps by the producer that is between them.
MtxOK == \A p \in Producer : mtx = p <=> pc[p] \in {"full", "enqueue", "count"}

\* A task that was accepted is in the queue or in the hands of a worker.
Placed ==
  \A t \in Task : fate[t] = "accepted" =>
    \/ \E i \in 1..Len(queue) : queue[i] = t
    \/ \E w \in WorkerId : arg[w] = t

\* The owner is at l, or will be when on_task_dequeued returns.
OwnerAt(l) == pc[Owner] = l \/ (pc[Owner] \in {"sub", "zero"} /\ ret = l)

\* How far stop() has come.
StopOK ==
  /\ flags => isStopped
  /\ pc[Owner] = "flag" => isStopped
  /\ OwnerAt("clear") => flags
  /\ pc[Owner] = "notify" => isDone \/ flags
  /\ threads \in {WorkerId, {}}

\* After notify_all in stop() no producer is inside push() with mtx or waits for
\* room, no worker waits for a task, and that remains so.
Quiet ==
  /\ isDone \/ flags
  /\ mtx = NoThread
  /\ \A t \in Thread : pc[t] \notin {"full", "enqueue", "count", "notFull", "cv"}
QuietOK == pc[Owner] = "join" \/ OwnerAt("sweep") \/ threads = {} => Quiet

\* Without stop(false) a worker leaves only when nothing is queued and nothing
\* will be.
ExitOK ==
  \A w \in WorkerId : pc[w] = "exit" /\ ~isStopped =>
    isDone /\ mtx = NoThread /\ queue = <<>>

\* stop() has joined the workers, and when it has returned the queue is empty.
JoinOK ==
  /\ OwnerAt("sweep") \/ threads = {} => \A w \in WorkerId : pc[w] = "exit"
  /\ threads = {} => queue = <<>>

IInv == TypeOK /\ PcOK /\ ArgOK /\ MtxOK /\ Placed /\ StopOK /\ QuietOK /\ ExitOK /\ JoinOK

-----------------------------------------------------------------------------
(* What a step does to the program counters.                               *)

\* But for t, a step at most wakes threads.
Wakes(t) ==
  \A u \in Thread \ {t} :
    \/ pc'[u] = pc[u]
    \/ pc[u] = "cv" /\ pc'[u] = "wait"
    \/ pc[u] = "notFull" /\ pc'[u] = "push"

Label == {"idle", "push", "tryPush", "full", "notFull", "enqueue", "count", "pop", "sub",
          "zero", "work", "wait", "cv", "exit", "clearAll", "flag", "clear", "notify",
          "join", "sweep"}

LEMMA GotoFacts ==
  ASSUME TypeOK, NEW t \in Thread, NEW l \in Label, Goto(t, l)
  PROVE  pc' \in [Thread -> Label] /\ pc'[t] = l /\ Wakes(t)
BY DEF TypeOK, Goto, Wakes, Label

LEMMA NotifyOneFacts ==
  ASSUME TypeOK, NEW t \in Thread, NEW l \in Label,
         pc[t] \notin {"cv", "notFull"},
         NotifyOne(t, l, "cv", "wait") \/ NotifyOne(t, l, "notFull", "push")
  PROVE  pc' \in [Thread -> Label] /\ pc'[t] = l /\ Wakes(t)
BY DEF TypeOK, NotifyOne, Waiting, Goto, Wakes, Label

LEMMA Threads ==
  /\ Producer \subseteq Thread /\ WorkerId \subseteq Thread /\ Owner \in Thread
  /\ \A p \in Producer : p # Owner /\ p \notin WorkerId /\ p # NoThread
  /\ \A w \in WorkerId : w # Owner /\ w \notin Producer
  /\ WorkerId # {} /\ NoTask \notin Task
BY PoolAssumption DEF Thread, Owner

\* Unsigned arithmetic.
LEMMA ModType == \A n \in Nat : n % Modulus \in 0..(Modulus - 1)
BY PoolAssumption

\* What a successful try_pop leaves in the queue.
LEMMA TakeFacts ==
  ASSUME TypeOK, queue # <<>>
  PROVE  /\ Tail(queue) \in Seq(Task) /\ Head(queue) \in Task
         /\ \A i \in 1..Len(queue) :
              queue[i] = Head(queue) \/ \E j \in 1..Len(Tail(queue)) : Tail(queue)[j] = queue[i]
<1>1. queue \in Seq(Task) /\ Len(queue) \in Nat /\ Len(Tail(queue)) = Len(queue) - 1
  BY DEF TypeOK
<1>2. \A i \in 2..Len(queue) : i - 1 \in 1..Len(Tail(queue)) /\ Tail(queue)[i - 1] = queue[i]
  BY <1>1
<1> QED
  BY <1>1, <1>2, HeadTailProperties

LEMMA AppendFacts ==
  ASSUME TypeOK, NEW t \in Task
  PROVE  /\ Append(queue, t) \in Seq(Task)
         /\ \E i \in 1..Len(Append(queue, t)) : Append(queue, t)[i] = t
         /\ \A i \in 1..Len(queue) :
              i \in 1..Len(Append(queue, t)) /\ Append(queue, t)[i] = queue[i]
<1>1. queue \in Seq(Task) /\ Len(queue) \in Nat
  BY DEF TypeOK
<1>2. Append(queue, t) \in Seq(Task) /\ Len(Append(queue, t)) = Len(queue) + 1
  BY <1>1
<1>3. Append(queue, t)[Len(queue) + 1] = t
  BY <1>1
<1>4. \A i \in 1..Len(queue) : Append(queue, t)[i] = queue[i]
  BY <1>1
<1> QED
  BY <1>1, <1>2, <1>3, <1>4

\* An accepted task stays placed if the tasks that leave the queue or a worker's
\* hands are taken over by a worker or are no longer accepted.
LEMMA PlacedTake ==
  ASSUME TypeOK, Placed, queue # <<>>, queue' = Tail(queue),
         \/ \E w \in WorkerId : arg[w] = NoTask /\ arg' = [arg EXCEPT ![w] = Head(queue)] /\ UNCHANGED fate
         \/ UNCHANGED arg /\ fate' = [fate EXCEPT ![Head(queue)] = "dropped"]
  PROVE  Placed'
<1> USE Threads
<1> SUFFICES ASSUME NEW t \in Task, fate'[t] = "accepted"
             PROVE  \/ \E i \in 1..Len(queue') : queue'[i] = t
                    \/ \E w \in WorkerId : arg'[w] = t
  BY DEF Placed
<1>1. fate[t] = "accepted" /\ (t = Head(queue) => \E w \in WorkerId : arg'[w] = t)
  BY TakeFacts DEF TypeOK
<1>2. CASE \E i \in 1..Len(queue) : queue[i] = t
  BY <1>1, <1>2, TakeFacts
<1>3. CASE \E w \in WorkerId : arg[w] = t
  BY <1>3, TakeFacts DEF TypeOK
<1> QED
  BY <1>1, <1>2, <1>3 DEF Placed

LEMMA CallStep ==
  ASSUME IInv, NEW p \in Producer, Call(p)
  PROVE  IInv'
<1> USE Threads
<1>1. TypeOK'
  BY DEF IInv, TypeOK, Call, Goto, poolVars
<1>2. PcOK' /\ ArgOK' /\ MtxOK'
  BY DEF IInv, TypeOK, PcOK, ArgOK, MtxOK, Call, Goto, poolVars
<1>3. Placed'
  BY DEF IInv, TypeOK, Placed, ArgOK, Call, Goto, poolVars
<1>4. StopOK' /\ QuietOK'
  BY DEF IInv, TypeOK, PcOK, MtxOK, StopOK, QuietOK, Quiet, OwnerAt, Call, Goto, poolVars
<1>5. ExitOK' /\ JoinOK'
  BY DEF IInv, TypeOK, PcOK, MtxOK, ExitOK, JoinOK, QuietOK, Quiet, StopOK, OwnerAt, Call, Goto, poolVars
<1> QED
  BY <1>1, <1>2, <1>3, <1>4, <1>5, Zenon DEF IInv

LEMMA CheckStep ==
  ASSUME IInv, NEW p \in Producer, Check(p)
  PROVE  IInv'
<1> USE Threads
<1>1. TypeOK'
  BY DEF IInv, TypeOK, Check, Refuse, Goto, Stopping, poolVars
<1>2. PcOK' /\ ArgOK' /\ MtxOK'
  BY DEF IInv, TypeOK, PcOK, ArgOK, MtxOK, Check, Refuse, Goto, Stopping, poolVars
<1>3. Placed'
  BY DEF IInv, TypeOK, Placed, ArgOK, Check, Refuse, Goto, Stopping, poolVars
<1>4. StopOK' /\ QuietOK'
  BY DEF IInv, TypeOK, PcOK, MtxOK, StopOK, QuietOK, Quiet, OwnerAt, Check, Refuse, Goto, Stopping, poolVars
<1>5. ExitOK' /\ JoinOK'
  BY DEF IInv, TypeOK, PcOK, MtxOK, ExitOK, JoinOK, QuietOK, Quiet, StopOK, OwnerAt, Check, Refuse, Goto, Stopping, poolVars
<1> QED
  BY <1>1, <1>2, <1>3, <1>4, <1>5, Zenon DEF IInv

LEMMA BlockStep ==
  ASSUME IInv, NEW p \in Producer, Block(p)
  PROVE  IInv'
<1> USE Threads
<1>1. TypeOK'
  BY DEF IInv, TypeOK, Block, Goto, poolVars
<1>2. PcOK' /\ ArgOK' /\ MtxOK'
  BY DEF IInv, TypeOK, PcOK, ArgOK, MtxOK, Block, Goto, poolVars
<1>3. Placed'
  BY DEF IInv, TypeOK, Placed, ArgOK, Block, Goto, poolVars
<1>4. StopOK' /\ QuietOK'
  BY DEF IInv, TypeOK, PcOK, MtxOK, StopOK, QuietOK, Quiet, OwnerAt, Block, Goto, poolVars
<1>5. ExitOK' /\ JoinOK'
  BY DEF IInv, TypeOK, PcOK, MtxOK, ExitOK, JoinOK, QuietOK, Quiet, StopOK, OwnerAt, Block, Goto, poolVars
<1> QED
  BY <1>1, <1>2, <1>3, <1>4, <1>5, Zenon DEF IInv

LEMMA EnqueueStep ==
  ASSUME IInv, NEW p \in Producer, Enqueue(p)
  PROVE  IInv'
<1> USE Threads
<1>1. TypeOK'
  <2>1. arg[p] \in Task
    BY DEF IInv, ArgOK, Enqueue
  <2>2. queue' \in Seq(Task)
    BY <2>1, AppendFacts DEF IInv, Enqueue
  <2>3. arg' \in [Thread -> Task \cup {NoTask}] /\ pc' \in [Thread -> Label]
    BY GotoFacts DEF IInv, TypeOK, Enqueue, Label
  <2>4. fate' \in [Task -> {"new", "refused", "accepted", "run", "dropped"}]
    BY <2>1 DEF IInv, TypeOK, Enqueue
  <2> QED
    BY <2>2, <2>3, <2>4 DEF IInv, TypeOK, Enqueue, poolVars, Label
<1>2. PcOK' /\ ArgOK' /\ MtxOK'
  BY DEF IInv, TypeOK, PcOK, ArgOK, MtxOK, Enqueue, Goto, poolVars
<1>3. Placed'
  BY AppendFacts DEF IInv, TypeOK, Placed, ArgOK, Enqueue, Goto, poolVars
<1>4. StopOK' /\ QuietOK'
  BY DEF IInv, TypeOK, PcOK, MtxOK, StopOK, QuietOK, Quiet, OwnerAt, Enqueue, Goto, poolVars
<1>5. ExitOK' /\ JoinOK'
  BY DEF IInv, TypeOK, PcOK, MtxOK, ExitOK, JoinOK, QuietOK, Quiet, StopOK, OwnerAt, Enqueue, Goto, poolVars
<1> QED
  BY <1>1, <1>2, <1>3, <1>4, <1>5, Zenon DEF IInv

LEMMA CountStep ==
  ASSUME IInv, NEW p \in Producer, Count(p)
  PROVE  IInv'
<1> USE Threads
<1>0. pc' \in [Thread -> Label] /\ Wakes(p) /\ pc'[p] = "idle"
  BY NotifyOneFacts, GotoFacts DEF IInv, TypeOK, Count, Label, AfterDequeue
<1>1. TypeOK'
  <2>1. count' \in 0..(Modulus - 1)
    BY ModType, PoolAssumption DEF IInv, TypeOK, Count
  <2> QED
    BY <1>0, <2>1, Zenon DEF IInv, TypeOK, Count, poolVars, Label
<1>2. PcOK' /\ ArgOK' /\ MtxOK'
  <2>1. PcOK'
    BY <1>0 DEF IInv, TypeOK, PcOK, Count, Wakes
  <2>2. ArgOK'
    BY <1>0 DEF IInv, TypeOK, PcOK, ArgOK, Count, Wakes
  <2>3. MtxOK'
    BY <1>0 DEF IInv, TypeOK, PcOK, MtxOK, Count, Wakes
  <2> QED
    BY <2>1, <2>2, <2>3
<1>3. Placed'
  BY <1>0 DEF IInv, TypeOK, Placed, ArgOK, Count, Wakes, poolVars
<1>4. StopOK' /\ QuietOK'
  BY <1>0 DEF IInv, TypeOK, PcOK, MtxOK, StopOK, QuietOK, Quiet, OwnerAt, Count, Wakes, poolVars
<1>5. ExitOK' /\ JoinOK'
  BY <1>0 DEF IInv, TypeOK, PcOK, MtxOK, ExitOK, JoinOK, QuietOK, Quiet, StopOK, OwnerAt, Count, Wakes, poolVars
<1> QED
  BY <1>1, <1>2, <1>3, <1>4, <1>5, Zenon DEF IInv

LEMMA SubStep ==
  ASSUME IInv, NEW t \in WorkerId \cup {Owner}, Sub(t)
  PROVE  IInv'
<1> USE Threads
<1>0. pc' \in [Thread -> Label] /\ Wakes(t) /\ pc'[t] \in {"zero", AfterDequeue(t)}
  BY NotifyOneFacts, GotoFacts DEF IInv, TypeOK, Sub, Label, AfterDequeue
<1>1. TypeOK'
  <2>1. count' \in 0..(Modulus - 1)
    BY ModType, PoolAssumption DEF IInv, TypeOK, Sub
  <2> QED
    BY <1>0, <2>1, Zenon DEF IInv, TypeOK, Sub, poolVars, Label
<1>2. PcOK' /\ ArgOK' /\ MtxOK'
  BY <1>0 DEF IInv, TypeOK, PcOK, ArgOK, MtxOK, Sub, AfterDequeue, Wakes, poolVars
<1>3. Placed'
  BY <1>0 DEF IInv, TypeOK, Placed, ArgOK, Sub, AfterDequeue, Wakes, poolVars
<1>4. StopOK' /\ QuietOK'
  BY <1>0 DEF IInv, TypeOK, PcOK, MtxOK, StopOK, QuietOK, Quiet, OwnerAt, Sub, AfterDequeue, Wakes, poolVars
<1>5. ExitOK' /\ JoinOK'
  BY <1>0 DEF IInv, TypeOK, PcOK, MtxOK, ExitOK, JoinOK, QuietOK, Quiet, StopOK, OwnerAt, Sub, AfterDequeue, Wakes, poolVars
<1> QED
  BY <1>1, <1>2, <1>3, <1>4, <1>5, Zenon DEF IInv

LEMMA ZeroStep ==
  ASSUME IInv, NEW t \in WorkerId \cup {Owner}, Zero(t)
  PROVE  IInv'
<1> USE Threads
<1>0. pc' \in [Thread -> Label] /\ Wakes(t) /\ pc'[t] = AfterDequeue(t)
  BY NotifyOneFacts, GotoFacts DEF IInv, TypeOK, Zero, Label, AfterDequeue
<1>1. TypeOK'
  <2>1. count' \in 0..(Modulus - 1)
    BY PoolAssumption DEF Zero
  <2> QED
    BY <1>0, <2>1, Zenon DEF IInv, TypeOK, Zero, poolVars, Label
<1>2. PcOK' /\ ArgOK' /\ MtxOK'
  BY <1>0 DEF IInv, TypeOK, PcOK, ArgOK, MtxOK, Zero, AfterDequeue, Wakes, poolVars
<1>3. Placed'
  BY <1>0 DEF IInv, TypeOK, Placed, ArgOK, Zero, AfterDequeue, Wakes, poolVars
<1>4. StopOK' /\ QuietOK'
  BY <1>0 DEF IInv, TypeOK, PcOK, MtxOK, StopOK, QuietOK, Quiet, OwnerAt, Zero, AfterDequeue, Wakes, poolVars
<1>5. ExitOK' /\ JoinOK'
  BY <1>0 DEF IInv, TypeOK, PcOK, MtxOK, ExitOK, JoinOK, QuietOK, Quiet, StopOK, OwnerAt, Zero, AfterDequeue, Wakes, poolVars
<1> QED
  BY <1>1, <1>2, <1>3, <1>4, <1>5, Zenon DEF IInv

LEMMA PopStep ==
  ASSUME IInv, NEW w \in WorkerId, Pop(w)
  PROVE  IInv'
<1> USE Threads
<1>1. TypeOK'
  <2>1. queue' \in Seq(Task) /\ arg' \in [Thread -> Task \cup {NoTask}]
    BY TakeFacts, ZenonT(30) DEF IInv, TypeOK, Pop, Take
  <2>2. pc' \in [Thread -> Label]
    BY GotoFacts DEF IInv, TypeOK, Pop, Take, Label
  <2> QED
    BY <2>1, <2>2, Zenon DEF IInv, TypeOK, Pop, poolVars, Label
<1>2. PcOK' /\ ArgOK' /\ MtxOK'
  BY DEF IInv, TypeOK, PcOK, ArgOK, MtxOK, Pop, Take, Goto, poolVars
<1>3. Placed'
  <2>1. arg[w] = NoTask
    BY DEF IInv, TypeOK, ArgOK, Pop
  <2>2. CASE UNCHANGED <<queue, arg>>
    BY <2>2 DEF IInv, Placed, Pop
  <2>3. CASE Take(w) /\ arg' = [arg EXCEPT ![w] = Head(queue)]
    BY <2>1, <2>3, PlacedTake, Zenon DEF IInv, Take, Pop
  <2> QED
    BY <2>2, <2>3 DEF Pop
<1>4. StopOK' /\ QuietOK'
  BY DEF IInv, TypeOK, PcOK, MtxOK, StopOK, QuietOK, Quiet, OwnerAt, Pop, Take, Goto, poolVars
<1>5. ExitOK' /\ JoinOK'
  BY DEF IInv, TypeOK, PcOK, MtxOK, ExitOK, JoinOK, QuietOK, Quiet, StopOK, OwnerAt, Pop, Take, Goto, poolVars
<1> QED
  BY <1>1, <1>2, <1>3, <1>4, <1>5, Zenon DEF IInv

LEMMA WaitStep ==
  ASSUME IInv, NEW w \in WorkerId, Wait(w)
  PROVE  IInv'
<1> USE Threads
<1>1. TypeOK'
  <2>1. queue' \in Seq(Task) /\ arg' \in [Thread -> Task \cup {NoTask}]
    BY TakeFacts, ZenonT(30) DEF IInv, TypeOK, Wait, Take
  <2>2. pc' \in [Thread -> Label]
    BY GotoFacts DEF IInv, TypeOK, Wait, Take, Label
  <2> QED
    BY <2>1, <2>2, Zenon DEF IInv, TypeOK, Wait, poolVars, Label
<1>2. PcOK' /\ ArgOK' /\ MtxOK'
  <2>1. PcOK'
    BY DEF IInv, TypeOK, PcOK, Wait, Take, Goto
  <2>2. ArgOK'
    BY TakeFacts DEF IInv, TypeOK, PcOK, ArgOK, Wait, Take, Goto
  <2>3. MtxOK'
    BY DEF IInv, TypeOK, PcOK, MtxOK, Wait, Take, Goto
  <2> QED
    BY <2>1, <2>2, <2>3
<1>3. Placed'
  <2>1. arg[w] = NoTask
    BY DEF IInv, TypeOK, ArgOK, Wait
  <2>2. CASE UNCHANGED <<queue, arg>>
    BY <2>2 DEF IInv, Placed, Wait
  <2>3. CASE Take(w) /\ arg' = [arg EXCEPT ![w] = Head(queue)]
    BY <2>1, <2>3, PlacedTake, Zenon DEF IInv, Take, Wait
  <2> QED
    BY <2>2, <2>3 DEF Wait
<1>4. StopOK' /\ QuietOK'
  BY DEF IInv, TypeOK, PcOK, MtxOK, StopOK, QuietOK, Quiet, OwnerAt, Wait, Take, Goto, poolVars
<1>5. ExitOK' /\ JoinOK'
  BY DEF IInv, TypeOK, PcOK, MtxOK, ExitOK, JoinOK, QuietOK, Quiet, StopOK, OwnerAt, Wait, Take, Goto, poolVars
<1> QED
  BY <1>1, <1>2, <1>3, <1>4, <1>5, Zenon DEF IInv

LEMMA WorkStep ==
  ASSUME IInv, NEW w \in WorkerId, Work(w)
  PROVE  IInv'
<1> USE Threads
<1>1. TypeOK'
  <2>1. arg' \in [Thread -> Task \cup {NoTask}]
    BY DEF IInv, TypeOK, Work
  <2>2. fate' \in [Task -> {"new", "refused", "accepted", "run", "dropped"}]
    BY Zenon DEF IInv, TypeOK, Work
  <2>3. pc' \in [Thread -> Label]
    BY GotoFacts DEF IInv, TypeOK, Work, Label
  <2> QED
    BY <2>1, <2>2, <2>3, Zenon DEF IInv, TypeOK, Work, poolVars, Label
<1>2. PcOK' /\ ArgOK' /\ MtxOK'
  BY DEF IInv, TypeOK, PcOK, ArgOK, MtxOK, Work, Goto, poolVars
<1>3. Placed'
  BY DEF IInv, TypeOK, Placed, ArgOK, Work, Goto, poolVars
<1>4. StopOK' /\ QuietOK'
  BY DEF IInv, TypeOK, PcOK, MtxOK, StopOK, QuietOK, Quiet, OwnerAt, Work, Goto, poolVars
<1>5. ExitOK' /\ JoinOK'
  BY DEF IInv, TypeOK, PcOK, MtxOK, ExitOK, JoinOK, QuietOK, Quiet, StopOK, OwnerAt, Work, Goto, poolVars
<1> QED
  BY <1>1, <1>2, <1>3, <1>4, <1>5, Zenon DEF IInv

LEMMA SpuriousStep ==
  ASSUME IInv, NEW t \in Thread, Spurious(t)
  PROVE  IInv'
<1> USE Threads
<1>1. TypeOK'
  BY DEF IInv, TypeOK, Spurious, Goto, poolVars
<1>2. PcOK' /\ ArgOK' /\ MtxOK'
  BY DEF IInv, TypeOK, PcOK, ArgOK, MtxOK, Spurious, Goto, poolVars
<1>3. Placed'
  BY DEF IInv, TypeOK, Placed, ArgOK, Spurious, Goto, poolVars
<1>4. StopOK' /\ QuietOK'
  BY DEF IInv, TypeOK, PcOK, MtxOK, StopOK, QuietOK, Quiet, OwnerAt, Spurious, Goto, poolVars
<1>5. ExitOK' /\ JoinOK'
  BY DEF IInv, TypeOK, PcOK, MtxOK, ExitOK, JoinOK, QuietOK, Quiet, StopOK, OwnerAt, Spurious, Goto, poolVars
<1> QED
  BY <1>1, <1>2, <1>3, <1>4, <1>5, Zenon DEF IInv

LEMMA OwnerCallStep ==
  ASSUME IInv, NEW call \in OwnerCalls, OwnerCall(call)
  PROVE  IInv'
<1> USE Threads
<1>1. TypeOK'
  <2>1. queue' \in Seq(Task)
    BY TakeFacts, ZenonT(30) DEF IInv, TypeOK, OwnerCall, Take
  <2>2. fate' \in [Task -> {"new", "refused", "accepted", "run", "dropped"}]
    BY DEF IInv, TypeOK, OwnerCall
  <2>3. pc' \in [Thread -> Label]
    BY GotoFacts DEF IInv, TypeOK, OwnerCall, Take, Label
  <2>4. ret' \in {"idle", "clearAll", "clear", "sweep"}
    BY DEF IInv, TypeOK, OwnerCall
  <2> QED
    BY <2>1, <2>2, <2>3, <2>4, Zenon DEF IInv, TypeOK, OwnerCall, poolVars, Label
<1>2. PcOK' /\ ArgOK' /\ MtxOK'
  BY DEF IInv, TypeOK, PcOK, ArgOK, MtxOK, OwnerCall, Take, Goto, Stopping, poolVars
<1>3. Placed'
  BY PlacedTake DEF IInv, TypeOK, Placed, ArgOK, OwnerCall, Take, Goto, Stopping, poolVars
<1>4. StopOK' /\ QuietOK'
  BY DEF IInv, TypeOK, PcOK, MtxOK, StopOK, QuietOK, Quiet, OwnerAt, OwnerCall, Take, Goto, Stopping, poolVars
<1>5. ExitOK' /\ JoinOK'
  BY DEF IInv, TypeOK, PcOK, MtxOK, ExitOK, JoinOK, QuietOK, Quiet, StopOK, OwnerAt, OwnerCall, Take, Goto, Stopping, poolVars
<1> QED
  BY <1>1, <1>2, <1>3, <1>4, <1>5, Zenon DEF IInv

LEMMA StopFlagsStep ==
  ASSUME IInv, StopFlags
  PROVE  IInv'
<1> USE Threads
<1>1. TypeOK'
  BY DEF IInv, TypeOK, StopFlags, Goto, poolVars
<1>2. PcOK' /\ ArgOK' /\ MtxOK'
  BY DEF IInv, TypeOK, PcOK, ArgOK, MtxOK, StopFlags, Goto, poolVars
<1>3. Placed'
  BY DEF IInv, TypeOK, Placed, ArgOK, StopFlags, Goto, poolVars
<1>4. StopOK' /\ QuietOK'
  BY DEF IInv, TypeOK, PcOK, MtxOK, StopOK, QuietOK, Quiet, OwnerAt, StopFlags, Goto, poolVars
<1>5. ExitOK' /\ JoinOK'
  BY DEF IInv, TypeOK, PcOK, MtxOK, ExitOK, JoinOK, QuietOK, Quiet, StopOK, OwnerAt, StopFlags, Goto, poolVars
<1> QED
  BY <1>1, <1>2, <1>3, <1>4, <1>5, Zenon DEF IInv

LEMMA ClearQueueStep ==
  ASSUME IInv, ClearQueue
  PROVE  IInv'
<1> USE Threads
<1>1. TypeOK'
  <2>1. queue' \in Seq(Task)
    BY TakeFacts, ZenonT(30) DEF IInv, TypeOK, ClearQueue, Take
  <2>2. fate' \in [Task -> {"new", "refused", "accepted", "run", "dropped"}]
    BY DEF IInv, TypeOK, ClearQueue
  <2>3. pc' \in [Thread -> Label]
    BY GotoFacts DEF IInv, TypeOK, ClearQueue, Take, Label
  <2>4. ret' \in {"idle", "clearAll", "clear", "sweep"}
    BY DEF IInv, TypeOK, ClearQueue
  <2> QED
    BY <2>1, <2>2, <2>3, <2>4 DEF IInv, TypeOK, ClearQueue, poolVars, Label
<1>2. PcOK' /\ ArgOK' /\ MtxOK'
  BY DEF IInv, TypeOK, PcOK, ArgOK, MtxOK, ClearQueue, Take, Goto, poolVars
<1>3. Placed'
  BY PlacedTake DEF IInv, TypeOK, Placed, ArgOK, ClearQueue, Take, Goto, poolVars
<1>4. StopOK' /\ QuietOK'
  BY DEF IInv, TypeOK, PcOK, MtxOK, StopOK, QuietOK, Quiet, OwnerAt, ClearQueue, Take, Goto, poolVars
<1>5. ExitOK' /\ JoinOK'
  BY DEF IInv, TypeOK, PcOK, MtxOK, ExitOK, JoinOK, QuietOK, Quiet, StopOK, OwnerAt, ClearQueue, Take, Goto, poolVars
<1> QED
  BY <1>1, <1>2, <1>3, <1>4, <1>5, Zenon DEF IInv

LEMMA NotifyAllStep ==
  ASSUME IInv, NotifyAll
  PROVE  IInv'
<1> USE Threads
<1>1. TypeOK'
  BY DEF IInv, TypeOK, NotifyAll, Woken, poolVars
<1>2. PcOK' /\ ArgOK' /\ MtxOK'
  BY DEF IInv, TypeOK, PcOK, ArgOK, MtxOK, NotifyAll, Woken, poolVars
<1>3. Placed'
  BY DEF IInv, TypeOK, Placed, ArgOK, NotifyAll, Woken, poolVars
<1>4. StopOK' /\ QuietOK'
  <2>1. \A t \in Thread : pc'[t] \notin {"full", "enqueue", "count", "notFull", "cv"}
    BY DEF IInv, TypeOK, PcOK, MtxOK, NotifyAll, Woken, Thread
  <2>2. pc'[Owner] = "join"
    BY DEF NotifyAll
  <2> QED
    BY <2>1, <2>2 DEF IInv, StopOK, QuietOK, Quiet, OwnerAt, NotifyAll, poolVars
<1>5. ExitOK' /\ JoinOK'
  BY DEF IInv, TypeOK, PcOK, MtxOK, ExitOK, JoinOK, QuietOK, Quiet, StopOK, OwnerAt, NotifyAll, Woken, poolVars
<1> QED
  BY <1>1, <1>2, <1>3, <1>4, <1>5, Zenon DEF IInv

LEMMA JoinStep ==
  ASSUME IInv, Join
  PROVE  IInv'
<1> USE Threads
<1>1. TypeOK'
  BY DEF IInv, TypeOK, Join, Goto, poolVars
<1>2. PcOK' /\ ArgOK' /\ MtxOK'
  BY DEF IInv, TypeOK, PcOK, ArgOK, MtxOK, Join, Goto, poolVars
<1>3. Placed'
  BY DEF IInv, TypeOK, Placed, ArgOK, Join, Goto, poolVars
<1>4. StopOK' /\ QuietOK'
  BY DEF IInv, TypeOK, PcOK, MtxOK, StopOK, QuietOK, Quiet, OwnerAt, Join, Goto, poolVars
<1>5. ExitOK' /\ JoinOK'
  BY DEF IInv, TypeOK, PcOK, MtxOK, ExitOK, JoinOK, QuietOK, Quiet, StopOK, OwnerAt, Join, Goto, poolVars
<1> QED
  BY <1>1, <1>2, <1>3, <1>4, <1>5, Zenon DEF IInv

-----------------------------------------------------------------------------
(* The theorems.                                                           *)

LEMMA InitInv == Init => IInv
<1> SUFFICES ASSUME Init PROVE IInv
  OBVIOUS
<1> USE Threads
<1>1. TypeOK
  <2>1. queue \in Seq(Task) /\ count \in 0..(Modulus - 1)
    BY PoolAssumption DEF Init
  <2>2. arg \in [Thread -> Task \cup {NoTask}]
    BY DEF Init
  <2>3. pc \in [Thread -> Label]
    BY DEF Init, Label
  <2>4. fate \in [Task -> {"new", "refused", "accepted", "run", "dropped"}]
    BY DEF Init
  <2> QED
    BY <2>1, <2>2, <2>3, <2>4, Zenon DEF Init, TypeOK, Label
<1>2. PcOK /\ ArgOK /\ MtxOK
  BY DEF Init, PcOK, ArgOK, MtxOK
<1>3. Placed /\ StopOK
  BY DEF Init, Placed, StopOK, OwnerAt
<1>4. QuietOK /\ ExitOK /\ JoinOK
  BY DEF Init, QuietOK, ExitOK, JoinOK, OwnerAt
<1> QED
  BY <1>1, <1>2, <1>3, <1>4, Zenon DEF IInv

LEMMA StepInv == IInv /\ [Next]_vars => IInv'
<1> SUFFICES ASSUME IInv, [Next]_vars PROVE IInv'
  OBVIOUS
<1>1. ASSUME NEW p \in Producer, Call(p) \/ Push(p) PROVE IInv'
  BY <1>1, CallStep, CheckStep, BlockStep, EnqueueStep, CountStep, Zenon DEF Push
<1>2. ASSUME NEW w \in WorkerId, WorkerStep(w) PROVE IInv'
  BY <1>2, PopStep, WaitStep, WorkStep, SubStep, ZeroStep, Zenon DEF WorkerStep, Dequeued
<1>3. ASSUME NEW t \in Thread, Spurious(t) PROVE IInv'
  BY <1>3, SpuriousStep, Zenon
<1>4. ASSUME NEW call \in OwnerCalls, OwnerCall(call) PROVE IInv'
  BY <1>4, OwnerCallStep, Zenon
<1>5. CASE OwnerStep
  BY <1>5, StopFlagsStep, ClearQueueStep, NotifyAllStep, JoinStep, SubStep, ZeroStep, Zenon
     DEF OwnerStep, Dequeued
<1>6. CASE UNCHANGED vars
  <2>1. TypeOK' /\ PcOK' /\ ArgOK' /\ MtxOK'
    BY <1>6 DEF vars, poolVars, IInv, TypeOK, PcOK, ArgOK, MtxOK
  <2>2. Placed' /\ StopOK' /\ ExitOK'
    BY <1>6 DEF vars, poolVars, IInv, Placed, StopOK, ExitOK, OwnerAt
  <2>3. QuietOK' /\ JoinOK'
    BY <1>6 DEF vars, poolVars, IInv, QuietOK, Quiet, JoinOK, OwnerAt
  <2> QED
    BY <2>1, <2>2, <2>3, Zenon DEF IInv
<1> QED
  BY <1>1, <1>2, <1>3, <1>4, <1>5, <1>6, Zenon DEF Next

LEMMA Invariant == Spec => []IInv
BY InitInv, StepInv, PTL DEF Spec

\* Every variable of the pool keeps its type, the wrapping counter included.
THEOREM PoolTypeCorrect == Spec => []TypeOK
<1>1. IInv => TypeOK
  BY Zenon DEF IInv
<1> QED
  BY <1>1, Invariant, PTL

\* A task that push() or try_push() accepted is never lost: until it is run or
\* destroyed it is in the queue or in the hands of a worker.
THEOREM AcceptedTaskKept == Spec => []Placed
<1>1. IInv => Placed
  BY Zenon DEF IInv
<1> QED
  BY <1>1, Invariant, PTL

\* stop(true) has run every accepted task when the workers are joined: a worker
\* leaves when nothing is queued, with mtx free and the pool closed to producers.
THEOREM GracefulStopRunsAll == Spec => []StopRunsAll
<1>1. IInv => StopRunsAll
  <2> SUFFICES ASSUME IInv, pc[Owner] = "sweep", ~isStopped
               PROVE  queue = <<>> /\ \A t \in Task : fate[t] # "accepted"
    BY DEF StopRunsAll
  <2>1. \A w \in WorkerId : pc[w] = "exit" /\ arg[w] \notin Task
    BY DEF IInv, JoinOK, OwnerAt, ArgOK
  <2>2. queue = <<>>
    BY <2>1, Threads DEF IInv, ExitOK
  <2> QED
    BY <2>1, <2>2 DEF IInv, Placed
<1> QED
  BY <1>1, Invariant, PTL

\* After stop() of either kind the pool is at rest: the queue is empty, every
\* accepted task has its fate, mtx is free and nobody waits.
THEOREM StoppedPoolAtRest == Spec => []AtRest
<1>1. IInv => AtRest
  <2> SUFFICES ASSUME IInv, threads = {}
               PROVE  /\ queue = <<>> /\ \A t \in Task : fate[t] # "accepted"
                      /\ mtx = NoThread
                      /\ \A t \in Thread : pc[t] \notin {"cv", "notFull"}
    BY DEF AtRest
  <2>1. \A w \in WorkerId : arg[w] \notin Task
    BY DEF IInv, JoinOK, ArgOK
  <2>2. queue = <<>>
    BY DEF IInv, JoinOK
  <2>3. Quiet
    BY DEF IInv, QuietOK
  <2> QED
    BY <2>1, <2>2, <2>3 DEF IInv, Placed, Quiet
<1> QED
  BY <1>1, Invariant, PTL
===============================================================================

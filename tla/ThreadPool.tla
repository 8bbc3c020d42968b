----------------------------- MODULE ThreadPool -----------------------------
(***************************************************************************)
(* thread_pool (thread_pool.h): a fixed set of workers, a bounded queue    *)
(* with blocking push() and refusing try_push(), and two ways to stop.     *)
(*                                                                         *)
(* The queue and its length counter are not updated together, and only     *)
(* some accesses hold mtx.  Steps are as fine as that: an access to the    *)
(* queue, to the counter or to a condition variable is a step of its own   *)
(* wherever another thread can come between.  The queue itself is          *)
(* threadsafe_queue, whose push and try_pop are atomic (ThreadsafeQueue).  *)
(***************************************************************************)
EXTENDS Naturals, Sequences, FiniteSets

CONSTANTS
  Producer,      \* threads that call push() and try_push()
  WorkerId,      \* the pool's threads
  Task,          \* tasks, each submitted at most once
  MaxQueue,      \* max_queue_size_
  Modulus,       \* 2^64: the counter is an unsigned integer
  OwnerCalls,    \* what the thread that owns the pool may call
  NoThread,
  NoTask

ASSUME PoolAssumption ==
  /\ MaxQueue \in Nat \ {0}
  /\ Modulus \in Nat /\ Modulus > MaxQueue
  /\ OwnerCalls \subseteq {"stop", "stopNow", "clear", "pop"}
  /\ WorkerId # {} /\ Producer \cap WorkerId = {}
  /\ {NoThread, "owner"} \cap (Producer \cup WorkerId) = {}
  /\ NoTask \notin Task

VARIABLES
  queue,       \* task_queue
  count,       \* queued_task_count
  isStopped,   \* is_stopped
  isDone,      \* is_done
  flags,       \* the stop_flags, stored one after the other
  mtx,         \* the producer that holds mtx between two of its steps
  pc,          \* where each producer, each worker and the owner is
  arg,         \* the task each of them works with
  ret,         \* where the owner goes on after on_task_dequeued
  threads,     \* threads: those stop() has not yet joined and cleared
  fate         \* history: what became of each task

vars == <<queue, count, isStopped, isDone, flags, mtx, pc, arg, ret, threads,
          fate>>
poolVars == <<isStopped, isDone, flags, ret, threads>>

Owner  == "owner"
Thread == Producer \cup WorkerId \cup {Owner}

\* Every variable has its type; the counter, an unsigned integer, stays below
\* Modulus although fetch_sub can take it below 0.
TypeOK ==
  /\ queue \in Seq(Task)
  /\ count \in 0..(Modulus - 1)
  /\ isStopped \in BOOLEAN
  /\ isDone \in BOOLEAN
  /\ flags \in BOOLEAN
  /\ mtx \in Producer \cup {NoThread}
  /\ pc \in [Thread -> {"idle", "push", "tryPush", "full", "notFull", "enqueue",
                        "count", "pop", "sub", "zero", "work", "wait", "cv",
                        "exit", "clearAll", "flag", "clear", "notify", "join", "sweep"}]
  /\ arg \in [Thread -> Task \cup {NoTask}]
  /\ ret \in {"idle", "clearAll", "clear", "sweep"}
  /\ threads \subseteq WorkerId
  /\ fate \in [Task -> {"new", "refused", "accepted", "run", "dropped"}]

Init ==
  /\ queue = <<>>
  /\ count = 0
  /\ isStopped = FALSE
  /\ isDone = FALSE
  /\ flags = FALSE
  /\ mtx = NoThread
  /\ pc = [t \in Thread |-> IF t \in WorkerId THEN "pop" ELSE "idle"]
  /\ arg = [t \in Thread |-> NoTask]
  /\ ret = "idle"
  /\ threads = WorkerId
  /\ fate = [t \in Task |-> "new"]

Goto(t, l)  == pc' = [pc EXCEPT ![t] = l]
Stopping    == isStopped \/ isDone
Waiting(cv) == {t \in Thread : pc[t] = cv}

\* notify_one by t, which goes on to l: a thread that waits for cv, if there is
\* one, wakes and will take mtx again at `to'.
NotifyOne(t, l, cv, to) ==
  \/ Waiting(cv) = {} /\ Goto(t, l)
  \/ \E w \in Waiting(cv) : pc' = [pc EXCEPT ![t] = l, ![w] = to]

-----------------------------------------------------------------------------
(* push() and try_push().                                                  *)

\* A call starts with a task nobody has submitted before.
Call(p) ==
  /\ pc[p] = "idle"
  /\ \E t \in Task, l \in {"push", "tryPush"} :
       /\ fate[t] = "new" /\ \A q \in Producer : arg[q] # t
       /\ arg' = [arg EXCEPT ![p] = t]
       /\ Goto(p, l)
  /\ UNCHANGED <<queue, count, poolVars, mtx, fate>>

\* The pool is stopped: push throws and try_push returns nullopt.
Refuse(p) ==
  /\ fate' = [fate EXCEPT ![arg[p]] = "refused"]
  /\ arg' = [arg EXCEPT ![p] = NoTask]
  /\ Goto(p, "idle")
  /\ UNCHANGED mtx

\* Mutant: only is_stopped is looked at.
CheckIgnoresDone(p) ==
  /\ pc[p] \in {"push", "tryPush"}
  /\ mtx = NoThread
  /\ \/ isStopped /\ Refuse(p)
     \/ /\ ~isStopped /\ count < MaxQueue
        /\ Goto(p, "enqueue")
        /\ mtx' = p
        /\ UNCHANGED <<arg, fate>>
  /\ UNCHANGED <<queue, count, poolVars>>

\* With mtx taken, the counter and the flags are read.  push() evaluates the
\* predicate of cv_not_full and, if it is false, is about to block; mtx is
\* held from here until it blocks, or until the task is queued and counted.
Check(p) ==
  /\ pc[p] \in {"push", "tryPush"}
  /\ mtx = NoThread
  /\ \/ /\ Stopping \/ (pc[p] = "tryPush" /\ count >= MaxQueue)
        /\ Refuse(p)
     \/ /\ ~Stopping /\ count < MaxQueue
        /\ Goto(p, "enqueue")
        /\ mtx' = p
        /\ UNCHANGED <<arg, fate>>
     \/ /\ ~Stopping /\ pc[p] = "push" /\ count >= MaxQueue
        /\ Goto(p, "full")
        /\ mtx' = p
        /\ UNCHANGED <<arg, fate>>
  /\ UNCHANGED <<queue, count, poolVars>>

\* cv_not_full.wait: mtx is released and p waits.
Block(p) ==
  /\ pc[p] = "full"
  /\ Goto(p, "notFull")
  /\ mtx' = NoThread
  /\ UNCHANGED <<queue, count, poolVars, arg, fate>>

\* task_queue.push, which makes the task visible to the takers ...
Enqueue(p) ==
  /\ pc[p] = "enqueue"
  /\ queue' = Append(queue, arg[p])
  /\ fate' = [fate EXCEPT ![arg[p]] = "accepted"]
  /\ arg' = [arg EXCEPT ![p] = NoTask]
  /\ Goto(p, "count")
  /\ UNCHANGED <<count, poolVars, mtx>>

\* ... then the counter; then cv.notify_one and the release of mtx.
Count(p) ==
  /\ pc[p] = "count"
  /\ count' = (count + 1) % Modulus
  /\ NotifyOne(p, "idle", "cv", "wait")
  /\ mtx' = NoThread
  /\ UNCHANGED <<queue, poolVars, arg, fate>>

-----------------------------------------------------------------------------
(* Taking a task out of the queue, and on_task_dequeued after it.          *)

\* task_queue.try_pop succeeds; the caller goes on to on_task_dequeued.
Take(t) ==
  /\ queue # <<>>
  /\ queue' = Tail(queue)
  /\ Goto(t, "sub")

\* A worker runs the task it has taken, the owner goes on with its loop.
AfterDequeue(t) == IF t \in WorkerId THEN "work" ELSE ret

\* fetch_sub, and cv_not_full.notify_one without mtx ...
Sub(t) ==
  /\ pc[t] = "sub"
  /\ count' = (count + Modulus - 1) % Modulus
  /\ IF count = 0 THEN Goto(t, "zero")
                  ELSE NotifyOne(t, AfterDequeue(t), "notFull", "push")
  /\ UNCHANGED <<queue, poolVars, mtx, arg, fate>>

\* ... unless the counter was 0 and has wrapped: then it is set to 0 first.
Zero(t) ==
  /\ pc[t] = "zero"
  /\ count' = 0
  /\ NotifyOne(t, AfterDequeue(t), "notFull", "push")
  /\ UNCHANGED <<queue, poolVars, mtx, arg, fate>>

-----------------------------------------------------------------------------
(* A worker.                                                               *)

\* try_pop without mtx, first or after a task.
Pop(w) ==
  /\ pc[w] = "pop"
  /\ \/ Take(w) /\ arg' = [arg EXCEPT ![w] = Head(queue)]
     \/ queue = <<>> /\ Goto(w, "wait") /\ UNCHANGED <<queue, arg>>
  /\ UNCHANGED <<count, poolVars, mtx, fate>>

\* Mutant: the predicate sees a task and does not take it, and the worker turns.
WaitDoesNotPop(w) ==
  /\ pc[w] = "wait"
  /\ mtx = NoThread
  /\ queue = <<>>
  /\ Goto(w, IF isDone \/ flags THEN "exit" ELSE "cv")
  /\ UNCHANGED <<queue, count, poolVars, mtx, arg, fate>>

\* cv.wait: the predicate, which pops, is evaluated with mtx taken.  All calls
\* of cv.notify hold mtx, so that the predicate and the blocking are one step.
Wait(w) ==
  /\ pc[w] = "wait"
  /\ mtx = NoThread
  /\ \/ Take(w) /\ arg' = [arg EXCEPT ![w] = Head(queue)]
     \/ /\ queue = <<>>
        /\ Goto(w, IF isDone \/ flags THEN "exit" ELSE "cv")
        /\ UNCHANGED <<queue, arg>>
  /\ UNCHANGED <<count, poolVars, mtx, fate>>

\* The task is run, and then the worker's stop flag read.
Work(w) ==
  /\ pc[w] = "work"
  /\ fate' = [fate EXCEPT ![arg[w]] = "run"]
  /\ arg' = [arg EXCEPT ![w] = NoTask]
  /\ Goto(w, IF flags THEN "exit" ELSE "pop")
  /\ UNCHANGED <<queue, count, poolVars, mtx>>

\* A condition variable may wake a thread for no reason.
Spurious(t) ==
  /\ pc[t] \in {"cv", "notFull"}
  /\ Goto(t, IF pc[t] = "cv" THEN "wait" ELSE "push")
  /\ UNCHANGED <<queue, count, poolVars, mtx, arg, fate>>

-----------------------------------------------------------------------------
(* The owner: stop(true), stop(false), clear_queue() and pop_task().  A    *)
(* call of stop that returns at once changes nothing.                      *)

OwnerCall(call) ==
  /\ pc[Owner] = "idle"
  /\ \/ /\ call = "stop" /\ ~Stopping
        /\ isDone' = TRUE
        /\ Goto(Owner, "notify")
        /\ UNCHANGED <<queue, isStopped, ret, fate>>
     \/ /\ call = "stopNow" /\ ~isStopped
        /\ isStopped' = TRUE
        /\ Goto(Owner, "flag")
        /\ UNCHANGED <<queue, isDone, ret, fate>>
     \/ /\ call = "clear"
        /\ Goto(Owner, "clearAll")
        /\ UNCHANGED <<queue, isStopped, isDone, ret, fate>>
     \/ /\ call = "pop"
        /\ Take(Owner)
        /\ fate' = [fate EXCEPT ![Head(queue)] = "dropped"]
        /\ ret' = "idle"
        /\ UNCHANGED <<isStopped, isDone>>
  /\ UNCHANGED <<count, flags, mtx, arg, threads>>

StopFlags ==
  /\ pc[Owner] = "flag"
  /\ flags' = TRUE
  /\ Goto(Owner, "clear")
  /\ UNCHANGED <<queue, count, isStopped, isDone, mtx, arg, ret, threads, fate>>

\* clear_queue(): called alone, by stop(false), and by stop after the join, at
\* whose end threads and stop_flags are cleared.
ClearQueue ==
  /\ pc[Owner] \in {"clearAll", "clear", "sweep"}
  /\ \/ /\ Take(Owner)
        /\ fate' = [fate EXCEPT ![Head(queue)] = "dropped"]
        /\ ret' = pc[Owner]
        /\ UNCHANGED threads
     \/ /\ queue = <<>>
        /\ Goto(Owner, IF pc[Owner] = "clear" THEN "notify" ELSE "idle")
        /\ threads' = IF pc[Owner] = "sweep" THEN {} ELSE threads
        /\ UNCHANGED <<queue, ret, fate>>
  /\ UNCHANGED <<count, isStopped, isDone, flags, mtx, arg>>

\* Where notify_all on both condition variables leaves a thread.
Woken(t) == IF pc[t] = "cv" THEN "wait"
            ELSE IF pc[t] = "notFull" THEN "push" ELSE pc[t]

\* Mutant: mtx is not taken.
NotifyAllUnlocked ==
  /\ pc[Owner] = "notify"
  /\ pc' = [t \in Thread |-> IF t = Owner THEN "join" ELSE Woken(t)]
  /\ UNCHANGED <<queue, count, poolVars, mtx, arg, fate>>

\* Mutant: the workers are not notified.
NotifyAllProducers ==
  /\ pc[Owner] = "notify"
  /\ mtx = NoThread
  /\ pc' = [t \in Thread |-> IF t = Owner THEN "join"
                             ELSE IF pc[t] = "notFull" THEN "push" ELSE pc[t]]
  /\ UNCHANGED <<queue, count, poolVars, mtx, arg, fate>>

\* With mtx taken, notify_all on both condition variables.
NotifyAll ==
  /\ pc[Owner] = "notify"
  /\ mtx = NoThread
  /\ pc' = [t \in Thread |-> IF t = Owner THEN "join" ELSE Woken(t)]
  /\ UNCHANGED <<queue, count, poolVars, mtx, arg, fate>>

Join ==
  /\ pc[Owner] = "join"
  /\ \A w \in threads : pc[w] = "exit"
  /\ Goto(Owner, "sweep")
  /\ UNCHANGED <<queue, count, poolVars, mtx, arg, fate>>

-----------------------------------------------------------------------------
Push(p)       == Check(p) \/ Block(p) \/ Enqueue(p) \/ Count(p)
Dequeued(t)   == Sub(t) \/ Zero(t)
WorkerStep(w) == Pop(w) \/ Wait(w) \/ Work(w) \/ Dequeued(w)
OwnerStep     == StopFlags \/ ClearQueue \/ NotifyAll \/ Join \/ Dequeued(Owner)

Next ==
  \/ \E p \in Producer : Call(p) \/ Push(p)
  \/ \E w \in WorkerId : WorkerStep(w)
  \/ \E t \in Thread : Spurious(t)
  \/ \E call \in OwnerCalls : OwnerCall(call)
  \/ OwnerStep

Spec == Init /\ [][Next]_vars

\* Every thread that can go on is scheduled, a thread that waits for mtx gets it
\* if it is free again and again, and every task returns.  Nobody has to make a
\* call, and no thread has to wake without being notified.
FairSpec ==
  /\ Spec
  /\ \A p \in Producer : WF_vars(Push(p)) /\ SF_vars(Check(p))
  /\ \A w \in WorkerId : WF_vars(WorkerStep(w)) /\ SF_vars(Wait(w))
  /\ WF_vars(OwnerStep) /\ SF_vars(NotifyAll)

-----------------------------------------------------------------------------
(* Correctness                                                             *)

\* stop(true) runs every task that push() or try_push() accepted: when the
\* workers are joined, none is left for clear_queue to destroy.
StopRunsAll ==
  pc[Owner] = "sweep" /\ ~isStopped =>
    queue = <<>> /\ \A t \in Task : fate[t] # "accepted"

\* After stop() the pool is at rest: no task will ever be queued again, none is
\* left without a fate, and nobody waits for a notification.
AtRest ==
  threads = {} =>
    /\ queue = <<>> /\ \A t \in Task : fate[t] # "accepted"
    /\ mtx = NoThread
    /\ \A t \in Thread : pc[t] \notin {"cv", "notFull"}

\* A task that was accepted is run or destroyed.
TaskSettled ==
  \A t \in Task : fate[t] = "accepted" ~> fate[t] \in {"run", "dropped"}

\* stop(), clear_queue() and pop_task() return.
OwnerReturns == pc[Owner] # "idle" ~> pc[Owner] = "idle"

-----------------------------------------------------------------------------
(* What the tests and the documentation say and the code does not keep.    *)

\* loop.md: the pool has a bounded queue.
QueueBounded == Len(queue) <= MaxQueue

\* try_push() fails because the pool is saturated: a pool whose workers all
\* wait for work, with an empty queue, takes a task.
IdlePoolAccepts ==
  /\ \A w \in WorkerId : pc[w] = "cv"
  /\ \A p \in Producer : pc[p] # "count"
  /\ queue = <<>> /\ pc[Owner] = "idle"
  => count < MaxQueue

\* thread_pool_test: a push() that blocks on a full queue goes on when a worker
\* has taken a task.
PushProceeds == \A p \in Producer : pc[p] = "notFull" ~> pc[p] # "notFull"
=============================================================================

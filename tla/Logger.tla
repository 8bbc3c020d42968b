------------------------------- MODULE Logger -------------------------------
(***************************************************************************)
(* The asynchronous log: threads that call write_log (logger/logger.h),    *)
(* the writer thread started by init and stopped by the destructor         *)
(* (logger/logger.cpp), and the bounded ring between them                  *)
(* (util/ring_buffer.h).                                                   *)
(*                                                                         *)
(* A push takes tail_mutex_, looks at head_, writes its slot and then      *)
(* publishes tail_; the writer, the only one to pop, looks at tail_, moves *)
(* the entry out of its slot and then publishes head_.  The two touch the  *)
(* ring at the same time.  write_log announces an entry without holding    *)
(* mtx; the destructor takes mtx to clear running.  An entry is a number,  *)
(* its text is left out.                                                   *)
(***************************************************************************)
EXTENDS Integers, Sequences

CONSTANTS
  Producer,    \* threads that log
  Capacity,    \* buffer_size of init
  MaxEntries   \* bound: entries written to the log

ASSUME SizesAssumption == Capacity \in Nat /\ MaxEntries \in Nat

VARIABLES
  data,      \* data_: Capacity + 1 slots, an entry or Empty
  head,      \* head_
  tail,      \* tail_
  lock,      \* tail_mutex_: the producer inside push, or Nobody
  pc,        \* where each producer is in write_log
  entry,     \* the entry each producer is pushing
  count,     \* entries made so far
  running,   \* running
  mtx,       \* mtx is held by the writer
  wpc,       \* where the writer is
  item,      \* the entry pop has taken
  dpc,       \* where the destructor is
  accepted,  \* history: entries published, in order
  written,   \* history: entries written out, in order
  refused    \* history: a push has found the ring full

ring == <<data, head, tail>>
producers == <<lock, pc, entry, count>>
writer == <<running, mtx, wpc, item, dpc>>
history == <<accepted, written, refused>>
vars == <<ring, producers, writer, history>>

Nobody == "nobody"
ASSUME NobodyAssumption == Nobody \notin Producer

Empty == 0
Size == Capacity + 1
Slot == 0..Capacity
Succ(i) == (i + 1) % Size

TypeOK ==
  /\ data \in [Slot -> Nat] /\ head \in Slot /\ tail \in Slot
  /\ lock \in Producer \cup {Nobody}
  /\ pc \in [Producer -> {"idle", "push", "store", "publish", "notify"}]
  /\ entry \in [Producer -> Nat] /\ count \in Nat
  /\ running \in BOOLEAN /\ mtx \in BOOLEAN
  /\ wpc \in {"none", "test", "lock", "check", "block", "asleep", "pop", "take", "advance", "write", "done"}
  /\ item \in Nat
  /\ dpc \in {"none", "notify", "join", "joined"}
  /\ accepted \in Seq(Nat) /\ written \in Seq(Nat) /\ refused \in Nat

Init ==
  /\ data = [i \in Slot |-> Empty] /\ head = 0 /\ tail = 0
  /\ lock = Nobody /\ pc = [p \in Producer |-> "idle"]
  /\ entry = [p \in Producer |-> Empty] /\ count = 0
  /\ running = FALSE /\ mtx = FALSE /\ wpc = "none" /\ item = Empty /\ dpc = "none"
  /\ accepted = <<>> /\ written = <<>> /\ refused = 0

\* logger::init makes the ring and starts the writer.
Start ==
  /\ wpc = "none"
  /\ running' = TRUE /\ wpc' = "test"
  /\ UNCHANGED <<ring, producers, mtx, item, dpc, history>>

-----------------------------------------------------------------------------
(***************************************************************************)
(* write_log and ring_buffer::push, by producer p.                         *)
(***************************************************************************)
Goto(p, l) == pc' = [pc EXCEPT ![p] = l]

\* Before init there is no ring and nothing is logged; nobody logs while the
\* static logger is destroyed, after main.
WriteLog(p) ==
  /\ pc[p] = "idle" /\ wpc # "none" /\ dpc = "none"
  /\ count < MaxEntries
  /\ count' = count + 1
  /\ entry' = [entry EXCEPT ![p] = count + 1]
  /\ Goto(p, "push")
  /\ UNCHANGED <<lock, ring, writer, history>>

\* Mutant: the ring is full with one slot more to spare.
FullEarly == Succ(Succ(tail)) = head

Full == Succ(tail) = head

PushRefused(p) ==
  /\ pc[p] = "push" /\ lock = Nobody /\ Full
  /\ refused' = refused + 1
  /\ Goto(p, "idle")
  /\ UNCHANGED <<lock, entry, count, ring, writer, accepted, written>>

\* Mutant: push does not take tail_mutex_.
PushClaimsUnlocked(p) ==
  /\ pc[p] = "push" /\ ~Full
  /\ Goto(p, "store")
  /\ UNCHANGED <<lock, entry, count, ring, writer, history>>

PushClaims(p) ==
  /\ pc[p] = "push" /\ lock = Nobody /\ ~Full
  /\ lock' = p
  /\ Goto(p, "store")
  /\ UNCHANGED <<entry, count, ring, writer, history>>

PushStores(p) ==
  /\ pc[p] = "store"
  /\ data' = [data EXCEPT ![tail] = entry[p]]
  /\ Goto(p, "publish")
  /\ UNCHANGED <<head, tail, lock, entry, count, writer, history>>

PushPublishes(p) ==
  /\ pc[p] = "publish"
  /\ tail' = Succ(tail) /\ lock' = Nobody
  /\ accepted' = Append(accepted, entry[p])
  /\ Goto(p, "notify")
  /\ UNCHANGED <<data, head, entry, count, writer, written, refused>>

\* Mutant: an entry is announced only when the ring was empty before it.
WakeIfFirst == wpc' = IF wpc = "asleep" /\ tail = Succ(head) THEN "lock" ELSE wpc

\* notify_one wakes the writer only when it sleeps at that moment.
Wake == wpc' = IF wpc = "asleep" THEN "lock" ELSE wpc

Notify(p) ==
  /\ pc[p] = "notify"
  /\ Wake
  /\ Goto(p, "idle")
  /\ UNCHANGED <<lock, entry, count, ring, running, mtx, item, dpc, history>>

-----------------------------------------------------------------------------
(***************************************************************************)
(* The writer thread.                                                      *)
(***************************************************************************)
RingEmpty == head = tail

WriterStep(from, to) == wpc = from /\ wpc' = to

\* Mutant: the loop ends with running.
LoopTestRunning ==
  /\ WriterStep("test", IF running THEN "lock" ELSE "done")
  /\ UNCHANGED <<ring, producers, running, mtx, item, dpc, history>>

\* while (running || !empty())
LoopTest ==
  /\ WriterStep("test", IF running \/ ~RingEmpty THEN "lock" ELSE "done")
  /\ UNCHANGED <<ring, producers, running, mtx, item, dpc, history>>

LockMtx ==
  /\ WriterStep("lock", "check")
  /\ ~mtx /\ mtx' = TRUE
  /\ UNCHANGED <<ring, producers, running, item, dpc, history>>

\* The predicate of cv.wait is evaluated, then the thread blocks: an entry may
\* be published and announced in between.
CheckPredicate ==
  /\ WriterStep("check", IF ~running \/ ~RingEmpty THEN "pop" ELSE "block")
  /\ UNCHANGED <<ring, producers, running, mtx, item, dpc, history>>

Block ==
  /\ WriterStep("block", "asleep")
  /\ mtx' = FALSE
  /\ UNCHANGED <<ring, producers, running, item, dpc, history>>

\* A spurious wake-up of the condition variable.
WakeForNothing ==
  /\ WriterStep("asleep", "lock")
  /\ UNCHANGED <<ring, producers, running, mtx, item, dpc, history>>

PopNothing ==
  /\ WriterStep("pop", "test")
  /\ RingEmpty
  /\ mtx' = FALSE
  /\ UNCHANGED <<ring, producers, running, item, dpc, history>>

\* Mutant: head_ moves on before the entry is taken out.
PopFindsAdvances ==
  /\ WriterStep("pop", "take")
  /\ ~RingEmpty
  /\ head' = Succ(head)
  /\ UNCHANGED <<data, tail, producers, running, mtx, item, dpc, history>>

PopFinds ==
  /\ WriterStep("pop", "take")
  /\ ~RingEmpty
  /\ UNCHANGED <<ring, producers, running, mtx, item, dpc, history>>

PopTakes ==
  /\ WriterStep("take", "advance")
  /\ item' = data[head]
  /\ data' = [data EXCEPT ![head] = Empty]
  /\ UNCHANGED <<head, tail, producers, running, mtx, dpc, history>>

PopAdvances ==
  /\ WriterStep("advance", "write")
  /\ head' = Succ(head)
  /\ UNCHANGED <<data, tail, producers, running, mtx, item, dpc, history>>

\* out << entry; the lock goes at the end of the loop body.
WriteOut ==
  /\ WriterStep("write", "test")
  /\ written' = Append(written, item)
  /\ mtx' = FALSE
  /\ UNCHANGED <<ring, producers, running, item, dpc, accepted, refused>>

-----------------------------------------------------------------------------
(***************************************************************************)
(* ~logger: the server and its pools are gone, no thread logs any more.    *)
(***************************************************************************)
\* Mutant: running is cleared without mtx.
CloseUnlocked ==
  /\ dpc = "none" /\ wpc # "none"
  /\ \A p \in Producer : pc[p] = "idle"
  /\ running' = FALSE /\ dpc' = "notify"
  /\ UNCHANGED <<ring, producers, mtx, wpc, item, history>>

Close ==
  /\ dpc = "none" /\ wpc # "none" /\ ~mtx
  /\ \A p \in Producer : pc[p] = "idle"
  /\ running' = FALSE /\ dpc' = "notify"
  /\ UNCHANGED <<ring, producers, mtx, wpc, item, history>>

NotifyAll ==
  /\ dpc = "notify" /\ dpc' = "join"
  /\ Wake
  /\ UNCHANGED <<ring, producers, running, mtx, item, history>>

Join ==
  /\ dpc = "join" /\ wpc = "done" /\ dpc' = "joined"
  /\ UNCHANGED <<ring, producers, running, mtx, wpc, item, history>>

ProducerNext(p) ==
  \/ WriteLog(p) \/ PushRefused(p) \/ PushClaims(p)
  \/ PushStores(p) \/ PushPublishes(p) \/ Notify(p)

WriterNext ==
  \/ LoopTest \/ LockMtx \/ CheckPredicate \/ Block \/ PopNothing
  \/ PopFinds \/ PopTakes \/ PopAdvances \/ WriteOut

Destructor == Close \/ NotifyAll \/ Join

Next == Start \/ (\E p \in Producer : ProducerNext(p)) \/ WriterNext \/ WakeForNothing \/ Destructor

\* Threads that can run do: a call of write_log that has begun goes on, the
\* writer goes on, a destructor that has begun goes on.
Fairness ==
  /\ \A p \in Producer : WF_vars(ProducerNext(p) /\ pc[p] # "idle")
  /\ WF_vars(WriterNext)
  /\ WF_vars(NotifyAll \/ Join)

Spec == Init /\ [][Next]_vars
LiveSpec == Spec /\ Fairness

-----------------------------------------------------------------------------
Popped == Len(written) + (IF wpc = "write" THEN 1 ELSE 0)
InRing == Len(accepted) - Popped

\* What is written out is what was accepted, in the order it was accepted, with
\* nothing lost, repeated or torn on its way through the ring.
LogInOrder ==
  /\ Len(written) <= Len(accepted)
  /\ \A i \in 1..Len(written) : written[i] = accepted[i]

\* A push and a pop are never at the same slot at once: no entry is moved out
\* of data_ while another is moved in.
NoSlotRace ==
  \A p \in Producer : pc[p] = "store" /\ wpc = "take" => tail # head

\* An entry is refused only when Capacity entries wait in the ring: one spare
\* slot, and no more, is given up to tell full from empty.
RefusedOnlyWhenFull ==
  [][refused' # refused => InRing = Capacity]_vars

\* When the destructor returns, every accepted entry has been written.
Drained == dpc = "joined" => written = accepted

\* The destructor returns: the notification cannot be lost, since running is
\* cleared under mtx.
CloseReturns == (dpc = "notify") ~> (dpc = "joined")

\* An entry whose announcement falls between the writer's check and its sleep
\* stays in the ring; the next announcement that finds the writer asleep has the
\* whole backlog written.
BacklogWritten ==
  \A n \in 1..MaxEntries :
    (wpc = "asleep" /\ Len(accepted) = n /\ \E p \in Producer : pc[p] = "notify")
      ~> (Len(written) >= n)

\* Every accepted entry is written before long.  Fails: see BacklogWritten.
WrittenSoon == \A n \in 1..MaxEntries : (Len(accepted) = n) ~> (Len(written) >= n)
=============================================================================

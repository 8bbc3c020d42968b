---------------------------- MODULE LoggerProofs ----------------------------
(***************************************************************************)
(* The ring of the log, for every capacity and every set of threads.       *)
(*                                                                         *)
(* The invariant names head_ and tail_ by what has passed through them:    *)
(* they are the numbers of entries popped and accepted, modulo the size of *)
(* data_, and the two numbers are never more than Capacity apart.  Slots   *)
(* between them hold the entries accepted and not yet popped, except the   *)
(* first while the writer has its entry in hand.                           *)
(***************************************************************************)
EXTENDS Logger, SequenceTheorems, TLAPS

Accepted == Len(accepted)

Pushing(p) == pc[p] \in {"store", "publish"}

Indices ==
  /\ head = Popped % Size /\ tail = Accepted % Size
  /\ Popped <= Accepted /\ Accepted - Popped <= Capacity

Contents ==
  /\ \A k \in (Popped + 1)..Accepted :
       (k = Popped + 1 /\ wpc = "advance") \/ data[(k - 1) % Size] = accepted[k]
  /\ wpc \in {"take", "advance"} => Popped < Accepted
  /\ wpc = "advance" => item = accepted[Popped + 1]
  /\ wpc = "write" => item = accepted[Popped]

Claims ==
  \A p \in Producer :
    /\ Pushing(p) => lock = p /\ Accepted - Popped < Capacity
    /\ pc[p] = "publish" => data[tail] = entry[p]

Ending ==
  /\ dpc # "none" => \A p \in Producer : pc[p] = "idle"
  /\ wpc # "none" /\ ~running => dpc # "none"
  /\ wpc = "done" => ~running /\ Popped = Accepted
  /\ dpc = "joined" => wpc = "done"

IInv == TypeOK /\ Indices /\ Contents /\ Claims /\ Ending /\ LogInOrder

-----------------------------------------------------------------------------
(***************************************************************************)
(* Remainders.                                                             *)
(***************************************************************************)
LEMMA DivMod ==
  ASSUME NEW n \in Nat \ {0}, NEW x \in Nat
  PROVE  x = n * (x \div n) + (x % n) /\ x % n \in 0..(n - 1) /\ x \div n \in Nat
  OBVIOUS

LEMMA ModIs ==
  ASSUME NEW n \in Nat \ {0}, NEW q \in Int, NEW r \in 0..(n - 1)
  PROVE  (n * q + r) % n = r
  OBVIOUS

LEMMA ModTurn ==
  ASSUME NEW n \in Nat \ {0}, NEW x \in Nat
  PROVE  (x + n) % n = x % n
<1>1. x + n = n * ((x \div n) + 1) + (x % n)
  BY DivMod
<1>2. (x \div n) + 1 \in Int /\ x % n \in 0..(n - 1)
  BY DivMod
<1> QED BY <1>1, <1>2, ModIs, Zenon

LEMMA ModSucc ==
  ASSUME NEW n \in Nat \ {0}, NEW x \in Nat
  PROVE  ((x % n) + 1) % n = (x + 1) % n
<1> DEFINE q == x \div n
           r == x % n
<1>1. x = n * q + r /\ r \in 0..(n - 1) /\ q \in Nat
  BY DivMod, Zenon
<1> HIDE DEF q, r
<1>2. CASE r + 1 < n
  <2>1. r + 1 \in 0..(n - 1)
    BY <1>1, <1>2
  <2>2. (n * q + (r + 1)) % n = r + 1
    BY <2>1, <1>1, ModIs
  <2>3. (r + 1) % n = r + 1
    BY <2>1
  <2>4. x + 1 = n * q + (r + 1)
    BY <1>1
  <2> QED BY <2>2, <2>3, <2>4 DEF r
<1>3. CASE r + 1 = n
  <2>1. (n * (q + 1) + 0) % n = 0
    BY <1>1, ModIs
  <2>2. x + 1 = n * (q + 1) + 0
    BY <1>1, <1>3
  <2>3. (r + 1) % n = 0
    BY <1>3, <1>1
  <2> QED BY <2>1, <2>2, <2>3 DEF r
<1> QED BY <1>1, <1>2, <1>3

LEMMA ModDiffers ==
  ASSUME NEW n \in Nat \ {0}, NEW x \in Nat, NEW y \in Nat, x < y, y < x + n
  PROVE  x % n # y % n
<1> SUFFICES ASSUME x % n = y % n PROVE FALSE
  OBVIOUS
<1> DEFINE p == x \div n
           q == y \div n
           r == x % n
<1>1. x = n * p + r /\ y = n * q + r /\ p \in Nat /\ q \in Nat /\ r \in Nat
  <2>1. x = n * p + r /\ p \in Nat /\ r \in 0..(n - 1)
    BY DivMod, Zenon
  <2>2. y = n * q + (y % n) /\ q \in Nat
    BY DivMod, Zenon
  <2> QED BY <2>1, <2>2
<1> HIDE DEF p, q, r
<1>2. CASE q <= p
  <2>1. n * q <= n * p
    BY <1>1, <1>2
  <2> QED BY <1>1, <2>1
<1>3. CASE q >= p + 1
  <2>1. n * q >= n * (p + 1)
    BY <1>1, <1>3
  <2>2. n * (p + 1) = n * p + n
    BY <1>1
  <2> QED BY <1>1, <2>1, <2>2
<1> QED BY <1>1, <1>2, <1>3

-----------------------------------------------------------------------------
\* The two counts are numbers, and the ring has a slot for each remainder.
LEMMA Counts ==
  ASSUME TypeOK
  PROVE  /\ Popped \in Nat /\ Accepted \in Nat
         /\ Size \in Nat \ {0} /\ Slot = 0..(Size - 1)
  BY SizesAssumption DEF TypeOK, Popped, Accepted, Size, Slot

LEMMA Room ==
  ASSUME Indices
  PROVE  Popped <= Accepted /\ Accepted - Popped <= Capacity
  BY Zenon DEF Indices

\* Two entries in the ring at once are in different slots.
LEMMA SlotsDiffer ==
  ASSUME TypeOK, Indices,
         NEW j \in Popped..Accepted, NEW k \in Popped..Accepted, j # k
  PROVE  j % Size # k % Size
<1>1. j \in Nat /\ k \in Nat /\ Size \in Nat \ {0} /\ Size = Capacity + 1
  BY Counts DEF Size
<1>2. Accepted - Popped <= Capacity
  BY Room
<1>3. j < k + Size /\ k < j + Size
  BY <1>1, <1>2, Counts, SizesAssumption
<1>4. CASE j < k
  BY <1>1, <1>3, <1>4, ModDiffers
<1>5. CASE k < j
  BY <1>1, <1>3, <1>5, ModDiffers
<1> QED BY <1>1, <1>4, <1>5

\* head_ = tail_ exactly when nothing is in the ring.
LEMMA EmptyMeans ==
  ASSUME TypeOK, Indices
  PROVE  RingEmpty <=> Popped = Accepted
<1>1. CASE Popped = Accepted
  BY <1>1 DEF Indices, RingEmpty
<1>2. CASE Popped # Accepted
  <2>1. Popped \in Popped..Accepted /\ Accepted \in Popped..Accepted
    BY Counts, Room
  <2>2. Popped % Size # Accepted % Size
    BY <1>2, <2>1, SlotsDiffer
  <2> QED BY <1>2, <2>2 DEF Indices, RingEmpty
<1> QED BY <1>1, <1>2

\* The slot after tail_ is head_ exactly when Capacity entries are in the ring.
LEMMA FullMeans ==
  ASSUME TypeOK, Indices
  PROVE  Full <=> Accepted - Popped = Capacity
<1>1. Succ(tail) = (Accepted + 1) % Size
  BY Counts, ModSucc, Zenon DEF Indices, Succ
<1>2. CASE Accepted - Popped = Capacity
  <2>1. Accepted + 1 = Popped + Size
    BY <1>2, Counts, SizesAssumption DEF Size
  <2> QED BY <1>1, <1>2, <2>1, Counts, ModTurn DEF Full, Indices
<1>3. CASE Accepted - Popped # Capacity
  <2>1. Popped < Accepted + 1 /\ Accepted + 1 < Popped + Size
    BY <1>3, Counts, Room, SizesAssumption DEF Size
  <2>2. Popped % Size # (Accepted + 1) % Size
    BY <2>1, Counts, ModDiffers
  <2> QED BY <1>1, <1>3, <2>2 DEF Full, Indices
<1> QED BY <1>2, <1>3

-----------------------------------------------------------------------------
LEMMA InitIInv == Init => IInv
<1> SUFFICES ASSUME Init PROVE IInv
  OBVIOUS
<1>1. Size \in Nat \ {0} /\ 0 % Size = 0 /\ 0 \in Slot
  BY SizesAssumption DEF Size, Slot
<1>2. TypeOK
  BY <1>1 DEF Init, TypeOK, Empty
<1>3. Popped = 0 /\ Accepted = 0
  BY DEF Init, Popped, Accepted
<1>4. Indices /\ Contents /\ Claims /\ Ending /\ LogInOrder
  BY <1>1, <1>3, SizesAssumption
  DEF Init, Indices, Contents, Claims, Ending, LogInOrder, Pushing
<1> QED BY <1>2, <1>4 DEF IInv

LEMMA TypeNext ==
  ASSUME TypeOK, [Next]_vars
  PROVE  TypeOK'
<1>1. Size \in Nat \ {0} /\ \A i \in Slot : Succ(i) \in Slot
  BY SizesAssumption DEF Size, Slot, Succ
<1>2. CASE Start
  BY <1>2 DEF Start, TypeOK, ring, producers, history
<1>3. ASSUME NEW p \in Producer, ProducerNext(p) PROVE TypeOK'
  <2>1. CASE WriteLog(p)
    BY <2>1 DEF WriteLog, Goto, TypeOK, ring, writer, history
  <2>2. CASE PushRefused(p)
    BY <2>2 DEF PushRefused, Goto, TypeOK, ring, writer
  <2>3. CASE PushClaims(p)
    BY <2>3 DEF PushClaims, Goto, TypeOK, ring, writer, history
  <2>4. CASE PushStores(p)
    BY <2>4 DEF PushStores, Goto, TypeOK, writer, history
  <2>5. CASE PushPublishes(p)
    BY <2>5, <1>1 DEF PushPublishes, Goto, TypeOK, writer
  <2>6. CASE Notify(p)
    BY <2>6 DEF Notify, Wake, Goto, TypeOK, ring, history
  <2> QED BY <1>3, <2>1, <2>2, <2>3, <2>4, <2>5, <2>6 DEF ProducerNext
<1>4. CASE LoopTest \/ LockMtx \/ CheckPredicate \/ Block \/ WakeForNothing \/ PopNothing \/ PopFinds
  BY <1>4, ZenonT(30) DEF LoopTest, LockMtx, CheckPredicate, Block, WakeForNothing, PopNothing, PopFinds,
              WriterStep, TypeOK, ring, producers, history
<1>5. CASE PopTakes
  BY <1>5 DEF PopTakes, WriterStep, TypeOK, producers, history, Empty
<1>6. CASE PopAdvances
  BY <1>6, <1>1 DEF PopAdvances, WriterStep, TypeOK, producers, history
<1>7. CASE WriteOut
  <2>1. written' \in Seq(Nat)
    BY <1>7 DEF WriteOut, TypeOK
  <2> QED BY <1>7, <2>1, Zenon DEF WriteOut, WriterStep, TypeOK, ring, producers
<1>8. CASE Destructor
  BY <1>8, ZenonT(30) DEF Destructor, Close, NotifyAll, Join, Wake, TypeOK, ring, producers, history
<1>9. CASE UNCHANGED vars
  BY <1>9 DEF vars, TypeOK, ring, producers, writer, history
<1> QED BY <1>2, <1>3, <1>4, <1>5, <1>6, <1>7, <1>8, <1>9 DEF Next, WriterNext

(***************************************************************************)
(* Steps that leave the ring and the histories alone, and keep the writer  *)
(* out of a pop.                                                           *)
(***************************************************************************)
Outside == {"none", "test", "lock", "check", "block", "asleep", "pop", "done"}

Quiet ==
  /\ UNCHANGED <<data, head, tail, lock, item, accepted, written>>
  /\ wpc' = wpc \/ (wpc \in Outside /\ wpc' \in Outside)
  /\ \A p \in Producer : Pushing(p)' = Pushing(p) /\ (pc'[p] = "publish" <=> pc[p] = "publish")
  /\ \A p \in Producer : Pushing(p) => entry'[p] = entry[p]

LEMMA QuietKeeps ==
  ASSUME IInv, Quiet
  PROVE  Indices' /\ Contents' /\ Claims' /\ LogInOrder' /\ Popped' = Popped /\ Accepted' = Accepted
<1>1. Popped' = Popped /\ Accepted' = Accepted
  BY DEF Quiet, Outside, Popped, Accepted
<1>2. Indices' /\ LogInOrder'
  BY <1>1 DEF IInv, Quiet, Indices, LogInOrder
<1>3. Contents'
  BY <1>1 DEF IInv, Quiet, Outside, Contents
<1>4. Claims'
  BY <1>1 DEF IInv, Quiet, Claims, Pushing
<1> QED BY <1>1, <1>2, <1>3, <1>4

\* Outside a push and a pop every step is quiet, and the end of the log stays
\* in order: only the destructor clears running, the writer leaves its loop
\* only then and only with the ring empty.
LEMMA QuietSteps ==
  ASSUME IInv,
         \/ Start \/ (\E p \in Producer : WriteLog(p) \/ PushRefused(p) \/ Notify(p))
         \/ LoopTest \/ LockMtx \/ CheckPredicate \/ Block \/ WakeForNothing \/ PopNothing
         \/ Destructor \/ UNCHANGED vars
  PROVE  Quiet /\ Ending'
<1>1. CASE Start
  BY <1>1 DEF IInv, Start, Quiet, Outside, Pushing, Ending, ring, producers, history, Popped, Accepted
<1>2. ASSUME NEW p \in Producer, WriteLog(p) \/ PushRefused(p) \/ Notify(p)
      PROVE  Quiet /\ Ending'
  <2>1. CASE WriteLog(p)
    BY <2>1 DEF IInv, TypeOK, WriteLog, Goto, Quiet, Outside, Pushing, Ending, ring, writer, history,
                Popped, Accepted
  <2>2. CASE PushRefused(p)
    BY <2>2 DEF IInv, TypeOK, PushRefused, Goto, Quiet, Outside, Pushing, Ending, ring, writer,
                Popped, Accepted
  <2>3. CASE Notify(p)
    BY <2>3 DEF IInv, TypeOK, Notify, Wake, Goto, Quiet, Outside, Pushing, Ending, ring, history,
                Popped, Accepted
  <2> QED BY <1>2, <2>1, <2>2, <2>3
<1>3. CASE LoopTest
  <2>1. RingEmpty <=> Popped = Accepted
    BY EmptyMeans DEF IInv
  <2> QED BY <1>3, <2>1 DEF IInv, TypeOK, LoopTest, WriterStep, Quiet, Outside, Pushing, Ending,
                            ring, producers, history, Popped, Accepted
<1>4. CASE LockMtx \/ CheckPredicate \/ Block \/ WakeForNothing \/ PopNothing
  <2>1. /\ UNCHANGED <<ring, producers, running, item, dpc, history>>
        /\ wpc \in Outside \ {"done"} /\ wpc' \in Outside \ {"none", "done"} /\ wpc # "none"
    BY <1>4 DEF LockMtx, CheckPredicate, Block, WakeForNothing, PopNothing, WriterStep, Outside
  <2> QED BY <2>1 DEF IInv, Quiet, Outside, Pushing, Ending, ring, producers, history
<1>5. CASE Destructor
  <2>1. CASE Close
    BY <2>1 DEF IInv, TypeOK, Close, Quiet, Pushing, Ending, ring, producers, history, Popped, Accepted
  <2>2. CASE NotifyAll
    BY <2>2 DEF IInv, TypeOK, NotifyAll, Wake, Quiet, Outside, Pushing, Ending, ring, producers,
                history, Popped, Accepted
  <2>3. CASE Join
    BY <2>3 DEF IInv, TypeOK, Join, Quiet, Pushing, Ending, ring, producers, history, Popped, Accepted
  <2> QED BY <1>5, <2>1, <2>2, <2>3 DEF Destructor
<1>6. CASE UNCHANGED vars
  BY <1>6 DEF IInv, vars, Quiet, Pushing, Ending, ring, producers, writer, history, Popped, Accepted
<1> QED BY <1>1, <1>2, <1>3, <1>4, <1>5, <1>6

-----------------------------------------------------------------------------
(***************************************************************************)
(* The steps of a push.                                                    *)
(***************************************************************************)
LEMMA PushClaimsKeeps ==
  ASSUME IInv, NEW p \in Producer, PushClaims(p)
  PROVE  Indices' /\ Contents' /\ Claims' /\ Ending' /\ LogInOrder'
<1>1. Popped' = Popped /\ Accepted' = Accepted
  BY DEF PushClaims, Popped, Accepted, writer, history
<1>2. Accepted - Popped < Capacity
  BY FullMeans, Counts, SizesAssumption DEF IInv, PushClaims, Indices
<1>3. Indices' /\ Contents' /\ LogInOrder'
  BY <1>1 DEF IInv, PushClaims, Indices, Contents, LogInOrder, ring, writer, history
<1>4. Claims'
  BY <1>1, <1>2, NobodyAssumption DEF IInv, TypeOK, Claims, PushClaims, Goto, Pushing, ring
<1>5. Ending'
  BY <1>1 DEF IInv, Ending, PushClaims, Goto, writer
<1> QED BY <1>3, <1>4, <1>5

LEMMA PushStoresKeeps ==
  ASSUME IInv, NEW p \in Producer, PushStores(p)
  PROVE  Indices' /\ Contents' /\ Claims' /\ Ending' /\ LogInOrder'
<1>1. Popped' = Popped /\ Accepted' = Accepted
  BY DEF PushStores, Popped, Accepted, writer, history
<1>2. \A k \in (Popped + 1)..Accepted : data'[(k - 1) % Size] = data[(k - 1) % Size]
  <2> SUFFICES ASSUME NEW k \in (Popped + 1)..Accepted
               PROVE  data'[(k - 1) % Size] = data[(k - 1) % Size]
    OBVIOUS
  <2>1. k - 1 \in Popped..Accepted /\ Accepted \in Popped..Accepted /\ k - 1 # Accepted
    BY Counts DEF IInv
  <2>2. (k - 1) % Size # tail
    BY <2>1, SlotsDiffer DEF IInv, Indices
  <2>3. (k - 1) % Size \in Slot
    <3>1. k - 1 \in Nat /\ Size \in Nat \ {0} /\ Slot = 0..(Size - 1)
      BY <2>1, Counts DEF IInv
    <3> QED BY <3>1, DivMod
  <2> QED BY <2>2, <2>3 DEF IInv, TypeOK, PushStores
<1>3. Indices' /\ LogInOrder'
  BY <1>1 DEF IInv, PushStores, Indices, LogInOrder, history
<1>4. Contents'
  BY <1>1, <1>2 DEF IInv, Contents, PushStores, writer, history
<1>5. Claims'
  BY <1>1 DEF IInv, TypeOK, Claims, PushStores, Goto, Pushing
<1>6. Ending'
  BY <1>1 DEF IInv, Ending, PushStores, Goto, writer
<1> QED BY <1>3, <1>4, <1>5, <1>6

LEMMA PushPublishesKeeps ==
  ASSUME IInv, NEW p \in Producer, PushPublishes(p)
  PROVE  Indices' /\ Contents' /\ Claims' /\ Ending' /\ LogInOrder'
<1>1. accepted \in Seq(Nat) /\ entry[p] \in Nat /\ accepted' = Append(accepted, entry[p])
  BY DEF IInv, TypeOK, PushPublishes
<1>2. /\ Popped' = Popped /\ Accepted' = Accepted + 1
      /\ accepted'[Accepted + 1] = entry[p]
      /\ \A k \in 1..Accepted : accepted'[k] = accepted[k]
  BY <1>1 DEF PushPublishes, Popped, Accepted, writer
<1>3. lock = p /\ Accepted - Popped < Capacity /\ data[tail] = entry[p]
  BY DEF IInv, Claims, Pushing, PushPublishes
<1>4. Indices'
  <2>1. tail' = (Accepted + 1) % Size
    BY Counts, ModSucc, Zenon DEF IInv, Indices, Succ, PushPublishes
  <2>2. Popped <= Accepted + 1 /\ (Accepted + 1) - Popped <= Capacity
    BY <1>3, Counts, Room, SizesAssumption DEF IInv
  <2> QED BY <1>2, <2>1, <2>2 DEF IInv, Indices, PushPublishes
<1>5. Contents'
  <2>1. \A k \in (Popped + 1)..(Accepted + 1) :
          (k = Popped + 1 /\ wpc = "advance") \/ data[(k - 1) % Size] = accepted'[k]
    <3> SUFFICES ASSUME NEW k \in (Popped + 1)..(Accepted + 1)
                 PROVE  (k = Popped + 1 /\ wpc = "advance") \/ data[(k - 1) % Size] = accepted'[k]
      OBVIOUS
    <3>1. CASE k = Accepted + 1
      <4>1. k - 1 = Accepted
        BY <3>1, Counts DEF IInv
      <4> QED BY <1>2, <1>3, <3>1, <4>1 DEF IInv, Indices
    <3>2. CASE k # Accepted + 1
      <4>1. k \in (Popped + 1)..Accepted /\ k \in 1..Accepted
        BY <3>2, Counts DEF IInv
      <4> QED BY <1>2, <4>1 DEF IInv, Contents
    <3> QED BY <3>1, <3>2
  <2>2. wpc \in {"take", "advance"} => Popped + 1 \in 1..Accepted
    BY Counts DEF IInv, Contents
  <2>3. wpc = "write" => Popped \in 1..Accepted
    BY Counts DEF IInv, Indices, Popped, TypeOK
  <2>4. wpc' = wpc /\ item' = item /\ data' = data
    BY DEF PushPublishes, writer
  <2>5. wpc \in {"take", "advance"} => Popped < Accepted + 1
    BY <2>2, Counts DEF IInv
  <2> QED BY <1>2, <2>1, <2>2, <2>3, <2>4, <2>5 DEF IInv, Contents
<1>6. Claims'
  BY <1>3 DEF IInv, TypeOK, Claims, PushPublishes, Goto, Pushing
<1>7. Ending'
  BY DEF IInv, TypeOK, Ending, PushPublishes, Goto, writer, Popped, Accepted
<1>8. LogInOrder'
  <2>1. Len(written) \in Nat /\ written' = written
    BY DEF IInv, TypeOK, PushPublishes
  <2> QED BY <1>2, <2>1, Counts DEF IInv, LogInOrder, Accepted
<1> QED BY <1>4, <1>5, <1>6, <1>7, <1>8

-----------------------------------------------------------------------------
(***************************************************************************)
(* The steps of a pop.                                                     *)
(***************************************************************************)
LEMMA PopFindsKeeps ==
  ASSUME IInv, PopFinds
  PROVE  Indices' /\ Contents' /\ Claims' /\ Ending' /\ LogInOrder'
<1>1. Popped' = Popped /\ Accepted' = Accepted
  BY DEF PopFinds, WriterStep, Popped, Accepted, history
<1>2. Popped < Accepted
  BY EmptyMeans, Counts DEF IInv, PopFinds, Indices
<1>3. Indices' /\ LogInOrder'
  BY <1>1 DEF IInv, PopFinds, Indices, LogInOrder, ring, history
<1>4. Contents'
  BY <1>1, <1>2 DEF IInv, PopFinds, WriterStep, Contents, ring, history
<1>5. Claims' /\ Ending'
  BY <1>1 DEF IInv, PopFinds, WriterStep, Claims, Pushing, Ending, ring, producers
<1> QED BY <1>3, <1>4, <1>5

LEMMA PopTakesKeeps ==
  ASSUME IInv, PopTakes
  PROVE  Indices' /\ Contents' /\ Claims' /\ Ending' /\ LogInOrder'
<1>1. Popped' = Popped /\ Accepted' = Accepted
  BY DEF PopTakes, WriterStep, Popped, Accepted, history
<1>2. Popped < Accepted /\ Popped \in Nat /\ Accepted \in Nat /\ Size \in Nat \ {0}
  BY Counts DEF IInv, Contents, PopTakes, WriterStep
<1>3. item' = accepted[Popped + 1]
  <2>1. Popped + 1 \in (Popped + 1)..Accepted /\ (Popped + 1) - 1 = Popped
    BY <1>2
  <2>2. data[((Popped + 1) - 1) % Size] = accepted[Popped + 1]
    BY <2>1 DEF IInv, Contents, PopTakes, WriterStep
  <2> QED BY <2>1, <2>2 DEF IInv, Indices, PopTakes
<1>4. \A j \in Popped..Accepted : j # Popped => data'[j % Size] = data[j % Size]
  <2> SUFFICES ASSUME NEW j \in Popped..Accepted, j # Popped
               PROVE  data'[j % Size] = data[j % Size]
    OBVIOUS
  <2>1. j % Size # head
    <3>1. Popped \in Popped..Accepted
      BY <1>2
    <3> QED BY <3>1, SlotsDiffer DEF IInv, Indices
  <2>2. j % Size \in Slot
    <3>1. j \in Nat /\ Slot = 0..(Size - 1)
      BY <1>2, Counts DEF IInv
    <3> QED BY <1>2, <3>1, DivMod
  <2> QED BY <2>1, <2>2 DEF IInv, TypeOK, PopTakes
<1>5. Indices' /\ LogInOrder'
  BY <1>1 DEF IInv, PopTakes, Indices, LogInOrder, history
<1>6. Contents'
  <2>1. ASSUME NEW k \in (Popped + 1)..Accepted, k # Popped + 1
        PROVE  data'[(k - 1) % Size] = accepted[k]
    <3>1. k - 1 \in Popped..Accepted /\ k - 1 # Popped
      BY <1>2, <2>1
    <3> QED BY <1>4, <2>1, <3>1 DEF IInv, Contents
  <2> QED BY <1>1, <1>2, <1>3, <2>1 DEF PopTakes, WriterStep, Contents, history
<1>7. Claims'
  <2>1. data'[tail] = data[tail]
    BY <1>2, <1>4 DEF IInv, Indices
  <2> QED BY <1>1, <2>1 DEF IInv, PopTakes, Claims, Pushing, producers
<1>8. Ending'
  BY <1>1 DEF IInv, PopTakes, WriterStep, Ending, producers
<1> QED BY <1>5, <1>6, <1>7, <1>8

LEMMA PopAdvancesKeeps ==
  ASSUME IInv, PopAdvances
  PROVE  Indices' /\ Contents' /\ Claims' /\ Ending' /\ LogInOrder'
<1>1. Popped' = Popped + 1 /\ Accepted' = Accepted
  BY DEF IInv, TypeOK, PopAdvances, WriterStep, Popped, Accepted, history
<1>2. Popped < Accepted /\ Popped \in Nat /\ Accepted \in Nat /\ Size \in Nat \ {0}
  BY Counts DEF IInv, Contents, PopAdvances, WriterStep
<1>3. Indices'
  <2>1. head' = (Popped + 1) % Size
    BY <1>2, ModSucc, Zenon DEF IInv, Indices, Succ, PopAdvances
  <2>2. Popped + 1 <= Accepted /\ Accepted - (Popped + 1) <= Capacity
    BY <1>2, Room, SizesAssumption DEF IInv
  <2> QED BY <1>1, <2>1, <2>2 DEF IInv, Indices, PopAdvances
<1>4. Contents'
  <2>1. ASSUME NEW k \in (Popped + 2)..Accepted
        PROVE  data[(k - 1) % Size] = accepted[k]
    <3>1. k \in (Popped + 1)..Accepted /\ k # Popped + 1
      BY <1>2, <2>1
    <3> QED BY <3>1 DEF IInv, Contents
  <2>2. (Popped + 1) + 1 = Popped + 2
    BY <1>2
  <2> QED BY <1>1, <2>1, <2>2 DEF IInv, PopAdvances, WriterStep, Contents, history
<1>5. Claims' /\ Ending' /\ LogInOrder'
  BY <1>1, <1>2, SizesAssumption
  DEF IInv, PopAdvances, WriterStep, Claims, Pushing, Ending, LogInOrder, producers, history
<1> QED BY <1>3, <1>4, <1>5

LEMMA WriteOutKeeps ==
  ASSUME IInv, WriteOut
  PROVE  Indices' /\ Contents' /\ Claims' /\ Ending' /\ LogInOrder'
<1>1. /\ written \in Seq(Nat) /\ item \in Nat /\ Popped = Len(written) + 1
      /\ written' = Append(written, item) /\ Len(written') = Len(written) + 1
  BY DEF IInv, TypeOK, WriteOut, WriterStep, Popped
<1>2. Popped' = Popped /\ Accepted' = Accepted
  BY <1>1 DEF WriteOut, WriterStep, Popped, Accepted
<1>3. Indices' /\ Contents' /\ Claims' /\ Ending'
  BY <1>2 DEF IInv, WriteOut, WriterStep, Indices, Contents, Claims, Pushing, Ending, ring, producers
<1>4. LogInOrder'
  <2>1. item = accepted[Len(written) + 1] /\ Len(written) + 1 <= Len(accepted)
    BY <1>1 DEF IInv, Contents, Indices, WriteOut, WriterStep, Accepted
  <2>2. ASSUME NEW i \in 1..(Len(written) + 1)
        PROVE  Append(written, item)[i] = accepted[i]
    BY <1>1, <2>1, <2>2 DEF IInv, LogInOrder
  <2> QED BY <1>1, <2>1, <2>2 DEF LogInOrder, WriteOut
<1> QED BY <1>3, <1>4

-----------------------------------------------------------------------------
LEMMA NextIInv == IInv /\ [Next]_vars => IInv'
<1> SUFFICES ASSUME IInv, [Next]_vars PROVE IInv'
  OBVIOUS
<1>1. TypeOK'
  BY TypeNext DEF IInv
<1>2. CASE \/ Start \/ (\E p \in Producer : WriteLog(p) \/ PushRefused(p) \/ Notify(p))
           \/ LoopTest \/ LockMtx \/ CheckPredicate \/ Block \/ WakeForNothing \/ PopNothing
           \/ Destructor \/ UNCHANGED vars
  BY <1>1, <1>2, QuietSteps, QuietKeeps DEF IInv
<1>3. ASSUME NEW p \in Producer, PushClaims(p) \/ PushStores(p) \/ PushPublishes(p)
      PROVE  IInv'
  BY <1>1, <1>3, PushClaimsKeeps, PushStoresKeeps, PushPublishesKeeps DEF IInv
<1>4. CASE PopFinds \/ PopTakes \/ PopAdvances \/ WriteOut
  BY <1>1, <1>4, PopFindsKeeps, PopTakesKeeps, PopAdvancesKeeps, WriteOutKeeps DEF IInv
<1> QED BY <1>2, <1>3, <1>4 DEF Next, ProducerNext, WriterNext

\* IInv holds of every reachable state.
THEOREM Inductive == Spec => []IInv
  BY InitIInv, NextIInv, PTL DEF Spec

\* What the writer thread writes out is a prefix of what push accepted: the ring
\* of util/ring_buffer.h is a queue for every buffer size.
THEOREM WritesInOrder == Spec => []LogInOrder
<1>1. IInv => LogInOrder
  BY DEF IInv
<1> QED BY <1>1, Inductive, PTL

\* push and pop work without a common lock and never on the same slot.
THEOREM SlotsApart == Spec => []NoSlotRace
<1>1. IInv => NoSlotRace
  <2> SUFFICES ASSUME IInv, NEW p \in Producer, pc[p] = "store", wpc = "take" PROVE tail # head
    BY DEF NoSlotRace
  <2>1. Popped < Accepted
    BY DEF IInv, Contents
  <2> QED BY <2>1, EmptyMeans, Counts DEF IInv, RingEmpty
<1> QED BY <1>1, Inductive, PTL

\* ~logger returns only after every accepted entry has been written.
THEOREM ClosesDrained == Spec => []Drained
<1>1. IInv => Drained
  <2> SUFFICES ASSUME IInv, dpc = "joined" PROVE written = accepted
    BY DEF Drained
  <2>1. Len(written) = Len(accepted) /\ written \in Seq(Nat) /\ accepted \in Seq(Nat)
    BY DEF IInv, TypeOK, Ending, Popped, Accepted
  <2>2. \A i \in 1..Len(written) : written[i] = accepted[i]
    BY DEF IInv, LogInOrder
  <2> QED BY <2>1, <2>2, SeqEqual
<1> QED BY <1>1, Inductive, PTL

\* push refuses an entry only with Capacity entries in the ring: nothing is
\* dropped while there is room.
THEOREM RefusesOnlyWhenFull == Spec => RefusedOnlyWhenFull
<1>1. IInv /\ [Next]_vars => [refused' # refused => InRing = Capacity]_vars
  <2> SUFFICES ASSUME IInv, Next, refused' # refused PROVE InRing = Capacity
    BY SMTT(30)
  <2>1. PICK p \in Producer : PushRefused(p)
    BY DEF Next, Start, ProducerNext, WriteLog, PushClaims, PushStores, PushPublishes, Notify,
           WriterNext, LoopTest, LockMtx, CheckPredicate, Block, PopNothing, PopFinds, PopTakes,
           PopAdvances, WriteOut, WakeForNothing, Destructor, Close, NotifyAll, Join, history
  <2> QED BY <2>1, FullMeans DEF IInv, PushRefused, InRing, Accepted
<1> QED BY <1>1, Inductive, PTL DEF Spec, RefusedOnlyWhenFull
=============================================================================

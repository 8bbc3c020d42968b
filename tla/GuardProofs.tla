------------------------------ MODULE GuardProofs ------------------------------
(***************************************************************************)
(* Proofs about the two guards of the event loop: the timer that closes    *)
(* idle clients, for every set of ids and timeouts, and the filter that    *)
(* is asked for the address of each new client, for every width of an      *)
(* address, every list and every choice of hash functions.                 *)
(***************************************************************************)
EXTENDS Timer, IpFilter, TLAPS

LEMMA BagDomains ==
  ASSUME NEW B, IsABag(B), NEW n
  PROVE  /\ IsABag(B (+) SetToBag({n}))
         /\ DOMAIN (B (+) SetToBag({n})) = DOMAIN B \cup {n}
         /\ IsABag(B (-) SetToBag({n}))
         /\ DOMAIN (B (-) SetToBag({n})) \subseteq DOMAIN B
         /\ DOMAIN B \ {n} \subseteq DOMAIN (B (-) SetToBag({n}))
<1>1. /\ IsABag(B (+) SetToBag({n}))
      /\ DOMAIN (B (+) SetToBag({n})) = DOMAIN B \cup {n}
  BY DEF IsABag, SetToBag, (+)
<1>2. /\ IsABag(B (-) SetToBag({n}))
      /\ DOMAIN (B (-) SetToBag({n})) \subseteq DOMAIN B
      /\ DOMAIN B \ {n} \subseteq DOMAIN (B (-) SetToBag({n}))
  BY DEF IsABag, SetToBag, (-)
<1> QED
  BY <1>1, <1>2

LEMMA NodesType ==
  ASSUME NEW es \in [Id -> Entry \cup {None}]
  PROVE  NodesOf(es) \subseteq Node
BY TimerAssumption DEF NodesOf, Entry, Node

\* Compaction keeps a heap that holds the nodes of all entries a heap that
\* holds them.
LEMMA CompactKeeps ==
  ASSUME NEW es \in [Id -> Entry \cup {None}], NEW h, IsABag(h), DOMAIN h \subseteq Node,
         NodesOf(es) \subseteq DOMAIN h
  PROVE  /\ IsABag(Compact(es, h))
         /\ DOMAIN Compact(es, h) \subseteq Node
         /\ NodesOf(es) \subseteq DOMAIN Compact(es, h)
<1>3. {i \in Id : es[i] # None} = {} => NodesOf(es) = {}
  BY DEF NodesOf
<1>4. /\ IsABag(EmptyBag) /\ DOMAIN EmptyBag = {}
      /\ IsABag(SetToBag(NodesOf(es))) /\ DOMAIN SetToBag(NodesOf(es)) = NodesOf(es)
  BY DEF IsABag, EmptyBag, SetToBag
<1> QED
  BY <1>3, <1>4, NodesType DEF Compact

Inv == TypeOK /\ LiveHasNode

LEMMA PutStep ==
  ASSUME Inv, NEW id \in Id, NEW v \in Nat, NEW t \in Timeout, Put(id, v, t)
  PROVE  Inv' /\ Promise!Set(id)
<1> DEFINE a == now + t * UnitsPerMs
           n == [id |-> id, at |-> a, version |-> v]
<1>1. a \in Nat /\ a >= now
  BY TimerAssumption DEF Inv, TypeOK
<1> HIDE DEF a
<1>2. /\ entries' = [entries EXCEPT ![id] = [at |-> a, version |-> v]]
      /\ heap' = Compact(entries', heap (+) SetToBag({n}))
      /\ fired' = fired \ {id}
      /\ UNCHANGED <<now, phase, asking>>
  BY DEF Put, a
<1>3. entries' \in [Id -> Entry \cup {None}] /\ n \in Node
  BY <1>1, <1>2 DEF Inv, TypeOK, Entry, Node
<1>4. NodesOf(entries') \subseteq NodesOf(entries) \cup {n}
  BY <1>1, <1>2, TimerAssumption DEF NodesOf, Inv, TypeOK
<1>5. /\ IsABag(heap (+) SetToBag({n}))
      /\ DOMAIN (heap (+) SetToBag({n})) = DOMAIN heap \cup {n}
  BY BagDomains, Zenon DEF Inv, TypeOK
<1>6. Inv'
  <2>1. /\ IsABag(heap') /\ DOMAIN heap' \subseteq Node
        /\ NodesOf(entries') \subseteq DOMAIN heap'
    <3> DEFINE h == heap (+) SetToBag({n})
    <3>1. IsABag(h) /\ DOMAIN h \subseteq Node /\ NodesOf(entries') \subseteq DOMAIN h
      BY <1>3, <1>4, <1>5, Zenon DEF Inv, TypeOK, LiveHasNode
    <3>2. heap' = Compact(entries', h)
      BY <1>2
    <3> HIDE DEF h
    <3> QED
      BY <1>3, <3>1, <3>2, CompactKeeps
  <2> QED
    BY <1>2, <1>3, <2>1, ZenonT(30) DEF asking, Inv, TypeOK, LiveHasNode, NodesOf
<1>7. [at |-> a, version |-> v] # None
  BY <1>1, TimerAssumption
<1>8. DeadlineOf' = [DeadlineOf EXCEPT ![id] = a]
  BY <1>1, <1>2, <1>7, Zenon DEF DeadlineOf, Inv, TypeOK
<1> QED
  BY <1>1, <1>2, <1>6, <1>8, Zenon DEF Promise!Set, DeadlineOf

\* The node of every entry that does not belong to n's id survives a pop of n.
LEMMA PopKeeps ==
  ASSUME Inv, NEW n \in DOMAIN heap, Pop(n)
  PROVE  /\ IsABag(heap') /\ DOMAIN heap' \subseteq Node
         /\ DOMAIN heap \ {n} \subseteq DOMAIN heap'
BY BagDomains, Zenon DEF Inv, TypeOK, Pop

\* Rounding down to whole milliseconds does not go past the deadline.
LEMMA RoundsDown ==
  ASSUME NEW d \in Nat, NEW u \in Nat \ {0}
  PROVE  (d \div u) * u <= d
BY Z3

\* The timeout is a number, and ends no later than the time it was computed from,
\* unless it is zero.
LEMMA TimeoutType ==
  ASSUME NEW d \in Int
  PROVE  /\ TimeoutFor(d) \in Nat
         /\ TimeoutFor(d) = 0 \/ TimeoutFor(d) * UnitsPerMs <= d
<1> DEFINE u == UnitsPerMs
<1>1. u \in Nat \ {0}
  BY TimerAssumption
<1>2. CASE d >= 0
  <2>1. InMs(d) = d \div u
    BY <1>2 DEF InMs
  <2>2. d \div u \in Nat
    BY <1>1, <1>2
  <2>3. (d \div u) * u <= d
    BY <1>1, <1>2, RoundsDown
  <2> QED
    BY <2>1, <2>2, <2>3 DEF TimeoutFor
<1>3. CASE d < 0
  <2>1. InMs(d) = -(-d \div u)
    BY <1>3 DEF InMs
  <2>2. -d \div u \in Nat
    BY <1>1, <1>3
  <2> HIDE DEF u
  <2>3. InMs(d) \in Int /\ ~(InMs(d) > 0)
    BY <2>1, <2>2
  <2> QED
    BY <2>3 DEF TimeoutFor
<1> QED
  BY <1>2, <1>3

\* Every step keeps the invariant and is a step of Deadlines, or none.
LEMMA Step ==
  ASSUME Inv, [Next]_vars
  PROVE  Inv' /\ [Promise!Next]_<<now, DeadlineOf, fired>>
<1>1. ASSUME NEW id \in Id, NEW t \in Timeout, Add(id, t) \/ Adjust(id, t)
      PROVE  Inv' /\ Promise!Next
  <2>1. PICK v \in Nat : Put(id, v, t)
    <3>1. entries[id] # None => entries[id].version + 1 \in Nat
      BY DEF Inv, TypeOK, Entry
    <3> QED
      BY <1>1, <3>1 DEF Add, Adjust
  <2> QED
    BY <2>1, PutStep DEF Promise!Next
<1>2. ASSUME NEW id \in Id, Remove(id) PROVE Inv' /\ Promise!Next
  <2>1. entries' \in [Id -> Entry \cup {None}] /\ NodesOf(entries') \subseteq NodesOf(entries)
    BY <1>2 DEF Remove, Inv, TypeOK, NodesOf
  <2>2. /\ IsABag(heap') /\ DOMAIN heap' \subseteq Node
        /\ NodesOf(entries') \subseteq DOMAIN heap'
    BY <1>2, <2>1, CompactKeeps, Zenon DEF Remove, Inv, TypeOK, LiveHasNode
  <2>3. Inv'
    BY <1>2, <2>1, <2>2, Zenon DEF asking, Remove, Inv, TypeOK, LiveHasNode, NodesOf
  <2>4. Promise!Cancel(id)
    BY <1>2, ZenonT(30) DEF Remove, Promise!Cancel, DeadlineOf, Inv, TypeOK
  <2> QED
    BY <2>3, <2>4 DEF Promise!Next
<1>3. ASSUME NEW n \in DOMAIN heap, Discard(n)
      PROVE  Inv' /\ UNCHANGED <<now, DeadlineOf, fired>>
  <2>1. n \notin NodesOf(entries)
    BY <1>3 DEF Discard, Live, NodesOf
  <2>2. NodesOf(entries)' \subseteq DOMAIN heap'
    BY <1>3, <2>1, PopKeeps DEF Discard, Inv, LiveHasNode, NodesOf
  <2> QED
    BY <1>3, <2>2, PopKeeps DEF asking, Discard, Inv, TypeOK, LiveHasNode, DeadlineOf
<1>4. ASSUME NEW n \in DOMAIN heap, Fire(n) PROVE Inv' /\ Promise!Next
  <2>1. n.id \in Id /\ entries[n.id] # None /\ entries[n.id].at = n.at
    BY <1>4 DEF Fire, Live, Inv, TypeOK, Node
  <2>2. entries' \in [Id -> Entry \cup {None}]
    BY <1>4, Zenon DEF Fire, Inv, TypeOK
  <2>3. NodesOf(entries)' \subseteq NodesOf(entries) \ {n}
    BY <1>4, <2>1 DEF Fire, NodesOf, Inv, TypeOK
  <2>4. Inv'
    BY <1>4, <2>1, <2>2, <2>3, PopKeeps, Zenon DEF asking, Fire, Inv, TypeOK, LiveHasNode
  <2>5. DeadlineOf' = [DeadlineOf EXCEPT ![n.id] = None]
    BY <1>4, <2>1, ZenonT(30) DEF Fire, DeadlineOf, Inv, TypeOK
  <2>6. DeadlineOf[n.id] = n.at /\ n.at # None
    BY <1>4, <2>1, TimerAssumption DEF DeadlineOf, Inv, TypeOK, Node
  <2>7. Promise!Expire(n.id)
    BY <1>4, <2>5, <2>6 DEF Fire, Promise!Expire
  <2> QED
    BY <2>1, <2>4, <2>7 DEF Promise!Next
<1>5. CASE Ask
  <2>1. timeout' \in Int
    BY <1>5, TimeoutType DEF Ask, Inv, TypeOK, Tops, Node
  <2> QED
    BY <1>5, <2>1 DEF Ask, Inv, TypeOK, LiveHasNode, NodesOf, DeadlineOf
<1>6. CASE Poll
  <2>1. wake' \in Nat \cup {None}
    BY <1>6, TimerAssumption DEF Poll, Inv, TypeOK
  <2> QED
    BY <1>6, <2>1 DEF Poll, Inv, TypeOK, LiveHasNode, NodesOf, DeadlineOf
<1>7. CASE Return \/ TickEnds \/ Wake \/ UNCHANGED vars
  BY <1>7 DEF Return, TickEnds, Wake, asking, vars, Inv, TypeOK, LiveHasNode, NodesOf, DeadlineOf
<1>8. CASE Pass
  BY <1>8 DEF Pass, Promise!Next, Promise!Pass, Inv, TypeOK, LiveHasNode, NodesOf,
     DeadlineOf
<1> QED
  BY <1>1, <1>2, <1>3, <1>4, <1>5, <1>6, <1>7, <1>8 DEF Next, LoopStep

LEMMA InitInv == Init => Inv
BY TimerAssumption DEF Init, Inv, TypeOK, LiveHasNode, NodesOf, IsABag, EmptyBag, SetToBag

LEMMA Invariant == Spec => []Inv
BY InitInv, Step, PTL DEF Spec

\* Every entry keeps its node in the heap, whatever is added, adjusted, removed
\* and compacted.
THEOREM EntriesHaveNodes == Spec => []LiveHasNode
<1>1. Inv => LiveHasNode
  BY DEF Inv
<1> QED
  BY <1>1, Invariant, PTL

\* The lazily cleaned heap implements the table of deadlines.
THEOREM TimerKeepsPromise == Spec => KeepsPromise
<1>1. Init => Promise!Init
  BY DEF Init, Promise!Init, DeadlineOf
<1> QED
  BY <1>1, InitInv, Step, PTL DEF Spec, KeepsPromise, Promise!Spec

-----------------------------------------------------------------------------
\* The timeout reaches no further than the deadlines from when the clock was read.
AskedInTime ==
  phase = "asked" =>
    \A id \in Id :
      entries[id] # None =>
        timeout >= 0 /\ (timeout = 0 \/ now + timeout * UnitsPerMs <= entries[id].at + lag)

LEMMA WakeStep ==
  ASSUME Inv, AskedInTime, WakesInTime, [Next]_vars
  PROVE  AskedInTime' /\ WakesInTime'
<1>1. CASE phase' \notin {"asked", "poll"} \/ UNCHANGED <<entries, now, phase, asking>>
  BY <1>1 DEF AskedInTime, WakesInTime, asking
<1>2. CASE Ask
  <2> SUFFICES ASSUME NEW id \in Id, entries[id] # None
               PROVE  /\ timeout' >= 0
                      /\ timeout' = 0 \/ now + timeout' * UnitsPerMs <= entries[id].at + 0
    BY <1>2 DEF Ask, AskedInTime, WakesInTime
  <2>1. PICK m \in DOMAIN heap : m.at = entries[id].at
    <3>1. [id |-> id, at |-> entries[id].at, version |-> entries[id].version]
            \in NodesOf(entries)
      BY DEF NodesOf
    <3> QED
      BY <3>1 DEF Inv, LiveHasNode
  <2>2. PICK n \in Tops : timeout' = TimeoutFor(n.at - now)
    BY <1>2, <2>1 DEF Ask, EmptyBag, SetToBag
  <2>3. n.at \in Nat /\ m.at \in Nat /\ now \in Nat /\ n.at <= m.at
    BY DEF Tops, Inv, TypeOK, Node
  <2>4. /\ timeout' \in Nat
        /\ timeout' = 0 \/ timeout' * UnitsPerMs <= n.at - now
    BY <2>2, <2>3, TimeoutType
  <2>5. timeout' * UnitsPerMs \in Nat
    BY <2>4, TimerAssumption
  <2> QED
    BY <2>1, <2>3, <2>4, <2>5
<1>3. CASE Poll
  BY <1>3, TimerAssumption DEF Poll, Inv, TypeOK, Entry, AskedInTime, WakesInTime
<1>4. CASE Pass
  <2>1. \A id \in Id : entries[id] # None => entries[id].at \in Nat
    BY DEF Inv, TypeOK, Entry
  <2>2. timeout * UnitsPerMs \in Int /\ now \in Nat /\ lag \in Nat
    BY TimerAssumption DEF Inv, TypeOK
  <2> QED
    BY <1>4, <2>1, <2>2 DEF Pass, AskedInTime, WakesInTime
<1> QED
  BY <1>1, <1>2, <1>3, <1>4, Zenon DEF Next, LoopStep, Add, Adjust, Remove, MayCall, Put, Return,
     Discard, Fire, TickEnds, Wake, vars

\* The loop does not sleep past the deadline of an idle client, but for the time
\* between reading the clock and going to sleep.
THEOREM AlwaysWakesInTime == Spec => []WakesInTime
<1>1. Init => AskedInTime /\ WakesInTime
  BY DEF Init, AskedInTime, WakesInTime
<1> QED
  BY <1>1, WakeStep, Invariant, PTL DEF Spec

-----------------------------------------------------------------------------
(* The trie behind the Bloom filter holds what the lines of the list add.  *)
(* The invariant says what each structure holds of the addresses   *)
(* added: the trie's values are theirs and no others, their paths are      *)
(* complete and their bits are set (other bits may be).                    *)

Added == UNION {AddrsOf(l) : l \in done}

FilterInv ==
  /\ todo \in Seq(Line)
  /\ done \subseteq Line
  /\ valued = {NodeOf(k, Width) : k \in Added}
  /\ \A k \in Added : PathOf(k) \subseteq nodes
  /\ \A k \in Added : hash[k] \subseteq bits

\* The division of add_cidr: the addresses from the base on are those that
\* begin with the same bits.
LEMMA BlockIsPrefix ==
  ASSUME NEW n \in Nat \ {0}, NEW a \in Nat, NEW b \in Nat
  PROVE  (a \div n = b \div n) <=> (b - (b % n) <= a /\ a < b - (b % n) + n)
  OBVIOUS

\* The addresses add_cidr adds are the ones that share the prefix.
LEMMA ExpandIsPrefix ==
  ASSUME NEW b \in Addr, NEW m \in 0..Width, NEW a \in Addr
  PROVE  a \in Expand(b, m) <=> SamePrefix(a, b, m)
<1> DEFINE n == 2^(Width - m)
<1>1. n \in Nat \ {0}
  <2>1. Width - m \in 0..Width
    BY WidthAssumption
  <2> QED BY <2>1, PowersOfTwo
<1>2. a \in Nat /\ b \in Nat
  BY DEF Addr
<1> HIDE DEF n
<1>3. b % n \in 0..(n - 1)
  BY <1>1, <1>2
<1>4. (\E i \in 0..(n - 1) : a = b - (b % n) + i) <=> (b - (b % n) <= a /\ a < b - (b % n) + n)
  <2>1. ASSUME b - (b % n) <= a, a < b - (b % n) + n
        PROVE  \E i \in 0..(n - 1) : a = b - (b % n) + i
    <3> DEFINE i == a - (b - (b % n))
    <3>1. i \in 0..(n - 1) /\ a = b - (b % n) + i
      BY <1>1, <1>2, <1>3, <2>1
    <3> QED BY <3>1
  <2> QED BY <1>1, <1>2, <1>3, <2>1
<1>5. a \in Expand(b, m) <=> \E i \in 0..(n - 1) : a = b - (b % n) + i
  BY DEF Expand, n
<1>6. SamePrefix(a, b, m) <=> a \div n = b \div n
  BY DEF SamePrefix, n
<1> QED BY <1>1, <1>2, <1>4, <1>5, <1>6, BlockIsPrefix, Zenon

\* What add_cidr adds for a line is what the line stands for, or of a prefix that
\* is not expanded the address written.
LEMMA AddsWhatIsNamed ==
  ASSUME NEW l \in Line, NEW a \in Addr
  PROVE  a \in AddrsOf(l) <=>
           a \in Named(l) /\ (l.kind = "cidr" /\ l.mask < ExpandFrom => a = l.addr)
<1>1. LineOK(l)
  BY InputAssumption
<1>2. CASE ~Accepted(l)
  BY <1>2 DEF AddrsOf, Named
<1>3. CASE Accepted(l) /\ l.kind # "cidr"
  BY <1>3 DEF AddrsOf, Named
<1>4. CASE Accepted(l) /\ l.kind = "cidr"
  <2>1. l.addr \in Addr /\ l.mask \in 0..Width
    BY <1>1, <1>4, WidthAssumption DEF LineOK, Accepted
  <2>2. SamePrefix(l.addr, l.addr, l.mask)
    BY DEF SamePrefix
  <2>3. a \in Named(l) <=> SamePrefix(a, l.addr, l.mask)
    BY <1>4, <2>2 DEF Named
  <2>4. CASE l.mask >= ExpandFrom
    <3>1. a \in AddrsOf(l) <=> a \in Expand(l.addr, l.mask)
      BY <1>4, <2>4 DEF AddrsOf
    <3>2. a \in Expand(l.addr, l.mask) <=> SamePrefix(a, l.addr, l.mask)
      BY <2>1, ExpandIsPrefix
    <3>3. ~(l.mask < ExpandFrom)
      BY <2>1, <2>4, WidthAssumption
    <3> QED BY <2>3, <3>1, <3>2, <3>3
  <2>5. CASE ~(l.mask >= ExpandFrom)
    <3>1. l.mask < ExpandFrom
      BY <2>1, <2>5, WidthAssumption
    <3>2. AddrsOf(l) = {l.addr}
      BY <1>4, <2>5 DEF AddrsOf
    <3> QED BY <1>4, <2>2, <2>3, <3>1, <3>2
  <2> QED BY <2>4, <2>5
<1> QED BY <1>2, <1>3, <1>4

\* add_cidr adds numbers.
LEMMA AddsNumbers ==
  ASSUME NEW l \in Line
  PROVE  AddrsOf(l) \subseteq Int
<1>1. LineOK(l)
  BY InputAssumption
<1>2. CASE Accepted(l) /\ l.kind = "cidr" /\ l.mask >= ExpandFrom
  <2>1. l.mask \in 1..Width /\ l.addr \in Nat
    BY <1>1, <1>2 DEF LineOK, Addr, Accepted
  <2>2. 2^(Width - l.mask) \in Nat \ {0}
    BY <2>1, WidthAssumption, PowersOfTwo
  <2>3. Expand(l.addr, l.mask) \subseteq Int
    BY <2>1, <2>2 DEF Expand
  <2> QED BY <1>2, <2>3 DEF AddrsOf
<1>3. CASE ~(Accepted(l) /\ l.kind = "cidr" /\ l.mask >= ExpandFrom)
  BY <1>1, <1>3 DEF AddrsOf, LineOK, Addr, Accepted
<1> QED BY <1>2, <1>3

\* Two addresses share a leaf of the trie only when they are the same.
LEMMA LeavesDiffer ==
  ASSUME NEW j \in Int, NEW k \in Int, NodeOf(j, Width) = NodeOf(k, Width)
  PROVE  j = k
<1>1. Width - Width = 0 /\ 2^0 = 1
  BY WidthAssumption
<1>2. j \div 1 = k \div 1
  BY <1>1, Zenon DEF NodeOf
<1> QED BY <1>2

LEMMA FilterInitInv == FilterInit => FilterInv
<1> SUFFICES ASSUME FilterInit PROVE FilterInv
  OBVIOUS
<1>1. todo \in Seq(Line)
  <2>1. PICK n \in 0..MaxLines : todo \in [1..n -> Line]
    BY DEF FilterInit
  <2> QED BY <2>1, WidthAssumption
<1> QED BY <1>1 DEF FilterInit, FilterInv, Added

LEMMA FilterNextInv == FilterInv /\ [FilterNext]_filterVars => FilterInv'
<1> SUFFICES ASSUME FilterInv, [FilterNext]_filterVars PROVE FilterInv'
  OBVIOUS
<1>1. CASE ReadLine
  <2> DEFINE l == Head(todo)
  <2>1. l \in Line /\ Tail(todo) \in Seq(Line)
    BY <1>1 DEF FilterInv, ReadLine
  <2>2. Added' = Added \cup AddrsOf(l)
    BY <1>1 DEF ReadLine, Added
  <2> HIDE DEF l
  <2>3. /\ nodes' = nodes \cup UNION {PathOf(k) : k \in AddrsOf(l)}
        /\ valued' = valued \cup {NodeOf(k, Width) : k \in AddrsOf(l)}
        /\ bits' = bits \cup UNION {hash[k] : k \in AddrsOf(l)}
        /\ todo' = Tail(todo) /\ done' = done \cup {l} /\ hash' = hash
    BY <1>1 DEF ReadLine, AddIps, l
  <2>4. valued' = {NodeOf(k, Width) : k \in Added'}
    BY <2>2, <2>3 DEF FilterInv
  <2>5. \A k \in Added' : PathOf(k) \subseteq nodes' /\ hash'[k] \subseteq bits'
    BY <2>2, <2>3 DEF FilterInv
  <2> QED BY <2>1, <2>3, <2>4, <2>5, Zenon DEF FilterInv
<1>2. CASE LineThrows
  BY <1>2 DEF LineThrows, FilterInv, Added
<1>3. CASE EndOfList
  BY <1>3 DEF EndOfList, FilterInv, Added
<1>4. CASE UNCHANGED filterVars
  BY <1>4 DEF filterVars, FilterInv, Added
<1> QED BY <1>1, <1>2, <1>3, <1>4 DEF FilterNext

LEMMA FilterInvListed == FilterInv => BlocksListed
<1> SUFFICES ASSUME FilterInv, NEW a \in Addr
             PROVE  /\ IsBlocked(a) => \E l \in done : a \in Named(l)
                    /\ \A l \in done :
                         /\ a \in Named(l)
                         /\ l.kind = "cidr" /\ l.mask < ExpandFrom => a = l.addr
                         => IsBlocked(a)
  BY DEF BlocksListed
<1>1. a \in Added => IsBlocked(a)
  BY DEF FilterInv, IsBlocked, Contains, Search
<1>2. ASSUME IsBlocked(a) PROVE a \in Added
  <2>1. PICK k \in Added : NodeOf(a, Width) = NodeOf(k, Width)
    BY <1>2 DEF FilterInv, IsBlocked, Search
  <2>2. k \in Int
    <3>1. PICK l \in done : k \in AddrsOf(l)
      BY DEF Added
    <3> QED BY <3>1, AddsNumbers DEF FilterInv
  <2>3. a \in Int
    BY DEF Addr
  <2> QED BY <2>1, <2>2, <2>3, LeavesDiffer
<1>3. \A l \in done :
        a \in AddrsOf(l) <=>
          a \in Named(l) /\ (l.kind = "cidr" /\ l.mask < ExpandFrom => a = l.addr)
  BY AddsWhatIsNamed DEF FilterInv
<1>4. a \in Added <=> \E l \in done : a \in AddrsOf(l)
  BY DEF Added
<1> QED BY <1>1, <1>2, <1>3, <1>4, Zenon

\* is_blocked answers for the addresses that the lines read so far stand for, and
\* for no others, at every moment of ip_filter::init and after it.
THEOREM FilterBlocksListed == FilterSpec => []BlocksListed
<1>1. FilterSpec => []FilterInv
  BY FilterInitInv, FilterNextInv, PTL DEF FilterSpec
<1> QED BY <1>1, FilterInvListed, PTL
================================================================================

---------------------------- MODULE TunnelProofs -----------------------------
(***************************************************************************)
(* Proofs about Tunnel, for any number of bytes and any size of the        *)
(* kernel's buffer, whether the main loop watches the client or not.       *)
(*                                                                         *)
(* A byte moves from the socket it came from to a buffer, to the other     *)
(* socket and to its peer.  Each move takes it from the head of one        *)
(* sequence to the end of the one before, which leaves the concatenation   *)
(* of all of them as it was.                                               *)
(***************************************************************************)
EXTENDS Tunnel, SequenceTheorems, TLAPS

\* Nothing is relayed before the response that opens the tunnel is on its way.
Opening ==
  /\ pc \in {"connect", "open"} =>
       got["client"] = <<>> /\ tx["client"] = <<>> /\ \A s \in Side : buf[s] = <<>>
  /\ pc \notin {"connect", "open", "done"} => got["client"] # <<>> \/ tx["client"] # <<>>

\* An end that was read has nothing unread behind it, and is passed on only with
\* nothing left in the buffer; a result is reported once, at the end.
Ending ==
  /\ \A s \in Side : eof[s] => fin[s] /\ rx[s] = <<>>
  /\ \A s \in Side : shut[s] => eof[Other(s)] /\ buf[Other(s)] = <<>>
  /\ result # "none" => pc = "done"
  /\ result = "ok" => \A s \in Side : shut[s]

Typed == TypeOK /\ Opening /\ Ending

IInv == Typed /\ InOrder

-----------------------------------------------------------------------------
(***************************************************************************)
(* Sequences.                                                              *)
(***************************************************************************)

\* The head of b becomes the last element of a.
LEMMA Move ==
  ASSUME NEW S, NEW a \in Seq(S), NEW b \in Seq(S), b # <<>>
  PROVE  /\ Append(a, Head(b)) \in Seq(S) /\ Tail(b) \in Seq(S)
         /\ Append(a, Head(b)) \o Tail(b) = a \o b
<1> DEFINE x == Head(b)
           t == Tail(b)
           l == Append(a, x) \o t
           r == a \o b
<1>1. /\ x \in S /\ t \in Seq(S) /\ Len(t) = Len(b) - 1 /\ x = b[1]
      /\ \A i \in 1..Len(t) : t[i] = b[i + 1]
  BY HeadTailProperties
<1>2. /\ Append(a, x) \in Seq(S) /\ Len(Append(a, x)) = Len(a) + 1
      /\ \A i \in 1..Len(a) : Append(a, x)[i] = a[i]
      /\ Append(a, x)[Len(a) + 1] = x
  BY <1>1, AppendProperties
<1>3. /\ l \in Seq(S) /\ Len(l) = Len(a) + 1 + Len(t)
      /\ \A i \in 1 .. (Len(a) + 1 + Len(t)) :
           l[i] = IF i <= Len(a) + 1 THEN Append(a, x)[i] ELSE t[i - (Len(a) + 1)]
  BY <1>1, <1>2, ConcatProperties
<1>4. /\ r \in Seq(S) /\ Len(r) = Len(a) + Len(b)
      /\ \A i \in 1 .. (Len(a) + Len(b)) : r[i] = IF i <= Len(a) THEN a[i] ELSE b[i - Len(a)]
  BY ConcatProperties
<1>5. Len(a) \in Nat /\ Len(b) \in Nat
  BY LenProperties
<1>6. Len(l) = Len(r)
  BY <1>1, <1>3, <1>4, <1>5
<1>7. ASSUME NEW i \in 1..Len(l) PROVE l[i] = r[i]
  <2> DEFINE m == Len(a)
             n == Len(b)
  <2>1. /\ m \in Nat /\ n \in Nat /\ Len(t) = n - 1
        /\ i \in 1 .. (m + 1 + Len(t)) /\ i \in 1 .. (m + n)
    BY <1>1, <1>3, <1>4, <1>5, <1>6
  <2>2. /\ l[i] = IF i <= m + 1 THEN Append(a, x)[i] ELSE t[i - (m + 1)]
        /\ r[i] = IF i <= m THEN a[i] ELSE b[i - m]
    BY ONLY <1>3, <1>4, <2>1
  <2> HIDE DEF x, t, l, r, m, n
  <2>3. CASE i <= m
    <3>1. i \in 1..m /\ i <= m + 1
      BY ONLY <2>1, <2>3
    <3>2. Append(a, x)[i] = a[i]
      BY ONLY <3>1, <1>2 DEF m
    <3> QED BY ONLY <2>2, <2>3, <3>1, <3>2
  <2>4. CASE i = m + 1
    <3>1. ~(i <= m) /\ i <= m + 1 /\ i - m = 1
      BY ONLY <2>1, <2>4
    <3>2. Append(a, x)[i] = x /\ x = b[1]
      BY ONLY <2>4, <1>1, <1>2 DEF m
    <3> QED BY ONLY <2>2, <3>1, <3>2
  <2>5. CASE i > m + 1
    <3>1. /\ ~(i <= m + 1) /\ ~(i <= m)
          /\ i - (m + 1) \in 1 .. (n - 1)
          /\ (i - (m + 1)) + 1 = i - m
      BY ONLY <2>1, <2>5
    <3>2. t[i - (m + 1)] = b[(i - (m + 1)) + 1]
      BY ONLY <2>1, <3>1, <1>1
    <3> QED BY ONLY <2>2, <3>1, <3>2
  <2> QED BY ONLY <2>1, <2>3, <2>4, <2>5
<1>8. l = r
  <2> HIDE DEF l, r
  <2> QED BY <1>3, <1>4, <1>6, <1>7, SeqEqual
<1> QED BY <1>1, <1>2, <1>8

\* Streams of bytes.  Cat hides \o from the provers.
Bytes == Seq(Byte)

Cat(a, b) == a \o b

LEMMA CatBytes ==
  ASSUME NEW a \in Bytes, NEW b \in Bytes
  PROVE  Cat(a, b) \in Bytes
BY ConcatProperties DEF Bytes, Cat

LEMMA CatAssociative ==
  ASSUME NEW a \in Bytes, NEW b \in Bytes, NEW c \in Bytes
  PROVE  Cat(Cat(a, b), c) = Cat(a, Cat(b, c))
<1>1. (a \o b) \o c = a \o (b \o c)
  <2>1. a \in Seq(Byte) /\ b \in Seq(Byte) /\ c \in Seq(Byte)
    BY DEF Bytes
  <2> QED BY ONLY <2>1, ConcatAssociative, SMTT(30)
<1> QED BY ONLY <1>1 DEF Cat

LEMMA CatEmpty ==
  /\ <<>> \in Bytes
  /\ \A a \in Bytes : Cat(<<>>, a) = a /\ Cat(a, <<>>) = a
  /\ \A a \in Bytes : \A b \in Bytes : Cat(a, b) = <<>> <=> a = <<>> /\ b = <<>>
<1>1. <<>> \in Bytes
  BY EmptySeq DEF Bytes
<1>2. \A a \in Bytes : Cat(<<>>, a) = a /\ Cat(a, <<>>) = a
  BY ConcatEmptySeq DEF Bytes, Cat
<1>3. \A a \in Bytes : \A b \in Bytes : Cat(a, b) = <<>> <=> a = <<>> /\ b = <<>>
  <2> SUFFICES ASSUME NEW a \in Bytes, NEW b \in Bytes
               PROVE  Cat(a, b) = <<>> <=> a = <<>> /\ b = <<>>
    OBVIOUS
  <2>1. Len(Cat(a, b)) = Len(a) + Len(b) /\ Cat(a, b) \in Bytes
    BY ConcatProperties DEF Bytes, Cat
  <2>2. \A c \in Bytes : Len(c) \in Nat /\ (c = <<>> <=> Len(c) = 0)
    BY EmptySeq, LenProperties DEF Bytes
  <2> QED BY <2>1, <2>2
<1> QED BY <1>1, <1>2, <1>3

\* A byte moves from b to the end of a, with c before and d behind them.
LEMMA MoveWithin ==
  ASSUME NEW a \in Bytes, NEW b \in Bytes, b # <<>>
  PROVE  /\ Append(a, Head(b)) \in Bytes /\ Tail(b) \in Bytes
         /\ Append(a, Head(b)) # <<>> /\ Len(Append(a, Head(b))) = Len(a) + 1
         /\ Len(Tail(b)) = Len(b) - 1
         /\ Cat(Append(a, Head(b)), Tail(b)) = Cat(a, b)
         /\ \A c \in Bytes : Cat(Cat(c, Append(a, Head(b))), Tail(b)) = Cat(Cat(c, a), b)
<1> DEFINE x == Append(a, Head(b))
           t == Tail(b)
<1>1. x \in Bytes /\ t \in Bytes /\ Cat(x, t) = Cat(a, b)
  BY Move DEF Bytes, Cat
<1>2. x # <<>> /\ Len(x) = Len(a) + 1 /\ Len(t) = Len(b) - 1
  BY HeadTailProperties, AppendProperties DEF Bytes
<1>3. ASSUME NEW c \in Bytes PROVE Cat(Cat(c, x), t) = Cat(Cat(c, a), b)
  <2> HIDE DEF x, t
  <2> QED BY <1>1, CatAssociative
<1> QED BY <1>1, <1>2, <1>3

LEMMA AppendBehind ==
  ASSUME NEW a \in Bytes, NEW b \in Bytes, NEW e \in Byte
  PROVE  /\ Append(b, e) \in Bytes /\ Append(b, e) # <<>>
         /\ Cat(a, Append(b, e)) = Append(Cat(a, b), e)
<1> DEFINE u == <<e>>
<1>1. u \in Bytes /\ \A c \in Bytes : Append(c, e) = Cat(c, u) /\ Append(c, e) \in Bytes
  BY AppendIsConcat, AppendProperties DEF Bytes, Cat
<1>2. Append(b, e) # <<>>
  BY AppendProperties DEF Bytes
<1>3. Cat(a, Append(b, e)) = Append(Cat(a, b), e)
  <2> HIDE DEF u
  <2>1. Cat(a, Cat(b, u)) = Cat(Cat(a, b), u)
    BY <1>1, CatAssociative
  <2>2. Append(b, e) = Cat(b, u) /\ Append(Cat(a, b), e) = Cat(Cat(a, b), u)
    BY <1>1, CatBytes, SMTT(30)
  <2> QED BY <2>1, <2>2
<1> QED BY <1>1, <1>2, <1>3

Counted(n) == [i \in 1..n |-> i]

LEMMA CountedNext ==
  ASSUME NEW n \in Nat
  PROVE  Counted(n) \in Seq(Nat) /\ Counted(n + 1) = Append(Counted(n), n + 1)
<1> DEFINE l == Counted(n + 1)
           r == Append(Counted(n), n + 1)
<1>1. Counted(n) \in Seq(Nat) /\ Len(Counted(n)) = n
  BY DEF Counted
<1>2. l \in Seq(Nat) /\ Len(l) = n + 1 /\ \A i \in 1..(n + 1) : l[i] = i
  BY DEF Counted
<1>3. /\ r \in Seq(Nat) /\ Len(r) = n + 1
      /\ \A i \in 1..n : r[i] = Counted(n)[i]
      /\ r[n + 1] = n + 1
  BY <1>1, AppendProperties
<1>4. \A i \in 1..n : Counted(n)[i] = i
  BY DEF Counted
<1>5. l = r
  <2> HIDE DEF l, r
  <2>1. \A i \in 1..(n + 1) : i \in 1..n \/ i = n + 1
    OBVIOUS
  <2>2. \A i \in 1..(n + 1) : l[i] = r[i]
    BY <1>2, <1>3, <1>4, <2>1
  <2> QED BY <1>2, <1>3, <2>2, SeqEqual
<1> QED BY <1>1, <1>5

LEMMA Others == Other("client") = "upstream" /\ Other("upstream") = "client"
BY DEF Other, Side

-----------------------------------------------------------------------------
(***************************************************************************)
(* Types, and the opening of the tunnel.                                   *)
(***************************************************************************)
LEMMA Sides == \A s \in Side : Other(s) \in Side /\ Other(s) # s /\ Other(Other(s)) = s
BY Others DEF Side

LEMMA InitTyped == Init => TypeOK /\ Opening
<1> SUFFICES ASSUME Init PROVE TypeOK /\ Opening
  OBVIOUS
<1>1. <<>> \in Seq(Byte) /\ Len(<<>>) = 0
  BY EmptySeq
<1> DEFINE none == <<>>
<1>2. /\ buf = [s \in Side |-> none] /\ tx = [s \in Side |-> none]
      /\ got = [s \in Side |-> none] /\ rx = [s \in Side |-> none]
  BY DEF Init, Each
<1>3. none \in Seq(Byte) /\ Len(none) = 0 /\ none = <<>>
  BY <1>1
<1> HIDE DEF none
<1>4. /\ buf \in [Side -> Seq(Byte)] /\ got \in [Side -> Seq(Byte)] /\ rx \in [Side -> Seq(Byte)]
      /\ tx \in [Side -> Seq(Byte)] /\ \A s \in Side : Len(tx[s]) <= SendBuffer
  BY <1>2, <1>3, TunnelAssumption
<1>5. /\ eof \in [Side -> BOOLEAN] /\ shut \in [Side -> BOOLEAN] /\ fin \in [Side -> BOOLEAN]
      /\ rst \in [Side -> BOOLEAN] /\ sent \in [Side -> 0..MaxBytes]
  BY TunnelAssumption DEF Init, Each
<1>6. TypeOK
  BY <1>4, <1>5, Zenon DEF Init, TypeOK
<1>7. Opening
  BY <1>2, <1>3 DEF Init, Opening, Side
<1> QED BY <1>6, <1>7

\* A byte moves from one sequence to another.
LEMMA MoveTyped ==
  ASSUME NEW f \in [Side -> Bytes], NEW g \in [Side -> Bytes], NEW s \in Side, NEW o \in Side,
         g[o] # <<>>
  PROVE  /\ [f EXCEPT ![s] = Append(f[s], Head(g[o]))] \in [Side -> Bytes]
         /\ [g EXCEPT ![o] = Tail(g[o])] \in [Side -> Bytes]
<1>1. Append(f[s], Head(g[o])) \in Bytes /\ Tail(g[o]) \in Bytes
  BY MoveWithin
<1> QED BY <1>1

LEMMA FlushTyped ==
  ASSUME TypeOK, NEW s \in Side, NEW next \in {"flushClient", "shutdown"}, Flush(s, next),
         UNCHANGED <<eof, shut, ready, sent, fin, rst, got, rx, closed>>
  PROVE  TypeOK'
<1> USE TunnelAssumption
<1>1. CASE buf[Other(s)] # <<>> /\ Len(tx[s]) < SendBuffer
           /\ tx' = [tx EXCEPT ![s] = Append(@, Head(buf[Other(s)]))]
           /\ buf' = [buf EXCEPT ![Other(s)] = Tail(@)]
           /\ UNCHANGED <<pc, result>>
  <2>1. buf' \in [Side -> Seq(Byte)] /\ tx' \in [Side -> Seq(Byte)]
    <3>1. buf \in [Side -> Bytes] /\ tx \in [Side -> Bytes] /\ Other(s) \in Side
      BY Sides DEF TypeOK, Bytes
    <3>2. buf' \in [Side -> Bytes] /\ tx' \in [Side -> Bytes]
      BY <1>1, <3>1, MoveTyped
    <3> QED BY <3>2 DEF Bytes
  <2>2. \A r \in Side : Len(tx'[r]) <= SendBuffer
    <3>1. tx'[s] = Append(tx[s], Head(buf[Other(s)])) /\ \A r \in Side \ {s} : tx'[r] = tx[r]
      BY <1>1 DEF TypeOK
    <3>2. Len(tx'[s]) = Len(tx[s]) + 1 /\ Len(tx[s]) \in Nat
      BY <1>1, <3>1, Sides, MoveWithin, LenProperties DEF TypeOK, Bytes
    <3> QED BY <1>1, <3>1, <3>2 DEF TypeOK
  <2> QED BY <1>1, <2>1, <2>2, Zenon DEF TypeOK
<1>2. CASE UNCHANGED <<buf, tx>>
  BY <1>2, SMTT(30) DEF Flush, Return, TypeOK
<1> QED BY <1>1, <1>2 DEF Flush

LEMMA ReadTyped ==
  ASSUME TypeOK, NEW s \in Side, NEW next \in {"readUpstream", "flushUpstream"}, Read(s, next),
         UNCHANGED <<shut, ready, sent, fin, rst, got, tx, closed>>
  PROVE  TypeOK'
<1>1. CASE /\ rx[s] # <<>>
           /\ buf' = [buf EXCEPT ![s] = Append(@, Head(rx[s]))]
           /\ rx' = [rx EXCEPT ![s] = Tail(@)]
           /\ UNCHANGED <<pc, result, eof>>
  <2>1. buf' \in [Side -> Seq(Byte)] /\ rx' \in [Side -> Seq(Byte)]
    BY <1>1, MoveTyped DEF TypeOK, Bytes
  <2> QED BY <1>1, <2>1 DEF TypeOK
<1>2. CASE UNCHANGED <<buf, rx>>
  <2>1. eof' \in [Side -> BOOLEAN]
    BY <1>2, Zenon DEF Read, TypeOK
  <2> QED BY <1>2, <2>1 DEF Read, Return, TypeOK
<1> QED BY <1>1, <1>2 DEF Read

LEMMA PeerSendsTyped ==
  ASSUME TypeOK, NEW s \in Side, PeerSends(s)
  PROVE  /\ TypeOK'
         /\ sent'[s] = sent[s] + 1 /\ sent[s] + 1 \in Byte
         /\ rx'[s] = Append(rx[s], sent[s] + 1)
         /\ \A r \in Side \ {s} : rx'[r] = rx[r] /\ sent'[r] = sent[r]
<1> USE TunnelAssumption
<1>1. sent[s] \in 0..MaxBytes /\ sent[s] < MaxBytes
  BY DEF PeerSends, TypeOK
<1>2. sent'[s] = sent[s] + 1 /\ sent' \in [Side -> 0..MaxBytes] /\ sent[s] + 1 \in Byte
      /\ \A r \in Side \ {s} : sent'[r] = sent[r]
  <2>1. sent' = [sent EXCEPT ![s] = sent[s] + 1] /\ sent \in [Side -> 0..MaxBytes]
    BY DEF PeerSends, TypeOK
  <2>2. sent[s] + 1 \in 0..MaxBytes
    BY ONLY <1>1, TunnelAssumption
  <2> QED BY ONLY <2>1, <2>2, s \in Side DEF Byte
<1>3. Append(rx[s], sent[s] + 1) \in Seq(Byte)
  BY <1>2, AppendBehind DEF TypeOK, Bytes
<1>4. rx' \in [Side -> Seq(Byte)] /\ rx'[s] = Append(rx[s], sent[s] + 1)
      /\ \A r \in Side \ {s} : rx'[r] = rx[r]
  BY <1>2, <1>3 DEF PeerSends, TypeOK
<1> QED BY <1>2, <1>4 DEF PeerSends, TypeOK, worker

LEMMA PeerReadsTyped ==
  ASSUME TypeOK, NEW s \in Side, PeerReads(s)
  PROVE  TypeOK'
<1> USE TunnelAssumption
<1>1. got' \in [Side -> Seq(Byte)] /\ tx' \in [Side -> Seq(Byte)]
  BY MoveTyped DEF PeerReads, TypeOK, Bytes
<1>2. \A r \in Side : Len(tx'[r]) <= SendBuffer
  <2>1. tx'[s] = Tail(tx[s]) /\ \A r \in Side \ {s} : tx'[r] = tx[r]
    BY DEF PeerReads, TypeOK
  <2>2. Len(tx'[s]) = Len(tx[s]) - 1 /\ Len(tx[s]) \in Nat
    BY <2>1, HeadTailProperties, LenProperties DEF PeerReads, TypeOK
  <2>3. \A r \in Side : Len(tx[r]) <= SendBuffer
    BY DEF TypeOK
  <2>4. SendBuffer \in Nat
    OBVIOUS
  <2>5. Len(tx'[s]) <= SendBuffer
    BY <2>2, <2>3, <2>4
  <2> QED BY <2>1, <2>3, <2>5, Zenon
<1> QED BY <1>1, <1>2, SMTT(30) DEF PeerReads, TypeOK, worker

LEMMA OpenTyped ==
  ASSUME TypeOK, Opening, Open
  PROVE  TypeOK'
<1> USE TunnelAssumption
<1>1. CASE tx' = [tx EXCEPT !["client"] = Append(@, Established)] /\ pc' = "flushUpstream" /\ result' = result
  <2>1. tx["client"] = <<>> /\ Established \in Byte /\ <<>> \in Bytes
    BY CatEmpty DEF Open, Opening, Established, Byte
  <2>2. Append(tx["client"], Established) \in Seq(Byte) /\ Len(Append(tx["client"], Established)) = 1
    BY <2>1, AppendProperties DEF Bytes
  <2>3. /\ tx'["client"] = Append(tx["client"], Established) /\ \A r \in Side \ {"client"} : tx'[r] = tx[r]
        /\ tx' \in [Side -> Seq(Byte)]
    BY <1>1, <2>2 DEF TypeOK, Side
  <2>4. \A r \in Side : Len(tx'[r]) <= SendBuffer
    <3>1. Len(tx'["client"]) <= SendBuffer
      BY <2>2, <2>3
    <3>2. \A r \in Side : Len(tx[r]) <= SendBuffer
      BY DEF TypeOK
    <3> QED BY <2>3, <3>1, <3>2
  <2> QED BY <1>1, <2>3, <2>4 DEF Open, TypeOK
<1>2. CASE UNCHANGED tx
  BY <1>2 DEF Open, Return, TypeOK
<1> QED BY <1>1, <1>2 DEF Open

LEMMA NextTypeOK ==
  ASSUME TypeOK, Opening, [Next]_vars
  PROVE  TypeOK'
<1> USE TunnelAssumption
<1>1. CASE Open
  BY <1>1, OpenTyped
<1>2. CASE FlushUpstream
  BY <1>2, FlushTyped DEF FlushUpstream, Side
<1>3. CASE FlushClient
  BY <1>3, FlushTyped DEF FlushClient, Side
<1>4. CASE ReadClient
  BY <1>4, ReadTyped DEF ReadClient, Side
<1>5. CASE ReadUpstream
  BY <1>5, ReadTyped DEF ReadUpstream, Side
<1>6. CASE Connect
  BY <1>6 DEF Connect, Return, TypeOK, peers
<1>7. CASE Shutdown
  <2>1. shut' \in [Side -> BOOLEAN]
    BY <1>7, Sides DEF Shutdown, Drained, TypeOK
  <2> QED BY <1>7, <2>1, SMTT(30) DEF Shutdown, Return, TypeOK, peers
<1>8. CASE Poll
  BY <1>8 DEF Poll, Return, TypeOK, peers
<1>9. ASSUME NEW s \in Side, Peer(s) PROVE TypeOK'
  <2>1. CASE PeerSends(s)
    BY <2>1, PeerSendsTyped
  <2>2. CASE PeerReads(s)
    BY <2>2, PeerReadsTyped
  <2>3. CASE PeerEnds(s)
    BY <2>3 DEF PeerEnds, TypeOK, worker
  <2>4. CASE PeerResets(s)
    BY <2>4 DEF PeerResets, TypeOK, worker
  <2> QED BY <1>9, <2>1, <2>2, <2>3, <2>4 DEF Peer
<1>10. CASE MainLoopCloses
  BY <1>10 DEF MainLoopCloses, TypeOK, worker
<1>11. CASE UNCHANGED vars
  BY <1>11 DEF vars, worker, peers, TypeOK
<1> QED BY <1>1, <1>2, <1>3, <1>4, <1>5, <1>6, <1>7, <1>8, <1>9, <1>10, <1>11 DEF Next, Step, Done

LEMMA FlushOpening ==
  ASSUME TypeOK, Opening, NEW s \in Side, NEW next \in {"flushClient", "shutdown"}, Flush(s, next),
         pc \in {"flushUpstream", "flushClient"}, UNCHANGED got
  PROVE  Opening'
<1>1. pc' \notin {"connect", "open"}
  BY DEF Flush, Return
<1>2. tx["client"] # <<>> => tx'["client"] # <<>>
  <2>1. CASE UNCHANGED tx
    BY <2>1
  <2>2. CASE buf[Other(s)] # <<>> /\ tx' = [tx EXCEPT ![s] = Append(@, Head(buf[Other(s)]))]
    BY <2>2, MoveWithin, Sides, Zenon DEF TypeOK, Bytes, Side
  <2> QED BY <2>1, <2>2 DEF Flush
<1> QED BY <1>1, <1>2 DEF Opening

LEMMA NextOpening ==
  ASSUME TypeOK, Opening, [Next]_vars
  PROVE  Opening'
<1>1. CASE Open
  <2>1. CASE tx' = [tx EXCEPT !["client"] = Append(@, Established)] /\ pc' = "flushUpstream"
    <3>1. tx["client"] = <<>> /\ Established \in Byte /\ <<>> \in Bytes
      BY <1>1, TunnelAssumption, CatEmpty DEF Open, Opening, Established, Byte
    <3>2. tx'["client"] = Append(tx["client"], Established)
      BY <2>1 DEF TypeOK, Side
    <3>3. tx'["client"] # <<>>
      BY <3>1, <3>2, AppendBehind
    <3> QED BY <2>1, <3>3 DEF Opening
  <2>2. CASE pc' = "done"
    BY <2>2 DEF Opening
  <2> QED BY <1>1, <2>1, <2>2 DEF Open, Return
<1>2. CASE FlushUpstream
  BY <1>2, FlushOpening DEF FlushUpstream, Side
<1>3. CASE FlushClient
  BY <1>3, FlushOpening DEF FlushClient, Side
<1>4. CASE ReadClient \/ ReadUpstream
  BY <1>4 DEF ReadClient, ReadUpstream, Read, Return, Opening
<1>5. CASE Connect
  BY <1>5 DEF Connect, Return, peers, Opening
<1>6. CASE Shutdown
  BY <1>6 DEF Shutdown, Return, peers, Opening
<1>7. CASE Poll
  BY <1>7 DEF Poll, Return, peers, Opening
<1>8. ASSUME NEW s \in Side, PeerReads(s) PROVE Opening'
  <2>1. CASE s = "client"
    <3>1. got'["client"] # <<>>
      BY <1>8, <2>1, MoveWithin, Zenon DEF PeerReads, TypeOK, Bytes, Side
    <3> QED BY <1>8, <2>1, <3>1 DEF PeerReads, Opening, worker
  <2>2. CASE s # "client"
    <3>1. tx'["client"] = tx["client"] /\ got'["client"] = got["client"]
      BY <1>8, <2>2 DEF PeerReads, TypeOK, Side
    <3> QED BY <1>8, <3>1, ZenonT(30) DEF PeerReads, Opening, worker
  <2> QED BY <2>1, <2>2
<1>9. ASSUME NEW s \in Side, PeerSends(s) \/ PeerEnds(s) \/ PeerResets(s) PROVE Opening'
  BY <1>9 DEF PeerSends, PeerEnds, PeerResets, Opening, worker
<1>10. CASE MainLoopCloses
  BY <1>10 DEF MainLoopCloses, Opening, worker
<1>11. CASE UNCHANGED vars
  BY <1>11 DEF vars, worker, peers, Opening
<1> QED BY <1>1, <1>2, <1>3, <1>4, <1>5, <1>6, <1>7, <1>8, <1>9, <1>10, <1>11 DEF Next, Step, Done, Peer

-----------------------------------------------------------------------------
(***************************************************************************)
(* The ends.                                                               *)
(***************************************************************************)
LEMMA InitEnding == Init => Ending
BY Sides DEF Init, Ending, Each

LEMMA FlushEnding ==
  ASSUME TypeOK, Ending, NEW s \in Side, NEW next, Flush(s, next),
         pc \in {"flushUpstream", "flushClient"}, UNCHANGED <<eof, shut, fin, rx>>
  PROVE  Ending'
<1>1. \A r \in Side : r # Other(s) \/ buf[r] = <<>> => buf'[r] = buf[r]
  BY Sides, SMTT(30) DEF Flush, TypeOK
<1>2. \A r \in Side : shut'[r] => eof'[Other(r)] /\ buf'[Other(r)] = <<>>
  BY <1>1, Sides DEF Ending
<1>3. result = "none" /\ result' # "ok" /\ (result' # "none" => pc' = "done")
  BY DEF Flush, Return, Ending
<1> QED BY <1>2, <1>3 DEF Ending

LEMMA ReadEnding ==
  ASSUME TypeOK, Ending, NEW s \in Side, NEW next, Read(s, next),
         pc \in {"readClient", "readUpstream"}, UNCHANGED <<shut, fin>>
  PROVE  Ending'
<1>1. \A r \in Side : eof'[r] => fin[r] /\ rx'[r] = <<>>
  <2>1. CASE rx[s] # <<>> /\ rx' = [rx EXCEPT ![s] = Tail(@)] /\ UNCHANGED eof
    <3>1. ~eof[s] /\ \A r \in Side \ {s} : rx'[r] = rx[r]
      BY <2>1 DEF TypeOK, Ending
    <3> QED BY <2>1, <3>1 DEF Ending
  <2>2. CASE UNCHANGED <<rx, eof>>
    BY <2>2 DEF Ending
  <2>3. CASE /\ s \in ready => ~Broken(s) /\ rx[s] = <<>>
             /\ eof' = [eof EXCEPT ![s] = @ \/ (s \in ready /\ fin[s])]
             /\ UNCHANGED rx
    <3>1. eof'[s] => eof[s] \/ (fin[s] /\ rx[s] = <<>>)
      BY <2>3 DEF TypeOK
    <3>2. \A r \in Side \ {s} : eof'[r] = eof[r]
      BY <2>3 DEF TypeOK
    <3> QED BY <2>3, <3>1, <3>2 DEF Ending
  <2> QED BY <2>1, <2>2, <2>3 DEF Read
<1>2. \A r \in Side : eof[r] => eof'[r] /\ buf'[r] = buf[r]
  BY ZenonT(30) DEF Read, TypeOK, Ending
<1>3. \A r \in Side : shut'[r] => eof'[Other(r)] /\ buf'[Other(r)] = <<>>
  BY <1>2, Sides DEF Ending
<1>4. result = "none" /\ result' # "ok" /\ (result' # "none" => pc' = "done")
  BY DEF Read, Return, Ending
<1> QED BY <1>1, <1>3, <1>4 DEF Ending

LEMMA NextEnding ==
  ASSUME TypeOK, Ending, [Next]_vars
  PROVE  Ending'
<1>1. CASE FlushUpstream
  BY <1>1, FlushEnding DEF FlushUpstream, Side
<1>2. CASE FlushClient
  BY <1>2, FlushEnding DEF FlushClient, Side
<1>3. CASE ReadClient
  BY <1>3, ReadEnding DEF ReadClient, Side
<1>4. CASE ReadUpstream
  BY <1>4, ReadEnding DEF ReadUpstream, Side
<1>5. CASE Connect \/ Open
  BY <1>5 DEF Connect, Open, Return, peers, Ending
<1>6. CASE Shutdown
  <2>1. \A r \in Side : shut'[r] <=> shut[r] \/ Drained(Other(r))
    BY <1>6, Zenon DEF Shutdown
  <2>2. \A r \in Side : shut'[r] => eof[Other(r)] /\ buf[Other(r)] = <<>>
    BY <2>1, SMTT(30) DEF Drained, Ending
  <2>3. result = "none" /\ (result' # "none" => pc' = "done" /\ \A r \in Side : Drained(r))
    BY <1>6 DEF Shutdown, Return, Ending
  <2>4. result' = "ok" => \A r \in Side : shut'[r]
    BY <2>1, <2>3, Sides
  <2> QED BY <1>6, <2>2, <2>3, <2>4 DEF Shutdown, Ending, peers
<1>7. CASE Poll
  BY <1>7 DEF Poll, Return, peers, Ending
<1>8. ASSUME NEW s \in Side, Peer(s) PROVE Ending'
  <2>1. \A r \in Side : fin[r] => fin'[r] /\ (eof[r] => rx'[r] = rx[r])
    BY <1>8, Zenon DEF Peer, PeerSends, PeerEnds, PeerReads, PeerResets, TypeOK, Ending
  <2>2. UNCHANGED worker
    BY <1>8 DEF Peer, PeerSends, PeerEnds, PeerReads, PeerResets
  <2> QED BY <2>1, <2>2 DEF Ending, worker
<1>9. CASE MainLoopCloses
  BY <1>9 DEF MainLoopCloses, Ending, worker
<1>10. CASE UNCHANGED vars
  BY <1>10 DEF vars, worker, peers, Ending
<1> QED BY <1>1, <1>2, <1>3, <1>4, <1>5, <1>6, <1>7, <1>8, <1>9, <1>10 DEF Next, Step, Done

-----------------------------------------------------------------------------
(***************************************************************************)
(* The order of the bytes.                                                 *)
(***************************************************************************)

\* InOrder, one direction at a time and with Cat.
Relayed(s) == Cat(got[Other(s)], tx[Other(s)])

Front(s) == IF s = "upstream" /\ Relayed("upstream") # <<>> THEN <<Established>> ELSE <<>>

Ordered(s) == Cat(Cat(Relayed(s), buf[s]), rx[s]) = Cat(Front(s), Counted(sent[s]))

LEMMA InOrderIsOrdered == InOrder <=> \A s \in Side : Ordered(s)
BY Others, Zenon DEF InOrder, Ordered, Relayed, Front, Stream, Cat, Counted

LEMMA Placed ==
  ASSUME TypeOK, NEW s \in Side
  PROVE  /\ got[s] \in Bytes /\ tx[s] \in Bytes /\ buf[s] \in Bytes /\ rx[s] \in Bytes
         /\ Relayed(s) \in Bytes /\ Front(s) \in Bytes
         /\ sent[s] \in Nat /\ Counted(sent[s]) \in Bytes
<1>1. got[s] \in Bytes /\ tx[s] \in Bytes /\ buf[s] \in Bytes /\ rx[s] \in Bytes
  BY DEF TypeOK, Bytes
<1>2. Relayed(s) \in Bytes
  BY Sides, CatBytes DEF Relayed, TypeOK, Bytes
<1>3. Established \in Byte
  BY TunnelAssumption DEF Established, Byte
<1>4. Front(s) \in Bytes
  BY <1>3, EmptySeq DEF Front, Bytes
<1>5. sent[s] \in 0..MaxBytes
  BY DEF TypeOK
<1>6. \A i \in 1..sent[s] : i \in Byte
  BY <1>5, TunnelAssumption DEF Byte
<1>7. sent[s] \in Nat /\ Counted(sent[s]) \in Bytes
  BY <1>5, <1>6, TunnelAssumption DEF Counted, Bytes
<1> QED BY <1>1, <1>2, <1>4, <1>7

\* What leaves alone the places of a direction leaves its order alone.
LEMMA SamePlaces ==
  ASSUME NEW s \in Side, Ordered(s), Relayed(s)' = Relayed(s),
         buf'[s] = buf[s], rx'[s] = rx[s], sent'[s] = sent[s]
  PROVE  Ordered(s)'
BY Others DEF Ordered, Front

LEMMA PeerReadsOrdered ==
  ASSUME TypeOK, NEW o \in Side, PeerReads(o), NEW s \in Side, Ordered(s)
  PROVE  Ordered(s)'
<1>1. Relayed(s)' = Relayed(s)
  <2>1. CASE Other(s) = o
    <3>1. got'[o] = Append(got[o], Head(tx[o])) /\ tx'[o] = Tail(tx[o])
      BY DEF PeerReads, TypeOK
    <3> QED BY <2>1, <3>1, Placed, MoveWithin DEF Relayed, PeerReads
  <2>2. CASE Other(s) # o
    BY <2>2, Sides DEF PeerReads, Relayed, TypeOK
  <2> QED BY <2>1, <2>2
<1> QED BY <1>1, SamePlaces DEF PeerReads, worker

LEMMA PeerSendsOrdered ==
  ASSUME TypeOK, NEW o \in Side, PeerSends(o), NEW s \in Side, Ordered(s)
  PROVE  Ordered(s)'
<1>1. UNCHANGED <<got, tx, buf>>
  BY DEF PeerSends, worker
<1>2. Relayed(s)' = Relayed(s) /\ Front(s)' = Front(s)
  BY <1>1 DEF Relayed, Front
<1>3. CASE s = o
  <2> DEFINE n == sent[s]
             c == Cat(Relayed(s), buf[s])
  <2>1. /\ n \in Nat /\ n + 1 \in Byte /\ c \in Bytes /\ rx[s] \in Bytes
        /\ Front(s) \in Bytes /\ Counted(n) \in Bytes
    BY <1>3, Placed, CatBytes, PeerSendsTyped
  <2>2. sent'[s] = n + 1 /\ rx'[s] = Append(rx[s], n + 1)
    BY <1>3, PeerSendsTyped
  <2>3. Counted(n + 1) = Append(Counted(n), n + 1)
    BY <2>1, CountedNext, Zenon
  <2>4. Cat(c, rx[s]) = Cat(Front(s), Counted(n))
    BY DEF Ordered
  <2>5. Ordered(s)' <=> Cat(c, rx'[s]) = Cat(Front(s), Counted(sent'[s]))
    BY <1>1, <1>2 DEF Ordered
  <2> HIDE DEF n, c
  <2>6. Cat(c, Append(rx[s], n + 1)) = Append(Cat(c, rx[s]), n + 1)
    BY <2>1, AppendBehind, ZenonT(30)
  <2>7. Cat(Front(s), Append(Counted(n), n + 1)) = Append(Cat(Front(s), Counted(n)), n + 1)
    BY <2>1, AppendBehind, ZenonT(30)
  <2> QED BY <2>2, <2>3, <2>4, <2>5, <2>6, <2>7, Zenon
<1>4. CASE s # o
  BY <1>1, <1>2, <1>4, PeerSendsTyped, SamePlaces
<1> QED BY <1>3, <1>4

LEMMA FlushOrdered ==
  ASSUME TypeOK, Opening, NEW o \in Side, NEW next, Flush(o, next),
         pc \in {"flushUpstream", "flushClient"}, UNCHANGED <<got, rx, sent>>,
         NEW s \in Side, Ordered(s)
  PROVE  Ordered(s)'
<1>1. CASE buf[Other(o)] # <<>> /\ s = Other(o)
           /\ tx' = [tx EXCEPT ![o] = Append(@, Head(buf[Other(o)]))]
           /\ buf' = [buf EXCEPT ![Other(o)] = Tail(@)]
  <2>1. Other(s) = o
    BY <1>1, Sides
  <2>2. /\ got[o] \in Bytes /\ tx[o] \in Bytes /\ buf[s] \in Bytes /\ buf[s] # <<>>
        /\ tx'[o] = Append(tx[o], Head(buf[s])) /\ buf'[s] = Tail(buf[s])
    BY <1>1, Placed, SMTT(30) DEF TypeOK
  <2>3. Relayed(s) = Cat(got[o], tx[o]) /\ Relayed(s)' = Cat(got[o], tx'[o])
    BY <2>1 DEF Relayed
  <2>4. Cat(Relayed(s)', buf'[s]) = Cat(Relayed(s), buf[s])
    BY <2>2, <2>3, MoveWithin, SMTT(30)
  <2>5. tx'[o] \in Bytes /\ tx'[o] # <<>>
    BY <2>2, MoveWithin, Zenon
  <2>6. Relayed(s)' # <<>>
    <3>1. Cat(got[o], tx'[o]) # <<>>
      BY <2>2, <2>5, CatEmpty, ZenonT(30)
    <3> QED BY <2>3, <3>1
  <2>7. s = "upstream" => Relayed(s) # <<>>
    BY <2>1, <2>2, <2>3, Others, CatEmpty DEF Opening
  <2>8. Front(s)' = Front(s)
    BY <2>6, <2>7 DEF Front
  <2> QED BY <2>4, <2>8 DEF Ordered
<1>2. CASE /\ s # Other(o)
           /\ tx' = [tx EXCEPT ![o] = Append(@, Head(buf[Other(o)]))]
           /\ buf' = [buf EXCEPT ![Other(o)] = Tail(@)]
  <2>1. Other(s) # o
    BY <1>2, Sides
  <2>2. tx'[Other(s)] = tx[Other(s)] /\ buf'[s] = buf[s]
    BY <1>2, <2>1, Sides, SMTT(30) DEF TypeOK
  <2> QED BY <2>2, SamePlaces DEF Relayed
<1>3. CASE UNCHANGED <<tx, buf>>
  BY <1>3, SamePlaces, SMTT(30) DEF Relayed
<1> QED BY <1>1, <1>2, <1>3, SMTT(30) DEF Flush

LEMMA ReadOrdered ==
  ASSUME TypeOK, NEW o \in Side, NEW next, Read(o, next), UNCHANGED <<got, tx, sent>>,
         NEW s \in Side, Ordered(s)
  PROVE  Ordered(s)'
<1>1. Relayed(s)' = Relayed(s) /\ Front(s)' = Front(s)
  BY DEF Relayed, Front
<1>2. CASE /\ rx[o] # <<>> /\ s = o
           /\ buf' = [buf EXCEPT ![o] = Append(@, Head(rx[o]))]
           /\ rx' = [rx EXCEPT ![o] = Tail(@)]
  <2>1. buf'[s] = Append(buf[s], Head(rx[s])) /\ rx'[s] = Tail(rx[s])
    BY <1>2 DEF TypeOK
  <2>2. Cat(Cat(Relayed(s), buf'[s]), rx'[s]) = Cat(Cat(Relayed(s), buf[s]), rx[s])
    <3>1. Relayed(s) \in Bytes /\ buf[s] \in Bytes /\ rx[s] \in Bytes
      BY Placed
    <3> QED BY <1>2, <2>1, <3>1, MoveWithin
  <2> QED BY <1>1, <2>2 DEF Ordered
<1>3. CASE /\ s # o
           /\ buf' = [buf EXCEPT ![o] = Append(@, Head(rx[o]))]
           /\ rx' = [rx EXCEPT ![o] = Tail(@)]
  <2>1. buf'[s] = buf[s] /\ rx'[s] = rx[s]
    BY <1>3, SMTT(30) DEF TypeOK
  <2> QED BY <1>1, <2>1, SamePlaces
<1>4. CASE UNCHANGED <<buf, rx>>
  BY <1>1, <1>4, SamePlaces
<1> QED BY <1>2, <1>3, <1>4 DEF Read

LEMMA OpenOrdered ==
  ASSUME TypeOK, Opening, Open, NEW s \in Side, Ordered(s)
  PROVE  Ordered(s)'
<1>1. CASE tx' = [tx EXCEPT !["client"] = Append(@, Established)]
  <2>1. CASE s = "client"
    <3>1. tx'[Other(s)] = tx[Other(s)]
      BY <1>1, <2>1, Others DEF TypeOK, Side
    <3> QED BY <3>1, SamePlaces DEF Open, Relayed
  <2>2. CASE s = "upstream"
    <3> DEFINE e == <<Established>>
               c == Counted(sent[s])
    <3>1. /\ got["client"] = <<>> /\ tx["client"] = <<>> /\ buf[s] = <<>>
          /\ got'["client"] = <<>> /\ buf'[s] = <<>> /\ rx'[s] = rx[s] /\ sent'[s] = sent[s]
      BY DEF Open, Opening
    <3>2. tx'["client"] = e
      BY <1>1, <3>1 DEF TypeOK, Side
    <3>3. e \in Bytes /\ e # <<>> /\ rx[s] \in Bytes /\ c \in Bytes
      BY Placed, TunnelAssumption DEF Established, Byte, Bytes
    <3> HIDE DEF e, c
    <3>4. Relayed(s) = <<>> /\ Relayed(s)' = e
      BY <2>2, <3>1, <3>2, <3>3, Others, CatEmpty DEF Relayed
    <3>5. Front(s) = <<>> /\ Front(s)' = e
      BY <2>2, <3>3, <3>4, SMTT(30) DEF Front, e
    <3>6. rx[s] = c
      BY <3>1, <3>3, <3>4, <3>5, CatEmpty DEF Ordered, c
    <3>7. Cat(Cat(Relayed(s)', buf'[s]), rx'[s]) = Cat(e, c)
      BY <3>1, <3>3, <3>4, <3>6, CatEmpty, SMTT(30)
    <3> QED BY <3>1, <3>5, <3>7 DEF Ordered, c
  <2> QED BY <2>1, <2>2 DEF Side
<1>2. CASE UNCHANGED tx
  BY <1>2, SamePlaces DEF Open, Relayed
<1> QED BY <1>1, <1>2 DEF Open

LEMMA InitOrdered == Init => InOrder
<1> SUFFICES ASSUME Init, NEW s \in Side PROVE Ordered(s)
  BY InOrderIsOrdered
<1>1. /\ got[Other(s)] = <<>> /\ tx[Other(s)] = <<>> /\ buf[s] = <<>> /\ rx[s] = <<>> /\ sent[s] = 0
      /\ got["client"] = <<>> /\ tx["client"] = <<>>
  BY Sides DEF Init, Each, Side
<1>2. Relayed(s) = <<>> /\ Relayed("upstream") = <<>>
  BY <1>1, CatEmpty, Others DEF Relayed
<1>3. Front(s) = <<>> /\ Counted(0) = <<>>
  BY <1>2 DEF Front, Counted
<1> QED BY <1>1, <1>2, <1>3, CatEmpty DEF Ordered

LEMMA NextOrdered ==
  ASSUME TypeOK, Opening, InOrder, [Next]_vars
  PROVE  InOrder'
<1> SUFFICES ASSUME NEW s \in Side PROVE Ordered(s)'
  BY Others, Zenon DEF InOrder, Ordered, Relayed, Front, Stream, Cat, Counted
<1>1. Ordered(s)
  BY InOrderIsOrdered
<1>2. CASE Open
  BY <1>1, <1>2, OpenOrdered
<1>3. CASE FlushUpstream
  BY <1>1, <1>3, FlushOrdered DEF FlushUpstream, Side
<1>4. CASE FlushClient
  BY <1>1, <1>4, FlushOrdered DEF FlushClient, Side
<1>5. CASE ReadClient
  BY <1>1, <1>5, ReadOrdered DEF ReadClient, Side
<1>6. CASE ReadUpstream
  BY <1>1, <1>6, ReadOrdered DEF ReadUpstream, Side
<1>7. ASSUME NEW o \in Side, PeerReads(o) PROVE Ordered(s)'
  BY <1>1, <1>7, PeerReadsOrdered
<1>8. ASSUME NEW o \in Side, PeerSends(o) PROVE Ordered(s)'
  BY <1>1, <1>8, PeerSendsOrdered
<1>9. CASE UNCHANGED <<got, tx, buf, rx, sent>>
  BY <1>1, <1>9, SamePlaces DEF Relayed
<1> QED
  <2>1. Connect \/ Shutdown \/ Poll \/ MainLoopCloses \/ UNCHANGED vars => UNCHANGED <<got, tx, buf, rx, sent>>
    BY DEF Connect, Shutdown, Poll, MainLoopCloses, vars, peers, worker
  <2>2. ASSUME NEW o \in Side, PeerEnds(o) \/ PeerResets(o) PROVE UNCHANGED <<got, tx, buf, rx, sent>>
    BY <2>2, SMTT(30) DEF PeerEnds, PeerResets, worker
  <2> QED BY <1>2, <1>3, <1>4, <1>5, <1>6, <1>7, <1>8, <1>9, <2>1, <2>2, SMTT(30) DEF Next, Step, Done, Peer

-----------------------------------------------------------------------------
LEMMA Inductive == Spec => []IInv
<1>1. Init => IInv
  BY InitTyped, InitEnding, InitOrdered DEF IInv, Typed
<1>2. IInv /\ [Next]_vars => IInv'
  BY NextTypeOK, NextOpening, NextEnding, NextOrdered DEF IInv, Typed
<1> QED BY <1>1, <1>2, PTL DEF Spec

\* Whatever the peers send and however the kernel splits it, every byte of a
\* peer is in one place on its way to the other, in the order it was sent.
THEOREM KeepsOrder == Spec => []InOrder
<1>1. IInv => InOrder
  BY DEF IInv
<1> QED BY Inductive, <1>1, PTL

\* A side is told of the other's end only after all of its bytes were passed on,
\* and success is reported only after both ends were.
THEOREM EndsAfterData == Spec => []EndAfterData
<1>1. IInv => EndAfterData
  BY Sides DEF IInv, Typed, Ending, EndAfterData
<1> QED BY Inductive, <1>1, PTL
\* The loop always has an event to wait for when a direction is open, so the
\* `continue' that would skip poll is never taken.
THEOREM AlwaysWaits == Spec => NeverSpins
<1>1. ASSUME Shutdown PROVE pc' # "flushUpstream"
  <2>1. CASE \A s \in Side : Drained(s)
    BY <1>1, <2>1 DEF Shutdown, Return
  <2>2. ASSUME NEW s \in Side, ~Drained(s) PROVE pc' # "flushUpstream"
    <3>1. WantsIn(s) \/ WantsOut(Other(s))
      BY <2>2, Sides DEF Drained, WantsIn, WantsOut
    <3>2. \E r \in Side : WantsIn(r) \/ WantsOut(r)
      BY <3>1, Sides, SMTT(30)
    <3> QED BY <1>1, <2>2, <3>2 DEF Shutdown
  <2> QED BY <2>1, <2>2
<1>2. pc = "shutdown" /\ Next => Shutdown \/ UNCHANGED pc
  BY DEF Next, Step, Connect, Open, FlushUpstream, FlushClient, Poll, ReadClient, ReadUpstream,
         MainLoopCloses, Done, Peer, PeerSends, PeerEnds, PeerReads, PeerResets, worker, vars
<1>3. [Next]_vars => [pc = "shutdown" => pc' # "flushUpstream"]_vars
  BY <1>1, <1>2 DEF vars, worker
<1> QED BY <1>3, PTL DEF Spec, NeverSpins
=============================================================================

------------------------------- MODULE Tunnel -------------------------------
(***************************************************************************)
(* forward_connect_tunnel (http_proxy.cpp): a worker thread relays bytes   *)
(* between the client's socket and the upstream's until both directions    *)
(* have ended.  Everything is modelled once for both sockets, which the    *)
(* code treats alike: what is read from one is buffered, then sent to the  *)
(* other.                                                                  *)
(*                                                                         *)
(* Every recv and send is a step of its own and moves one byte, so the     *)
(* peers and the kernel can do anything in between.  The bytes of a peer   *)
(* are numbered in the order it sends them.  EINTR only repeats a call     *)
(* and is left out.                                                        *)
(***************************************************************************)
EXTENDS Naturals, Sequences

CONSTANTS
  MaxBytes,     \* how many bytes each peer may send
  SendBuffer,   \* how many sent bytes the kernel keeps for a slow peer
  Watched       \* the main loop still watches the client's descriptor

ASSUME TunnelAssumption ==
  /\ MaxBytes \in Nat
  /\ SendBuffer \in Nat \ {0}
  /\ Watched \in BOOLEAN

VARIABLES
  pc,       \* where the worker is
  buf,      \* the unsent part of c2u_buf and u2c_buf, by the side read from
  eof,      \* client_eof, upstream_eof
  shut,     \* client_write_shutdown, upstream_write_shutdown
  ready,    \* the sockets poll reported readable
  result,   \* what the function returned, with its errno
  sent,     \* peers: how many bytes each has sent
  fin,      \* peers: each that has ended its stream
  rst,      \* peers: each that has reset its connection
  got,      \* peers: what each has received
  rx,       \* kernel: bytes received from each, not yet read
  tx,       \* kernel: bytes sent to each, not yet delivered
  closed    \* the main loop has closed the client's descriptor

worker == <<pc, buf, eof, shut, ready, result>>
peers  == <<sent, fin, rst, got, rx, tx, closed>>
vars   == <<worker, peers>>

Side     == {"client", "upstream"}
Other(s) == CHOOSE o \in Side : o # s

\* The response that opens the tunnel.
Established == 0

Byte == 0..MaxBytes

\* Every variable has its type, and the kernel never holds more unsent bytes
\* than its buffer takes.
TypeOK ==
  /\ pc \in {"connect", "open", "flushUpstream", "flushClient", "shutdown",
             "poll", "readClient", "readUpstream", "done"}
  /\ buf \in [Side -> Seq(Byte)]
  /\ eof \in [Side -> BOOLEAN]
  /\ shut \in [Side -> BOOLEAN]
  /\ ready \subseteq Side
  /\ result \in {"none", "ok", "ETIMEDOUT", "ECONNRESET", "error"}
  /\ sent \in [Side -> 0..MaxBytes]
  /\ fin \in [Side -> BOOLEAN]
  /\ rst \in [Side -> BOOLEAN]
  /\ got \in [Side -> Seq(Byte)]
  /\ rx \in [Side -> Seq(Byte)]
  /\ tx \in [Side -> Seq(Byte)] /\ \A s \in Side : Len(tx[s]) <= SendBuffer
  /\ closed \in BOOLEAN

Each(v) == [s \in Side |-> v]

Init ==
  /\ pc = "connect"
  /\ buf = Each(<<>>) /\ eof = Each(FALSE) /\ shut = Each(FALSE)
  /\ ready = {}
  /\ result = "none"
  /\ sent = Each(0) /\ fin = Each(FALSE) /\ rst = Each(FALSE)
  /\ got = Each(<<>>) /\ rx = Each(<<>>) /\ tx = Each(<<>>)
  /\ closed = FALSE

-----------------------------------------------------------------------------
(* The peers and the kernel.                                               *)

\* The upstream can do nothing before there is a connection to it.
Connected(s) == (s = "upstream" => pc # "connect") /\ ~rst[s]

PeerSends(s) ==
  /\ Connected(s) /\ ~fin[s] /\ sent[s] < MaxBytes
  /\ sent' = [sent EXCEPT ![s] = @ + 1]
  /\ rx' = [rx EXCEPT ![s] = Append(@, sent'[s])]
  /\ UNCHANGED <<worker, fin, rst, got, tx, closed>>

PeerEnds(s) ==
  /\ Connected(s) /\ ~fin[s]
  /\ fin' = [fin EXCEPT ![s] = TRUE]
  /\ UNCHANGED <<worker, sent, rst, got, rx, tx, closed>>

PeerReads(s) ==
  /\ Connected(s) /\ tx[s] # <<>>
  /\ got' = [got EXCEPT ![s] = Append(@, Head(tx[s]))]
  /\ tx' = [tx EXCEPT ![s] = Tail(@)]
  /\ UNCHANGED <<worker, sent, fin, rst, rx, closed>>

PeerResets(s) ==
  /\ Connected(s)
  /\ rst' = [rst EXCEPT ![s] = TRUE]
  /\ UNCHANGED <<worker, sent, fin, got, rx, tx, closed>>

\* The main loop closes a client that has ended its stream or is in error,
\* whether a worker uses its descriptor or not (Reactor).
MainLoopCloses ==
  /\ Watched /\ ~closed
  /\ fin["client"] \/ rst["client"]
  /\ closed' = TRUE
  /\ UNCHANGED <<worker, sent, fin, rst, got, rx, tx>>

-----------------------------------------------------------------------------
(* The worker.                                                             *)

Closed(s) == s = "client" /\ closed

\* A send on this socket fails.
Broken(s) == rst[s] \/ Closed(s)

Return(r) ==
  /\ pc' = "done"
  /\ result' = r

\* send: one byte, would-block or an error.  `next' follows when the buffer is
\* empty or the kernel takes no more.
Flush(s, next) ==
  LET from == Other(s) IN
  \/ /\ buf[from] # <<>> /\ ~Broken(s) /\ Len(tx[s]) < SendBuffer
     /\ tx' = [tx EXCEPT ![s] = Append(@, Head(buf[from]))]
     /\ buf' = [buf EXCEPT ![from] = Tail(@)]
     /\ UNCHANGED <<pc, result>>
  \/ /\ buf[from] # <<>> /\ Broken(s)
     /\ Return("error")
     /\ UNCHANGED <<buf, tx>>
  \/ /\ buf[from] = <<>> \/ (~Broken(s) /\ Len(tx[s]) >= SendBuffer)
     /\ pc' = next
     /\ UNCHANGED <<result, buf, tx>>

\* connect_upstream (ForwardRequest), and the response to the client.
Connect ==
  /\ pc = "connect"
  /\ \/ pc' = "open" /\ UNCHANGED result
     \/ Return("error")
  /\ UNCHANGED <<buf, eof, shut, ready, peers>>

Open ==
  /\ pc = "open"
  /\ \/ /\ ~Broken("client")
        /\ tx' = [tx EXCEPT !["client"] = Append(@, Established)]
        /\ pc' = "flushUpstream"
        /\ UNCHANGED result
     \/ /\ Broken("client")
        /\ Return("error")
        /\ UNCHANGED tx
  /\ UNCHANGED <<buf, eof, shut, ready, sent, fin, rst, got, rx, closed>>

FlushUpstream ==
  /\ pc = "flushUpstream"
  /\ Flush("upstream", "flushClient")
  /\ UNCHANGED <<eof, shut, ready, sent, fin, rst, got, rx, closed>>

FlushClient ==
  /\ pc = "flushClient"
  /\ Flush("client", "shutdown")
  /\ UNCHANGED <<eof, shut, ready, sent, fin, rst, got, rx, closed>>

Drained(s) == eof[s] /\ buf[s] = <<>>

\* The events asked of poll.
WantsIn(s) == ~eof[s] /\ buf[s] = <<>>

WantsOut(s) == buf[Other(s)] # <<>>

\* Mutant: the end is passed on ahead of buffered bytes.
ShutdownAtEof ==
  /\ pc = "shutdown"
  /\ shut' = [s \in Side |-> shut[s] \/ eof[Other(s)]]
  /\ IF \A s \in Side : Drained(s)
     THEN Return("ok")
     ELSE pc' = "poll" /\ UNCHANGED result
  /\ UNCHANGED <<buf, eof, ready, peers>>

\* What has ended on one side is ended on the other once all of it is sent.
\* The relay is over when both directions have ended.  Otherwise it waits, but
\* with no event to wait for it would start over at once.
Shutdown ==
  /\ pc = "shutdown"
  /\ shut' = [s \in Side |-> shut[s] \/ Drained(Other(s))]
  /\ IF \A s \in Side : Drained(s)
     THEN Return("ok")
     ELSE /\ pc' = IF \E s \in Side : WantsIn(s) \/ WantsOut(s)
                   THEN "poll" ELSE "flushUpstream"
          /\ UNCHANGED result
  /\ UNCHANGED <<buf, eof, ready, peers>>

Readable(s) == WantsIn(s) /\ (rx[s] # <<>> \/ fin[s] \/ rst[s])
Writable(s) == WantsOut(s) /\ (Len(tx[s]) < SendBuffer \/ rst[s])

\* POLLERR, POLLHUP: after a reset, or when both directions of the connection
\* are ended, which the kernel reports although nobody asked for it and
\* although received bytes are still unread.  POLLNVAL: the descriptor is
\* closed, unless that happened while poll was already waiting.
HungUp(s) == rst[s] \/ (fin[s] /\ shut[s])

\* Mutant: poll waits without a timeout.
PollForever ==
  /\ pc = "poll"
  /\ \/ /\ closed \/ \E s \in Side : HungUp(s)
        /\ Return("ECONNRESET")
        /\ UNCHANGED ready
     \/ /\ \A s \in Side : ~HungUp(s)
        /\ \E s \in Side : Readable(s) \/ Writable(s)
        /\ ready' = {s \in Side : Readable(s)}
        /\ pc' = "readClient"
        /\ UNCHANGED result
  /\ UNCHANGED <<buf, eof, shut, peers>>

Poll ==
  /\ pc = "poll"
  /\ \E invalid \in {FALSE, closed} :
       \/ /\ invalid \/ \E s \in Side : HungUp(s)
          /\ Return("ECONNRESET")
          /\ UNCHANGED ready
       \/ /\ ~invalid /\ \A s \in Side : ~HungUp(s)
          /\ \E s \in Side : Readable(s) \/ Writable(s)
          /\ ready' = {s \in Side : Readable(s)}
          /\ pc' = "readClient"
          /\ UNCHANGED result
       \/ /\ ~invalid /\ \A s \in Side : ~HungUp(s) /\ ~Readable(s) /\ ~Writable(s)
          /\ Return("ETIMEDOUT")
          /\ UNCHANGED ready
  /\ UNCHANGED <<buf, eof, shut, peers>>

\* Mutant: what was read before is overwritten.
ReadAssigns(s, next) ==
  \/ /\ s \in ready /\ ~Closed(s) /\ rx[s] # <<>>
     /\ buf' = [buf EXCEPT ![s] = <<Head(rx[s])>>]
     /\ rx' = [rx EXCEPT ![s] = Tail(@)]
     /\ UNCHANGED <<pc, result, eof>>
  \/ /\ s \in ready => ~Broken(s) /\ rx[s] = <<>>
     /\ eof' = [eof EXCEPT ![s] = @ \/ (s \in ready /\ fin[s])]
     /\ pc' = next
     /\ UNCHANGED <<result, buf, rx>>

\* recv: one byte, the end of the stream, would-block or an error.  What came
\* before a reset can still be read.
Read(s, next) ==
  \/ /\ s \in ready /\ ~Closed(s) /\ rx[s] # <<>>
     /\ buf' = [buf EXCEPT ![s] = Append(@, Head(rx[s]))]
     /\ rx' = [rx EXCEPT ![s] = Tail(@)]
     /\ UNCHANGED <<pc, result, eof>>
  \/ /\ s \in ready /\ (Closed(s) \/ (rst[s] /\ rx[s] = <<>>))
     /\ Return("error")
     /\ UNCHANGED <<buf, rx, eof>>
  \/ /\ s \in ready => ~Broken(s) /\ rx[s] = <<>>
     /\ eof' = [eof EXCEPT ![s] = @ \/ (s \in ready /\ fin[s])]
     /\ pc' = next
     /\ UNCHANGED <<result, buf, rx>>

ReadClient ==
  /\ pc = "readClient"
  /\ Read("client", "readUpstream")
  /\ UNCHANGED <<shut, ready, sent, fin, rst, got, tx, closed>>

ReadUpstream ==
  /\ pc = "readUpstream"
  /\ Read("upstream", "flushUpstream")
  /\ UNCHANGED <<shut, ready, sent, fin, rst, got, tx, closed>>

Step == Connect \/ Open \/ FlushUpstream \/ FlushClient \/ Shutdown \/ Poll
        \/ ReadClient \/ ReadUpstream

Peer(s) == PeerSends(s) \/ PeerEnds(s) \/ PeerReads(s) \/ PeerResets(s)

\* The worker goes on to its next job, and the peers to theirs.
Done == pc = "done" /\ UNCHANGED vars

Next == Step \/ MainLoopCloses \/ Done \/ \E s \in Side : Peer(s)

Spec == Init /\ [][Next]_vars

\* The worker's thread runs, and a poll with nothing to report times out.
FairSpec == Spec /\ WF_vars(Step)

-----------------------------------------------------------------------------
(* Properties.                                                             *)

\* The stream of s, from what the other side has received back to what has
\* just arrived.
Stream(s) == got[Other(s)] \o tx[Other(s)] \o buf[s] \o rx[s]

\* Every byte a peer has sent is in exactly one place on its way to the other,
\* and in the order it was sent: partial sends, reads that append to a buffer
\* and the tunnel's own response neither lose nor repeat nor swap any.
InOrder ==
  \A s \in Side :
    Stream(s) = (IF s = "upstream" /\ got["client"] \o tx["client"] # <<>>
                 THEN <<Established>> ELSE <<>>) \o [i \in 1..sent[s] |-> i]

\* A side is told that the other has ended only when the other really has,
\* and all it sent has been passed on; and the tunnel reports success only after
\* both directions ended this way.
EndAfterData ==
  /\ \A s \in Side : shut[s] =>
       LET from == Other(s) IN fin[from] /\ rx[from] = <<>> /\ buf[from] = <<>>
  /\ result = "ok" => \A s \in Side : shut[s]

\* The loop never starts over without an event to wait for: it would turn
\* without end and without waiting (the `continue' before poll).
NeverSpins == [][pc = "shutdown" => pc' # "flushUpstream"]_vars

\* Every tunnel ends: peers that do nothing any more are timed out, and peers
\* that end are passed on.
TunnelEnds == <>(pc = "done")

\* What the documentation says of the end of one direction: it is passed on,
\* and the tunnel is over only when both buffers are empty.  So a tunnel whose
\* peers neither reset nor fall silent ends with everything delivered.
HalfCloseKept ==
  pc = "done" /\ result # "ETIMEDOUT" /\ (\A s \in Side : fin[s] /\ ~rst[s])
  /\ got["client"] # <<>>
    => \A s \in Side : buf[s] = <<>> /\ rx[s] = <<>>

\* And a client that has ended its own direction, and no more, keeps the other:
\* only the upstream, a reset or silence ends the tunnel.
ClientEndKept ==
  pc = "done" /\ result # "ETIMEDOUT" /\ (\A s \in Side : ~rst[s])
  /\ fin["client"] /\ got["client"] # <<>>
    => fin["upstream"]
=============================================================================

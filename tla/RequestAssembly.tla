-------------------------- MODULE RequestAssembly ---------------------------
(***************************************************************************)
(* One client connection from its bytes to its jobs: http_conn (the read   *)
(* buffer, parse_offset_ and the parser), handle_client of the event loop, *)
(* and the worker that takes the connection over for a request or a        *)
(* tunnel.                                                                 *)
(*                                                                         *)
(* The client sends a sequence of messages, and tunnel bytes after a       *)
(* CONNECT, in pieces that reach the socket in any grouping; it may send   *)
(* on without waiting for an answer.  A message is a record of what the    *)
(* client means; Wire says in which pieces it is sent.                     *)
(***************************************************************************)
EXTENDS MessageBuilder

CONSTANTS
  Stream     \* the sequences of messages a client may send, each a record of its
             \* method, url, fields and body; the host and port it names, the path
             \* it asks for; whether it is chunked, with which trailers, keeps the
             \* connection, asks for another protocol; the tunnel bytes or the
             \* garbage after it

VARIABLES
  meant,     \* the messages this client sends
  wire,      \* pieces it has not sent yet
  socket,    \* pieces the kernel holds for the server
  edge,      \* epoll has an EPOLLIN edge to report
  rbuf,      \* read_buffer_
  offset,    \* parse_offset_
  parser,    \* parser_
  loop,      \* where handle_client is: "idle" (not in it), "parse" or "act"
  feed,      \* what llhttp_execute has still to look at
  open,      \* connections_[fd] is set
  inflight,  \* proxy_inflight_[fd]: "no", "request" or "tunnel"
  flushing,  \* close_after_flush_[fd]
  jobs,      \* history: submitted requests, with the message they were taken from
  relayed,   \* history: tunnel pieces the worker has read
  swallowed  \* history: pieces read after a message that changes the protocol, and dropped with it

client == <<meant, wire>>
conn == <<rbuf, offset, parser>>
handler == <<loop, feed>>
vars == <<client, socket, edge, conn, handler, open, inflight, flushing, jobs, relayed, swallowed>>

-----------------------------------------------------------------------------
(***************************************************************************)
(* The client's messages on the wire.                                      *)
(***************************************************************************)
Pieces(cb, text) == [i \in DOMAIN text |-> [cb |-> cb, text |-> <<text[i]>>]]

FieldPieces(fields) ==
  FlattenSeq([i \in DOMAIN fields |->
                Pieces("field", fields[i].name) \o Pieces("value", fields[i].value)])

\* A chunked body ends with its last chunk and the trailer fields.
Ending(m) ==
  IF m.chunked THEN FieldPieces(m.trailers) \o <<[cb |-> "end", text |-> EmptyText]>> ELSE <<>>

Wire(m, number) ==
  LET plain == <<[cb |-> "begin", text |-> EmptyText]>> \o Pieces("url", m.url)
                 \o Pieces("version", <<"1.1">>) \o FieldPieces(m.fields)
                 \o <<[cb |-> "headers", text |-> EmptyText]>> \o Pieces("body", m.body) \o Ending(m)
      all == plain \o Pieces("tunnel", m.tunnel) \o Pieces("bad", m.garbage)
      head == [method |-> m.method, keep_alive |-> m.keep_alive, upgrade |-> m.upgrade]
  IN  [i \in DOMAIN all |->
         [cb |-> all[i].cb, text |-> all[i].text, last |-> i = Len(plain), of |-> number, head |-> head]]

Written(messages) == FlattenSeq([n \in DOMAIN messages |-> Wire(messages[n], n)])

-----------------------------------------------------------------------------
Init ==
  /\ meant \in Stream
  /\ wire = Written(meant)
  /\ socket = <<>> /\ edge = FALSE
  /\ rbuf = <<>> /\ offset = 0 /\ parser = NewParser
  /\ loop = "idle" /\ feed = <<>>
  /\ open = TRUE /\ inflight = "no" /\ flushing = FALSE
  /\ jobs = <<>> /\ relayed = <<>> /\ swallowed = <<>>

\* The next piece reaches the socket.  handle_client reads until nothing is left;
\* what comes after that, while it parses, is what comes once it has returned.
Arrive ==
  /\ open /\ loop = "idle" /\ wire # <<>>
  /\ socket' = Append(socket, Head(wire)) /\ wire' = Tail(wire)
  /\ edge' = TRUE
  /\ UNCHANGED <<meant, conn, handler, open, inflight, flushing, jobs, relayed, swallowed>>

\* http_connection_io::consume_read_bytes
Consume(buffer, bytes) == IF bytes >= Len(buffer) THEN <<>> ELSE From(buffer, bytes + 1)

\* http_conn::reset_for_next_message
Reset ==
  /\ rbuf' = Consume(rbuf, offset) /\ offset' = 0
  /\ parser' = ResetForNextMessage(parser)

\* Mutant: the event loop reads on while a job runs.
MayReadAlways == open /\ loop = "idle"

MayRead == open /\ loop = "idle" /\ inflight = "no"

\* handle_client returns at once while a job runs: the edge is gone, the input
\* stays in the kernel.
Gated ==
  /\ open /\ loop = "idle" /\ edge /\ ~MayRead
  /\ edge' = FALSE
  /\ UNCHANGED <<client, socket, conn, handler, open, inflight, flushing, jobs, relayed, swallowed>>

\* handle_client reads all there is and hands what is new to the parser.
ReadFromSocket ==
  /\ MayRead /\ edge
  /\ loop' = "parse"
  /\ socket' = <<>> /\ edge' = FALSE
  /\ rbuf' = rbuf \o socket /\ feed' = From(rbuf', offset + 1)
  /\ UNCHANGED <<client, offset, parser, open, inflight, flushing, jobs, relayed, swallowed>>

\* llhttp_execute comes to the next piece.
Execute ==
  /\ loop = "parse" /\ feed # <<>> /\ parser.errno = "ok"
  /\ parser' = Feed(parser, Head(feed)) /\ feed' = Tail(feed)
  /\ UNCHANGED <<client, socket, edge, rbuf, offset, loop, open, inflight, flushing, jobs, relayed, swallowed>>

\* llhttp_execute returns, at the end of the input or before.  parse_offset_ goes
\* to the end of the buffer, unless the parser has failed.
ParseReturns ==
  /\ loop = "parse" /\ (feed = <<>> \/ parser.errno # "ok")
  /\ loop' = "act" /\ feed' = <<>>
  /\ parser' = Parsed(parser)
  /\ offset' = IF parser.errno = "error" THEN offset ELSE Len(rbuf)
  /\ UNCHANGED <<client, socket, edge, rbuf, open, inflight, flushing, jobs, relayed, swallowed>>

\* The rest of handle_client.
FailParse ==
  /\ loop = "act" /\ parser.state = "error"
  /\ loop' = "idle"
  /\ open' = FALSE
  /\ UNCHANGED <<client, socket, edge, conn, feed, inflight, flushing, jobs, relayed, swallowed>>

AwaitMore ==
  /\ loop = "act" /\ parser.state # "error" /\ ~IsMessageComplete(parser)
  /\ loop' = "idle"
  /\ UNCHANGED <<client, socket, edge, conn, feed, open, inflight, flushing, jobs, relayed, swallowed>>

SubmitJob ==
  /\ loop = "act" /\ IsMessageComplete(parser)
  /\ loop' = "idle"
  /\ jobs' = Append(jobs, [req |-> parser.req, of |-> parser.of])
  /\ swallowed' = swallowed \o SelectSeq(rbuf, LAMBDA t : t.cb = "tunnel" \/ t.of > parser.of)
  /\ Reset
  /\ inflight' = IF parser.req.is_connect THEN "tunnel" ELSE "request"
  /\ UNCHANGED <<client, socket, edge, feed, open, flushing, relayed>>

\* A read error, a hang-up or the idle timer: the event loop closes the client.
CloseClient ==
  /\ open /\ loop = "idle"
  /\ open' = FALSE
  /\ UNCHANGED <<client, socket, edge, conn, handler, inflight, flushing, jobs, relayed, swallowed>>

\* The worker of a tunnel reads the client's socket itself.
TunnelReads ==
  /\ open /\ inflight = "tunnel" /\ socket # <<>>
  /\ relayed' = Append(relayed, Head(socket)) /\ socket' = Tail(socket)
  /\ UNCHANGED <<client, edge, conn, handler, open, inflight, flushing, jobs, swallowed>>

\* Mutant: the interest of the client is not set again after its answer.
JobDoneKeepsInterest ==
  /\ open /\ loop = "idle" /\ inflight # "no"
  /\ inflight' = "no"
  /\ \/ open' = FALSE /\ UNCHANGED flushing
     \/ flushing' = TRUE /\ UNCHANGED open
  /\ UNCHANGED <<client, socket, edge, conn, handler, jobs, relayed, swallowed>>

\* drain_proxy_done_events: the answer of a request, or of a tunnel that failed,
\* is written; the client is closed now or once it is flushed.  poller_.modify
\* makes epoll report input that is already there once more.
JobDone ==
  /\ open /\ loop = "idle" /\ inflight # "no"
  /\ inflight' = "no"
  /\ \/ open' = FALSE /\ UNCHANGED flushing
     \/ flushing' = TRUE /\ UNCHANGED open
  /\ edge' = (socket # <<>>)
  /\ UNCHANGED <<client, socket, conn, handler, jobs, relayed, swallowed>>

Flushed ==
  /\ open /\ loop = "idle" /\ flushing
  /\ open' = FALSE
  /\ UNCHANGED <<client, socket, edge, conn, handler, inflight, flushing, jobs, relayed, swallowed>>

HandleClient == Gated \/ ReadFromSocket \/ Execute \/ ParseReturns \/ FailParse \/ AwaitMore \/ SubmitJob

Next == Arrive \/ HandleClient \/ CloseClient \/ TunnelReads \/ JobDone \/ Flushed

\* The event loop serves a readable client, and jobs end.
Fairness == WF_vars(HandleClient) /\ WF_vars(JobDone)

Spec == Init /\ [][Next]_vars
LiveSpec == Spec /\ Fairness

-----------------------------------------------------------------------------
FieldNames(m) == {ToLower(m.fields[i].name) : i \in DOMAIN m.fields}

LastValue(m, name) ==
  LET given == {i \in DOMAIN m.fields : ToLower(m.fields[i].name) = name}
  IN  m.fields[Max(given)].value

\* A submitted request is one message of the client, whole: its method, target,
\* headers and body are those of that message and of no other, its address is
\* the one the client named, wherever the reads cut the stream.  Messages are
\* submitted in the order the client sent them, none twice.
WholeMessage ==
  \A j \in DOMAIN jobs :
    /\ \A i \in 1 .. (j - 1) : jobs[i].of < jobs[j].of
    /\ LET r == jobs[j].req
           m == meant[jobs[j].of]
       IN  /\ r.method = m.method /\ r.url = m.url /\ r.version = <<"1.1">> /\ r.body = m.body
           /\ r.host = m.host /\ r.port = m.port
           /\ FieldNames(m) \subseteq DOMAIN r.headers
           /\ \A name \in FieldNames(m) : r.headers[name] = LastValue(m, name)

\* While a tunnel runs its worker alone reads the client: of the bytes meant for
\* the tunnel only those read together with the CONNECT are missing.
TunnelKeepsRest ==
  open /\ inflight = "tunnel" =>
    LET of == Last(jobs).of
        rest == SelectSeq(relayed \o socket \o wire, LAMBDA t : t.cb = "tunnel" /\ t.of = of)
    IN  FlattenSeq([i \in DOMAIN rest |-> rest[i].text]) = From(meant[of].tunnel, Len(swallowed) + 1)

\* How many bytes of body the upstream server takes from a built request.
BodyRead(f) ==
  IF Name.encoding \in DOMAIN f.headers THEN -1
  ELSE IF Name.length \in DOMAIN f.headers THEN Number[Head(f.headers[Name.length])]
  ELSE 0

\* The request sent upstream says the same as the client's message: its path,
\* its body, framed so that the server reads all of the body and no more, and
\* the last value of each end-to-end header.
ForwardedIntact ==
  \A j \in DOMAIN jobs :
    LET m == meant[jobs[j].of]
        f == Forward(jobs[j].req)
    IN  m.method # "CONNECT" =>
          /\ f # NoRequest
          /\ f.method = m.method /\ f.target = m.path /\ f.body = m.body
          /\ BodyRead(f) = Len(m.body)
          /\ \A name \in FieldNames(m) \ HopByHop : f.headers[name] = LastValue(m, name)
          /\ DOMAIN f.headers \cap HopByHop = {<<"connection">>}

Sent(n) == n \in DOMAIN meant /\ \A i \in DOMAIN wire : ~(wire[i].of <= n /\ wire[i].last)
Begun(n) == n \in DOMAIN meant /\ \A i \in DOMAIN wire : ~(wire[i].of <= n /\ wire[i].cb = "begin")

\* A request that the client has sent is submitted, unless the connection is
\* closed, the client goes on with its next message first, or it began this one
\* in the read that ended a message after which the protocol was to change.
RequestServed ==
  \A n \in 1..2 :
    Sent(n) ~> \/ ~open \/ Begun(n + 1)
               \/ \E i \in DOMAIN swallowed : swallowed[i].of = n
               \/ \E j \in DOMAIN jobs : jobs[j].of = n

\* A client that does not wait has every message submitted.  Fails: a message
\* that is in the same read as the beginning of the next is lost.
PipelinedServed ==
  \A n \in 1..2 : Sent(n) ~> (~open \/ \E j \in DOMAIN jobs : jobs[j].of = n)
=============================================================================

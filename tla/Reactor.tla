------------------------------- MODULE Reactor -------------------------------
(***************************************************************************)
(* The main loop of hpserver (hpserver.cpp): one reactor thread that       *)
(* accepts clients, reads and parses their requests, hands each complete   *)
(* request to a worker pool, and delivers the result when the worker       *)
(* announces it through the completion queue and an eventfd.  All sockets  *)
(* are watched edge-triggered.                                             *)
(*                                                                         *)
(* The client connections, the kernel's ready list and the workers are     *)
(* modelled with the reactor, since every hard case is an interleaving of  *)
(* the four.  The pools themselves are in ThreadPool, the timer wheel in   *)
(* Timer; here a pool is a set of slots and an armed timer may fire        *)
(* whenever the loop calls tick().                                         *)
(***************************************************************************)
EXTENDS Naturals, Sequences

CONSTANTS
  Conn,          \* client connections, each of which connects at most once
  Fd,            \* descriptors below MAX_FD that accept() may return
  Slot,          \* tasks a pool holds, queued or running
  MaxSend,       \* bound: pieces of data a client sends
  AcceptErrors,  \* may accept() fail with an error other than EAGAIN, EINTR?
  Listener,      \* the listening socket
  EventFd,       \* proxy_event_fd_
  NoConn         \* connections_[fd] holds no http_conn

ASSUME ReactorAssumption ==
  /\ MaxSend \in Nat
  /\ AcceptErrors \in BOOLEAN
  /\ NoConn \notin Conn
  /\ Listener \notin Fd
  /\ EventFd \notin Fd
  /\ Listener # EventFd

VARIABLES
  \* owned by the reactor thread
  connections,      \* connections_: the client an open descriptor belongs to
  inflight,         \* descriptors whose proxy_inflight_ is true
  closeAfterFlush,  \* descriptors whose close_after_flush_ is true
  wbuf,             \* what the http_conn's write buffer still holds
  armed,            \* descriptors with an entry in connection_timer_
  loop,             \* where the loop is
  events,           \* the batch of epoll_wait: the mask of each unhandled event
  \* kept by the kernel
  interest,         \* the epoll registration of each descriptor
  ready,            \* the epoll ready list
  eventfd,          \* is the eventfd counter nonzero?
  \* shared with the workers
  job,              \* the task in each slot
  doneQ,            \* proxy_done_queue_
  \* the clients
  net,              \* has the client connected, has accept() returned it?
  sent,             \* pieces of data the client has sent so far
  rx,               \* clients whose socket holds data the server has not read
  hup,              \* clients that shut down, reset or vanished
  full,             \* clients whose socket accepts no more output for now
  delivered         \* history: what was written to each client, and for whom

reactorVars == <<connections, inflight, closeAfterFlush, wbuf, armed>>
kernelVars  == <<interest, ready, eventfd>>
workVars    == <<job, doneQ>>
clientVars  == <<net, sent, rx, hup, full, delivered>>
vars == <<reactorVars, loop, events, kernelVars, workVars, clientVars>>

Source == Fd \cup {Listener, EventFd}
Mask   == {"hup", "in", "out"}

\* What is written to a client: a forwarded response, the reactor's 503 text,
\* or the bytes of a CONNECT tunnel; tagged with the client it was meant for.
Output == Conn \X {"response", "error", "tunnel"}

\* proxy_done_event; "quiet" is a CONNECT that ended with an expected errno.
DoneEvent == [fd : Fd, owner : Conn,
              result : {"response", "error", "tunnelOk", "quiet"}]

\* A slot is free, or its task runs, or its task has pushed the completion and
\* is about to write to the eventfd.
Idle == [stage |-> "idle"]
Kind == {"http", "connect"}
Job  == [stage : {"running", "pushed"}, fd : Fd, owner : Conn, kind : Kind]

Backlog  == {c \in Conn : net[c] = "backlog"}
FdsOf(c) == {fd \in Fd : connections[fd] = c}

\* No signal has terminated the process.
Alive == loop # "killed"

\* The events epoll reports for a source on the ready list.
Level(x) ==
  CASE x = Listener -> IF Backlog # {} THEN {"in"} ELSE {}
    [] x = EventFd  -> IF eventfd THEN {"in"} ELSE {}
    [] OTHER -> {m \in Mask :
                   LET c == connections[x]
                   IN  \/ m = "hup" /\ c \in hup
                       \/ m = "in"  /\ c \in rx
                       \/ m = "out" /\ c \notin full /\ interest[x] = "inout"}

\* The tables, the kernel's lists and the queue hold what their declarations in
\* hpserver.h allow; in particular nothing is ever written for no client.
TypeOK ==
  /\ connections \in [Fd -> Conn \cup {NoConn}]
  /\ inflight \subseteq Fd
  /\ closeAfterFlush \subseteq Fd
  /\ wbuf \in [Fd -> SUBSET Output]
  /\ armed \subseteq Fd
  /\ loop \in {"wait", "dispatch", "accept", "drain", "killed"}
  /\ events \in [Source -> SUBSET Mask]
  /\ interest \in [Fd -> {"none", "in", "inout"}]
  /\ ready \subseteq Source
  /\ eventfd \in BOOLEAN
  /\ job \in [Slot -> Job \cup {Idle}]
  /\ doneQ \in Seq(DoneEvent)
  /\ net \in [Conn -> {"new", "backlog", "taken"}]
  /\ sent \in [Conn -> 0..MaxSend]
  /\ rx \subseteq Conn
  /\ hup \subseteq Conn
  /\ full \subseteq Conn
  /\ delivered \in [Conn -> SUBSET Output]

Init ==
  /\ connections = [fd \in Fd |-> NoConn]
  /\ inflight = {}
  /\ closeAfterFlush = {}
  /\ wbuf = [fd \in Fd |-> {}]
  /\ armed = {}
  /\ loop = "wait"
  /\ events = [x \in Source |-> {}]
  /\ interest = [fd \in Fd |-> "none"]
  /\ ready = {}
  /\ eventfd = FALSE
  /\ job = [s \in Slot |-> Idle]
  /\ doneQ = <<>>
  /\ net = [c \in Conn |-> "new"]
  /\ sent = [c \in Conn |-> 0]
  /\ rx = {}
  /\ hup = {}
  /\ full = {}
  /\ delivered = [c \in Conn |-> {}]

-----------------------------------------------------------------------------
(* The clients: what a peer and the network may do at any time.            *)

ClientConnect(c) ==
  /\ Alive
  /\ net[c] = "new"
  /\ net' = [net EXCEPT ![c] = "backlog"]
  /\ ready' = ready \cup {Listener}
  /\ UNCHANGED <<reactorVars, loop, events, interest, eventfd, workVars,
                 sent, rx, hup, full, delivered>>

ClientSend(c) ==
  /\ Alive
  /\ net[c] # "new"
  /\ c \notin hup
  /\ sent[c] < MaxSend
  /\ sent' = [sent EXCEPT ![c] = @ + 1]
  /\ rx' = rx \cup {c}
  /\ ready' = ready \cup FdsOf(c)
  /\ UNCHANGED <<reactorVars, loop, events, interest, eventfd, workVars,
                 net, hup, full, delivered>>

ClientHangUp(c) ==
  /\ Alive
  /\ net[c] # "new"
  /\ c \notin hup
  /\ hup' = hup \cup {c}
  /\ ready' = ready \cup FdsOf(c)
  /\ UNCHANGED <<reactorVars, loop, events, interest, eventfd, workVars,
                 net, sent, rx, full, delivered>>

\* The client reads what it was sent: its socket takes output again.
ClientReads(c) ==
  /\ Alive
  /\ c \in full
  /\ full' = full \ {c}
  /\ ready' = ready \cup FdsOf(c)
  /\ UNCHANGED <<reactorVars, loop, events, interest, eventfd, workVars,
                 net, sent, rx, hup, delivered>>

-----------------------------------------------------------------------------
(* Steps of the handlers.                                                  *)

\* Mutant: close_client forgets close_after_flush_.
CloseClientKeepsFlag(fd) ==
  /\ armed' = armed \ {fd}
  /\ inflight' = inflight \ {fd}
  /\ interest' = [interest EXCEPT ![fd] = "none"]
  /\ ready' = ready \ {fd}
  /\ connections' = [connections EXCEPT ![fd] = NoConn]
  /\ wbuf' = [wbuf EXCEPT ![fd] = {}]
  /\ UNCHANGED closeAfterFlush

\* hpserver::close_client.  Destroying the http_conn closes the descriptor,
\* which also drops it from the ready list; a batch already returned by
\* epoll_wait keeps its event.
CloseClient(fd) ==
  /\ armed' = armed \ {fd}
  /\ inflight' = inflight \ {fd}
  /\ closeAfterFlush' = closeAfterFlush \ {fd}
  /\ interest' = [interest EXCEPT ![fd] = "none"]
  /\ ready' = ready \ {fd}
  /\ connections' = [connections EXCEPT ![fd] = NoConn]
  /\ wbuf' = [wbuf EXCEPT ![fd] = {}]

\* send() may fail, or raise SIGPIPE, only towards a client that is gone.
SendFails(fd, buf) == buf # {} /\ connections[fd] \in hup
SendsAll(fd, buf)  == buf = {} \/ connections[fd] \notin full

\* flush_to_socket passes no MSG_NOSIGNAL and nothing ignores SIGPIPE: writing
\* to a reset connection may end the process.
Killed ==
  /\ loop' = "killed"
  /\ UNCHANGED <<reactorVars, kernelVars, job, clientVars>>

\* flush_client_output writes all of buf.
Delivered(fd, buf) ==
  delivered' = [delivered EXCEPT ![connections[fd]] = @ \cup buf]

\* Mutant: the blocked flush does not ask for EPOLLOUT.
FlushBlockedUnregistered(fd, buf) ==
  /\ buf # {}
  /\ wbuf' = [wbuf EXCEPT ![fd] = buf]
  /\ full' = full \cup {connections[fd]}
  /\ UNCHANGED interest

\* flush_client_output meets EAGAIN: buf, or a rest of it, stays, and modify()
\* asks for EPOLLOUT, which puts the descriptor on the ready list again.
FlushBlocked(fd, buf) ==
  /\ buf # {}
  /\ wbuf' = [wbuf EXCEPT ![fd] = buf]
  /\ interest' = [interest EXCEPT ![fd] = "inout"]
  /\ full' = full \cup {connections[fd]}

\* Mutant: a request that the full pool refuses is dropped without a completion.
SubmitDropsRefused(fd, kind, again) ==
  /\ inflight' = inflight \cup {fd}
  /\ ready' = ready \cup again
  /\ \/ \E s \in Slot :
          /\ job[s] = Idle
          /\ job' = [job EXCEPT ![s] = [stage |-> "running", fd |-> fd,
                         owner |-> connections[fd], kind |-> kind]]
     \/ UNCHANGED job
  /\ UNCHANGED <<doneQ, eventfd>>

\* Mutant: the task captures the descriptor by reference.
SubmitByReference(fd, kind, again) ==
  /\ inflight' = inflight \cup {fd}
  /\ \E s \in Slot, x \in Fd :
       /\ job[s] = Idle
       /\ job' = [job EXCEPT ![s] = [stage |-> "running", fd |-> x,
                      owner |-> connections[fd], kind |-> kind]]
  /\ ready' = ready \cup again
  /\ UNCHANGED <<doneQ, eventfd>>

\* submit_proxy_job: try_push takes a slot, or fails, and then the reactor
\* itself pushes the completion (EAGAIN) and writes to the eventfd.  `again'
\* holds the descriptors that modify() has just put on the ready list.
Submit(fd, kind, again) ==
  /\ inflight' = inflight \cup {fd}
  /\ \/ \E s \in Slot :
          /\ job[s] = Idle
          /\ job' = [job EXCEPT ![s] = [stage |-> "running", fd |-> fd,
                         owner |-> connections[fd], kind |-> kind]]
          /\ ready' = ready \cup again
          /\ UNCHANGED <<doneQ, eventfd>>
     \/ /\ doneQ' = Append(doneQ, [fd |-> fd, owner |-> connections[fd],
                                   result |-> "error"])
        /\ eventfd' = TRUE
        /\ ready' = ready \cup again \cup {EventFd}
        /\ UNCHANGED job

-----------------------------------------------------------------------------
(* The event loop of hpserver::listen.                                     *)

\* poller_.wait returns every ready source with its current mask.
EpollWait ==
  /\ loop = "wait"
  /\ \E x \in ready : Level(x) # {}
  /\ events' = [x \in Source |-> IF x \in ready THEN Level(x) ELSE {}]
  /\ ready' = {}
  /\ loop' = "dispatch"
  /\ UNCHANGED <<reactorVars, interest, eventfd, workVars, clientVars>>

\* connection_timer_.tick() between two batches: the callback of an expired
\* entry closes the client.
TimerFire(fd) ==
  /\ loop = "wait"
  /\ fd \in armed
  /\ CloseClient(fd)
  /\ UNCHANGED <<loop, events, eventfd, workVars, clientVars>>

EndBatch ==
  /\ loop = "dispatch"
  /\ \A x \in Source : events[x] = {}
  /\ loop' = "wait"
  /\ UNCHANGED <<reactorVars, events, kernelVars, workVars, clientVars>>

\* The loop takes the next event of the batch, in any order.
Take(x) ==
  /\ loop = "dispatch"
  /\ events[x] # {}
  /\ events' = [events EXCEPT ![x] = {}]

AcceptBegin ==
  /\ Take(Listener)
  /\ loop' = "accept"
  /\ UNCHANGED <<reactorVars, kernelVars, workVars, clientVars>>

\* accept() returns a client; the new http_conn starts with empty buffers, and
\* proxy_inflight_[fd] and close_after_flush_[fd] are left as they are.
AcceptClient(c, fd) ==
  /\ loop = "accept"
  /\ c \in Backlog
  /\ connections[fd] = NoConn
  /\ net' = [net EXCEPT ![c] = "taken"]
  /\ connections' = [connections EXCEPT ![fd] = c]
  /\ wbuf' = [wbuf EXCEPT ![fd] = {}]
  /\ armed' = armed \cup {fd}
  /\ interest' = [interest EXCEPT ![fd] = "in"]
  /\ ready' = ready \cup {fd}
  /\ UNCHANGED <<inflight, closeAfterFlush, loop, events, eventfd, workVars,
                 sent, rx, hup, full, delivered>>

\* ip_filter_ blocks the client's address, which is answered with a 403; or
\* fcntl() or epoll_ctl() fails; or the descriptor is not below MAX_FD: the
\* socket is closed and never enters the table.
AcceptReject(c) ==
  /\ loop = "accept"
  /\ c \in Backlog
  /\ net' = [net EXCEPT ![c] = "taken"]
  /\ UNCHANGED <<reactorVars, loop, events, kernelVars, workVars,
                 sent, rx, hup, full, delivered>>

\* Mutant: one accept() per event of the listener.
AcceptEndEarly ==
  /\ loop = "accept"
  /\ loop' = "dispatch"
  /\ UNCHANGED <<reactorVars, events, kernelVars, workVars, clientVars>>

\* accept() fails: EAGAIN on an empty backlog, or any other error.
AcceptEnd ==
  /\ loop = "accept"
  /\ Backlog = {} \/ AcceptErrors
  /\ loop' = "dispatch"
  /\ UNCHANGED <<reactorVars, events, kernelVars, workVars, clientVars>>

\* A client event that closes at once: ERR, HUP or RDHUP, or a descriptor that
\* has no http_conn (any more), for which every handler returns -1.
CloseEvent(fd) ==
  /\ "hup" \in events[fd] \/ connections[fd] = NoConn
  /\ Take(fd)
  /\ CloseClient(fd)
  /\ UNCHANGED <<loop, eventfd, workVars, clientVars>>

Live(fd) == "hup" \notin events[fd] /\ connections[fd] # NoConn

\* EPOLLOUT, and the flush fails or completes a deferred close.
FlushEvent(fd) ==
  /\ Live(fd)
  /\ "out" \in events[fd]
  /\ Take(fd)
  /\ \/ /\ SendsAll(fd, wbuf[fd]) /\ fd \in closeAfterFlush
        /\ Delivered(fd, wbuf[fd])
        /\ CloseClient(fd)
        /\ UNCHANGED <<loop, eventfd, workVars, net, sent, rx, hup, full>>
     \/ /\ SendFails(fd, wbuf[fd])
        /\ CloseClient(fd)
        /\ UNCHANGED <<loop, eventfd, workVars, clientVars>>
     \/ /\ SendFails(fd, wbuf[fd])
        /\ Killed
        /\ UNCHANGED doneQ

\* handle_client returns -1: recv() fails, or the request does not parse.
HandleFails(fd) ==
  /\ Live(fd)
  /\ "in" \in events[fd]
  /\ fd \notin inflight
  /\ connections[fd] \in rx \cup hup
  /\ Take(fd)
  /\ rx' = rx \ {connections[fd]}
  /\ CloseClient(fd)
  /\ UNCHANGED <<loop, eventfd, workVars, net, sent, hup, full, delivered>>

\* The rest of a client event that does not close: the flush, if EPOLLOUT is
\* set, then handle_client, if EPOLLIN is set.
FlushStep(fd) ==
  \/ /\ "out" \notin events[fd]
     /\ UNCHANGED <<wbuf, interest, full, delivered>>
  \/ /\ "out" \in events[fd]
     /\ SendsAll(fd, wbuf[fd]) /\ fd \notin closeAfterFlush
     /\ Delivered(fd, wbuf[fd])
     /\ wbuf' = [wbuf EXCEPT ![fd] = {}]
     /\ interest' = [interest EXCEPT ![fd] = "in"]
     /\ UNCHANGED full
  \/ /\ "out" \in events[fd]
     /\ FlushBlocked(fd, wbuf[fd])
     /\ UNCHANGED delivered

\* Mutant: handle_client reads once and leaves the rest in the socket.
HandleStepReadsOnce(fd, again) ==
  /\ ready' = ready \cup again
  /\ UNCHANGED <<inflight, rx, workVars, eventfd>>

HandleStep(fd, again) ==
  LET c == connections[fd]
      reads == "in" \in events[fd] /\ fd \notin inflight /\ c \in rx
  IN  \/ /\ ~reads
         /\ ready' = ready \cup again
         /\ UNCHANGED <<inflight, rx, workVars, eventfd>>
      \/ /\ reads          \* the message is not complete yet
         /\ rx' = rx \ {c}
         /\ ready' = ready \cup again
         /\ UNCHANGED <<inflight, workVars, eventfd>>
      \/ /\ reads
         /\ rx' = rx \ {c}
         /\ \E kind \in Kind : Submit(fd, kind, again)

\* Mutant: EPOLLOUT is not looked at.
ServeEventNoFlush(fd) ==
  /\ Live(fd)
  /\ Take(fd)
  /\ armed' = armed \cup {fd}
  /\ HandleStep(fd, {})
  /\ UNCHANGED <<connections, closeAfterFlush, loop, net, sent, hup,
                 wbuf, interest, full, delivered>>

ServeEvent(fd) ==
  /\ Live(fd)
  /\ Take(fd)
  /\ armed' = armed \cup {fd}
  /\ FlushStep(fd)
  /\ HandleStep(fd, IF "out" \in events[fd] THEN {fd} ELSE {})
  /\ UNCHANGED <<connections, closeAfterFlush, loop, net, sent, hup>>

-----------------------------------------------------------------------------
(* hpserver::drain_proxy_done_events: the eventfd is read first, then the  *)
(* completion queue is popped until it is empty.                           *)

DrainBegin ==
  /\ Take(EventFd)
  /\ eventfd' = FALSE
  /\ loop' = "drain"
  /\ UNCHANGED <<reactorVars, interest, ready, workVars, clientVars>>

\* What a completion adds to the write buffer: a tunnel's response is empty.
Payload(e) ==
  IF e.result \in {"response", "error"} THEN {<<e.owner, e.result>>} ELSE {}

\* The completion of a descriptor that has an http_conn: close_after_done is
\* always set, so the client is closed as soon as nothing is left to write.
Complete(e) ==
  LET fd  == e.fd
      buf == wbuf[fd] \cup Payload(e)
  IN  \/ /\ e.result = "quiet" \/ SendFails(fd, buf)
         /\ CloseClient(fd)
         /\ UNCHANGED <<loop, eventfd, job, clientVars>>
      \/ /\ e.result # "quiet"
         /\ SendsAll(fd, buf)
         /\ Delivered(fd, buf)
         /\ CloseClient(fd)
         /\ UNCHANGED <<loop, eventfd, job, net, sent, rx, hup, full>>
      \/ /\ e.result # "quiet"
         /\ FlushBlocked(fd, buf)
         /\ ready' = ready \cup {fd}
         /\ inflight' = inflight \ {fd}
         /\ closeAfterFlush' = closeAfterFlush \cup {fd}
         /\ UNCHANGED <<connections, armed, loop, eventfd, job,
                        net, sent, rx, hup, delivered>>
      \/ /\ e.result # "quiet"
         /\ SendFails(fd, buf)
         /\ Killed

DrainPop ==
  /\ loop = "drain"
  /\ doneQ # <<>>
  /\ doneQ' = Tail(doneQ)
  /\ UNCHANGED events
  /\ \/ /\ connections[Head(doneQ).fd] # NoConn
        /\ Complete(Head(doneQ))
     \/ /\ connections[Head(doneQ).fd] = NoConn
        /\ UNCHANGED <<reactorVars, loop, kernelVars, job, clientVars>>

\* Mutant: the queue is not popped until it is empty.
DrainEndEarly ==
  /\ loop = "drain"
  /\ loop' = "dispatch"
  /\ UNCHANGED <<reactorVars, events, kernelVars, workVars, clientVars>>

DrainEnd ==
  /\ loop = "drain"
  /\ doneQ = <<>>
  /\ loop' = "dispatch"
  /\ UNCHANGED <<reactorVars, events, kernelVars, workVars, clientVars>>

-----------------------------------------------------------------------------
(* The task of submit_proxy_job, run by a worker.                          *)

\* forward_connect_tunnel reads from and writes to the raw descriptor, whoever
\* owns it now; its sends raise SIGPIPE just like the reactor's.
TunnelIO(s) ==
  /\ Alive
  /\ job[s].stage = "running" /\ job[s].kind = "connect"
  /\ LET c == connections[job[s].fd]
     IN  /\ c # NoConn
         /\ \/ /\ rx' = rx \ {c}
               /\ delivered' = [delivered EXCEPT ![c] =
                                  @ \cup {<<job[s].owner, "tunnel">>}]
               /\ UNCHANGED <<reactorVars, loop, kernelVars, job,
                              net, sent, hup, full>>
            \/ /\ c \in hup
               /\ Killed
  /\ UNCHANGED <<events, doneQ>>

Results(kind) ==
  IF kind = "connect" THEN {"tunnelOk", "quiet", "error"} ELSE {"response", "error"}

\* The task ends and pushes its completion.
TaskPush(s) ==
  /\ Alive
  /\ job[s].stage = "running"
  /\ \E r \in Results(job[s].kind) :
       doneQ' = Append(doneQ, [fd |-> job[s].fd, owner |-> job[s].owner,
                               result |-> r])
  /\ job' = [job EXCEPT ![s].stage = "pushed"]
  /\ UNCHANGED <<reactorVars, loop, events, kernelVars, clientVars>>

\* Mutant: the worker does not write to the eventfd.
TaskNotifySilent(s) ==
  /\ Alive
  /\ job[s].stage = "pushed"
  /\ job' = [job EXCEPT ![s] = Idle]
  /\ UNCHANGED <<reactorVars, loop, events, kernelVars, doneQ, clientVars>>

\* ... and then writes to the eventfd.
TaskNotify(s) ==
  /\ Alive
  /\ job[s].stage = "pushed"
  /\ job' = [job EXCEPT ![s] = Idle]
  /\ eventfd' = TRUE
  /\ ready' = ready \cup {EventFd}
  /\ UNCHANGED <<reactorVars, loop, events, interest, doneQ, clientVars>>

-----------------------------------------------------------------------------
Client(c) ==
  \/ ClientConnect(c)
  \/ ClientSend(c)
  \/ ClientHangUp(c)
  \/ ClientReads(c)

\* What the reactor thread does next, apart from a timer that expires.
ReactorStep ==
  \/ EpollWait
  \/ EndBatch
  \/ AcceptBegin
  \/ \E c \in Conn : AcceptReject(c) \/ (\E fd \in Fd : AcceptClient(c, fd))
  \/ AcceptEnd
  \/ \E fd \in Fd : \/ CloseEvent(fd)
                     \/ FlushEvent(fd)
                     \/ HandleFails(fd)
                     \/ ServeEvent(fd)
  \/ DrainBegin
  \/ DrainPop
  \/ DrainEnd

Worker(s) == TunnelIO(s) \/ TaskPush(s) \/ TaskNotify(s)

Next ==
  \/ \E c \in Conn : Client(c)
  \/ ReactorStep
  \/ \E fd \in Fd : TimerFire(fd)
  \/ \E s \in Slot : Worker(s)

Spec == Init /\ [][Next]_vars

\* The reactor thread is scheduled, a worker whose task has ended goes on to
\* notify it, and a client that owes a read reads.  A flush on EPOLLOUT finds
\* room in the socket and writes at least one byte, and the output is finite, so
\* one of infinitely many flushes completes it.  Nothing is assumed of the idle
\* timer, nor that a task ends: kIoTimeoutMs bounds each wait of a task, and a
\* busy tunnel or an upstream that sends on never lets a wait expire.
FairSpec ==
  /\ Spec
  /\ WF_vars(ReactorStep)
  /\ \A s \in Slot : WF_vars(TaskNotify(s))
  /\ \A c \in Conn : WF_vars(ClientReads(c))
  /\ \A fd \in Fd : SF_vars(FlushEvent(fd))

-----------------------------------------------------------------------------
(* Correctness                                                             *)

\* The per-descriptor tables agree whenever the loop can be observed: an open
\* client has a timer and an epoll registration, a free descriptor carries no
\* flag or output of the client that had it before (accept() resets none).
TableConsistent ==
  \A fd \in Fd :
    /\ connections[fd] # NoConn <=> fd \in armed
    /\ connections[fd] # NoConn <=> interest[fd] # "none"
    /\ connections[fd] = NoConn =>
         fd \notin inflight /\ fd \notin closeAfterFlush /\ wbuf[fd] = {}

\* Output is pending exactly when the close is deferred and EPOLLOUT is asked
\* for, so that no client waits for a flush nobody will make and no flag
\* outlives the output it was set for.
DeferredClose ==
  \A fd \in Fd :
    /\ wbuf[fd] # {} <=> fd \in closeAfterFlush
    /\ wbuf[fd] # {} <=> interest[fd] = "inout"

\* A descriptor whose gate proxy_inflight_ is closed has a task or a completion
\* that will open the gate: handle_client never skips a client for which
\* nobody works.
GateHasWork ==
  \A fd \in Fd : Alive /\ fd \in inflight =>
    \/ \E s \in Slot : job[s].stage = "running" /\ job[s].fd = fd
    \/ \E i \in 1..Len(doneQ) : doneQ[i].fd = fd

\* Reading the eventfd before draining the queue loses no completion: while
\* one is queued, the reactor is draining, or the eventfd is readable and
\* epoll reports it, or a worker is about to write to it.
NoLostCompletion ==
  Alive =>
    /\ doneQ # <<>> => \/ loop = "drain"
                       \/ eventfd
                       \/ \E s \in Slot : job[s].stage = "pushed"
    /\ eventfd => EventFd \in ready \/ events[EventFd] # {}

\* Edge-triggered input is not lost: when the gate is open and a client's data
\* is unread, epoll reports the descriptor or an unhandled event of the batch
\* will read it.  Events skipped while the gate was closed are made good by
\* the modify() of the flush, or by the close, that follows.
NoMissedInput ==
  Alive =>
    \A fd \in Fd :
      connections[fd] \in rx /\ fd \notin inflight
        => fd \in ready \/ events[fd] \cap {"in", "hup"} # {}

\* Edge-triggered output is not lost: while output is pending and the socket
\* takes more, EPOLLOUT is on its way.
NoMissedOutput ==
  Alive =>
    \A fd \in Fd :
      wbuf[fd] # {} /\ connections[fd] \notin full
        => fd \in ready \/ "out" \in events[fd]

\* As long as the client that made a request is connected, the result is on
\* its way to that client: a result can only reach somebody else after its
\* requester was closed.
OwnerStable ==
  /\ \A s \in Slot : job[s].stage = "running" =>
       FdsOf(job[s].owner) \subseteq {job[s].fd}
  /\ \A i \in 1..Len(doneQ) : FdsOf(doneQ[i].owner) \subseteq {doneQ[i].fd}

\* A closed gate whose client has no task running (it is over, or the pool refused
\* it) opens again, unless SIGPIPE ends the process: push, eventfd and drain lose no
\* completion, whatever a task left from an earlier client of the descriptor does.
\* While its client's task runs the gate stays closed, for a busy tunnel without
\* bound.
GateReleased ==
  \A fd \in Fd :
    fd \in inflight /\ (\A s \in Slot : job[s].stage = "running" => job[s].owner # connections[fd])
      ~> fd \notin inflight \/ ~Alive

\* A deferred close comes to pass: the pending output is flushed on EPOLLOUT and
\* the client closed, without help from the idle timer.
DeferredCloseHappens ==
  \A fd \in Fd : fd \in closeAfterFlush ~> fd \notin closeAfterFlush \/ ~Alive

\* Every client that connects is accepted or turned away.
BacklogServed ==
  \A c \in Conn : net[c] = "backlog" ~> net[c] = "taken" \/ ~Alive

-----------------------------------------------------------------------------
(* What the documentation says and the code does not keep.                 *)

\* loop.md: proxy_inflight_ decides who may touch the descriptor, so that the
\* reactor and a worker never work on one socket: while a CONNECT task runs on
\* a descriptor that has a client, the gate of that descriptor is closed.
GateProtectsTunnel ==
  \A s \in Slot :
    job[s].stage = "running" /\ job[s].kind = "connect"
      /\ connections[job[s].fd] # NoConn => job[s].fd \in inflight


\* loop.md: "first send everything, then close": a client that is still there
\* is not closed, other than by its idle timer, while output is pending.
SendThenClose ==
  [][\A fd \in Fd :
       /\ connections[fd] # NoConn /\ connections'[fd] # connections[fd]
       /\ wbuf[fd] # {} /\ connections[fd] \notin hup /\ loop # "wait"
       => wbuf[fd] \subseteq delivered'[connections[fd]]]_vars

\* After a CONNECT tunnel has started, both ends exchange bytes only: the
\* reactor does not write its 503 text into the stream.
TunnelIsTransparent ==
  \A c \in Conn : ~ {<<c, "tunnel">>, <<c, "error">>} \subseteq delivered[c]

\* loop.md: the accept loop runs until EAGAIN: when the loop waits again, a
\* client left in the backlog will be reported.
AcceptsUntilEmpty ==
  loop = "wait" /\ Backlog # {} => Listener \in ready

\* A client that disconnects ends its own connection, never the server.
SurvivesDisconnect == Alive
=============================================================================

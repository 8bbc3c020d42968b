----------------------------- MODULE ReactorProofs -----------------------------
(***************************************************************************)
(* Proofs about Reactor for every set of clients, descriptors and slots.   *)
(***************************************************************************)
EXTENDS Reactor, TLAPS

LEMMA LevelIsMask == \A x \in Source : Level(x) \in SUBSET Mask
BY ReactorAssumption DEF Level, Source, Mask

\* Every variable of the model keeps its type.
LEMMA TypeInit == Init => TypeOK
<1> SUFFICES ASSUME Init PROVE TypeOK
  OBVIOUS
<1>1. sent \in [Conn -> 0..MaxSend]
  BY ReactorAssumption DEF Init
<1>2. doneQ \in Seq(DoneEvent)
  BY DEF Init
<1>3. job \in [Slot -> Job \cup {Idle}]
  BY DEF Init
<1>4. events \in [Source -> SUBSET Mask]
  BY DEF Init
<1>5. wbuf \in [Fd -> SUBSET Output] /\ delivered \in [Conn -> SUBSET Output]
  BY DEF Init
<1>6. connections \in [Fd -> Conn \cup {NoConn}]
  BY DEF Init
<1> QED
  BY <1>1, <1>2, <1>3, <1>4, <1>5, <1>6, Zenon DEF Init, TypeOK

\* close_client and the two halves of a flush keep the types of what they touch.
LEMMA CloseClientType ==
  ASSUME TypeOK, NEW fd \in Fd, CloseClient(fd)
  PROVE  /\ connections' \in [Fd -> Conn \cup {NoConn}]
         /\ inflight' \subseteq Fd
         /\ closeAfterFlush' \subseteq Fd
         /\ wbuf' \in [Fd -> SUBSET Output]
         /\ armed' \subseteq Fd
         /\ interest' \in [Fd -> {"none", "in", "inout"}]
         /\ ready' \subseteq Source
BY DEF CloseClient, TypeOK

LEMMA DeliveredType ==
  ASSUME TypeOK, NEW fd \in Fd, connections[fd] # NoConn,
         NEW buf \in SUBSET Output, Delivered(fd, buf)
  PROVE  delivered' \in [Conn -> SUBSET Output]
BY DEF Delivered, TypeOK

LEMMA FlushBlockedType ==
  ASSUME TypeOK, NEW fd \in Fd, connections[fd] # NoConn,
         NEW buf \in SUBSET Output, FlushBlocked(fd, buf)
  PROVE  /\ wbuf' \in [Fd -> SUBSET Output]
         /\ interest' \in [Fd -> {"none", "in", "inout"}]
         /\ full' \subseteq Conn
BY DEF FlushBlocked, TypeOK

LEMMA DoneEventType ==
  ASSUME TypeOK
  PROVE  /\ doneQ # <<>> => Tail(doneQ) \in Seq(DoneEvent)
         /\ doneQ # <<>> => Head(doneQ) \in DoneEvent
         /\ \A e \in DoneEvent : Append(doneQ, e) \in Seq(DoneEvent)
BY DEF TypeOK

LEMMA SubmitType ==
  ASSUME TypeOK, NEW fd \in Fd, connections[fd] \in Conn, NEW kind \in Kind,
         NEW again \in SUBSET Fd, Submit(fd, kind, again)
  PROVE  /\ inflight' \subseteq Fd /\ ready' \subseteq Source
         /\ eventfd' \in BOOLEAN
         /\ job' \in [Slot -> Job \cup {Idle}] /\ doneQ' \in Seq(DoneEvent)
<1> DEFINE new == [stage |-> "running", fd |-> fd,
                   owner |-> connections[fd], kind |-> kind]
           e == [fd |-> fd, owner |-> connections[fd], result |-> "error"]
<1>1. new \in Job /\ e \in DoneEvent
  BY DEF Job, DoneEvent
<1>2. CASE \E s \in Slot : job' = [job EXCEPT ![s] = new]
                           /\ ready' = ready \cup again
                           /\ UNCHANGED <<doneQ, eventfd>>
  <2> HIDE DEF new
  <2> QED BY <1>1, <1>2 DEF Submit, TypeOK, Source
<1>3. CASE /\ doneQ' = Append(doneQ, e) /\ eventfd' = TRUE /\ UNCHANGED job
           /\ ready' = ready \cup again \cup {EventFd}
  <2> HIDE DEF e
  <2> QED BY <1>1, <1>3, DoneEventType DEF Submit, TypeOK, Source
<1> QED
  BY <1>2, <1>3, Zenon DEF Submit

LEMMA TypeStep == TypeOK /\ [Next]_vars => TypeOK'
<1> SUFFICES ASSUME TypeOK, [Next]_vars PROVE TypeOK'
  OBVIOUS
<1> USE ReactorAssumption
<1>1. ASSUME NEW c \in Conn, Client(c) PROVE TypeOK'
  <2>1. CASE ClientConnect(c)
    BY <2>1 DEF ClientConnect, TypeOK, reactorVars, workVars, Source
  <2>2. CASE ClientSend(c)
    <3>1. sent' \in [Conn -> 0..MaxSend]
      BY <2>2 DEF ClientSend, TypeOK
    <3> QED
      BY <2>2, <3>1 DEF ClientSend, TypeOK, reactorVars, workVars, FdsOf, Source
  <2>3. CASE ClientHangUp(c)
    BY <2>3 DEF ClientHangUp, TypeOK, reactorVars, workVars, FdsOf, Source
  <2>4. CASE ClientReads(c)
    BY <2>4 DEF ClientReads, TypeOK, reactorVars, workVars, FdsOf, Source
  <2> QED
    BY <1>1, <2>1, <2>2, <2>3, <2>4 DEF Client
<1>2. CASE EpollWait
  BY <1>2, LevelIsMask DEF EpollWait, TypeOK, reactorVars, workVars, clientVars
<1>3. CASE EndBatch \/ AcceptBegin \/ AcceptEnd \/ DrainBegin \/ DrainEnd
  BY <1>3, Zenon DEF EndBatch, AcceptBegin, AcceptEnd, DrainBegin, DrainEnd, Take,
     TypeOK, reactorVars, kernelVars, workVars, clientVars
<1>4. ASSUME NEW c \in Conn, AcceptReject(c) PROVE TypeOK'
  BY <1>4 DEF AcceptReject, TypeOK, reactorVars, kernelVars, workVars
<1>5. ASSUME NEW c \in Conn, NEW fd \in Fd, AcceptClient(c, fd) PROVE TypeOK'
  BY <1>5 DEF AcceptClient, TypeOK, workVars, Source
<1>6. ASSUME NEW fd \in Fd, CloseEvent(fd) \/ TimerFire(fd) \/ HandleFails(fd)
      PROVE TypeOK'
  BY <1>6, ZenonT(30) DEF CloseEvent, TimerFire, HandleFails, CloseClient, Take,
     TypeOK, workVars, clientVars
<1>7. ASSUME NEW fd \in Fd, FlushEvent(fd) PROVE TypeOK'
  <2>1. events' \in [Source -> SUBSET Mask] /\ connections[fd] # NoConn
        /\ wbuf[fd] \in SUBSET Output
    BY <1>7, Zenon DEF FlushEvent, Live, Take, TypeOK
  <2>2. CASE /\ Delivered(fd, wbuf[fd]) /\ CloseClient(fd)
             /\ UNCHANGED <<loop, eventfd, workVars, net, sent, rx, hup, full>>
    BY <2>1, <2>2, CloseClientType, DeliveredType DEF TypeOK, workVars
  <2>3. CASE /\ CloseClient(fd)
             /\ UNCHANGED <<loop, eventfd, workVars, clientVars>>
    BY <2>1, <2>3, CloseClientType DEF TypeOK, workVars, clientVars
  <2>4. CASE Killed /\ UNCHANGED doneQ
    BY <2>1, <2>4 DEF Killed, TypeOK, reactorVars, kernelVars, clientVars
  <2> QED
    BY <1>7, <2>2, <2>3, <2>4 DEF FlushEvent
<1>8. ASSUME NEW fd \in Fd, ServeEvent(fd) PROVE TypeOK'
  <2>1. /\ connections[fd] \in Conn /\ wbuf[fd] \in SUBSET Output
        /\ events' \in [Source -> SUBSET Mask] /\ armed' \subseteq Fd
    BY <1>8, Zenon DEF ServeEvent, Live, Take, TypeOK
  <2>2. /\ wbuf' \in [Fd -> SUBSET Output] /\ full' \subseteq Conn
        /\ interest' \in [Fd -> {"none", "in", "inout"}]
        /\ delivered' \in [Conn -> SUBSET Output]
    <3>1. FlushStep(fd)
      BY <1>8 DEF ServeEvent
    <3>2. CASE UNCHANGED <<wbuf, interest, full, delivered>>
      BY <3>2 DEF TypeOK
    <3>3. CASE Delivered(fd, wbuf[fd]) /\ UNCHANGED full
               /\ wbuf' = [wbuf EXCEPT ![fd] = {}]
               /\ interest' = [interest EXCEPT ![fd] = "in"]
      BY <2>1, <3>3, DeliveredType, ReactorAssumption, Zenon DEF TypeOK
    <3>4. CASE FlushBlocked(fd, wbuf[fd]) /\ UNCHANGED delivered
      BY <2>1, <3>4, FlushBlockedType, ReactorAssumption, Zenon DEF TypeOK
    <3> QED
      BY <3>1, <3>2, <3>3, <3>4 DEF FlushStep
  <2>3. PICK again \in SUBSET Fd : HandleStep(fd, again)
    BY <1>8 DEF ServeEvent
  <2>4. /\ inflight' \subseteq Fd /\ rx' \subseteq Conn /\ ready' \subseteq Source
        /\ eventfd' \in BOOLEAN
        /\ job' \in [Slot -> Job \cup {Idle}] /\ doneQ' \in Seq(DoneEvent)
    <3>1. CASE /\ ready' = ready \cup again
               /\ UNCHANGED <<inflight, workVars, eventfd>>
               /\ rx' \subseteq Conn
      BY <3>1 DEF TypeOK, workVars, Source
    <3>2. CASE /\ \E kind \in Kind : Submit(fd, kind, again)
               /\ rx' \subseteq Conn
      BY <2>1, <3>2, SubmitType
    <3> QED
      BY <2>1, <2>3, <3>1, <3>2 DEF HandleStep, TypeOK
  <2> QED
    BY <1>8, <2>1, <2>2, <2>4 DEF ServeEvent, TypeOK
<1>9. CASE DrainPop
  <2> DEFINE e == Head(doneQ)
             fd == e.fd
             buf == wbuf[fd] \cup Payload(e)
  <2>1. /\ doneQ' \in Seq(DoneEvent) /\ e \in DoneEvent /\ fd \in Fd
        /\ events' \in [Source -> SUBSET Mask]
    <3>1. e \in DoneEvent /\ doneQ' \in Seq(DoneEvent)
      BY <1>9, DoneEventType DEF DrainPop
    <3> QED
      BY <1>9, <3>1 DEF DrainPop, TypeOK, DoneEvent
  <2>2. buf \in SUBSET Output
    BY <2>1 DEF Payload, DoneEvent, Output, TypeOK
  <2>3. CASE UNCHANGED <<reactorVars, loop, kernelVars, job, clientVars>>
    BY <2>1, <2>3 DEF TypeOK, reactorVars, kernelVars, clientVars
  <2>4. CASE connections[fd] # NoConn /\ Complete(e)
    <3> HIDE DEF e, fd, buf
    <3>1. CASE CloseClient(fd) /\ UNCHANGED <<loop, eventfd, job, clientVars>>
      BY <2>1, <3>1, CloseClientType DEF TypeOK, clientVars
    <3>2. CASE /\ Delivered(fd, buf) /\ CloseClient(fd)
               /\ UNCHANGED <<loop, eventfd, job, net, sent, rx, hup, full>>
      BY <2>1, <2>2, <2>4, <3>2, CloseClientType, DeliveredType DEF TypeOK
    <3>3. CASE /\ FlushBlocked(fd, buf)
               /\ ready' = ready \cup {fd}
               /\ inflight' = inflight \ {fd}
               /\ closeAfterFlush' = closeAfterFlush \cup {fd}
               /\ UNCHANGED <<connections, armed, loop, eventfd, job,
                              net, sent, rx, hup, delivered>>
      BY <2>1, <2>2, <2>4, <3>3, FlushBlockedType DEF TypeOK, Source
    <3>4. CASE Killed
      BY <2>1, <3>4 DEF Killed, TypeOK, reactorVars, kernelVars, clientVars
    <3> QED
      BY <2>4, <3>1, <3>2, <3>3, <3>4 DEF Complete, fd, buf
  <2> QED
    BY <1>9, <2>3, <2>4 DEF DrainPop
<1>10. ASSUME NEW s \in Slot, Worker(s) PROVE TypeOK'
  <2>1. CASE TunnelIO(s)
    <3>1. job[s] \in Job
      BY <2>1 DEF TunnelIO, TypeOK, Idle
    <3>2. <<job[s].owner, "tunnel">> \in Output
      BY <3>1 DEF Job, Output
    <3>3. delivered' \in [Conn -> SUBSET Output]
      <4>1. CASE delivered' = [delivered EXCEPT ![connections[job[s].fd]] =
                                 @ \cup {<<job[s].owner, "tunnel">>}]
        BY <3>2, <4>1, ZenonT(30) DEF TypeOK
      <4>2. CASE UNCHANGED delivered
        BY <4>2 DEF TypeOK
      <4> QED
        BY <2>1, <4>1, <4>2 DEF TunnelIO, Killed, clientVars
    <3> QED
      BY <2>1, <3>3 DEF TunnelIO, Killed, TypeOK, reactorVars, kernelVars, clientVars
  <2>2. CASE TaskPush(s)
    <3>1. job[s] \in Job
      BY <2>2 DEF TaskPush, TypeOK, Idle
    <3>2. job' \in [Slot -> Job \cup {Idle}]
      <4>1. [job[s] EXCEPT !.stage = "pushed"] \in Job
        BY <3>1 DEF Job
      <4> QED
        BY <2>2, <4>1 DEF TaskPush, TypeOK
    <3>3. doneQ' \in Seq(DoneEvent)
      <4>1. PICK r \in Results(job[s].kind) :
              doneQ' = Append(doneQ, [fd |-> job[s].fd, owner |-> job[s].owner,
                                      result |-> r])
        BY <2>2 DEF TaskPush
      <4>2. [fd |-> job[s].fd, owner |-> job[s].owner, result |-> r] \in DoneEvent
        BY <3>1 DEF Results, Job, DoneEvent
      <4> QED
        BY <4>1, <4>2, DoneEventType
    <3> QED
      BY <2>2, <3>2, <3>3 DEF TaskPush, TypeOK, reactorVars, kernelVars, clientVars
  <2>3. CASE TaskNotify(s)
    BY <2>3 DEF TaskNotify, TypeOK, reactorVars, clientVars, Source
  <2> QED
    BY <1>10, <2>1, <2>2, <2>3 DEF Worker
<1>11. CASE UNCHANGED vars
  BY <1>11 DEF vars, TypeOK, reactorVars, kernelVars, workVars, clientVars
<1> QED
  BY <1>1, <1>2, <1>3, <1>4, <1>5, <1>6, <1>7, <1>8, <1>9, <1>10, <1>11
     DEF Next, ReactorStep

\* Type correctness: the tables only ever hold what hpserver.h declares, and no
\* completion is applied to a descriptor without a client.
THEOREM TypeCorrect == Spec => []TypeOK
BY TypeInit, TypeStep, PTL DEF Spec

-----------------------------------------------------------------------------
(* The tables of the reactor agree.                                        *)

Tables == TableConsistent /\ DeferredClose

LEMMA CloseClientTables ==
  ASSUME TypeOK, Tables, NEW fd \in Fd, CloseClient(fd)
  PROVE  Tables'
BY DEF TypeOK, Tables, TableConsistent, DeferredClose, CloseClient

LEMMA FlushBlockedTables ==
  ASSUME TypeOK, Tables, NEW fd \in Fd, connections[fd] # NoConn,
         NEW buf, FlushBlocked(fd, buf), UNCHANGED <<connections, armed>>,
         \A g \in Fd \ {fd} : g \in inflight' <=> g \in inflight,
         closeAfterFlush' = closeAfterFlush \cup {fd}
  PROVE  Tables'
BY DEF TypeOK, Tables, TableConsistent, DeferredClose, FlushBlocked

LEMMA TablesStep == TypeOK /\ Tables /\ [Next]_vars => Tables'
<1> SUFFICES ASSUME TypeOK, Tables, [Next]_vars PROVE Tables'
  OBVIOUS
<1> USE ReactorAssumption
<1>1. CASE UNCHANGED <<reactorVars, interest>>
  BY <1>1 DEF reactorVars, Tables, TableConsistent, DeferredClose
<1>2. ASSUME NEW c \in Conn, Client(c) PROVE Tables'
  BY <1>1, <1>2 DEF Client, ClientConnect, ClientSend, ClientHangUp, ClientReads
<1>3. CASE EpollWait \/ EndBatch \/ AcceptBegin \/ AcceptEnd \/ DrainBegin \/ DrainEnd
  BY <1>1, <1>3 DEF EpollWait, EndBatch, AcceptBegin, AcceptEnd, DrainBegin,
     DrainEnd, kernelVars
<1>4. ASSUME NEW c \in Conn, AcceptReject(c) PROVE Tables'
  BY <1>1, <1>4 DEF AcceptReject, kernelVars
<1>5. ASSUME NEW c \in Conn, NEW fd \in Fd, AcceptClient(c, fd) PROVE Tables'
  BY <1>5 DEF AcceptClient, TypeOK, Tables, TableConsistent, DeferredClose
<1>6. ASSUME NEW fd \in Fd, CloseEvent(fd) \/ TimerFire(fd) \/ HandleFails(fd)
      PROVE Tables'
  BY <1>6, CloseClientTables DEF CloseEvent, TimerFire, HandleFails
<1>7. ASSUME NEW fd \in Fd, FlushEvent(fd) PROVE Tables'
  BY <1>1, <1>7, CloseClientTables, Zenon DEF FlushEvent, Killed, kernelVars
<1>8. ASSUME NEW fd \in Fd, ServeEvent(fd) PROVE Tables'
  <2>1. /\ connections[fd] # NoConn /\ armed' = armed
        /\ UNCHANGED <<connections, closeAfterFlush>>
        /\ inflight' = inflight \/ inflight' = inflight \cup {fd}
    BY <1>8, Zenon DEF ServeEvent, Live, HandleStep, Submit, Tables, TableConsistent
  <2>2. CASE UNCHANGED <<wbuf, interest>>
    BY <2>1, <2>2 DEF Tables, TableConsistent, DeferredClose
  <2>3. CASE /\ fd \notin closeAfterFlush
             /\ wbuf' = [wbuf EXCEPT ![fd] = {}]
             /\ interest' = [interest EXCEPT ![fd] = "in"]
    BY <2>1, <2>3 DEF TypeOK, Tables, TableConsistent, DeferredClose
  <2>4. CASE FlushBlocked(fd, wbuf[fd])
    <3>1. closeAfterFlush' = closeAfterFlush \cup {fd}
      BY <2>1, <2>4 DEF FlushBlocked, Tables, DeferredClose
    <3> QED
      BY <2>1, <2>4, <3>1, FlushBlockedTables
  <2> QED
    BY <1>8, <2>2, <2>3, <2>4, Zenon DEF ServeEvent, FlushStep
<1>9. CASE DrainPop
  <2> DEFINE e == Head(doneQ)
             fd == e.fd
             buf == wbuf[fd] \cup Payload(e)
  <2>1. fd \in Fd
    BY <1>9, DoneEventType DEF DrainPop, DoneEvent
  <2>2. CASE connections[fd] # NoConn /\ Complete(e)
    <3> HIDE DEF e, fd, buf
    <3>1. CASE CloseClient(fd)
      BY <2>1, <3>1, CloseClientTables
    <3>2. CASE /\ FlushBlocked(fd, buf)
               /\ inflight' = inflight \ {fd}
               /\ closeAfterFlush' = closeAfterFlush \cup {fd}
               /\ UNCHANGED <<connections, armed>>
      BY <2>1, <2>2, <3>2, FlushBlockedTables
    <3>3. CASE Killed
      BY <1>1, <3>3 DEF Killed, kernelVars
    <3> QED
      BY <2>2, <3>1, <3>2, <3>3 DEF Complete, fd, buf
  <2> QED
    BY <1>1, <1>9, <2>2 DEF DrainPop, kernelVars
<1>10. ASSUME NEW s \in Slot, Worker(s) PROVE Tables'
  BY <1>1, <1>10 DEF Worker, TunnelIO, TaskPush, TaskNotify, Killed, kernelVars
<1>11. CASE UNCHANGED vars
  BY <1>1, <1>11 DEF vars, kernelVars
<1> QED
  BY <1>2, <1>3, <1>4, <1>5, <1>6, <1>7, <1>8, <1>9, <1>10, <1>11
     DEF Next, ReactorStep

LEMMA TablesInvariant == Spec => []Tables
<1>1. Init => Tables
  BY DEF Init, Tables, TableConsistent, DeferredClose
<1> QED
  BY <1>1, TablesStep, TypeCorrect, PTL DEF Spec

\* An open client always has a timer and an epoll registration, and a free
\* descriptor carries no flag of the client that had it before.
THEOREM TablesAgree == Spec => []TableConsistent
<1>1. Tables => TableConsistent
  BY DEF Tables
<1> QED
  BY <1>1, TablesInvariant, PTL

\* Output is pending exactly as long as the close is deferred and EPOLLOUT is
\* asked for.
THEOREM DeferredCloseExact == Spec => []DeferredClose
<1>1. Tables => DeferredClose
  BY DEF Tables
<1> QED
  BY <1>1, TablesInvariant, PTL

\* What a flush that closes, and a popped completion, leave alone.
LEMMA FlushFrame ==
  ASSUME NEW fd \in Fd, FlushEvent(fd)
  PROVE  /\ Take(fd)
         /\ UNCHANGED <<job, doneQ, eventfd, net>>
         /\ \/ CloseClient(fd) /\ UNCHANGED loop
            \/ loop' = "killed" /\ UNCHANGED reactorVars
  BY ZenonT(30) DEF FlushEvent, Killed, workVars, kernelVars, clientVars

LEMMA PopFrame ==
  ASSUME DrainPop
  PROVE  /\ loop = "drain" /\ doneQ # <<>> /\ doneQ' = Tail(doneQ)
         /\ UNCHANGED <<events, job, eventfd>>
         /\ loop' = loop \/ loop' = "killed"
  BY ZenonT(30) DEF DrainPop, Complete, Killed, kernelVars

-----------------------------------------------------------------------------
(* The eventfd is read before the queue is drained.                        *)

\* The loop waits only when it has handled the whole batch.
BatchDone == loop = "wait" => \A x \in Source : events[x] = {}

LEMMA BatchStep == TypeOK /\ BatchDone /\ [Next]_vars => BatchDone'
<1> SUFFICES ASSUME TypeOK, BatchDone, [Next]_vars PROVE BatchDone'
  OBVIOUS
<1>1. CASE UNCHANGED <<loop, events>> \/ loop' # "wait"
  BY <1>1 DEF BatchDone
<1>2. ASSUME NEW c \in Conn, Client(c) PROVE BatchDone'
  BY <1>1, <1>2 DEF Client, ClientConnect, ClientSend, ClientHangUp, ClientReads
<1>3. CASE EpollWait \/ AcceptBegin \/ AcceptEnd \/ DrainBegin \/ DrainEnd
  BY <1>1, <1>3 DEF EpollWait, AcceptBegin, AcceptEnd, DrainBegin, DrainEnd
<1>4. CASE EndBatch
  BY <1>4 DEF EndBatch, BatchDone
<1>5. ASSUME NEW c \in Conn, AcceptReject(c) \/ \E fd \in Fd : AcceptClient(c, fd)
      PROVE BatchDone'
  BY <1>1, <1>5 DEF AcceptReject, AcceptClient
<1>6. ASSUME NEW fd \in Fd,
             CloseEvent(fd) \/ HandleFails(fd) \/ ServeEvent(fd) \/ FlushEvent(fd)
      PROVE BatchDone'
  BY <1>1, <1>6, FlushFrame DEF CloseEvent, HandleFails, ServeEvent, Take
<1>7. ASSUME NEW fd \in Fd, TimerFire(fd) PROVE BatchDone'
  BY <1>1, <1>7 DEF TimerFire
<1>8. CASE DrainPop
  BY <1>1, <1>8, PopFrame
<1>9. ASSUME NEW s \in Slot, Worker(s) PROVE BatchDone'
  BY <1>1, <1>9 DEF Worker, TunnelIO, TaskPush, TaskNotify, Killed
<1>10. CASE UNCHANGED vars
  BY <1>1, <1>10 DEF vars
<1> QED
  BY <1>2, <1>3, <1>4, <1>5, <1>6, <1>7, <1>8, <1>9, <1>10 DEF Next, ReactorStep

LEMMA BatchInvariant == Spec => []BatchDone
<1>1. Init => BatchDone
  BY DEF Init, BatchDone
<1> QED
  BY <1>1, BatchStep, TypeCorrect, PTL DEF Spec

Pushed == \E s \in Slot : job[s].stage = "pushed"

LEMMA CompletionStep ==
  TypeOK /\ BatchDone /\ NoLostCompletion /\ [Next]_vars => NoLostCompletion'
<1> SUFFICES ASSUME TypeOK, BatchDone, NoLostCompletion, [Next]_vars, Alive'
             PROVE  /\ doneQ' # <<>> => loop' = "drain" \/ eventfd' \/ Pushed'
                    /\ eventfd' => EventFd \in ready' \/ events'[EventFd] # {}
  BY DEF NoLostCompletion, Pushed
<1> DEFINE Goal == /\ doneQ' # <<>> => loop' = "drain" \/ eventfd' \/ Pushed'
                   /\ eventfd' => EventFd \in ready' \/ events'[EventFd] # {}
<1>0. Alive => /\ doneQ # <<>> => loop = "drain" \/ eventfd \/ Pushed
               /\ eventfd => EventFd \in ready \/ events[EventFd] # {}
  BY DEF NoLostCompletion, Pushed
<1>s. \A fd \in Fd : EventFd \in Source \ {fd}
  BY ReactorAssumption DEF Source
<1>1. CASE /\ Alive
           /\ UNCHANGED <<workVars, eventfd>>
           /\ loop = "drain" => loop' = "drain"
           /\ EventFd \in ready => EventFd \in ready'
           /\ events[EventFd] # {} => events'[EventFd] # {}
  BY <1>0, <1>1 DEF workVars, Pushed
<1>2. ASSUME NEW c \in Conn, Client(c) PROVE Goal
  BY <1>1, <1>2 DEF Client, ClientConnect, ClientSend, ClientHangUp, ClientReads
<1>3. CASE EpollWait
  <2>1. eventfd => EventFd \in ready
    BY <1>0, <1>3, <1>s DEF EpollWait, Alive, BatchDone, Source
  <2>2. eventfd => events'[EventFd] # {}
    BY <1>3, <2>1, ReactorAssumption DEF EpollWait, Level, Source
  <2> QED
    BY <1>0, <1>3, <2>2 DEF EpollWait, Alive, workVars, Pushed
<1>4. CASE EndBatch \/ AcceptEnd \/ DrainEnd
  BY <1>0, <1>4 DEF EndBatch, AcceptEnd, DrainEnd, kernelVars, workVars, Alive, Pushed
<1>5. CASE AcceptBegin
  BY <1>1, <1>5, ReactorAssumption DEF AcceptBegin, Take, kernelVars, Alive, TypeOK,
     Source
<1>6. CASE DrainBegin
  BY <1>6 DEF DrainBegin
<1>7. ASSUME NEW c \in Conn, AcceptReject(c) \/ \E fd \in Fd : AcceptClient(c, fd)
      PROVE Goal
  BY <1>1, <1>7 DEF AcceptReject, AcceptClient, kernelVars, Alive
<1>8. ASSUME NEW fd \in Fd, CloseEvent(fd) \/ TimerFire(fd) \/ HandleFails(fd)
      PROVE Goal
  BY <1>1, <1>8, <1>s DEF CloseEvent, TimerFire, HandleFails, CloseClient, Take, Alive,
     TypeOK
<1>9. ASSUME NEW fd \in Fd, FlushEvent(fd) PROVE Goal
  BY <1>1, <1>9, <1>s, FlushFrame DEF CloseClient, Take, Alive, TypeOK, workVars
<1>10. ASSUME NEW fd \in Fd, ServeEvent(fd) PROVE Goal
  <2>1. /\ Alive /\ loop' = loop /\ loop # "drain"
        /\ events'[EventFd] = events[EventFd]
    <3>1. Take(fd) /\ UNCHANGED loop
      BY <1>10, Zenon DEF ServeEvent
    <3> QED
      BY <3>1, <1>s DEF Take, Alive, TypeOK
  <2>2. CASE UNCHANGED <<workVars, eventfd>> /\ ready \subseteq ready'
    BY <1>1, <2>1, <2>2, Zenon
  <2>3. ASSUME NEW kind, NEW again, Submit(fd, kind, again) PROVE Goal
    <3>1. CASE EventFd \in ready' /\ eventfd'
      BY <3>1
    <3>2. CASE \E s \in Slot :
                 /\ job[s] = Idle
                 /\ job' = [job EXCEPT ![s] = [stage |-> "running", fd |-> fd,
                              owner |-> connections[fd], kind |-> kind]]
                 /\ ready' = ready \cup again
                 /\ UNCHANGED <<doneQ, eventfd>>
      <4>1. PICK s \in Slot :
                 /\ job[s] = Idle
                 /\ job' = [job EXCEPT ![s] = [stage |-> "running", fd |-> fd,
                              owner |-> connections[fd], kind |-> kind]]
        BY <3>2, ZenonT(30)
      <4>2. ASSUME NEW t \in Slot, job[t].stage = "pushed"
            PROVE  job'[t] = job[t]
        BY <4>1, <4>2 DEF Idle, TypeOK
      <4>3. Pushed => Pushed'
        BY <4>2 DEF Pushed
      <4> QED
        BY <1>0, <2>1, <3>2, <4>3
    <3> QED
      BY <2>3, <3>1, <3>2 DEF Submit
  <2> QED
    BY <1>10, <2>2, <2>3, ZenonT(30) DEF ServeEvent, HandleStep
<1>11. CASE DrainPop
  <2>1. /\ Alive /\ loop = "drain" /\ loop' = "drain"
        /\ UNCHANGED <<events, eventfd>>
    BY <1>11, PopFrame DEF Alive
  <2>2. Head(doneQ).fd \in Fd
    BY <1>11, PopFrame, DoneEventType DEF DoneEvent
  <2>3. ready' = ready \/ \E fd \in Fd : ready' \in {ready \ {fd}, ready \cup {fd}}
    BY <1>11, <2>1, <2>2, ZenonT(30) DEF DrainPop, Complete, CloseClient, Killed, Alive,
       kernelVars
  <2>4. EventFd \in ready => EventFd \in ready'
    BY <2>3, <1>s
  <2>5. doneQ # <<>> /\ UNCHANGED job
    BY <1>11, PopFrame
  <2> QED
    BY <1>0, <2>1, <2>4
<1>12. ASSUME NEW s \in Slot, Worker(s) PROVE Goal
  <2>1. CASE TunnelIO(s)
    BY <1>1, <2>1 DEF TunnelIO, Killed, workVars, kernelVars, Alive
  <2>2. CASE TaskPush(s)
    <3>1. Pushed'
      BY <2>2 DEF TaskPush, Pushed, TypeOK, Job, Idle
    <3> QED
      BY <1>0, <2>2, <3>1 DEF TaskPush, kernelVars
  <2>3. CASE TaskNotify(s)
    BY <2>3 DEF TaskNotify
  <2> QED
    BY <1>12, <2>1, <2>2, <2>3 DEF Worker
<1>13. CASE UNCHANGED vars
  BY <1>1, <1>13 DEF vars, kernelVars, Alive
<1> QED
  BY <1>2, <1>3, <1>4, <1>5, <1>6, <1>7, <1>8, <1>9, <1>10, <1>11, <1>12, <1>13
     DEF Next, ReactorStep

\* No completion is lost between the eventfd and the queue.
THEOREM CompletionsNotLost == Spec => []NoLostCompletion
<1>1. Init => NoLostCompletion
  BY DEF Init, NoLostCompletion
<1> QED
  BY <1>1, CompletionStep, TypeCorrect, BatchInvariant, PTL DEF Spec
=============================================================================

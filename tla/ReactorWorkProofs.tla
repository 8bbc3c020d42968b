------------------------- MODULE ReactorWorkProofs --------------------------
(* Proofs about Reactor: no edge of epoll is lost, and what tasks and       *)
(* completions say about the clients.                                       *)
EXTENDS ReactorProofs, TLAPS

(* Edge-triggered events are not lost.                                     *)

InputSeen(fd) ==
  connections[fd] \in rx /\ fd \notin inflight
    => fd \in ready \/ events[fd] \cap {"in", "hup"} # {}

OutputSeen(fd) ==
  wbuf[fd] # {} /\ connections[fd] \notin full
    => fd \in ready \/ "out" \in events[fd]

Edges == Alive => \A fd \in Fd : InputSeen(fd) /\ OutputSeen(fd)

LEMMA EdgesStep ==
  TypeOK /\ Tables /\ BatchDone /\ Edges /\ [Next]_vars => Edges'
<1> SUFFICES ASSUME TypeOK, Tables, BatchDone, Edges, [Next]_vars, Alive',
                    NEW g \in Fd
             PROVE  InputSeen(g)' /\ OutputSeen(g)'
  BY DEF Edges
<1> DEFINE Goal == InputSeen(g)' /\ OutputSeen(g)'
<1>0. Alive => InputSeen(g) /\ OutputSeen(g)
  BY DEF Edges
<1>g. g \in Source /\ g # Listener /\ g # EventFd
  BY ReactorAssumption DEF Source
<1>n. NoConn \notin rx
  BY ReactorAssumption DEF TypeOK
\* A step that leaves g's client and its flags alone and takes no event of g.
<1>1. CASE /\ Alive
           /\ connections'[g] = connections[g]
           /\ wbuf'[g] = wbuf[g]
           /\ g \in inflight => g \in inflight'
           /\ rx' \subseteq rx
           /\ full \subseteq full'
           /\ g \in ready => g \in ready'
           /\ events'[g] = events[g]
  BY <1>0, <1>1 DEF InputSeen, OutputSeen
<1>2. CASE g \in ready'
  BY <1>2 DEF InputSeen, OutputSeen
\* A step that closes g, or takes its event and leaves it open.
<1>3. CASE connections'[g] = NoConn /\ wbuf'[g] = {} /\ rx' \subseteq rx
  BY <1>3, <1>n DEF InputSeen, OutputSeen
<1>4. ASSUME NEW c \in Conn, Client(c) PROVE Goal
  <2>1. CASE ClientConnect(c)
    BY <1>1, <2>1 DEF ClientConnect, reactorVars
  <2>2. CASE connections[g] = c /\ ~ ClientConnect(c)
    BY <1>2, <1>4, <2>2 DEF Client, ClientSend, ClientHangUp, ClientReads, FdsOf
  <2>3. CASE connections[g] # c /\ ~ ClientConnect(c)
    BY <1>0, <1>4, <2>3 DEF Client, ClientSend, ClientHangUp, ClientReads, reactorVars,
       InputSeen, OutputSeen
  <2> QED
    BY <2>1, <2>2, <2>3
<1>5. CASE EpollWait
  <2>1. Alive /\ events[g] = {} /\ UNCHANGED <<reactorVars, rx, full>>
    BY <1>5, <1>g DEF EpollWait, BatchDone, Alive, clientVars
  <2>2. events'[g] = IF g \in ready THEN Level(g) ELSE {}
    BY <1>5, <1>g DEF EpollWait
  <2>3. connections[g] \in rx => "in" \in Level(g)
    BY <1>g DEF Level, Mask
  <2>4. wbuf[g] # {} /\ connections[g] \notin full => "out" \in Level(g)
    BY <1>g DEF Level, Mask, Tables, DeferredClose
  <2> QED
    BY <1>0, <2>1, <2>2, <2>3, <2>4, SMTT(30) DEF InputSeen, OutputSeen, reactorVars
<1>6. CASE EndBatch \/ AcceptEnd \/ DrainEnd
  BY <1>1, <1>6 DEF EndBatch, AcceptEnd, DrainEnd, reactorVars, kernelVars, clientVars,
     Alive
<1>7. CASE AcceptBegin \/ DrainBegin
  <2>1. events'[g] = events[g]
    BY <1>7, <1>g, SMTT(30) DEF AcceptBegin, DrainBegin, Take, TypeOK
  <2> QED
    BY <1>1, <1>7, <2>1 DEF AcceptBegin, DrainBegin, Take, reactorVars, kernelVars,
       clientVars, Alive
<1>8. ASSUME NEW c \in Conn, AcceptReject(c) PROVE Goal
  BY <1>1, <1>8 DEF AcceptReject, reactorVars, kernelVars, Alive
<1>9. ASSUME NEW c \in Conn, NEW fd \in Fd, AcceptClient(c, fd) PROVE Goal
  <2>1. CASE g = fd
    BY <1>2, <1>9, <2>1 DEF AcceptClient
  <2>2. CASE g # fd
    BY <1>1, <1>9, <2>2 DEF AcceptClient, Alive, TypeOK
  <2> QED
    BY <2>1, <2>2
\* close_client, alone or after a flush or a failed read.
<1>10. ASSUME NEW fd \in Fd, CloseClient(fd), Alive, rx' \subseteq rx, full' = full,
              \A x \in Fd \ {fd} : events'[x] = events[x]
       PROVE  Goal
  <2>1. CASE g = fd
    BY <1>3, <1>10, <2>1 DEF CloseClient, TypeOK
  <2>2. CASE g # fd
    BY <1>1, <1>10, <2>2 DEF CloseClient, TypeOK
  <2> QED
    BY <2>1, <2>2, SMTT(30)
<1>11. ASSUME NEW fd \in Fd, CloseEvent(fd) \/ TimerFire(fd) \/ HandleFails(fd)
       PROVE Goal
  <2>1. \A x \in Fd \ {fd} : events'[x] = events[x]
    <3>1. CASE Take(fd)
      BY <3>1 DEF Take, TypeOK
    <3> QED
      BY <1>11, <3>1 DEF CloseEvent, TimerFire, HandleFails
  <2> QED
    BY <1>10, <1>11, <2>1 DEF CloseEvent, TimerFire, HandleFails, Take, clientVars, Alive
<1>12. ASSUME NEW fd \in Fd, FlushEvent(fd) PROVE Goal
  <2>1. \A x \in Fd \ {fd} : events'[x] = events[x]
    BY <1>12 DEF FlushEvent, Take, TypeOK
  <2> QED
    BY <1>10, <1>12, <2>1 DEF FlushEvent, Killed, Take, clientVars, Alive
<1>13. ASSUME NEW fd \in Fd, ServeEvent(fd) PROVE Goal
  <2>1. /\ Alive /\ UNCHANGED connections /\ rx' \subseteq rx /\ full \subseteq full'
        /\ inflight \subseteq inflight' /\ ready \subseteq ready'
    BY <1>13, SMTT(30) DEF ServeEvent, FlushStep, FlushBlocked, HandleStep, Submit, Take, Alive
  <2>2. CASE g # fd
    <3>1. events'[g] = events[g] /\ wbuf'[g] = wbuf[g]
      BY <1>13, <2>2 DEF ServeEvent, FlushStep, FlushBlocked, Take, TypeOK
    <3> QED
      BY <1>1, <2>1, <3>1
  <2>3. CASE g = fd
    <3>1. "hup" \notin events[g] /\ (g \in inflight => g \in inflight')
      BY <1>13, <2>1, <2>3 DEF ServeEvent, Live
    <3>2. "in" \in events[g] /\ g \notin inflight => connections[g] \notin rx'
      BY <1>13, <2>3 DEF ServeEvent, HandleStep
    <3>3. InputSeen(g)'
      BY <1>0, <2>1, <3>1, <3>2 DEF InputSeen
    <3>4. "out" \in events[g] => wbuf'[g] = {} \/ connections[g] \in full'
      BY <1>13, <2>3 DEF ServeEvent, FlushStep, FlushBlocked, TypeOK
    <3>5. "out" \notin events[g] => wbuf'[g] = wbuf[g]
      BY <1>13, <2>3, Zenon DEF ServeEvent, FlushStep
    <3>6. OutputSeen(g)'
      BY <1>0, <2>1, <3>4, <3>5 DEF OutputSeen
    <3> QED
      BY <3>3, <3>6, SMTT(30)
  <2> QED
    BY <2>2, <2>3
<1>14. CASE DrainPop
  <2> DEFINE e == Head(doneQ)
  <2>1. e.fd \in Fd /\ Alive /\ UNCHANGED events
    BY <1>14, DoneEventType, Zenon DEF DrainPop, DoneEvent, Alive
  <2>2. CASE CloseClient(e.fd) /\ UNCHANGED <<rx, full>>
    BY <1>10, <2>1, <2>2
  <2>3. CASE UNCHANGED <<reactorVars, kernelVars, clientVars>>
    BY <1>1, <2>1, <2>3 DEF reactorVars, kernelVars, clientVars
  <2>4. CASE /\ FlushBlocked(e.fd, wbuf[e.fd] \cup Payload(e))
             /\ ready' = ready \cup {e.fd}
             /\ inflight' = inflight \ {e.fd}
             /\ UNCHANGED <<connections, rx>>
    <3>1. CASE g = e.fd
      BY <1>2, <2>4, <3>1, SMTT(30)
    <3>2. CASE g # e.fd
      BY <1>1, <2>1, <2>4, <3>2 DEF FlushBlocked, TypeOK
    <3> QED
      BY <3>1, <3>2
  <2> HIDE DEF e
  <2> QED
    BY <1>14, <2>2, <2>3, <2>4, Zenon DEF DrainPop, Complete, Killed, clientVars, Alive, e
<1>15. ASSUME NEW s \in Slot, Worker(s) PROVE Goal
  BY <1>1, <1>15 DEF Worker, TunnelIO, TaskPush, TaskNotify, Killed, reactorVars,
     kernelVars, clientVars, Alive
<1>16. CASE UNCHANGED vars
  BY <1>1, <1>16 DEF vars, reactorVars, kernelVars, clientVars, Alive
<1> QED
  BY <1>4, <1>5, <1>6, <1>7, <1>8, <1>9, <1>11, <1>12, <1>13, <1>14, <1>15, <1>16
     DEF Next, ReactorStep

LEMMA EdgesInvariant == Spec => []Edges
<1>1. Init => Edges
  BY DEF Init, Edges, InputSeen, OutputSeen
<1> QED
  BY <1>1, EdgesStep, TypeCorrect, TablesInvariant, BatchInvariant, PTL DEF Spec

\* Data that arrives while a request is in flight is still reported after it.
THEOREM InputNotMissed == Spec => []NoMissedInput
<1>1. Edges => NoMissedInput
  BY DEF Edges, InputSeen, NoMissedInput
<1> QED
  BY <1>1, EdgesInvariant, PTL

\* Pending output is flushed when the socket takes it.
THEOREM OutputNotMissed == Spec => []NoMissedOutput
<1>1. Edges => NoMissedOutput
  BY DEF Edges, OutputSeen, NoMissedOutput
<1> QED
  BY <1>1, EdgesInvariant, PTL

-----------------------------------------------------------------------------
(* A closed gate has somebody who will open it.                            *)

Queued(fd)  == \E i \in 1..Len(doneQ) : doneQ[i].fd = fd
Running(fd) == \E s \in Slot : job[s].stage = "running" /\ job[s].fd = fd

LEMMA AppendFacts ==
  ASSUME NEW S, NEW q \in Seq(S), NEW e \in S
  PROVE  /\ Len(q) \in Nat /\ Len(Append(q, e)) = Len(q) + 1
         /\ Append(q, e)[Len(q) + 1] = e
         /\ \A i \in 1..Len(q) : Append(q, e)[i] = q[i]
  OBVIOUS

LEMMA DoneAppend ==
  ASSUME TypeOK, NEW e \in DoneEvent, doneQ' = Append(doneQ, e)
  PROVE  /\ Len(doneQ) \in Nat /\ Len(doneQ') = Len(doneQ) + 1
         /\ doneQ'[Len(doneQ) + 1] = e
         /\ \A i \in 1..Len(doneQ) : doneQ'[i] = doneQ[i]
<1>1. doneQ \in Seq(DoneEvent)
  BY Zenon DEF TypeOK
<1> QED BY <1>1, AppendFacts

LEMMA QueuedAppend ==
  ASSUME TypeOK, NEW e \in DoneEvent, doneQ' = Append(doneQ, e)
  PROVE  Queued(e.fd)' /\ \A fd \in Fd : Queued(fd) => Queued(fd)'
<1>1. /\ Len(doneQ) \in Nat /\ Len(doneQ') = Len(doneQ) + 1
      /\ doneQ'[Len(doneQ) + 1] = e
      /\ \A i \in 1..Len(doneQ) : doneQ'[i] = doneQ[i]
  BY DoneAppend
<1>2. Queued(e.fd)'
  BY <1>1 DEF Queued
<1>3. ASSUME NEW fd \in Fd, Queued(fd) PROVE Queued(fd)'
  <2>1. PICK i \in 1..Len(doneQ) : doneQ[i].fd = fd
    BY <1>3 DEF Queued
  <2>2. i \in 1..Len(doneQ') /\ doneQ'[i].fd = fd
    BY <1>1, <2>1
  <2> QED
    BY <2>2 DEF Queued
<1> QED
  BY <1>2, <1>3

LEMMA QueuedTail ==
  ASSUME TypeOK, doneQ # <<>>, doneQ' = Tail(doneQ)
  PROVE  \A fd \in Fd \ {Head(doneQ).fd} : Queued(fd) => Queued(fd)'
<1> SUFFICES ASSUME NEW fd \in Fd \ {Head(doneQ).fd}, Queued(fd) PROVE Queued(fd)'
  OBVIOUS
<1>1. PICK i \in 1..Len(doneQ) : doneQ[i].fd = fd
  BY DEF Queued
<1>2. i # 1
  BY <1>1 DEF TypeOK
<1>3. i - 1 \in 1..Len(doneQ') /\ doneQ'[i - 1] = doneQ[i]
  BY <1>2 DEF TypeOK
<1> QED
  BY <1>1, <1>3, Zenon DEF Queued

LEMMA GateStep == TypeOK /\ Tables /\ GateHasWork /\ [Next]_vars => GateHasWork'
<1> SUFFICES ASSUME TypeOK, Tables, GateHasWork, [Next]_vars,
                    NEW g \in Fd, Alive', g \in inflight'
             PROVE  Running(g)' \/ Queued(g)'
  BY DEF GateHasWork, Running, Queued
<1>0. g \in inflight /\ Alive => Running(g) \/ Queued(g)
  BY DEF GateHasWork, Running, Queued
<1>1. CASE UNCHANGED workVars /\ inflight' \subseteq inflight /\ Alive
  BY <1>0, <1>1 DEF workVars, Running, Queued
<1>2. ASSUME NEW c \in Conn, Client(c) PROVE Running(g)' \/ Queued(g)'
  BY <1>1, <1>2 DEF Client, ClientConnect, ClientSend, ClientHangUp, ClientReads,
     reactorVars
<1>3. CASE EpollWait \/ EndBatch \/ AcceptBegin \/ AcceptEnd \/ DrainBegin \/ DrainEnd
  BY <1>1, <1>3 DEF EpollWait, EndBatch, AcceptBegin, AcceptEnd, DrainBegin,
     DrainEnd, Take, reactorVars, Alive
<1>4. ASSUME NEW c \in Conn, AcceptReject(c) \/ \E fd \in Fd : AcceptClient(c, fd)
      PROVE Running(g)' \/ Queued(g)'
  BY <1>1, <1>4 DEF AcceptReject, AcceptClient, reactorVars, Alive
<1>5. ASSUME NEW fd \in Fd, CloseEvent(fd) \/ TimerFire(fd) \/ HandleFails(fd)
      PROVE Running(g)' \/ Queued(g)'
  BY <1>1, <1>5 DEF CloseEvent, TimerFire, HandleFails, CloseClient, Take, Alive
<1>6. ASSUME NEW fd \in Fd, FlushEvent(fd) PROVE Running(g)' \/ Queued(g)'
  BY <1>1, <1>6, FlushFrame DEF CloseClient, Take, Alive, workVars
<1>7. ASSUME NEW fd \in Fd, ServeEvent(fd) PROVE Running(g)' \/ Queued(g)'
  <2>1. Alive /\ connections[fd] \in Conn
    BY <1>7 DEF ServeEvent, Take, Live, Alive, TypeOK
  <2>2. CASE UNCHANGED <<inflight, workVars>>
    BY <1>1, <2>1, <2>2
  <2>3. ASSUME NEW kind, NEW again, Submit(fd, kind, again)
        PROVE Running(g)' \/ Queued(g)'
    <3>1. CASE \E s \in Slot :
                 /\ job[s] = Idle
                 /\ job' = [job EXCEPT ![s] = [stage |-> "running", fd |-> fd,
                              owner |-> connections[fd], kind |-> kind]]
                 /\ doneQ' = doneQ
      <4>1. PICK s \in Slot :
                 /\ job[s] = Idle
                 /\ job' = [job EXCEPT ![s] = [stage |-> "running", fd |-> fd,
                              owner |-> connections[fd], kind |-> kind]]
        BY <3>1, ZenonT(30)
      <4>2. Running(fd)'
        BY <4>1 DEF Running, TypeOK
      <4>3. Running(g) => Running(g)'
        <5> SUFFICES ASSUME Running(g) PROVE Running(g)'
          OBVIOUS
        <5>1. PICK t \in Slot : job[t].stage = "running" /\ job[t].fd = g
          BY DEF Running
        <5>2. t # s
          BY <4>1, <5>1 DEF Idle
        <5>3. job'[t] = job[t]
          BY <4>1, <5>2 DEF TypeOK
        <5> QED BY <5>1, <5>3 DEF Running
      <4> QED
        BY <1>0, <2>1, <2>3, <3>1, <4>2, <4>3 DEF Submit, Queued
    <3>2. CASE /\ doneQ' = Append(doneQ, [fd |-> fd, owner |-> connections[fd],
                                          result |-> "error"])
               /\ UNCHANGED job
      <4> DEFINE e == [fd |-> fd, owner |-> connections[fd], result |-> "error"]
      <4>1. e \in DoneEvent /\ e.fd = fd
        BY <2>1 DEF DoneEvent
      <4>2. doneQ' = Append(doneQ, e)
        BY <3>2
      <4> HIDE DEF e
      <4> QED
        BY <1>0, <2>1, <2>3, <3>2, <4>1, <4>2, QueuedAppend DEF Submit, Running
    <3> QED
      BY <2>3, <3>1, <3>2 DEF Submit
  <2> QED
    BY <1>7, <2>2, <2>3 DEF ServeEvent, HandleStep
<1>8. CASE DrainPop
  <2>1. /\ doneQ # <<>> /\ doneQ' = Tail(doneQ) /\ Head(doneQ).fd \in Fd
        /\ UNCHANGED job /\ Alive
    BY <1>8, PopFrame, DoneEventType DEF DoneEvent, Alive
  <2>2. \/ inflight' = inflight \ {Head(doneQ).fd}
        \/ UNCHANGED inflight /\ connections[Head(doneQ).fd] = NoConn
    BY <1>8, ZenonT(30) DEF DrainPop, Complete, CloseClient, Killed, Alive, reactorVars
  <2>3. g \in inflight /\ g # Head(doneQ).fd
    BY <2>1, <2>2 DEF Tables, TableConsistent
  <2> QED
    BY <1>0, <2>1, <2>3, QueuedTail DEF Running
<1>9. ASSUME NEW s \in Slot, Worker(s) PROVE Running(g)' \/ Queued(g)'
  <2>1. g \in inflight /\ Alive
    BY <1>9, ZenonT(30) DEF Worker, TunnelIO, TaskPush, TaskNotify, Killed, Alive,
       reactorVars
  <2>2. CASE TunnelIO(s)
    <3>1. UNCHANGED <<job, doneQ>>
      BY <2>1, <2>2, ZenonT(30) DEF TunnelIO, Killed, Alive
    <3> QED
      BY <1>0, <2>1, <3>1 DEF Running, Queued
  <2>3. CASE TaskPush(s)
    <3>1. job[s] \in Job /\ job[s].fd \in Fd
      BY <2>3 DEF TaskPush, TypeOK, Idle, Job
    <3>2. PICK r \in Results(job[s].kind) :
            doneQ' = Append(doneQ, [fd |-> job[s].fd, owner |-> job[s].owner,
                                    result |-> r])
      BY <2>3 DEF TaskPush
    <3>3. [fd |-> job[s].fd, owner |-> job[s].owner, result |-> r] \in DoneEvent
      BY <3>1 DEF Results, Job, DoneEvent
    <3>4. PICK d \in DoneEvent : d.fd = job[s].fd /\ doneQ' = Append(doneQ, d)
      BY <3>2, <3>3
    <3>5. Queued(d.fd)' /\ \A fd \in Fd : Queued(fd) => Queued(fd)'
      BY <3>4, QueuedAppend
    <3>6. ASSUME NEW t \in Slot \ {s} PROVE job'[t] = job[t]
      BY <2>3 DEF TaskPush, TypeOK
    <3>7. CASE Running(g)
      <4>1. PICK t \in Slot : job[t].stage = "running" /\ job[t].fd = g
        BY <3>7 DEF Running
      <4> QED
        BY <3>4, <3>5, <3>6, <4>1 DEF Running
    <3> QED
      BY <1>0, <2>1, <3>5, <3>7
  <2>4. CASE TaskNotify(s)
    <3>1. UNCHANGED doneQ /\ \A t \in Slot \ {s} : job'[t] = job[t]
      BY <2>4 DEF TaskNotify, TypeOK
    <3>2. job[s].stage # "running"
      BY <2>4 DEF TaskNotify
    <3> QED
      BY <1>0, <2>1, <3>1, <3>2 DEF Running, Queued
  <2> QED
    BY <1>9, <2>2, <2>3, <2>4 DEF Worker
<1>10. CASE UNCHANGED vars
  BY <1>1, <1>10 DEF vars, reactorVars, Alive
<1> QED
  BY <1>2, <1>3, <1>4, <1>5, <1>6, <1>7, <1>8, <1>9, <1>10 DEF Next, ReactorStep

\* A client that handle_client skips has a task or a completion that will open
\* its gate again.
THEOREM GateAlwaysHasWork == Spec => []GateHasWork
<1>1. Init => GateHasWork
  BY DEF Init, GateHasWork
<1> QED
  BY <1>1, GateStep, TypeCorrect, TablesInvariant, PTL DEF Spec

-----------------------------------------------------------------------------
(* A result belongs to the client that asked for it.                       *)

\* c has been accepted, and on no descriptor but fd.
Mine(fd, c) == net[c] = "taken" /\ FdsOf(c) \subseteq {fd}

Owners ==
  /\ \A fd \in Fd : connections[fd] # NoConn => Mine(fd, connections[fd])
  /\ \A s \in Slot : job[s].stage = "running" => Mine(job[s].fd, job[s].owner)
  /\ \A i \in 1..Len(doneQ) : Mine(doneQ[i].fd, doneQ[i].owner)

\* Descriptors only change hands through close_client and accept().
LEMMA HandsStep ==
  ASSUME TypeOK, [Next]_vars
  PROVE  \/ /\ \A c \in Conn : net[c] = "taken" => net'[c] = "taken"
            /\ \A fd \in Fd : connections'[fd] \in {connections[fd], NoConn}
         \/ \E c \in Conn, fd \in Fd : AcceptClient(c, fd)
<1> DEFINE Same == /\ \A c \in Conn : net[c] = "taken" => net'[c] = "taken"
                   /\ \A fd \in Fd : connections'[fd] \in {connections[fd], NoConn}
<1>1. CASE UNCHANGED <<connections, net>>
  BY <1>1
<1>2. ASSUME NEW fd \in Fd, CloseClient(fd), UNCHANGED net PROVE Same
  BY <1>2 DEF CloseClient, TypeOK
<1>3. ASSUME NEW c \in Conn, Client(c) \/ AcceptReject(c) PROVE Same
  BY <1>3 DEF Client, ClientConnect, ClientSend, ClientHangUp, ClientReads,
     AcceptReject, reactorVars, TypeOK
<1>4. CASE EpollWait \/ EndBatch \/ AcceptBegin \/ AcceptEnd \/ DrainBegin \/ DrainEnd
  BY <1>1, <1>4, Zenon DEF EpollWait, EndBatch, AcceptBegin, AcceptEnd, DrainBegin,
     DrainEnd, reactorVars, clientVars
<1>5. ASSUME NEW fd \in Fd,
             CloseEvent(fd) \/ TimerFire(fd) \/ HandleFails(fd) \/ FlushEvent(fd)
                \/ ServeEvent(fd)
      PROVE Same
  <2>1. CASE CloseEvent(fd) \/ TimerFire(fd) \/ HandleFails(fd)
    BY <1>2, <2>1, Zenon DEF CloseEvent, TimerFire, HandleFails, clientVars
  <2>2. CASE FlushEvent(fd)
    BY <1>1, <1>2, <2>2, FlushFrame DEF reactorVars
  <2>3. CASE ServeEvent(fd)
    BY <1>1, <2>3, Zenon DEF ServeEvent
  <2> QED
    BY <1>5, <2>1, <2>2, <2>3, Zenon
<1>6. CASE DrainPop
  <2>1. Head(doneQ).fd \in Fd
    BY <1>6, DoneEventType DEF DrainPop, DoneEvent
  <2> QED
    BY <1>1, <1>2, <1>6, <2>1, Zenon DEF DrainPop, Complete, Killed, reactorVars, clientVars
<1>7. ASSUME NEW s \in Slot, Worker(s) PROVE Same
  BY <1>1, <1>7 DEF Worker, TunnelIO, TaskPush, TaskNotify, Killed, reactorVars,
     clientVars
<1>8. CASE UNCHANGED vars
  BY <1>1, <1>8 DEF vars, reactorVars, clientVars
<1> QED
  BY <1>3, <1>4, <1>5, <1>6, <1>7, <1>8 DEF Next, ReactorStep

LEMMA MineStep ==
  ASSUME TypeOK, Owners, [Next]_vars, NEW fd \in Fd, NEW c \in Conn, Mine(fd, c)
  PROVE  Mine(fd, c)'
<1>1. CASE /\ \A d \in Conn : net[d] = "taken" => net'[d] = "taken"
           /\ \A x \in Fd : connections'[x] \in {connections[x], NoConn}
  BY <1>1, ReactorAssumption DEF Mine, FdsOf
<1>2. ASSUME NEW d \in Conn, NEW x \in Fd, AcceptClient(d, x) PROVE Mine(fd, c)'
  <2>1. c # d
    BY <1>2 DEF AcceptClient, Backlog, Mine
  <2>2. net'[c] = net[c] /\ \A y \in Fd : connections'[y] = c => connections[y] = c
    BY <1>2, <2>1 DEF AcceptClient, TypeOK
  <2> QED
    BY <2>2 DEF Mine, FdsOf
<1> QED
  BY <1>1, <1>2, HandsStep

\* Where a task or a completion for c on fd comes from: the client that has the
\* descriptor, or a task that runs for it.
Served(fd, c) == fd \in Fd /\ connections[fd] # NoConn /\ c = connections[fd]
Tasked(fd, c) == \E s \in Slot :
                   job[s].stage = "running" /\ fd = job[s].fd /\ c = job[s].owner
Kept(e)       == \E j \in 1..Len(doneQ) : e = doneQ[j]

JobsStem ==
  \A s \in Slot : job'[s].stage = "running" =>
    job'[s] = job[s] \/ Served(job'[s].fd, job'[s].owner)

DonesStem ==
  \A i \in 1..Len(doneQ') : \/ Kept(doneQ'[i])
                            \/ Tasked(doneQ'[i].fd, doneQ'[i].owner)
                            \/ Served(doneQ'[i].fd, doneQ'[i].owner)

LEMMA StemUnchanged == /\ UNCHANGED job => JobsStem
                       /\ UNCHANGED doneQ => DonesStem
BY DEF JobsStem, DonesStem, Kept

LEMMA StemAppend ==
  ASSUME TypeOK, NEW e \in DoneEvent, doneQ' = Append(doneQ, e),
         Tasked(e.fd, e.owner) \/ Served(e.fd, e.owner)
  PROVE  DonesStem
<1>0. /\ Len(doneQ) \in Nat /\ Len(doneQ') = Len(doneQ) + 1
      /\ doneQ'[Len(doneQ) + 1] = e
      /\ \A i \in 1..Len(doneQ) : doneQ'[i] = doneQ[i]
  BY DoneAppend
<1>1. \A i \in 1..Len(doneQ') : Kept(doneQ'[i]) \/ doneQ'[i] = e
  BY <1>0 DEF Kept
<1> QED
  BY <1>1 DEF DonesStem

LEMMA StemSubmit ==
  ASSUME TypeOK, NEW fd \in Fd, connections[fd] # NoConn, NEW kind, NEW again,
         Submit(fd, kind, again)
  PROVE  JobsStem /\ DonesStem
<1>1. ASSUME UNCHANGED job,
             doneQ' = Append(doneQ, [fd |-> fd, owner |-> connections[fd],
                                     result |-> "error"])
      PROVE  JobsStem /\ DonesStem
  <2> DEFINE e == [fd |-> fd, owner |-> connections[fd], result |-> "error"]
  <2>1. Served(e.fd, e.owner)
    BY DEF Served
  <2>2. doneQ' = Append(doneQ, e) /\ e \in DoneEvent
    BY <1>1 DEF TypeOK, DoneEvent
  <2> HIDE DEF e
  <2> QED
    BY <1>1, <2>1, <2>2, StemAppend, StemUnchanged
<1>2. ASSUME UNCHANGED doneQ, NEW s \in Slot,
             job' = [job EXCEPT ![s] = [stage |-> "running", fd |-> fd,
                          owner |-> connections[fd], kind |-> kind]]
      PROVE  JobsStem /\ DonesStem
  <2>1. job'[s].fd = fd /\ job'[s].owner = connections[fd]
    BY <1>2 DEF TypeOK
  <2>2. Served(job'[s].fd, job'[s].owner)
    BY <2>1 DEF Served
  <2>3. \A t \in Slot \ {s} : job'[t] = job[t]
    BY <1>2 DEF TypeOK
  <2> QED
    BY <1>2, <2>2, <2>3, StemUnchanged DEF JobsStem
<1> QED
  BY <1>1, <1>2 DEF Submit

\* Tasks and completions are made for the client that has the descriptor.
LEMMA WorkStep == TypeOK /\ [Next]_vars => JobsStem /\ DonesStem
<1> SUFFICES ASSUME TypeOK, [Next]_vars PROVE JobsStem /\ DonesStem
  OBVIOUS
<1>1. CASE UNCHANGED workVars
  BY <1>1, StemUnchanged DEF workVars
<1>2. ASSUME NEW fd \in Fd, ServeEvent(fd) PROVE JobsStem /\ DonesStem
  <2>1. connections[fd] # NoConn
    BY <1>2 DEF ServeEvent, Live
  <2>2. UNCHANGED workVars \/ \E kind, again : Submit(fd, kind, again)
    BY <1>2, Zenon DEF ServeEvent, HandleStep
  <2> QED
    BY <1>1, <2>1, <2>2, StemSubmit
<1>3. CASE DrainPop
  <2>1. UNCHANGED job /\ doneQ # <<>> /\ doneQ' = Tail(doneQ)
    BY <1>3 DEF DrainPop, Complete, Killed
  <2>2. \A i \in 1..Len(doneQ') : i + 1 \in 1..Len(doneQ) /\ doneQ'[i] = doneQ[i + 1]
    BY <2>1 DEF TypeOK
  <2> QED
    BY <2>1, <2>2, StemUnchanged DEF DonesStem, Kept
<1>4. ASSUME NEW s \in Slot, TaskPush(s) PROVE JobsStem /\ DonesStem
  <2>1. \A t \in Slot : job'[t].stage = "running" => job'[t] = job[t]
    BY <1>4 DEF TaskPush, TypeOK, Job, Idle
  <2>0. job[s] \in Job
    BY <1>4 DEF TaskPush, TypeOK, Idle, Job
  <2>2. PICK r \in Results(job[s].kind) :
          doneQ' = Append(doneQ, [fd |-> job[s].fd, owner |-> job[s].owner, result |-> r])
    BY <1>4 DEF TaskPush
  <2> DEFINE e == [fd |-> job[s].fd, owner |-> job[s].owner, result |-> r]
  <2>3. Tasked(e.fd, e.owner)
    BY <1>4 DEF TaskPush, Tasked
  <2>4. doneQ' = Append(doneQ, e) /\ e \in DoneEvent
    BY <2>0, <2>2 DEF Results, Job, DoneEvent
  <2> HIDE DEF e
  <2> QED
    BY <2>1, <2>3, <2>4, StemAppend DEF JobsStem
<1>5. ASSUME NEW s \in Slot, TaskNotify(s) PROVE JobsStem /\ DonesStem
  BY <1>5, StemUnchanged DEF TaskNotify, JobsStem, TypeOK, Idle
<1>6. ASSUME NEW c \in Conn, Client(c) \/ AcceptReject(c)
                               \/ \E fd \in Fd : AcceptClient(c, fd)
      PROVE  UNCHANGED workVars
  BY <1>6, Zenon DEF Client, ClientConnect, ClientSend, ClientHangUp, ClientReads,
     AcceptReject, AcceptClient
<1>7. CASE EpollWait \/ EndBatch \/ AcceptBegin \/ AcceptEnd \/ DrainBegin \/ DrainEnd
  BY <1>1, <1>7, Zenon DEF EpollWait, EndBatch, AcceptBegin, AcceptEnd, DrainBegin,
     DrainEnd
<1>8. ASSUME NEW fd \in Fd,
             CloseEvent(fd) \/ TimerFire(fd) \/ HandleFails(fd) \/ FlushEvent(fd)
      PROVE  UNCHANGED workVars
  <2>1. CloseEvent(fd) \/ TimerFire(fd) \/ HandleFails(fd) => UNCHANGED workVars
    BY Zenon DEF CloseEvent, TimerFire, HandleFails, Killed, workVars
  <2>2. FlushEvent(fd) => UNCHANGED workVars
    BY FlushFrame DEF workVars
  <2> QED
    BY <1>8, <2>1, <2>2
<1>9. ASSUME NEW s \in Slot, TunnelIO(s) PROVE UNCHANGED workVars
  BY <1>9 DEF TunnelIO, Killed, workVars
<1>10. CASE UNCHANGED vars
  BY <1>1, <1>10 DEF vars
<1> QED
  BY <1>1, <1>2, <1>3, <1>4, <1>5, <1>6, <1>7, <1>8, <1>9, <1>10, Zenon
     DEF Next, ReactorStep, Worker

LEMMA OwnersStep == TypeOK /\ Owners /\ [Next]_vars => Owners'
<1> SUFFICES ASSUME TypeOK, Owners, [Next]_vars PROVE Owners'
  OBVIOUS
<1>1. ASSUME NEW fd \in Fd, connections[fd] # NoConn
      PROVE  connections[fd] \in Conn /\ Mine(fd, connections[fd])
  BY <1>1 DEF Owners, TypeOK
<1>2. ASSUME NEW fd \in Fd, NEW c \in Conn, Mine(fd, c) PROVE Mine(fd, c)'
  BY <1>2, MineStep
<1>3. ASSUME NEW fd \in Fd, connections'[fd] # NoConn
      PROVE  Mine(fd, connections[fd])'
  <2>1. PICK c : c = connections'[fd]
    OBVIOUS
  <2>2. CASE connections'[fd] = connections[fd]
    <3>1. c \in Conn /\ Mine(fd, c)
      BY <1>1, <1>3, <2>1, <2>2
    <3>2. Mine(fd, c)'
      BY <1>2, <3>1
    <3> QED
      BY <2>1, <3>2 DEF Mine, FdsOf
  <2>3. ASSUME NEW d \in Conn, NEW x \in Fd, AcceptClient(d, x),
               connections'[fd] # connections[fd]
        PROVE  Mine(fd, connections[fd])'
    <3>1. x = fd /\ c = d /\ net'[d] = "taken" /\ net[d] = "backlog"
      BY <2>1, <2>3, SMTT(30) DEF AcceptClient, TypeOK, Backlog
    <3>2. \A y \in Fd : connections[y] # d
      BY <3>1, ReactorAssumption DEF Owners, Mine
    <3>3. \A y \in Fd \ {x} : connections'[y] = connections[y]
      BY <2>3 DEF AcceptClient, TypeOK
    <3> QED
      BY <2>1, <3>1, <3>2, <3>3 DEF Mine, FdsOf
  <2> QED
    BY <1>3, <2>2, <2>3, HandsStep
<1>4. ASSUME NEW fd, NEW c, Served(fd, c) PROVE fd \in Fd /\ c \in Conn /\ Mine(fd, c)
  BY <1>1, <1>4 DEF Served
<1>5. ASSUME NEW s \in Slot, job[s].stage = "running"
      PROVE  job[s].fd \in Fd /\ job[s].owner \in Conn /\ Mine(job[s].fd, job[s].owner)
  <2>1. job[s] \in Job
    BY <1>5 DEF TypeOK, Idle
  <2> QED
    BY <1>5, <2>1 DEF Owners, Job
<1>6. ASSUME NEW s \in Slot, job'[s].stage = "running"
      PROVE  Mine(job[s].fd, job[s].owner)'
  <2>1. PICK fd, c : fd = job'[s].fd /\ c = job'[s].owner
    OBVIOUS
  <2>2. job'[s] = job[s] \/ Served(fd, c)
    BY <1>6, <2>1, WorkStep DEF JobsStem
  <2>3. fd \in Fd /\ c \in Conn /\ Mine(fd, c)
    BY <1>4, <1>5, <1>6, <2>1, <2>2
  <2>4. Mine(fd, c)'
    BY <1>2, <2>3 DEF Mine, FdsOf
  <2> QED
    BY <2>1, <2>4 DEF Mine, FdsOf
<1>7. ASSUME NEW i \in 1..Len(doneQ')
      PROVE  Mine(doneQ[i].fd, doneQ[i].owner)'
  <2>1. PICK fd, c : fd = doneQ'[i].fd /\ c = doneQ'[i].owner
    BY Zenon
  <2>2. Kept(doneQ'[i]) \/ Tasked(fd, c) \/ Served(fd, c)
    <3>1. DonesStem
      BY WorkStep
    <3> QED BY <2>1, <3>1 DEF DonesStem
  <2>3. ASSUME Kept(doneQ'[i]) PROVE fd \in Fd /\ c \in Conn /\ Mine(fd, c)
    <3>1. PICK j \in 1..Len(doneQ) : doneQ'[i] = doneQ[j]
      BY <2>3 DEF Kept
    <3>2. doneQ[j] \in DoneEvent
      BY DEF TypeOK
    <3>3. Mine(doneQ[j].fd, doneQ[j].owner)
      BY DEF Owners
    <3> QED
      BY <2>1, <3>1, <3>2, <3>3 DEF DoneEvent
  <2>4. fd \in Fd /\ c \in Conn /\ Mine(fd, c)
    BY <1>4, <1>5, <2>2, <2>3 DEF Tasked
  <2>5. Mine(fd, c)'
    BY <1>2, <2>4 DEF Mine, FdsOf
  <2> QED
    BY <2>1, <2>5 DEF Mine, FdsOf
<1> QED
  BY <1>3, <1>6, <1>7 DEF Owners

\* While the client that made a request is connected, it is connected on the
\* descriptor the request's task and completion name.
THEOREM OwnerAlwaysStable == Spec => []OwnerStable
<1>1. Init => Owners
  BY DEF Init, Owners, Idle
<1>2. Owners => OwnerStable
  BY Zenon DEF Owners, Mine, OwnerStable
<1> QED
  BY <1>1, <1>2, OwnersStep, TypeCorrect, PTL DEF Spec
=============================================================================

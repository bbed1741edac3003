---------------------- MODULE GatewayConnectionsProofs ----------------------
(***************************************************************************)
(* Proofs about GatewayConnections, for every set of clients and           *)
(* descriptors, every number of connections, every limit and every largest *)
(* connection number.                                                      *)
(***************************************************************************)
EXTENDS GatewayConnections, WellFoundedInduction, TLAPS

\* What a leaf may take, in seconds, unless it names a prover; on a busy machine
\* the first attempt may find no time to start.
USE SMTT(30), ZenonT(30), SMTT(40), SMTT(50)

Message == [connection_id: 1..MaxConnectionId, client: Clients, number: Int]
Connection == [id: 1..MaxConnectionId, closing: BOOLEAN, output: Seq(Message)]
Polled == [events: SUBSET {"in", "out", "hup"}, id: 1..MaxConnectionId]

KernelType ==
    /\ link \in [Clients -> {"away", "up", "ended", "malformed", "reset", "closed"}]
    /\ arrived \in [Clients -> Nat] /\ sent \in [Clients -> Nat]
    /\ peer \in [DOMAIN peer -> Clients] /\ DOMAIN peer \subseteq Descriptors
    /\ backlog \in Seq(Clients)

\* A connection has a descriptor, and a descriptor that is open a connection.
ConnectionType ==
    /\ connections \in [DOMAIN connections -> Connection] /\ DOMAIN connections = DOMAIN peer
    /\ next_connection_id \in 0..MaxConnectionId

LoopType ==
    /\ polled \in [DOMAIN polled -> Polled] /\ after \in {"check", "accept"}
    /\ gateway \in {"top", "completions", "pending", "check", "poll", "accept", "clients",
                    "receive", "flush", "done"}
    /\ shutdown_started \in BOOLEAN /\ reads_paused \in BOOLEAN

\* Whatever is admitted holds one place in flight until its answer is drained.
QueueType ==
    /\ pending_requests \in Seq(Message) /\ Len(pending_requests) <= MaxPending
    /\ request_queue \in Seq(Message) /\ response_queue \in Seq(Message)
    /\ in_flight = Len(request_queue) + Len(response_queue) /\ in_flight <= maximum_in_flight

\* The numbers given so far; 0 comes after the last one.
Issued(id) == next_connection_id = 0 \/ id < next_connection_id

\* Open connections have numbers of their own that were given.
NumberInv ==
    /\ \A d \in DOMAIN connections : Issued(connections[d].id)
    /\ \A d, e \in DOMAIN connections : connections[d].id = connections[e].id => d = e

\* The number on a message was given, and if a connection has it, the client of
\* the message is at the other end.
Addressed(m) ==
    /\ Issued(m.connection_id)
    /\ \A d \in DOMAIN connections : connections[d].id = m.connection_id => peer[d] = m.client
AllAddressed(q) == \A i \in 1..Len(q) : Addressed(q[i])
MessageInv ==
    AllAddressed(pending_requests) /\ AllAddressed(request_queue) /\ AllAddressed(response_queue)

\* Between poll and the last accept every polled connection is open.
PolledOpen ==
    gateway = "accept" \/ (gateway \in {"top", "completions", "pending"} /\ after = "accept") =>
        DOMAIN polled \subseteq DOMAIN connections

\* The connection whose visit is in progress is open, and was polled.
VisitInv ==
    gateway \in {"receive", "flush"} =>
        visiting \in DOMAIN connections /\ visiting \in DOMAIN polled

LoopInv == EventsAreFresh /\ PolledOpen /\ VisitInv

IInv ==
    /\ KernelType /\ ConnectionType /\ LoopType /\ QueueType
    /\ NumberInv /\ MessageInv /\ LoopInv /\ AnswersReachTheirClient


-----------------------------------------------------------------------------
(* Queues of addressed messages                                             *)

\* A queue whose first element is taken.
LEMMA HeadAndTail ==
    ASSUME NEW S, NEW s \in Seq(S), s # <<>>
    PROVE  /\ Head(s) \in S /\ Tail(s) \in Seq(S) /\ Head(s) = s[1]
           /\ Len(s) \in Nat \ {0} /\ Len(Tail(s)) = Len(s) - 1
           /\ \A i \in 1..Len(Tail(s)) : Tail(s)[i] = s[i + 1]
  OBVIOUS

\* A queue that one element joins.
LEMMA Appended ==
    ASSUME NEW S, NEW s \in Seq(S), NEW e \in S
    PROVE  /\ Append(s, e) \in Seq(S) /\ Append(s, e) # <<>>
           /\ Len(s) \in Nat /\ Len(Append(s, e)) = Len(s) + 1
           /\ \A i \in 1..Len(s) : Append(s, e)[i] = s[i]
           /\ Append(s, e)[Len(s) + 1] = e
  OBVIOUS

\* A part of a queue.
LEMMA Part ==
    ASSUME NEW S, NEW s \in Seq(S), NEW m \in 1..(Len(s) + 1), NEW n \in (m - 1)..Len(s)
    PROVE  /\ SubSeq(s, m, n) \in Seq(S) /\ Len(SubSeq(s, m, n)) = n - m + 1
           /\ \A i \in 1..(n - m + 1) : SubSeq(s, m, n)[i] = s[m + i - 1]
  OBVIOUS

\* Two queues, one behind the other.  The provers take \o apart whenever they
\* see it, and leave this whole.
Cat(s, t) == s \o t

LEMMA CatType ==
    ASSUME NEW S, NEW s \in Seq(S), NEW t \in Seq(S)
    PROVE  /\ Cat(s, t) \in Seq(S) /\ Len(s) \in Nat /\ Len(t) \in Nat
           /\ Len(Cat(s, t)) = Len(s) + Len(t)
           /\ \A i \in 1..Len(s) : Cat(s, t)[i] = s[i]
           /\ \A i \in (Len(s) + 1)..(Len(s) + Len(t)) : Cat(s, t)[i] = t[i - Len(s)]
  BY DEF Cat

\* The connections that are open afterwards were open before, with the same
\* number and the same client.
Kept ==
    /\ DOMAIN connections' \subseteq DOMAIN connections
    /\ \A d \in DOMAIN connections' :
          connections'[d].id = connections[d].id /\ peer'[d] = peer[d]
    /\ next_connection_id' = next_connection_id

\* Closing connections takes no address from a message.
LEMMA KeptNumbers ==
    ASSUME NumberInv, Kept
    PROVE  NumberInv' /\ \A m : Addressed(m) => Addressed(m)'
  BY DEF NumberInv, Kept, Addressed, Issued

LEMMA KeptMessages ==
    ASSUME NEW q \in Seq(Message), AllAddressed(q), \A m : Addressed(m) => Addressed(m)'
    PROVE  \A i \in 1..Len(q) : Addressed(q[i])'
  BY DEF AllAddressed

\* No connection, message or event is touched.
LEMMA KeptAll ==
    ASSUME ConnectionType, NumberInv, MessageInv, AnswersReachTheirClient,
           UNCHANGED <<connections, peer, next_connection_id, pending_requests, request_queue,
                       response_queue>>
    PROVE  ConnectionType' /\ NumberInv' /\ MessageInv' /\ AnswersReachTheirClient'
  BY DEF ConnectionType, NumberInv, MessageInv, AnswersReachTheirClient, AllAddressed, Addressed,
         Issued

\* A queue is a queue of addressed messages after its first is taken, and after an
\* addressed one joins.
LEMMA TailAddressed ==
    ASSUME NEW q \in Seq(Message), q # <<>>, AllAddressed(q)
    PROVE  /\ Head(q) \in Message /\ Addressed(Head(q))
           /\ Tail(q) \in Seq(Message) /\ AllAddressed(Tail(q))
           /\ Len(q) \in Nat \ {0} /\ Len(Tail(q)) = Len(q) - 1
<1> DEFINE t == Tail(q)
<1>1. /\ Head(q) \in Message /\ t \in Seq(Message) /\ Head(q) = q[1]
      /\ Len(q) \in Nat \ {0} /\ Len(t) = Len(q) - 1
      /\ \A i \in 1..Len(t) : t[i] = q[i + 1]
  BY HeadAndTail
<1> HIDE DEF t
<1>2. 1 \in 1..Len(q) /\ \A i \in 1..Len(t) : i + 1 \in 1..Len(q)
  BY <1>1
<1>3. AllAddressed(t) /\ Addressed(q[1])
  BY <1>1, <1>2 DEF AllAddressed
<1> QED BY <1>1, <1>3 DEF t

LEMMA AppendAddressed ==
    ASSUME NEW q \in Seq(Message), NEW m \in Message, AllAddressed(q), Addressed(m)
    PROVE  /\ Append(q, m) \in Seq(Message) /\ AllAddressed(Append(q, m))
           /\ Len(q) \in Nat /\ Len(Append(q, m)) = Len(q) + 1
<1> DEFINE t == Append(q, m)
<1>1. /\ t \in Seq(Message) /\ Len(q) \in Nat /\ Len(t) = Len(q) + 1
      /\ \A i \in 1..Len(q) : t[i] = q[i]
      /\ t[Len(q) + 1] = m
  BY Appended
<1> HIDE DEF t
<1>2. AllAddressed(t)
  <2> SUFFICES ASSUME NEW i \in 1..Len(t) PROVE Addressed(t[i])
    BY DEF AllAddressed
  <2>1. i \in 1..Len(q) \/ i = Len(q) + 1
    BY <1>1
  <2> QED BY <1>1, <2>1 DEF AllAddressed
<1> QED BY <1>1, <1>2 DEF t

\* Messages m..n of s, which are addressed, join q.
LEMMA PartAddressed ==
    ASSUME NEW q \in Seq(Message), NEW s \in Seq(Message), AllAddressed(q), AllAddressed(s),
           NEW m \in 1..(Len(s) + 1), NEW n \in (m - 1)..Len(s)
    PROVE  /\ q \o SubSeq(s, m, n) \in Seq(Message) /\ AllAddressed(q \o SubSeq(s, m, n))
           /\ Len(q) \in Nat /\ Len(q \o SubSeq(s, m, n)) = Len(q) + n - m + 1
<1> DEFINE p == SubSeq(s, m, n)
           t == Cat(q, p)
<1>1. p \in Seq(Message) /\ Len(p) = n - m + 1 /\ \A i \in 1..(n - m + 1) : p[i] = s[m + i - 1]
  BY Part
<1>2. Len(s) \in Nat /\ m \in Int /\ n \in Int
  OBVIOUS
<1>3. AllAddressed(p)
  <2> HIDE DEF p
  <2> SUFFICES ASSUME NEW i \in 1..Len(p) PROVE Addressed(p[i])
    BY DEF AllAddressed
  <2>1. i \in 1..(n - m + 1) /\ m + i - 1 \in 1..Len(s)
    BY <1>1, <1>2
  <2> QED BY <1>1, <2>1 DEF AllAddressed
<1> HIDE DEF p
<1>4. /\ t \in Seq(Message) /\ Len(q) \in Nat /\ Len(p) \in Nat /\ Len(t) = Len(q) + Len(p)
      /\ \A i \in 1..Len(q) : t[i] = q[i]
      /\ \A i \in (Len(q) + 1)..(Len(q) + Len(p)) : t[i] = p[i - Len(q)]
  BY <1>1, CatType, ZenonT(30)
<1> HIDE DEF t
<1>5. AllAddressed(t)
  <2> SUFFICES ASSUME NEW i \in 1..Len(t) PROVE Addressed(t[i])
    BY DEF AllAddressed
  <2>1. CASE i \in 1..Len(q)
    BY <1>4, <2>1 DEF AllAddressed
  <2>2. CASE i \notin 1..Len(q)
    <3>1. i \in (Len(q) + 1)..(Len(q) + Len(p)) /\ i - Len(q) \in 1..Len(p)
      BY <1>4, <2>2
    <3>2. t[i] = p[i - Len(q)]
      BY <1>4, <3>1
    <3> QED BY <1>3, <3>1, <3>2 DEF AllAddressed
  <2> QED BY <2>1, <2>2
<1>6. t = q \o p
  BY DEF t, Cat
<1>7. Len(t) = Len(q) + n - m + 1
  BY <1>1, <1>2, <1>4
<1> QED BY <1>4, <1>5, <1>6, <1>7 DEF p

-----------------------------------------------------------------------------
(* Steps that leave the connections and the messages alone                  *)

\* The gateway's loop stays where it is.
LEMMA KeptLoop ==
    ASSUME LoopType, LoopInv,
           UNCHANGED <<connections, gateway, loop_vars, shutdown_started, reads_paused>>
    PROVE  LoopType' /\ LoopInv'
  BY DEF LoopType, LoopInv, EventsAreFresh, PolledOpen, VisitInv, loop_vars

LEMMA KeptQueues ==
    ASSUME QueueType, UNCHANGED <<pending_requests, in_flight, request_queue, response_queue>>
    PROVE  QueueType'
  BY DEF QueueType

\* Clients connect, send and leave.
LEMMA ClientStepInv ==
    ASSUME IInv, ClientStep
    PROVE  IInv'
<1>1. /\ UNCHANGED <<gateway, loop_vars, state_vars, queues, peer>>
  BY DEF ClientStep, Connect, Send, Leave
<1>2. LoopType' /\ LoopInv' /\ QueueType' /\ ConnectionType' /\ NumberInv' /\ MessageInv'
      /\ AnswersReachTheirClient'
  <2>1. UNCHANGED <<connections, gateway, shutdown_started, reads_paused, next_connection_id,
                    pending_requests, in_flight, request_queue, response_queue, peer>>
    BY <1>1 DEF state_vars, queues
  <2>2. LoopType' /\ LoopInv'
    BY <1>1, <2>1, KeptLoop DEF IInv
  <2>3. QueueType'
    BY <2>1, KeptQueues DEF IInv
  <2> QED BY <2>1, <2>2, <2>3, KeptAll DEF IInv
<1>3. KernelType'
  <2>1. PICK c \in Clients : Connect(c) \/ Send(c) \/ Leave(c)
    BY DEF ClientStep
  <2>2. CASE Connect(c)
    <3>1. backlog \in Seq(Clients)
      BY DEF IInv, KernelType
    <3>2. Append(backlog, c) \in Seq(Clients)
      BY <3>1, Appended
    <3> QED BY <2>2, <3>2 DEF Connect, IInv, KernelType
  <2>3. CASE Send(c)
    BY <2>3 DEF Send, IInv, KernelType
  <2>4. CASE Leave(c)
    <3>1. Leaves[c] \subseteq {"ended", "malformed", "reset"}
      BY ConnectionsAssumption
    <3> QED BY <2>4, <3>1 DEF Leave, IInv, KernelType
  <2> QED BY <2>1, <2>2, <2>3, <2>4
<1> QED BY <1>2, <1>3 DEF IInv

\* The gateway's end of some connections is closed.
LEMMA DisconnectType ==
    ASSUME KernelType, NEW S, Disconnect(S)
    PROVE  /\ link' \in [Clients -> {"away", "up", "ended", "malformed", "reset", "closed"}]
           /\ arrived' \in [Clients -> Nat]
  BY DEF KernelType, Disconnect

\* The shutdown drops what was retained and the clients nobody accepts any more.
LEMMA begin_shutdownInv ==
    ASSUME IInv, begin_shutdown_if_requested
    PROVE  IInv'
<1>1. /\ gateway = "top" /\ gateway' = "completions"
      /\ UNCHANGED <<sent, peer, loop_vars, connections, next_connection_id, reads_paused,
                     in_flight, request_queue, response_queue>>
  BY DEF begin_shutdown_if_requested, queues
<1>2. KernelType' /\ shutdown_started' \in BOOLEAN
  <2>1. CASE stop_requested /\ ~shutdown_started
    <3>1. shutdown_started' = TRUE /\ backlog' = <<>> /\ Disconnect(Range(backlog))
      BY <2>1 DEF begin_shutdown_if_requested
    <3>2. <<>> \in Seq(Clients)
      OBVIOUS
    <3>3. /\ link' \in [Clients -> {"away", "up", "ended", "malformed", "reset", "closed"}]
          /\ arrived' \in [Clients -> Nat]
      BY <3>1, DisconnectType DEF IInv
    <3> QED BY <1>1, <3>1, <3>2, <3>3 DEF IInv, KernelType
  <2>2. CASE ~(stop_requested /\ ~shutdown_started)
    <3>1. UNCHANGED <<shutdown_started, backlog, link, arrived>>
      BY <2>2 DEF begin_shutdown_if_requested
    <3> QED BY <1>1, <3>1 DEF IInv, KernelType, LoopType
  <2> QED BY <2>1, <2>2
<1>3. QueueType' /\ MessageInv'
  <2>1. pending_requests' \in {<<>>, pending_requests}
    BY DEF begin_shutdown_if_requested
  <2>2. <<>> \in Seq(Message) /\ Len(<<>>) = 0
    OBVIOUS
  <2>3. QueueType'
    <3>1. MaxPending \in Nat
      BY ConnectionsAssumption
    <3>2. pending_requests \in Seq(Message) /\ Len(pending_requests) <= MaxPending
      BY DEF IInv, QueueType
    <3>3. pending_requests' \in Seq(Message) /\ Len(pending_requests') <= MaxPending
      <4>1. CASE pending_requests' = <<>>
        BY <2>2, <3>1, <4>1
      <4>2. CASE pending_requests' = pending_requests
        BY <3>2, <4>2
      <4> QED BY <2>1, <4>1, <4>2
    <3> QED BY <1>1, <3>3 DEF IInv, QueueType
  <2>4. AllAddressed(pending_requests)'
    BY <1>1, <2>1, <2>2 DEF IInv, MessageInv, AllAddressed, Addressed, Issued
  <2>5. AllAddressed(request_queue)' /\ AllAddressed(response_queue)'
    BY <1>1 DEF IInv, MessageInv, AllAddressed, Addressed, Issued
  <2> QED BY <2>3, <2>4, <2>5 DEF MessageInv
<1>4. ConnectionType' /\ NumberInv' /\ AnswersReachTheirClient'
  BY <1>1 DEF IInv, ConnectionType, NumberInv, Issued, AnswersReachTheirClient
<1>5. LoopType' /\ LoopInv'
  BY <1>1, <1>2
  DEF IInv, LoopType, LoopInv, EventsAreFresh, PolledOpen, VisitInv, loop_vars
<1> QED BY <1>2, <1>3, <1>4, <1>5 DEF IInv

-----------------------------------------------------------------------------
(* Answers and retained requests                                            *)

\* queue_response keeps what a connection is and adds at most one answer.
LEMMA queue_responseType ==
    ASSUME NEW k \in Connection, NEW m \in Message
    PROVE  /\ queue_response(k, m) \in Connection /\ queue_response(k, m).id = k.id
           /\ \A i \in DOMAIN queue_response(k, m).output :
                 \/ i \in DOMAIN k.output /\ queue_response(k, m).output[i] = k.output[i]
                 \/ queue_response(k, m).output[i] = m
<1> DEFINE o == k.output
           a == Append(o, m)
<1>1. o \in Seq(Message) /\ <<>> \in Seq(Message)
  BY DEF Connection
<1>2. /\ a \in Seq(Message) /\ Len(o) \in Nat /\ Len(a) = Len(o) + 1
      /\ \A i \in 1..Len(o) : a[i] = o[i]
      /\ a[Len(o) + 1] = m
  <2> HIDE DEF o
  <2> QED BY <1>1, Appended
<1> HIDE DEF a
<1>3. CASE Len(o) < MaxOutput
  <2>1. queue_response(k, m) = [k EXCEPT !.output = a]
    BY <1>3 DEF queue_response, a
  <2>2. queue_response(k, m) \in Connection
    BY <1>2, <2>1 DEF Connection
  <2>3. queue_response(k, m).id = k.id /\ queue_response(k, m).output = a
    BY <2>1 DEF Connection
  <2>4. DOMAIN a = 1..(Len(o) + 1) /\ DOMAIN o = 1..Len(o)
    BY <1>1, <1>2
  <2>5. \A i \in DOMAIN a : (i \in DOMAIN o /\ a[i] = o[i]) \/ a[i] = m
    <3> SUFFICES ASSUME NEW i \in 1..(Len(o) + 1) PROVE (i \in 1..Len(o) /\ a[i] = o[i]) \/ a[i] = m
      BY <2>4
    <3>1. i \in 1..Len(o) \/ i = Len(o) + 1
      BY <1>2
    <3> QED BY <1>2, <3>1
  <2> QED BY <2>2, <2>3, <2>5
<1>4. CASE ~(Len(o) < MaxOutput)
  <2>1. queue_response(k, m) = [k EXCEPT !.output = <<>>, !.closing = TRUE]
    BY <1>4 DEF queue_response
  <2>2. queue_response(k, m) \in Connection
    BY <1>1, <2>1, Zenon DEF Connection
  <2>3. queue_response(k, m).id = k.id /\ queue_response(k, m).output = <<>>
    BY <2>1 DEF Connection
  <2> QED BY <2>2, <2>3
<1> QED BY <1>3, <1>4

\* An answer that is addressed is queued for the client that asked.
LEMMA drain_engine_completionsInv ==
    ASSUME IInv, drain_engine_completions
    PROVE  IInv'
<1>1. /\ gateway = "completions" /\ gateway' \in {"completions", "pending"}
      /\ UNCHANGED <<kernel, loop_vars, next_connection_id, pending_requests, reads_paused,
                     shutdown_started, request_queue>>
  BY DEF drain_engine_completions
<1>2. KernelType'
  BY <1>1 DEF IInv, KernelType, kernel
<1>3. CASE response_queue = <<>>
  <2>1. UNCHANGED <<connections, in_flight, response_queue>>
    BY <1>3 DEF drain_engine_completions
  <2>2. QueueType' /\ ConnectionType' /\ NumberInv' /\ MessageInv' /\ AnswersReachTheirClient'
    <3>1. UNCHANGED peer
      BY <1>1 DEF kernel
    <3> QED BY <1>1, <2>1, <3>1, KeptQueues, KeptAll DEF IInv
  <2>3. LoopType' /\ LoopInv'
    BY <1>1, <2>1 DEF IInv, LoopType, LoopInv, EventsAreFresh, PolledOpen, VisitInv, loop_vars
  <2> QED BY <1>2, <2>2, <2>3 DEF IInv
<1>4. CASE response_queue # <<>>
  <2> DEFINE m == Head(response_queue)
  <2>1. /\ connections' = Answer(m) /\ response_queue' = Tail(response_queue)
        /\ in_flight' = in_flight - 1 /\ gateway' = gateway /\ peer' = peer
    BY <1>1, <1>4 DEF drain_engine_completions, kernel
  <2>2. response_queue \in Seq(Message) /\ AllAddressed(response_queue)
    BY DEF IInv, QueueType, MessageInv
  <2>3. /\ m \in Message /\ Addressed(m)
        /\ response_queue' \in Seq(Message) /\ AllAddressed(Tail(response_queue))
        /\ Len(response_queue) \in Nat \ {0} /\ Len(response_queue') = Len(response_queue) - 1
    BY <1>4, <2>1, <2>2, TailAddressed
  <2> HIDE DEF m
  <2>4. DOMAIN connections' = DOMAIN connections
    BY <2>1 DEF Answer
  <2>5. ASSUME NEW d \in DOMAIN connections
        PROVE  /\ connections'[d] \in Connection /\ connections'[d].id = connections[d].id
               /\ \A i \in DOMAIN connections'[d].output : connections'[d].output[i].client = peer[d]
    <3>1. connections[d] \in Connection
      BY DEF IInv, ConnectionType
    <3>2. \A i \in DOMAIN connections[d].output : connections[d].output[i].client = peer[d]
      BY DEF IInv, AnswersReachTheirClient
    <3>3. CASE d \in Active(m.connection_id)
      <4>1. connections'[d] = queue_response(connections[d], m)
        BY <2>1, <3>3 DEF Answer
      <4>2. m.client = peer[d]
        BY <2>3, <3>3 DEF Active, find_connection, Addressed
      <4> DEFINE k == connections[d]
                 r == queue_response(k, m)
      <4>3. /\ r \in Connection /\ r.id = k.id
            /\ \A i \in DOMAIN r.output :
                  (i \in DOMAIN k.output /\ r.output[i] = k.output[i]) \/ r.output[i] = m
        <5> HIDE DEF k
        <5> QED BY <2>3, <3>1, queue_responseType DEF k
      <4> HIDE DEF r
      <4>4. \A i \in DOMAIN r.output : r.output[i].client = peer[d]
        BY <3>2, <4>2, <4>3
      <4> QED BY <4>1, <4>3, <4>4 DEF r
    <3>4. CASE d \notin Active(m.connection_id)
      <4>1. connections'[d] = connections[d]
        BY <2>1, <3>4 DEF Answer
      <4> QED BY <3>1, <3>2, <4>1
    <3> QED BY <3>3, <3>4
  <2>6. ConnectionType'
    <3>1. connections' = [d \in DOMAIN connections' |-> connections'[d]]
      BY <2>1 DEF Answer
    <3>2. \A d \in DOMAIN connections' : connections'[d] \in Connection
      BY <2>4, <2>5
    <3>3. connections' \in [DOMAIN connections' -> Connection]
      BY <3>1, <3>2
    <3> QED BY <1>1, <2>1, <2>4, <3>3 DEF IInv, ConnectionType
  <2>7. Kept
    BY <1>1, <2>1, <2>4, <2>5 DEF Kept
  <2>8. NumberInv' /\ \A x : Addressed(x) => Addressed(x)'
    BY <2>7, KeptNumbers DEF IInv
  <2>9. MessageInv'
    <3>1. AllAddressed(pending_requests)' /\ AllAddressed(request_queue)'
      BY <1>1, <2>8 DEF IInv, MessageInv, AllAddressed
    <3>2. AllAddressed(response_queue)'
      BY <2>1, <2>3, <2>8 DEF AllAddressed
    <3> QED BY <3>1, <3>2 DEF MessageInv
  <2>10. QueueType'
    <3>1. Len(request_queue) \in Nat /\ maximum_in_flight \in Nat
      BY ConnectionsAssumption DEF IInv, QueueType
    <3>2. in_flight' = Len(request_queue') + Len(response_queue') /\ in_flight' <= maximum_in_flight
      BY <1>1, <2>1, <2>3, <3>1 DEF IInv, QueueType
    <3> QED BY <1>1, <2>3, <3>2 DEF IInv, QueueType
  <2>11. AnswersReachTheirClient'
    BY <2>1, <2>4, <2>5 DEF AnswersReachTheirClient
  <2>12. LoopType' /\ LoopInv'
    BY <1>1, <2>1, <2>4, <2>5
    DEF IInv, LoopType, LoopInv, EventsAreFresh, PolledOpen, VisitInv, loop_vars
  <2> QED BY <1>2, <2>6, <2>8, <2>9, <2>10, <2>11, <2>12 DEF IInv
<1> QED BY <1>3, <1>4

\* A retained request is admitted, dropped with its connection, or stays.
LEMMA drain_pending_requestsInv ==
    ASSUME IInv, drain_pending_requests
    PROVE  IInv'
<1>1. /\ gateway = "pending" /\ gateway' \in {"pending", after}
      /\ UNCHANGED <<kernel, loop_vars, connections, next_connection_id, shutdown_started,
                     response_queue>>
      /\ reads_paused' \in {reads_paused, TRUE, FALSE}
  BY Zenon DEF drain_pending_requests
<1>2. KernelType' /\ ConnectionType' /\ NumberInv' /\ AnswersReachTheirClient'
  <2>1. UNCHANGED peer
    BY <1>1 DEF kernel
  <2>2. KernelType'
    BY <1>1 DEF IInv, KernelType, kernel
  <2> QED BY <1>1, <2>1, <2>2 DEF IInv, ConnectionType, NumberInv, Issued, AnswersReachTheirClient
<1>3. LoopType' /\ LoopInv'
  BY <1>1, Zenon DEF IInv, LoopType, LoopInv, EventsAreFresh, PolledOpen, VisitInv, loop_vars
<1>4. \A x : Addressed(x) => Addressed(x)'
  BY <1>1 DEF Addressed, Issued, kernel
<1> DEFINE p == pending_requests
           q == request_queue
<1>5. /\ p \in Seq(Message) /\ AllAddressed(p) /\ q \in Seq(Message) /\ AllAddressed(q)
      /\ AllAddressed(response_queue) /\ Len(response_queue) \in Nat /\ Len(q) \in Nat
      /\ Len(p) \in Nat /\ Len(p) <= MaxPending
      /\ in_flight = Len(q) + Len(response_queue) /\ in_flight <= maximum_in_flight
      /\ maximum_in_flight \in Nat /\ MaxPending \in Nat
  BY ConnectionsAssumption DEF IInv, QueueType, MessageInv
<1>6. AllAddressed(response_queue)'
  BY <1>1, <1>4, <1>5 DEF AllAddressed
<1>7. CASE UNCHANGED <<p, in_flight, q>>
  <2>1. QueueType'
    BY <1>1, <1>7, KeptQueues DEF IInv
  <2>2. AllAddressed(pending_requests)' /\ AllAddressed(request_queue)'
    BY <1>4, <1>5, <1>7 DEF AllAddressed
  <2> QED BY <1>2, <1>3, <1>6, <2>1, <2>2 DEF IInv, MessageInv
<1>8. ASSUME p # <<>>
      PROVE  /\ Head(p) \in Message /\ Addressed(Head(p))
             /\ Tail(p) \in Seq(Message) /\ AllAddressed(Tail(p)) /\ Len(Tail(p)) <= MaxPending
  <2>1. /\ Head(p) \in Message /\ Addressed(Head(p))
        /\ Tail(p) \in Seq(Message) /\ AllAddressed(Tail(p)) /\ Len(Tail(p)) = Len(p) - 1
    BY <1>5, <1>8, TailAddressed
  <2> QED BY <1>5, <2>1
<1>9. CASE p # <<>> /\ p' = Tail(p) /\ UNCHANGED <<in_flight, q>>
  <2>1. p' \in Seq(Message) /\ Len(p') <= MaxPending /\ AllAddressed(p')
    BY <1>8, <1>9
  <2>2. QueueType'
    BY <1>1, <1>5, <1>9, <2>1 DEF IInv, QueueType
  <2>3. AllAddressed(pending_requests)' /\ AllAddressed(request_queue)'
    BY <1>4, <1>5, <1>9, <2>1, Zenon DEF AllAddressed
  <2> QED BY <1>2, <1>3, <1>6, <2>2, <2>3 DEF IInv, MessageInv
<1>10. CASE /\ p # <<>> /\ p' = Tail(p) /\ in_flight # maximum_in_flight
            /\ q' = Append(q, Head(p)) /\ in_flight' = in_flight + 1
  <2>1. p' \in Seq(Message) /\ Len(p') <= MaxPending /\ AllAddressed(p')
    BY <1>8, <1>10
  <2>2. /\ q' \in Seq(Message) /\ AllAddressed(q') /\ Len(q') = Len(q) + 1
    <3>1. Head(p) \in Message /\ Addressed(Head(p))
      BY <1>8, <1>10
    <3>2. q \in Seq(Message) /\ AllAddressed(q) /\ q' = Append(q, Head(p))
      BY <1>5, <1>10
    <3> HIDE DEF p, q
    <3> QED BY <3>1, <3>2, AppendAddressed
  <2>3. in_flight' = Len(q') + Len(response_queue') /\ in_flight' <= maximum_in_flight
    BY <1>1, <1>5, <1>10, <2>2
  <2>4. QueueType'
    BY <1>1, <1>5, <2>1, <2>2, <2>3 DEF IInv, QueueType
  <2>5. AllAddressed(pending_requests)' /\ AllAddressed(request_queue)'
    BY <1>4, <2>1, <2>2 DEF AllAddressed
  <2> QED BY <1>2, <1>3, <1>6, <2>4, <2>5 DEF IInv, MessageInv
<1> QED BY <1>7, <1>9, <1>10, Zenon DEF drain_pending_requests

\* close_all_connections.
LEMMA shutdown_completeInv ==
    ASSUME IInv, shutdown_complete
    PROVE  IInv'
<1>1. /\ gateway = "check" /\ gateway' \in {"done", "poll"}
      /\ UNCHANGED <<sent, backlog, loop_vars, next_connection_id, pending_requests, reads_paused,
                     shutdown_started, queues>>
  BY DEF shutdown_complete
<1>2. UNCHANGED <<in_flight, request_queue, response_queue>>
  BY <1>1 DEF queues
<1>3. QueueType'
  BY <1>1, <1>2, KeptQueues DEF IInv
<1>4. CASE UNCHANGED <<connections, peer, link, arrived>>
  <2>1. KernelType'
    BY <1>1, <1>4 DEF IInv, KernelType
  <2>2. ConnectionType' /\ NumberInv' /\ MessageInv' /\ AnswersReachTheirClient'
    BY <1>1, <1>2, <1>4, KeptAll DEF IInv
  <2>3. LoopType' /\ LoopInv'
    BY <1>1, <1>4 DEF IInv, LoopType, LoopInv, EventsAreFresh, PolledOpen, VisitInv, loop_vars
  <2> QED BY <1>3, <2>1, <2>2, <2>3 DEF IInv
<1>5. CASE connections' = <<>> /\ peer' = <<>> /\ Disconnect(Range(peer))
  <2>1. DOMAIN connections' = {} /\ DOMAIN peer' = {}
    BY <1>5
  <2>2. KernelType'
    <3>1. /\ link' \in [Clients -> {"away", "up", "ended", "malformed", "reset", "closed"}]
          /\ arrived' \in [Clients -> Nat]
      BY <1>5, DisconnectType DEF IInv
    <3>2. peer' \in [DOMAIN peer' -> Clients] /\ DOMAIN peer' \subseteq Descriptors
      BY <1>5, <2>1
    <3> QED BY <1>1, <3>1, <3>2 DEF IInv, KernelType
  <2>3. ConnectionType'
    <3>1. connections' \in [DOMAIN connections' -> Connection]
      BY <1>5, <2>1
    <3> QED BY <1>1, <2>1, <3>1 DEF IInv, ConnectionType
  <2>4. Kept
    BY <1>1, <2>1 DEF Kept
  <2>5. NumberInv' /\ \A x : Addressed(x) => Addressed(x)'
    BY <2>4, KeptNumbers DEF IInv
  <2>6. MessageInv'
    BY <1>1, <1>2, <2>5 DEF IInv, MessageInv, AllAddressed
  <2>7. AnswersReachTheirClient'
    BY <2>1 DEF AnswersReachTheirClient
  <2>8. LoopType' /\ LoopInv'
    BY <1>1, <2>1 DEF IInv, LoopType, LoopInv, EventsAreFresh, PolledOpen, VisitInv, loop_vars
  <2> QED BY <1>3, <2>2, <2>3, <2>5, <2>6, <2>7, <2>8 DEF IInv
<1> QED BY <1>4, <1>5 DEF shutdown_complete

\* poll reports on the connections that are open.
LEMMA PollInv ==
    ASSUME IInv, Poll
    PROVE  IInv'
<1>1. /\ gateway = "poll" /\ gateway' \in {"top", "accept"} /\ after' \in {"accept", after}
      /\ UNCHANGED <<kernel, state_vars, queues>>
  BY DEF Poll
<1>2. PICK revents \in [DOMAIN connections -> SUBSET {"in", "out", "hup"}] :
         polled' = [d \in DOMAIN connections |->
                       [events |-> revents[d], id |-> connections[d].id]]
  BY DEF Poll
<1>3. UNCHANGED <<connections, peer, next_connection_id, pending_requests, request_queue,
                  response_queue, in_flight, shutdown_started, reads_paused>>
  BY <1>1 DEF kernel, state_vars, queues
<1>4. KernelType'
  BY <1>1 DEF IInv, KernelType, kernel
<1>5. QueueType' /\ ConnectionType' /\ NumberInv' /\ MessageInv' /\ AnswersReachTheirClient'
  BY <1>3, KeptQueues, KeptAll DEF IInv
<1>6. polled' \in [DOMAIN polled' -> Polled] /\ DOMAIN polled' = DOMAIN connections
  <2>1. \A d \in DOMAIN connections : connections[d].id \in 1..MaxConnectionId
    BY DEF IInv, ConnectionType, Connection
  <2>2. \A d \in DOMAIN connections : [events |-> revents[d], id |-> connections[d].id] \in Polled
    BY <1>2, <2>1 DEF Polled
  <2> QED BY <1>2, <2>2
<1>7. LoopType'
  BY <1>1, <1>3, <1>6 DEF IInv, LoopType
<1>8. EventsAreFresh'
  BY <1>2, <1>3 DEF EventsAreFresh
<1>9. PolledOpen' /\ VisitInv'
  BY <1>1, <1>3, <1>6 DEF PolledOpen, VisitInv
<1> QED BY <1>4, <1>5, <1>7, <1>8, <1>9 DEF IInv, LoopInv

-----------------------------------------------------------------------------
(* Connections that come                                                    *)

\* Every nonempty set of natural numbers has a least element.
LEMMA LeastElement ==
    ASSUME NEW T \in SUBSET Nat, T # {}
    PROVE  \E x \in T : \A y \in T : x <= y
<1> DEFINE R == {ss \in Nat \X Nat : ss[1] < ss[2]}
<1>1. PICK x \in T : \A y \in T : ~ (<<y, x>> \in R)
  <2>1. IsWellFoundedOn(R, Nat)
    BY NatLessThanWellFounded DEF OpToRel
  <2>2. T \subseteq Nat
    OBVIOUS
  <2> HIDE DEF R
  <2> QED BY <2>1, <2>2, WFMin, Zenon
<1>2. \A y \in T : x <= y
  <2> SUFFICES ASSUME NEW y \in T, y < x PROVE FALSE
    OBVIOUS
  <2>1. <<y, x>> \in Nat \X Nat
    OBVIOUS
  <2>2. <<y, x>> \in R
    BY <2>1
  <2> QED BY <1>1, <2>2
<1> QED BY <1>2

\* The kernel's descriptor is one that is not open.
LEMMA LeastIsFree ==
    ASSUME Descriptors \ DOMAIN peer # {}
    PROVE  Least(Descriptors \ DOMAIN peer) \in Descriptors \ DOMAIN peer
<1> DEFINE F == Descriptors \ DOMAIN peer
<1>1. F \in SUBSET Nat /\ F # {}
  BY ConnectionsAssumption, Zenon
<1> HIDE DEF F
<1>2. \E x \in F : \A y \in F : x <= y
  BY <1>1, LeastElement
<1>3. Least(F) \in F
  BY <1>2 DEF Least
<1> QED BY <1>3 DEF F

\* The new number is above all that were given, or the numbers end.
LEMMA NextNumber ==
    ASSUME ConnectionType, next_connection_id # 0,
           next_connection_id' = (next_connection_id + 1) % (MaxConnectionId + 1)
    PROVE  /\ next_connection_id' \in 0..MaxConnectionId
           /\ next_connection_id \in 1..MaxConnectionId
           /\ ~Issued(next_connection_id)
           /\ next_connection_id' = 0 \/ next_connection_id < next_connection_id'
           /\ \A id \in 1..MaxConnectionId : Issued(id) => Issued(id)'
<1>1. MaxConnectionId \in Nat \ {0} /\ next_connection_id \in 1..MaxConnectionId
  BY ConnectionsAssumption DEF ConnectionType
<1>2. CASE next_connection_id = MaxConnectionId
  <2>1. next_connection_id' = 0
    BY <1>1, <1>2
  <2> QED BY <1>1, <2>1 DEF Issued
<1>3. CASE next_connection_id # MaxConnectionId
  <2>1. next_connection_id' = next_connection_id + 1
    BY <1>1, <1>3
  <2>2. next_connection_id' \in 0..MaxConnectionId
    BY <1>1, <1>3, <2>1
  <2>3. ~Issued(next_connection_id)
    BY <1>1, <2>1 DEF Issued
  <2>4. \A id \in 1..MaxConnectionId : Issued(id) => Issued(id)'
    BY <1>1, <2>1 DEF Issued
  <2> QED BY <1>1, <2>1, <2>2, <2>3, <2>4
<1> QED BY <1>2, <1>3

\* A client gets a number nobody had and a descriptor nobody has.
LEMMA EmplacedInv ==
    ASSUME IInv, gateway = "accept", NEW c \in Clients, NEW d \in Descriptors, d \notin DOMAIN peer,
           next_connection_id # 0,
           connections' = Emplace(connections, d,
               [id |-> next_connection_id, closing |-> FALSE, output |-> <<>>]),
           next_connection_id' = (next_connection_id + 1) % (MaxConnectionId + 1),
           peer' = Emplace(peer, d, c), backlog' \in Seq(Clients),
           UNCHANGED <<link, arrived, sent, gateway, loop_vars, pending_requests, reads_paused,
                       shutdown_started, in_flight, request_queue, response_queue>>
    PROVE  IInv'
<1> DEFINE k == [id |-> next_connection_id, closing |-> FALSE, output |-> <<>>]
<1>1. /\ next_connection_id' \in 0..MaxConnectionId
      /\ next_connection_id \in 1..MaxConnectionId
      /\ ~Issued(next_connection_id)
      /\ next_connection_id' = 0 \/ next_connection_id < next_connection_id'
      /\ \A id \in 1..MaxConnectionId : Issued(id) => Issued(id)'
  BY NextNumber DEF IInv
<1>2. /\ DOMAIN connections' = DOMAIN connections \cup {d}
      /\ \A e \in DOMAIN connections : connections'[e] = connections[e]
      /\ connections'[d] = k /\ connections' = [e \in DOMAIN connections' |-> connections'[e]]
  BY DEF Emplace, IInv, ConnectionType
<1>3. /\ DOMAIN peer' = DOMAIN peer \cup {d} /\ peer'[d] = c
      /\ \A e \in DOMAIN peer : peer'[e] = peer[e]
      /\ peer' = [e \in DOMAIN peer' |-> peer'[e]]
  BY DEF Emplace
<1>4. DOMAIN connections = DOMAIN peer /\ d \notin DOMAIN connections
  BY DEF IInv, ConnectionType
<1>5. KernelType'
  <2>1. \A e \in DOMAIN peer' : peer'[e] \in Clients /\ e \in Descriptors
    BY <1>3 DEF IInv, KernelType
  <2>2. peer' \in [DOMAIN peer' -> Clients] /\ DOMAIN peer' \subseteq Descriptors
    BY <1>3, <2>1
  <2> QED BY <2>2 DEF IInv, KernelType
<1>6. ConnectionType'
  <2>1. <<>> \in Seq(Message)
    OBVIOUS
  <2>2. k \in Connection
    BY <1>1, <2>1, Zenon DEF Connection
  <2> HIDE DEF k
  <2>3. \A e \in DOMAIN connections' : connections'[e] \in Connection
    BY <1>2, <2>2, Zenon DEF IInv, ConnectionType
  <2>4. connections' \in [DOMAIN connections' -> Connection]
    BY <1>2, <2>3, Zenon
  <2> QED BY <1>1, <1>2, <1>3, <1>4, <2>4, Zenon DEF ConnectionType
<1>7. \A e \in DOMAIN connections : connections[e].id \in 1..MaxConnectionId
  BY DEF IInv, ConnectionType, Connection
<1>8. NumberInv'
  <2>1. \A e \in DOMAIN connections : Issued(connections[e].id)'
    BY <1>1, <1>2, <1>7, Zenon DEF IInv, NumberInv
  <2>2. \A e \in DOMAIN connections : connections'[e].id # next_connection_id
    BY <1>1, <1>2, ZenonT(30) DEF IInv, NumberInv
  <2>3. connections'[d].id = next_connection_id
    BY <1>2
  <2> HIDE DEF k
  <2>4. \A e \in DOMAIN connections' : Issued(connections[e].id)'
    BY <1>1, <1>2, <2>1, <2>3, Zenon DEF Issued
  <2>5. \A e, f \in DOMAIN connections' : connections'[e].id = connections'[f].id => e = f
    <3>1. \A e, f \in DOMAIN connections : connections[e].id = connections[f].id => e = f
      BY DEF IInv, NumberInv
    <3> SUFFICES ASSUME NEW e \in DOMAIN connections', NEW f \in DOMAIN connections',
                        connections'[e].id = connections'[f].id
                 PROVE  e = f
      BY Zenon
    <3>2. CASE e \in DOMAIN connections /\ f \in DOMAIN connections
      BY <1>2, <3>1, <3>2, Zenon
    <3>3. CASE e = d \/ f = d
      BY <1>2, <2>2, <2>3, <3>3, Zenon
    <3> QED BY <1>2, <3>2, <3>3
  <2> QED BY <2>4, <2>5, Zenon DEF NumberInv
<1>9. \A m \in Message : Addressed(m) => Addressed(m)'
  <2> SUFFICES ASSUME NEW m \in Message, Addressed(m) PROVE Addressed(m)'
    OBVIOUS
  <2>1. m.connection_id \in 1..MaxConnectionId /\ Issued(m.connection_id)
    BY DEF Message, Addressed
  <2>2. Issued(m.connection_id)' /\ m.connection_id # next_connection_id
    BY <1>1, <2>1
  <2>3. connections'[d].id = next_connection_id
    BY <1>2
  <2> HIDE DEF k
  <2>4. \A e \in DOMAIN connections' : connections'[e].id = m.connection_id => peer'[e] = m.client
    BY <1>2, <1>3, <1>4, <2>2, <2>3, ZenonT(30) DEF Addressed
  <2> QED BY <2>2, <2>4, Zenon DEF Addressed
<1>10. MessageInv'
  <2>1. /\ pending_requests \in Seq(Message) /\ request_queue \in Seq(Message)
        /\ response_queue \in Seq(Message)
    BY DEF IInv, QueueType
  <2> QED BY <1>9, <2>1 DEF IInv, MessageInv, AllAddressed
<1>11. QueueType'
  BY KeptQueues DEF IInv
<1>12. AnswersReachTheirClient'
  <2>1. connections'[d].output = <<>>
    BY <1>2
  <2> HIDE DEF k
  <2>2. DOMAIN connections'[d].output = {}
    BY <2>1
  <2>3. \A e \in DOMAIN connections : connections'[e] = connections[e] /\ peer'[e] = peer[e]
    BY <1>2, <1>3, <1>4, Zenon
  <2>4. \A e \in DOMAIN connections : \A i \in DOMAIN connections'[e].output :
           connections'[e].output[i].client = peer'[e]
    BY <2>3, Zenon DEF IInv, AnswersReachTheirClient
  <2> QED BY <1>2, <2>2, <2>4, Zenon DEF AnswersReachTheirClient
<1>13. LoopType' /\ LoopInv'
  <2>1. d \notin DOMAIN polled /\ DOMAIN polled \subseteq DOMAIN connections
    BY <1>4 DEF IInv, LoopInv, PolledOpen
  <2>2. EventsAreFresh'
    BY <1>2, <2>1, Zenon DEF IInv, LoopInv, EventsAreFresh, loop_vars
  <2>3. PolledOpen' /\ VisitInv'
    BY <1>2, <2>1 DEF PolledOpen, VisitInv, loop_vars
  <2> QED BY <2>2, <2>3 DEF IInv, LoopType, LoopInv, loop_vars
<1> QED BY <1>5, <1>6, <1>8, <1>10, <1>11, <1>12, <1>13 DEF IInv

LEMMA accept_connectionsInv ==
    ASSUME IInv, accept_connections
    PROVE  IInv'
<1> DEFINE c == Head(backlog)
           d == Least(Descriptors \ DOMAIN peer)
<1>1. d \in Descriptors /\ d \notin DOMAIN peer
  BY LeastIsFree DEF accept_connections
<1>2. c \in Clients /\ Tail(backlog) \in Seq(Clients)
  <2>1. backlog \in Seq(Clients) /\ backlog # <<>>
    BY DEF IInv, KernelType, accept_connections
  <2> QED BY <2>1, HeadAndTail
<1>3. /\ gateway = "accept" /\ backlog' = Tail(backlog)
      /\ UNCHANGED <<sent, gateway, loop_vars, pending_requests, reads_paused, shutdown_started,
                     in_flight, request_queue, response_queue>>
  BY DEF accept_connections, queues
<1>4. CASE /\ next_connection_id # 0
           /\ connections' = Emplace(connections, d,
                 [id |-> next_connection_id, closing |-> FALSE, output |-> <<>>])
           /\ next_connection_id' = (next_connection_id + 1) % (MaxConnectionId + 1)
           /\ peer' = Emplace(peer, d, c) /\ UNCHANGED <<link, arrived>>
  <2> HIDE DEF c, d
  <2> QED BY <1>1, <1>2, <1>3, <1>4, EmplacedInv
<1>5. CASE Disconnect({c}) /\ UNCHANGED <<connections, next_connection_id, peer>>
  <2>1. KernelType'
    <3>1. /\ link' \in [Clients -> {"away", "up", "ended", "malformed", "reset", "closed"}]
          /\ arrived' \in [Clients -> Nat]
      BY <1>5, DisconnectType DEF IInv
    <3> QED BY <1>2, <1>3, <1>5, <3>1 DEF IInv, KernelType
  <2>2. QueueType' /\ ConnectionType' /\ NumberInv' /\ MessageInv' /\ AnswersReachTheirClient'
    BY <1>3, <1>5, KeptQueues, KeptAll DEF IInv
  <2>3. LoopType' /\ LoopInv'
    BY <1>3, <1>5, KeptLoop DEF IInv
  <2> QED BY <2>1, <2>2, <2>3 DEF IInv
<1> QED BY <1>4, <1>5 DEF accept_connections, ConnectionNumber

\* Steps of the loop alone.
LEMMA LoopStepInv ==
    ASSUME IInv, Accepted \/ (\E d \in Descriptors : VisitClient(d)) \/ LoopBack
    PROVE  IInv'
<1>1. UNCHANGED <<kernel, state_vars, queues>>
  BY Zenon DEF Accepted, VisitClient, LoopBack
<1>2. UNCHANGED <<connections, peer, next_connection_id, pending_requests, request_queue,
                  response_queue, in_flight, shutdown_started, reads_paused>>
  BY <1>1 DEF kernel, state_vars, queues
<1>3. KernelType'
  BY <1>1 DEF IInv, KernelType, kernel
<1>4. QueueType' /\ ConnectionType' /\ NumberInv' /\ MessageInv' /\ AnswersReachTheirClient'
  BY <1>2, KeptQueues, KeptAll DEF IInv
<1>5. CASE Accepted
  <2>1. LoopType' /\ LoopInv'
    BY <1>2, <1>5
    DEF Accepted, IInv, LoopType, LoopInv, EventsAreFresh, PolledOpen, VisitInv, loop_vars
  <2> QED BY <1>3, <1>4, <2>1 DEF IInv
<1>6. CASE LoopBack
  <2>1. LoopType' /\ LoopInv'
    BY <1>2, <1>6
    DEF LoopBack, IInv, LoopType, LoopInv, EventsAreFresh, PolledOpen, VisitInv
  <2> QED BY <1>3, <1>4, <2>1 DEF IInv
<1>7. ASSUME NEW d \in Descriptors, VisitClient(d)
      PROVE  IInv'
  <2>1. gateway = "clients" /\ d \in DOMAIN polled /\ after' = after
    BY <1>7, ZenonT(30) DEF VisitClient
  <2>2. CASE d \notin DOMAIN connections
    <3>1. polled' = Restrict(polled, DOMAIN polled \ {d}) /\ UNCHANGED <<gateway, visiting>>
      BY <1>7, <2>2 DEF VisitClient
    <3>2. /\ DOMAIN polled' = DOMAIN polled \ {d} /\ polled' \in [DOMAIN polled' -> Polled]
          /\ \A e \in DOMAIN polled' : polled'[e] = polled[e]
      BY <3>1 DEF Restrict, IInv, LoopType
    <3>3. LoopType'
      BY <1>2, <2>1, <3>1, <3>2 DEF IInv, LoopType
    <3>4. EventsAreFresh' /\ PolledOpen' /\ VisitInv'
      BY <1>2, <2>1, <3>1, <3>2 DEF IInv, LoopInv, EventsAreFresh, PolledOpen, VisitInv
    <3> QED BY <1>3, <1>4, <3>3, <3>4 DEF IInv, LoopInv
  <2>3. CASE d \in DOMAIN connections
    <3>1. visiting' = d /\ polled' = polled /\ gateway' \in {"receive", "flush"}
      BY <1>7, <2>3 DEF VisitClient
    <3>2. LoopType'
      BY <1>2, <2>1, <3>1 DEF IInv, LoopType
    <3>3. EventsAreFresh' /\ PolledOpen' /\ VisitInv'
      BY <1>2, <2>1, <2>3, <3>1, ZenonT(30) DEF IInv, LoopInv, EventsAreFresh, PolledOpen, VisitInv
    <3> QED BY <1>3, <1>4, <3>2, <3>3 DEF IInv, LoopInv
  <2> QED BY <2>2, <2>3
<1> QED BY <1>5, <1>6, <1>7

-----------------------------------------------------------------------------
(* Requests that come, and connections that go                              *)

\* A connection's closing or output changes and no other connection.
LEMMA UpdatedConnection ==
    ASSUME IInv, NEW d \in DOMAIN connections, NEW k \in Connection, k.id = connections[d].id,
           \A i \in DOMAIN k.output : k.output[i].client = peer[d],
           connections' = [connections EXCEPT ![d] = k],
           UNCHANGED <<peer, next_connection_id>>
    PROVE  /\ ConnectionType' /\ NumberInv' /\ AnswersReachTheirClient'
           /\ \A m : Addressed(m) => Addressed(m)'
           /\ DOMAIN connections' = DOMAIN connections
           /\ \A e \in DOMAIN connections : connections'[e].id = connections[e].id
<1>1. /\ DOMAIN connections' = DOMAIN connections /\ connections'[d] = k
      /\ \A e \in DOMAIN connections : e # d => connections'[e] = connections[e]
  BY DEF IInv, ConnectionType
<1>2. \A e \in DOMAIN connections : connections'[e].id = connections[e].id
  BY <1>1
<1>3. ConnectionType'
  <2>1. connections' \in [DOMAIN connections' -> Connection]
    BY <1>1 DEF IInv, ConnectionType
  <2> QED BY <1>1, <2>1 DEF IInv, ConnectionType
<1>4. Kept
  BY <1>1, <1>2 DEF Kept
<1>5. NumberInv' /\ \A m : Addressed(m) => Addressed(m)'
  BY <1>4, KeptNumbers DEF IInv
<1>6. AnswersReachTheirClient'
  <2>1. \A e \in DOMAIN connections : e # d => \A i \in DOMAIN connections'[e].output :
           connections'[e].output[i].client = peer'[e]
    BY <1>1 DEF IInv, AnswersReachTheirClient
  <2>2. \A i \in DOMAIN connections'[d].output : connections'[d].output[i].client = peer'[d]
    BY <1>1
  <2> QED BY <1>1, <2>1, <2>2 DEF AnswersReachTheirClient
<1> QED BY <1>1, <1>2, <1>3, <1>5, <1>6

\* What a recv brings is addressed to the connection it came from.
LEMMA ReceivedAddressed ==
    ASSUME IInv, NEW d \in DOMAIN connections, NEW n \in 0..arrived[peer[d]]
    PROVE  Received(d, n) \in Seq(Message) /\ Len(Received(d, n)) = n /\ AllAddressed(Received(d, n))
<1> DEFINE c == peer[d]
           s == Received(d, n)
           M(i) == [connection_id |-> connections[d].id, client |-> c,
                    number |-> sent[c] - arrived[c] + i]
<1>1. c \in Clients /\ connections[d] \in Connection /\ d \in DOMAIN peer
  BY DEF IInv, KernelType, ConnectionType
<1>2. arrived[c] \in Nat /\ sent[c] \in Nat /\ n \in Nat
  BY <1>1 DEF IInv, KernelType
<1>3. connections[d].id \in 1..MaxConnectionId
  BY <1>1 DEF Connection
<1>4. \A i \in 1..n : M(i) \in Message
  BY <1>1, <1>2, <1>3 DEF Message
<1>5. s = [i \in 1..n |-> M(i)]
  BY DEF Received
<1>6. s \in [1..n -> Message]
  <2> HIDE DEF M
  <2> QED BY <1>4, <1>5
<1>7. s \in Seq(Message) /\ Len(s) = n
  <2> HIDE DEF s
  <2> QED BY <1>2, <1>6
<1>8. \A i \in 1..n : s[i].connection_id = connections[d].id /\ s[i].client = peer[d]
  BY <1>5
<1>9. ASSUME NEW m, m.connection_id = connections[d].id, m.client = peer[d]
      PROVE  Addressed(m)
  BY <1>9 DEF IInv, NumberInv, Addressed
<1>10. AllAddressed(s)
  <2> HIDE DEF s
  <2> QED BY <1>7, <1>8, <1>9 DEF AllAddressed
<1> QED BY <1>7, <1>10

LEMMA ClosingConnection ==
    ASSUME IInv, NEW d \in DOMAIN connections, NEW b \in BOOLEAN,
           connections' = [connections EXCEPT ![d].closing = b],
           UNCHANGED <<peer, next_connection_id>>
    PROVE  /\ ConnectionType' /\ NumberInv' /\ AnswersReachTheirClient'
           /\ \A m : Addressed(m) => Addressed(m)'
           /\ DOMAIN connections' = DOMAIN connections
           /\ \A e \in DOMAIN connections : connections'[e].id = connections[e].id
<1> DEFINE k == [connections[d] EXCEPT !.closing = b]
<1>1. connections[d] \in Connection
  BY DEF IInv, ConnectionType
<1>2. k \in Connection /\ k.id = connections[d].id /\ k.output = connections[d].output
  BY <1>1 DEF Connection
<1>3. \A i \in DOMAIN k.output : k.output[i].client = peer[d]
  BY <1>2 DEF IInv, AnswersReachTheirClient
<1>4. connections' = [connections EXCEPT ![d] = k]
  BY DEF IInv, ConnectionType
<1> HIDE DEF k
<1> QED BY <1>2, <1>3, <1>4, UpdatedConnection, Zenon

\* What is taken of the messages fits in flight, and what is kept fits behind the
\* retained ones.
LEMMA TakeQueues ==
    ASSUME IInv, NEW d \in DOMAIN connections, NEW s \in Seq(Message), AllAddressed(s),
           NEW malformed \in BOOLEAN, Take(d, s, malformed), UNCHANGED response_queue
    PROVE  /\ QueueType' /\ AllAddressed(request_queue') /\ AllAddressed(pending_requests')
           /\ reads_paused' \in BOOLEAN
           /\ \E b \in BOOLEAN : connections' = [connections EXCEPT ![d].closing = b]
<1> DEFINE Fewer(a, b) == IF a < b THEN a ELSE b
           taken == Fewer(Len(s), maximum_in_flight - in_flight)
           kept == Fewer(Len(s) - taken, MaxPending - Len(pending_requests))
<1>1. /\ request_queue' = request_queue \o SubSeq(s, 1, taken)
      /\ in_flight' = in_flight + taken
      /\ pending_requests' = pending_requests \o SubSeq(s, taken + 1, taken + kept)
      /\ reads_paused' = (reads_paused \/ taken < Len(s))
      /\ connections' = [connections EXCEPT ![d].closing = malformed \/ taken + kept < Len(s)]
  BY DEF Take
<1>2. /\ pending_requests \in Seq(Message) /\ request_queue \in Seq(Message)
      /\ AllAddressed(pending_requests) /\ AllAddressed(request_queue)
      /\ response_queue \in Seq(Message)
  BY DEF IInv, QueueType, MessageInv
<1>3. /\ Len(s) \in Nat /\ Len(request_queue) \in Nat /\ Len(response_queue) \in Nat
      /\ Len(pending_requests) \in Nat
  BY <1>2
<1>4. /\ in_flight = Len(request_queue) + Len(response_queue) /\ in_flight <= maximum_in_flight
      /\ Len(pending_requests) <= MaxPending /\ maximum_in_flight \in Nat /\ MaxPending \in Nat
  BY ConnectionsAssumption DEF IInv, QueueType
<1>5. taken \in 0..Len(s) /\ taken <= maximum_in_flight - in_flight
  BY <1>3, <1>4
<1>6. kept \in 0..(Len(s) - taken) /\ kept <= MaxPending - Len(pending_requests)
  <2> HIDE DEF taken
  <2> QED BY <1>3, <1>4, <1>5
<1> HIDE DEF taken, kept
<1>7. 1 \in 1..(Len(s) + 1) /\ taken \in (1 - 1)..Len(s)
  BY <1>3, <1>5
<1>8. taken + 1 \in 1..(Len(s) + 1) /\ taken + kept \in (taken + 1 - 1)..Len(s)
  BY <1>3, <1>5, <1>6
<1>9. /\ request_queue' \in Seq(Message) /\ AllAddressed(request_queue')
      /\ Len(request_queue') = Len(request_queue) + taken - 1 + 1
  BY <1>1, <1>2, <1>7, PartAddressed, Zenon
<1>10. /\ pending_requests' \in Seq(Message) /\ AllAddressed(pending_requests')
       /\ Len(pending_requests') = Len(pending_requests) + kept
  <2> DEFINE m == taken + 1
             n == taken + kept
  <2>1. /\ m \in 1..(Len(s) + 1) /\ n \in (m - 1)..Len(s) /\ n - m + 1 = kept
        /\ pending_requests' = pending_requests \o SubSeq(s, m, n)
    BY <1>1, <1>3, <1>5, <1>6, <1>8
  <2> HIDE DEF m, n
  <2>2. /\ pending_requests' \in Seq(Message) /\ AllAddressed(pending_requests')
        /\ Len(pending_requests') = Len(pending_requests) + n - m + 1
    BY <1>2, <2>1, PartAddressed
  <2>3. m \in Int /\ n \in Int
    BY <1>3, <1>5, <1>6 DEF m, n
  <2> QED BY <1>3, <2>1, <2>2, <2>3
<1>11. /\ Len(pending_requests') <= MaxPending
       /\ in_flight' = Len(request_queue') + Len(response_queue')
       /\ in_flight' <= maximum_in_flight
  <2>1. in_flight' = in_flight + taken /\ Len(response_queue') = Len(response_queue)
    BY <1>1
  <2>2. Len(pending_requests') <= MaxPending
    BY <1>3, <1>4, <1>6, <1>10
  <2>3. Len(request_queue') = Len(request_queue) + taken
    BY <1>3, <1>5, <1>9
  <2> QED BY <1>3, <1>4, <1>5, <2>1, <2>2, <2>3
<1>12. QueueType'
  BY <1>2, <1>9, <1>10, <1>11 DEF QueueType
<1>13. reads_paused' \in BOOLEAN
  BY <1>1
<1>14. \E b \in BOOLEAN : connections' = [connections EXCEPT ![d].closing = b]
  BY <1>1, Zenon
<1> QED BY <1>9, <1>10, <1>12, <1>13, <1>14, Zenon

\* One recv of a visited connection.
LEMMA receive_fromInv ==
    ASSUME IInv, receive_from
    PROVE  IInv'
<1> DEFINE d == visiting
           c == peer[d]
<1>1. /\ gateway = "receive" /\ gateway' \in {"receive", "flush"}
      /\ UNCHANGED <<link, sent, peer, backlog, loop_vars, next_connection_id, shutdown_started,
                     response_queue>>
  BY DEF receive_from
<1>2. d \in DOMAIN connections /\ d \in DOMAIN polled
  BY <1>1 DEF IInv, LoopInv, VisitInv
<1>3. c \in Clients
  BY <1>2 DEF IInv, KernelType, ConnectionType
<1>4. AllAddressed(response_queue) /\ AllAddressed(request_queue) /\ AllAddressed(pending_requests)
  BY DEF IInv, MessageInv
<1>5. ASSUME arrived' \in [Clients -> Nat], ConnectionType', QueueType', NumberInv',
             AnswersReachTheirClient', \A m : Addressed(m) => Addressed(m)',
             DOMAIN connections' = DOMAIN connections,
             \A e \in DOMAIN connections : connections'[e].id = connections[e].id,
             AllAddressed(request_queue'), AllAddressed(pending_requests'), reads_paused' \in BOOLEAN
      PROVE  IInv'
  <2>1. KernelType'
    BY <1>1, <1>5 DEF IInv, KernelType
  <2>2. LoopType'
    BY <1>1, <1>5 DEF IInv, LoopType, loop_vars
  <2>3. MessageInv'
    BY <1>1, <1>4, <1>5 DEF MessageInv, AllAddressed
  <2>4. EventsAreFresh' /\ PolledOpen' /\ VisitInv'
    BY <1>1, <1>2, <1>5 DEF IInv, LoopInv, EventsAreFresh, PolledOpen, VisitInv, loop_vars
  <2> QED BY <1>5, <2>1, <2>2, <2>3, <2>4 DEF IInv, LoopInv
<1>6. ASSUME NEW n \in 0..arrived[c],
             Take(d, Received(d, n), n = arrived[c] /\ link[c] = "malformed"),
             arrived' = [arrived EXCEPT ![c] = @ - n]
      PROVE  IInv'
  <2> DEFINE s == Received(d, n)
             malformed == n = arrived[c] /\ link[c] = "malformed"
  <2>1. s \in Seq(Message) /\ AllAddressed(s) /\ malformed \in BOOLEAN
    BY <1>2, ReceivedAddressed
  <2>2. Take(d, s, malformed)
    BY <1>6
  <2>3. arrived' \in [Clients -> Nat]
    <3>1. arrived \in [Clients -> Nat] /\ arrived[c] \in Nat
      BY <1>3 DEF IInv, KernelType
    <3>2. arrived[c] - n \in Nat
      BY <3>1
    <3> QED BY <1>6, <3>1, <3>2, Zenon
  <2> HIDE DEF s, malformed, d
  <2>4. /\ QueueType' /\ AllAddressed(request_queue') /\ AllAddressed(pending_requests')
        /\ reads_paused' \in BOOLEAN
        /\ \E b \in BOOLEAN : connections' = [connections EXCEPT ![d].closing = b]
    BY <1>1, <1>2, <2>1, <2>2, TakeQueues
  <2>5. PICK b \in BOOLEAN : connections' = [connections EXCEPT ![d].closing = b]
    BY <2>4, Zenon
  <2>6. /\ ConnectionType' /\ NumberInv' /\ AnswersReachTheirClient'
        /\ \A m : Addressed(m) => Addressed(m)'
        /\ DOMAIN connections' = DOMAIN connections
        /\ \A e \in DOMAIN connections : connections'[e].id = connections[e].id
    BY <1>1, <1>2, <2>5, ClosingConnection, Zenon
  <2> QED BY <1>5, <2>3, <2>4, <2>6
<1>7. ASSUME UNCHANGED <<arrived, pending_requests, reads_paused, in_flight, request_queue>>
      PROVE  /\ QueueType' /\ arrived' \in [Clients -> Nat] /\ reads_paused' \in BOOLEAN
             /\ AllAddressed(request_queue') /\ AllAddressed(pending_requests')
  <2>1. QueueType'
    BY <1>1, <1>7, KeptQueues DEF IInv
  <2> QED BY <1>4, <1>7, <2>1 DEF IInv, KernelType, LoopType
<1>8. CASE /\ connections' = [connections EXCEPT ![d].closing = link[c] # "up"]
           /\ UNCHANGED <<arrived, pending_requests, reads_paused, in_flight, request_queue>>
  <2> DEFINE b == link[c] # "up"
  <2>1. b \in BOOLEAN /\ connections' = [connections EXCEPT ![d].closing = b]
    BY <1>8
  <2> HIDE DEF b, d
  <2>2. /\ ConnectionType' /\ NumberInv' /\ AnswersReachTheirClient'
        /\ \A m : Addressed(m) => Addressed(m)'
        /\ DOMAIN connections' = DOMAIN connections
        /\ \A e \in DOMAIN connections : connections'[e].id = connections[e].id
    BY <1>1, <1>2, <2>1, ClosingConnection, Zenon
  <2> QED BY <1>5, <1>7, <1>8, <2>2
<1>9. CASE UNCHANGED <<arrived, connections, pending_requests, reads_paused, in_flight,
                       request_queue>>
  <2>1. /\ ConnectionType' /\ NumberInv' /\ AnswersReachTheirClient'
        /\ \A m : Addressed(m) => Addressed(m)'
    BY <1>1, <1>9
    DEF IInv, ConnectionType, NumberInv, AnswersReachTheirClient, Addressed, Issued
  <2> QED BY <1>5, <1>7, <1>9, <2>1
<1> QED BY <1>6, <1>8, <1>9 DEF receive_from

\* A visited connection is closed: its descriptor and its number are free.
LEMMA ClosedInv ==
    ASSUME IInv, NEW d \in DOMAIN connections, gateway = "flush", gateway' = "clients",
           polled' = Restrict(polled, DOMAIN polled \ {d}), after' = after,
           connections' = Restrict(connections, DOMAIN connections \ {d}),
           peer' = Restrict(peer, DOMAIN peer \ {d}), Disconnect({peer[d]}),
           UNCHANGED <<sent, backlog, next_connection_id, pending_requests, reads_paused,
                       shutdown_started, in_flight, request_queue, response_queue>>
    PROVE  IInv'
<1>1. /\ DOMAIN connections' = DOMAIN connections \ {d}
      /\ connections' = [e \in DOMAIN connections' |-> connections'[e]]
      /\ \A e \in DOMAIN connections' : connections'[e] = connections[e]
  BY DEF Restrict
<1>2. /\ DOMAIN peer' = DOMAIN peer \ {d} /\ peer' = [e \in DOMAIN peer' |-> peer'[e]]
      /\ \A e \in DOMAIN peer' : peer'[e] = peer[e]
  BY DEF Restrict
<1>3. /\ DOMAIN polled' = DOMAIN polled \ {d} /\ polled' = [e \in DOMAIN polled' |-> polled'[e]]
      /\ \A e \in DOMAIN polled' : polled'[e] = polled[e]
  BY DEF Restrict
<1>4. DOMAIN connections = DOMAIN peer
  BY DEF IInv, ConnectionType
<1>5. KernelType'
  <2>1. /\ link' \in [Clients -> {"away", "up", "ended", "malformed", "reset", "closed"}]
        /\ arrived' \in [Clients -> Nat]
    BY DisconnectType DEF IInv
  <2>2. \A e \in DOMAIN peer' : peer'[e] \in Clients /\ e \in Descriptors
    BY <1>2, Zenon DEF IInv, KernelType
  <2>3. peer' \in [DOMAIN peer' -> Clients] /\ DOMAIN peer' \subseteq Descriptors
    BY <1>2, <2>2
  <2> QED BY <2>1, <2>3, Zenon DEF IInv, KernelType
<1>6. ConnectionType'
  <2>1. \A e \in DOMAIN connections' : connections'[e] \in Connection
    BY <1>1 DEF IInv, ConnectionType
  <2>2. connections' \in [DOMAIN connections' -> Connection]
    BY <1>1, <2>1
  <2> QED BY <1>1, <1>2, <1>4, <2>2 DEF IInv, ConnectionType
<1>7. Kept
  BY <1>1, <1>2, <1>4 DEF Kept
<1>8. NumberInv' /\ \A m : Addressed(m) => Addressed(m)'
  BY <1>7, KeptNumbers DEF IInv
<1>9. MessageInv'
  BY <1>8, ZenonT(30) DEF IInv, MessageInv, AllAddressed
<1>10. QueueType'
  BY KeptQueues DEF IInv
<1>11. AnswersReachTheirClient'
  <2>1. \A e \in DOMAIN connections' :
           e \in DOMAIN connections /\ connections'[e] = connections[e] /\ peer'[e] = peer[e]
    BY <1>1, <1>2, <1>4
  <2>2. AnswersReachTheirClient
    BY DEF IInv
  <2>3. ASSUME NEW e \in DOMAIN connections', NEW i \in DOMAIN connections'[e].output
        PROVE  connections'[e].output[i].client = peer'[e]
    <3>1. e \in DOMAIN connections /\ connections'[e] = connections[e] /\ peer'[e] = peer[e]
      BY <2>1, ZenonT(30)
    <3>2. i \in DOMAIN connections[e].output
      BY <3>1, ZenonT(30)
    <3>3. connections[e].output[i].client = peer[e]
      BY <2>2, <3>1, <3>2 DEF AnswersReachTheirClient
    <3> QED BY <3>1, <3>3
  <2> QED BY <2>3, Zenon DEF AnswersReachTheirClient
<1>12. LoopType'
  <2>1. \A e \in DOMAIN polled' : polled'[e] \in Polled
    BY <1>3 DEF IInv, LoopType
  <2>2. polled' \in [DOMAIN polled' -> Polled]
    BY <1>3, <2>1
  <2> QED BY <2>2 DEF IInv, LoopType
<1>13. LoopInv'
  BY <1>1, <1>3, ZenonT(30) DEF IInv, LoopInv, EventsAreFresh, PolledOpen, VisitInv
<1> QED BY <1>5, <1>6, <1>8, <1>9, <1>10, <1>11, <1>12, <1>13 DEF IInv

\* A visited connection keeps a part of its output.
LEMMA FlushedInv ==
    ASSUME IInv, NEW d \in DOMAIN connections, gateway = "flush", gateway' = "clients",
           polled' = Restrict(polled, DOMAIN polled \ {d}), after' = after,
           NEW left \in Seq(Message), NEW b \in BOOLEAN,
           \A i \in 1..Len(left) : left[i].client = peer[d],
           connections' = [connections EXCEPT ![d].output = left, ![d].closing = b],
           UNCHANGED <<link, arrived, peer, sent, backlog, next_connection_id, pending_requests,
                       reads_paused, shutdown_started, in_flight, request_queue, response_queue>>
    PROVE  IInv'
<1> DEFINE k == [connections[d] EXCEPT !.output = left, !.closing = b]
<1>1. connections[d] \in Connection
  BY DEF IInv, ConnectionType
<1>2. k \in Connection /\ k.id = connections[d].id /\ k.output = left
  BY <1>1 DEF Connection
<1>3. \A i \in DOMAIN k.output : k.output[i].client = peer[d]
  BY <1>2
<1>4. connections' = [connections EXCEPT ![d] = k]
  BY Zenon DEF IInv, ConnectionType
<1>5. /\ ConnectionType' /\ NumberInv' /\ AnswersReachTheirClient'
      /\ \A m : Addressed(m) => Addressed(m)'
      /\ DOMAIN connections' = DOMAIN connections
      /\ \A e \in DOMAIN connections : connections'[e].id = connections[e].id
  <2> HIDE DEF k
  <2> QED BY <1>2, <1>3, <1>4, UpdatedConnection, Zenon
<1>6. /\ DOMAIN polled' = DOMAIN polled \ {d} /\ polled' = [e \in DOMAIN polled' |-> polled'[e]]
      /\ \A e \in DOMAIN polled' : polled'[e] = polled[e]
  BY DEF Restrict
<1>7. KernelType' /\ QueueType'
  BY KeptQueues DEF IInv, KernelType
<1>8. MessageInv'
  BY <1>5 DEF IInv, MessageInv, AllAddressed
<1>9. LoopType'
  <2>1. \A e \in DOMAIN polled' : polled'[e] \in Polled
    BY <1>6, Zenon DEF IInv, LoopType
  <2>2. polled' \in [DOMAIN polled' -> Polled]
    BY <1>6, <2>1, Zenon
  <2> QED BY <2>2, Zenon DEF IInv, LoopType
<1>10. LoopInv'
  <2>1. EventsAreFresh'
    BY <1>5, <1>6, ZenonT(30) DEF IInv, LoopInv, EventsAreFresh
  <2>2. PolledOpen' /\ VisitInv'
    BY DEF PolledOpen, VisitInv
  <2> QED BY <2>1, <2>2 DEF LoopInv
<1> QED BY <1>5, <1>7, <1>8, <1>9, <1>10 DEF IInv

LEMMA FlushInv ==
    ASSUME IInv, Flush
    PROVE  IInv'
<1> DEFINE d == visiting
           o == connections[d].output
           c == peer[d]
           writes == "out" \in polled[d].events
           fatal == writes /\ link[c] = "reset"
           hup == "hup" \in polled[d].events
           closing == connections[d].closing \/ fatal \/ hup
           left(n) == IF fatal THEN <<>> ELSE SubSeq(o, n + 1, Len(o))
<1>1. /\ gateway = "flush" /\ gateway' = "clients" /\ after' = after
      /\ polled' = Restrict(polled, DOMAIN polled \ {d})
      /\ UNCHANGED <<sent, backlog, next_connection_id, pending_requests, reads_paused,
                     shutdown_started, in_flight, request_queue, response_queue>>
  BY DEF Flush, queues
<1>2. d \in DOMAIN connections
  BY <1>1 DEF IInv, LoopInv, VisitInv
<1>3. PICK n \in 0..Len(o) :
         IF closing /\ left(n) = <<>>
         THEN /\ connections' = Restrict(connections, DOMAIN connections \ {d})
              /\ peer' = Restrict(peer, DOMAIN peer \ {d}) /\ Disconnect({c})
         ELSE /\ connections' = [connections EXCEPT ![d].output = left(n), ![d].closing = closing]
              /\ UNCHANGED <<peer, link, arrived>>
  BY Zenon DEF Flush
<1>4. CASE closing /\ left(n) = <<>>
  <2>1. /\ connections' = Restrict(connections, DOMAIN connections \ {d})
        /\ peer' = Restrict(peer, DOMAIN peer \ {d}) /\ Disconnect({peer[d]})
    BY <1>3, <1>4
  <2> HIDE DEF d
  <2> QED BY <1>1, <1>2, <2>1, ClosedInv
<1>5. CASE ~(closing /\ left(n) = <<>>)
  <2> DEFINE l == left(n)
             b == closing
  <2>1. /\ connections' = [connections EXCEPT ![d].output = l, ![d].closing = b]
        /\ UNCHANGED <<peer, link, arrived>>
    BY <1>3, <1>5, Zenon
  <2>2. connections[d] \in Connection /\ o \in Seq(Message)
    BY <1>2 DEF IInv, ConnectionType, Connection
  <2>3. b \in BOOLEAN
    BY <2>2 DEF Connection
  <2>4. \A i \in 1..Len(o) : o[i].client = peer[d]
    BY <1>2, <2>2 DEF IInv, AnswersReachTheirClient
  <2>5. l \in Seq(Message) /\ \A i \in 1..Len(l) : l[i].client = peer[d]
    <3>1. CASE fatal
      <4>1. l = <<>>
        BY <3>1
      <4>2. <<>> \in Seq(Message) /\ Len(<<>>) = 0
        OBVIOUS
      <4> HIDE DEF l
      <4> QED BY <4>1, <4>2
    <3>2. CASE ~fatal
      <4> DEFINE m == n + 1
                 z == Len(o)
                 s == SubSeq(o, m, z)
      <4> HIDE DEF o
      <4>1. z \in Nat /\ n \in 0..z /\ m \in 1..(z + 1) /\ z \in (m - 1)..z
        BY <2>2
      <4>2. s \in Seq(Message) /\ Len(s) = z - m + 1 /\ \A i \in 1..(z - m + 1) : s[i] = o[m + i - 1]
        <5> HIDE DEF m
        <5> QED BY <2>2, <4>1, Part
      <4>3. \A i \in 1..(z - m + 1) : m + i - 1 \in 1..z
        BY <4>1
      <4>4. l = s
        BY <3>2 DEF o
      <4> HIDE DEF l, s, m, z
      <4>5. \A i \in 1..Len(s) : s[i].client = peer[d]
        BY <2>4, <4>2, <4>3 DEF z
      <4> QED BY <4>2, <4>4, <4>5
    <3> QED BY <3>1, <3>2, Zenon
  <2> HIDE DEF d, l, b
  <2> QED BY <1>1, <1>2, <2>1, <2>3, <2>5, FlushedInv, Zenon
<1> QED BY <1>4, <1>5

-----------------------------------------------------------------------------
(* The worker                                                               *)

\* A response carries the number and the client of its request.
LEMMA WorkerStepInv ==
    ASSUME IInv, WorkerStep
    PROVE  IInv'
<1>1. UNCHANGED <<kernel, gateway, loop_vars, state_vars>>
  BY DEF WorkerStep
<1>2. UNCHANGED <<connections, peer, next_connection_id, pending_requests, shutdown_started,
                  reads_paused>>
  BY <1>1 DEF kernel, state_vars
<1>3. KernelType'
  BY <1>1 DEF IInv, KernelType, kernel
<1>4. LoopType' /\ LoopInv'
  BY <1>1, <1>2, KeptLoop DEF IInv
<1>5. CASE UNCHANGED <<in_flight, request_queue, response_queue>>
  BY <1>2, <1>3, <1>4, <1>5, KeptQueues, KeptAll DEF IInv
<1>6. CASE Publish
  <2> DEFINE q == request_queue
             r == response_queue
             m == Head(q)
  <2>1. q # <<>> /\ r' = Append(r, m) /\ q' = Tail(q) /\ in_flight' = in_flight
    BY <1>6 DEF Publish
  <2>2. /\ q \in Seq(Message) /\ r \in Seq(Message) /\ AllAddressed(q) /\ AllAddressed(r)
        /\ AllAddressed(pending_requests)
    BY DEF IInv, QueueType, MessageInv
  <2>3. /\ m \in Message /\ Addressed(m) /\ q' \in Seq(Message) /\ AllAddressed(q')
        /\ Len(q) \in Nat \ {0} /\ Len(q') = Len(q) - 1
    BY <2>1, <2>2, TailAddressed
  <2>4. /\ r' \in Seq(Message) /\ AllAddressed(r') /\ Len(r) \in Nat /\ Len(r') = Len(r) + 1
    <3> HIDE DEF m, r
    <3> QED BY <2>1, <2>2, <2>3, AppendAddressed
  <2>5. in_flight' = Len(q') + Len(r')
    BY <2>1, <2>3, <2>4 DEF IInv, QueueType
  <2>6. QueueType'
    BY <1>2, <2>1, <2>3, <2>4, <2>5 DEF IInv, QueueType
  <2>7. ConnectionType' /\ NumberInv' /\ AnswersReachTheirClient'
    BY <1>2 DEF IInv, ConnectionType, NumberInv, Issued, AnswersReachTheirClient
  <2>8. \A x : Addressed(x) => Addressed(x)'
    BY <1>2 DEF Addressed, Issued
  <2>9. MessageInv'
    BY <1>2, <2>2, <2>3, <2>4, <2>8 DEF MessageInv, AllAddressed
  <2> QED BY <1>3, <1>4, <2>6, <2>7, <2>9 DEF IInv
<1> QED BY <1>5, <1>6 DEF WorkerStep, CloseResponses, notify, queues

-----------------------------------------------------------------------------
(* The theorems                                                             *)

LEMMA InitInv ==
    Init => IInv
<1> SUFFICES ASSUME Init PROVE IInv
  OBVIOUS
<1>1. /\ peer = <<>> /\ connections = <<>> /\ polled = <<>> /\ backlog = <<>>
      /\ pending_requests = <<>> /\ request_queue = <<>> /\ response_queue = <<>>
      /\ in_flight = 0 /\ next_connection_id = 1 /\ gateway = "top" /\ after = "check"
      /\ shutdown_started = FALSE /\ reads_paused = FALSE
  BY DEF Init
<1>2. DOMAIN peer = {} /\ DOMAIN connections = {} /\ DOMAIN polled = {}
  BY <1>1
<1>3. <<>> \in Seq(Message) /\ <<>> \in Seq(Clients) /\ Len(<<>>) = 0
  OBVIOUS
<1>4. KernelType
  <2>1. link \in [Clients -> {"away", "up", "ended", "malformed", "reset", "closed"}]
    BY DEF Init
  <2>2. arrived \in [Clients -> Nat] /\ sent \in [Clients -> Nat]
    BY DEF Init
  <2>3. peer \in [DOMAIN peer -> Clients] /\ DOMAIN peer \subseteq Descriptors
    BY <1>1, <1>2
  <2> QED BY <1>1, <1>3, <2>1, <2>2, <2>3 DEF KernelType
<1>5. ConnectionType
  <2>1. MaxConnectionId \in Nat \ {0}
    BY ConnectionsAssumption
  <2>2. connections \in [DOMAIN connections -> Connection]
    BY <1>1, <1>2
  <2> QED BY <1>1, <1>2, <2>1, <2>2 DEF ConnectionType
<1>6. LoopType
  <2>1. polled \in [DOMAIN polled -> Polled]
    BY <1>1, <1>2
  <2> QED BY <1>1, <2>1, Zenon DEF LoopType
<1>7. QueueType
  <2>1. MaxPending \in Nat /\ maximum_in_flight \in Nat
    BY ConnectionsAssumption
  <2> QED BY <1>1, <1>3, <2>1 DEF QueueType
<1>8. NumberInv /\ AnswersReachTheirClient
  BY <1>2 DEF NumberInv, AnswersReachTheirClient
<1>9. MessageInv
  BY <1>1, <1>3 DEF MessageInv, AllAddressed
<1>10. LoopInv
  BY <1>1, <1>2 DEF LoopInv, EventsAreFresh, PolledOpen, VisitInv
<1> QED BY <1>4, <1>5, <1>6, <1>7, <1>8, <1>9, <1>10 DEF IInv

LEMMA StepInv ==
    ASSUME IInv, [Next]_vars
    PROVE  IInv'
<1>1. CASE ClientStep
  BY <1>1, ClientStepInv
<1>2. CASE GatewayStep
  <2>1. CASE begin_shutdown_if_requested
    BY <2>1, begin_shutdownInv
  <2>2. CASE drain_engine_completions
    BY <2>2, drain_engine_completionsInv
  <2>3. CASE drain_pending_requests
    BY <2>3, drain_pending_requestsInv
  <2>4. CASE shutdown_complete
    BY <2>4, shutdown_completeInv
  <2>5. CASE Poll
    BY <2>5, PollInv
  <2>6. CASE accept_connections
    BY <2>6, accept_connectionsInv
  <2>7. CASE Accepted \/ (\E d \in Descriptors : VisitClient(d)) \/ LoopBack
    BY <2>7, LoopStepInv
  <2>8. CASE receive_from
    BY <2>8, receive_fromInv
  <2>9. CASE Flush
    BY <2>9, FlushInv
  <2> QED BY <1>2, <2>1, <2>2, <2>3, <2>4, <2>5, <2>6, <2>7, <2>8, <2>9 DEF GatewayStep
<1>3. CASE WorkerStep
  BY <1>3, WorkerStepInv
<1>4. CASE request_stop \/ Returned \/ UNCHANGED vars
  <2>1. UNCHANGED <<kernel, gateway, loop_vars, state_vars, queues>>
    BY <1>4 DEF request_stop, Returned, vars
  <2>2. UNCHANGED <<connections, peer, next_connection_id, pending_requests, shutdown_started,
                    reads_paused, in_flight, request_queue, response_queue>>
    BY <2>1 DEF kernel, state_vars, queues
  <2>3. KernelType'
    BY <2>1 DEF IInv, KernelType, kernel
  <2>4. LoopType' /\ LoopInv'
    BY <2>1, <2>2, KeptLoop DEF IInv
  <2> QED BY <2>2, <2>3, <2>4, KeptQueues, KeptAll DEF IInv
<1> QED BY <1>1, <1>2, <1>3, <1>4 DEF Next

\* The inductive invariant: numbers, descriptors, queues and the loop over what
\* was polled fit together in every reachable state.
THEOREM Invariance ==
    Spec => []IInv
<1>1. Init => IInv
  BY InitInv
<1>2. IInv /\ [Next]_vars => IInv'
  BY StepInv
<1> QED BY <1>1, <1>2, PTL DEF Spec

\* run's loop over client_descriptors never applies an event to a connection
\* other than the one poll reported on, however descriptors are reused.
THEOREM FreshEvents ==
    Spec => []EventsAreFresh
<1>1. IInv => EventsAreFresh
  BY DEF IInv, LoopInv
<1> QED BY <1>1, Invariance, PTL

\* drain_engine_completions queues an answer for nobody but the client that sent
\* the request, however clients come and go.
THEOREM RightClient ==
    Spec => []AnswersReachTheirClient
<1>1. IInv => AnswersReachTheirClient
  BY DEF IInv
<1> QED BY <1>1, Invariance, PTL
=============================================================================

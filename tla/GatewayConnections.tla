------------------------- MODULE GatewayConnections -------------------------
(***************************************************************************)
(* Connections that come and go (GatewayServer::Impl,                      *)
(* src/src/gateway_server.cpp): accept_connections, the map from           *)
(* descriptors to connections, the numbers that connect a completion with  *)
(* its connection, and the loop that visits what poll has reported on.     *)
(* The kernel gives the lowest free descriptor, so a number that was       *)
(* closed soon names another client.                                       *)
(*                                                                         *)
(* Exchange models the same threads with a fixed set of connections and    *)
(* every access to what they share.  Here the engine does not fail, the    *)
(* request queue is never full, and the gateway's step is a socket call or *)
(* an operation on a queue.  Clients and the kernel are external.          *)
(***************************************************************************)
EXTENDS Integers, Sequences, FiniteSets, Functions

CONSTANTS
    Clients,              \* 1..n; each connects once, in this order
    Descriptors,          \* the numbers the process may have open for them
    MaxConnectionId,      \* the largest std::uint64_t
    maximum_connections,
    maximum_in_flight,
    MaxPending,           \* kMaximumPendingRequests
    MaxOutput,            \* responses that fit maximum_output_buffer_bytes
    MaxRequests,          \* bound: requests of a client
    Leaves                \* bound: how a client may leave

ASSUME ConnectionsAssumption ==
    /\ Clients \subseteq Nat /\ Descriptors \subseteq Nat /\ MaxConnectionId \in Nat \ {0}
    /\ maximum_connections \in Nat \ {0} /\ maximum_in_flight \in Nat \ {0}
    /\ MaxPending \in Nat /\ MaxOutput \in Nat /\ MaxRequests \in [Clients -> Nat]
    /\ Leaves \in [Clients -> SUBSET {"ended", "malformed", "reset"}]

VARIABLES
    \* the kernel and the clients
    link,        \* per client
    arrived,     \* per client: requests in the socket's receive buffer
    sent,        \* per client: requests so far
    peer,        \* per open descriptor: the client at its other end
    backlog,     \* clients that wait for accept
    \* the gateway
    gateway, after,
    polled,      \* descriptors still to visit: revents, and whose they were (history)
    visiting,    \* the descriptor of the receive_from in progress
    connections, next_connection_id, pending_requests, reads_paused, shutdown_started,
    \* shared with the worker and with request_stop
    stop_requested, wakeup, in_flight, request_queue, response_queue, response_closed,
    worker

kernel == <<link, arrived, sent, peer, backlog>>
loop_vars == <<after, polled, visiting>>
state_vars == <<connections, next_connection_id, pending_requests, reads_paused, shutdown_started>>
queues == <<in_flight, request_queue, response_queue, response_closed>>
vars == <<kernel, gateway, loop_vars, state_vars, stop_requested, wakeup, queues, worker>>

-----------------------------------------------------------------------------
None == 0
Least(s) == CHOOSE d \in s : \A e \in s : d <= e

\* connections.emplace: an entry that is there stays.
Emplace(map, key, value) ==
    [k \in DOMAIN map \cup {key} |-> IF k \in DOMAIN map THEN map[k] ELSE value]

\* find_connection: the descriptors, at most one, of the connection with a number.
find_connection(id) == {d \in DOMAIN connections : connections[d].id = id}
Active(id) == {d \in find_connection(id) : ~connections[d].closing}

Init ==
    /\ link = [c \in Clients |-> "away"] /\ arrived = [c \in Clients |-> 0]
    /\ sent = [c \in Clients |-> 0] /\ peer = <<>> /\ backlog = <<>>
    /\ gateway = "top" /\ after = "check" /\ polled = <<>> /\ visiting = None
    /\ connections = <<>> /\ next_connection_id = 1 /\ pending_requests = <<>>
    /\ reads_paused = FALSE /\ shutdown_started = FALSE
    /\ stop_requested = FALSE /\ wakeup = FALSE /\ in_flight = 0
    /\ request_queue = <<>> /\ response_queue = <<>> /\ response_closed = FALSE
    /\ worker = "work"

-----------------------------------------------------------------------------
(* Clients (external) *)

Connect(c) ==
    /\ link[c] = "away" /\ (\A b \in Clients : b < c => link[b] # "away") /\ ~shutdown_started
    /\ link' = [link EXCEPT ![c] = "up"] /\ backlog' = Append(backlog, c)
    /\ UNCHANGED <<arrived, sent, peer>>

Send(c) ==
    /\ link[c] = "up" /\ sent[c] < MaxRequests[c]
    /\ arrived' = [arrived EXCEPT ![c] = @ + 1] /\ sent' = [sent EXCEPT ![c] = @ + 1]
    /\ UNCHANGED <<link, peer, backlog>>

\* The client ends its stream, sends what does not parse, or the connection breaks.
Leave(c) ==
    /\ link[c] = "up"
    /\ \E how \in Leaves[c] : link' = [link EXCEPT ![c] = how]
    /\ UNCHANGED <<arrived, sent, peer, backlog>>

\* The gateway's end is closed, and what has arrived is discarded.
Disconnect(clients) ==
    /\ link' = [c \in Clients |-> IF c \in clients THEN "closed" ELSE link[c]]
    /\ arrived' = [c \in Clients |-> IF c \in clients THEN 0 ELSE arrived[c]]

ClientStep ==
    /\ \E c \in Clients : Connect(c) \/ Send(c) \/ Leave(c)
    /\ UNCHANGED <<gateway, loop_vars, state_vars, stop_requested, wakeup, queues, worker>>

-----------------------------------------------------------------------------
(* The gateway thread *)

begin_shutdown_if_requested ==
    /\ gateway = "top" /\ gateway' = "completions"
    /\ IF stop_requested /\ ~shutdown_started
       THEN /\ shutdown_started' = TRUE /\ pending_requests' = <<>>
            /\ backlog' = <<>> /\ Disconnect(Range(backlog))
       ELSE UNCHANGED <<shutdown_started, pending_requests, backlog, link, arrived>>
    /\ UNCHANGED <<sent, peer, loop_vars, connections, next_connection_id,
                   reads_paused, stop_requested, wakeup, queues, worker>>

\* queue_response: a connection whose output would outgrow its buffer loses it
\* and is closed.
queue_response(connection, response) ==
    IF Len(connection.output) < MaxOutput
    THEN [connection EXCEPT !.output = Append(@, response)]
    ELSE [connection EXCEPT !.output = <<>>, !.closing = TRUE]

\* The connections once a response is queued on the one it is for, if that is
\* still there and not closing.
Answer(response) ==
    [d \in DOMAIN connections |->
        IF d \in Active(response.connection_id)
        THEN queue_response(connections[d], response) ELSE connections[d]]

\* Variants with a mistake end in the name of the mistake; each is what a run
\* must tell from the definition that follows it.
drain_engine_completionsCloses ==
    /\ gateway = "completions"
    /\ IF response_queue = <<>>
       THEN gateway' = "pending" /\ UNCHANGED <<connections, peer, in_flight, response_queue>>
       ELSE LET answered == Answer(Head(response_queue))
                open == {d \in DOMAIN answered : ~answered[d].closing \/ answered[d].output # <<>>}
            IN
            /\ response_queue' = Tail(response_queue) /\ in_flight' = in_flight - 1
            /\ connections' = Restrict(answered, open) /\ peer' = Restrict(peer, open)
            /\ UNCHANGED gateway
    /\ UNCHANGED <<link, arrived, sent, backlog, loop_vars, next_connection_id, pending_requests,
                   reads_paused, shutdown_started, stop_requested, wakeup, request_queue,
                   response_closed, worker>>

drain_engine_completions ==
    /\ gateway = "completions"
    /\ IF response_queue = <<>>
       THEN gateway' = "pending" /\ UNCHANGED <<connections, in_flight, response_queue>>
       ELSE /\ connections' = Answer(Head(response_queue))
            /\ response_queue' = Tail(response_queue) /\ in_flight' = in_flight - 1
            /\ UNCHANGED gateway
    /\ UNCHANGED <<kernel, loop_vars, next_connection_id, pending_requests, reads_paused,
                   shutdown_started, stop_requested, wakeup, request_queue, response_closed,
                   worker>>

\* One iteration: a request whose connection is gone or closing is dropped.
drain_pending_requests ==
    /\ gateway = "pending"
    /\ IF shutdown_started \/ pending_requests = <<>>
       THEN /\ reads_paused' = IF shutdown_started THEN reads_paused ELSE FALSE
            /\ gateway' = after
            /\ UNCHANGED <<pending_requests, in_flight, request_queue>>
       ELSE IF Active(Head(pending_requests).connection_id) = {}
       THEN /\ pending_requests' = Tail(pending_requests)
            /\ UNCHANGED <<gateway, reads_paused, in_flight, request_queue>>
       ELSE IF in_flight = maximum_in_flight
       THEN /\ reads_paused' = TRUE /\ gateway' = after
            /\ UNCHANGED <<pending_requests, in_flight, request_queue>>
       ELSE /\ request_queue' = Append(request_queue, Head(pending_requests))
            /\ in_flight' = in_flight + 1 /\ pending_requests' = Tail(pending_requests)
            /\ UNCHANGED <<gateway, reads_paused>>
    /\ UNCHANGED <<kernel, loop_vars, connections, next_connection_id, shutdown_started,
                   stop_requested, wakeup, response_queue, response_closed, worker>>

\* shutdown_complete; flush_outputs_once, as far as the sockets take it;
\* close_all_connections.
shutdown_complete ==
    /\ gateway = "check"
    /\ IF shutdown_started /\ response_closed /\ response_queue = <<>>
       THEN /\ gateway' = "done" /\ connections' = <<>>
            /\ peer' = <<>> /\ Disconnect(Range(peer))
       ELSE gateway' = "poll" /\ UNCHANGED <<connections, peer, link, arrived>>
    /\ UNCHANGED <<sent, backlog, loop_vars, next_connection_id, pending_requests,
                   reads_paused, shutdown_started, stop_requested, wakeup, queues, worker>>

\* What the kernel may report on a descriptor: what was asked for, and a broken
\* connection always.
Readable(d) == arrived[peer[d]] > 0 \/ link[peer[d]] # "up"
Revents(d) ==
    LET c == peer[d]
        asked_in == ~shutdown_started /\ ~reads_paused /\ ~connections[d].closing
    IN  {e \in SUBSET {"in", "out", "hup"} :
            /\ "in" \in e <=> asked_in /\ Readable(d)
            /\ "out" \in e => connections[d].output # <<>>
            /\ "hup" \in e <=> link[c] = "reset"
            /\ link[c] = "reset" /\ connections[d].output # <<>> => "out" \in e}

\* poll returns when there is something to report.
Poll ==
    /\ gateway = "poll"
    /\ \E revents \in [DOMAIN connections -> SUBSET {"in", "out", "hup"}] :
          /\ \A d \in DOMAIN connections : revents[d] \in Revents(d)
          /\ wakeup \/ backlog # <<>> \/ \E d \in DOMAIN connections : revents[d] # {}
          /\ polled' = [d \in DOMAIN connections |->
                           [events |-> revents[d], id |-> connections[d].id]]
    /\ IF wakeup THEN gateway' = "top" /\ after' = "accept" /\ wakeup' = FALSE
                 ELSE gateway' = "accept" /\ UNCHANGED <<after, wakeup>>
    /\ UNCHANGED <<kernel, visiting, state_vars, stop_requested, queues, worker>>

-----------------------------------------------------------------------------
NumberIsDescriptor(descriptor) == descriptor
ConnectionNumber(descriptor) == next_connection_id

\* One iteration of accept_connections: the new connection gets the next number,
\* which is 0 once the numbers are used up, and the kernel's lowest descriptor;
\* without a free one accept fails (Accepted).
accept_connections ==
    /\ gateway = "accept" /\ ~shutdown_started /\ backlog # <<>>
    /\ Descriptors \ DOMAIN peer # {}
    /\ LET c == Head(backlog)
           descriptor == Least(Descriptors \ DOMAIN peer)
       IN  \/ /\ Cardinality(DOMAIN connections) < maximum_connections /\ next_connection_id # 0
              /\ connections' = Emplace(connections, descriptor,
                    [id |-> ConnectionNumber(descriptor), closing |-> FALSE, output |-> <<>>])
              /\ next_connection_id' = (next_connection_id + 1) % (MaxConnectionId + 1)
              /\ peer' = Emplace(peer, descriptor, c) /\ UNCHANGED <<link, arrived>>
           \/ \* full, out of numbers, or fcntl fails: the socket is closed
              Disconnect({c}) /\ UNCHANGED <<connections, next_connection_id, peer>>
    /\ backlog' = Tail(backlog)
    /\ UNCHANGED <<sent, gateway, loop_vars, pending_requests, reads_paused,
                   shutdown_started, stop_requested, wakeup, queues, worker>>

\* Nothing more to accept, or accept fails.
Accepted ==
    /\ gateway = "accept" /\ gateway' = "clients"
    /\ UNCHANGED <<kernel, loop_vars, state_vars, stop_requested, wakeup, queues, worker>>

-----------------------------------------------------------------------------
\* The loop over the polled descriptors, in any order.
VisitClient(d) ==
    /\ gateway = "clients" /\ d \in DOMAIN polled
    /\ IF d \notin DOMAIN connections
       THEN polled' = Restrict(polled, DOMAIN polled \ {d}) /\ UNCHANGED <<gateway, visiting>>
       ELSE /\ visiting' = d /\ UNCHANGED polled
            /\ gateway' = IF "in" \in polled[d].events THEN "receive" ELSE "flush"
    /\ UNCHANGED <<kernel, after, state_vars, stop_requested, wakeup, queues, worker>>

LoopBack ==
    /\ gateway = "clients" /\ polled = <<>>
    /\ gateway' = "top" /\ after' = "check"
    /\ UNCHANGED <<kernel, polled, visiting, state_vars, stop_requested, wakeup, queues, worker>>

\* The requests that a recv of n of them brings.
Received(d, n) ==
    LET c == peer[d] IN
    [i \in 1..n |-> [connection_id |-> connections[d].id, client |-> c,
                     number |-> sent[c] - arrived[c] + i]]

\* feed's messages: as many are admitted as there is room in flight; the first
\* refused and all behind it are retained, and reads stop.  retain_pending
\* without room, or a parse error, closes the connection.
Take(d, messages, malformed) ==
    LET Fewer(a, b) == IF a < b THEN a ELSE b
        taken == Fewer(Len(messages), maximum_in_flight - in_flight)
        kept == Fewer(Len(messages) - taken, MaxPending - Len(pending_requests))
    IN
    /\ request_queue' = request_queue \o SubSeq(messages, 1, taken)
    /\ in_flight' = in_flight + taken
    /\ pending_requests' = pending_requests \o SubSeq(messages, taken + 1, taken + kept)
    /\ reads_paused' = (reads_paused \/ taken < Len(messages))
    /\ connections' = [connections EXCEPT ![d].closing = malformed \/ taken + kept < Len(messages)]

\* One iteration of receive_from.
receive_from ==
    /\ gateway = "receive"
    /\ LET d == visiting
           c == peer[d]
           Receives == ~connections[d].closing /\ ~reads_paused /\ ~shutdown_started
       IN
       \/ \E n \in 0..arrived[c] :
             /\ Receives /\ link[c] # "reset"
             /\ n > 0 \/ (arrived[c] = 0 /\ link[c] = "malformed")
             /\ Take(d, Received(d, n), n = arrived[c] /\ link[c] = "malformed")
             /\ arrived' = [arrived EXCEPT ![c] = @ - n]
             /\ UNCHANGED gateway
       \/ \* recv returns 0, fails, or would block
          /\ Receives /\ (link[c] = "reset" \/ (arrived[c] = 0 /\ link[c] # "malformed"))
          /\ connections' = [connections EXCEPT ![d].closing = link[c] # "up"]
          /\ gateway' = "flush"
          /\ UNCHANGED <<arrived, pending_requests, reads_paused, in_flight, request_queue>>
       \/ /\ ~Receives /\ gateway' = "flush"
          /\ UNCHANGED <<arrived, connections, pending_requests, reads_paused, in_flight,
                         request_queue>>
    /\ UNCHANGED <<link, sent, peer, backlog, loop_vars, next_connection_id, shutdown_started,
                   stop_requested, wakeup, response_queue, response_closed, worker>>

\* The rest of the visit: flush_output, a hangup, close_if_finished.
Flush ==
    LET d == visiting
        c == peer[d]
        writes == "out" \in polled[d].events
        fatal == writes /\ link[c] = "reset"
        hup == "hup" \in polled[d].events
    IN
    /\ gateway = "flush" /\ gateway' = "clients"
    /\ polled' = Restrict(polled, DOMAIN polled \ {d}) /\ visiting' = None
    /\ \E n \in 0..Len(connections[d].output) :
          LET left == IF fatal THEN <<>>
                      ELSE SubSeq(connections[d].output, n + 1, Len(connections[d].output))
              closing == connections[d].closing \/ fatal \/ hup
          IN
          /\ (~writes \/ fatal) => n = 0
          /\ IF closing /\ left = <<>>
             THEN /\ connections' = Restrict(connections, DOMAIN connections \ {d})
                  /\ peer' = Restrict(peer, DOMAIN peer \ {d}) /\ Disconnect({c})
             ELSE /\ connections' = [connections EXCEPT ![d].output = left, ![d].closing = closing]
                  /\ UNCHANGED <<peer, link, arrived>>
    /\ UNCHANGED <<sent, backlog, after, next_connection_id, pending_requests,
                   reads_paused, shutdown_started, stop_requested, wakeup, queues, worker>>

GatewayStep ==
    \/ begin_shutdown_if_requested \/ drain_engine_completions \/ drain_pending_requests
    \/ shutdown_complete \/ Poll \/ accept_connections \/ Accepted
    \/ (\E d \in Descriptors : VisitClient(d)) \/ LoopBack \/ receive_from \/ Flush

-----------------------------------------------------------------------------
(* The worker thread and request_stop *)

\* A request is executed and its response pushed (publish).
Publish ==
    /\ worker = "work" /\ request_queue # <<>>
    /\ response_queue' = Append(response_queue, Head(request_queue))
    /\ request_queue' = Tail(request_queue) /\ worker' = "notify"
    /\ UNCHANGED <<stop_requested, wakeup, in_flight, response_closed>>

\* The queue is closed and empty: no response follows.
CloseResponses ==
    /\ worker = "work" /\ request_queue = <<>> /\ shutdown_started
    /\ response_closed' = TRUE /\ worker' = "notify_closed"
    /\ UNCHANGED <<stop_requested, wakeup, in_flight, request_queue, response_queue>>

notifyOnlyAtEnd ==
    /\ worker \in {"notify", "notify_closed"}
    /\ wakeup' = (wakeup \/ worker = "notify_closed")
    /\ worker' = IF worker = "notify" THEN "work" ELSE "returned"
    /\ UNCHANGED <<stop_requested, queues>>

\* The gateway is woken after every push and after the close.
notify ==
    /\ worker \in {"notify", "notify_closed"}
    /\ wakeup' = TRUE /\ worker' = IF worker = "notify" THEN "work" ELSE "returned"
    /\ UNCHANGED <<stop_requested, queues>>

WorkerStep ==
    /\ Publish \/ CloseResponses \/ notify
    /\ UNCHANGED <<kernel, gateway, loop_vars, state_vars>>

\* By a caller, or by the gateway itself when the listener has an error.
request_stop ==
    /\ ~stop_requested /\ stop_requested' = TRUE /\ wakeup' = TRUE
    /\ UNCHANGED <<kernel, gateway, loop_vars, state_vars, queues, worker>>

Returned == gateway = "done" /\ worker = "returned" /\ UNCHANGED vars

Next == ClientStep \/ GatewayStep \/ WorkerStep \/ request_stop \/ Returned

\* Both threads are scheduled; clients and the caller of request_stop do what
\* they like.
Spec == Init /\ [][Next]_vars /\ WF_vars(GatewayStep) /\ WF_vars(WorkerStep)

-----------------------------------------------------------------------------
\* What poll reported on a descriptor is applied to the connection that was
\* polled, although the loop looks it up by its number after accept_connections
\* and after other connections were closed.
EventsAreFresh ==
    \A d \in DOMAIN polled \cap DOMAIN connections : polled[d].id = connections[d].id

\* An answer goes to the client that sent the request, and never to a later one
\* that has the same descriptor, whether the request was retained, queued,
\* executing or answered when its client left.
AnswersReachTheirClient ==
    \A d \in DOMAIN connections : \A i \in DOMAIN connections[d].output :
        connections[d].output[i].client = peer[d]

\* A connection that is closing and has nothing left to send, and one that is
\* broken, is closed and its descriptor freed, whatever the other clients do: poll
\* is asked for nothing on such a descriptor, so something else must end it.
ClosingCloses ==
    \A id \in 1..MaxConnectionId :
        (\E d \in find_connection(id) :
            \/ connections[d].closing /\ connections[d].output = <<>>
            \/ link[peer[d]] = "reset")
        ~> (find_connection(id) = {})

=============================================================================

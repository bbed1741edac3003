------------------------------ MODULE Exchange ------------------------------
(***************************************************************************)
(* The running exchange: the gateway thread (GatewayServer::Impl::run,     *)
(* src/src/gateway_server.cpp) and the engine worker                       *)
(* (ExchangeServer::Impl::worker_loop, src/src/exchange_server.cpp), with  *)
(* what they share: two bounded queues, the in-flight limiter, the eventfd *)
(* that wakes the gateway, and the flags stop_requested and engine_failed. *)
(*                                                                         *)
(* A step is what one thread does up to its next access to shared state.   *)
(* Clients, sockets and the engine are external: a connection delivers its *)
(* requests in order and in chunks of any size, may stop, hang up or send  *)
(* a frame that does not parse, and accepts any part of its output; a      *)
(* batch is executed as a whole or fails for good (DurableEngine).         *)
(* Retries after EINTR are part of the call that is retried.               *)
(***************************************************************************)
EXTENDS Integers, Sequences, FiniteSets

CONSTANTS
    Connections,             \* the accepted connections
    NoConnection,
    MaxRequests,             \* bound: the number of requests of each connection
    Unreliable,              \* bound: the connections that may end, hang up, fail
                             \* or send what does not parse
    maximum_in_flight,
    request_queue_capacity,
    max_durable_batch_size,
    MaxPending,              \* kMaximumPendingRequests
    MaxOutput,               \* responses that fit maximum_output_buffer_bytes
    WorkerThrows             \* may batch.reserve or the drain hook throw?

ASSUME ExchangeAssumption ==
    /\ NoConnection \notin Connections
    /\ MaxRequests \in [Connections -> Nat]
    /\ Unreliable \subseteq Connections
    /\ maximum_in_flight \in Nat \ {0}
    /\ request_queue_capacity \in Nat \ {0}
    /\ max_durable_batch_size \in Nat \ {0}
    /\ MaxPending \in Nat
    /\ MaxOutput \in Nat
    /\ WorkerThrows \in BOOLEAN

VARIABLES
    \* shared
    stop_requested, engine_failed,
    wakeup,            \* the eventfd is readable
    in_flight,
    request_queue, request_closed,
    response_queue, response_closed,
    \* the gateway thread
    gateway,           \* where it is
    after,             \* where the drain calls return to
    connection,        \* of the receive_from in progress
    parsed,            \* the messages it has still to admit
    events, todo,      \* what poll reported, the descriptors still to visit
    pending_requests, reads_paused, shutdown_started,
    status, output,    \* per connection
    \* the worker thread
    worker, batch,
    failed,            \* "no", "yes", or "unwound": worker_loop is in its handler
    outcome,           \* of the batch being published
    stopper,           \* a third thread inside request_stop
    terminated,        \* std::terminate was called
    \* history
    received, admitted, executed, answered, delivered

shared == <<stop_requested, engine_failed, wakeup, in_flight, request_queue, request_closed,
            response_queue, response_closed>>
loop_vars == <<after, connection, parsed, events, todo>>
gateway_vars == <<gateway, loop_vars, pending_requests, reads_paused, shutdown_started, status, output>>
worker_vars == <<worker, batch, failed, outcome>>
history == <<received, admitted, executed, answered, delivered>>
vars == <<shared, gateway_vars, worker_vars, stopper, terminated, history>>

-----------------------------------------------------------------------------
Request == [connection: Connections, id: Nat \ {0}]
Response == [request: Request, outcome: {"result", "unavailable"}]

Open(c) == status[c] \in {"open", "malformed"}
Present == {c \in Connections : status[c] # "gone"}

\* The requests number m+1..n of a connection.
RequestsOf(c, m, n) == [i \in 1..(n - m) |-> [connection |-> c, id |-> m + i]]

\* What poll can report: POLLIN and POLLOUT where they are asked for, a hangup
\* always.
PollEvents ==
    {<<c, "in">> : c \in {d \in Present : Open(d) /\ ~reads_paused /\ ~shutdown_started}}
        \cup {<<c, "out">> : c \in {d \in Present : output[d] # <<>>}}
        \cup {<<c, "hup">> : c \in Present \cap Unreliable}

Init ==
    /\ stop_requested = FALSE /\ engine_failed = FALSE /\ wakeup = FALSE /\ in_flight = 0
    /\ request_queue = <<>> /\ request_closed = FALSE
    /\ response_queue = <<>> /\ response_closed = FALSE
    /\ gateway = "top" /\ after = "check" /\ connection = NoConnection /\ parsed = <<>>
    /\ events = {} /\ todo = {}
    /\ pending_requests = <<>> /\ reads_paused = FALSE /\ shutdown_started = FALSE
    /\ status = [c \in Connections |-> "open"] /\ output = [c \in Connections |-> <<>>]
    /\ worker = "wait" /\ batch = <<>> /\ failed = "no" /\ outcome = "result"
    /\ stopper = "none" /\ terminated = FALSE
    /\ received = [c \in Connections |-> 0] /\ admitted = <<>> /\ executed = <<>>
    /\ answered = <<>> /\ delivered = [c \in Connections |-> <<>>]

-----------------------------------------------------------------------------
(* The gateway thread *)

begin_shutdown_if_requested ==
    /\ gateway = "top"
    /\ IF stop_requested /\ ~shutdown_started
       THEN /\ shutdown_started' = TRUE /\ pending_requests' = <<>>
            /\ request_closed' = TRUE /\ gateway' = "close_notify"
       ELSE /\ gateway' = "completions"
            /\ UNCHANGED <<shutdown_started, pending_requests, request_closed>>
    /\ UNCHANGED <<stop_requested, engine_failed, wakeup, in_flight, request_queue,
                   response_queue, response_closed, loop_vars, reads_paused, status, output,
                   worker_vars, stopper, terminated, history>>

\* Variants with a mistake end in the name of the mistake; each is what a run
\* must tell from the definition that follows it.
not_empty_notifyPushOnly ==
    /\ gateway \in {"push_notify", "close_notify"}
    /\ gateway' = IF gateway = "push_notify" THEN "admit" ELSE "completions"
    /\ worker' = IF gateway = "push_notify" /\ worker = "blocked" THEN "wait" ELSE worker
    /\ UNCHANGED <<shared, loop_vars, pending_requests, reads_paused, shutdown_started, status,
                   output, batch, failed, outcome, stopper, terminated, history>>

\* try_push and close of the request queue notify the condition variable after
\* the mutex is unlocked.  Only the worker ever waits.
not_empty_notify ==
    /\ gateway \in {"push_notify", "close_notify"}
    /\ gateway' = IF gateway = "push_notify" THEN "admit" ELSE "completions"
    /\ worker' = IF worker = "blocked" THEN "wait" ELSE worker
    /\ UNCHANGED <<shared, loop_vars, pending_requests, reads_paused, shutdown_started, status,
                   output, batch, failed, outcome, stopper, terminated, history>>

queue_responseReplaces(c, response) ==
    /\ output' = [output EXCEPT ![c] =
           IF Len(@) < MaxOutput THEN Append(@, response) ELSE <<response>>]
    /\ UNCHANGED status

\* queue_response: a connection whose output would outgrow its buffer loses it
\* and is closed.
queue_response(c, response) ==
    IF Len(output[c]) < MaxOutput
    THEN /\ output' = [output EXCEPT ![c] = Append(@, response)]
         /\ UNCHANGED status
    ELSE /\ output' = [output EXCEPT ![c] = <<>>]
         /\ status' = [status EXCEPT ![c] = "closing"]

ReleaseForgotten == UNCHANGED <<in_flight, terminated>>

\* release_one
Release == IF in_flight = 0
           THEN terminated' = TRUE /\ UNCHANGED in_flight
           ELSE in_flight' = in_flight - 1 /\ UNCHANGED terminated

drain_engine_completions ==
    /\ gateway = "completions"
    /\ IF response_queue = <<>>
       THEN /\ gateway' = "pending"
            /\ UNCHANGED <<in_flight, response_queue, status, output, terminated, answered>>
       ELSE LET response == Head(response_queue) IN
            LET c == response.request.connection IN
            /\ response_queue' = Tail(response_queue)
            /\ IF Open(c) THEN queue_response(c, response) ELSE UNCHANGED <<status, output>>
            /\ Release /\ answered' = Append(answered, response)
            /\ UNCHANGED gateway
    /\ UNCHANGED <<stop_requested, engine_failed, wakeup, request_queue, request_closed,
                   response_closed, loop_vars, pending_requests, reads_paused, shutdown_started,
                   worker_vars, stopper, received, admitted, executed, delivered>>

drain_pending_requests ==
    /\ gateway = "pending"
    /\ IF shutdown_started \/ engine_failed
       THEN gateway' = after
       ELSE gateway' = "admit"
    /\ UNCHANGED <<shared, loop_vars, pending_requests, reads_paused, shutdown_started, status,
                   output, worker_vars, stopper, terminated, history>>

RefuseWithoutPause ==
    /\ IF connection = NoConnection
       THEN /\ gateway' = after
            /\ UNCHANGED <<parsed, pending_requests>>
       ELSE /\ pending_requests' = pending_requests \o parsed
            /\ parsed' = <<>> /\ gateway' = "admit"
    /\ UNCHANGED <<reads_paused, status>>

\* admit refuses: a received message and those parsed behind it are retained
\* (retain_pending: closing the connection if there is no room), a pending one
\* stays where it is; reads stop.
Refuse ==
    /\ reads_paused' = TRUE
    /\ IF connection = NoConnection
       THEN /\ gateway' = after
            /\ UNCHANGED <<parsed, pending_requests, status>>
       ELSE LET room == MaxPending - Len(pending_requests) IN
            /\ pending_requests' =
                  pending_requests \o SubSeq(parsed, 1, IF room < Len(parsed) THEN room ELSE Len(parsed))
            /\ parsed' = <<>> /\ gateway' = "admit"
            /\ status' = IF room < Len(parsed)
                         THEN [status EXCEPT ![connection] = "closing"] ELSE status

\* Everything retained has been admitted.
ResumeReads == reads_paused' = FALSE

\* The loop around admit, over pending_requests or over the parsed messages, up
\* to admit's own look at shutdown_started and engine_failed.
NextToAdmit ==
    /\ gateway = "admit"
    /\ \/ /\ connection = NoConnection /\ pending_requests = <<>>
          /\ ResumeReads /\ gateway' = after
          /\ UNCHANGED <<parsed, pending_requests, status>>
       \/ /\ connection = NoConnection /\ pending_requests # <<>>
          /\ ~Open(Head(pending_requests).connection)
          /\ pending_requests' = Tail(pending_requests)
          /\ UNCHANGED <<gateway, parsed, reads_paused, status>>
       \/ /\ connection # NoConnection /\ parsed = <<>>
          /\ status' = IF status[connection] = "malformed"
                       THEN [status EXCEPT ![connection] = "closing"] ELSE status
          /\ gateway' = "receive"
          /\ UNCHANGED <<parsed, pending_requests, reads_paused>>
       \/ /\ \/ connection = NoConnection /\ pending_requests # <<>>
                /\ Open(Head(pending_requests).connection)
             \/ connection # NoConnection /\ parsed # <<>>
          /\ IF shutdown_started \/ engine_failed
             THEN Refuse
             ELSE /\ gateway' = "push"
                  /\ UNCHANGED <<parsed, pending_requests, reads_paused, status>>
    /\ UNCHANGED <<shared, after, connection, events, todo, shutdown_started, output,
                   worker_vars, stopper, terminated, history>>

\* try_acquire finds every reservation taken, or try_push the queue closed or full.
CannotPush == request_closed \/ Len(request_queue) = request_queue_capacity
NoRoomUnlimited == CannotPush
NoRoom == in_flight = maximum_in_flight \/ CannotPush

\* pending_requests.pop_front() once its first request is admitted.
PopPending == pending_requests' = Tail(pending_requests)

\* The rest of admit: try_acquire, then try_push, which gives the reservation
\* back when it fails.
admit ==
    /\ gateway = "push"
    /\ IF NoRoom
       THEN /\ Refuse
            /\ UNCHANGED <<in_flight, request_queue, admitted>>
       ELSE LET r == IF connection = NoConnection THEN Head(pending_requests) ELSE Head(parsed) IN
            /\ in_flight' = in_flight + 1
            /\ request_queue' = Append(request_queue, r)
            /\ admitted' = Append(admitted, r)
            /\ IF connection = NoConnection
               THEN PopPending /\ UNCHANGED parsed
               ELSE parsed' = Tail(parsed) /\ UNCHANGED pending_requests
            /\ gateway' = "push_notify"
            /\ UNCHANGED <<reads_paused, status>>
    /\ UNCHANGED <<stop_requested, engine_failed, wakeup, request_closed, response_queue,
                   response_closed, after, connection, events, todo, shutdown_started, output,
                   worker_vars, stopper, terminated, received, executed, answered, delivered>>

shutdown_completeWithoutWorker ==
    /\ gateway = "check"
    /\ gateway' = IF shutdown_started THEN "check_size" ELSE "poll"
    /\ UNCHANGED <<shared, loop_vars, pending_requests, reads_paused, shutdown_started, status,
                   output, worker_vars, stopper, terminated, history>>

\* shutdown_complete: closed() and then size(); the last outputs are flushed
\* once, as far as the sockets take them, and every connection is closed.
shutdown_complete ==
    /\ gateway = "check"
    /\ gateway' = IF shutdown_started /\ response_closed THEN "check_size" ELSE "poll"
    /\ UNCHANGED <<shared, loop_vars, pending_requests, reads_paused, shutdown_started, status,
                   output, worker_vars, stopper, terminated, history>>

shutdown_complete_size ==
    /\ gateway = "check_size"
    /\ IF response_queue = <<>>
       THEN /\ gateway' = "done"
            /\ \E n \in [Connections -> 0..MaxOutput] :
                  /\ \A c \in Connections : n[c] <= Len(output[c])
                  /\ delivered' = [c \in Connections |-> delivered[c] \o SubSeq(output[c], 1, n[c])]
            /\ status' = [c \in Connections |-> "gone"]
            /\ output' = [c \in Connections |-> <<>>]
       ELSE gateway' = "poll" /\ UNCHANGED <<status, output, delivered>>
    /\ UNCHANGED <<shared, loop_vars, pending_requests, reads_paused, shutdown_started,
                   worker_vars, stopper, terminated, received, admitted, executed, answered>>

\* poll returns: because of the eventfd, or because of a connection.
Poll(reported) ==
    /\ gateway = "poll" /\ (wakeup \/ reported # {})
    /\ events' = reported /\ todo' = Present
    /\ IF wakeup
       THEN gateway' = "top" /\ after' = "clients" /\ wakeup' = FALSE
       ELSE gateway' = "clients" /\ UNCHANGED <<after, wakeup>>
    /\ UNCHANGED <<stop_requested, engine_failed, in_flight, request_queue, request_closed,
                   response_queue, response_closed, connection, parsed, pending_requests,
                   reads_paused, shutdown_started, status, output, worker_vars, stopper,
                   terminated, history>>

\* The loop over the descriptors that were polled, in any order.
VisitClient(c) ==
    /\ gateway = "clients" /\ c \in todo
    /\ todo' = todo \ {c} /\ connection' = c
    /\ gateway' = IF <<c, "in">> \in events THEN "receive" ELSE "flush"
    /\ UNCHANGED <<shared, after, parsed, events, pending_requests, reads_paused,
                   shutdown_started, status, output, worker_vars, stopper, terminated, history>>

LoopBack ==
    /\ gateway = "clients" /\ todo = {}
    /\ gateway' = "top" /\ after' = "check"
    /\ UNCHANGED <<shared, connection, parsed, events, todo, pending_requests, reads_paused,
                   shutdown_started, status, output, worker_vars, stopper, terminated, history>>

\* receive_from: recv and feed while nothing forbids it.  recv may bring complete
\* messages, bytes that poison the parser, nothing, or the end of the stream.
receive_from ==
    /\ gateway = "receive"
    /\ \/ /\ Open(connection) /\ ~reads_paused /\ ~shutdown_started
          /\ \E n \in received[connection]..MaxRequests[connection], bad \in BOOLEAN :
                /\ n > received[connection] \/ bad
                /\ bad => connection \in Unreliable
                /\ parsed' = RequestsOf(connection, received[connection], n)
                /\ received' = [received EXCEPT ![connection] = n]
                /\ status' = IF bad THEN [status EXCEPT ![connection] = "malformed"] ELSE status
          /\ gateway' = "admit"
       \/ /\ Open(connection) /\ ~reads_paused /\ ~shutdown_started
          /\ \/ UNCHANGED status
             \/ /\ connection \in Unreliable
                /\ status' = [status EXCEPT ![connection] = "closing"]
          /\ gateway' = "flush" /\ UNCHANGED <<parsed, received>>
       \/ /\ ~Open(connection) \/ reads_paused \/ shutdown_started
          /\ gateway' = "flush" /\ UNCHANGED <<parsed, received, status>>
    /\ UNCHANGED <<shared, after, connection, events, todo, pending_requests, reads_paused,
                   shutdown_started, output, worker_vars, stopper, terminated, admitted,
                   executed, answered, delivered>>

\* flush_output when poll reported POLLOUT, a hangup, and close_if_finished.
Flush ==
    /\ gateway = "flush" /\ gateway' = "clients" /\ connection' = NoConnection
    /\ events' = {e \in events : e[1] # connection}
    /\ \E n \in 0..Len(output[connection]), fatal \in BOOLEAN :
          LET flushes == <<connection, "out">> \in events
              left == IF fatal THEN <<>> ELSE SubSeq(output[connection], n + 1, Len(output[connection]))
              closes == fatal \/ ~Open(connection) \/ <<connection, "hup">> \in events
          IN
          /\ ~flushes => n = 0 /\ ~fatal
          /\ fatal => connection \in Unreliable
          /\ delivered' = [delivered EXCEPT ![connection] = @ \o SubSeq(output[connection], 1, n)]
          /\ status' = [status EXCEPT ![connection] =
                           IF ~closes THEN @ ELSE IF left = <<>> THEN "gone" ELSE "closing"]
          /\ output' = [output EXCEPT ![connection] = left]
    /\ UNCHANGED <<shared, after, parsed, todo, pending_requests, reads_paused,
                   shutdown_started, worker_vars, stopper, terminated, received, admitted,
                   executed, answered>>

\* poll fails: the gateway stops itself.
PollFails ==
    /\ gateway = "poll" /\ gateway' = "top"
    /\ stop_requested' = TRUE /\ wakeup' = TRUE
    /\ UNCHANGED <<engine_failed, in_flight, request_queue, request_closed, response_queue,
                   response_closed, loop_vars, pending_requests, reads_paused,
                   shutdown_started, status, output, worker_vars, stopper, terminated, history>>

-----------------------------------------------------------------------------
(* The worker thread *)

\* wait_pop, from worker_loop or from its handler: with the mutex locked, it pops,
\* returns nothing, or waits for a notification.
wait_pop ==
    /\ worker = "wait"
    /\ \/ /\ request_queue # <<>>
          /\ batch' = <<Head(request_queue)>> /\ request_queue' = Tail(request_queue)
          /\ worker' = IF failed = "unwound" THEN "publish" ELSE "reserve"
       \/ /\ request_queue = <<>> /\ request_closed
          /\ worker' = "close" /\ UNCHANGED <<batch, request_queue>>
       \/ /\ request_queue = <<>> /\ ~request_closed
          /\ worker' = "blocked" /\ UNCHANGED <<batch, request_queue>>
    /\ UNCHANGED <<stop_requested, engine_failed, wakeup, in_flight, request_closed,
                   response_queue, response_closed, gateway_vars, failed, outcome, stopper,
                   terminated, history>>

\* A wait may return without a notification; its predicate is looked at again.
SpuriousWakeup ==
    /\ worker = "blocked" /\ worker' = "wait"
    /\ UNCHANGED <<shared, gateway_vars, batch, failed, outcome, stopper, terminated, history>>

\* batch.reserve and the drain hook.  If one throws, the request that was popped
\* is destroyed with its reservation.
Reserve ==
    /\ worker = "reserve"
    /\ \/ /\ worker' = "drain"
          /\ UNCHANGED <<batch, failed, in_flight, terminated>>
       \/ /\ WorkerThrows
          /\ batch' = <<>> /\ Release
          /\ failed' = "unwound" /\ worker' = "fail"
    /\ UNCHANGED <<stop_requested, engine_failed, wakeup, request_queue, request_closed,
                   response_queue, response_closed, gateway_vars, outcome, stopper, history>>

DrainNewestFirst ==
    /\ worker = "drain"
    /\ IF Len(batch) < max_durable_batch_size /\ request_queue # <<>>
       THEN /\ batch' = <<Head(request_queue)>> \o batch /\ request_queue' = Tail(request_queue)
            /\ UNCHANGED worker
       ELSE worker' = "execute" /\ UNCHANGED <<batch, request_queue>>
    /\ UNCHANGED <<stop_requested, engine_failed, wakeup, in_flight, request_closed,
                   response_queue, response_closed, gateway_vars, failed, outcome, stopper,
                   terminated, history>>

\* try_pop until the batch is large enough or the queue is empty.
Drain ==
    /\ worker = "drain"
    /\ IF Len(batch) < max_durable_batch_size /\ request_queue # <<>>
       THEN /\ batch' = Append(batch, Head(request_queue)) /\ request_queue' = Tail(request_queue)
            /\ UNCHANGED worker
       ELSE worker' = "execute" /\ UNCHANGED <<batch, request_queue>>
    /\ UNCHANGED <<stop_requested, engine_failed, wakeup, in_flight, request_closed,
                   response_queue, response_closed, gateway_vars, failed, outcome, stopper,
                   terminated, history>>

execute_and_publish_batchRetries ==
    /\ worker = "execute"
    /\ \/ /\ executed' = executed \o batch
          /\ outcome' = "result" /\ worker' = "publish" /\ UNCHANGED failed
       \/ /\ failed' = "yes" /\ worker' = "fail" /\ UNCHANGED <<outcome, executed>>
    /\ UNCHANGED <<shared, gateway_vars, batch, stopper, terminated, received, admitted,
                   answered, delivered>>

\* execute_and_publish_batch: a failed engine is not asked again; execute_batch
\* returns all results, or it fails (or something before it throws).
execute_and_publish_batch ==
    /\ worker = "execute"
    /\ \/ /\ failed # "no"
          /\ outcome' = "unavailable" /\ worker' = "publish" /\ UNCHANGED <<failed, executed>>
       \/ /\ failed = "no"
          /\ executed' = executed \o batch
          /\ outcome' = "result" /\ worker' = "publish" /\ UNCHANGED failed
       \/ /\ failed = "no"
          /\ failed' = "yes" /\ worker' = "fail" /\ UNCHANGED <<outcome, executed>>
    /\ UNCHANGED <<shared, gateway_vars, batch, stopper, terminated, received, admitted,
                   answered, delivered>>

\* enter_fail_stop: engine_failed, stop_requested, and the wakeup, in this order.
enter_fail_stop ==
    /\ \/ worker = "fail" /\ worker' = "fail_stop"
          /\ engine_failed' = TRUE /\ UNCHANGED <<stop_requested, wakeup, outcome>>
       \/ worker = "fail_stop" /\ worker' = "fail_wake"
          /\ stop_requested' = TRUE /\ UNCHANGED <<engine_failed, wakeup, outcome>>
       \/ worker = "fail_wake" /\ worker' = (IF batch = <<>> THEN "wait" ELSE "publish")
          /\ wakeup' = TRUE /\ outcome' = "unavailable"
          /\ UNCHANGED <<stop_requested, engine_failed>>
    /\ UNCHANGED <<in_flight, request_queue, request_closed, response_queue, response_closed,
                   gateway_vars, batch, failed, stopper, terminated, history>>

\* publish the next response of the batch.
publish ==
    /\ worker = "publish"
    /\ IF response_closed \/ Len(response_queue) = maximum_in_flight
       THEN terminated' = TRUE /\ UNCHANGED <<response_queue, batch, worker>>
       ELSE /\ response_queue' = Append(response_queue, [request |-> Head(batch), outcome |-> outcome])
            /\ batch' = Tail(batch) /\ worker' = "notify" /\ UNCHANGED terminated
    /\ UNCHANGED <<stop_requested, engine_failed, wakeup, in_flight, request_queue,
                   request_closed, response_closed, gateway_vars, failed, outcome, stopper, history>>

notifyNotLast ==
    /\ worker = "notify"
    /\ wakeup' = (wakeup \/ batch # <<>>) /\ worker' = IF batch = <<>> THEN "wait" ELSE "publish"
    /\ UNCHANGED <<stop_requested, engine_failed, in_flight, request_queue, request_closed,
                   response_queue, response_closed, gateway_vars, batch, failed, outcome,
                   stopper, terminated, history>>

notify ==
    /\ worker = "notify"
    /\ wakeup' = TRUE /\ worker' = IF batch = <<>> THEN "wait" ELSE "publish"
    /\ UNCHANGED <<stop_requested, engine_failed, in_flight, request_queue, request_closed,
                   response_queue, response_closed, gateway_vars, batch, failed, outcome,
                   stopper, terminated, history>>

CloseResponsesNotifiesFirst ==
    /\ \/ worker = "close" /\ worker' = "close_notify"
          /\ wakeup' = TRUE /\ UNCHANGED response_closed
       \/ worker = "close_notify" /\ worker' = "done"
          /\ response_closed' = TRUE /\ UNCHANGED wakeup
    /\ UNCHANGED <<stop_requested, engine_failed, in_flight, request_queue, request_closed,
                   response_queue, gateway_vars, batch, failed, outcome, stopper, terminated, history>>

\* The end of worker_loop: the response queue is closed and the gateway notified.
CloseResponses ==
    /\ \/ worker = "close" /\ worker' = "close_notify"
          /\ response_closed' = TRUE /\ UNCHANGED wakeup
       \/ worker = "close_notify" /\ worker' = "done"
          /\ wakeup' = TRUE /\ UNCHANGED response_closed
    /\ UNCHANGED <<stop_requested, engine_failed, in_flight, request_queue, request_closed,
                   response_queue, gateway_vars, batch, failed, outcome, stopper, terminated, history>>

-----------------------------------------------------------------------------
\* Another thread calls ExchangeServer::request_stop: the flag, then the wakeup.
request_stop ==
    /\ \/ stopper = "none" /\ stopper' = "wake" /\ stop_requested' = TRUE /\ UNCHANGED wakeup
       \/ stopper = "wake" /\ stopper' = "returned" /\ wakeup' = TRUE /\ UNCHANGED stop_requested
    /\ UNCHANGED <<engine_failed, in_flight, request_queue, request_closed, response_queue,
                   response_closed, gateway_vars, worker_vars, terminated, history>>

\* ExchangeServer::run has returned.
Returned ==
    /\ gateway = "done" /\ worker = "done" /\ stopper # "wake"
    /\ UNCHANGED vars

GatewayCode ==
    \/ begin_shutdown_if_requested \/ not_empty_notify
    \/ drain_engine_completions \/ drain_pending_requests
    \/ NextToAdmit \/ admit \/ shutdown_complete \/ shutdown_complete_size
    \/ (\E c \in Connections : VisitClient(c)) \/ LoopBack \/ receive_from \/ Flush

WorkerCode ==
    \/ wait_pop \/ Reserve \/ Drain \/ execute_and_publish_batch \/ enter_fail_stop
    \/ publish \/ notify \/ CloseResponses

Next ==
    /\ ~terminated
    /\ \/ GatewayCode
       \/ \E reported \in SUBSET PollEvents : Poll(reported)
       \/ PollFails
       \/ WorkerCode
       \/ SpuriousWakeup
       \/ request_stop
       \/ Returned

Spec == Init /\ [][Next]_vars

\* Both threads run, poll returns once the eventfd is readable, and a call of
\* request_stop that has begun ends.  Nothing is assumed of the clients.
FairSpec ==
    /\ Spec
    /\ WF_vars(GatewayCode \/ (wakeup /\ \E reported \in SUBSET PollEvents : Poll(reported)))
    /\ WF_vars(WorkerCode) /\ WF_vars(stopper = "wake" /\ request_stop)

-----------------------------------------------------------------------------
RequestsIn(responses) == [i \in 1..Len(responses) |-> responses[i].request]

\* The requests of connection c in s are its first ones, each once and in order.
InOrder(s, c) ==
    LET mine == {i \in 1..Len(s) : s[i].connection = c} IN
    /\ \A i, j \in mine : i < j => s[i].id < s[j].id
    /\ \A j \in mine : \A n \in 1..(s[j].id - 1) :
          \E i \in 1..(j - 1) : s[i] = [connection |-> c, id |-> n]

SharedType ==
    /\ stop_requested \in BOOLEAN /\ engine_failed \in BOOLEAN /\ wakeup \in BOOLEAN
    /\ in_flight \in 0..maximum_in_flight
    /\ request_queue \in Seq(Request) /\ request_closed \in BOOLEAN
    /\ response_queue \in Seq(Response) /\ response_closed \in BOOLEAN
    /\ stopper \in {"none", "wake", "returned"} /\ terminated \in BOOLEAN
GatewayType ==
    /\ gateway \in {"top", "close_notify", "completions", "pending", "admit", "push",
                    "push_notify", "check", "check_size", "poll", "clients", "receive", "flush",
                    "done"}
    /\ after \in {"check", "clients"} /\ connection \in Connections \cup {NoConnection}
    /\ parsed \in Seq(Request) /\ pending_requests \in Seq(Request)
    /\ events \subseteq Connections \X {"in", "out", "hup"} /\ todo \subseteq Connections
    /\ reads_paused \in BOOLEAN /\ shutdown_started \in BOOLEAN
    /\ status \in [Connections -> {"open", "malformed", "closing", "gone"}]
    /\ output \in [Connections -> Seq(Response)]
WorkerType ==
    /\ worker \in {"wait", "blocked", "reserve", "drain", "execute", "fail", "fail_stop", "fail_wake",
                   "publish", "notify", "close", "close_notify", "done"}
    /\ batch \in Seq(Request) /\ failed \in {"no", "yes", "unwound"}
    /\ outcome \in {"result", "unavailable"}
HistoryType ==
    /\ received \in [Connections -> Nat]
    /\ admitted \in Seq(Request) /\ executed \in Seq(Request) /\ answered \in Seq(Response)
    /\ delivered \in [Connections -> Seq(Response)]

\* Every variable holds a value of its type.
TypeOK == SharedType /\ GatewayType /\ WorkerType /\ HistoryType

\* publish never meets a full or closed response queue and no reservation is
\* released twice: the two std::terminate calls are out of reach.
NeverTerminates == ~terminated

\* Each reservation belongs to one request between admission and the drain of
\* its response; none leaks and none is shared.
ReservationsExact ==
    in_flight = Len(request_queue) + Len(batch) + Len(response_queue)

\* "exactly one terminal response" (gateway_types.hpp): whatever was admitted is,
\* in the order of admission, answered, in the response queue, in the worker's
\* batch or in the request queue; nothing is lost, doubled or overtaken.
ExactlyOneResponse ==
    admitted = RequestsIn(answered) \o RequestsIn(response_queue) \o batch \o request_queue

\* "graceful draining" (README): the gateway leaves its loop only when every
\* request admitted before the stop has its answer, those that the worker had not
\* begun included, and every reservation has been given back.
ShutdownDrains ==
    gateway = "done" => RequestsIn(answered) = admitted /\ in_flight = 0

\* Requests of one connection are admitted in the order sent and without a gap,
\* although some wait in pending_requests while others arrive.
AdmissionInOrder ==
    \A c \in Connections : InOrder(admitted, c)

\* A client receives the answers to its first requests, in their order.
DeliveryInOrder ==
    \A c \in Connections :
        LET d == RequestsIn(delivered[c] \o output[c]) IN d = RequestsOf(c, 0, Len(d))

\* A result is reported only for an executed request, and after the first
\* failure nothing is executed: results, then only "unavailable".
FailStopIsFinal ==
    LET all == answered \o response_queue IN
    /\ \E n \in 0..Len(executed) : \A i \in 1..Len(all) : all[i].outcome = "result" <=> i <= n
    /\ Len(executed) <= Len(admitted)
    /\ \A i \in 1..Len(executed) : executed[i] = admitted[i]

\* Neither thread sleeps on what it has to react to.  When the gateway is about to
\* block in poll, a response, a stop, the end of the worker, and a connection that
\* a full output buffer has closed, have made the eventfd readable or will; when
\* the worker waits for the request queue, a push or close is about to notify it.
NoLostWakeup ==
    /\ gateway = "poll" /\ ~wakeup =>
        /\ response_queue # <<>> => worker = "notify"
        /\ stop_requested /\ ~shutdown_started => stopper = "wake" \/ worker = "fail_wake"
        /\ shutdown_started /\ response_closed => worker = "close_notify"
        /\ (\E c \in Connections : status[c] = "closing" /\ output[c] = <<>>) => worker = "notify"
    /\ worker = "blocked" =>
        /\ request_queue # <<>> => gateway = "push_notify"
        /\ request_closed => gateway = "close_notify"

\* Once a stop is requested or the engine fails, both threads come to their end.
StopCompletes ==
    (stop_requested \/ engine_failed) ~> (gateway = "done" /\ worker = "done")

\* Paused reads are resumed unless the server shuts down.
ReadsResume == reads_paused ~> (~reads_paused \/ shutdown_started)

\* "drains only already-queued FIFO requests" (docs/network_performance.md): a
\* batch never holds more than the request queue can, which is also the largest
\* index of batch_size_histogram.
BatchWasQueued ==
    worker = "execute" => Len(batch) <= request_queue_capacity

=============================================================================

--------------------------- MODULE ExchangeProofs ---------------------------
(***************************************************************************)
(* Proofs of the safety properties of Exchange, for any connections, any   *)
(* number of requests, any capacities and any limits.                      *)
(***************************************************************************)
EXTENDS Exchange, TLAPS

\* What a leaf may take, in seconds, unless it names a prover; on a busy machine
\* the first attempt may find no time to start.
USE SMTT(30), ZenonT(30), SMTT(40), SMTT(50)

-----------------------------------------------------------------------------
(* Queues: elements that join at the end, elements that are taken from the    *)
(* front, and elements that move from one queue to the one before it.          *)

\* A queue whose first element is taken.
LEMMA HeadAndTail ==
    ASSUME NEW S, NEW s \in Seq(S), s # <<>>
    PROVE  /\ Head(s) \in S /\ Tail(s) \in Seq(S) /\ Head(s) = s[1]
           /\ Len(s) \in Nat \ {0} /\ Len(Tail(s)) = Len(s) - 1
           /\ \A i \in 1..Len(Tail(s)) : Tail(s)[i] = s[i + 1]
  OBVIOUS

\* A queue that one element joins.
LEMMA Appended ==
    ASSUME NEW S, NEW s \in Seq(S), NEW e \in S
    PROVE  /\ Append(s, e) \in Seq(S) /\ Append(s, e) # <<>>
           /\ Len(s) \in Nat /\ Len(Append(s, e)) = Len(s) + 1
           /\ \A i \in 1..Len(s) : Append(s, e)[i] = s[i]
           /\ Append(s, e)[Len(s) + 1] = e
  OBVIOUS

\* A part of a queue.
LEMMA Part ==
    ASSUME NEW S, NEW s \in Seq(S), NEW m \in 1..(Len(s) + 1), NEW n \in (m - 1)..Len(s)
    PROVE  /\ SubSeq(s, m, n) \in Seq(S) /\ Len(SubSeq(s, m, n)) = n - m + 1
           /\ \A i \in 1..(n - m + 1) : SubSeq(s, m, n)[i] = s[m + i - 1]
  OBVIOUS

\* Sequences are equal when their elements are.
LEMMA SameSequence ==
    ASSUME NEW S, NEW s \in Seq(S), NEW t \in Seq(S), Len(s) = Len(t),
           \A i \in 1..Len(s) : s[i] = t[i]
    PROVE  s = t
  OBVIOUS

\* Two queues, one behind the other.  The provers take \o apart whenever they
\* see it; the lemmas below are about an operator that they leave whole.
Cat(s, t) == s \o t

LEMMA CatType ==
    ASSUME NEW S, NEW s \in Seq(S), NEW t \in Seq(S)
    PROVE  /\ Cat(s, t) \in Seq(S) /\ Len(s) \in Nat /\ Len(t) \in Nat
           /\ Len(Cat(s, t)) = Len(s) + Len(t)
           /\ \A i \in 1..Len(s) : Cat(s, t)[i] = s[i]
           /\ \A i \in (Len(s) + 1)..(Len(s) + Len(t)) : Cat(s, t)[i] = t[i - Len(s)]
  BY DEF Cat

LEMMA CatEmpty ==
    ASSUME NEW S, NEW s \in Seq(S)
    PROVE  Cat(s, <<>>) = s /\ Cat(<<>>, s) = s
  BY DEF Cat

LEMMA CatAssociative ==
    ASSUME NEW S, NEW a \in Seq(S), NEW b \in Seq(S), NEW c \in Seq(S)
    PROVE  Cat(Cat(a, b), c) = Cat(a, Cat(b, c))
  BY DEF Cat

\* An element that joins the second of two queues joins both.
LEMMA CatAppend ==
    ASSUME NEW S, NEW a \in Seq(S), NEW b \in Seq(S), NEW e \in S
    PROVE  Append(Cat(a, b), e) = Cat(a, Append(b, e))
  <1>1. <<e>> \in Seq(S) /\ a \o b \in Seq(S)
    OBVIOUS
  <1>2. Append(a \o b, e) = (a \o b) \o <<e>> /\ Append(b, e) = b \o <<e>>
    BY <1>1
  <1> QED BY <1>1, <1>2 DEF Cat

\* An element that moves from the front of a queue to the end of the one before
\* it leaves the concatenation as it was.
LEMMA CatShift ==
    ASSUME NEW S, NEW a \in Seq(S), NEW b \in Seq(S), b # <<>>
    PROVE  Cat(Append(a, Head(b)), Tail(b)) = Cat(a, b)
  <1> DEFINE h == Head(b)
             t == Tail(b)
             x == Append(a, h)
  <1>1. /\ h \in S /\ t \in Seq(S) /\ h = b[1] /\ Len(b) \in Nat \ {0} /\ Len(t) = Len(b) - 1
        /\ \A i \in 1..Len(t) : t[i] = b[i + 1]
    BY HeadAndTail
  <1> HIDE DEF h, t
  <1>2. /\ x \in Seq(S) /\ Len(a) \in Nat /\ Len(x) = Len(a) + 1
        /\ \A i \in 1..Len(a) : x[i] = a[i]
        /\ x[Len(a) + 1] = h
    BY <1>1, Appended
  <1> HIDE DEF x
  <1>3. /\ Cat(x, t) \in Seq(S) /\ Len(Cat(x, t)) = Len(x) + Len(t)
        /\ \A i \in 1..Len(x) : Cat(x, t)[i] = x[i]
        /\ \A i \in (Len(x) + 1)..(Len(x) + Len(t)) : Cat(x, t)[i] = t[i - Len(x)]
    <2>1. x \in Seq(S) /\ t \in Seq(S)
      BY <1>1, <1>2, ZenonT(30)
    <2> QED BY <2>1, CatType, ZenonT(30)
  <1>4. /\ Cat(a, b) \in Seq(S) /\ Len(Cat(a, b)) = Len(a) + Len(b)
        /\ \A i \in 1..Len(a) : Cat(a, b)[i] = a[i]
        /\ \A i \in (Len(a) + 1)..(Len(a) + Len(b)) : Cat(a, b)[i] = b[i - Len(a)]
    BY CatType, Zenon
  <1>5. ASSUME NEW i \in 1..Len(Cat(a, b)) PROVE Cat(x, t)[i] = Cat(a, b)[i]
    <2>1. CASE i <= Len(a)
      BY <1>1, <1>2, <1>3, <1>4, <2>1
    <2>2. CASE i = Len(a) + 1
      <3> USE <2>2
      <3>1. Cat(x, t)[i] = h
        BY <1>2, <1>3
      <3>2. i \in (Len(a) + 1)..(Len(a) + Len(b)) /\ i - Len(a) = 1
        BY <1>1, <1>2
      <3>3. Cat(a, b)[i] = b[i - Len(a)]
        BY <1>4, <3>2
      <3> QED BY <1>1, <3>1, <3>2, <3>3
    <2>3. CASE i > Len(a) + 1
      <3>1. /\ i \in (Len(x) + 1)..(Len(x) + Len(t)) /\ i \in (Len(a) + 1)..(Len(a) + Len(b))
            /\ i - Len(x) \in 1..Len(t) /\ (i - Len(x)) + 1 = i - Len(a)
        BY <1>1, <1>2, <1>4, <2>3
      <3> QED BY <1>1, <1>3, <1>4, <3>1, ZenonT(30)
    <2> QED BY <1>2, <1>4, <2>1, <2>2, <2>3
  <1>6. Len(Cat(x, t)) = Len(Cat(a, b))
    BY <1>1, <1>2, <1>3, <1>4
  <1>7. Cat(x, t) = Cat(a, b)
    BY <1>3, <1>4, <1>5, <1>6
  <1> QED BY <1>7 DEF x, h, t

\* The same with another queue in front.
LEMMA CatShiftBehind ==
    ASSUME NEW S, NEW a \in Seq(S), NEW b \in Seq(S), NEW c \in Seq(S), c # <<>>
    PROVE  Cat(Cat(a, Append(b, Head(c))), Tail(c)) = Cat(Cat(a, b), c)
  <1> DEFINE x == Append(b, Head(c))
             t == Tail(c)
  <1>1. x \in Seq(S) /\ t \in Seq(S)
    BY HeadAndTail, Appended
  <1>2. Cat(x, t) = Cat(b, c)
    BY CatShift
  <1> HIDE DEF x, t
  <1>3. Cat(Cat(a, x), t) = Cat(a, Cat(x, t))
    BY <1>1, CatAssociative
  <1>4. Cat(Cat(a, b), c) = Cat(a, Cat(b, c))
    BY CatAssociative
  <1> QED BY <1>2, <1>3, <1>4 DEF x, t

\* A queue is what was taken from its front followed by the rest.
LEMMA CatSplit ==
    ASSUME NEW S, NEW s \in Seq(S), NEW n \in 0..Len(s)
    PROVE  /\ SubSeq(s, 1, n) \in Seq(S) /\ SubSeq(s, n + 1, Len(s)) \in Seq(S)
           /\ Cat(SubSeq(s, 1, n), SubSeq(s, n + 1, Len(s))) = s
  <1> DEFINE x == SubSeq(s, 1, n)
             y == SubSeq(s, n + 1, Len(s))
  <1>1. Len(s) \in Nat
    OBVIOUS
  <1>2. /\ x \in Seq(S) /\ Len(x) = n
        /\ \A i \in 1..n : x[i] = s[i]
    <2>1. 1 \in 1..(Len(s) + 1) /\ n \in (1 - 1)..Len(s)
      BY <1>1
    <2>2. /\ x \in Seq(S) /\ Len(x) = n - 1 + 1
          /\ \A i \in 1..(n - 1 + 1) : x[i] = s[1 + i - 1]
      BY <2>1, Part
    <2>3. n - 1 + 1 = n /\ \A i \in 1..n : 1 + i - 1 = i
      BY <1>1
    <2> HIDE DEF x
    <2> QED BY <2>2, <2>3
  <1>3. /\ y \in Seq(S) /\ Len(y) = Len(s) - n
        /\ \A i \in 1..(Len(s) - n) : y[i] = s[n + i]
    <2>1. n + 1 \in 1..(Len(s) + 1) /\ Len(s) \in ((n + 1) - 1)..Len(s)
      BY <1>1
    <2>2. /\ y \in Seq(S) /\ Len(y) = Len(s) - (n + 1) + 1
          /\ \A i \in 1..(Len(s) - (n + 1) + 1) : y[i] = s[(n + 1) + i - 1]
      BY <2>1, Part
    <2>3. Len(s) - (n + 1) + 1 = Len(s) - n /\ \A i \in 1..(Len(s) - n) : (n + 1) + i - 1 = n + i
      BY <1>1
    <2> HIDE DEF y
    <2> QED BY <2>2, <2>3
  <1>4. x \in Seq(S) /\ y \in Seq(S)
    BY <1>2, <1>3
  <1> HIDE DEF x, y
  <1>5. /\ Cat(x, y) \in Seq(S) /\ Len(Cat(x, y)) = Len(x) + Len(y)
        /\ \A i \in 1..Len(x) : Cat(x, y)[i] = x[i]
        /\ \A i \in (Len(x) + 1)..(Len(x) + Len(y)) : Cat(x, y)[i] = y[i - Len(x)]
    BY <1>4, CatType, Zenon
  <1>6. Len(Cat(x, y)) = Len(s)
    BY <1>1, <1>2, <1>3, <1>5
  <1>7. ASSUME NEW i \in 1..Len(s) PROVE Cat(x, y)[i] = s[i]
    <2>1. CASE i <= n
      BY <1>1, <1>2, <1>5, <2>1
    <2>2. CASE i > n
      <3>1. i \in (Len(x) + 1)..(Len(x) + Len(y)) /\ i - n \in 1..(Len(s) - n) /\ n + (i - n) = i
        BY <1>1, <1>2, <1>3, <2>2
      <3> QED BY <1>2, <1>3, <1>5, <3>1
    <2> QED BY <1>1, <2>1, <2>2
  <1>8. Cat(x, y) = s
    BY <1>5, <1>6, <1>7
  <1> QED BY <1>4, <1>8 DEF x, y

-----------------------------------------------------------------------------
(* The inductive invariant                                                     *)

\* Where the gateway stands decides which locals of run are alive: a connection
\* is visited between receive and flush, messages of it are parsed only within
\* receive_from, and everything retained keeps the reads paused.
GatewayInv ==
    /\ gateway \in {"check", "check_size", "poll"} => after = "check"
    /\ gateway \in {"top", "close_notify", "completions", "pending", "check", "check_size",
                    "poll", "clients", "done"} => connection = NoConnection
    /\ gateway \in {"receive", "flush"} => connection # NoConnection
    /\ gateway \notin {"admit", "push", "push_notify"} => parsed = <<>>
    /\ parsed # <<>> =>
          /\ connection # NoConnection /\ Open(connection) /\ pending_requests = <<>>
          /\ \A i \in 1..Len(parsed) : parsed[i].connection = connection
    /\ pending_requests # <<>> => reads_paused
    /\ gateway = "push" =>
          /\ ~shutdown_started
          /\ connection # NoConnection => parsed # <<>>
          /\ connection = NoConnection =>
                pending_requests # <<>> /\ Open(Head(pending_requests).connection)
    /\ gateway = "check_size" => shutdown_started /\ response_closed
    /\ shutdown_started <=> request_closed

\* The descriptors still to visit: none on the way to poll, all of them on the
\* way from the eventfd to the loop over the clients.
TodoInv ==
    connection = NoConnection /\ gateway # "clients" =>
        /\ after = "check" => todo = {}
        /\ after = "clients" => Present \subseteq todo

\* Where the worker stands says what its batch holds.
WorkerInv ==
    /\ worker \in {"wait", "blocked", "close", "close_notify", "done"} => batch = <<>>
    /\ worker = "reserve" => Len(batch) = 1
    /\ worker \in {"drain", "execute", "publish"} => batch # <<>>
    /\ worker \in {"close", "close_notify", "done"} => request_closed /\ request_queue = <<>>
    /\ response_closed => worker \in {"close_notify", "done"}

\* The batch as long as it is not executed.
Unexecuted == IF worker \in {"publish", "notify"} THEN <<>> ELSE batch

\* Until the first failure, everything executed has a result or is about to;
\* afterwards no result is produced.
OutcomeInv ==
    /\ failed = "no" =>
          /\ worker \notin {"fail", "fail_stop", "fail_wake"}
          /\ worker \in {"publish", "notify"} => outcome = "result"
          /\ Len(executed) + Len(Unexecuted) = Len(answered) + Len(response_queue) + Len(batch)
          /\ \A i \in 1..Len(answered) : answered[i].outcome = "result"
          /\ \A i \in 1..Len(response_queue) : response_queue[i].outcome = "result"
    /\ failed # "no" /\ worker \notin {"fail", "fail_stop", "fail_wake"} => outcome = "unavailable"

\* The eventfd is readable or the worker is about to write it.
Signalled == wakeup \/ worker = "notify"

\* A response that the gateway has not drained: signalled, or the gateway is on
\* its way from the eventfd to the drain.
WakeResponses ==
    response_queue # <<>> =>
        \/ Signalled \/ gateway = "done"
        \/ gateway \in {"top", "close_notify", "completions"} /\ after = "clients"

\* A stop that the gateway has not begun to carry out.
WakeStop ==
    stop_requested /\ ~shutdown_started =>
        gateway = "top" \/ wakeup \/ stopper = "wake" \/ worker = "fail_wake"

\* The end of the worker, once the gateway has looked for it in vain.
WakeEnd ==
    gateway = "poll" /\ shutdown_started /\ response_closed => wakeup \/ worker = "close_notify"

\* A connection that has to be closed and has nothing to send: signalled, or
\* still to be visited.
WakeClosing ==
    \A c \in Connections : status[c] = "closing" /\ output[c] = <<>> =>
        Signalled \/ c \in todo \/ c = connection

\* A worker that waits although there is something for it is about to be notified.
WakeWorker ==
    worker = "blocked" =>
        /\ request_queue # <<>> => gateway = "push_notify"
        /\ request_closed => gateway = "close_notify"

WakeInv == WakeResponses /\ WakeStop /\ WakeEnd /\ WakeClosing /\ WakeWorker

\* The inductive invariant, with or without exceptions in the worker.
IInv ==
    /\ TypeOK /\ NeverTerminates /\ ReservationsExact
    /\ GatewayInv /\ TodoInv /\ WorkerInv /\ OutcomeInv /\ WakeInv

-----------------------------------------------------------------------------
(* Sequences *)

\* The requests that one call of feed returns.
LEMMA RequestsOfType ==
    ASSUME NEW c \in Connections, NEW m \in Nat, NEW n \in Nat, m <= n
    PROVE  /\ RequestsOf(c, m, n) \in Seq(Request)
           /\ Len(RequestsOf(c, m, n)) = n - m
           /\ \A i \in 1..(n - m) :
                 RequestsOf(c, m, n)[i] = [connection |-> c, id |-> m + i]
  <1>1. \A i \in 1..(n - m) : [connection |-> c, id |-> m + i] \in Request
    BY DEF Request
  <1> QED BY <1>1 DEF RequestsOf

-----------------------------------------------------------------------------
(* The alternatives of NextToAdmit: nothing retained is left, the first        *)
(* retained request belongs to a closed connection, the parsed messages are    *)
(* used up, or there is a request to admit.                                    *)

AllAdmitted ==
    /\ connection = NoConnection /\ pending_requests = <<>>
    /\ reads_paused' = FALSE /\ gateway' = after
    /\ UNCHANGED <<parsed, pending_requests, status>>

DropPending ==
    /\ connection = NoConnection /\ pending_requests # <<>>
    /\ ~Open(Head(pending_requests).connection)
    /\ pending_requests' = Tail(pending_requests)
    /\ UNCHANGED <<gateway, parsed, reads_paused, status>>

Consumed ==
    /\ connection # NoConnection /\ parsed = <<>> /\ gateway' = "receive"
    /\ \/ status[connection] # "malformed" /\ status' = status
       \/ status[connection] = "malformed" /\ status' = [status EXCEPT ![connection] = "closing"]
    /\ UNCHANGED <<parsed, pending_requests, reads_paused>>

Candidate ==
    \/ /\ connection = NoConnection /\ pending_requests # <<>>
       /\ Open(Head(pending_requests).connection)
    \/ connection # NoConnection /\ parsed # <<>>

PushNext ==
    /\ Candidate /\ ~shutdown_started /\ gateway' = "push"
    /\ UNCHANGED <<parsed, pending_requests, reads_paused, status>>

LEMMA AdmitCases ==
    ASSUME NextToAdmit
    PROVE  AllAdmitted \/ DropPending \/ Consumed \/ (Candidate /\ Refuse) \/ PushNext
  BY DEF NextToAdmit, AllAdmitted, DropPending, Consumed, Candidate, PushNext, ResumeReads

-----------------------------------------------------------------------------
(* Types *)

LEMMA TypeInit == ASSUME ExchangeAssumption, Init PROVE TypeOK
  <1>1. <<>> \in Seq(Request) /\ <<>> \in Seq(Response) /\ 0 \in 0..maximum_in_flight
    BY DEF ExchangeAssumption
  <1>2. SharedType
    BY <1>1, Zenon DEF Init, SharedType
  <1>3. WorkerType
    BY <1>1, Zenon DEF Init, WorkerType
  <1>4. status \in [Connections -> {"open", "malformed", "closing", "gone"}]
    BY DEF Init
  <1>5. /\ output \in [Connections -> Seq(Response)] /\ delivered \in [Connections -> Seq(Response)]
        /\ received \in [Connections -> Nat]
    BY <1>1 DEF Init
  <1>6. GatewayType
    BY <1>1, <1>4, <1>5, Zenon DEF Init, GatewayType
  <1>7. HistoryType
    BY <1>1, <1>5, Zenon DEF Init, HistoryType
  <1> QED BY <1>2, <1>3, <1>6, <1>7 DEF TypeOK

\* Refusing a request keeps the types.
LEMMA TypeRefuse ==
    ASSUME ExchangeAssumption, GatewayType, Refuse
    PROVE  /\ parsed' \in Seq(Request) /\ pending_requests' \in Seq(Request)
           /\ reads_paused' \in BOOLEAN /\ gateway' \in {"check", "clients", "admit"}
           /\ status' \in [Connections -> {"open", "malformed", "closing", "gone"}]
  <1>1. CASE connection = NoConnection
    BY <1>1 DEF Refuse, GatewayType
  <1>2. CASE connection # NoConnection
    <2> USE <1>2
    <2> DEFINE room == MaxPending - Len(pending_requests)
               n == IF room < Len(parsed) THEN room ELSE Len(parsed)
    <2>1. connection \in Connections /\ gateway' = "admit" /\ parsed' = <<>> /\ reads_paused'
      BY DEF Refuse, GatewayType
    <2>2. status' \in [Connections -> {"open", "malformed", "closing", "gone"}]
      BY <2>1, Zenon DEF Refuse, GatewayType
    <2>3. SubSeq(parsed, 1, n) \in Seq(Request)
      <3>1. n \in Int /\ \A i \in 1..n : i \in 1..Len(parsed)
        BY DEF GatewayType, ExchangeAssumption
      <3>2. \A i \in 1..n : parsed[i] \in Request
        BY <3>1 DEF GatewayType
      <3> HIDE DEF n
      <3> QED BY <3>1, <3>2
    <2>4. pending_requests' = pending_requests \o SubSeq(parsed, 1, n)
      BY DEF Refuse
    <2>5. pending_requests' \in Seq(Request)
      <3> HIDE DEF n
      <3> QED BY <2>3, <2>4 DEF GatewayType
    <2> QED BY <2>1, <2>2, <2>5
  <1> QED BY <1>1, <1>2

\* Who leaves its variables alone keeps their types.
LEMMA KeepTypes ==
    ASSUME TypeOK
    PROVE  /\ UNCHANGED <<shared, stopper, terminated>> => SharedType'
           /\ UNCHANGED gateway_vars => GatewayType'
           /\ UNCHANGED worker_vars => WorkerType'
           /\ UNCHANGED history => HistoryType'
  <1>1. UNCHANGED <<shared, stopper, terminated>> => SharedType'
    BY Zenon DEF TypeOK, SharedType, shared
  <1>2. UNCHANGED gateway_vars => GatewayType'
    BY Zenon DEF TypeOK, GatewayType, gateway_vars, loop_vars
  <1>3. UNCHANGED worker_vars => WorkerType'
    BY Zenon DEF TypeOK, WorkerType, worker_vars
  <1>4. UNCHANGED history => HistoryType'
    BY Zenon DEF TypeOK, HistoryType, history
  <1> QED BY <1>1, <1>2, <1>3, <1>4

\* The gateway thread keeps the types.
LEMMA TypeGateway ==
    ASSUME ExchangeAssumption, TypeOK, GatewayInv, NeverTerminates, GatewayCode PROVE TypeOK'
  <1>1. CASE begin_shutdown_if_requested
    <2> USE <1>1
    <2>1. SharedType'
      BY Zenon DEF begin_shutdown_if_requested, TypeOK, SharedType
    <2>2. WorkerType' /\ HistoryType'
      BY KeepTypes DEF begin_shutdown_if_requested
    <2>3. GatewayType'
      <3>1. CASE stop_requested /\ ~shutdown_started
        BY <3>1 DEF begin_shutdown_if_requested, TypeOK, GatewayType, loop_vars
      <3>2. CASE ~(stop_requested /\ ~shutdown_started)
        BY <3>2 DEF begin_shutdown_if_requested, TypeOK, GatewayType, loop_vars
      <3> QED BY <3>1, <3>2
    <2> QED BY <2>1, <2>3, <2>2 DEF TypeOK
  <1>2. CASE not_empty_notify
    <2> USE <1>2
    <2>1. SharedType' /\ WorkerType' /\ HistoryType'
      BY DEF not_empty_notify, TypeOK, SharedType, WorkerType, HistoryType, shared, history
    <2>2. GatewayType'
      BY DEF not_empty_notify, TypeOK, GatewayType, loop_vars
    <2> QED BY <2>1, <2>2 DEF TypeOK
  <1>3. CASE drain_engine_completions
    <2> USE <1>3
    <2>1. CASE response_queue = <<>>
      <3> USE <2>1
      <3>1. SharedType' /\ WorkerType' /\ HistoryType'
        BY DEF drain_engine_completions, TypeOK, SharedType, WorkerType, HistoryType,
                          worker_vars
      <3>2. GatewayType'
        BY DEF drain_engine_completions, TypeOK, GatewayType, loop_vars
      <3> QED BY <3>1, <3>2 DEF TypeOK
    <2>2. CASE response_queue # <<>>
      <3> USE <2>2
      <3>1. /\ Head(response_queue) \in Response /\ Tail(response_queue) \in Seq(Response)
            /\ Head(response_queue).request.connection \in Connections
        <4>1. response_queue \in Seq(Response)
          BY DEF TypeOK, SharedType
        <4>2. Head(response_queue) \in Response /\ Tail(response_queue) \in Seq(Response)
          BY <4>1, HeadAndTail
        <4> QED BY <4>2 DEF Response, Request
      <3>2. SharedType'
        <4>1. in_flight' \in 0..maximum_in_flight /\ terminated' \in BOOLEAN
          <5>1. Release
            BY DEF drain_engine_completions
          <5>2. CASE in_flight = 0
            BY <5>1, <5>2 DEF Release, TypeOK, SharedType
          <5>3. CASE in_flight # 0
            BY <5>1, <5>3 DEF Release, TypeOK, SharedType, ExchangeAssumption
          <5> QED BY <5>2, <5>3
        <4> QED BY <3>1, <4>1, Zenon DEF drain_engine_completions, TypeOK, SharedType
      <3>3. HistoryType' /\ WorkerType'
        <4>1. answered' = Append(answered, Head(response_queue))
          BY DEF drain_engine_completions
        <4>2. answered' \in Seq(Response)
          BY <3>1, <4>1 DEF TypeOK, HistoryType
        <4> QED BY <4>2 DEF drain_engine_completions, TypeOK, HistoryType, WorkerType,
                                  worker_vars
      <3>4. GatewayType'
        <4>1. /\ output' \in [Connections -> Seq(Response)]
              /\ status' \in [Connections -> {"open", "malformed", "closing", "gone"}]
          <5> DEFINE c == Head(response_queue).request.connection
          <5>1. Append(output[c], Head(response_queue)) \in Seq(Response)
            BY <3>1 DEF TypeOK, GatewayType
          <5>2. CASE Open(c) /\ Len(output[c]) < MaxOutput
            <6>1. /\ output' = [output EXCEPT ![c] = Append(@, Head(response_queue))]
                  /\ status' = status
              BY <5>2, Zenon DEF drain_engine_completions, queue_response
            <6> QED BY <3>1, <5>1, <6>1, Zenon DEF TypeOK, GatewayType
          <5>3. CASE Open(c) /\ ~(Len(output[c]) < MaxOutput)
            <6>1. /\ output' = [output EXCEPT ![c] = <<>>]
                  /\ status' = [status EXCEPT ![c] = "closing"]
              BY <5>3 DEF drain_engine_completions, queue_response
            <6>2. <<>> \in Seq(Response)
              OBVIOUS
            <6> QED BY <3>1, <6>1, <6>2 DEF TypeOK, GatewayType
          <5>4. CASE ~Open(c)
            BY <5>4 DEF drain_engine_completions, TypeOK, GatewayType
          <5> QED BY <5>2, <5>3, <5>4
        <4> QED BY <4>1 DEF drain_engine_completions, TypeOK, GatewayType, loop_vars
      <3> QED BY <3>2, <3>3, <3>4 DEF TypeOK
    <2> QED BY <2>1, <2>2
  <1>4. CASE drain_pending_requests
    <2> USE <1>4
    <2>1. SharedType' /\ WorkerType' /\ HistoryType'
      BY KeepTypes DEF drain_pending_requests
    <2>2. GatewayType'
      BY DEF drain_pending_requests, TypeOK, GatewayType, loop_vars
    <2> QED BY <2>1, <2>2 DEF TypeOK
  <1>5. CASE NextToAdmit
    <2> USE <1>5
    <2>1. SharedType' /\ WorkerType' /\ HistoryType'
      BY KeepTypes DEF NextToAdmit
    <2>2. /\ parsed' \in Seq(Request) /\ pending_requests' \in Seq(Request)
          /\ reads_paused' \in BOOLEAN
          /\ gateway' \in {"check", "clients", "admit", "push", "receive"}
          /\ status' \in [Connections -> {"open", "malformed", "closing", "gone"}]
      <3>1. CASE Refuse
        BY <3>1, TypeRefuse DEF TypeOK
      <3>2. CASE AllAdmitted
        BY <3>2, Zenon DEF AllAdmitted, TypeOK, GatewayType
      <3>3. CASE DropPending
        BY <3>3, HeadAndTail DEF NextToAdmit, DropPending, TypeOK, GatewayType
      <3>4. CASE Consumed
        BY <3>4, ZenonT(30) DEF Consumed, TypeOK, GatewayType
      <3>5. CASE PushNext
        BY <3>5 DEF PushNext, TypeOK, GatewayType
      <3> QED BY <3>1, <3>2, <3>3, <3>4, <3>5, AdmitCases
    <2>3. GatewayType'
      BY <2>2 DEF NextToAdmit, TypeOK, GatewayType
    <2> QED BY <2>1, <2>3 DEF TypeOK
  <1>6. CASE admit
    <2> USE <1>6
    <2>1. CASE NoRoom
      <3> USE <2>1
      <3>1. SharedType' /\ WorkerType' /\ HistoryType'
        BY DEF admit, TypeOK, SharedType, WorkerType, HistoryType, worker_vars
      <3>2. GatewayType'
        BY TypeRefuse DEF admit, TypeOK, GatewayType
      <3> QED BY <3>1, <3>2 DEF TypeOK
    <2>2. CASE ~NoRoom
      <3> USE <2>2
      <3> DEFINE r == IF connection = NoConnection THEN Head(pending_requests) ELSE Head(parsed)
      <3>1. /\ r \in Request
            /\ parsed' \in Seq(Request) /\ pending_requests' \in Seq(Request)
        <4>1. parsed \in Seq(Request) /\ pending_requests \in Seq(Request) /\ gateway = "push"
          BY DEF admit, TypeOK, GatewayType
        <4>2. CASE connection = NoConnection
          <5> USE <4>2
          <5>1. pending_requests # <<>>
            BY <4>1 DEF GatewayInv
          <5>2. pending_requests' = Tail(pending_requests) /\ parsed' = parsed
            BY DEF admit, PopPending
          <5> QED BY <4>1, <5>1, <5>2, HeadAndTail
        <4>3. CASE connection # NoConnection
          <5> USE <4>3
          <5>1. parsed # <<>>
            BY <4>1 DEF GatewayInv
          <5>2. parsed' = Tail(parsed) /\ pending_requests' = pending_requests
            BY DEF admit
          <5> QED BY <4>1, <5>1, <5>2, HeadAndTail
        <4> QED BY <4>2, <4>3
      <3>2. /\ in_flight' = in_flight + 1 /\ in_flight # maximum_in_flight
            /\ request_queue' = Append(request_queue, r) /\ admitted' = Append(admitted, r)
            /\ gateway' = "push_notify" /\ UNCHANGED <<reads_paused, status>>
        BY DEF admit, NoRoom
      <3> HIDE DEF r
      <3>3. SharedType'
        <4>1. in_flight' \in 0..maximum_in_flight
          BY <3>2 DEF TypeOK, SharedType, ExchangeAssumption
        <4>2. request_queue' \in Seq(Request)
          BY <3>1, <3>2 DEF TypeOK, SharedType
        <4> QED BY <4>1, <4>2 DEF admit, TypeOK, SharedType
      <3>4. WorkerType' /\ HistoryType'
        BY <3>1, <3>2 DEF admit, TypeOK, WorkerType, HistoryType, worker_vars
      <3>5. GatewayType'
        BY <3>1, <3>2 DEF admit, TypeOK, GatewayType
      <3> QED BY <3>3, <3>4, <3>5 DEF TypeOK
    <2> QED BY <2>1, <2>2
  <1>7. CASE shutdown_complete
    <2> USE <1>7
    <2>1. SharedType' /\ WorkerType' /\ HistoryType'
      BY KeepTypes DEF shutdown_complete
    <2>2. GatewayType'
      BY DEF shutdown_complete, TypeOK, GatewayType, loop_vars
    <2> QED BY <2>1, <2>2 DEF TypeOK
  <1>8. CASE shutdown_complete_size
    <2> USE <1>8
    <2>1. SharedType' /\ WorkerType'
      BY KeepTypes DEF shutdown_complete_size
    <2>2. GatewayType'
      <3>1. CASE response_queue = <<>>
        <4> USE <3>1
        <4>1. /\ status' \in [Connections -> {"open", "malformed", "closing", "gone"}]
              /\ output' \in [Connections -> Seq(Response)]
          <5>1. <<>> \in Seq(Response)
            OBVIOUS
          <5> QED BY <5>1, Zenon DEF shutdown_complete_size
        <4> QED BY <4>1 DEF shutdown_complete_size, TypeOK, GatewayType, loop_vars
      <3>2. CASE response_queue # <<>>
        BY <3>2 DEF shutdown_complete_size, TypeOK, GatewayType, loop_vars
      <3> QED BY <3>1, <3>2
    <2>3. delivered' \in [Connections -> Seq(Response)]
      <3>1. CASE response_queue = <<>>
        <4>1. PICK n \in [Connections -> 0..MaxOutput] :
                 /\ \A c \in Connections : n[c] <= Len(output[c])
                 /\ delivered' = [c \in Connections |->
                                     delivered[c] \o SubSeq(output[c], 1, n[c])]
          BY <3>1, Zenon DEF shutdown_complete_size
        <4>2. ASSUME NEW c \in Connections
              PROVE  delivered[c] \o SubSeq(output[c], 1, n[c]) \in Seq(Response)
          <5>1. output[c] \in Seq(Response) /\ n[c] \in 0..Len(output[c])
            BY <4>1 DEF TypeOK, GatewayType
          <5>2. SubSeq(output[c], 1, n[c]) \in Seq(Response)
            BY <5>1, Part
          <5> QED BY <5>2 DEF TypeOK, HistoryType
        <4> QED BY <4>1, <4>2
      <3>2. CASE response_queue # <<>>
        BY <3>2 DEF shutdown_complete_size, TypeOK, HistoryType
      <3> QED BY <3>1, <3>2
    <2>4. HistoryType'
      BY <2>3 DEF shutdown_complete_size, TypeOK, HistoryType
    <2> QED BY <2>1, <2>2, <2>4 DEF TypeOK
  <1>9. ASSUME NEW c \in Connections, VisitClient(c) PROVE TypeOK'
    <2> USE <1>9
    <2>1. SharedType' /\ WorkerType' /\ HistoryType'
      BY KeepTypes DEF VisitClient
    <2>2. GatewayType'
      BY DEF VisitClient, TypeOK, GatewayType
    <2> QED BY <2>1, <2>2 DEF TypeOK
  <1>10. CASE LoopBack
    <2> USE <1>10
    <2>1. SharedType' /\ WorkerType' /\ HistoryType'
      BY KeepTypes DEF LoopBack
    <2>2. GatewayType'
      BY DEF LoopBack, TypeOK, GatewayType
    <2> QED BY <2>1, <2>2 DEF TypeOK
  <1>11. CASE receive_from
    <2> USE <1>11
    <2>1. SharedType' /\ WorkerType'
      BY KeepTypes DEF receive_from
    <2>2. connection \in Connections
      BY DEF receive_from, GatewayInv, TypeOK, GatewayType
    <2>3. /\ parsed' \in Seq(Request)
          /\ status' \in [Connections -> {"open", "malformed", "closing", "gone"}]
          /\ gateway' \in {"admit", "flush"}
          /\ received' \in [Connections -> Nat]
      <3>1. CASE gateway' = "flush"
        BY <2>2, <3>1, Zenon DEF receive_from, TypeOK, GatewayType, HistoryType
      <3>2. CASE gateway' = "admit"
        <4> USE <3>2
        <4>1. PICK n \in received[connection]..MaxRequests[connection], bad \in BOOLEAN :
                /\ parsed' = RequestsOf(connection, received[connection], n)
                /\ received' = [received EXCEPT ![connection] = n]
                /\ status' = IF bad THEN [status EXCEPT ![connection] = "malformed"] ELSE status
          BY DEF receive_from
        <4>2. received[connection] \in Nat /\ n \in Nat /\ received[connection] <= n
          BY <2>2, <4>1 DEF TypeOK, HistoryType, ExchangeAssumption
        <4>3. parsed' \in Seq(Request)
          BY <2>2, <4>1, <4>2, RequestsOfType, Zenon
        <4> QED BY <2>2, <4>1, <4>2, <4>3 DEF TypeOK, GatewayType, HistoryType
      <3> QED BY <3>1, <3>2 DEF receive_from
    <2>4. GatewayType'
      BY <2>3, ZenonT(30) DEF receive_from, TypeOK, GatewayType
    <2>5. HistoryType'
      BY <2>3 DEF receive_from, TypeOK, HistoryType
    <2> QED BY <2>1, <2>4, <2>5 DEF TypeOK
  <1>12. CASE Flush
    <2> USE <1>12
    <2>1. SharedType' /\ WorkerType'
      BY KeepTypes DEF Flush
    <2>2. connection \in Connections
      BY DEF Flush, GatewayInv, TypeOK, GatewayType
    <2>3. PICK n \in 0..Len(output[connection]), fatal \in BOOLEAN :
            LET left == IF fatal THEN <<>>
                        ELSE SubSeq(output[connection], n + 1, Len(output[connection]))
                closes == fatal \/ ~Open(connection) \/ <<connection, "hup">> \in events
            IN  /\ delivered' = [delivered EXCEPT ![connection] =
                                    @ \o SubSeq(output[connection], 1, n)]
                /\ status' = [status EXCEPT ![connection] =
                                 IF ~closes THEN @ ELSE IF left = <<>> THEN "gone" ELSE "closing"]
                /\ output' = [output EXCEPT ![connection] = left]
      BY Zenon DEF Flush
    <2>4. output[connection] \in Seq(Response) /\ Len(output[connection]) \in Nat
      BY <2>2 DEF TypeOK, GatewayType
    <2>5. /\ SubSeq(output[connection], 1, n) \in Seq(Response)
          /\ SubSeq(output[connection], n + 1, Len(output[connection])) \in Seq(Response)
      BY <2>4, Part
    <2>6. delivered' \in [Connections -> Seq(Response)]
      BY <2>2, <2>3, <2>5 DEF TypeOK, HistoryType
    <2>7. output' \in [Connections -> Seq(Response)]
      BY <2>2, <2>3, <2>5 DEF TypeOK, GatewayType
    <2>8. status' \in [Connections -> {"open", "malformed", "closing", "gone"}]
      BY <2>2, <2>3 DEF TypeOK, GatewayType
    <2>9. GatewayType'
      BY <2>7, <2>8, ZenonT(30) DEF Flush, TypeOK, GatewayType
    <2>10. HistoryType'
      BY <2>6, ZenonT(30) DEF Flush, TypeOK, HistoryType
    <2> QED BY <2>1, <2>9, <2>10 DEF TypeOK
  <1> QED BY <1>1, <1>2, <1>3, <1>4, <1>5, <1>6, <1>7, <1>8, <1>9, <1>10, <1>11, <1>12
          DEF GatewayCode

\* The worker thread, poll and request_stop keep the types.
LEMMA TypeOthers ==
    ASSUME ExchangeAssumption, TypeOK, WorkerInv,
           \/ WorkerCode \/ SpuriousWakeup \/ request_stop \/ PollFails
           \/ \E reported \in SUBSET PollEvents : Poll(reported)
           \/ UNCHANGED vars
    PROVE  TypeOK'
  <1>1. CASE wait_pop
    <2> USE <1>1
    <2>1. GatewayType' /\ HistoryType'
      BY KeepTypes DEF wait_pop
    <2>2. request_queue \in Seq(Request) /\ batch \in Seq(Request)
      BY DEF TypeOK, SharedType, WorkerType
    <2>3. request_queue' \in Seq(Request) /\ batch' \in Seq(Request)
      <3>1. CASE request_queue = <<>>
        BY <2>2, <3>1, Zenon DEF wait_pop
      <3>2. CASE request_queue # <<>>
        <4> USE <3>2
        <4>1. Head(request_queue) \in Request /\ Tail(request_queue) \in Seq(Request)
          BY <2>2, HeadAndTail
        <4>2. batch' = <<Head(request_queue)>> /\ request_queue' = Tail(request_queue)
          BY DEF wait_pop
        <4>3. \A r \in Request : <<r>> \in Seq(Request)
          OBVIOUS
        <4> QED BY <4>1, <4>2, <4>3
      <3> QED BY <3>1, <3>2
    <2>4. worker' \in {"publish", "reserve", "close", "blocked"}
      BY DEF wait_pop
    <2>5. SharedType'
      BY <2>3 DEF wait_pop, TypeOK, SharedType
    <2>6. WorkerType'
      BY <2>3, <2>4 DEF wait_pop, TypeOK, WorkerType
    <2> QED BY <2>1, <2>5, <2>6 DEF TypeOK
  <1>2. CASE Reserve
    <2> USE <1>2
    <2>1. GatewayType' /\ HistoryType'
      BY KeepTypes DEF Reserve
    <2>2. in_flight' \in 0..maximum_in_flight /\ terminated' \in BOOLEAN
      <3>1. CASE UNCHANGED <<in_flight, terminated>>
        BY <3>1 DEF TypeOK, SharedType
      <3>2. CASE Release /\ in_flight = 0
        BY <3>2 DEF Release, TypeOK, SharedType
      <3>3. CASE Release /\ in_flight # 0
        BY <3>3 DEF Release, TypeOK, SharedType, ExchangeAssumption
      <3> QED BY <3>1, <3>2, <3>3 DEF Reserve
    <2>3. SharedType'
      BY <2>2 DEF Reserve, TypeOK, SharedType
    <2>4. WorkerType'
      <3>1. <<>> \in Seq(Request)
        OBVIOUS
      <3>2. /\ batch' \in Seq(Request) /\ failed' \in {"no", "yes", "unwound"}
            /\ worker' \in {"drain", "fail"}
        BY <3>1, Zenon DEF Reserve, TypeOK, WorkerType
      <3> QED BY <3>2 DEF Reserve, TypeOK, WorkerType
    <2> QED BY <2>1, <2>3, <2>4 DEF TypeOK
  <1>3. CASE Drain
    <2> USE <1>3
    <2>1. GatewayType' /\ HistoryType'
      BY KeepTypes DEF Drain
    <2>2. request_queue \in Seq(Request) /\ batch \in Seq(Request)
      BY DEF TypeOK, SharedType, WorkerType
    <2>3. /\ request_queue' \in Seq(Request) /\ batch' \in Seq(Request)
          /\ worker' \in {"drain", "execute"}
      <3>1. CASE Len(batch) < max_durable_batch_size /\ request_queue # <<>>
        <4> USE <3>1
        <4>1. Head(request_queue) \in Request /\ Tail(request_queue) \in Seq(Request)
          BY <2>2, HeadAndTail
        <4>2. /\ batch' = Append(batch, Head(request_queue))
              /\ request_queue' = Tail(request_queue) /\ worker' = "drain"
          BY DEF Drain
        <4> QED BY <2>2, <4>1, <4>2, Appended
      <3>2. CASE ~(Len(batch) < max_durable_batch_size /\ request_queue # <<>>)
        BY <2>2, <3>2 DEF Drain
      <3> QED BY <3>1, <3>2
    <2>4. SharedType'
      BY <2>3 DEF Drain, TypeOK, SharedType
    <2>5. WorkerType'
      BY <2>3 DEF Drain, TypeOK, WorkerType
    <2> QED BY <2>1, <2>4, <2>5 DEF TypeOK
  <1>4. CASE execute_and_publish_batch
    <2> USE <1>4
    <2>1. GatewayType' /\ SharedType'
      BY KeepTypes DEF execute_and_publish_batch
    <2>2. WorkerType'
      BY DEF execute_and_publish_batch, TypeOK, WorkerType
    <2>3. executed' \in Seq(Request)
      <3>1. executed' = executed \/ executed' = executed \o batch
        BY DEF execute_and_publish_batch
      <3>2. executed \in Seq(Request) /\ batch \in Seq(Request)
        BY DEF TypeOK, WorkerType, HistoryType
      <3>3. Cat(executed, batch) \in Seq(Request)
        BY <3>2, CatType
      <3> QED BY <3>1, <3>2, <3>3, Zenon DEF Cat
    <2>4. HistoryType'
      BY <2>3 DEF execute_and_publish_batch, TypeOK, HistoryType
    <2> QED BY <2>1, <2>2, <2>4 DEF TypeOK
  <1>5. CASE enter_fail_stop
    <2> USE <1>5
    <2>1. GatewayType' /\ HistoryType'
      BY KeepTypes DEF enter_fail_stop
    <2>2. /\ engine_failed' \in BOOLEAN /\ stop_requested' \in BOOLEAN /\ wakeup' \in BOOLEAN
      BY Zenon DEF enter_fail_stop, TypeOK, SharedType
    <2>3. SharedType'
      BY <2>2 DEF enter_fail_stop, TypeOK, SharedType
    <2>4. WorkerType'
      BY DEF enter_fail_stop, TypeOK, WorkerType
    <2> QED BY <2>1, <2>3, <2>4 DEF TypeOK
  <1>6. CASE publish
    <2> USE <1>6
    <2>1. GatewayType' /\ HistoryType'
      BY KeepTypes DEF publish
    <2>2. batch \in Seq(Request) /\ batch # <<>> /\ outcome \in {"result", "unavailable"}
      BY DEF publish, WorkerInv, TypeOK, WorkerType
    <2>3. /\ [request |-> Head(batch), outcome |-> outcome] \in Response
          /\ Tail(batch) \in Seq(Request)
      <3>1. Head(batch) \in Request /\ Tail(batch) \in Seq(Request)
        BY <2>2, HeadAndTail
      <3> QED BY <2>2, <3>1 DEF Response
    <2>4. CASE response_closed \/ Len(response_queue) = maximum_in_flight
      <3>1. /\ terminated' = TRUE
            /\ UNCHANGED <<stop_requested, engine_failed, wakeup, in_flight, request_queue,
                           request_closed, response_queue, response_closed, stopper>>
            /\ UNCHANGED <<worker, batch, failed, outcome>>
        BY <2>4 DEF publish
      <3> QED BY <2>1, <3>1 DEF TypeOK, SharedType, WorkerType
    <2>5. CASE ~(response_closed \/ Len(response_queue) = maximum_in_flight)
      <3> DEFINE r == [request |-> Head(batch), outcome |-> outcome]
      <3>1. /\ response_queue' = Append(response_queue, r) /\ batch' = Tail(batch)
            /\ worker' = "notify"
            /\ UNCHANGED <<stop_requested, engine_failed, wakeup, in_flight, request_queue,
                           request_closed, response_closed, stopper, terminated, failed, outcome>>
        BY <2>5 DEF publish
      <3>2. r \in Response
        BY <2>3, Zenon
      <3> HIDE DEF r
      <3>3. response_queue' \in Seq(Response)
        BY <3>1, <3>2 DEF TypeOK, SharedType
      <3>4. SharedType'
        BY <3>1, <3>3 DEF TypeOK, SharedType
      <3>5. WorkerType'
        BY <2>3, <3>1 DEF TypeOK, WorkerType
      <3> QED BY <2>1, <3>4, <3>5 DEF TypeOK
    <2> QED BY <2>4, <2>5
  <1>7. CASE notify
    <2> USE <1>7
    <2>1. GatewayType' /\ HistoryType'
      BY KeepTypes DEF notify
    <2>2. SharedType'
      BY DEF notify, TypeOK, SharedType
    <2>3. WorkerType'
      BY DEF notify, TypeOK, WorkerType
    <2> QED BY <2>1, <2>2, <2>3 DEF TypeOK
  <1>8. CASE CloseResponses
    <2> USE <1>8
    <2>1. GatewayType' /\ HistoryType'
      BY KeepTypes DEF CloseResponses
    <2>2. response_closed' \in BOOLEAN /\ wakeup' \in BOOLEAN
      BY Zenon DEF CloseResponses, TypeOK, SharedType
    <2>3. SharedType'
      BY <2>2 DEF CloseResponses, TypeOK, SharedType
    <2>4. WorkerType'
      BY DEF CloseResponses, TypeOK, WorkerType
    <2> QED BY <2>1, <2>3, <2>4 DEF TypeOK
  <1>9. CASE SpuriousWakeup
    <2> USE <1>9
    <2>1. GatewayType' /\ HistoryType' /\ SharedType'
      BY KeepTypes DEF SpuriousWakeup
    <2>2. WorkerType'
      BY DEF SpuriousWakeup, TypeOK, WorkerType
    <2> QED BY <2>1, <2>2 DEF TypeOK
  <1>10. CASE request_stop
    <2> USE <1>10
    <2>1. GatewayType' /\ HistoryType' /\ WorkerType'
      BY KeepTypes DEF request_stop
    <2>2. /\ stop_requested' \in BOOLEAN /\ wakeup' \in BOOLEAN
          /\ stopper' \in {"none", "wake", "returned"}
      BY Zenon DEF request_stop, TypeOK, SharedType
    <2>3. SharedType'
      BY <2>2 DEF request_stop, TypeOK, SharedType
    <2> QED BY <2>1, <2>3 DEF TypeOK
  <1>11. CASE PollFails
    <2> USE <1>11
    <2>1. HistoryType' /\ WorkerType'
      BY KeepTypes DEF PollFails
    <2>2. SharedType'
      BY DEF PollFails, TypeOK, SharedType
    <2>3. GatewayType'
      BY ZenonT(30) DEF PollFails, TypeOK, GatewayType, loop_vars
    <2> QED BY <2>1, <2>2, <2>3 DEF TypeOK
  <1>12. ASSUME NEW reported \in SUBSET PollEvents, Poll(reported) PROVE TypeOK'
    <2> USE <1>12
    <2>1. HistoryType' /\ WorkerType'
      BY KeepTypes, ZenonT(30) DEF Poll
    <2>2. wakeup' \in BOOLEAN /\ after' \in {"check", "clients"} /\ gateway' \in {"top", "clients"}
      BY Zenon DEF Poll, TypeOK, SharedType, GatewayType
    <2>3. SharedType'
      BY <2>2, ZenonT(30) DEF Poll, TypeOK, SharedType
    <2>4. events' \subseteq Connections \X {"in", "out", "hup"} /\ todo' \subseteq Connections
      <3>1. events' = reported /\ todo' = Present
        BY Zenon DEF Poll
      <3>2. Present \subseteq Connections
        BY DEF Present
      <3>3. PollEvents \subseteq Connections \X {"in", "out", "hup"}
        <4>1. \A d \in Present : \A e \in {"in", "out", "hup"} :
                 <<d, e>> \in Connections \X {"in", "out", "hup"}
          BY <3>2, Zenon
        <4>2. ASSUME NEW p \in PollEvents
              PROVE  \E d \in Present : p \in {<<d, "in">>, <<d, "out">>, <<d, "hup">>}
          BY ZenonT(30) DEF PollEvents
        <4> SUFFICES ASSUME NEW p \in PollEvents PROVE p \in Connections \X {"in", "out", "hup"}
          OBVIOUS
        <4>3. PICK d \in Present : p \in {<<d, "in">>, <<d, "out">>, <<d, "hup">>}
          BY <4>2
        <4> QED BY <4>1, <4>3, ZenonT(30)
      <3> QED BY <3>1, <3>2, <3>3
    <2>5. UNCHANGED <<connection, parsed, pending_requests, reads_paused, shutdown_started,
                      status, output>>
      BY Zenon DEF Poll
    <2>6. GatewayType'
      BY <2>2, <2>4, <2>5, Zenon DEF TypeOK, GatewayType
    <2> QED BY <2>1, <2>3, <2>6 DEF TypeOK
  <1>13. CASE UNCHANGED vars
    BY <1>13, KeepTypes DEF vars, TypeOK
  <1> QED BY <1>1, <1>2, <1>3, <1>4, <1>5, <1>6, <1>7, <1>8, <1>9, <1>10, <1>11, <1>12, <1>13
          DEF WorkerCode

-----------------------------------------------------------------------------
(* Reservations and termination *)

\* The steps that touch neither a queue nor the worker.
Quiet ==
    \/ drain_pending_requests \/ NextToAdmit \/ shutdown_complete \/ shutdown_complete_size
    \/ (\E c \in Connections : VisitClient(c)) \/ LoopBack \/ receive_from \/ Flush
    \/ PollFails \/ request_stop \/ \E reported \in SUBSET PollEvents : Poll(reported)

LEMMA QuietFrame ==
    ASSUME Quiet
    PROVE  /\ UNCHANGED <<in_flight, request_queue, request_closed, response_queue, response_closed>>
           /\ UNCHANGED <<worker, batch, failed, outcome, terminated>>
           /\ UNCHANGED <<admitted, executed, answered>>
  <1>1. CASE drain_pending_requests \/ NextToAdmit \/ shutdown_complete \/ LoopBack
    BY <1>1, Zenon DEF drain_pending_requests, NextToAdmit, shutdown_complete, LoopBack, shared,
                worker_vars, history
  <1>2. CASE shutdown_complete_size \/ receive_from \/ Flush
    BY <1>2, Zenon DEF shutdown_complete_size, receive_from, Flush, shared, worker_vars
  <1>3. ASSUME NEW c \in Connections, VisitClient(c)
        PROVE  UNCHANGED <<shared, worker_vars, terminated, history>>
    BY <1>3 DEF VisitClient
  <1>4. CASE PollFails \/ request_stop
    BY <1>4 DEF PollFails, request_stop, worker_vars, history
  <1>5. ASSUME NEW reported \in SUBSET PollEvents, Poll(reported)
        PROVE  /\ UNCHANGED <<in_flight, request_queue, request_closed, response_queue>>
               /\ UNCHANGED <<response_closed, worker_vars, terminated, history>>
    BY <1>5 DEF Poll
  <1> QED BY <1>1, <1>2, <1>3, <1>4, <1>5, ZenonT(30) DEF Quiet, shared, worker_vars, history

\* A step is quiet, or one of the others.
LEMMA NextCases ==
    ASSUME Next
    PROVE  \/ Quiet \/ begin_shutdown_if_requested \/ not_empty_notify
           \/ drain_engine_completions \/ admit
           \/ WorkerCode \/ SpuriousWakeup \/ UNCHANGED vars
  BY DEF Next, GatewayCode, Quiet, Returned

\* A step neither loses nor duplicates a reservation, nor does it terminate.
LEMMA ReservationStep ==
    ASSUME ExchangeAssumption, TypeOK, NeverTerminates, ReservationsExact, WorkerInv, GatewayInv,
           Next
    PROVE  NeverTerminates' /\ ReservationsExact' /\ WorkerInv'
  <1>1. /\ request_queue \in Seq(Request) /\ Len(request_queue) \in Nat
        /\ response_queue \in Seq(Response) /\ Len(response_queue) \in Nat
        /\ batch \in Seq(Request) /\ Len(batch) \in Nat
        /\ in_flight \in 0..maximum_in_flight /\ maximum_in_flight \in Nat
        /\ in_flight = Len(request_queue) + Len(batch) + Len(response_queue)
    BY DEF TypeOK, SharedType, WorkerType, ExchangeAssumption, ReservationsExact
  <1>2. CASE Quiet \/ UNCHANGED vars
    <2>1. UNCHANGED <<in_flight, request_queue, request_closed, response_queue, response_closed,
                      worker, batch, terminated>>
      BY <1>2, QuietFrame DEF vars, shared, worker_vars
    <2> QED BY <2>1 DEF NeverTerminates, ReservationsExact, WorkerInv
  <1>3. CASE begin_shutdown_if_requested
    <2>1. /\ UNCHANGED <<in_flight, request_queue, response_queue, response_closed>>
          /\ UNCHANGED <<worker, batch, terminated>>
          /\ request_closed' = TRUE \/ request_closed' = request_closed
      BY <1>3 DEF begin_shutdown_if_requested, worker_vars
    <2> QED BY <2>1 DEF NeverTerminates, ReservationsExact, WorkerInv
  <1>4. CASE not_empty_notify \/ SpuriousWakeup
    <2>1. /\ UNCHANGED <<in_flight, request_queue, request_closed, response_queue, response_closed>>
          /\ UNCHANGED <<batch, terminated>>
          /\ worker' = worker \/ (worker = "blocked" /\ worker' = "wait")
      BY <1>4, ZenonT(30) DEF not_empty_notify, SpuriousWakeup, shared
    <2> QED BY <2>1 DEF NeverTerminates, ReservationsExact, WorkerInv
  <1>5. CASE drain_engine_completions
    <2> USE <1>5
    <2>1. UNCHANGED <<request_queue, request_closed, response_closed, worker, batch>>
      BY DEF drain_engine_completions, worker_vars
    <2>2. CASE response_queue = <<>>
      <3>1. UNCHANGED <<in_flight, response_queue, terminated>>
        BY <2>2 DEF drain_engine_completions
      <3> QED BY <2>1, <3>1 DEF NeverTerminates, ReservationsExact, WorkerInv
    <2>3. CASE response_queue # <<>>
      <3> USE <2>3
      <3>1. Len(response_queue) # 0 /\ Len(Tail(response_queue)) = Len(response_queue) - 1
        BY <1>1, HeadAndTail
      <3>2. response_queue' = Tail(response_queue) /\ Release
        BY DEF drain_engine_completions
      <3>3. in_flight # 0
        BY <1>1, <3>1
      <3>4. in_flight' = in_flight - 1 /\ terminated' = terminated
        BY <3>2, <3>3 DEF Release
      <3>5. ReservationsExact'
        BY <1>1, <2>1, <3>1, <3>2, <3>4 DEF ReservationsExact
      <3> QED BY <2>1, <3>4, <3>5 DEF NeverTerminates, WorkerInv
    <2> QED BY <2>2, <2>3
  <1>6. CASE admit
    <2> USE <1>6
    <2>1. UNCHANGED <<request_closed, response_queue, response_closed, worker, batch, terminated>>
      BY DEF admit, worker_vars
    <2>2. CASE NoRoom
      <3>1. UNCHANGED <<in_flight, request_queue>>
        BY <2>2 DEF admit
      <3> QED BY <2>1, <3>1 DEF NeverTerminates, ReservationsExact, WorkerInv
    <2>3. CASE ~NoRoom
      <3> USE <2>3
      <3>1. PICK r : in_flight' = in_flight + 1 /\ request_queue' = Append(request_queue, r)
        BY DEF admit
      <3>2. Len(Append(request_queue, r)) = Len(request_queue) + 1
        BY <1>1
      <3>3. ~request_closed
        BY DEF NoRoom, CannotPush
      <3>4. ReservationsExact'
        BY <1>1, <2>1, <3>1, <3>2 DEF ReservationsExact
      <3> QED BY <2>1, <3>3, <3>4 DEF NeverTerminates, WorkerInv
    <2> QED BY <2>2, <2>3
  <1>7. CASE wait_pop
    <2> USE <1>7
    <2>1. UNCHANGED <<in_flight, request_closed, response_queue, response_closed, terminated>>
      BY DEF wait_pop
    <2>2. batch = <<>> /\ Len(batch) = 0 /\ worker = "wait" /\ ~response_closed
      BY DEF wait_pop, WorkerInv
    <2>3. CASE request_queue = <<>>
      <3> USE <2>3
      <3>1. /\ UNCHANGED <<request_queue, batch>>
            /\ (worker' = "close" /\ request_closed) \/ worker' = "blocked"
        BY DEF wait_pop
      <3> QED BY <2>1, <2>2, <3>1 DEF NeverTerminates, ReservationsExact, WorkerInv
    <2>4. CASE request_queue # <<>>
      <3> USE <2>4
      <3>1. /\ batch' = <<Head(request_queue)>> /\ request_queue' = Tail(request_queue)
            /\ worker' \in {"publish", "reserve"}
        BY DEF wait_pop
      <3>2. Len(Tail(request_queue)) = Len(request_queue) - 1
        BY <1>1, HeadAndTail
      <3>3. Len(batch') = 1 /\ batch' # <<>>
        BY <3>1
      <3>4. ReservationsExact'
        BY <1>1, <2>1, <2>2, <3>1, <3>2, <3>3 DEF ReservationsExact
      <3> QED BY <2>1, <2>2, <3>1, <3>3, <3>4 DEF NeverTerminates, WorkerInv
    <2> QED BY <2>3, <2>4
  <1>8. CASE Reserve
    <2> USE <1>8
    <2>1. UNCHANGED <<request_queue, request_closed, response_queue, response_closed>>
      BY DEF Reserve
    <2>2. worker = "reserve" /\ Len(batch) = 1 /\ ~response_closed
      BY DEF Reserve, WorkerInv
    <2>3. batch # <<>>
      BY <2>2
    <2>4. CASE worker' = "drain" /\ UNCHANGED <<batch, failed, in_flight, terminated>>
      BY <2>1, <2>2, <2>4, <2>3 DEF NeverTerminates, ReservationsExact, WorkerInv
    <2>5. CASE batch' = <<>> /\ Release /\ worker' = "fail"
      <3> USE <2>5
      <3>1. in_flight # 0 /\ Len(batch') = 0
        BY <1>1, <2>2
      <3>2. in_flight' = in_flight - 1 /\ terminated' = terminated
        BY <3>1 DEF Release
      <3>3. ReservationsExact'
        <4>1. Len(request_queue') = Len(request_queue) /\ Len(response_queue') = Len(response_queue)
          BY <2>1
        <4>2. in_flight' = Len(request_queue) + Len(response_queue)
          <5>1. \A a, b, c \in Nat : b = 1 => (a + b + c) - 1 = a + c
            OBVIOUS
          <5>2. in_flight' = in_flight - 1 /\ Len(batch) = 1
            BY <2>2, <3>2
          <5> QED BY <1>1, <5>1, <5>2
        <4> QED BY <1>1, <3>1, <4>1, <4>2 DEF ReservationsExact
      <3> QED BY <2>1, <2>2, <3>2, <3>3 DEF NeverTerminates, WorkerInv
    <2> QED BY <2>4, <2>5 DEF Reserve
  <1>9. CASE Drain
    <2> USE <1>9
    <2>1. UNCHANGED <<in_flight, request_closed, response_queue, response_closed, terminated>>
      BY DEF Drain
    <2>2. batch # <<>> /\ worker = "drain" /\ ~response_closed
      BY DEF Drain, WorkerInv
    <2>3. CASE Len(batch) < max_durable_batch_size /\ request_queue # <<>>
      <3> USE <2>3
      <3>1. /\ batch' = Append(batch, Head(request_queue)) /\ worker' = "drain"
            /\ request_queue' = Tail(request_queue)
        BY DEF Drain
      <3>2. /\ Len(Tail(request_queue)) = Len(request_queue) - 1
            /\ Head(request_queue) \in Request
        BY <1>1, HeadAndTail
      <3>3. Len(batch') = Len(batch) + 1 /\ batch' # <<>>
        BY <1>1, <3>1, <3>2, Appended
      <3>4. ReservationsExact'
        <4>1. /\ Len(request_queue') = Len(request_queue) - 1 /\ in_flight' = in_flight
              /\ Len(response_queue') = Len(response_queue)
          BY <2>1, <3>1, <3>2
        <4> QED BY <1>1, <3>3, <4>1 DEF ReservationsExact
      <3> QED BY <2>1, <2>2, <3>1, <3>3, <3>4 DEF NeverTerminates, WorkerInv
    <2>4. CASE ~(Len(batch) < max_durable_batch_size /\ request_queue # <<>>)
      <3>1. UNCHANGED <<batch, request_queue>> /\ worker' = "execute"
        BY <2>4 DEF Drain
      <3> QED BY <2>1, <2>2, <3>1 DEF NeverTerminates, ReservationsExact, WorkerInv
    <2> QED BY <2>3, <2>4
  <1>10. CASE execute_and_publish_batch
    <2>1. /\ UNCHANGED <<in_flight, request_queue, request_closed, response_queue, response_closed>>
          /\ UNCHANGED <<batch, terminated>>
          /\ worker = "execute" /\ worker' \in {"publish", "fail"}
      BY <1>10, ZenonT(30) DEF execute_and_publish_batch, shared
    <2> QED BY <2>1 DEF NeverTerminates, ReservationsExact, WorkerInv
  <1>11. CASE enter_fail_stop
    <2>1. /\ UNCHANGED <<in_flight, request_queue, request_closed, response_queue, response_closed>>
          /\ UNCHANGED <<batch, terminated>>
          /\ worker \in {"fail", "fail_stop", "fail_wake"}
          /\ \/ worker' \in {"fail_stop", "fail_wake"}
             \/ worker' = "wait" /\ batch = <<>>
             \/ worker' = "publish" /\ batch # <<>>
      BY <1>11 DEF enter_fail_stop
    <2> QED BY <2>1 DEF NeverTerminates, ReservationsExact, WorkerInv
  <1>12. CASE publish
    <2> USE <1>12
    <2>1. UNCHANGED <<in_flight, request_queue, request_closed, response_closed>>
      BY DEF publish
    <2>2. batch # <<>> /\ worker = "publish" /\ ~response_closed
      BY DEF publish, WorkerInv
    <2>3. Len(batch) # 0 /\ Len(Tail(batch)) = Len(batch) - 1
      BY <1>1, <2>2, HeadAndTail
    <2>4. Len(response_queue) # maximum_in_flight
      BY <1>1, <2>3
    <2>5. PICK r : /\ response_queue' = Append(response_queue, r) /\ batch' = Tail(batch)
                   /\ worker' = "notify" /\ terminated' = terminated
      BY <2>2, <2>4 DEF publish
    <2>6. Len(Append(response_queue, r)) = Len(response_queue) + 1
      BY <1>1
    <2>7. ReservationsExact'
      BY <1>1, <2>1, <2>3, <2>5, <2>6 DEF ReservationsExact
    <2> QED BY <2>1, <2>2, <2>5, <2>7 DEF NeverTerminates, WorkerInv
  <1>13. CASE notify
    <2>1. /\ UNCHANGED <<in_flight, request_queue, request_closed, response_queue, response_closed>>
          /\ UNCHANGED <<batch, terminated>> /\ worker = "notify"
          /\ \/ worker' = "wait" /\ batch = <<>>
             \/ worker' = "publish" /\ batch # <<>>
      BY <1>13 DEF notify
    <2> QED BY <2>1 DEF NeverTerminates, ReservationsExact, WorkerInv
  <1>14. CASE CloseResponses
    <2>1. /\ UNCHANGED <<in_flight, request_queue, request_closed, response_queue, batch, terminated>>
          /\ \/ worker = "close" /\ worker' = "close_notify"
             \/ worker = "close_notify" /\ worker' = "done"
      BY <1>14 DEF CloseResponses
    <2> QED BY <2>1 DEF NeverTerminates, ReservationsExact, WorkerInv
  <1> QED BY <1>2, <1>3, <1>4, <1>5, <1>6, <1>7, <1>8, <1>9, <1>10, <1>11, <1>12, <1>13, <1>14,
             NextCases DEF WorkerCode

-----------------------------------------------------------------------------
(* The gateway thread *)

\* The steps of the other threads leave the locals of the gateway alone.
LEMMA OthersFrame ==
    ASSUME WorkerCode \/ SpuriousWakeup \/ request_stop \/ UNCHANGED vars
    PROVE  /\ UNCHANGED <<gateway, after, connection, parsed, events, todo>>
           /\ UNCHANGED <<pending_requests, reads_paused, shutdown_started, status, output>>
           /\ UNCHANGED <<request_closed, received, admitted, answered, delivered>>
           /\ response_closed' = response_closed \/ response_closed' = TRUE
  <1>1. CASE wait_pop \/ Reserve \/ Drain \/ publish \/ notify \/ CloseResponses
    BY <1>1, Zenon DEF wait_pop, Reserve, Drain, publish, notify, CloseResponses, gateway_vars,
                loop_vars, history
  <1>2. CASE execute_and_publish_batch \/ enter_fail_stop
    BY <1>2, Zenon DEF execute_and_publish_batch, enter_fail_stop, gateway_vars, loop_vars, history, shared
  <1>3. CASE SpuriousWakeup \/ request_stop \/ UNCHANGED vars
    BY <1>3, Zenon DEF SpuriousWakeup, request_stop, vars, gateway_vars, loop_vars, history, shared
  <1> QED BY <1>1, <1>2, <1>3, Zenon DEF WorkerCode

\* A refusal empties what was parsed and pauses the reads.
LEMMA RefuseGateway ==
    ASSUME ExchangeAssumption, TypeOK, GatewayInv, Refuse, gateway \in {"admit", "push"},
           UNCHANGED <<after, connection, shutdown_started, request_closed, response_closed>>
    PROVE  GatewayInv'
  <1>1. reads_paused' = TRUE
    BY DEF Refuse
  <1>2. CASE connection = NoConnection
    <2> USE <1>2
    <2>1. gateway' = after /\ UNCHANGED <<parsed, pending_requests, status>>
      BY DEF Refuse
    <2>2. parsed = <<>> /\ after \in {"check", "clients"}
      BY DEF GatewayInv, TypeOK, GatewayType
    <2> QED BY <1>1, <2>1, <2>2, Zenon DEF GatewayInv
  <1>3. CASE connection # NoConnection
    <2> USE <1>3
    <2>1. gateway' = "admit" /\ parsed' = <<>>
      BY DEF Refuse
    <2> QED BY <1>1, <2>1 DEF GatewayInv
  <1> QED BY <1>2, <1>3

\* Every step keeps the locals of the gateway consistent.
LEMMA GatewayStep ==
    ASSUME ExchangeAssumption, TypeOK, GatewayInv, Next
    PROVE  GatewayInv'
  <1>1. CASE WorkerCode \/ SpuriousWakeup \/ request_stop \/ UNCHANGED vars
    <2> USE <1>1
    <2>1. /\ UNCHANGED <<gateway, after, connection, parsed, pending_requests, reads_paused>>
          /\ UNCHANGED <<shutdown_started, status, request_closed>>
      BY OthersFrame, Zenon
    <2>2. response_closed => response_closed'
      BY OthersFrame, Zenon
    <2> QED BY <2>1, <2>2 DEF GatewayInv, Open
  <1>2. CASE begin_shutdown_if_requested
    <2> USE <1>2
    <2>1. CASE stop_requested /\ ~shutdown_started
      BY <2>1 DEF begin_shutdown_if_requested, GatewayInv, loop_vars, Open
    <2>2. CASE ~(stop_requested /\ ~shutdown_started)
      BY <2>2, Zenon DEF begin_shutdown_if_requested, GatewayInv, loop_vars, Open
    <2> QED BY <2>1, <2>2
  <1>3. CASE not_empty_notify
    BY <1>3, Zenon DEF not_empty_notify, GatewayInv, loop_vars, shared, Open
  <1>4. CASE drain_engine_completions
    <2>1. /\ gateway' \in {"completions", "pending"} /\ gateway = "completions"
          /\ UNCHANGED <<after, connection, parsed, pending_requests, reads_paused>>
          /\ UNCHANGED <<shutdown_started, request_closed, response_closed>>
      BY <1>4 DEF drain_engine_completions, loop_vars
    <2> QED BY <2>1, Zenon DEF GatewayInv
  <1>5. CASE drain_pending_requests
    BY <1>5, Zenon DEF drain_pending_requests, GatewayInv, TypeOK, GatewayType, loop_vars, shared, Open
  <1>6. CASE NextToAdmit
    <2> USE <1>6
    <2>1. /\ gateway = "admit"
          /\ UNCHANGED <<after, connection, shutdown_started, request_closed, response_closed>>
      BY Zenon DEF NextToAdmit, shared
    <2>2. after \in {"check", "clients"} /\ pending_requests \in Seq(Request)
      BY DEF TypeOK, GatewayType
    <2>3. CASE Refuse
      BY <2>1, <2>3, RefuseGateway
    <2>4. CASE AllAdmitted
      BY <2>1, <2>2, <2>4 DEF AllAdmitted, GatewayInv
    <2>5. CASE DropPending
      BY <2>1, <2>2, <2>5 DEF DropPending, GatewayInv
    <2>6. CASE Consumed
      BY <2>1, <2>6 DEF Consumed, GatewayInv
    <2>7. CASE PushNext
      BY <2>1, <2>7 DEF PushNext, Candidate, GatewayInv, Open
    <2> QED BY <2>3, <2>4, <2>5, <2>6, <2>7, AdmitCases
  <1>7. CASE admit
    <2> USE <1>7
    <2>1. /\ gateway = "push"
          /\ UNCHANGED <<after, connection, shutdown_started, request_closed, response_closed>>
      BY DEF admit
    <2>2. CASE NoRoom
      BY <2>1, <2>2, RefuseGateway DEF admit
    <2>3. CASE ~NoRoom
      <3> USE <2>3
      <3>1. gateway' = "push_notify" /\ UNCHANGED <<reads_paused, status>>
        BY DEF admit
      <3>2. CASE connection = NoConnection
        <4> USE <3>2
        <4>1. pending_requests' = Tail(pending_requests) /\ parsed' = parsed
          BY DEF admit, PopPending
        <4>2. pending_requests # <<>> /\ parsed = <<>>
          BY <2>1 DEF GatewayInv
        <4> QED BY <2>1, <3>1, <4>1, <4>2, Zenon DEF GatewayInv
      <3>3. CASE connection # NoConnection
        <4> USE <3>3
        <4>1. parsed' = Tail(parsed) /\ pending_requests' = pending_requests
          BY DEF admit
        <4>2. parsed # <<>> /\ parsed \in Seq(Request)
          BY <2>1, ZenonT(30) DEF GatewayInv, TypeOK, GatewayType
        <4>3. /\ Open(connection) /\ pending_requests = <<>>
              /\ \A i \in 1..Len(parsed) : parsed[i].connection = connection
          BY <4>2 DEF GatewayInv
        <4>4. \A i \in 1..Len(Tail(parsed)) : Tail(parsed)[i].connection = connection
          <5>1. ASSUME NEW i \in 1..Len(Tail(parsed))
                PROVE  i + 1 \in 1..Len(parsed) /\ Tail(parsed)[i] = parsed[i + 1]
            BY <4>2, HeadAndTail
          <5> QED BY <4>3, <5>1, Zenon
        <4> QED BY <2>1, <3>1, <4>1, <4>3, <4>4 DEF GatewayInv, Open
      <3> QED BY <3>2, <3>3
    <2> QED BY <2>2, <2>3
  <1>8. CASE shutdown_complete \/ LoopBack
    <2>1. /\ UNCHANGED <<connection, parsed, pending_requests, reads_paused, shutdown_started>>
          /\ UNCHANGED <<status, request_closed, response_closed>>
      BY <1>8, Zenon DEF shutdown_complete, LoopBack, loop_vars, shared
    <2>2. \/ /\ gateway = "check" /\ after' = after /\ gateway' \in {"check_size", "poll"}
             /\ gateway' = "check_size" => shutdown_started /\ response_closed
          \/ gateway = "clients" /\ gateway' = "top" /\ after' = "check"
      BY <1>8, Zenon DEF shutdown_complete, LoopBack, loop_vars
    <2> QED BY <2>1, <2>2 DEF GatewayInv, Open
  <1>9. CASE shutdown_complete_size
    BY <1>9, Zenon DEF shutdown_complete_size, GatewayInv, loop_vars, shared
  <1>10. ASSUME NEW c \in Connections, VisitClient(c) PROVE GatewayInv'
    BY <1>10, Zenon DEF VisitClient, GatewayInv, ExchangeAssumption, shared
  <1>11. CASE receive_from
    <2> USE <1>11
    <2>1. /\ gateway = "receive" /\ connection # NoConnection /\ parsed = <<>>
          /\ connection \in Connections
          /\ UNCHANGED <<after, connection, pending_requests, reads_paused, shutdown_started>>
          /\ UNCHANGED <<request_closed, response_closed>>
      BY Zenon DEF receive_from, GatewayInv, TypeOK, GatewayType, shared
    <2>2. CASE gateway' = "flush"
      <3> USE <2>2
      <3>1. parsed' = <<>>
        BY <2>1 DEF receive_from
      <3> QED BY <2>1, <3>1 DEF GatewayInv
    <2>3. CASE gateway' = "admit"
      <3> USE <2>3
      <3>1. PICK n \in received[connection]..MaxRequests[connection], bad \in BOOLEAN :
              /\ parsed' = RequestsOf(connection, received[connection], n)
              /\ status' = IF bad THEN [status EXCEPT ![connection] = "malformed"] ELSE status
              /\ Open(connection) /\ ~reads_paused
        BY DEF receive_from
      <3>2. received[connection] \in Nat /\ n \in Nat /\ received[connection] <= n
        BY <2>1, <3>1 DEF TypeOK, HistoryType, ExchangeAssumption
      <3>3. \A i \in 1..Len(parsed') : parsed'[i].connection = connection
        <4> DEFINE m == received[connection]
        <4>1. /\ Len(RequestsOf(connection, m, n)) = n - m
              /\ \A i \in 1..(n - m) :
                    RequestsOf(connection, m, n)[i] = [connection |-> connection, id |-> m + i]
          BY <2>1, <3>2, RequestsOfType, Zenon
        <4>2. parsed' = RequestsOf(connection, m, n)
          BY <3>1
        <4> HIDE DEF m
        <4>3. ASSUME NEW i \in 1..Len(parsed')
              PROVE  parsed'[i].connection = connection
          <5>1. parsed'[i] = [connection |-> connection, id |-> m + i]
            BY <4>1, <4>2
          <5> QED BY <5>1
        <4> QED BY <4>3
      <3>4. Open(connection)'
        BY <2>1, <3>1, Zenon DEF Open, TypeOK, GatewayType
      <3> QED BY <2>1, <3>1, <3>3, <3>4, Zenon DEF GatewayInv
    <2> QED BY <2>2, <2>3 DEF receive_from
  <1>12. CASE Flush
    <2>1. /\ gateway = "flush" /\ gateway' = "clients" /\ connection' = NoConnection
          /\ UNCHANGED <<after, parsed, pending_requests, reads_paused, shutdown_started>>
          /\ UNCHANGED <<request_closed, response_closed>>
      BY <1>12 DEF Flush, shared
    <2> QED BY <2>1 DEF GatewayInv
  <1>13. CASE PollFails
    BY <1>13, Zenon DEF PollFails, GatewayInv, loop_vars, Open
  <1>14. ASSUME NEW reported \in SUBSET PollEvents, Poll(reported) PROVE GatewayInv'
    BY <1>14, Zenon DEF Poll, GatewayInv, Open
  <1> QED BY <1>1, <1>2, <1>3, <1>4, <1>5, <1>6, <1>7, <1>8, <1>9, <1>10, <1>11, <1>12, <1>13,
             <1>14 DEF Next, GatewayCode, Returned

\* What a drained response does to the connections: nothing, or one of them gets
\* it or is closed.
LEMMA CompletionEffect ==
    ASSUME TypeOK, drain_engine_completions
    PROVE  \/ UNCHANGED <<status, output>>
           \/ /\ response_queue # <<>>
              /\ \E c \in Connections :
                    /\ Open(c) /\ c = Head(response_queue).request.connection
                    /\ \/ /\ Len(output[c]) < MaxOutput /\ status' = status
                          /\ output' = [output EXCEPT ![c] = Append(@, Head(response_queue))]
                       \/ /\ output' = [output EXCEPT ![c] = <<>>]
                          /\ status' = [status EXCEPT ![c] = "closing"]
  <1>1. CASE response_queue = <<>>
    BY <1>1, ZenonT(30) DEF drain_engine_completions
  <1>2. CASE response_queue # <<>>
    <2> USE <1>2
    <2> DEFINE c == Head(response_queue).request.connection
    <2>1. c \in Connections
      <3>1. response_queue \in Seq(Response)
        BY DEF TypeOK, SharedType
      <3>2. Head(response_queue) \in Response
        BY <3>1, HeadAndTail
      <3> QED BY <3>2 DEF Response, Request
    <2>2. IF Open(c) THEN queue_response(c, Head(response_queue)) ELSE UNCHANGED <<status, output>>
      BY DEF drain_engine_completions
    <2> HIDE DEF c
    <2> QED BY <2>1, <2>2, ZenonT(30) DEF queue_response, c
  <1> QED BY <1>1, <1>2

\* Every step keeps the descriptors still to visit right.
LEMMA TodoStep ==
    ASSUME ExchangeAssumption, TypeOK, GatewayInv, TodoInv, Next
    PROVE  TodoInv'
  <1>1. CASE WorkerCode \/ SpuriousWakeup \/ request_stop \/ UNCHANGED vars
    BY <1>1, OthersFrame, Zenon DEF TodoInv, Present
  <1>2. CASE begin_shutdown_if_requested
    BY <1>2 DEF begin_shutdown_if_requested, TodoInv, Present, loop_vars
  <1>3. CASE not_empty_notify
    BY <1>3 DEF not_empty_notify, TodoInv, Present, loop_vars
  <1>4. CASE drain_engine_completions
    <2> USE <1>4
    <2>1. /\ gateway = "completions" /\ gateway' \in {"completions", "pending"}
          /\ UNCHANGED <<after, connection, todo>>
      BY DEF drain_engine_completions, loop_vars
    <2>2. Present' \subseteq Present
      <3>1. CASE UNCHANGED <<status, output>>
        BY <3>1 DEF Present
      <3>2. ASSUME NEW c \in Connections, Open(c), status' = [status EXCEPT ![c] = "closing"]
            PROVE  Present' \subseteq Present
        BY <3>2 DEF Present, Open, TypeOK, GatewayType
      <3> QED BY <3>1, <3>2, CompletionEffect DEF Present
    <2> QED BY <2>1, <2>2 DEF TodoInv
  <1>5. CASE drain_pending_requests
    BY <1>5 DEF drain_pending_requests, TodoInv, Present, loop_vars, TypeOK, GatewayType
  <1>6. CASE NextToAdmit \/ admit
    <2> USE <1>6
    <2>1. gateway \in {"admit", "push"} /\ UNCHANGED <<after, connection, todo>>
      BY Zenon DEF NextToAdmit, admit
    <2>2. ASSUME connection = NoConnection PROVE status' = status
      <3> USE <2>2
      <3>1. CASE admit
        BY <3>1 DEF admit, Refuse
      <3>2. CASE NextToAdmit
        BY <3>2, AdmitCases, Zenon DEF AllAdmitted, DropPending, Consumed, PushNext, Refuse
      <3> QED BY <3>1, <3>2
    <2> QED BY <2>1, <2>2 DEF TodoInv, Present
  <1>7. CASE shutdown_complete
    BY <1>7 DEF shutdown_complete, TodoInv, Present, loop_vars
  <1>8. CASE shutdown_complete_size
    <2>1. /\ gateway = "check_size" /\ gateway' \in {"done", "poll"}
          /\ UNCHANGED <<after, connection, todo>>
      BY <1>8 DEF shutdown_complete_size, loop_vars
    <2>2. after = "check"
      BY <2>1 DEF GatewayInv
    <2> QED BY <2>1, <2>2 DEF TodoInv
  <1>9. ASSUME NEW c \in Connections, VisitClient(c) PROVE TodoInv'
    BY <1>9 DEF VisitClient, TodoInv, ExchangeAssumption
  <1>10. CASE LoopBack
    BY <1>10 DEF LoopBack, TodoInv
  <1>11. CASE receive_from
    <2>1. connection' = connection /\ connection # NoConnection
      BY <1>11 DEF receive_from, GatewayInv
    <2> QED BY <2>1 DEF TodoInv
  <1>12. CASE Flush
    BY <1>12 DEF Flush, TodoInv
  <1>13. CASE PollFails
    BY <1>13 DEF PollFails, TodoInv, GatewayInv, loop_vars
  <1>14. ASSUME NEW reported \in SUBSET PollEvents, Poll(reported) PROVE TodoInv'
    BY <1>14 DEF Poll, TodoInv, Present
  <1> QED BY <1>1, <1>2, <1>3, <1>4, <1>5, <1>6, <1>7, <1>8, <1>9, <1>10, <1>11, <1>12, <1>13,
             <1>14 DEF Next, GatewayCode, Returned

-----------------------------------------------------------------------------
(* Wakeups *)

\* Only poll takes a signal back.
LEMMA SignalKept ==
    ASSUME Signalled, Next PROVE Signalled' \/ (wakeup /\ gateway' = "top" /\ after' = "clients")
  <1>1. CASE Quiet
    <2> USE <1>1
    <2>1. worker' = worker
      BY QuietFrame
    <2>2. CASE \/ drain_pending_requests \/ NextToAdmit \/ shutdown_complete
               \/ shutdown_complete_size \/ LoopBack \/ receive_from \/ Flush
      BY <2>1, <2>2, Zenon DEF Signalled, drain_pending_requests, NextToAdmit, shutdown_complete,
                   shutdown_complete_size, LoopBack, receive_from, Flush, shared
    <2>3. ASSUME NEW c \in Connections, VisitClient(c) PROVE Signalled'
      BY <2>1, <2>3 DEF Signalled, VisitClient, shared
    <2>4. CASE PollFails \/ request_stop
      BY <2>1, <2>4 DEF Signalled, PollFails, request_stop
    <2>5. ASSUME NEW reported \in SUBSET PollEvents, Poll(reported)
          PROVE  Signalled' \/ (wakeup /\ gateway' = "top" /\ after' = "clients")
      BY <2>1, <2>5 DEF Signalled, Poll
    <2> QED BY <2>2, <2>3, <2>4, <2>5 DEF Quiet
  <1>2. CASE begin_shutdown_if_requested \/ not_empty_notify \/ drain_engine_completions \/ admit
    BY <1>2, Zenon DEF Signalled, begin_shutdown_if_requested, not_empty_notify,
                drain_engine_completions, admit, worker_vars, shared
  <1>3. CASE WorkerCode
    BY <1>3, Zenon DEF Signalled, WorkerCode, wait_pop, Reserve, Drain, execute_and_publish_batch,
                enter_fail_stop, publish, notify, CloseResponses, shared
  <1>4. CASE SpuriousWakeup \/ UNCHANGED vars
    BY <1>4 DEF Signalled, SpuriousWakeup, vars, shared, worker_vars
  <1> QED BY <1>1, <1>2, <1>3, <1>4, NextCases

\* No response is left without a signal.
LEMMA WakeResponsesStep ==
    ASSUME ExchangeAssumption, TypeOK, NeverTerminates, ReservationsExact, WorkerInv, GatewayInv,
           WakeInv, Next
    PROVE  WakeResponses'
  <1>1. CASE publish
    <2>1. NeverTerminates'
      BY ReservationStep
    <2> QED BY <1>1, <2>1 DEF publish, NeverTerminates, WakeResponses, Signalled
  <1>2. CASE (WorkerCode /\ ~publish) \/ SpuriousWakeup \/ request_stop \/ UNCHANGED vars
    <2>1. UNCHANGED <<gateway, after, response_queue>>
      BY <1>2, OthersFrame, Zenon DEF WorkerCode, wait_pop, Reserve, Drain, execute_and_publish_batch,
             enter_fail_stop, notify, CloseResponses, SpuriousWakeup, request_stop, vars, shared
    <2>2. Signalled => Signalled' \/ (gateway' = "top" /\ after' = "clients")
      BY SignalKept
    <2> QED BY <2>1, <2>2 DEF WakeInv, WakeResponses
  <1>3. CASE drain_engine_completions
    <2> USE <1>3
    <2>1. CASE response_queue = <<>>
      BY <2>1 DEF drain_engine_completions, WakeResponses
    <2>2. CASE response_queue # <<>>
      BY <2>2 DEF drain_engine_completions, WakeInv, WakeResponses, Signalled, loop_vars,
                        worker_vars
    <2> QED BY <2>1, <2>2
  <1>4. CASE begin_shutdown_if_requested
    BY <1>4 DEF begin_shutdown_if_requested, WakeInv, WakeResponses, Signalled, loop_vars,
                worker_vars
  <1>5. CASE not_empty_notify
    BY <1>5 DEF not_empty_notify, WakeInv, WakeResponses, Signalled, loop_vars, shared
  <1>6. CASE admit
    BY <1>6 DEF admit, WakeInv, WakeResponses, Signalled, worker_vars
  <1>7. CASE Quiet /\ ~request_stop
    <2> USE <1>7
    <2>1. response_queue' = response_queue
      BY QuietFrame
    <2>2. gateway \notin {"top", "close_notify", "completions", "done"}
      BY Zenon DEF Quiet, drain_pending_requests, NextToAdmit, shutdown_complete,
                  shutdown_complete_size, VisitClient, LoopBack, receive_from, Flush, PollFails,
                  Poll
    <2>3. Signalled => Signalled' \/ (gateway' = "top" /\ after' = "clients")
      BY SignalKept
    <2> QED BY <2>1, <2>2, <2>3 DEF WakeInv, WakeResponses
  <1> QED BY <1>1, <1>2, <1>3, <1>4, <1>5, <1>6, <1>7, NextCases

\* No stop is left without a signal.
LEMMA WakeStopStep ==
    ASSUME WakeStop, Next PROVE WakeStop'
  <1>1. CASE WorkerCode
    BY <1>1, Zenon DEF WakeStop, WorkerCode, wait_pop, Reserve, Drain, execute_and_publish_batch,
                enter_fail_stop, publish, notify, CloseResponses, shared, gateway_vars
  <1>2. CASE SpuriousWakeup \/ request_stop \/ UNCHANGED vars
    BY <1>2, Zenon DEF WakeStop, SpuriousWakeup, request_stop, vars, shared, gateway_vars, worker_vars
  <1>3. CASE begin_shutdown_if_requested
    BY <1>3 DEF begin_shutdown_if_requested, WakeStop, worker_vars
  <1>4. CASE not_empty_notify
    BY <1>4 DEF not_empty_notify, WakeStop, shared
  <1>5. CASE drain_engine_completions
    BY <1>5 DEF drain_engine_completions, WakeStop, worker_vars
  <1>6. CASE admit
    BY <1>6 DEF admit, WakeStop, worker_vars
  <1>7. CASE drain_pending_requests \/ NextToAdmit \/ shutdown_complete \/ shutdown_complete_size
    BY <1>7, Zenon DEF drain_pending_requests, NextToAdmit, shutdown_complete, shutdown_complete_size,
                WakeStop, worker_vars, shared
  <1>8. CASE LoopBack \/ receive_from \/ Flush \/ PollFails
    BY <1>8, Zenon DEF LoopBack, receive_from, Flush, PollFails, WakeStop, worker_vars, shared
  <1>9. ASSUME NEW c \in Connections, VisitClient(c) PROVE WakeStop'
    BY <1>9 DEF VisitClient, WakeStop, worker_vars, shared
  <1>10. ASSUME NEW reported \in SUBSET PollEvents, Poll(reported) PROVE WakeStop'
    BY <1>10 DEF Poll, WakeStop, worker_vars
  <1> QED BY <1>1, <1>2, <1>3, <1>4, <1>5, <1>6, <1>7, <1>8, <1>9, <1>10, NextCases DEF Quiet

\* The gateway does not sleep through the end of the worker.
LEMMA WakeEndStep ==
    ASSUME TypeOK, GatewayInv, WorkerInv, WakeInv, Next PROVE WakeEnd'
  <1>1. CASE gateway' # "poll"
    BY <1>1 DEF WakeEnd
  <1>2. CASE gateway' = "poll" /\ gateway # "poll"
    <2> USE <1>2
    <2>1. CASE shutdown_complete
      BY <2>1 DEF shutdown_complete, WakeEnd, shared
    <2>2. CASE shutdown_complete_size
      <3>1. response_queue # <<>> /\ gateway = "check_size" /\ UNCHANGED <<wakeup, worker>>
        BY <2>2 DEF shutdown_complete_size, shared, worker_vars
      <3>2. worker \in {"close_notify", "done"}
        BY <3>1 DEF GatewayInv, WorkerInv
      <3>3. wakeup
        BY <3>1, <3>2 DEF WakeInv, WakeResponses, Signalled
      <3> QED BY <3>1, <3>3 DEF WakeEnd
    <2>3. shutdown_complete \/ shutdown_complete_size
      <3>1. CASE WorkerCode \/ SpuriousWakeup \/ request_stop \/ UNCHANGED vars
        BY <3>1, OthersFrame, Zenon
      <3>2. CASE \/ begin_shutdown_if_requested \/ not_empty_notify \/ drain_engine_completions
                 \/ admit \/ NextToAdmit \/ LoopBack \/ receive_from \/ Flush \/ PollFails
                 \/ drain_pending_requests \/ (\E c \in Connections : VisitClient(c))
                 \/ (\E reported \in SUBSET PollEvents : Poll(reported))
        <4>1. gateway' = after \/ gateway' = gateway
              \/ gateway' \in {"close_notify", "completions", "admit", "pending", "clients", "push",
                               "push_notify", "receive", "flush", "top"}
          BY <3>2, Zenon DEF begin_shutdown_if_requested, not_empty_notify,
             drain_engine_completions, admit, NextToAdmit, Refuse, LoopBack, receive_from, Flush,
             PollFails, drain_pending_requests, VisitClient, Poll
        <4> QED BY <4>1 DEF TypeOK, GatewayType
      <3> QED BY <3>1, <3>2, NextCases DEF Quiet
    <2> QED BY <2>1, <2>2, <2>3
  <1>3. CASE gateway' = "poll" /\ gateway = "poll"
    <2> USE <1>3
    <2>1. WorkerCode \/ SpuriousWakeup \/ request_stop \/ UNCHANGED vars
      BY NextCases, Zenon DEF Quiet, begin_shutdown_if_requested, not_empty_notify,
         drain_engine_completions, admit, NextToAdmit, LoopBack, receive_from, Flush, PollFails,
         drain_pending_requests, VisitClient, Poll, shutdown_complete, shutdown_complete_size
    <2>2. shutdown_started' = shutdown_started
      BY <2>1, OthersFrame, Zenon
    <2>3. CASE WorkerCode
      BY <2>2, <2>3, Zenon DEF WakeInv, WakeEnd, WorkerInv, WorkerCode, wait_pop, Reserve, Drain,
         execute_and_publish_batch, enter_fail_stop, publish, notify, CloseResponses, shared
    <2>4. CASE SpuriousWakeup \/ request_stop \/ UNCHANGED vars
      BY <2>2, <2>4, Zenon DEF WakeInv, WakeEnd, SpuriousWakeup, request_stop, vars, shared,
         worker_vars
    <2> QED BY <2>1, <2>3, <2>4
  <1> QED BY <1>1, <1>2, <1>3

\* A waiting worker is notified of what it waits for.
LEMMA WakeWorkerStep ==
    ASSUME TypeOK, GatewayInv, WakeWorker, Next PROVE WakeWorker'
  <1>1. CASE WorkerCode
    <2> USE <1>1
    <2>1. UNCHANGED <<gateway, request_closed>>
      BY OthersFrame
    <2> QED BY <2>1, Zenon DEF WakeWorker, WorkerCode, wait_pop, Reserve, Drain,
               execute_and_publish_batch, enter_fail_stop, publish, notify, CloseResponses
  <1>2. CASE SpuriousWakeup
    BY <1>2 DEF WakeWorker, SpuriousWakeup
  <1>3. CASE request_stop \/ UNCHANGED vars
    BY <1>3 DEF WakeWorker, request_stop, vars, shared, worker_vars, gateway_vars
  <1>4. CASE begin_shutdown_if_requested
    BY <1>4 DEF begin_shutdown_if_requested, WakeWorker, worker_vars
  <1>5. CASE not_empty_notify
    BY <1>5 DEF not_empty_notify, WakeWorker
  <1>6. CASE admit
    <2> USE <1>6
    <2>1. worker' = worker /\ request_closed' = request_closed /\ gateway = "push"
      BY DEF admit, worker_vars
    <2>2. CASE NoRoom
      BY <2>1, <2>2 DEF admit, WakeWorker
    <2>3. CASE ~NoRoom
      BY <2>1, <2>3 DEF admit, WakeWorker
    <2> QED BY <2>2, <2>3
  <1>7. CASE (Quiet /\ ~request_stop) \/ drain_engine_completions
    <2> USE <1>7
    <2>1. UNCHANGED <<worker, request_queue, request_closed>>
      BY QuietFrame DEF drain_engine_completions, worker_vars
    <2>2. gateway \notin {"push_notify", "close_notify"}
      BY Zenon DEF Quiet, drain_pending_requests, NextToAdmit, shutdown_complete,
                  shutdown_complete_size, VisitClient, LoopBack, receive_from, Flush, PollFails,
                  Poll, drain_engine_completions
    <2> QED BY <2>1, <2>2 DEF WakeWorker
  <1> QED BY <1>1, <1>2, <1>3, <1>4, <1>5, <1>6, <1>7, NextCases

\* A connection that has to be closed is signalled or will be visited.
LEMMA WakeClosingStep ==
    ASSUME ExchangeAssumption, TypeOK, GatewayInv, TodoInv, WakeInv, Next PROVE WakeClosing'
  <1>1. SUFFICES ASSUME NEW c \in Connections, status'[c] = "closing", output'[c] = <<>>, ~Signalled'
                 PROVE  c \in todo' \/ c = connection'
    BY DEF WakeClosing
  <1>2. ASSUME status[c] = "closing", output[c] = <<>>, ~Signalled
        PROVE  c \in todo \/ c = connection
    BY <1>2 DEF WakeInv, WakeClosing
  <1>3. /\ status \in [Connections -> {"open", "malformed", "closing", "gone"}]
        /\ output \in [Connections -> Seq(Response)]
        /\ connection \in Connections \cup {NoConnection}
    BY DEF TypeOK, GatewayType
  <1>4. ASSUME gateway' # "top" \/ after' # "clients" PROVE ~Signalled
    BY <1>1, <1>4, SignalKept
  <1>5. CASE WorkerCode \/ SpuriousWakeup \/ request_stop \/ UNCHANGED vars
    <2> USE <1>5
    <2>1. UNCHANGED <<gateway, after, connection, todo, status, output>>
      BY OthersFrame, Zenon
    <2>2. ~Signalled
      <3>1. CASE UNCHANGED wakeup
        <4> USE <3>1
        <4>1. CASE worker = "notify"
          BY <1>1, <4>1, Zenon DEF Signalled, WorkerCode, wait_pop, Reserve, Drain,
             execute_and_publish_batch, enter_fail_stop, publish, notify, CloseResponses,
             SpuriousWakeup, request_stop, vars, worker_vars
        <4>2. CASE worker # "notify"
          BY <1>1, <4>2 DEF Signalled
        <4> QED BY <4>1, <4>2
      <3>2. CASE wakeup' # wakeup
        BY <1>1, <3>2, Zenon DEF Signalled, WorkerCode, wait_pop, Reserve, Drain,
             execute_and_publish_batch, enter_fail_stop, publish, notify, CloseResponses,
             SpuriousWakeup, request_stop, vars, shared
      <3> QED BY <3>1, <3>2
    <2> QED BY <1>1, <1>2, <2>1, <2>2
  <1>6. CASE begin_shutdown_if_requested
    BY <1>1, <1>2, <1>6, ZenonT(30) DEF begin_shutdown_if_requested, Signalled, worker_vars, loop_vars
  <1>7. CASE \/ not_empty_notify \/ drain_pending_requests \/ shutdown_complete
    <2> USE <1>7
    <2>1. UNCHANGED <<connection, todo, status, output>>
      BY DEF not_empty_notify, drain_pending_requests, shutdown_complete, loop_vars
    <2>2. gateway' # "top"
      BY Zenon DEF not_empty_notify, drain_pending_requests, shutdown_complete, TypeOK, GatewayType
    <2> QED BY <1>1, <1>2, <1>4, <2>1, <2>2, ZenonT(30)
  <1>8. CASE drain_engine_completions
    <2> USE <1>8
    <2>1. /\ gateway = "completions" /\ gateway' # "top" /\ connection = NoConnection
          /\ UNCHANGED <<after, connection, todo>>
      BY Zenon DEF drain_engine_completions, GatewayInv, loop_vars
    <2>2. ~Signalled
      BY <1>4, <2>1
    <2>3. CASE UNCHANGED <<status, output>>
      BY <1>1, <1>2, <2>1, <2>2, <2>3
    <2>4. ASSUME NEW d \in Connections, response_queue # <<>>, Open(d),
                 status' = [status EXCEPT ![d] = "closing"], output' = [output EXCEPT ![d] = <<>>]
          PROVE  c \in todo'
      <3> USE <2>4
      <3>1. after = "clients"
        BY <2>1, <2>2 DEF WakeInv, WakeResponses
      <3>2. Present \subseteq todo
        BY <2>1, <3>1 DEF TodoInv
      <3>3. c \in Present
        BY <1>1, <1>3 DEF Open, Present
      <3> QED BY <2>1, <3>2, <3>3
    <2>5. ASSUME NEW d \in Connections, Open(d), status' = status,
                 output' = [output EXCEPT ![d] = Append(@, Head(response_queue))]
          PROVE  c \in todo' \/ c = connection'
      <3> USE <2>5
      <3>1. c # d
        BY <1>1 DEF Open
      <3>2. status[c] = "closing" /\ output[c] = <<>>
        BY <1>1, <1>3, <3>1
      <3> QED BY <1>2, <2>1, <2>2, <3>2
    <2> QED BY <2>3, <2>4, <2>5, CompletionEffect
  <1>9. CASE NextToAdmit \/ admit
    <2> USE <1>9
    <2>1. /\ UNCHANGED <<connection, todo, output>> /\ gateway \in {"admit", "push"}
      BY Zenon DEF NextToAdmit, admit
    <2>2. status' = status \/ (status' = [status EXCEPT ![connection] = "closing"])
      <3>1. CASE Refuse
        BY <3>1 DEF Refuse
      <3>2. CASE ~Refuse
        BY <3>2, AdmitCases, Zenon DEF admit, AllAdmitted, DropPending, Consumed, PushNext
      <3> QED BY <3>1, <3>2
    <2>3. ~Signalled
      <3>1. UNCHANGED <<wakeup, worker>>
        BY Zenon DEF NextToAdmit, admit, shared, worker_vars
      <3> QED BY <1>1, <3>1 DEF Signalled
    <2> QED BY <1>1, <1>2, <1>3, <2>1, <2>2, <2>3
  <1>10. CASE shutdown_complete_size
    <2>1. status' # [d \in Connections |-> "gone"]
      BY <1>1
    <2>2. UNCHANGED <<status, output, connection, todo>> /\ gateway' = "poll"
      BY <1>10, <2>1 DEF shutdown_complete_size, loop_vars
    <2> QED BY <1>1, <1>2, <1>4, <2>2
  <1>11. ASSUME NEW d \in Connections, VisitClient(d) PROVE c \in todo' \/ c = connection'
    <2>1. /\ connection = NoConnection /\ connection' = d /\ todo' = todo \ {d}
          /\ gateway' # "top" /\ UNCHANGED <<status, output>>
      BY <1>11 DEF VisitClient, GatewayInv
    <2> QED BY <1>1, <1>2, <1>4, <2>1, Zenon DEF ExchangeAssumption
  <1>12. CASE LoopBack
    BY <1>1, <1>2, <1>4, <1>12, Zenon DEF LoopBack
  <1>13. CASE receive_from
    <2> USE <1>13
    <2>1. UNCHANGED <<connection, todo, output>> /\ gateway' # "top"
      BY DEF receive_from
    <2>2. CASE c = connection
      BY <2>1, <2>2
    <2>3. CASE c # connection
      <3>1. status'[c] = status[c]
        BY <1>3, <2>3 DEF receive_from
      <3> QED BY <1>1, <1>2, <1>4, <2>1, <3>1, Zenon
    <2> QED BY <2>2, <2>3
  <1>14. CASE Flush
    <2> USE <1>14
    <2>1. /\ connection \in Connections /\ todo' = todo /\ gateway' # "top"
      BY <1>3, Zenon DEF Flush, GatewayInv
    <2>2. PICK n \in 0..Len(output[connection]), fatal \in BOOLEAN :
            LET left == IF fatal THEN <<>>
                        ELSE SubSeq(output[connection], n + 1, Len(output[connection]))
                closes == fatal \/ ~Open(connection) \/ <<connection, "hup">> \in events
            IN  /\ status' = [status EXCEPT ![connection] =
                                 IF ~closes THEN @ ELSE IF left = <<>> THEN "gone" ELSE "closing"]
                /\ output' = [output EXCEPT ![connection] = left]
      BY Zenon DEF Flush
    <2> DEFINE left == IF fatal THEN <<>>
                       ELSE SubSeq(output[connection], n + 1, Len(output[connection]))
               closes == fatal \/ ~Open(connection) \/ <<connection, "hup">> \in events
    <2>3. /\ (closes \/ Open(connection))
          /\ status' = [status EXCEPT ![connection] =
                           IF ~closes THEN @ ELSE IF left = <<>> THEN "gone" ELSE "closing"]
          /\ output' = [output EXCEPT ![connection] = left]
      BY <2>2
    <2> HIDE DEF left, closes
    <2>4. c # connection
      <3>1. SUFFICES ASSUME c = connection PROVE FALSE
        OBVIOUS
      <3>2. left = <<>>
        BY <1>1, <1>3, <2>1, <2>3, <3>1
      <3>3. status'[c] = "gone" \/ (status'[c] = status[c] /\ Open(c))
        BY <1>3, <2>1, <2>3, <3>1, <3>2
      <3> QED BY <1>1, <3>3, ZenonT(30) DEF Open
    <2>5. status'[c] = status[c] /\ output'[c] = output[c]
      BY <1>3, <2>4, <2>3
    <2> QED BY <1>1, <1>2, <1>4, <2>1, <2>4, <2>5, Zenon
  <1>15. CASE PollFails
    BY <1>1, <1>15, Zenon DEF PollFails, Signalled
  <1>16. ASSUME NEW reported \in SUBSET PollEvents, Poll(reported) PROVE c \in todo'
    BY <1>1, <1>16, Zenon DEF Poll, Present
  <1> QED BY <1>5, <1>6, <1>7, <1>8, <1>9, <1>10, <1>11, <1>12, <1>13, <1>14, <1>15, <1>16,
             NextCases DEF Quiet

-----------------------------------------------------------------------------
(* Execution and fail-stop *)

\* What is not executed yet is the batch, or nothing.
LEMMA UnexecutedType ==
    ASSUME TypeOK
    PROVE  /\ Unexecuted \in Seq(Request) /\ Len(Unexecuted) \in Nat /\ Len(batch) \in Nat
           /\ worker \in {"publish", "notify"} => Unexecuted = <<>> /\ Len(Unexecuted) = 0
           /\ worker \notin {"publish", "notify"} => Unexecuted = batch
  <1>1. batch \in Seq(Request) /\ Len(batch) \in Nat /\ <<>> \in Seq(Request) /\ Len(<<>>) = 0
    BY DEF TypeOK, WorkerType
  <1> QED BY <1>1 DEF Unexecuted

\* What one step of the worker's own may change of the batch and its outcome.
LEMMA OutcomeStep ==
    ASSUME TypeOK, TypeOK', NeverTerminates', WorkerInv, WorkerInv', OutcomeInv, Next
    PROVE  OutcomeInv'
  <1>1. /\ Len(executed) \in Nat /\ Len(answered) \in Nat /\ Len(response_queue) \in Nat
        /\ Len(Unexecuted) \in Nat /\ Len(batch) \in Nat
        /\ answered \in Seq(Response) /\ response_queue \in Seq(Response)
        /\ batch \in Seq(Request) /\ executed \in Seq(Request)
    <2>1. /\ answered \in Seq(Response) /\ response_queue \in Seq(Response)
          /\ batch \in Seq(Request) /\ executed \in Seq(Request)
      BY DEF TypeOK, SharedType, HistoryType, WorkerType
    <2>2. Len(Unexecuted) \in Nat /\ Len(batch) \in Nat
      BY UnexecutedType
    <2> QED BY <2>1, <2>2
  <1>2. CASE Quiet \/ UNCHANGED vars \/ begin_shutdown_if_requested \/ admit
    <2>1. UNCHANGED <<worker, batch, failed, outcome, executed, answered, response_queue>>
      BY <1>2, QuietFrame, Zenon DEF vars, shared, worker_vars, history, begin_shutdown_if_requested, admit
    <2> QED BY <2>1, Zenon DEF OutcomeInv, Unexecuted
  <1>3. CASE not_empty_notify \/ SpuriousWakeup
    <2>1. /\ UNCHANGED <<batch, failed, outcome, executed, answered, response_queue>>
          /\ worker' = worker \/ (worker = "blocked" /\ worker' = "wait")
      BY <1>3 DEF not_empty_notify, SpuriousWakeup, shared, history
    <2> QED BY <2>1, Zenon DEF OutcomeInv, Unexecuted
  <1>4. CASE drain_engine_completions
    <2> USE <1>4
    <2>1. UNCHANGED <<worker, batch, failed, outcome, executed>>
      BY DEF drain_engine_completions, worker_vars
    <2>2. CASE response_queue = <<>>
      <3>1. UNCHANGED <<answered, response_queue>>
        BY <2>2 DEF drain_engine_completions
      <3> QED BY <2>1, <3>1, Zenon DEF OutcomeInv, Unexecuted
    <2>3. CASE response_queue # <<>>
      <3> USE <2>3
      <3> DEFINE h == Head(response_queue)
      <3>1. /\ answered' = Append(answered, h) /\ response_queue' = Tail(response_queue)
        BY DEF drain_engine_completions
      <3>2. /\ h \in Response /\ h = response_queue[1] /\ Len(response_queue) # 0
            /\ Len(response_queue') = Len(response_queue) - 1
            /\ \A i \in 1..Len(response_queue') : response_queue'[i] = response_queue[i + 1]
        BY <1>1, <3>1, HeadAndTail
      <3> HIDE DEF h
      <3>3. /\ Len(answered') = Len(answered) + 1
            /\ \A i \in 1..Len(answered) : answered'[i] = answered[i]
            /\ answered'[Len(answered) + 1] = h
        BY <1>1, <3>1, <3>2, Appended
      <3>4. ASSUME failed = "no"
            PROVE  /\ Len(answered') + Len(response_queue') = Len(answered) + Len(response_queue)
                   /\ \A i \in 1..Len(answered') : answered'[i].outcome = "result"
                   /\ \A i \in 1..Len(response_queue') : response_queue'[i].outcome = "result"
        <4>1. /\ \A i \in 1..Len(answered) : answered[i].outcome = "result"
              /\ \A i \in 1..Len(response_queue) : response_queue[i].outcome = "result"
          BY <3>4 DEF OutcomeInv
        <4>2. h.outcome = "result"
          BY <1>1, <3>2, <4>1
        <4>3. \A i \in 1..Len(answered') : i \in 1..Len(answered) \/ i = Len(answered) + 1
          BY <1>1, <3>3
        <4>4. \A i \in 1..Len(response_queue') : i + 1 \in 1..Len(response_queue)
          BY <1>1, <3>2
        <4>5. Len(answered') + Len(response_queue') = Len(answered) + Len(response_queue)
          BY <1>1, <3>2, <3>3
        <4>6. \A i \in 1..Len(answered') : answered'[i].outcome = "result"
          BY <3>3, <4>1, <4>2, <4>3
        <4>7. \A i \in 1..Len(response_queue') : response_queue'[i].outcome = "result"
          BY <3>2, <4>1, <4>4
        <4> QED BY <4>5, <4>6, <4>7
      <3>5. Unexecuted' = Unexecuted
        BY <2>1 DEF Unexecuted
      <3> QED BY <2>1, <3>4, <3>5, Zenon DEF OutcomeInv
    <2> QED BY <2>2, <2>3
  <1>5. CASE wait_pop
    <2> USE <1>5
    <2>1. UNCHANGED <<failed, outcome, executed, answered, response_queue>>
      BY DEF wait_pop, history
    <2>2. /\ worker = "wait" /\ batch = <<>> /\ Unexecuted = batch
          /\ Len(batch) = 0 /\ Len(Unexecuted) = 0
      BY DEF wait_pop, WorkerInv, Unexecuted
    <2>3. /\ worker' \in {"publish", "reserve", "close", "blocked"}
          /\ worker' = "publish" => failed = "unwound"
      BY DEF wait_pop
    <2>4. failed = "no" => Unexecuted' = batch' /\ Len(batch') \in Nat
      BY <2>3 DEF Unexecuted, TypeOK, WorkerType
    <2>5. ASSUME failed = "no"
          PROVE  Len(executed) + Len(Unexecuted') = Len(answered) + Len(response_queue) + Len(batch')
      <3> USE <2>5
      <3>1. Len(executed) + Len(Unexecuted) = Len(answered) + Len(response_queue) + Len(batch)
        BY DEF OutcomeInv
      <3>2. Len(executed) = Len(answered) + Len(response_queue)
        BY <1>1, <2>2, <3>1
      <3> QED BY <1>1, <2>4, <3>2
    <2> QED BY <2>1, <2>2, <2>3, <2>5 DEF OutcomeInv
  <1>6. CASE Reserve
    <2> USE <1>6
    <2>1. UNCHANGED <<outcome, executed, answered, response_queue>>
      BY DEF Reserve, history
    <2>2. CASE worker' = "drain" /\ UNCHANGED <<batch, failed>>
      BY <2>1, <2>2 DEF Reserve, OutcomeInv, Unexecuted
    <2>3. CASE failed' = "unwound" /\ worker' = "fail"
      BY <2>3 DEF OutcomeInv
    <2> QED BY <2>2, <2>3 DEF Reserve
  <1>7. CASE Drain
    <2>1. /\ UNCHANGED <<failed, outcome, executed, answered, response_queue>>
          /\ worker = "drain" /\ worker' \in {"drain", "execute"}
      BY <1>7 DEF Drain, history
    <2>2. Unexecuted = batch /\ Unexecuted' = batch' /\ Len(batch') \in Nat
      BY <2>1 DEF Unexecuted, TypeOK, WorkerType
    <2>3. ASSUME failed = "no"
          PROVE  Len(executed) + Len(Unexecuted') = Len(answered) + Len(response_queue) + Len(batch')
      <3>1. Len(executed) + Len(Unexecuted) = Len(answered) + Len(response_queue) + Len(batch)
        BY <2>3 DEF OutcomeInv
      <3>2. Len(executed) = Len(answered) + Len(response_queue)
        BY <1>1, <2>2, <3>1
      <3> QED BY <1>1, <2>2, <3>2
    <2> QED BY <2>1, <2>3 DEF OutcomeInv
  <1>8. CASE execute_and_publish_batch
    <2> USE <1>8
    <2>1. /\ UNCHANGED <<batch, answered, response_queue>> /\ worker = "execute"
          /\ Unexecuted = batch
      BY DEF execute_and_publish_batch, shared, Unexecuted
    <2>2. CASE failed' # "no"
      BY <2>2, Zenon DEF execute_and_publish_batch, OutcomeInv
    <2>3. CASE failed' = "no"
      <3> USE <2>3
      <3>1. /\ failed = "no" /\ executed' = executed \o batch
            /\ outcome' = "result" /\ worker' = "publish"
        BY DEF execute_and_publish_batch
      <3>2. Len(executed') = Len(executed) + Len(batch)
        BY <1>1, <3>1
      <3>3. Unexecuted' = <<>> /\ Len(Unexecuted') = 0
        BY <3>1 DEF Unexecuted
      <3>4. /\ Len(executed) + Len(batch) = Len(answered) + Len(response_queue) + Len(batch)
            /\ \A i \in 1..Len(answered) : answered[i].outcome = "result"
            /\ \A i \in 1..Len(response_queue) : response_queue[i].outcome = "result"
        BY <2>1, <3>1 DEF OutcomeInv
      <3>5. Len(executed') + Len(Unexecuted') = Len(answered) + Len(response_queue) + Len(batch)
        BY <1>1, <3>2, <3>3, <3>4
      <3> QED BY <2>1, <3>1, <3>4, <3>5, Zenon DEF OutcomeInv
    <2> QED BY <2>2, <2>3
  <1>9. CASE enter_fail_stop
    <2> USE <1>9
    <2>1. failed # "no" /\ failed' = failed
      BY Zenon DEF enter_fail_stop, OutcomeInv
    <2>2. outcome' = "unavailable" \/ worker' \in {"fail_stop", "fail_wake"}
      BY DEF enter_fail_stop
    <2> QED BY <2>1, <2>2 DEF OutcomeInv
  <1>10. CASE publish
    <2> DEFINE r == [request |-> Head(batch), outcome |-> outcome]
    <2>1. /\ UNCHANGED <<failed, outcome, executed, answered>> /\ worker = "publish"
          /\ response_queue' = Append(response_queue, r)
          /\ batch' = Tail(batch) /\ worker' = "notify"
      BY <1>10 DEF publish, NeverTerminates, history
    <2>2. r \in Response /\ r.outcome = outcome /\ Len(batch) # 0 /\ Len(batch') = Len(batch) - 1
      <3>1. batch # <<>>
        BY <2>1 DEF WorkerInv
      <3>2. Head(batch) \in Request /\ Len(batch) # 0 /\ Len(Tail(batch)) = Len(batch) - 1
        BY <1>1, <3>1, HeadAndTail
      <3> QED BY <2>1, <3>2 DEF Response, TypeOK, WorkerType
    <2> HIDE DEF r
    <2>3. /\ Len(response_queue') = Len(response_queue) + 1
          /\ \A i \in 1..Len(response_queue) : response_queue'[i] = response_queue[i]
          /\ response_queue'[Len(response_queue) + 1] = r
      <3>1. response_queue \in Seq(Response) /\ r \in Response
        BY <1>1, <2>2, ZenonT(30)
      <3>2. /\ Len(Append(response_queue, r)) = Len(response_queue) + 1
            /\ \A i \in 1..Len(response_queue) : Append(response_queue, r)[i] = response_queue[i]
            /\ Append(response_queue, r)[Len(response_queue) + 1] = r
        BY <3>1
      <3> QED BY <2>1, <3>2, ZenonT(30)
    <2>4. Unexecuted' = Unexecuted
      BY <2>1 DEF Unexecuted
    <2>5. ASSUME failed = "no"
          PROVE  /\ outcome = "result"
                 /\ Len(answered) + Len(response_queue') + Len(batch')
                      = Len(answered) + Len(response_queue) + Len(batch)
                 /\ \A i \in 1..Len(response_queue') : response_queue'[i].outcome = "result"
      <3>1. outcome = "result" /\ \A i \in 1..Len(response_queue) : response_queue[i].outcome = "result"
        BY <2>1, <2>5 DEF OutcomeInv
      <3>2. \A i \in 1..Len(response_queue') :
               i \in 1..Len(response_queue) \/ i = Len(response_queue) + 1
        BY <1>1, <2>3
      <3>3. \A i \in 1..Len(response_queue') : response_queue'[i].outcome = "result"
        BY <2>2, <2>3, <3>1, <3>2
      <3>4. Len(answered) + Len(response_queue') + Len(batch')
              = Len(answered) + Len(response_queue) + Len(batch)
        BY <1>1, <2>2, <2>3
      <3> QED BY <3>1, <3>3, <3>4
    <2> QED BY <2>1, <2>4, <2>5, Zenon DEF OutcomeInv
  <1>11. CASE notify
    <2>1. /\ UNCHANGED <<batch, failed, outcome, executed, answered, response_queue>>
          /\ worker = "notify" /\ worker' \in {"wait", "publish"}
          /\ worker' = "wait" => batch = <<>>
      BY <1>11 DEF notify, history
    <2>2. Unexecuted' = Unexecuted
      BY <2>1 DEF Unexecuted
    <2> QED BY <2>1, <2>2 DEF OutcomeInv
  <1>12. CASE CloseResponses
    <2>1. /\ UNCHANGED <<batch, failed, outcome, executed, answered, response_queue>>
          /\ worker \in {"close", "close_notify"} /\ worker' \in {"close_notify", "done"}
      BY <1>12 DEF CloseResponses, history
    <2> QED BY <2>1 DEF OutcomeInv, Unexecuted
  <1> QED BY <1>2, <1>3, <1>4, <1>5, <1>6, <1>7, <1>8, <1>9, <1>10, <1>11, <1>12, NextCases
          DEF WorkerCode

-----------------------------------------------------------------------------
(* The invariant and what follows from it *)

LEMMA InitInv == ASSUME Init PROVE IInv
  <1> USE ExchangeAssumption
  <1>1. TypeOK
    BY TypeInit
  <1>2. NeverTerminates /\ ReservationsExact
    BY DEF Init, NeverTerminates, ReservationsExact
  <1>3. GatewayInv /\ TodoInv
    BY Zenon DEF Init, GatewayInv, TodoInv
  <1>4. WorkerInv
    BY DEF Init, WorkerInv
  <1>5. OutcomeInv
    <2>1. /\ executed = <<>> /\ Unexecuted = <<>> /\ answered = <<>> /\ response_queue = <<>>
          /\ batch = <<>> /\ Len(<<>>) = 0
      BY DEF Init, Unexecuted
    <2> QED BY <2>1 DEF OutcomeInv, Init
  <1>6. WakeInv
    BY DEF Init, WakeInv, WakeResponses, WakeStop, WakeEnd, WakeClosing, WakeWorker
  <1> QED BY <1>1, <1>2, <1>3, <1>4, <1>5, <1>6 DEF IInv

LEMMA StepInv == ASSUME IInv, [Next]_vars PROVE IInv'
  <1> USE ExchangeAssumption
  <1>1. CASE UNCHANGED vars
    <2> USE <1>1
    <2>1. TypeOK'
      BY TypeOthers DEF IInv
    <2>2. /\ UNCHANGED <<stop_requested, wakeup, in_flight, request_queue, request_closed>>
          /\ UNCHANGED <<response_queue, response_closed, gateway, after, connection, parsed, todo>>
          /\ UNCHANGED <<pending_requests, reads_paused, shutdown_started, status, output>>
          /\ UNCHANGED <<worker, batch, failed, outcome, stopper, terminated>>
          /\ UNCHANGED <<received, admitted, executed, answered, delivered>>
      BY Zenon DEF vars, shared, gateway_vars, loop_vars, worker_vars, history
    <2>3. NeverTerminates' /\ ReservationsExact' /\ WorkerInv' /\ TodoInv'
      BY <2>2, Zenon DEF IInv, NeverTerminates, ReservationsExact, WorkerInv, TodoInv, Present
    <2>4. GatewayInv'
      BY <2>2, Zenon DEF IInv, GatewayInv, Open
    <2>5. OutcomeInv'
      BY <2>2, Zenon DEF IInv, OutcomeInv, Unexecuted
    <2>6. WakeInv'
      BY <2>2, Zenon DEF IInv, WakeInv, WakeResponses, WakeStop, WakeEnd, WakeClosing, WakeWorker, Signalled
    <2> QED BY <2>1, <2>3, <2>4, <2>5, <2>6 DEF IInv
  <1>2. CASE Next
    <2> USE <1>2
    <2>1. /\ TypeOK /\ NeverTerminates /\ ReservationsExact /\ GatewayInv /\ TodoInv /\ WorkerInv
          /\ OutcomeInv /\ WakeInv
      BY DEF IInv
    <2>2. TypeOK'
      <3>1. CASE GatewayCode
        BY <2>1, <3>1, TypeGateway
      <3>2. CASE \/ WorkerCode \/ SpuriousWakeup \/ request_stop \/ PollFails
                 \/ \E reported \in SUBSET PollEvents : Poll(reported)
                 \/ UNCHANGED vars
        BY <2>1, <3>2, TypeOthers
      <3> QED BY <3>1, <3>2 DEF Next, Returned
    <2>3. NeverTerminates' /\ ReservationsExact' /\ WorkerInv'
      BY <2>1, ReservationStep
    <2>4. GatewayInv' /\ TodoInv'
      BY <2>1, GatewayStep, TodoStep
    <2>5. WakeInv'
      <3>1. WakeResponses'
        BY <2>1, WakeResponsesStep
      <3>2. WakeStop'
        BY <2>1, WakeStopStep DEF WakeInv
      <3>3. WakeEnd'
        BY <2>1, WakeEndStep
      <3>4. WakeWorker'
        BY <2>1, WakeWorkerStep DEF WakeInv
      <3>5. WakeClosing'
        BY <2>1, WakeClosingStep
      <3> QED BY <3>1, <3>2, <3>3, <3>4, <3>5 DEF WakeInv
    <2>6. OutcomeInv'
      BY <2>1, <2>2, <2>3, OutcomeStep
    <2> QED BY <2>2, <2>3, <2>4, <2>5, <2>6 DEF IInv
  <1> QED BY <1>1, <1>2

\* Every behaviour of the two threads keeps the inductive invariant.
THEOREM Invariance == Spec => []IInv
  BY InitInv, StepInv, PTL DEF Spec

\* Every variable of the gateway and the worker holds a value of its type.
THEOREM TypeCorrect == Spec => []TypeOK
  BY Invariance, PTL DEF IInv

\* The std::terminate calls of publish and release_one are out of reach, whatever
\* the capacities: a response queue as large as the in-flight limit never fills up.
THEOREM WorkerNeverTerminates == Spec => []NeverTerminates
  BY Invariance, PTL DEF IInv

\* The in-flight limiter counts exactly the requests between admission and the
\* drain of their response.
THEOREM NoReservationLeaks == Spec => []ReservationsExact
  BY Invariance, PTL DEF IInv

\* Neither poll nor wait_pop sleeps on something that has already happened and
\* that nobody is about to signal.
THEOREM WakeupsArrive == Spec => []NoLostWakeup
  <1>1. IInv => NoLostWakeup
    <2> SUFFICES ASSUME IInv PROVE NoLostWakeup
      OBVIOUS
    <2>1. TypeOK /\ GatewayInv /\ TodoInv /\ WakeInv
      BY DEF IInv
    <2>2. worker = "blocked" => /\ request_queue # <<>> => gateway = "push_notify"
                                /\ request_closed => gateway = "close_notify"
      BY <2>1 DEF WakeInv, WakeWorker
    <2>3. ASSUME gateway = "poll", ~wakeup
          PROVE  /\ response_queue # <<>> => worker = "notify"
                 /\ stop_requested /\ ~shutdown_started => stopper = "wake" \/ worker = "fail_wake"
                 /\ shutdown_started /\ response_closed => worker = "close_notify"
      BY <2>1, <2>3 DEF WakeInv, WakeResponses, WakeStop, WakeEnd, Signalled
    <2>4. ASSUME gateway = "poll", ~wakeup, NEW c \in Connections, status[c] = "closing", output[c] = <<>>
          PROVE  worker = "notify"
      <3> USE <2>4
      <3>1. connection = NoConnection /\ todo = {}
        BY <2>1 DEF GatewayInv, TodoInv
      <3>2. c # connection /\ c \notin todo
        BY <3>1, ExchangeAssumption DEF ExchangeAssumption
      <3> QED BY <2>1, <3>2 DEF WakeInv, WakeClosing, Signalled
    <2> QED BY <2>2, <2>3, <2>4 DEF NoLostWakeup
  <1> QED BY <1>1, Invariance, PTL

=============================================================================

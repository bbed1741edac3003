------------------------ MODULE ExchangeOrderProofs ------------------------
(***************************************************************************)
(* Proofs that Exchange executes what it admits until the first failure    *)
(* and nothing after it, and keeps the order of the requests of a          *)
(* connection from their arrival to the delivery of the answers, for any   *)
(* connections, any number of requests, any capacities and any limits.     *)
(***************************************************************************)
EXTENDS ExchangeProofs

\* What a leaf may take, in seconds, unless it names a prover; on a busy machine
\* the first attempt may find no time to start.
USE SMTT(30), ZenonT(30), SMTT(40), SMTT(50)

\* Until the first failure, everything admitted is executed or on its way.
UnexecutedInv ==
    failed = "no" => admitted = Cat(Cat(executed, Unexecuted), request_queue)

\* The two halves of FailStopIsFinal.
ResultsFirst ==
    LET all == Cat(answered, response_queue) IN
    \E n \in 0..Len(executed) : \A i \in 1..Len(all) : all[i].outcome = "result" <=> i <= n
ExecutedFirst ==
    Len(executed) <= Len(admitted) /\ \A i \in 1..Len(executed) : executed[i] = admitted[i]

FailInv == UnexecutedInv /\ ResultsFirst /\ ExecutedFirst

\* The requests that wait for admission, and all of them in line.
Waiting == Cat(pending_requests, parsed)
Line == Cat(admitted, Waiting)

\* The requests of connection c in s are its first m.
Complete(s, c, m) ==
    /\ InOrder(s, c)
    /\ \A i \in 1..Len(s) : s[i].connection = c => s[i].id <= m
    /\ \A n \in 1..m : \E i \in 1..Len(s) : s[i] = [connection |-> c, id |-> n]

\* As long as a connection may still be read, all it has sent is in line.
LineInv ==
    /\ AdmissionInOrder
    /\ ~shutdown_started => \A c \in Connections : Open(c) => Complete(Line, c, received[c])

\* What a connection was given so far are the answers to its first requests; as
\* long as it is open, to all of those that were answered.
Replies(c) == Cat(delivered[c], output[c])
DeliveryInv ==
    \A c \in Connections :
        /\ \A i \in 1..Len(Replies(c)) : Replies(c)[i].request = [connection |-> c, id |-> i]
        /\ Open(c) => Complete(RequestsIn(answered), c, Len(Replies(c)))

\* What holds in addition when the worker throws nothing.
AnswerInv == ExactlyOneResponse /\ DeliveryInv

-----------------------------------------------------------------------------
(* The initial states, and a fact about buffers *)

LEMMA InitLine == ASSUME Init PROVE LineInv
  <1>1. /\ admitted = <<>> /\ Line = <<>> /\ Len(<<>>) = 0
    <2>1. Cat(<<>>, <<>>) = <<>>
      BY DEF Cat
    <2>2. Waiting = <<>>
      BY <2>1 DEF Init, Waiting
    <2> QED BY <2>1, <2>2 DEF Init, Line
  <1>2. \A c : InOrder(<<>>, c)
    BY DEF InOrder
  <1>3. \A c \in Connections : received[c] = 0
    BY DEF Init
  <1> QED BY <1>1, <1>2, <1>3 DEF LineInv, AdmissionInOrder, Complete

LEMMA InitAnswers == ASSUME Init PROVE AnswerInv
  <1>1. RequestsIn(<<>>) = <<>> /\ Len(<<>>) = 0
    BY DEF RequestsIn
  <1>2. ExactlyOneResponse
    BY <1>1 DEF Init, ExactlyOneResponse
  <1>3. <<>> \in Seq(Response) /\ Cat(<<>>, <<>>) = <<>>
    BY DEF Cat
  <1>4. \A c \in Connections : Replies(c) = <<>>
    BY <1>3 DEF Init, Replies
  <1>5. answered = <<>>
    BY DEF Init
  <1>6. \A c : InOrder(<<>>, c)
    BY <1>1 DEF InOrder
  <1>7. \A c : Complete(<<>>, c, 0)
    BY <1>1, <1>6 DEF Complete
  <1>8. DeliveryInv
    BY <1>1, <1>4, <1>5, <1>7 DEF DeliveryInv
  <1> QED BY <1>2, <1>8 DEF AnswerInv

\* One more reply in the buffer of a client.
LEMMA ReplyAppended ==
    ASSUME NEW x \in Seq(Response), NEW e \in Response, NEW y, y = Append(x, e)
    PROVE  /\ Len(y) = Len(x) + 1 /\ y[Len(x) + 1] = e
           /\ \A i \in 1..Len(x) : y[i] = x[i]
  BY Appended

LEMMA CatBegins ==
    ASSUME NEW S, NEW x \in Seq(S), NEW y \in Seq(S)
    PROVE  \A i \in 1..Len(x) : i \in 1..Len(Cat(x, y)) /\ x[i] = Cat(x, y)[i]
  <1>1. /\ Len(x) \in Nat /\ Len(y) \in Nat /\ Len(Cat(x, y)) = Len(x) + Len(y)
        /\ \A i \in 1..Len(x) : Cat(x, y)[i] = x[i]
    BY CatType, Zenon
  <1> QED BY <1>1

-----------------------------------------------------------------------------
(* Execution and fail-stop *)

\* admit refuses, or takes the first request of the line.
NextInLine == IF connection = NoConnection THEN Head(pending_requests) ELSE Head(parsed)

LEMMA AdmitEffect ==
    ASSUME TypeOK, GatewayInv, admit
    PROVE  \/ NoRoom /\ Refuse /\ UNCHANGED <<request_queue, admitted>>
           \/ /\ ~NoRoom /\ NextInLine \in Request
              /\ request_queue' = Append(request_queue, NextInLine)
              /\ admitted' = Append(admitted, NextInLine)
              /\ \/ /\ connection = NoConnection /\ pending_requests # <<>>
                    /\ Open(Head(pending_requests).connection)
                    /\ pending_requests' = Tail(pending_requests) /\ parsed' = parsed
                 \/ /\ connection # NoConnection /\ parsed # <<>>
                    /\ parsed' = Tail(parsed) /\ pending_requests' = pending_requests
              /\ status' = status
  <1>1. CASE NoRoom
    BY <1>1 DEF admit
  <1>2. CASE ~NoRoom
    <2> USE <1>2
    <2>1. /\ request_queue' = Append(request_queue, NextInLine)
          /\ admitted' = Append(admitted, NextInLine) /\ status' = status
      BY DEF admit, NextInLine
    <2>2. pending_requests \in Seq(Request) /\ parsed \in Seq(Request)
      BY DEF TypeOK, GatewayType
    <2>3. CASE connection = NoConnection
      <3> USE <2>3
      <3>1. pending_requests # <<>> /\ Open(Head(pending_requests).connection)
        BY DEF admit, GatewayInv
      <3>2. Head(pending_requests) \in Request
        BY <2>2, <3>1, HeadAndTail
      <3>3. pending_requests' = Tail(pending_requests) /\ parsed' = parsed
        BY DEF admit, PopPending
      <3> QED BY <2>1, <3>1, <3>2, <3>3 DEF NextInLine
    <2>4. CASE connection # NoConnection
      <3> USE <2>4
      <3>1. parsed # <<>>
        BY DEF admit, GatewayInv
      <3>2. Head(parsed) \in Request
        BY <2>2, <3>1, HeadAndTail
      <3>3. parsed' = Tail(parsed) /\ pending_requests' = pending_requests
        BY DEF admit
      <3> QED BY <2>1, <3>1, <3>2, <3>3 DEF NextInLine
    <2> QED BY <2>3, <2>4, Zenon
  <1> QED BY <1>1, <1>2

\* Until the first failure nothing admitted is lost on its way to execution.
LEMMA UnexecutedStep ==
    ASSUME TypeOK, TypeOK', NeverTerminates', GatewayInv, WorkerInv, OutcomeInv, OutcomeInv',
           UnexecutedInv, Next
    PROVE  UnexecutedInv'
  <1> SUFFICES ASSUME failed' = "no"
               PROVE  admitted' = Cat(Cat(executed', Unexecuted'), request_queue')
    BY DEF UnexecutedInv
  <1>1. /\ executed \in Seq(Request) /\ Unexecuted \in Seq(Request)
        /\ request_queue \in Seq(Request) /\ batch \in Seq(Request) /\ <<>> \in Seq(Request)
        /\ Cat(executed, Unexecuted) \in Seq(Request)
    <2>1. /\ executed \in Seq(Request) /\ request_queue \in Seq(Request) /\ batch \in Seq(Request)
          /\ <<>> \in Seq(Request)
      BY DEF TypeOK, SharedType, HistoryType, WorkerType
    <2>2. Unexecuted \in Seq(Request)
      BY UnexecutedType
    <2> QED BY <2>1, <2>2, CatType
  <1>2. failed = "no" => admitted = Cat(Cat(executed, Unexecuted), request_queue)
    BY DEF UnexecutedInv
  <1>3. CASE Quiet \/ UNCHANGED vars \/ begin_shutdown_if_requested
    <2>1. UNCHANGED <<worker, batch, failed, executed, admitted, request_queue>>
      BY <1>3, QuietFrame DEF vars, shared, worker_vars, history, begin_shutdown_if_requested
    <2> QED BY <1>2, <2>1 DEF Unexecuted
  <1>4. CASE not_empty_notify \/ SpuriousWakeup
    <2>1. /\ UNCHANGED <<batch, failed, executed, admitted, request_queue>>
          /\ worker' = worker \/ (worker = "blocked" /\ worker' = "wait")
      BY <1>4 DEF not_empty_notify, SpuriousWakeup, shared, history
    <2> QED BY <1>2, <2>1 DEF Unexecuted
  <1>5. CASE drain_engine_completions
    <2>1. UNCHANGED <<worker, batch, failed, executed, admitted, request_queue>>
      BY <1>5 DEF drain_engine_completions, worker_vars
    <2> QED BY <1>2, <2>1 DEF Unexecuted
  <1>6. CASE admit
    <2> USE <1>6
    <2>1. UNCHANGED <<worker, batch, failed, executed>> /\ Unexecuted' = Unexecuted
      BY DEF admit, worker_vars, Unexecuted
    <2>2. CASE UNCHANGED <<request_queue, admitted>>
      BY <1>2, <2>1, <2>2
    <2>3. CASE /\ NextInLine \in Request
               /\ request_queue' = Append(request_queue, NextInLine)
               /\ admitted' = Append(admitted, NextInLine)
      <3> USE <2>3
      <3>1. Append(Cat(Cat(executed, Unexecuted), request_queue), NextInLine)
              = Cat(Cat(executed, Unexecuted), Append(request_queue, NextInLine))
        BY <1>1, CatAppend
      <3> QED BY <1>2, <2>1, <3>1
    <2> QED BY <2>2, <2>3, AdmitEffect
  <1>7. CASE wait_pop
    <2> USE <1>7
    <2>1. UNCHANGED <<failed, executed, admitted>> /\ Unexecuted = <<>> /\ batch = <<>>
      BY DEF wait_pop, history, Unexecuted, WorkerInv
    <2>2. CASE UNCHANGED <<batch, request_queue>>
      <3> USE <2>2
      <3>1. Unexecuted' = <<>>
        BY <2>1 DEF Unexecuted
      <3> QED BY <1>2, <2>1, <3>1
    <2>3. CASE /\ request_queue # <<>>
               /\ batch' = <<Head(request_queue)>> /\ request_queue' = Tail(request_queue)
               /\ worker' = "reserve"
      <3> USE <2>3
      <3>1. Unexecuted' = Append(Unexecuted, Head(request_queue))
        BY <2>1 DEF Unexecuted
      <3>2. Cat(Cat(executed, Append(Unexecuted, Head(request_queue))), Tail(request_queue))
              = Cat(Cat(executed, Unexecuted), request_queue)
        BY <1>1, CatShiftBehind
      <3> QED BY <1>2, <2>1, <3>1, <3>2
    <2> QED BY <2>1, <2>2, <2>3 DEF wait_pop
  <1>8. CASE Reserve
    <2>1. /\ UNCHANGED <<batch, failed, executed, admitted, request_queue>>
          /\ worker = "reserve" /\ worker' = "drain"
      BY <1>8 DEF Reserve, history
    <2> QED BY <1>2, <2>1 DEF Unexecuted
  <1>9. CASE Drain
    <2> USE <1>9
    <2>1. /\ UNCHANGED <<failed, executed, admitted>>
          /\ worker = "drain" /\ worker' \in {"drain", "execute"}
          /\ Unexecuted = batch /\ Unexecuted' = batch'
      BY DEF Drain, history, Unexecuted
    <2>2. CASE UNCHANGED <<batch, request_queue>>
      BY <1>2, <2>1, <2>2
    <2>3. CASE /\ request_queue # <<>>
               /\ batch' = Append(batch, Head(request_queue)) /\ request_queue' = Tail(request_queue)
      <3> USE <2>3
      <3>1. Cat(Cat(executed, Append(batch, Head(request_queue))), Tail(request_queue))
              = Cat(Cat(executed, batch), request_queue)
        BY <1>1, CatShiftBehind
      <3> QED BY <1>2, <2>1, <3>1
    <2> QED BY <2>2, <2>3 DEF Drain
  <1>10. CASE execute_and_publish_batch
    <2>1. /\ UNCHANGED <<batch, failed, admitted, request_queue>> /\ executed' = executed \o batch
          /\ Unexecuted = batch /\ Unexecuted' = <<>>
      BY <1>10 DEF execute_and_publish_batch, shared, Unexecuted
    <2>2. executed' = Cat(executed, batch)
      BY <2>1 DEF Cat
    <2>3. Cat(Cat(executed, batch), <<>>) = Cat(executed, batch)
      BY <1>1, <2>1, CatEmpty
    <2> QED BY <1>2, <2>1, <2>2, <2>3
  <1>11. CASE enter_fail_stop
    BY <1>11, Zenon DEF enter_fail_stop, OutcomeInv
  <1>12. CASE publish
    <2>1. /\ UNCHANGED <<failed, executed, admitted, request_queue>>
          /\ worker = "publish" /\ worker' = "notify"
      BY <1>12 DEF publish, NeverTerminates, history
    <2> QED BY <1>2, <2>1 DEF Unexecuted
  <1>13. CASE notify
    <2>1. /\ UNCHANGED <<batch, failed, executed, admitted, request_queue>>
          /\ worker = "notify" /\ worker' \in {"wait", "publish"}
          /\ worker' = "wait" => batch = <<>>
      BY <1>13 DEF notify, history
    <2> QED BY <1>2, <2>1 DEF Unexecuted
  <1>14. CASE CloseResponses
    <2>1. /\ UNCHANGED <<batch, failed, executed, admitted, request_queue>>
          /\ worker \in {"close", "close_notify"} /\ worker' \in {"close_notify", "done"}
      BY <1>14 DEF CloseResponses, history
    <2> QED BY <1>2, <2>1 DEF Unexecuted
  <1> QED BY <1>3, <1>4, <1>5, <1>6, <1>7, <1>8, <1>9, <1>10, <1>11, <1>12, <1>13, <1>14, NextCases
          DEF WorkerCode

\* What is executed is the beginning of what is admitted.
LEMMA ExecutedStep ==
    ASSUME TypeOK, TypeOK', GatewayInv, ExecutedFirst, UnexecutedInv', Next
    PROVE  ExecutedFirst'
  <1>1. CASE failed' = "no"
    <2>1. /\ executed' \in Seq(Request) /\ Unexecuted' \in Seq(Request)
          /\ request_queue' \in Seq(Request)
      <3>1. executed' \in Seq(Request) /\ request_queue' \in Seq(Request) /\ batch' \in Seq(Request)
        BY DEF TypeOK, SharedType, HistoryType, WorkerType
      <3> QED BY <3>1 DEF Unexecuted
    <2>2. admitted' = Cat(Cat(executed', Unexecuted'), request_queue')
      BY <1>1 DEF UnexecutedInv
    <2> DEFINE u == Unexecuted'
               e == executed'
               q == request_queue'
               x == Cat(e, u)
    <2> HIDE DEF e, u, q
    <2>3. /\ x \in Seq(Request) /\ Len(x) = Len(e) + Len(u) /\ Len(e) \in Nat /\ Len(u) \in Nat
          /\ \A i \in 1..Len(e) : x[i] = e[i]
      BY <2>1, CatType DEF e, u
    <2> HIDE DEF x
    <2>4. q \in Seq(Request) /\ x \in Seq(Request)
      BY <2>1, <2>3 DEF q
    <2>5. /\ Len(q) \in Nat /\ Len(Cat(x, q)) = Len(x) + Len(q)
          /\ \A i \in 1..Len(x) : Cat(x, q)[i] = x[i]
      BY <2>4, CatType
    <2>6. /\ Len(e) <= Len(Cat(x, q))
          /\ \A i \in 1..Len(e) : e[i] = Cat(x, q)[i]
      BY <2>3, <2>5
    <2> QED BY <2>2, <2>6 DEF ExecutedFirst, e, u, x, q
  <1>2. CASE failed' # "no"
    <2>1. executed' = executed
      BY <1>2, QuietFrame, NextCases, Zenon
         DEF WorkerCode, SpuriousWakeup, wait_pop, Reserve, Drain, execute_and_publish_batch,
             enter_fail_stop, publish, notify, CloseResponses, begin_shutdown_if_requested,
             not_empty_notify, drain_engine_completions, admit, vars, history
    <2>2. CASE admitted' = admitted
      BY <2>1, <2>2 DEF ExecutedFirst
    <2>3. CASE NextInLine \in Request /\ admitted' = Append(admitted, NextInLine)
      <3>1. admitted \in Seq(Request) /\ executed \in Seq(Request) /\ Len(executed) \in Nat
        BY DEF TypeOK, HistoryType
      <3>2. /\ Len(admitted) \in Nat /\ Len(admitted') = Len(admitted) + 1
            /\ \A i \in 1..Len(admitted) : admitted'[i] = admitted[i]
        BY <2>3, <3>1, Appended
      <3> QED BY <2>1, <3>1, <3>2 DEF ExecutedFirst
    <2>4. admitted' = admitted \/ admit
      BY QuietFrame, NextCases, Zenon
         DEF WorkerCode, SpuriousWakeup, wait_pop, Reserve, Drain, execute_and_publish_batch,
             enter_fail_stop, publish, notify, CloseResponses, begin_shutdown_if_requested,
             not_empty_notify, drain_engine_completions, vars, history
    <2> QED BY <2>2, <2>3, <2>4, AdmitEffect
  <1> QED BY <1>1, <1>2

\* Results come first, and only for what is executed.
LEMMA ResultsStep ==
    ASSUME TypeOK, TypeOK', NeverTerminates', WorkerInv, OutcomeInv, OutcomeInv', ResultsFirst, Next
    PROVE  ResultsFirst'
  <1>1. answered \in Seq(Response) /\ response_queue \in Seq(Response)
    BY DEF TypeOK, SharedType, HistoryType
  <1>2. CASE failed' = "no"
    <2> DEFINE a == answered'
               q == response_queue'
               all == Cat(a, q)
    <2>1. /\ a \in Seq(Response) /\ q \in Seq(Response) /\ executed' \in Seq(Request)
          /\ batch' \in Seq(Request)
      BY DEF TypeOK, SharedType, HistoryType, WorkerType
    <2>2. /\ \A i \in 1..Len(a) : a[i].outcome = "result"
          /\ \A i \in 1..Len(q) : q[i].outcome = "result"
          /\ Len(executed') + Len(Unexecuted') = Len(a) + Len(q) + Len(batch')
      BY <1>2 DEF OutcomeInv
    <2>3. Unexecuted' = batch' \/ Len(Unexecuted') = 0
      BY DEF Unexecuted
    <2> HIDE DEF a, q
    <2>4. /\ Len(all) = Len(a) + Len(q) /\ Len(a) \in Nat /\ Len(q) \in Nat
          /\ \A i \in 1..Len(a) : all[i] = a[i]
          /\ \A i \in (Len(a) + 1)..(Len(a) + Len(q)) : all[i] = q[i - Len(a)]
      BY <2>1, CatType, Zenon
    <2> HIDE DEF all
    <2>5. Len(executed') \in Nat /\ Len(batch') \in Nat
      BY <2>1
    <2>6. Len(all) \in 0..Len(executed')
      BY <2>2, <2>3, <2>4, <2>5
    <2>7. ASSUME NEW i \in 1..Len(all) PROVE all[i].outcome = "result"
      <3>1. CASE i <= Len(a)
        BY <2>2, <2>4, <3>1
      <3>2. CASE i > Len(a)
        <4>1. i \in (Len(a) + 1)..(Len(a) + Len(q)) /\ i - Len(a) \in 1..Len(q)
          BY <2>4, <3>2
        <4> QED BY <2>2, <2>4, <4>1
      <3> QED BY <2>4, <3>1, <3>2
    <2>8. \A i \in 1..Len(all) : all[i].outcome = "result" <=> i <= Len(all)
      BY <2>4, <2>7
    <2> QED BY <2>6, <2>8 DEF ResultsFirst, a, q, all
  <1>3. CASE failed' # "no"
    <2> USE <1>3
    <2>1. executed' = executed
      BY QuietFrame, NextCases, Zenon
         DEF WorkerCode, SpuriousWakeup, wait_pop, Reserve, Drain, execute_and_publish_batch,
             enter_fail_stop, publish, notify, CloseResponses, begin_shutdown_if_requested,
             not_empty_notify, drain_engine_completions, admit, vars, history
    <2>2. CASE UNCHANGED <<answered, response_queue>>
      BY <2>1, <2>2 DEF ResultsFirst
    <2>3. CASE drain_engine_completions /\ response_queue # <<>>
      <3> USE <2>3
      <3>1. answered' = Append(answered, Head(response_queue)) /\ response_queue' = Tail(response_queue)
        BY DEF drain_engine_completions
      <3>2. Cat(answered', response_queue') = Cat(answered, response_queue)
        BY <1>1, <3>1, CatShift
      <3> QED BY <2>1, <3>2 DEF ResultsFirst
    <2>4. CASE publish
      <3> DEFINE r == [request |-> Head(batch), outcome |-> outcome]
                 all == Cat(answered, response_queue)
      <3>1. /\ UNCHANGED <<failed, answered>> /\ worker = "publish"
            /\ response_queue' = Append(response_queue, r)
        BY <2>4 DEF publish, NeverTerminates, history
      <3>2. r \in Response /\ r.outcome = "unavailable"
        <4>1. batch \in Seq(Request) /\ batch # <<>> /\ outcome = "unavailable"
          BY <3>1, Zenon DEF WorkerInv, OutcomeInv, TypeOK, WorkerType
        <4>2. Head(batch) \in Request
          BY <4>1, HeadAndTail
        <4> QED BY <4>1, <4>2 DEF Response
      <3> HIDE DEF r
      <3>3. Cat(answered, Append(response_queue, r)) = Append(all, r) /\ all \in Seq(Response)
        <4>1. Cat(answered, Append(response_queue, r)) = Append(Cat(answered, response_queue), r)
          BY <1>1, <3>2, CatAppend
        <4>2. Cat(answered, response_queue) \in Seq(Response)
          BY <1>1, CatType
        <4> QED BY <4>1, <4>2
      <3>4. PICK n \in 0..Len(executed) : \A i \in 1..Len(all) : all[i].outcome = "result" <=> i <= n
        BY DEF ResultsFirst
      <3> HIDE DEF all
      <3>5. /\ Len(all) \in Nat /\ Len(Append(all, r)) = Len(all) + 1
            /\ \A i \in 1..Len(all) : Append(all, r)[i] = all[i]
            /\ Append(all, r)[Len(all) + 1] = r
        BY <3>2, <3>3, Appended
      <3>6. PICK m \in 0..Len(executed) :
              m <= Len(all) /\ \A i \in 1..Len(all) : all[i].outcome = "result" <=> i <= m
        <4>1. CASE n <= Len(all)
          BY <3>4, <4>1
        <4>2. CASE n > Len(all)
          <5> USE <4>2
          <5>1. executed \in Seq(Request) /\ Len(executed) \in Nat
            BY DEF TypeOK, HistoryType
          <5>2. Len(all) \in 0..Len(executed)
            BY <3>5, <5>1
          <5>3. \A i \in 1..Len(all) : all[i].outcome = "result" <=> i <= Len(all)
            BY <3>4, <3>5
          <5> QED BY <3>5, <5>2, <5>3
        <4> QED BY <3>5, <4>1, <4>2
      <3>7. ASSUME NEW i \in 1..(Len(all) + 1)
            PROVE  Append(all, r)[i].outcome = "result" <=> i <= m
        <4>1. CASE i \in 1..Len(all)
          BY <3>5, <3>6, <4>1
        <4>2. CASE i = Len(all) + 1
          BY <3>2, <3>5, <3>6, <4>2
        <4> QED BY <3>5, <4>1, <4>2
      <3>8. Cat(answered', response_queue') = Append(all, r)
        BY <3>1, <3>3 DEF all
      <3>9. \A i \in 1..Len(Cat(answered', response_queue')) :
               Cat(answered', response_queue')[i].outcome = "result" <=> i <= m
        BY <3>5, <3>7, <3>8
      <3>10. m \in 0..Len(executed')
        BY <2>1
      <3> QED BY <3>9, <3>10, Zenon DEF ResultsFirst
    <2>5. UNCHANGED <<answered, response_queue>> \/ publish \/ drain_engine_completions
      BY QuietFrame, NextCases, Zenon
         DEF WorkerCode, SpuriousWakeup, wait_pop, Reserve, Drain, execute_and_publish_batch,
             enter_fail_stop, notify, CloseResponses, begin_shutdown_if_requested,
             not_empty_notify, admit, vars, shared, history
    <2>6. drain_engine_completions /\ response_queue = <<>> => UNCHANGED <<answered, response_queue>>
      BY DEF drain_engine_completions
    <2> QED BY <2>2, <2>3, <2>4, <2>5, <2>6
  <1> QED BY <1>2, <1>3

LEMMA InitFail == ASSUME Init PROVE FailInv
  <1>1. /\ executed = <<>> /\ Unexecuted = <<>> /\ request_queue = <<>> /\ admitted = <<>>
        /\ answered = <<>> /\ response_queue = <<>> /\ Len(<<>>) = 0
    BY DEF Init, Unexecuted
  <1>2. Cat(<<>>, <<>>) = <<>>
    BY DEF Cat
  <1>3. 0 \in 0..Len(executed) /\ \A i \in 1..0 : FALSE
    BY <1>1
  <1>4. UnexecutedInv /\ ExecutedFirst
    BY <1>1, <1>2 DEF UnexecutedInv, ExecutedFirst
  <1>5. ResultsFirst
    BY <1>1, <1>2, <1>3 DEF ResultsFirst
  <1> QED BY <1>4, <1>5 DEF FailInv

LEMMA StepFail == ASSUME IInv, IInv', FailInv, [Next]_vars PROVE FailInv'
  <1>1. CASE UNCHANGED vars
    <2>1. UNCHANGED <<failed, admitted, executed, worker, batch, request_queue, answered, response_queue>>
      BY <1>1, Zenon DEF vars, shared, worker_vars, history
    <2> QED BY <2>1, Zenon DEF FailInv, UnexecutedInv, Unexecuted, ResultsFirst, ExecutedFirst
  <1>2. CASE Next
    <2> USE <1>2
    <2>1. /\ TypeOK /\ GatewayInv /\ WorkerInv /\ OutcomeInv
          /\ TypeOK' /\ NeverTerminates' /\ OutcomeInv'
      BY DEF IInv
    <2>2. UnexecutedInv'
      BY <2>1, UnexecutedStep DEF FailInv
    <2>3. ExecutedFirst'
      BY <2>1, <2>2, ExecutedStep DEF FailInv
    <2>4. ResultsFirst'
      BY <2>1, ResultsStep DEF FailInv
    <2> QED BY <2>2, <2>3, <2>4 DEF FailInv
  <1> QED BY <1>1, <1>2

\* execute_and_publish_batch reports results for a prefix of what was admitted and
\* "unavailable" from the first failure on.
THEOREM FailStop == Spec => []FailStopIsFinal
  <1>1. Spec => []FailInv
    BY InitFail, StepFail, Invariance, PTL DEF Spec
  <1>2. FailInv => FailStopIsFinal
    BY DEF FailInv, ResultsFirst, ExecutedFirst, FailStopIsFinal, Cat
  <1> QED BY <1>1, <1>2, PTL

-----------------------------------------------------------------------------
(* The order of a connection's requests *)

\* InOrder, position by position.
LEMMA InOrderPositions ==
    ASSUME NEW s, NEW c
    PROVE  InOrder(s, c) <=>
             /\ \A i \in 1..Len(s) : \A j \in 1..Len(s) :
                   s[i].connection = c /\ s[j].connection = c /\ i < j => s[i].id < s[j].id
             /\ \A j \in 1..Len(s) : s[j].connection = c =>
                   \A n \in 1..(s[j].id - 1) :
                      \E i \in 1..(j - 1) : s[i] = [connection |-> c, id |-> n]
  BY Zenon DEF InOrder

\* The beginning of a line in order is in order.
LEMMA InOrderPrefix ==
    ASSUME NEW c \in Connections, NEW s \in Seq(Request), NEW t \in Seq(Request), Len(t) <= Len(s),
           \A i \in 1..Len(t) : t[i] = s[i], InOrder(s, c)
    PROVE  InOrder(t, c)
  <1>1. Len(s) \in Nat /\ Len(t) \in Nat
    OBVIOUS
  <1>2. ASSUME NEW i \in 1..Len(t), NEW j \in 1..Len(t), t[i].connection = c, t[j].connection = c, i < j
        PROVE  t[i].id < t[j].id
    BY <1>1, <1>2, InOrderPositions
  <1>3. ASSUME NEW j \in 1..Len(t), t[j].connection = c, NEW n \in 1..(t[j].id - 1)
        PROVE  \E i \in 1..(j - 1) : t[i] = [connection |-> c, id |-> n]
    <2>1. j \in 1..Len(s) /\ t[j] = s[j]
      BY <1>1
    <2>2. PICK i \in 1..(j - 1) : s[i] = [connection |-> c, id |-> n]
      BY <1>3, <2>1, InOrderPositions, Zenon
    <2>3. i \in 1..Len(t)
      BY <1>1
    <2> QED BY <2>2, <2>3
  <1> QED BY <1>2, <1>3, InOrderPositions, Zenon

\* A line from which only requests of other connections are taken out: g tells
\* where the element at a position was before.
LEMMA CompleteWithoutOthers ==
    ASSUME NEW c \in Connections, NEW m \in Nat, NEW s \in Seq(Request), NEW t \in Seq(Request),
           NEW g \in [1..Len(t) -> 1..Len(s)],
           \A i \in 1..Len(t) : t[i] = s[g[i]],
           \A i \in 1..Len(t) : \A j \in 1..Len(t) : i < j => g[i] < g[j],
           \A k \in 1..Len(s) : s[k].connection = c => \E i \in 1..Len(t) : g[i] = k,
           Complete(s, c, m)
    PROVE  Complete(t, c, m)
  <1>1. Len(s) \in Nat /\ Len(t) \in Nat
    OBVIOUS
  <1>2. ASSUME NEW i \in 1..Len(t), NEW j \in 1..Len(t), g[i] < g[j] PROVE i < j
    <2> USE <1>2
    <2>1. CASE i = j
      BY <1>1, <2>1
    <2>2. CASE j < i
      <3>1. g[j] < g[i]
        BY <2>2
      <3> QED BY <1>1, <3>1
    <2> QED BY <1>1, <2>1, <2>2
  <1>3. ASSUME NEW i \in 1..Len(t), NEW j \in 1..Len(t), t[i].connection = c, t[j].connection = c, i < j
        PROVE  t[i].id < t[j].id
    <2> USE <1>3
    <2>1. g[i] \in 1..Len(s) /\ g[j] \in 1..Len(s) /\ g[i] < g[j]
      OBVIOUS
    <2>2. s[g[i]].connection = c /\ s[g[j]].connection = c
      OBVIOUS
    <2>3. InOrder(s, c)
      BY ZenonT(30) DEF Complete
    <2>4. s[g[i]].id < s[g[j]].id
      BY <2>1, <2>2, <2>3, InOrderPositions
    <2> QED BY <2>4
  <1>4. ASSUME NEW n \in Nat, NEW k \in 1..Len(s), s[k] = [connection |-> c, id |-> n]
        PROVE  \E i \in 1..Len(t) : g[i] = k /\ t[i] = [connection |-> c, id |-> n]
    <2> USE <1>4
    <2>1. s[k].connection = c
      OBVIOUS
    <2>2. PICK i \in 1..Len(t) : g[i] = k
      BY <2>1
    <2> QED BY <2>2
  <1>5. ASSUME NEW j \in 1..Len(t), t[j].connection = c, NEW n \in 1..(t[j].id - 1)
        PROVE  \E i \in 1..(j - 1) : t[i] = [connection |-> c, id |-> n]
    <2>1. g[j] \in 1..Len(s) /\ t[j] = s[g[j]] /\ InOrder(s, c)
      BY ZenonT(30) DEF Complete
    <2>2. PICK k \in 1..(g[j] - 1) : s[k] = [connection |-> c, id |-> n]
      BY <1>5, <2>1, InOrderPositions, ZenonT(30)
    <2>3. k \in 1..Len(s) /\ n \in Nat /\ k < g[j]
      BY <1>1, <2>1
    <2>4. PICK i \in 1..Len(t) : g[i] = k /\ t[i] = [connection |-> c, id |-> n]
      BY <1>4, <2>2, <2>3
    <2>5. i < j
      BY <1>2, <2>3, <2>4
    <2>6. i \in 1..(j - 1)
      BY <1>1, <2>5
    <2> QED BY <2>4, <2>6
  <1>6. InOrder(t, c)
    BY <1>3, <1>5, InOrderPositions
  <1>7. ASSUME NEW i \in 1..Len(t), t[i].connection = c PROVE t[i].id <= m
    <2>1. g[i] \in 1..Len(s) /\ t[i] = s[g[i]]
      OBVIOUS
    <2> QED BY <1>7, <2>1 DEF Complete
  <1>8. ASSUME NEW n \in 1..m PROVE \E i \in 1..Len(t) : t[i] = [connection |-> c, id |-> n]
    <2>1. PICK k \in 1..Len(s) : s[k] = [connection |-> c, id |-> n]
      BY DEF Complete
    <2>2. n \in Nat
      BY <1>8
    <2>3. PICK i \in 1..Len(t) : g[i] = k /\ t[i] = [connection |-> c, id |-> n]
      BY <1>4, <2>1, <2>2
    <2> QED BY <2>3, ZenonT(30)
  <1> QED BY <1>6, <1>7, <1>8 DEF Complete

\* A line that only other connections extend.
LEMMA InOrderWithOthers ==
    ASSUME NEW c \in Connections, NEW s \in Seq(Request), NEW t \in Seq(Request), Len(s) <= Len(t),
           \A i \in 1..Len(s) : t[i] = s[i],
           \A i \in (Len(s) + 1)..Len(t) : t[i].connection # c
    PROVE  /\ InOrder(s, c) => InOrder(t, c)
           /\ \A m \in Nat : Complete(s, c, m) => Complete(t, c, m)
  <1>1. Len(s) \in Nat /\ Len(t) \in Nat
    OBVIOUS
  <1>2. \A i \in 1..Len(t) : t[i].connection = c => i \in 1..Len(s) /\ t[i] = s[i]
    <2> SUFFICES ASSUME NEW i \in 1..Len(t), t[i].connection = c PROVE i \in 1..Len(s)
      OBVIOUS
    <2>1. ~(i \in (Len(s) + 1)..Len(t))
      OBVIOUS
    <2> QED BY <1>1, <2>1
  <1>3. ASSUME InOrder(s, c) PROVE InOrder(t, c)
    <2> USE <1>3
    <2>1. ASSUME NEW i \in 1..Len(t), NEW j \in 1..Len(t), t[i].connection = c, t[j].connection = c, i < j
          PROVE  t[i].id < t[j].id
      <3> USE <2>1
      <3>1. i \in 1..Len(s) /\ j \in 1..Len(s) /\ t[i] = s[i] /\ t[j] = s[j]
        BY <1>2
      <3> QED BY <3>1, InOrderPositions, ZenonT(30)
    <2>2. ASSUME NEW j \in 1..Len(t), t[j].connection = c, NEW n \in 1..(t[j].id - 1)
          PROVE  \E i \in 1..(j - 1) : t[i] = [connection |-> c, id |-> n]
      <3> USE <2>2
      <3>1. j \in 1..Len(s) /\ t[j] = s[j]
        BY <1>2
      <3>2. PICK i \in 1..(j - 1) : s[i] = [connection |-> c, id |-> n]
        BY <3>1, InOrderPositions, ZenonT(30)
      <3>3. i \in 1..Len(s)
        BY <1>1, <3>1
      <3> QED BY <3>2, <3>3
    <2>3. \A i \in 1..Len(t) : \A j \in 1..Len(t) :
             t[i].connection = c /\ t[j].connection = c /\ i < j => t[i].id < t[j].id
      BY <2>1, Zenon
    <2>4. \A j \in 1..Len(t) : t[j].connection = c =>
             \A n \in 1..(t[j].id - 1) :
                \E i \in 1..(j - 1) : t[i] = [connection |-> c, id |-> n]
      BY <2>2, Zenon
    <2> QED BY <2>3, <2>4, InOrderPositions, Zenon
  <1>4. ASSUME NEW m \in Nat, Complete(s, c, m) PROVE Complete(t, c, m)
    <2> USE <1>4
    <2>1. InOrder(t, c)
      BY <1>3 DEF Complete
    <2>2. \A i \in 1..Len(t) : t[i].connection = c => t[i].id <= m
      BY <1>2 DEF Complete
    <2>3. ASSUME NEW n \in 1..m PROVE \E i \in 1..Len(t) : t[i] = [connection |-> c, id |-> n]
      <3>1. PICK i \in 1..Len(s) : s[i] = [connection |-> c, id |-> n]
        BY DEF Complete
      <3>2. i \in 1..Len(t)
        BY <1>1
      <3> QED BY <3>1, <3>2
    <2> QED BY <2>1, <2>2, <2>3, ZenonT(30) DEF Complete
  <1> QED BY <1>3, <1>4

\* A line that the next requests of a connection join.
LEMMA CompleteReceived ==
    ASSUME NEW c \in Connections, NEW m \in Nat, NEW n \in Nat, m <= n, NEW s \in Seq(Request),
           Complete(s, c, m)
    PROVE  Complete(Cat(s, RequestsOf(c, m, n)), c, n)
  <1> DEFINE r == RequestsOf(c, m, n)
             t == Cat(s, r)
             L == Len(s)
  <1>1. /\ r \in Seq(Request) /\ Len(r) = n - m
        /\ \A i \in 1..(n - m) : r[i] = [connection |-> c, id |-> m + i]
    BY RequestsOfType, Zenon
  <1> HIDE DEF r
  <1>2. /\ Len(t) = L + (n - m) /\ L \in Nat
        /\ \A i \in 1..L : t[i] = s[i]
        /\ \A i \in (L + 1)..(L + (n - m)) : t[i] = r[i - L]
    <2>1. r \in Seq(Request)
      BY <1>1
    <2>2. /\ Len(t) = L + Len(r) /\ L \in Nat
          /\ \A i \in 1..L : t[i] = s[i]
          /\ \A i \in (L + 1)..(L + Len(r)) : t[i] = r[i - L]
      BY <2>1, CatType, Zenon
    <2> QED BY <1>1, <2>2
  <1> HIDE DEF t
  <1>3. /\ InOrder(s, c)
        /\ \A i \in 1..L : s[i].connection = c => s[i].id <= m
        /\ \A k \in 1..m : \E i \in 1..L : s[i] = [connection |-> c, id |-> k]
    BY DEF Complete
  <1>4. \A i \in 1..L : s[i].id \in Nat
    <2>1. \A i \in 1..L : s[i] \in Request
      OBVIOUS
    <2> QED BY <2>1 DEF Request
  <1> HIDE DEF L
  <1>5. ASSUME NEW i \in (L + 1)..(L + (n - m))
        PROVE  /\ t[i] = [connection |-> c, id |-> m + (i - L)]
               /\ t[i].id = m + (i - L)
    <2>1. i - L \in 1..(n - m)
      BY <1>2
    <2>2. t[i] = [connection |-> c, id |-> m + (i - L)]
      BY <1>1, <1>2, <2>1
    <2> QED BY <2>2
  <1>6. \A i \in 1..Len(t) : i \in 1..L \/ i \in (L + 1)..(L + (n - m))
    BY <1>2
  <1>7. ASSUME NEW i \in 1..Len(t), NEW j \in 1..Len(t), t[i].connection = c, t[j].connection = c, i < j
        PROVE  t[i].id < t[j].id
    <2> USE <1>7
    <2>1. CASE i \in 1..L /\ j \in 1..L
      BY <1>2, <1>3, <2>1, InOrderPositions, ZenonT(30) DEF L
    <2>2. CASE i \in 1..L /\ j \in (L + 1)..(L + (n - m))
      <3> USE <2>2
      <3>1. t[i].id <= m /\ t[i].id \in Nat
        BY <1>2, <1>3, <1>4
      <3>2. t[j].id = m + (j - L)
        BY <1>5, Zenon
      <3> QED BY <1>2, <3>1, <3>2
    <2>3. CASE i \in (L + 1)..(L + (n - m)) /\ j \in (L + 1)..(L + (n - m))
      <3>1. t[i].id = m + (i - L) /\ t[j].id = m + (j - L)
        BY <1>5, <2>3, Zenon
      <3> QED BY <1>2, <3>1
    <2> QED BY <1>2, <1>6, <2>1, <2>2, <2>3
  <1>8. ASSUME NEW j \in 1..Len(t), t[j].connection = c, NEW k \in 1..(t[j].id - 1)
        PROVE  \E i \in 1..(j - 1) : t[i] = [connection |-> c, id |-> k]
    <2>1. CASE j \in 1..L
      <3> USE <2>1
      <3>1. t[j] = s[j]
        BY <1>2
      <3>2. PICK i \in 1..(j - 1) : s[i] = [connection |-> c, id |-> k]
        BY <1>3, <1>8, <3>1, InOrderPositions, ZenonT(30) DEF L
      <3>3. i \in 1..L
        BY <1>2
      <3> QED BY <1>2, <3>2, <3>3, ZenonT(30)
    <2>2. CASE j \in (L + 1)..(L + (n - m))
      <3> USE <2>2
      <3>1. t[j].id = m + (j - L)
        BY <1>5, Zenon
      <3>2. CASE k <= m
        <4>1. k \in 1..m
          BY <3>2
        <4>2. PICK i \in 1..L : s[i] = [connection |-> c, id |-> k]
          BY <1>3, <4>1, ZenonT(30)
        <4>3. i \in 1..(j - 1) /\ t[i] = s[i]
          BY <1>2
        <4> QED BY <4>2, <4>3
      <3>3. CASE k > m
        <4> DEFINE i == L + (k - m)
        <4>1. i \in (L + 1)..(L + (n - m)) /\ i \in 1..(j - 1) /\ m + (i - L) = k
          BY <1>2, <3>1, <3>3
        <4> HIDE DEF i
        <4>2. t[i] = [connection |-> c, id |-> k]
          BY <1>5, <4>1
        <4> QED BY <4>1, <4>2
      <3> QED BY <3>2, <3>3
    <2> QED BY <1>6, <2>1, <2>2
  <1>9. InOrder(t, c)
    BY <1>7, <1>8, InOrderPositions, ZenonT(30)
  <1>10. ASSUME NEW i \in 1..Len(t), t[i].connection = c PROVE t[i].id <= n
    <2>1. CASE i \in 1..L
      <3>1. t[i].id <= m /\ t[i].id \in Nat
        BY <1>2, <1>3, <1>4, <1>10, <2>1, ZenonT(30)
      <3> QED BY <3>1
    <2>2. CASE i \in (L + 1)..(L + (n - m))
      <3> USE <2>2
      <3>1. t[i].id = m + (i - L)
        BY <1>5, Zenon
      <3> QED BY <1>2, <3>1
    <2> QED BY <1>6, <2>1, <2>2
  <1>11. ASSUME NEW k \in 1..n PROVE \E i \in 1..Len(t) : t[i] = [connection |-> c, id |-> k]
    <2>1. CASE k <= m
      <3>1. k \in 1..m
        BY <2>1
      <3>2. PICK i \in 1..L : s[i] = [connection |-> c, id |-> k]
        BY <1>3, <3>1, ZenonT(30)
      <3>3. i \in 1..Len(t) /\ t[i] = s[i]
        BY <1>2
      <3> QED BY <3>2, <3>3
    <2>2. CASE k > m
      <3> DEFINE i == L + (k - m)
      <3>1. i \in (L + 1)..(L + (n - m)) /\ i \in 1..Len(t) /\ m + (i - L) = k
        BY <1>2, <2>2
      <3> HIDE DEF i
      <3>2. t[i] = [connection |-> c, id |-> k]
        BY <1>5, <3>1
      <3> QED BY <3>1, <3>2
    <2> QED BY <2>1, <2>2
  <1>12. Complete(t, c, n)
    BY <1>9, <1>10, <1>11, ZenonT(30) DEF Complete
  <1> QED BY <1>12 DEF t, r

\* The requests of another connection join the line.
LEMMA CompleteOthersReceived ==
    ASSUME NEW c \in Connections, NEW d \in Connections, c # d, NEW k \in Nat, NEW m \in Nat,
           NEW n \in Nat, m <= n, NEW s \in Seq(Request), Complete(s, c, k)
    PROVE  Complete(Cat(s, RequestsOf(d, m, n)), c, k)
  <1> DEFINE r == RequestsOf(d, m, n)
             t == Cat(s, r)
  <1>1. /\ r \in Seq(Request) /\ Len(r) = n - m
        /\ \A i \in 1..(n - m) : r[i] = [connection |-> d, id |-> m + i]
    BY RequestsOfType, Zenon
  <1> HIDE DEF r
  <1>2. ASSUME NEW i \in 1..Len(r) PROVE r[i].connection = d
    <2>1. r[i] = [connection |-> d, id |-> m + i]
      BY <1>1
    <2> QED BY <2>1
  <1>3. r \in Seq(Request)
    BY <1>1
  <1>4. /\ t \in Seq(Request) /\ Len(t) = Len(s) + Len(r) /\ Len(s) \in Nat /\ Len(r) \in Nat
        /\ \A i \in 1..Len(s) : t[i] = s[i]
        /\ \A i \in (Len(s) + 1)..(Len(s) + Len(r)) : t[i] = r[i - Len(s)]
    BY <1>3, CatType, Zenon
  <1> HIDE DEF t
  <1>5. ASSUME NEW i \in (Len(s) + 1)..Len(t) PROVE t[i].connection # c
    <2>1. i - Len(s) \in 1..Len(r) /\ i \in (Len(s) + 1)..(Len(s) + Len(r))
      BY <1>4
    <2> QED BY <1>2, <1>4, <2>1, Zenon
  <1>6. Len(s) <= Len(t)
    BY <1>4
  <1>7. Complete(t, c, k)
    BY <1>4, <1>5, <1>6, InOrderWithOthers, Zenon
  <1> QED BY <1>7 DEF r, t

\* A connection that is not open any more stays so.
LEMMA OpenShrinks ==
    ASSUME TypeOK, Next, NEW c \in Connections, status'[c] \in {"open", "malformed"}
    PROVE  Open(c)
  <1>1. status \in [Connections -> {"open", "malformed", "closing", "gone"}]
    BY DEF TypeOK, GatewayType
  <1>2. CASE status' = status
    BY <1>2 DEF Open
  <1>3. CASE drain_engine_completions
    BY <1>1, <1>3, CompletionEffect DEF Open
  <1>4. CASE NextToAdmit
    <2>1. CASE Refuse
      BY <1>1, <2>1, Zenon DEF Refuse, Open
    <2>2. CASE Consumed
      BY <1>1, <2>2 DEF Consumed, Open
    <2> QED BY <1>2, <1>4, <2>1, <2>2, AdmitCases, Zenon DEF AllAdmitted, DropPending, PushNext
  <1>5. CASE admit
    <2>1. status' = status \/ Refuse
      BY <1>5 DEF admit
    <2> QED BY <1>1, <1>2, <2>1 DEF Refuse, Open
  <1>6. CASE shutdown_complete_size
    BY <1>1, <1>6 DEF shutdown_complete_size, Open
  <1>7. CASE receive_from
    BY <1>1, <1>7, ZenonT(30) DEF receive_from, Open
  <1>8. CASE Flush
    BY <1>1, <1>8 DEF Flush, Open
  <1>9. CASE \/ begin_shutdown_if_requested \/ not_empty_notify \/ drain_pending_requests
             \/ shutdown_complete \/ LoopBack \/ PollFails
    BY <1>2, <1>9, ZenonT(30) DEF begin_shutdown_if_requested, not_empty_notify, drain_pending_requests,
                      shutdown_complete, LoopBack, PollFails
  <1>10. CASE (\E d \in Connections : VisitClient(d)) \/ \E reported \in SUBSET PollEvents : Poll(reported)
    BY <1>2, <1>10, Zenon DEF VisitClient, Poll
  <1>11. CASE WorkerCode \/ SpuriousWakeup \/ request_stop \/ UNCHANGED vars
    BY <1>2, <1>11, OthersFrame, Zenon
  <1> QED BY <1>3, <1>4, <1>5, <1>6, <1>7, <1>8, <1>9, <1>10, <1>11
          DEF Next, GatewayCode, Returned

\* Only parsed messages or only retained ones wait, never both.
LEMMA WaitingCases ==
    ASSUME TypeOK, GatewayInv
    PROVE  /\ admitted \in Seq(Request) /\ pending_requests \in Seq(Request)
           /\ parsed \in Seq(Request) /\ Waiting \in Seq(Request) /\ Line \in Seq(Request)
           /\ parsed = <<>> => Waiting = pending_requests
           /\ parsed # <<>> => Waiting = parsed
           /\ connection = NoConnection => parsed = <<>>
  <1>1. admitted \in Seq(Request) /\ pending_requests \in Seq(Request) /\ parsed \in Seq(Request)
    BY DEF TypeOK, GatewayType, HistoryType
  <1>2. Waiting \in Seq(Request)
    BY <1>1, CatType, ZenonT(30) DEF Waiting
  <1>3. Line \in Seq(Request)
    BY <1>1, <1>2, CatType DEF Line
  <1>4. parsed = <<>> => Waiting = pending_requests
    BY <1>1, CatEmpty DEF Waiting
  <1>5. parsed # <<>> => Waiting = parsed
    <2>1. parsed # <<>> => pending_requests = <<>>
      BY DEF GatewayInv
    <2> QED BY <1>1, <2>1, CatEmpty DEF Waiting
  <1>6. connection = NoConnection => parsed = <<>>
    BY DEF GatewayInv
  <1> QED BY <1>1, <1>2, <1>3, <1>4, <1>5, <1>6

\* The line, position by position.
LEMMA LinePositions ==
    ASSUME TypeOK, GatewayInv
    PROVE  /\ Len(admitted) \in Nat /\ Len(Waiting) \in Nat
           /\ Len(Line) = Len(admitted) + Len(Waiting)
           /\ \A i \in 1..Len(admitted) : Line[i] = admitted[i]
           /\ \A i \in (Len(admitted) + 1)..(Len(admitted) + Len(Waiting)) :
                 Line[i] = Waiting[i - Len(admitted)]
  <1>1. admitted \in Seq(Request) /\ Waiting \in Seq(Request)
    BY WaitingCases
  <1> QED BY <1>1, CatType, Zenon DEF Line

\* What admit takes is the first of the waiting requests, and its connection is open.
LEMMA AdmitsFirst ==
    ASSUME TypeOK, GatewayInv, admit, ~NoRoom
    PROVE  /\ Waiting # <<>> /\ NextInLine = Head(Waiting) /\ Waiting' = Tail(Waiting)
           /\ NextInLine \in Request /\ Open(NextInLine.connection)
           /\ admitted' = Append(admitted, NextInLine)
           /\ ~shutdown_started /\ UNCHANGED <<shutdown_started, received, status>>
  <1>1. /\ NextInLine \in Request /\ admitted' = Append(admitted, NextInLine) /\ status' = status
        /\ \/ /\ connection = NoConnection /\ pending_requests # <<>>
              /\ Open(Head(pending_requests).connection)
              /\ pending_requests' = Tail(pending_requests) /\ parsed' = parsed
           \/ /\ connection # NoConnection /\ parsed # <<>>
              /\ parsed' = Tail(parsed) /\ pending_requests' = pending_requests
    BY AdmitEffect
  <1>2. ~shutdown_started /\ UNCHANGED <<shutdown_started, received>>
    BY DEF admit, GatewayInv
  <1>3. CASE /\ connection = NoConnection /\ pending_requests # <<>>
             /\ Open(Head(pending_requests).connection)
             /\ pending_requests' = Tail(pending_requests) /\ parsed' = parsed
    <2> USE <1>3
    <2>1. parsed = <<>> /\ Waiting = pending_requests
      BY WaitingCases
    <2>2. Tail(pending_requests) \in Seq(Request)
      BY WaitingCases, HeadAndTail
    <2>3. Waiting' = Tail(pending_requests)
      <3>1. Waiting' = Cat(Tail(pending_requests), <<>>)
        BY <2>1 DEF Waiting
      <3> QED BY <2>2, <3>1, CatEmpty, Zenon
    <2>4. NextInLine = Head(pending_requests)
      BY DEF NextInLine
    <2> QED BY <1>1, <1>2, <2>1, <2>3, <2>4
  <1>4. CASE /\ connection # NoConnection /\ parsed # <<>>
             /\ parsed' = Tail(parsed) /\ pending_requests' = pending_requests
    <2> USE <1>4
    <2>1. pending_requests = <<>> /\ Waiting = parsed /\ Open(connection)
      BY WaitingCases, Zenon DEF GatewayInv
    <2>2. Tail(parsed) \in Seq(Request) /\ Head(parsed) = parsed[1] /\ Len(parsed) \in Nat \ {0}
      BY WaitingCases, HeadAndTail
    <2>3. Head(parsed).connection = connection
      BY <2>2 DEF GatewayInv
    <2>4. Waiting' = Tail(parsed)
      <3>1. Waiting' = Cat(<<>>, Tail(parsed))
        BY <2>1 DEF Waiting
      <3> QED BY <2>2, <3>1, CatEmpty, Zenon
    <2>5. NextInLine = Head(parsed)
      BY DEF NextInLine
    <2> QED BY <1>1, <1>2, <2>1, <2>3, <2>4, <2>5
  <1> QED BY <1>1, <1>3, <1>4

\* A refused message waits on, or its connection is closed and only messages of
\* it are given up.
LEMMA RefuseWaiting ==
    ASSUME ExchangeAssumption, TypeOK, GatewayInv, Candidate, Refuse
    PROVE  \/ Waiting' = Waiting
           \/ /\ connection \in Connections /\ status'[connection] = "closing"
              /\ Waiting' \in Seq(Request) /\ Len(Waiting') <= Len(Waiting)
              /\ \A i \in 1..Len(Waiting') : Waiting'[i] = Waiting[i]
              /\ \A i \in 1..Len(Waiting) : Waiting[i].connection = connection
  <1>1. CASE connection = NoConnection
    BY <1>1 DEF Refuse, Waiting
  <1>2. CASE connection # NoConnection
    <2> USE <1>2
    <2> DEFINE room == MaxPending - Len(pending_requests)
               n == IF room < Len(parsed) THEN room ELSE Len(parsed)
    <2>1. /\ parsed # <<>> /\ pending_requests = <<>> /\ connection \in Connections
          /\ \A i \in 1..Len(parsed) : parsed[i].connection = connection
          /\ parsed \in Seq(Request) /\ Waiting = parsed
      BY WaitingCases, Zenon DEF Candidate, GatewayInv, TypeOK, GatewayType
    <2>2. Len(pending_requests) = 0 /\ Len(parsed) \in Nat /\ MaxPending \in Nat
      BY <2>1 DEF ExchangeAssumption
    <2>3. room = MaxPending
      BY <2>2
    <2>4. n \in 0..Len(parsed) /\ (room < Len(parsed) \/ n = Len(parsed))
      BY <2>2, <2>3
    <2>5. /\ pending_requests' = pending_requests \o SubSeq(parsed, 1, n) /\ parsed' = <<>>
          /\ status' = IF room < Len(parsed) THEN [status EXCEPT ![connection] = "closing"] ELSE status
      BY DEF Refuse
    <2> HIDE DEF n, room
    <2>6. /\ SubSeq(parsed, 1, n) \in Seq(Request) /\ Len(SubSeq(parsed, 1, n)) = n
          /\ \A i \in 1..n : SubSeq(parsed, 1, n)[i] = parsed[i]
      <3>1. 1 \in 1..(Len(parsed) + 1) /\ n \in (1 - 1)..Len(parsed) /\ n \in Nat
        BY <2>2, <2>4
      <3>2. /\ SubSeq(parsed, 1, n) \in Seq(Request) /\ Len(SubSeq(parsed, 1, n)) = n - 1 + 1
            /\ \A i \in 1..(n - 1 + 1) : SubSeq(parsed, 1, n)[i] = parsed[1 + i - 1]
        BY <2>1, <3>1, Part
      <3>3. n - 1 + 1 = n /\ \A i \in 1..n : 1 + i - 1 = i
        BY <3>1
      <3> QED BY <3>2, <3>3
    <2>7. Waiting' = SubSeq(parsed, 1, n)
      <3>1. Waiting' = Cat(Cat(<<>>, SubSeq(parsed, 1, n)), <<>>)
        BY <2>1, <2>5 DEF Waiting, Cat
      <3> QED BY <2>6, <3>1, CatEmpty, Zenon
    <2>8. CASE room < Len(parsed)
      <3>1. status'[connection] = "closing"
        BY <2>1, <2>5, <2>8, Zenon DEF TypeOK, GatewayType
      <3> QED BY <2>1, <2>2, <2>4, <2>6, <2>7, <3>1
    <2>9. CASE n = Len(parsed)
      <3>1. SubSeq(parsed, 1, n) = parsed
        BY <2>1, <2>6, <2>9, SameSequence
      <3> QED BY <2>1, <2>7, <3>1
    <2> QED BY <2>4, <2>8, <2>9
  <1> QED BY <1>1, <1>2

\* Requests of another connection that give up waiting.
LEMMA CompleteDropEnd ==
    ASSUME NEW c \in Connections, NEW m \in Nat, NEW a \in Seq(Request), NEW w \in Seq(Request),
           NEW v \in Seq(Request), Complete(Cat(a, w), c, m)
    PROVE  /\ Len(v) <= Len(w) /\ \A i \in 1..Len(v) : v[i] = w[i]
           /\ \A i \in 1..Len(w) : w[i].connection # c
           => Complete(Cat(a, v), c, m)
  <1> DEFINE s == Cat(a, w)
             t == Cat(a, v)
             g == [i \in 1..Len(t) |-> i]
  <1>1. /\ s \in Seq(Request) /\ Len(a) \in Nat /\ Len(w) \in Nat /\ Len(s) = Len(a) + Len(w)
        /\ \A i \in 1..Len(a) : s[i] = a[i]
        /\ \A i \in (Len(a) + 1)..(Len(a) + Len(w)) : s[i] = w[i - Len(a)]
    BY CatType, Zenon
  <1>2. /\ t \in Seq(Request) /\ Len(v) \in Nat /\ Len(t) = Len(a) + Len(v)
        /\ \A i \in 1..Len(a) : t[i] = a[i]
        /\ \A i \in (Len(a) + 1)..(Len(a) + Len(v)) : t[i] = v[i - Len(a)]
    BY CatType, Zenon
  <1>3. Complete(s, c, m)
    OBVIOUS
  <1>4. ASSUME Len(v) <= Len(w), \A i \in 1..Len(v) : v[i] = w[i],
               \A i \in 1..Len(w) : w[i].connection # c
        PROVE  Complete(t, c, m)
    <2> HIDE DEF s, t
    <2>1. ASSUME NEW i \in 1..Len(t) PROVE i \in 1..Len(s) /\ t[i] = s[i]
      <3>1. i \in 1..Len(s)
        BY <1>1, <1>2, <1>4
      <3>2. CASE i <= Len(a)
        BY <1>1, <1>2, <3>1, <3>2
      <3>3. CASE i > Len(a)
        <4>1. /\ i \in (Len(a) + 1)..(Len(a) + Len(w)) /\ i \in (Len(a) + 1)..(Len(a) + Len(v))
              /\ i - Len(a) \in 1..Len(v)
          BY <1>1, <1>2, <1>4, <3>3
        <4> QED BY <1>1, <1>2, <1>4, <3>1, <4>1, Zenon
      <3> QED BY <1>1, <3>1, <3>2, <3>3
    <2>2. ASSUME NEW k \in 1..Len(s), s[k].connection = c PROVE k \in 1..Len(t)
      <3>1. CASE k > Len(a)
        <4>1. k \in (Len(a) + 1)..(Len(a) + Len(w)) /\ k - Len(a) \in 1..Len(w)
          BY <1>1, <3>1
        <4> QED BY <1>1, <1>4, <2>2, <4>1, Zenon
      <3> QED BY <1>1, <1>2, <3>1
    <2>3. g \in [1..Len(t) -> 1..Len(s)]
      BY <2>1, Zenon
    <2>4. \A i \in 1..Len(t) : t[i] = s[g[i]]
      BY <2>1
    <2>5. \A i \in 1..Len(t) : \A j \in 1..Len(t) : i < j => g[i] < g[j]
      OBVIOUS
    <2>6. \A k \in 1..Len(s) : s[k].connection = c => \E i \in 1..Len(t) : g[i] = k
      BY <2>2
    <2> HIDE DEF g
    <2>7. s \in Seq(Request) /\ t \in Seq(Request)
      BY <1>1, <1>2
    <2> QED BY <1>3, <2>3, <2>4, <2>5, <2>6, <2>7, CompleteWithoutOthers, Zenon
  <1> QED BY <1>4

LEMMA CompleteDropFirst ==
    ASSUME NEW c \in Connections, NEW m \in Nat, NEW a \in Seq(Request), NEW w \in Seq(Request),
           w # <<>>, Head(w).connection # c, Complete(Cat(a, w), c, m)
    PROVE  Complete(Cat(a, Tail(w)), c, m)
  <1> DEFINE s == Cat(a, w)
             v == Tail(w)
             t == Cat(a, v)
             g == [i \in 1..Len(t) |-> IF i <= Len(a) THEN i ELSE i + 1]
  <1>1. /\ s \in Seq(Request) /\ Len(a) \in Nat /\ Len(w) \in Nat /\ Len(s) = Len(a) + Len(w)
        /\ \A i \in 1..Len(a) : s[i] = a[i]
        /\ \A i \in (Len(a) + 1)..(Len(a) + Len(w)) : s[i] = w[i - Len(a)]
    BY CatType, Zenon
  <1>2. /\ v \in Seq(Request) /\ Len(w) # 0 /\ Len(v) = Len(w) - 1 /\ w[1].connection # c
        /\ \A i \in 1..Len(v) : v[i] = w[i + 1]
    BY HeadAndTail
  <1> HIDE DEF v
  <1>3. /\ t \in Seq(Request) /\ Len(v) \in Nat /\ Len(t) = Len(a) + Len(v)
        /\ \A i \in 1..Len(a) : t[i] = a[i]
        /\ \A i \in (Len(a) + 1)..(Len(a) + Len(v)) : t[i] = v[i - Len(a)]
    BY <1>2, CatType, Zenon
  <1>4. Complete(s, c, m)
    OBVIOUS
  <1> HIDE DEF s, t
  <1>5. ASSUME NEW i \in 1..Len(t) PROVE g[i] \in 1..Len(s) /\ t[i] = s[g[i]]
    <2>1. CASE i <= Len(a)
      <3>1. g[i] = i /\ i \in 1..Len(a)
        BY <1>1, <2>1
      <3> QED BY <1>1, <1>3, <3>1
    <2>2. CASE i > Len(a)
      <3> USE <2>2
      <3>1. g[i] = i + 1
        BY <1>1
      <3>2. /\ i \in (Len(a) + 1)..(Len(a) + Len(v)) /\ i + 1 \in (Len(a) + 1)..(Len(a) + Len(w))
            /\ i - Len(a) \in 1..Len(v) /\ (i + 1) - Len(a) = (i - Len(a)) + 1 /\ i + 1 \in 1..Len(s)
        BY <1>1, <1>2, <1>3
      <3> HIDE DEF g
      <3>3. t[i] = w[(i - Len(a)) + 1] /\ s[i + 1] = w[(i + 1) - Len(a)]
        BY <1>1, <1>2, <1>3, <3>2, Zenon
      <3> QED BY <3>1, <3>2, <3>3
    <2> QED BY <1>1, <2>1, <2>2
  <1>6. ASSUME NEW k \in 1..Len(s), s[k].connection = c PROVE \E i \in 1..Len(t) : g[i] = k
    <2>1. CASE k <= Len(a)
      <3>1. k \in 1..Len(t) /\ g[k] = k
        BY <1>1, <1>3, <2>1
      <3> QED BY <3>1
    <2>2. CASE k = Len(a) + 1
      <3>1. k \in (Len(a) + 1)..(Len(a) + Len(w)) /\ k - Len(a) = 1
        BY <1>1, <1>2, <2>2
      <3>2. s[k] = w[k - Len(a)]
        BY <1>1, <3>1
      <3> QED BY <1>2, <1>6, <3>1, <3>2
    <2>3. CASE k > Len(a) + 1
      <3>1. k - 1 \in 1..Len(t) /\ k - 1 > Len(a) /\ (k - 1) + 1 = k
        BY <1>1, <1>2, <1>3, <2>3
      <3>2. g[k - 1] = k
        BY <1>1, <3>1
      <3> QED BY <3>1, <3>2
    <2> QED BY <1>1, <2>1, <2>2, <2>3
  <1>7. g \in [1..Len(t) -> 1..Len(s)]
    <2>1. \A i \in 1..Len(t) : (IF i <= Len(a) THEN i ELSE i + 1) \in 1..Len(s)
      BY <1>1, <1>2, <1>3
    <2> QED BY <2>1
  <1>8. \A i \in 1..Len(t) : \A j \in 1..Len(t) : i < j => g[i] < g[j]
    BY <1>1, <1>3
  <1> HIDE DEF g
  <1>9. s \in Seq(Request) /\ t \in Seq(Request)
    BY <1>1, <1>3
  <1>10. \A i \in 1..Len(t) : t[i] = s[g[i]]
    BY <1>5
  <1>11. \A k \in 1..Len(s) : s[k].connection = c => \E i \in 1..Len(t) : g[i] = k
    BY <1>6
  <1>12. Complete(t, c, m)
    BY <1>4, <1>7, <1>8, <1>9, <1>10, <1>11, CompleteWithoutOthers, ZenonT(30)
  <1> QED BY <1>12 DEF t, v

\* The steps that neither admit nor touch what waits for admission.
LEMMA LineFrame ==
    ASSUME Next
    PROVE  \/ UNCHANGED <<admitted, pending_requests, parsed, received, shutdown_started>>
           \/ begin_shutdown_if_requested /\ admitted' = admitted /\ shutdown_started'
           \/ NextToAdmit /\ UNCHANGED <<admitted, received, shutdown_started>>
           \/ admit
           \/ receive_from /\ UNCHANGED <<admitted, pending_requests, shutdown_started>>
  <1>1. CASE WorkerCode \/ SpuriousWakeup \/ request_stop \/ UNCHANGED vars
    BY <1>1, OthersFrame, Zenon
  <1>2. CASE \/ not_empty_notify \/ drain_engine_completions \/ drain_pending_requests
             \/ shutdown_complete \/ shutdown_complete_size \/ LoopBack \/ Flush \/ PollFails
    BY <1>2, Zenon DEF not_empty_notify, drain_engine_completions, drain_pending_requests,
                shutdown_complete, shutdown_complete_size, LoopBack, Flush, PollFails, loop_vars,
                history
  <1>3. CASE (\E d \in Connections : VisitClient(d)) \/ \E reported \in SUBSET PollEvents : Poll(reported)
    BY <1>3, Zenon DEF VisitClient, Poll, history
  <1>4. CASE begin_shutdown_if_requested
    BY <1>4 DEF begin_shutdown_if_requested, loop_vars, history
  <1>5. CASE NextToAdmit
    BY <1>5 DEF NextToAdmit, history
  <1>6. CASE receive_from
    BY <1>6 DEF receive_from
  <1> QED BY <1>1, <1>2, <1>3, <1>4, <1>5, <1>6 DEF Next, GatewayCode, Returned

\* A step keeps the requests of every connection in order.
LEMMA LineStep ==
    ASSUME ExchangeAssumption, TypeOK, GatewayInv, LineInv, Next
    PROVE  LineInv'
  <1>1. /\ admitted \in Seq(Request) /\ Waiting \in Seq(Request) /\ Line \in Seq(Request)
        /\ \A c \in Connections : received[c] \in Nat
    BY WaitingCases DEF TypeOK, HistoryType
  <1>2. AdmissionInOrder'
    <2>1. CASE admitted' = admitted
      BY <2>1 DEF LineInv, AdmissionInOrder
    <2>2. CASE admit /\ ~NoRoom
      <3>1. /\ Waiting # <<>> /\ NextInLine = Head(Waiting)
            /\ NextInLine \in Request /\ Open(NextInLine.connection)
            /\ admitted' = Append(admitted, NextInLine) /\ ~shutdown_started
        BY <2>2, AdmitsFirst
      <3>2. /\ admitted' \in Seq(Request) /\ Len(admitted') = Len(admitted) + 1
            /\ \A i \in 1..Len(admitted) : admitted'[i] = admitted[i]
            /\ admitted'[Len(admitted) + 1] = NextInLine /\ Len(admitted) \in Nat
        BY <1>1, <3>1, Appended
      <3>3. ASSUME NEW c \in Connections, c # NextInLine.connection PROVE InOrder(admitted', c)
        <4>1. InOrder(admitted, c)
          BY DEF LineInv, AdmissionInOrder
        <4>2. \A i \in (Len(admitted) + 1)..Len(admitted') : admitted'[i].connection # c
          BY <3>2, <3>3
        <4>3. Len(admitted) <= Len(admitted')
          BY <3>2
        <4> QED BY <1>1, <3>2, <4>1, <4>2, <4>3, InOrderWithOthers, Zenon
      <3>4. ASSUME NEW c \in Connections, c = NextInLine.connection PROVE InOrder(admitted', c)
        <4>1. InOrder(Line, c)
          BY <3>1, <3>4 DEF LineInv, Complete
        <4>2. /\ Len(Waiting) \in Nat \ {0} /\ Waiting[1] = NextInLine
          BY <1>1, <3>1, HeadAndTail
        <4>3. /\ Len(Line) = Len(admitted) + Len(Waiting)
              /\ \A i \in 1..Len(admitted) : Line[i] = admitted[i]
              /\ \A i \in (Len(admitted) + 1)..(Len(admitted) + Len(Waiting)) :
                    Line[i] = Waiting[i - Len(admitted)]
          BY LinePositions
        <4>4. Len(admitted') <= Len(Line)
          BY <3>2, <4>2, <4>3
        <4>5. ASSUME NEW i \in 1..Len(admitted') PROVE admitted'[i] = Line[i]
          <5>1. CASE i \in 1..Len(admitted)
            BY <3>2, <4>3, <5>1
          <5>2. CASE i = Len(admitted) + 1
            <6>1. i \in (Len(admitted) + 1)..(Len(admitted) + Len(Waiting)) /\ i - Len(admitted) = 1
              BY <3>2, <4>2, <5>2
            <6>2. Line[i] = Waiting[i - Len(admitted)]
              BY <4>3, <6>1
            <6> QED BY <3>2, <4>2, <5>2, <6>1, <6>2
          <5> QED BY <3>2, <5>1, <5>2
        <4> QED BY <1>1, <3>2, <4>1, <4>4, <4>5, InOrderPrefix
      <3> QED BY <3>3, <3>4 DEF AdmissionInOrder
    <2>3. CASE admit /\ NoRoom
      BY <2>1, <2>3, AdmitEffect
    <2> QED BY <2>1, <2>2, <2>3, LineFrame
  <1>3. ASSUME ~shutdown_started', NEW c \in Connections, status'[c] \in {"open", "malformed"}
        PROVE  Complete(Line', c, received'[c])
    <2>1. Open(c)
      BY <1>3, OpenShrinks
    <2>2. ~shutdown_started
      BY <1>3, LineFrame, ZenonT(30) DEF admit
    <2>3. Complete(Cat(admitted, Waiting), c, received[c]) /\ received[c] \in Nat
      BY <1>1, <2>1, <2>2 DEF LineInv, Line
    <2>4. CASE Waiting' = Waiting /\ UNCHANGED <<admitted, received>>
      BY <2>3, <2>4 DEF Line
    <2>5. CASE UNCHANGED <<admitted, pending_requests, parsed, received>>
      BY <2>4, <2>5 DEF Waiting
    <2>6. CASE Candidate /\ Refuse /\ UNCHANGED <<admitted, received>>
      <3>1. CASE /\ connection \in Connections /\ status'[connection] = "closing"
                 /\ Waiting' \in Seq(Request) /\ Len(Waiting') <= Len(Waiting)
                 /\ \A i \in 1..Len(Waiting') : Waiting'[i] = Waiting[i]
                 /\ \A i \in 1..Len(Waiting) : Waiting[i].connection = connection
        <4>1. c # connection
          BY <1>3, <3>1
        <4>2. \A i \in 1..Len(Waiting) : Waiting[i].connection # c
          BY <3>1, <4>1
        <4> DEFINE v == Waiting'
        <4>3. /\ v \in Seq(Request) /\ Len(v) <= Len(Waiting)
              /\ \A i \in 1..Len(v) : v[i] = Waiting[i]
          BY <3>1
        <4> HIDE DEF v
        <4>4. Complete(Cat(admitted, v), c, received[c])
          BY <1>1, <2>3, <4>2, <4>3, CompleteDropEnd, Zenon
        <4> QED BY <2>6, <4>4 DEF Line, v
      <3> QED BY <2>4, <2>6, <3>1, RefuseWaiting, ZenonT(30)
    <2>7. CASE NextToAdmit /\ UNCHANGED <<admitted, received>>
      <3>1. CASE DropPending
        <4>1. /\ parsed = <<>> /\ parsed' = <<>> /\ pending_requests # <<>> /\ Waiting = pending_requests
              /\ ~Open(Head(pending_requests).connection)
              /\ pending_requests' = Tail(pending_requests)
          BY <3>1, WaitingCases DEF DropPending
        <4>2. Tail(Waiting) \in Seq(Request)
          BY <1>1, <4>1, HeadAndTail
        <4>3. Waiting' = Tail(Waiting)
          <5>1. Waiting' = Cat(Tail(Waiting), <<>>)
            BY <4>1 DEF Waiting
          <5> QED BY <4>2, <5>1, CatEmpty, Zenon
        <4>4. Head(Waiting).connection # c
          BY <2>1, <4>1
        <4>5. Complete(Cat(admitted, Tail(Waiting)), c, received[c])
          BY <1>1, <2>3, <4>1, <4>4, CompleteDropFirst
        <4> QED BY <2>7, <4>3, <4>5 DEF Line
      <3>2. CASE AllAdmitted \/ Consumed \/ PushNext
        BY <2>5, <2>7, <3>2 DEF AllAdmitted, Consumed, PushNext
      <3> QED BY <2>6, <2>7, <3>1, <3>2, AdmitCases
    <2>8. CASE admit
      <3>1. CASE NoRoom
        <4>1. Candidate
          BY <2>8 DEF admit, GatewayInv, Candidate
        <4>2. Refuse /\ UNCHANGED <<admitted, received>>
          BY <2>8, <3>1, AdmitEffect DEF admit
        <4> QED BY <2>6, <4>1, <4>2
      <3>2. CASE ~NoRoom
        <4>1. /\ Waiting # <<>> /\ NextInLine = Head(Waiting) /\ Waiting' = Tail(Waiting)
              /\ admitted' = Append(admitted, NextInLine) /\ received' = received
          BY <2>8, <3>2, AdmitsFirst
        <4>2. Cat(Append(admitted, Head(Waiting)), Tail(Waiting)) = Cat(admitted, Waiting)
          BY <1>1, <4>1, CatShift
        <4>3. Line' = Cat(admitted, Waiting)
          BY <4>1, <4>2 DEF Line
        <4> QED BY <2>3, <4>1, <4>3
      <3> QED BY <3>1, <3>2
    <2>9. CASE receive_from /\ UNCHANGED <<admitted, pending_requests>>
      <3>1. CASE UNCHANGED <<parsed, received>>
        BY <2>5, <2>9, <3>1
      <3>2. CASE ~UNCHANGED <<parsed, received>>
        <4>1. PICK n \in received[connection]..MaxRequests[connection] :
                 /\ parsed' = RequestsOf(connection, received[connection], n)
                 /\ received' = [received EXCEPT ![connection] = n]
                 /\ ~reads_paused
          BY <2>9, <3>2 DEF receive_from
        <4>2. /\ connection \in Connections /\ parsed = <<>> /\ pending_requests = <<>>
          BY <2>9, <4>1, Zenon DEF receive_from, GatewayInv, TypeOK, GatewayType
        <4>3. n \in Nat /\ received[connection] \in Nat /\ received[connection] <= n
          BY <1>1, <4>1, <4>2 DEF ExchangeAssumption
        <4> DEFINE r == RequestsOf(connection, received[connection], n)
        <4>4. /\ r \in Seq(Request) /\ Len(r) = n - received[connection]
              /\ \A i \in 1..(n - received[connection]) :
                    r[i] = [connection |-> connection, id |-> received[connection] + i]
          BY <4>2, <4>3, RequestsOfType, Zenon
        <4>5. Waiting = <<>>
          BY <4>2, WaitingCases
        <4>6. Complete(admitted, c, received[c])
          <5>1. Cat(admitted, <<>>) = admitted
            BY <1>1, CatEmpty
          <5> QED BY <2>3, <4>5, <5>1
        <4>7. Waiting' = r
          <5>1. Waiting' = Cat(<<>>, r)
            BY <2>9, <4>1, <4>2 DEF Waiting
          <5> QED BY <4>4, <5>1, CatEmpty
        <4>8. CASE c = connection
          <5>1. Complete(Cat(admitted, r), c, n)
            BY <1>1, <4>3, <4>6, <4>8, CompleteReceived
          <5>2. received'[c] = n
            BY <4>1, <4>8 DEF TypeOK, HistoryType
          <5> HIDE DEF r
          <5> QED BY <2>9, <4>7, <5>1, <5>2 DEF Line
        <4>9. CASE c # connection
          <5>1. Complete(Cat(admitted, r), c, received[c])
            BY <1>1, <4>2, <4>3, <4>6, <4>9, CompleteOthersReceived
          <5>2. received'[c] = received[c]
            BY <4>1, <4>9 DEF TypeOK, HistoryType
          <5> HIDE DEF r
          <5> QED BY <2>9, <4>7, <5>1, <5>2 DEF Line
        <4> QED BY <4>8, <4>9
      <3> QED BY <3>1, <3>2
    <2> QED BY <1>3, <2>5, <2>7, <2>8, <2>9, LineFrame
  <1> QED BY <1>2, <1>3 DEF LineInv, Open

-----------------------------------------------------------------------------
(* Responses, when the worker throws nothing *)

\* The requests of a queue of responses, element by element.
LEMMA RequestsInType ==
    ASSUME NEW s \in Seq(Response)
    PROVE  /\ RequestsIn(s) \in Seq(Request) /\ Len(RequestsIn(s)) = Len(s) /\ Len(s) \in Nat
           /\ \A i \in 1..Len(s) : RequestsIn(s)[i] = s[i].request /\ s[i].request \in Request
  <1>1. \A i \in 1..Len(s) : s[i].request \in Request
    <2>1. \A i \in 1..Len(s) : s[i] \in Response
      OBVIOUS
    <2> QED BY <2>1 DEF Response
  <1> QED BY <1>1 DEF RequestsIn

LEMMA RequestsInAppend ==
    ASSUME NEW s \in Seq(Response), NEW r \in Response
    PROVE  RequestsIn(Append(s, r)) = Append(RequestsIn(s), r.request) /\ r.request \in Request
  <1> DEFINE t == Append(s, r)
             x == RequestsIn(s)
             y == RequestsIn(t)
             q == r.request
  <1>1. q \in Request
    BY DEF Response
  <1>2. /\ t \in Seq(Response) /\ Len(s) \in Nat /\ Len(t) = Len(s) + 1
        /\ \A i \in 1..Len(s) : t[i] = s[i]
        /\ t[Len(s) + 1] = r
    BY Appended
  <1> HIDE DEF t
  <1>3. x \in Seq(Request) /\ Len(x) = Len(s) /\ \A i \in 1..Len(s) : x[i] = s[i].request
    BY RequestsInType
  <1>4. y \in Seq(Request) /\ Len(y) = Len(t) /\ \A i \in 1..Len(t) : y[i] = t[i].request
    BY <1>2, RequestsInType
  <1> HIDE DEF x, y
  <1>5. /\ Append(x, q) \in Seq(Request) /\ Len(Append(x, q)) = Len(x) + 1
        /\ \A i \in 1..Len(x) : Append(x, q)[i] = x[i]
        /\ Append(x, q)[Len(x) + 1] = q
    BY <1>1, <1>3, Appended
  <1>6. ASSUME NEW i \in 1..Len(y) PROVE y[i] = Append(x, q)[i]
    <2>1. CASE i \in 1..Len(s)
      BY <1>2, <1>3, <1>4, <1>5, <2>1
    <2>2. CASE i = Len(s) + 1
      BY <1>2, <1>3, <1>4, <1>5, <2>2
    <2>3. i \in 1..(Len(s) + 1)
      BY <1>2, <1>4
    <2>4. i \in 1..Len(s) \/ i = Len(s) + 1
      BY <1>2, <2>3
    <2> QED BY <2>1, <2>2, <2>4, Zenon
  <1>7. Len(y) = Len(Append(x, q))
    BY <1>2, <1>3, <1>4, <1>5
  <1>8. y = Append(x, q)
    BY <1>4, <1>5, <1>6, <1>7, SameSequence
  <1> QED BY <1>1, <1>8 DEF x, y, t

LEMMA RequestsInTail ==
    ASSUME NEW s \in Seq(Response), s # <<>>
    PROVE  /\ RequestsIn(s) # <<>> /\ Head(RequestsIn(s)) = Head(s).request
           /\ RequestsIn(Tail(s)) = Tail(RequestsIn(s))
  <1> DEFINE t == Tail(s)
             x == RequestsIn(s)
             y == RequestsIn(t)
  <1>1. /\ t \in Seq(Response) /\ Head(s) = s[1] /\ Len(s) \in Nat \ {0} /\ Len(t) = Len(s) - 1
        /\ \A i \in 1..Len(t) : t[i] = s[i + 1]
    BY HeadAndTail
  <1> HIDE DEF t
  <1>2. x \in Seq(Request) /\ Len(x) = Len(s) /\ \A i \in 1..Len(s) : x[i] = s[i].request
    BY RequestsInType
  <1>3. y \in Seq(Request) /\ Len(y) = Len(t) /\ \A i \in 1..Len(t) : y[i] = t[i].request
    BY <1>1, RequestsInType
  <1> HIDE DEF x, y
  <1>4. x # <<>>
    BY <1>1, <1>2
  <1>5. /\ Tail(x) \in Seq(Request) /\ Head(x) = x[1] /\ Len(Tail(x)) = Len(x) - 1
        /\ \A i \in 1..Len(Tail(x)) : Tail(x)[i] = x[i + 1]
    BY <1>2, <1>4, HeadAndTail
  <1>6. ASSUME NEW i \in 1..Len(y) PROVE y[i] = Tail(x)[i]
    <2>1. i \in 1..Len(t) /\ i + 1 \in 1..Len(s) /\ i \in 1..Len(Tail(x))
      BY <1>1, <1>2, <1>3, <1>5
    <2> QED BY <1>1, <1>2, <1>3, <1>5, <2>1
  <1>7. Len(y) = Len(Tail(x))
    BY <1>1, <1>2, <1>3, <1>5
  <1>8. y = Tail(x)
    BY <1>3, <1>5, <1>6, <1>7, SameSequence
  <1>9. Head(x) = Head(s).request
    BY <1>1, <1>2, <1>5
  <1> QED BY <1>4, <1>8, <1>9 DEF x, y, t

\* Nothing admitted is lost, doubled or overtaken on its way to its response.
LEMMA ResponseStep ==
    ASSUME ~WorkerThrows, TypeOK, NeverTerminates', GatewayInv, WorkerInv, ExactlyOneResponse, Next
    PROVE  ExactlyOneResponse'
  <1> DEFINE A == RequestsIn(answered)
             R == RequestsIn(response_queue)
             B == batch
             Q == request_queue
  <1>1. answered \in Seq(Response) /\ response_queue \in Seq(Response)
    BY DEF TypeOK, SharedType, HistoryType
  <1>2. A \in Seq(Request) /\ R \in Seq(Request) /\ B \in Seq(Request) /\ Q \in Seq(Request)
    BY <1>1, RequestsInType DEF TypeOK, SharedType, WorkerType
  <1>3. admitted = Cat(Cat(Cat(A, R), B), Q)
    BY DEF ExactlyOneResponse, Cat
  <1>4. SUFFICES admitted' = Cat(Cat(Cat(A', R'), B'), Q')
    BY DEF ExactlyOneResponse, Cat
  <1>5. Cat(A, R) \in Seq(Request) /\ Cat(Cat(A, R), B) \in Seq(Request)
    <2> HIDE DEF A, R, B, Q
    <2>1. Cat(A, R) \in Seq(Request)
      BY <1>2, CatType
    <2> QED BY <1>2, <2>1, CatType
  <1>6. CASE UNCHANGED <<admitted, answered, response_queue, batch, request_queue>>
    BY <1>3, <1>6
  <1>7. CASE drain_engine_completions /\ response_queue # <<>>
    <2> USE <1>7
    <2>1. /\ answered' = Append(answered, Head(response_queue))
          /\ response_queue' = Tail(response_queue)
          /\ UNCHANGED <<admitted, batch, request_queue>>
      BY DEF drain_engine_completions, worker_vars
    <2>2. Head(response_queue) \in Response
      BY <1>1, HeadAndTail
    <2>3. /\ R # <<>> /\ A' = Append(A, Head(R)) /\ R' = Tail(R)
      BY <1>1, <2>1, <2>2, RequestsInAppend, RequestsInTail, Zenon
    <2>4. B' = B /\ Q' = Q
      BY <2>1
    <2> HIDE DEF A, R, B, Q
    <2>5. Cat(Append(A, Head(R)), Tail(R)) = Cat(A, R)
      BY <1>2, <2>3, CatShift
    <2> QED BY <1>3, <2>1, <2>3, <2>4, <2>5
  <1>8. CASE admit
    <2> USE <1>8
    <2>1. UNCHANGED <<answered, response_queue, batch>>
      BY DEF admit, worker_vars
    <2>2. CASE UNCHANGED <<request_queue, admitted>>
      BY <1>6, <2>1, <2>2
    <2>3. CASE /\ NextInLine \in Request
               /\ request_queue' = Append(request_queue, NextInLine)
               /\ admitted' = Append(admitted, NextInLine)
      <3> USE <2>3
      <3>1. A' = A /\ R' = R /\ B' = B /\ Q' = Append(Q, NextInLine)
        BY <2>1
      <3> HIDE DEF A, R, B, Q
      <3>2. Append(Cat(Cat(Cat(A, R), B), Q), NextInLine) = Cat(Cat(Cat(A, R), B), Append(Q, NextInLine))
        BY <1>2, <1>5, CatAppend
      <3> QED BY <1>3, <3>1, <3>2
    <2> QED BY <2>2, <2>3, AdmitEffect
  <1>9. CASE /\ Q # <<>> /\ B' = Append(B, Head(Q)) /\ Q' = Tail(Q)
             /\ UNCHANGED <<admitted, answered, response_queue>>
    <2> USE <1>9
    <2>1. A' = A /\ R' = R
      OBVIOUS
    <2> HIDE DEF A, R, B, Q
    <2>2. Cat(Cat(Cat(A, R), Append(B, Head(Q))), Tail(Q)) = Cat(Cat(Cat(A, R), B), Q)
      BY <1>2, <1>5, CatShiftBehind
    <2> QED BY <1>3, <2>1, <2>2
  <1>10. CASE wait_pop
    <2> USE <1>10
    <2>1. UNCHANGED <<admitted, answered, response_queue>> /\ batch = <<>>
      BY DEF wait_pop, history, WorkerInv
    <2>2. \/ UNCHANGED <<batch, request_queue>>
          \/ /\ request_queue # <<>> /\ batch' = <<Head(request_queue)>>
             /\ request_queue' = Tail(request_queue)
      BY DEF wait_pop
    <2>3. batch' = <<Head(request_queue)>> => batch' = Append(batch, Head(request_queue))
      BY <2>1
    <2> QED BY <1>6, <1>9, <2>1, <2>2, <2>3
  <1>11. CASE Drain
    <2> USE <1>11
    <2>1. UNCHANGED <<admitted, answered, response_queue>>
      BY DEF Drain, history
    <2>2. \/ UNCHANGED <<batch, request_queue>>
          \/ /\ request_queue # <<>> /\ batch' = Append(batch, Head(request_queue))
             /\ request_queue' = Tail(request_queue)
      BY DEF Drain
    <2> QED BY <1>6, <1>9, <2>1, <2>2
  <1>12. CASE publish
    <2> DEFINE r == [request |-> Head(batch), outcome |-> outcome]
    <2>1. /\ UNCHANGED <<admitted, answered, request_queue>> /\ batch # <<>>
          /\ response_queue' = Append(response_queue, r) /\ batch' = Tail(batch)
      BY <1>12 DEF publish, NeverTerminates, history, WorkerInv
    <2>2. r \in Response /\ r.request = Head(B)
      <3>1. Head(batch) \in Request
        BY <1>2, <2>1, HeadAndTail
      <3> QED BY <3>1 DEF Response, TypeOK, WorkerType
    <2> HIDE DEF r
    <2>3. R' = Append(R, Head(B)) /\ A' = A /\ B' = Tail(B) /\ Q' = Q
      BY <1>1, <2>1, <2>2, RequestsInAppend
    <2>4. B # <<>>
      BY <2>1
    <2> HIDE DEF A, R, B, Q
    <2>5. Cat(Cat(A, Append(R, Head(B))), Tail(B)) = Cat(Cat(A, R), B)
      BY <1>2, <2>4, CatShiftBehind
    <2> QED BY <1>3, <2>1, <2>3, <2>5
  <1>13. CASE Reserve \/ execute_and_publish_batch \/ enter_fail_stop \/ notify \/ CloseResponses
    BY <1>6, <1>13, Zenon DEF Reserve, execute_and_publish_batch, enter_fail_stop, notify, CloseResponses,
                       shared, history
  <1>14. CASE not_empty_notify \/ SpuriousWakeup \/ begin_shutdown_if_requested
    BY <1>6, <1>14 DEF not_empty_notify, SpuriousWakeup, begin_shutdown_if_requested, shared,
                       history, worker_vars
  <1>15. CASE Quiet \/ UNCHANGED vars
    BY <1>6, <1>15, QuietFrame DEF vars, shared, worker_vars, history
  <1>16. CASE drain_engine_completions /\ response_queue = <<>>
    BY <1>6, <1>16 DEF drain_engine_completions, worker_vars
  <1> QED BY <1>7, <1>8, <1>10, <1>11, <1>12, <1>13, <1>14, <1>15, <1>16, NextCases DEF WorkerCode

\* What is answered is the beginning of what is admitted, and a response about
\* to be drained is the next.
LEMMA AnsweredFirst ==
    ASSUME TypeOK, ExactlyOneResponse, response_queue # <<>>
    PROVE  LET t == Append(RequestsIn(answered), Head(response_queue).request) IN
           /\ t \in Seq(Request) /\ Len(t) <= Len(admitted)
           /\ \A i \in 1..Len(t) : t[i] = admitted[i]
  <1> DEFINE A == RequestsIn(answered)
             R == RequestsIn(response_queue)
             B == batch
             Q == request_queue
             h == Head(R)
             t == Append(A, h)
             u == Tail(R)
  <1>1. answered \in Seq(Response) /\ response_queue \in Seq(Response)
    BY DEF TypeOK, SharedType, HistoryType
  <1>2. A \in Seq(Request) /\ R \in Seq(Request) /\ B \in Seq(Request) /\ Q \in Seq(Request)
    BY <1>1, RequestsInType DEF TypeOK, SharedType, WorkerType
  <1>3. R # <<>> /\ h = Head(response_queue).request
    BY <1>1, RequestsInTail
  <1>4. admitted = Cat(Cat(Cat(A, R), B), Q)
    BY DEF ExactlyOneResponse, Cat
  <1> HIDE DEF A, R, B, Q
  <1>5. Cat(t, u) = Cat(A, R)
    BY <1>2, <1>3, CatShift
  <1>6. h \in Request /\ u \in Seq(Request)
    BY <1>2, <1>3, HeadAndTail
  <1>7. t \in Seq(Request)
    BY <1>2, <1>6, Appended
  <1> HIDE DEF t, u, h
  <1> DEFINE x == Cat(t, u)
             y == Cat(x, B)
             z == Cat(y, Q)
  <1>8. /\ x \in Seq(Request) /\ Len(t) \in Nat /\ Len(u) \in Nat /\ Len(x) = Len(t) + Len(u)
        /\ \A i \in 1..Len(t) : x[i] = t[i]
    BY <1>6, <1>7, CatType
  <1>9. x \in Seq(Request) /\ B \in Seq(Request) /\ Q \in Seq(Request)
    BY <1>2, <1>8
  <1> HIDE DEF x
  <1>10. /\ y \in Seq(Request) /\ Len(B) \in Nat /\ Len(y) = Len(x) + Len(B)
         /\ \A i \in 1..Len(x) : y[i] = x[i]
    BY <1>9, CatType
  <1>11. y \in Seq(Request)
    BY <1>10
  <1> HIDE DEF y
  <1>12. /\ Len(Q) \in Nat /\ Len(z) = Len(y) + Len(Q)
         /\ \A i \in 1..Len(y) : z[i] = y[i]
    BY <1>9, <1>11, CatType
  <1> HIDE DEF z
  <1>13. Len(t) <= Len(x) /\ Len(x) <= Len(y) /\ Len(y) <= Len(z) /\ Len(t) <= Len(z)
    BY <1>8, <1>10, <1>12
  <1>14. \A i \in 1..Len(t) : i \in 1..Len(x) /\ i \in 1..Len(y)
    BY <1>8, <1>10, <1>13
  <1>15. \A i \in 1..Len(t) : t[i] = z[i]
    BY <1>8, <1>10, <1>12, <1>14
  <1>16. admitted = z
    BY <1>4, <1>5 DEF x, y, z
  <1> QED BY <1>3, <1>7, <1>13, <1>15, <1>16 DEF t, A

\* A response to the next request of a connection: nothing is left out, since the
\* requests admitted before it are answered.
LEMMA CompleteAnswered ==
    ASSUME NEW s \in Seq(Request), NEW q \in Request, NEW m \in Nat,
           Complete(s, q.connection, m), InOrder(Append(s, q), q.connection)
    PROVE  q.id = m + 1 /\ Complete(Append(s, q), q.connection, m + 1)
  <1> DEFINE c == q.connection
             t == Append(s, q)
             L == Len(s)
  <1>1. /\ t \in Seq(Request) /\ L \in Nat /\ Len(t) = L + 1
        /\ \A i \in 1..L : t[i] = s[i]
        /\ t[L + 1] = q
    BY Appended
  <1>2. /\ \A i \in 1..L : s[i].connection = c => s[i].id <= m
        /\ \A n \in 1..m : \E i \in 1..L : s[i] = [connection |-> c, id |-> n]
    BY DEF Complete
  <1>3. InOrder(t, c) /\ c \in Connections /\ q.id \in Nat \ {0} /\ q = [connection |-> c, id |-> q.id]
    BY DEF Request
  <1> HIDE DEF c, t, L
  <1>4. L + 1 \in 1..Len(t) /\ t[L + 1].connection = c /\ t[L + 1].id = q.id
    <2>1. L + 1 \in 1..Len(t)
      BY <1>1
    <2> QED BY <1>1, <2>1, Zenon DEF c
  <1>5. q.id > m
    <2> SUFFICES ASSUME q.id <= m PROVE FALSE
      BY <1>3
    <2>1. q.id \in 1..m
      BY <1>3
    <2>2. PICK i \in 1..L : s[i] = [connection |-> c, id |-> q.id]
      BY <1>2, <2>1
    <2>3. i \in 1..Len(t) /\ i < L + 1 /\ t[i].connection = c /\ t[i].id = q.id
      <3>1. t[i] = [connection |-> c, id |-> q.id]
        BY <1>1, <2>2, ZenonT(30)
      <3>2. \A n \in Nat : \A j \in 1..n : j \in 1..(n + 1) /\ j < n + 1
        OBVIOUS
      <3>3. i \in 1..Len(t) /\ i < L + 1
        BY <1>1, <3>2, ZenonT(30)
      <3> QED BY <3>1, <3>3
    <2>4. t[i].id < t[L + 1].id
      BY <1>3, <1>4, <2>3, InOrderPositions
    <2> QED BY <1>3, <1>4, <2>3, <2>4
  <1>6. q.id <= m + 1
    <2> SUFFICES ASSUME q.id > m + 1 PROVE FALSE
      BY <1>3
    <2>1. q.id - 1 \in 1..(t[L + 1].id - 1)
      BY <1>3, <1>4
    <2>2. PICK i \in 1..((L + 1) - 1) : t[i] = [connection |-> c, id |-> q.id - 1]
      BY <1>3, <1>4, <2>1, InOrderPositions
    <2>3. i \in 1..L
      BY <1>1
    <2>4. s[i].connection = c /\ s[i].id = q.id - 1
      BY <1>1, <2>2, <2>3
    <2> QED BY <1>2, <1>3, <2>3, <2>4
  <1>7. q.id = m + 1
    BY <1>3, <1>5, <1>6
  <1>8. \A i \in 1..Len(t) : i \in 1..L \/ i = L + 1
    BY <1>1
  <1>9. ASSUME NEW i \in 1..Len(t), t[i].connection = c PROVE t[i].id <= m + 1
    <2>1. CASE i \in 1..L
      <3> USE <2>1
      <3>1. t[i] = s[i] /\ s[i] \in Request
        BY <1>1 DEF L
      <3>2. s[i].id \in Nat /\ s[i].id <= m
        BY <1>2, <1>9, <3>1 DEF Request
      <3>3. \A n \in Nat : n <= m => n <= m + 1
        OBVIOUS
      <3> QED BY <3>1, <3>2, <3>3, ZenonT(30)
    <2>2. CASE i = L + 1
      BY <1>4, <1>7, <2>2
    <2> QED BY <1>8, <2>1, <2>2, ZenonT(30)
  <1>10. ASSUME NEW n \in 1..(m + 1) PROVE \E i \in 1..Len(t) : t[i] = [connection |-> c, id |-> n]
    <2>1. CASE n \in 1..m
      <3>1. PICK i \in 1..L : s[i] = [connection |-> c, id |-> n]
        BY <1>2, <2>1
      <3>2. i \in 1..Len(t) /\ t[i] = s[i]
        BY <1>1
      <3> QED BY <3>1, <3>2
    <2>2. CASE n = m + 1
      <3>1. t[L + 1] = [connection |-> c, id |-> n]
        BY <1>1, <1>3, <1>7, <2>2
      <3> QED BY <1>4, <3>1
    <2> QED BY <2>1, <2>2
  <1>11. Complete(t, c, m + 1)
    BY <1>3, <1>9, <1>10 DEF Complete
  <1> QED BY <1>7, <1>11 DEF c, t

\* Flushing moves answers from the buffer to the client; losing the buffer drops
\* the last of them.
LEMMA FlushedReplies ==
    ASSUME NEW s \in Seq(Response), NEW t \in Seq(Response), NEW n \in 0..Len(t)
    PROVE  LET u == Cat(s, SubSeq(t, 1, n)) IN
           /\ u \in Seq(Response) /\ SubSeq(t, n + 1, Len(t)) \in Seq(Response)
           /\ Cat(u, SubSeq(t, n + 1, Len(t))) = Cat(s, t)
           /\ Cat(u, <<>>) = u /\ Len(u) <= Len(Cat(s, t))
           /\ \A i \in 1..Len(u) : u[i] = Cat(s, t)[i]
  <1> DEFINE x == SubSeq(t, 1, n)
             y == SubSeq(t, n + 1, Len(t))
             u == Cat(s, x)
  <1>1. x \in Seq(Response) /\ y \in Seq(Response) /\ Cat(x, y) = t
    BY CatSplit
  <1> HIDE DEF x, y
  <1>2. u \in Seq(Response)
    BY <1>1, CatType
  <1>3. Cat(u, y) = Cat(s, t)
    BY <1>1, CatAssociative
  <1>4. Cat(u, <<>>) = u
    BY <1>2, CatEmpty
  <1> HIDE DEF u
  <1>5. /\ Len(u) \in Nat /\ Len(y) \in Nat /\ Len(Cat(u, y)) = Len(u) + Len(y)
        /\ \A i \in 1..Len(u) : Cat(u, y)[i] = u[i]
    BY <1>1, <1>2, CatType
  <1>6. Len(u) <= Len(Cat(u, y)) /\ \A i \in 1..Len(u) : u[i] = Cat(u, y)[i]
    BY <1>5
  <1>7. Len(u) <= Len(Cat(s, t)) /\ \A i \in 1..Len(u) : u[i] = Cat(s, t)[i]
    BY <1>3, <1>6
  <1> QED BY <1>1, <1>2, <1>3, <1>4, <1>7, Zenon DEF x, y, u

\* What a step other than a drain does to the answers of a connection.
RepliesKept(c) ==
    \/ Cat(delivered'[c], output'[c]) = Replies(c)
    \/ /\ status'[c] \notin {"open", "malformed"}
       /\ Len(Cat(delivered'[c], output'[c])) <= Len(Replies(c))
       /\ \A i \in 1..Len(Cat(delivered'[c], output'[c])) :
             Cat(delivered'[c], output'[c])[i] = Replies(c)[i]

LEMMA RepliesStep ==
    ASSUME TypeOK, GatewayInv, Next, NEW c \in Connections
    PROVE  (answered' = answered /\ RepliesKept(c)) \/ (drain_engine_completions /\ response_queue # <<>>)
  <1>1. /\ delivered[c] \in Seq(Response) /\ output[c] \in Seq(Response)
        /\ output \in [Connections -> Seq(Response)] /\ delivered \in [Connections -> Seq(Response)]
        /\ status \in [Connections -> {"open", "malformed", "closing", "gone"}]
    BY DEF TypeOK, GatewayType, HistoryType
  <1>2. CASE UNCHANGED <<answered, delivered, output>>
    BY <1>2 DEF RepliesKept, Replies
  <1>3. CASE shutdown_complete_size
    <2> USE <1>3
    <2>1. answered' = answered
      BY DEF shutdown_complete_size
    <2>2. CASE response_queue = <<>>
      <3> USE <2>2
      <3>1. PICK n \in [Connections -> 0..MaxOutput] :
               /\ \A d \in Connections : n[d] <= Len(output[d])
               /\ delivered' = [d \in Connections |-> delivered[d] \o SubSeq(output[d], 1, n[d])]
        BY Zenon DEF shutdown_complete_size
      <3>2. output'[c] = <<>> /\ status'[c] = "gone"
        BY DEF shutdown_complete_size
      <3>3. delivered'[c] = Cat(delivered[c], SubSeq(output[c], 1, n[c]))
        BY <3>1 DEF Cat
      <3>4. Len(output[c]) \in Nat /\ n[c] \in 0..Len(output[c])
        BY <1>1, <3>1
      <3> DEFINE u == Cat(delivered[c], SubSeq(output[c], 1, n[c]))
      <3>5. /\ Cat(u, <<>>) = u /\ Len(u) <= Len(Cat(delivered[c], output[c]))
            /\ \A i \in 1..Len(u) : u[i] = Cat(delivered[c], output[c])[i]
        BY <1>1, <3>4, FlushedReplies
      <3>6. delivered'[c] = u
        BY <3>3
      <3> HIDE DEF u
      <3> QED BY <2>1, <3>2, <3>5, <3>6 DEF RepliesKept, Replies
    <2>3. CASE response_queue # <<>>
      BY <1>2, <2>3 DEF shutdown_complete_size
    <2> QED BY <2>2, <2>3
  <1>4. CASE Flush
    <2> USE <1>4
    <2>1. answered' = answered
      BY DEF Flush
    <2>2. connection \in Connections
      BY DEF Flush, GatewayInv, TypeOK, GatewayType
    <2>3. PICK n \in 0..Len(output[connection]), fatal \in BOOLEAN :
             LET left == IF fatal THEN <<>> ELSE SubSeq(output[connection], n + 1, Len(output[connection]))
                 closes == fatal \/ ~Open(connection) \/ <<connection, "hup">> \in events
             IN
             /\ delivered' = [delivered EXCEPT ![connection] = @ \o SubSeq(output[connection], 1, n)]
             /\ status' = [status EXCEPT ![connection] =
                              IF ~closes THEN @ ELSE IF left = <<>> THEN "gone" ELSE "closing"]
             /\ output' = [output EXCEPT ![connection] = left]
      BY Zenon DEF Flush
    <2>4. CASE c # connection
      <3>1. delivered'[c] = delivered[c] /\ output'[c] = output[c]
        BY <1>1, <2>3, <2>4
      <3> QED BY <2>1, <3>1, Zenon DEF RepliesKept, Replies
    <2>5. CASE c = connection
      <3> USE <2>5
      <3> DEFINE u == Cat(delivered[c], SubSeq(output[c], 1, n))
                 v == SubSeq(output[c], n + 1, Len(output[c]))
      <3>1. /\ Cat(u, v) = Cat(delivered[c], output[c])
            /\ Cat(u, <<>>) = u /\ Len(u) <= Len(Cat(delivered[c], output[c]))
            /\ \A i \in 1..Len(u) : u[i] = Cat(delivered[c], output[c])[i]
        BY <1>1, FlushedReplies
      <3>2. delivered'[c] = u
        <4>1. delivered'[c] = delivered[c] \o SubSeq(output[c], 1, n)
          BY <1>1, <2>3
        <4> QED BY <4>1 DEF Cat
      <3>3. CASE fatal
        <4>1. output'[c] = <<>> /\ status'[c] \in {"gone", "closing"}
          BY <1>1, <2>3, <3>3
        <4> HIDE DEF u, v
        <4> QED BY <2>1, <3>1, <3>2, <4>1 DEF RepliesKept, Replies
      <3>4. CASE ~fatal
        <4>1. output'[c] = v
          BY <1>1, <2>3, <3>4
        <4> HIDE DEF u, v
        <4> QED BY <2>1, <3>1, <3>2, <4>1 DEF RepliesKept, Replies
      <3> QED BY <3>3, <3>4
    <2> QED BY <2>4, <2>5
  <1>5. CASE drain_engine_completions /\ response_queue = <<>>
    BY <1>2, <1>5, Zenon DEF drain_engine_completions
  <1>6. CASE WorkerCode \/ SpuriousWakeup \/ request_stop \/ UNCHANGED vars
    BY <1>2, <1>6, OthersFrame, Zenon
  <1>7. CASE \/ begin_shutdown_if_requested \/ not_empty_notify \/ drain_pending_requests
             \/ NextToAdmit \/ admit \/ shutdown_complete \/ LoopBack \/ receive_from \/ PollFails
    BY <1>2, <1>7, Zenon DEF begin_shutdown_if_requested, not_empty_notify, drain_pending_requests,
                      NextToAdmit, admit, shutdown_complete, LoopBack, receive_from, PollFails, history
  <1>8. CASE (\E d \in Connections : VisitClient(d)) \/ \E reported \in SUBSET PollEvents : Poll(reported)
    BY <1>2, <1>8, Zenon DEF VisitClient, Poll, history
  <1> QED BY <1>3, <1>4, <1>5, <1>6, <1>7, <1>8 DEF Next, GatewayCode, Returned

\* A step keeps the answers of every connection those to its first requests.
LEMMA DeliveryStep ==
    ASSUME TypeOK, TypeOK', GatewayInv, AdmissionInOrder, ExactlyOneResponse, DeliveryInv, Next
    PROVE  DeliveryInv'
  <1> SUFFICES ASSUME NEW c \in Connections
               PROVE  LET s == Cat(delivered'[c], output'[c]) IN
                      /\ \A i \in 1..Len(s) : s[i].request = [connection |-> c, id |-> i]
                      /\ status'[c] \in {"open", "malformed"} =>
                            Complete(RequestsIn(answered'), c, Len(s))
    BY Zenon DEF DeliveryInv, Replies, Open
  <1> DEFINE old == Replies(c)
             s == Cat(delivered'[c], output'[c])
             A == RequestsIn(answered)
  <1>1. /\ \A i \in 1..Len(old) : old[i].request = [connection |-> c, id |-> i]
        /\ Open(c) => Complete(A, c, Len(old))
    BY Zenon DEF DeliveryInv
  <1>2. /\ delivered[c] \in Seq(Response) /\ output[c] \in Seq(Response)
        /\ answered \in Seq(Response) /\ response_queue \in Seq(Response)
    BY DEF TypeOK, GatewayType, HistoryType, SharedType
  <1>3. A \in Seq(Request)
    BY <1>2, RequestsInType, Zenon
  <1>4. old \in Seq(Response) /\ Len(old) \in Nat
    <2>1. old \in Seq(Response)
      BY <1>2, CatType, Zenon DEF Replies
    <2> QED BY <2>1
  <1>5. status'[c] \in {"open", "malformed"} => Open(c)
    BY OpenShrinks
  <1>6. CASE answered' = answered /\ RepliesKept(c)
    <2> USE <1>6
    <2>1. CASE s = old
      BY <1>1, <1>5, <2>1, Zenon
    <2>2. CASE /\ status'[c] \notin {"open", "malformed"} /\ Len(s) <= Len(old)
               /\ \A i \in 1..Len(s) : s[i] = old[i]
      <3> USE <2>2
      <3>1. s \in Seq(Response)
        <4>1. delivered'[c] \in Seq(Response) /\ output'[c] \in Seq(Response)
          BY Zenon DEF TypeOK, GatewayType, HistoryType
        <4> QED BY <4>1, CatType, Zenon
      <3> HIDE DEF s, old
      <3>2. Len(s) \in Nat
        BY <3>1
      <3>3. \A i \in 1..Len(s) : i \in 1..Len(old)
        BY <1>4, <3>2
      <3> QED BY <1>1, <3>3, Zenon DEF s
    <2> QED BY <2>1, <2>2, Zenon DEF RepliesKept
  <1>7. CASE drain_engine_completions /\ response_queue # <<>>
    <2> USE <1>7
    <2> DEFINE h == Head(response_queue)
               q == h.request
               t == Append(A, q)
    <2>1. h \in Response
      BY <1>2, HeadAndTail
    <2>2. q \in Request /\ q.connection \in Connections /\ RequestsIn(answered') = t
      <3>1. answered' = Append(answered, h)
        BY DEF drain_engine_completions
      <3>2. RequestsIn(answered') = t /\ q \in Request
        BY <1>2, <2>1, <3>1, RequestsInAppend, Zenon
      <3> QED BY <3>2 DEF Request
    <2>3. delivered' = delivered
      BY DEF drain_engine_completions
    <2>4. t \in Seq(Request) /\ Len(t) <= Len(admitted) /\ \A i \in 1..Len(t) : t[i] = admitted[i]
      BY AnsweredFirst
    <2>5. InOrder(t, q.connection)
      <3>1. InOrder(admitted, q.connection) /\ admitted \in Seq(Request)
        BY <2>2 DEF AdmissionInOrder, TypeOK, HistoryType
      <3> HIDE DEF t, q
      <3> QED BY <2>2, <2>4, <3>1, InOrderPrefix
    <2>6. IF Open(q.connection) THEN queue_response(q.connection, h) ELSE UNCHANGED <<status, output>>
      BY DEF drain_engine_completions
    <2> HIDE DEF h, q
    <2>7. CASE c # q.connection
      <3> USE <2>7
      <3>1. output'[c] = output[c] /\ status'[c] = status[c]
        BY <2>2, <2>6 DEF queue_response, TypeOK, GatewayType
      <3>2. s = old
        BY <2>3, <3>1 DEF Replies
      <3>3. ASSUME Open(c) PROVE Complete(t, c, Len(old))
        <4>1. /\ Len(A) \in Nat /\ Len(t) = Len(A) + 1 /\ t[Len(A) + 1] = q
              /\ \A i \in 1..Len(A) : t[i] = A[i]
          <5>1. A \in Seq(Request) /\ q \in Request
            BY <1>3, <2>2, ZenonT(30)
          <5> HIDE DEF A
          <5> QED BY <5>1
        <4>2. Complete(A, c, Len(old))
          BY <1>1, <3>3, Zenon
        <4> HIDE DEF t, A, old
        <4>3. Len(A) <= Len(t) /\ \A i \in (Len(A) + 1)..Len(t) : t[i].connection # c
          BY <4>1
        <4> QED BY <1>3, <1>4, <2>4, <4>1, <4>2, <4>3, InOrderWithOthers, Zenon
      <3> HIDE DEF t, A, old, s
      <3>4. status'[c] \in {"open", "malformed"} => Complete(RequestsIn(answered'), c, Len(s))
        BY <1>5, <2>2, <3>2, <3>3, Zenon
      <3>5. \A i \in 1..Len(s) : s[i].request = [connection |-> c, id |-> i]
        BY <1>1, <3>2, ZenonT(30)
      <3> QED BY <3>4, <3>5, Zenon DEF s
    <2>8. CASE c = q.connection /\ ~Open(c)
      <3> USE <2>8
      <3>1. UNCHANGED <<status, output>>
        BY <2>6
      <3>2. s = old
        BY <2>3, <3>1 DEF Replies
      <3> QED BY <1>1, <1>5, <3>2, Zenon
    <2>9. CASE c = q.connection /\ Open(c) /\ Len(output[c]) < MaxOutput
      <3> USE <2>9
      <3>1. output'[c] = Append(output[c], h)
        BY <2>2, <2>6 DEF queue_response, TypeOK, GatewayType
      <3>2. s = Append(old, h)
        <4> DEFINE x == delivered[c]
                   y == output[c]
        <4>1. x \in Seq(Response) /\ y \in Seq(Response)
          BY <1>2
        <4>2. s = Cat(x, Append(y, h)) /\ old = Cat(x, y)
          BY <2>3, <3>1, Zenon DEF Replies
        <4> HIDE DEF x, y, s, old
        <4>3. Append(Cat(x, y), h) = Cat(x, Append(y, h))
          BY <2>1, <4>1, CatAppend
        <4> QED BY <4>2, <4>3
      <3>3. Complete(A, q.connection, Len(old)) /\ InOrder(Append(A, q), q.connection)
        BY <1>1, <2>5, Zenon
      <3>4. q.id = Len(old) + 1 /\ Complete(t, c, Len(old) + 1)
        <4> HIDE DEF A, old
        <4> QED BY <1>3, <1>4, <2>2, <3>3, CompleteAnswered
      <3>5. /\ Len(s) = Len(old) + 1 /\ s[Len(old) + 1] = h
            /\ \A i \in 1..Len(old) : s[i] = old[i]
        <4> HIDE DEF old, s, A, t, q, h
        <4>1. old \in Seq(Response) /\ h \in Response
          BY <1>4, <2>1, ZenonT(30)
        <4> QED BY <3>2, <4>1, ReplyAppended
      <3>6. q = [connection |-> c, id |-> Len(old) + 1] /\ h.request = q
        <4>1. q = [connection |-> q.connection, id |-> q.id]
          BY <2>2 DEF Request
        <4> QED BY <3>4, <4>1, Zenon DEF q
      <3> HIDE DEF A, old, s, t
      <3>7. ASSUME NEW i \in 1..Len(s) PROVE s[i].request = [connection |-> c, id |-> i]
        <4>1. CASE i \in 1..Len(old)
          BY <1>1, <3>5, <4>1, Zenon
        <4>2. CASE i = Len(old) + 1
          BY <3>5, <3>6, <4>2
        <4> QED BY <1>4, <3>5, <4>1, <4>2
      <3>8. Complete(RequestsIn(answered'), c, Len(s))
        <4>1. RequestsIn(answered') = t
          BY <2>2, Zenon
        <4> QED BY <3>4, <3>5, <4>1, Zenon
      <3> QED BY <3>7, <3>8, Zenon DEF s
    <2>10. CASE c = q.connection /\ Open(c) /\ ~(Len(output[c]) < MaxOutput)
      <3>1. output'[c] = <<>> /\ status'[c] = "closing"
        BY <2>2, <2>6, <2>10 DEF queue_response, TypeOK, GatewayType
      <3>2. s = delivered[c]
        BY <1>2, <2>3, <3>1, CatEmpty, Zenon
      <3> DEFINE x == delivered[c]
                 y == output[c]
      <3>3. x \in Seq(Response) /\ y \in Seq(Response) /\ old = Cat(x, y) /\ s = x
        BY <1>2, <3>2, ZenonT(30) DEF Replies
      <3> HIDE DEF x, y, old, s
      <3>4. \A i \in 1..Len(s) : i \in 1..Len(old) /\ s[i] = old[i]
        BY <3>3, CatBegins, Zenon
      <3> QED BY <1>1, <3>1, <3>4, Zenon DEF s
    <2> QED BY <2>7, <2>8, <2>9, <2>10, Zenon
  <1> QED BY <1>6, <1>7, RepliesStep, Zenon

-----------------------------------------------------------------------------
(* What is admitted, answered and delivered *)

LEMMA StepLine == ASSUME IInv, LineInv, [Next]_vars PROVE LineInv'
  <1>1. CASE UNCHANGED vars
    <2>1. UNCHANGED <<admitted, pending_requests, parsed, shutdown_started, status, received>>
      BY <1>1 DEF vars, shared, gateway_vars, loop_vars, worker_vars, history
    <2> QED BY <2>1, Zenon DEF LineInv, AdmissionInOrder, Line, Waiting, Open
  <1>2. CASE Next
    BY <1>2, LineStep, ExchangeAssumption DEF IInv
  <1> QED BY <1>1, <1>2

\* In every behaviour, what an open connection has sent is in line.
LEMMA LineInvariance == Spec => []LineInv
  BY InitLine, StepLine, Invariance, PTL DEF Spec

\* The requests of a connection are admitted in the order sent and without a gap,
\* across retention in pending_requests, refusals and closing connections.
THEOREM AdmittedInOrder == Spec => []AdmissionInOrder
  BY LineInvariance, PTL DEF LineInv

LEMMA StepAnswers ==
    ASSUME ~WorkerThrows, IInv, IInv', LineInv, AnswerInv, [Next]_vars
    PROVE  AnswerInv'
  <1>1. CASE UNCHANGED vars
    BY <1>1, Zenon DEF AnswerInv, ExactlyOneResponse, DeliveryInv, Replies, Open, vars, shared,
                gateway_vars, worker_vars, history
  <1>2. CASE Next
    <2> USE <1>2
    <2>1. TypeOK /\ GatewayInv /\ WorkerInv /\ AdmissionInOrder /\ TypeOK' /\ NeverTerminates'
      BY DEF IInv, LineInv
    <2>2. ExactlyOneResponse'
      BY <2>1, ResponseStep DEF AnswerInv
    <2>3. DeliveryInv'
      BY <2>1, DeliveryStep DEF AnswerInv
    <2> QED BY <2>2, <2>3 DEF AnswerInv
  <1> QED BY <1>1, <1>2

\* When batch.reserve and the drain hook throw nothing, no admitted request is
\* lost: each is answered exactly once, in the order of admission.
THEOREM OneResponseEach == ASSUME ~WorkerThrows PROVE Spec => []ExactlyOneResponse
  <1>1. Spec => []AnswerInv
    BY InitAnswers, StepAnswers, Invariance, LineInvariance, PTL DEF Spec
  <1> QED BY <1>1, PTL DEF AnswerInv

\* What the gateway saw when it left its loop stays so.
DoneInv == gateway = "done" => response_closed /\ response_queue = <<>>

LEMMA StepDone == ASSUME IInv, DoneInv, [Next]_vars PROVE DoneInv'
  <1>1. CASE WorkerCode \/ SpuriousWakeup \/ request_stop \/ UNCHANGED vars
    <2> SUFFICES ASSUME gateway' = "done" PROVE response_closed' /\ response_queue' = <<>>
      BY DEF DoneInv
    <2>1. gateway = "done" /\ response_closed' = TRUE /\ response_queue = <<>> /\ response_closed
      BY <1>1, OthersFrame, Zenon DEF DoneInv, IInv, TypeOK, SharedType
    <2>2. worker \in {"close_notify", "done"}
      BY <2>1 DEF IInv, WorkerInv
    <2>3. response_queue' = response_queue
      BY <1>1, <2>2, Zenon DEF WorkerCode, wait_pop, Reserve, Drain, execute_and_publish_batch,
         enter_fail_stop, publish, notify, CloseResponses, SpuriousWakeup, request_stop, shared, vars
    <2> QED BY <2>1, <2>3
  <1>2. CASE shutdown_complete_size
    BY <1>2 DEF shutdown_complete_size, shared, DoneInv, IInv, GatewayInv
  <1>3. CASE \/ begin_shutdown_if_requested \/ not_empty_notify \/ drain_engine_completions
             \/ admit \/ NextToAdmit \/ LoopBack \/ receive_from \/ Flush \/ PollFails
             \/ drain_pending_requests \/ shutdown_complete
             \/ (\E c \in Connections : VisitClient(c))
             \/ (\E reported \in SUBSET PollEvents : Poll(reported))
    <2>1. /\ gateway # "done" /\ after # "done"
          /\ gateway' = after \/ gateway' = gateway
             \/ gateway' \in {"close_notify", "completions", "admit", "pending", "clients", "push",
                              "push_notify", "receive", "flush", "top", "check_size", "poll"}
      <3>1. gateway # "done"
        BY <1>3, Zenon DEF begin_shutdown_if_requested, not_empty_notify, drain_engine_completions,
           admit, NextToAdmit, LoopBack, receive_from, Flush, PollFails, drain_pending_requests,
           shutdown_complete, VisitClient, Poll
      <3>2. after # "done"
        BY DEF IInv, TypeOK, GatewayType
      <3>3. gateway' = after \/ gateway' = gateway
            \/ gateway' \in {"close_notify", "completions", "admit", "pending", "clients", "push",
                             "push_notify", "receive", "flush", "top", "check_size", "poll"}
        BY <1>3, Zenon DEF begin_shutdown_if_requested, not_empty_notify, drain_engine_completions,
           admit, NextToAdmit, Refuse, LoopBack, receive_from, Flush, PollFails,
           drain_pending_requests, shutdown_complete, VisitClient, Poll
      <3> QED BY <3>1, <3>2, <3>3
    <2> QED BY <2>1 DEF DoneInv
  <1> QED BY <1>1, <1>2, <1>3, NextCases, Zenon DEF Quiet

\* A stop drains: when the gateway has left its loop, the worker had closed the
\* response queue behind its last response, so that nothing admitted is without
\* its answer, and no reservation is held.
THEOREM StopDrains == ASSUME ~WorkerThrows PROVE Spec => []ShutdownDrains
  <1>1. Init => DoneInv
    BY DEF Init, DoneInv
  <1>2. Spec => []DoneInv
    BY <1>1, StepDone, Invariance, PTL DEF Spec
  <1>3. IInv /\ ExactlyOneResponse /\ DoneInv => ShutdownDrains
    <2> SUFFICES ASSUME IInv, ExactlyOneResponse, DoneInv, gateway = "done"
                 PROVE  RequestsIn(answered) = admitted /\ in_flight = 0
      BY DEF ShutdownDrains
    <2>1. response_queue = <<>> /\ batch = <<>> /\ request_queue = <<>>
      BY DEF DoneInv, IInv, WorkerInv
    <2>2. RequestsIn(response_queue) = <<>>
      BY <2>1 DEF RequestsIn
    <2>3. RequestsIn(answered) \in Seq(Request)
      BY RequestsInType, ZenonT(30) DEF IInv, TypeOK, HistoryType
    <2>4. admitted = RequestsIn(answered) \o <<>> \o <<>> \o <<>>
      BY <2>1, <2>2, ZenonT(30) DEF ExactlyOneResponse
    <2>5. in_flight = 0
      BY <2>1 DEF IInv, ReservationsExact
    <2> QED BY <2>3, <2>4, <2>5
  <1> QED BY <1>2, <1>3, OneResponseEach, Invariance, PTL

\* The bytes a client has received are then the answers to its first requests
\* in their order, even when its buffer overflowed or the server shut down.
THEOREM DeliveredInOrder == ASSUME ~WorkerThrows PROVE Spec => []DeliveryInOrder
  <1>1. Spec => []AnswerInv
    BY InitAnswers, StepAnswers, Invariance, LineInvariance, PTL DEF Spec
  <1>2. TypeOK /\ AnswerInv => DeliveryInOrder
    <2> SUFFICES ASSUME TypeOK, AnswerInv, NEW c \in Connections
                 PROVE  LET d == RequestsIn(delivered[c] \o output[c]) IN d = RequestsOf(c, 0, Len(d))
      BY DEF DeliveryInOrder
    <2> DEFINE s == delivered[c] \o output[c]
               d == RequestsIn(s)
               r == RequestsOf(c, 0, Len(s))
    <2>1. s \in Seq(Response)
      <3>1. delivered[c] \in Seq(Response) /\ output[c] \in Seq(Response)
        BY DEF TypeOK, GatewayType, HistoryType
      <3> QED BY <3>1
    <2>2. \A i \in 1..Len(s) : s[i].request = [connection |-> c, id |-> i]
      BY Zenon DEF AnswerInv, DeliveryInv, Replies, Cat
    <2> HIDE DEF s
    <2>3. d \in Seq(Request) /\ Len(d) = Len(s) /\ Len(s) \in Nat
          /\ \A i \in 1..Len(s) : d[i] = s[i].request
      BY <2>1, RequestsInType, Zenon
    <2>4. r \in Seq(Request) /\ Len(r) = Len(s)
          /\ \A i \in 1..Len(s) : r[i] = [connection |-> c, id |-> i]
      <3>1. 0 \in Nat /\ Len(s) \in Nat /\ 0 <= Len(s) /\ Len(s) - 0 = Len(s)
        BY <2>3
      <3>2. \A i \in 1..Len(s) : 0 + i = i
        BY <2>3
      <3> DEFINE n == Len(s)
      <3>3. /\ RequestsOf(c, 0, n) \in Seq(Request) /\ Len(RequestsOf(c, 0, n)) = n - 0
            /\ \A i \in 1..(n - 0) : RequestsOf(c, 0, n)[i] = [connection |-> c, id |-> 0 + i]
        <4> HIDE DEF n
        <4> QED BY <3>1, RequestsOfType, Zenon DEF n
      <3> HIDE DEF r
      <3> QED BY <3>1, <3>2, <3>3, Zenon DEF r
    <2> HIDE DEF d, r
    <2>5. Len(d) = Len(r) /\ \A i \in 1..Len(d) : d[i] = r[i]
      BY <2>2, <2>3, <2>4, Zenon
    <2>6. d = r
      BY <2>3, <2>4, <2>5, SameSequence
    <2>7. d = RequestsOf(c, 0, Len(d))
      BY <2>3, <2>6 DEF r
    <2> QED BY <2>7 DEF s, d
  <1> QED BY <1>1, <1>2, TypeCorrect, PTL

=============================================================================

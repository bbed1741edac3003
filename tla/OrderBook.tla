------------------------------ MODULE OrderBook ------------------------------
(***************************************************************************)
(* The limit order book of src/src/order_book.cpp: price levels with FIFO  *)
(* queues, the index of active orders, and the submit and cancel calls.    *)
(*                                                                         *)
(* OrderBook is called by one thread at a time.  submit is modelled by the *)
(* steps it is made of: the checks and the preview (Submit or Reject), one *)
(* MatchStep per iteration of the loop in match, and the tail of submit    *)
(* (Rest, or InsertThrows when an allocation fails).  While a submit is in *)
(* progress, call holds its local variables and no other call can start.   *)
(***************************************************************************)
EXTENDS Integers, Sequences, FiniteSets

CONSTANTS
    OrderIds,      \* the nonzero order identifiers
    ZeroId,        \* the identifier whose value is 0
    Prices,        \* the nonzero limit prices, in ticks
    Quantities,    \* the nonzero order quantities, in units
    MaxValue,      \* the largest std::uint64_t
    FirstTradeId   \* next_trade_id of a new book: 1, or the value a test sets

\* Every identifier, price and quantity is a 64-bit word.  OrderId is compared
\* for equality only, so an identifier is any value; there are no more of them
\* than nonzero words.
ASSUME ConstantsAssumption ==
    /\ MaxValue \in Nat \ {0}
    /\ Prices \subseteq 1..MaxValue
    /\ Quantities \subseteq 1..MaxValue
    /\ FirstTradeId \in 1..MaxValue
    /\ IsFiniteSet(OrderIds)
    /\ Cardinality(OrderIds) <= MaxValue
    /\ ZeroId \notin OrderIds

VARIABLES
    levels,                 \* bids and asks: side -> price -> PriceLevel
    active_orders,          \* order id -> OrderLocator
    seen_order_ids,         \* identifiers of all accepted submissions
    next_arrival_sequence,  \* wraps to 0 when exhausted
    next_trade_id,          \* wraps to 0 when exhausted
    call,                   \* local variables of the submit in progress
    result,                 \* what the last completed call returned
    terminated,             \* std::terminate has been called
    tape                    \* history: every trade executed, in order

vars == <<levels, active_orders, seen_order_ids, next_arrival_sequence,
          next_trade_id, call, result, terminated, tape>>

-----------------------------------------------------------------------------
Side == {"Buy", "Sell"}
Opposite(side) == IF side = "Buy" THEN "Sell" ELSE "Buy"
Word == 0..MaxValue
\* Variants with a mistake end in the name of the mistake; each is what a run
\* must tell from the definition that follows it.
IncrementNoWrap(word) == word + 1
IncrementWrapsToOne(word) == IF word = MaxValue THEN 1 ELSE word + 1
Increment(word) == (word + 1) % (MaxValue + 1)
Smaller(a, b) == IF a <= b THEN a ELSE b

RestingOrder ==
    [id: OrderIds, side: Side, limit_price: Prices, original_quantity: Word,
     remaining_quantity: Word, arrival_sequence: Word]
PriceLevel == [orders: Seq(RestingOrder), total_quantity: Word]
OrderLocator == [side: Side, price: Prices]
Trade ==
    [id: Word, maker_order_id: OrderIds, taker_order_id: OrderIds,
     execution_price: Prices, execution_quantity: Word]

\* What a caller may pass: a NewLimitOrder whose words are unchecked and whose
\* side may be any byte.
NewLimitOrder ==
    [id: OrderIds \cup {ZeroId}, side: Side \cup {"Unknown"},
     limit_price: Prices \cup {0}, quantity: Quantities \cup {0}]

NoCall == [active |-> FALSE]
Idle == ~call.active /\ ~terminated

\* f with key k mapped to v, and f without key k (a std::map or
\* std::unordered_map is a function whose domain is the set of its keys).
Put(f, k, v) == [x \in DOMAIN f \cup {k} |-> IF x = k THEN v ELSE f[x]]
Without(f, k) == [x \in DOMAIN f \ {k} |-> f[x]]
IsMap(f, Keys, Values) == DOMAIN f \subseteq Keys /\ f \in [DOMAIN f -> Values]

\* The list s without its i-th node.
Erase(s, i) == [k \in 1..(Len(s) - 1) |-> IF k < i THEN s[k] ELSE s[k + 1]]

-----------------------------------------------------------------------------
CrossesStrictly(side, maker_price, limit) ==
    IF side = "Buy" THEN maker_price < limit ELSE maker_price > limit

\* price_crosses: a maker's price against the limit of a taker on side.
Crosses(side, maker_price, limit) ==
    IF side = "Buy" THEN maker_price <= limit ELSE maker_price >= limit

PrecedesAscending(side, p, q) == p < q

\* Price p comes before price q in the map of that side (std::greater for
\* bids, std::less for asks).
Precedes(side, p, q) == IF side = "Buy" THEN p > q ELSE p < q

\* p is levels.begin()->first of that side.
IsBegin(side, p) ==
    \A q \in DOMAIN levels[side] : q # p => Precedes(side, p, q)

would_overflowNever(current, addition) == FALSE
would_overflow(current, addition) == current > MaxValue - addition

\* The makers a taker on side with that limit can trade with, each given by its
\* price and its position in the queue of the level.
CrossingMakers(side, limit) ==
    UNION {{p} \X (1..Len(levels[Opposite(side)][p].orders)) :
              p \in {q \in DOMAIN levels[Opposite(side)] : Crosses(side, q, limit)}}

\* The units those makers offer; their number is the total remaining quantity.
Units(side, makers) ==
    UNION {{m} \X (1..levels[Opposite(side)][m[1]].orders[m[2]].remaining_quantity) :
              m \in makers}

MakersBeforeInPrice(side, makers, m) ==
    {n \in makers : Precedes(Opposite(side), n[1], m[1])}

\* The makers matched before m: a better price, or the same price and an
\* earlier position.
MakersBefore(side, makers, m) ==
    {n \in makers : \/ Precedes(Opposite(side), n[1], m[1])
                    \/ n[1] = m[1] /\ n[2] < m[2]}

\* The MatchPlan of the two nested loops over levels and queues: a maker is
\* visited when what lies before it does not fill the order.
preview_match(side, limit, quantity) ==
    LET makers == CrossingMakers(side, limit)
        offered == Cardinality(Units(side, makers))
    IN  [remaining_quantity |-> quantity - Smaller(quantity, offered),
         trade_count |-> Cardinality(
            {m \in makers :
                Cardinality(Units(side, MakersBefore(side, makers, m))) < quantity})]

can_issue_trade_idsOneMore(trade_count) ==
    \/ trade_count = 0
    \/ next_trade_id # 0 /\ trade_count <= MaxValue - next_trade_id + 2

\* The trade ids next_trade_id, next_trade_id + 1, ... up to the wrap to 0.
can_issue_trade_ids(trade_count) ==
    \/ trade_count = 0
    \/ next_trade_id # 0 /\ trade_count <= MaxValue - next_trade_id + 1

\* An identifier is used up by the first accepted order that carries it.
IsDuplicateActiveOnly(id) == id \in DOMAIN active_orders
IsDuplicate(id) == id \in seen_order_ids

\* The checks of submit in the order the code makes them; "None" is accepted.
RejectionReason(order) ==
    LET plan == preview_match(order.side, order.limit_price, order.quantity)
    IN  IF order.id = ZeroId THEN "InvalidOrderId"
        ELSE IF order.side \notin Side THEN "InvalidSide"
        ELSE IF order.limit_price = 0 THEN "InvalidPrice"
        ELSE IF order.quantity = 0 THEN "InvalidQuantity"
        ELSE IF IsDuplicate(order.id) THEN "DuplicateOrderId"
        ELSE IF ~can_issue_trade_ids(plan.trade_count) THEN "TradeIdExhausted"
        ELSE IF plan.remaining_quantity > 0 /\ next_arrival_sequence = 0
             THEN "SequenceExhausted"
        ELSE IF /\ plan.remaining_quantity > 0
                /\ order.limit_price \in DOMAIN levels[order.side]
                /\ would_overflow(
                       levels[order.side][order.limit_price].total_quantity,
                       plan.remaining_quantity)
             THEN "QuantityOverflow"
        ELSE "None"

-----------------------------------------------------------------------------
Init ==
    /\ levels = [side \in Side |-> [p \in {} |-> {}]]
    /\ active_orders = [id \in {} |-> {}]
    /\ seen_order_ids = {}
    /\ next_arrival_sequence = 1
    /\ next_trade_id = FirstTradeId
    /\ call = NoCall
    /\ result = [status |-> "None"]
    /\ terminated = FALSE
    /\ tape = <<>>

\* submit up to a return rejected(reason): nothing but the result changes.
Reject(order) ==
    /\ Idle
    /\ RejectionReason(order) # "None"
    /\ result' = [status |-> "Rejected", reason |-> RejectionReason(order)]
    /\ UNCHANGED <<levels, active_orders, seen_order_ids, next_arrival_sequence,
                   next_trade_id, call, terminated, tape>>

\* submit up to the call of match: the id is recorded before any trade.
Submit(order) ==
    /\ Idle
    /\ RejectionReason(order) = "None"
    /\ seen_order_ids' = seen_order_ids \cup {order.id}
    /\ call' = [active |-> TRUE, order |-> order,
                remaining_quantity |-> order.quantity, trade_count |-> 0,
                plan |-> preview_match(order.side, order.limit_price, order.quantity)]
    /\ UNCHANGED <<levels, active_orders, next_arrival_sequence, next_trade_id,
                   result, terminated, tape>>

\* The condition of the loop in match: the best level crosses exactly when some
\* level does.
Matching ==
    /\ call.active
    /\ call.remaining_quantity > 0
    /\ \E p \in DOMAIN levels[Opposite(call.order.side)] :
           Crosses(call.order.side, p, call.order.limit_price)

\* One iteration of match against the head of the best level.  A filled maker
\* leaves the index and its level, an emptied level leaves the map.
Execute(side, p) ==
    LET level == levels[side][p]
        maker == Head(level.orders)
        executed == Smaller(call.remaining_quantity, maker.remaining_quantity)
        filled == maker.remaining_quantity = executed
        total == level.total_quantity - executed
        left == IF filled
                THEN Tail(level.orders)
                ELSE [level.orders EXCEPT ![1].remaining_quantity = @ - executed]
    IN  IF \/ executed = 0
           \/ level.total_quantity < executed
           \/ next_trade_id = 0
           \/ filled /\ maker.id \notin DOMAIN active_orders
        THEN /\ terminated' = TRUE
             /\ UNCHANGED <<levels, active_orders, next_trade_id, call, tape>>
        ELSE /\ tape' = Append(tape,
                    [id |-> next_trade_id, maker_order_id |-> maker.id,
                     taker_order_id |-> call.order.id,
                     execution_price |-> maker.limit_price,
                     execution_quantity |-> executed])
             /\ next_trade_id' = Increment(next_trade_id)
             /\ call' = [call EXCEPT !.remaining_quantity = @ - executed,
                                     !.trade_count = @ + 1]
             /\ active_orders' = IF filled THEN Without(active_orders, maker.id)
                                 ELSE active_orders
             /\ levels' = [levels EXCEPT ![side] =
                              IF left = <<>> THEN Without(@, p)
                              ELSE Put(@, p, [orders |-> left, total_quantity |-> total])]
             /\ UNCHANGED terminated

MatchStep ==
    /\ Matching /\ ~terminated
    /\ \E p \in DOMAIN levels[Opposite(call.order.side)] :
          /\ IsBegin(Opposite(call.order.side), p)
          /\ Execute(Opposite(call.order.side), p)
    /\ UNCHANGED <<seen_order_ids, next_arrival_sequence, result>>

\* The node a submit leaves, and the queue it joins at the back.
RestingNodeUnmatched(order, resting_quantity, sequence) ==
    [id |-> order.id, side |-> order.side, limit_price |-> order.limit_price,
     original_quantity |-> order.quantity, remaining_quantity |-> order.quantity,
     arrival_sequence |-> sequence]
RestingNode(order, resting_quantity, sequence) ==
    [id |-> order.id, side |-> order.side, limit_price |-> order.limit_price,
     original_quantity |-> order.quantity, remaining_quantity |-> resting_quantity,
     arrival_sequence |-> sequence]

PushBack(orders, node) == Append(orders, node)

\* The levels of a side after insert_resting_order.
insert_resting_order(side_levels, order, resting_quantity, arrival_sequence) ==
    LET old == IF order.limit_price \in DOMAIN side_levels
               THEN side_levels[order.limit_price]
               ELSE [orders |-> <<>>, total_quantity |-> 0]
    IN  Put(side_levels, order.limit_price,
            [orders |-> PushBack(old.orders, RestingNode(order, resting_quantity, arrival_sequence)),
             total_quantity |-> (old.total_quantity + resting_quantity) % (MaxValue + 1)])

\* The tail of submit: a remainder rests behind its level, and the reported
\* quantities are those of the plan.
Rest ==
    /\ call.active /\ ~Matching /\ ~terminated
    /\ IF call.remaining_quantity > 0
       THEN /\ levels' = [levels EXCEPT ![call.order.side] =
                   insert_resting_order(@, call.order, call.remaining_quantity,
                                        next_arrival_sequence)]
            /\ active_orders' = Put(active_orders, call.order.id,
                   [side |-> call.order.side, price |-> call.order.limit_price])
            /\ next_arrival_sequence' = Increment(next_arrival_sequence)
       ELSE UNCHANGED <<levels, active_orders, next_arrival_sequence>>
    /\ result' = [status |-> "Accepted", id |-> call.order.id,
                  executed_quantity |-> call.order.quantity - call.plan.remaining_quantity,
                  resting_quantity |-> call.plan.remaining_quantity]
    /\ call' = NoCall
    /\ UNCHANGED <<seen_order_ids, next_trade_id, terminated, tape>>

InsertThrowsNoRollback ==
    /\ call.active /\ ~Matching /\ ~terminated
    /\ call.remaining_quantity > 0
    /\ levels' = [levels EXCEPT ![call.order.side] =
           insert_resting_order(@, call.order, call.remaining_quantity, next_arrival_sequence)]
    /\ result' = [status |-> "Exception"]
    /\ call' = NoCall
    /\ UNCHANGED <<active_orders, seen_order_ids, next_arrival_sequence,
                   next_trade_id, terminated, tape>>

\* An allocation in insert_resting_order throws: the handlers undo the new node
\* and the new level, and the exception leaves submit.
InsertThrows ==
    /\ call.active /\ ~Matching /\ ~terminated
    /\ call.remaining_quantity > 0
    /\ result' = [status |-> "Exception"]
    /\ call' = NoCall
    /\ UNCHANGED <<levels, active_orders, seen_order_ids, next_arrival_sequence,
                   next_trade_id, terminated, tape>>

\* The positions of order id in a queue; the locator's iterator is the node.
PositionsOf(orders, id) == {i \in 1..Len(orders) : orders[i].id = id}

\* cancel of an active order: erase it from its level and from the index.
CancelActive(id) ==
    /\ Idle
    /\ id \in DOMAIN active_orders
    /\ LET side == active_orders[id].side
           price == active_orders[id].price
           level == levels[side][price]
           Nodes == {i \in PositionsOf(level.orders, id) :
                        level.orders[i].remaining_quantity \in 1..level.total_quantity}
       IN  IF price \notin DOMAIN levels[side] \/ Nodes = {}
           THEN terminated' = TRUE /\ UNCHANGED <<levels, active_orders, result>>
           ELSE \E i \in Nodes :
                LET cancelled == level.orders[i].remaining_quantity
                    left == Erase(level.orders, i)
                IN  /\ levels' = [levels EXCEPT ![side] =
                           IF left = <<>> THEN Without(@, price)
                           ELSE Put(@, price,
                                    [orders |-> left,
                                     total_quantity |-> level.total_quantity - cancelled])]
                    /\ active_orders' = Without(active_orders, id)
                    /\ result' = [status |-> "Cancelled", cancelled_quantity |-> cancelled]
                    /\ UNCHANGED terminated
    /\ UNCHANGED <<seen_order_ids, next_arrival_sequence, next_trade_id, call, tape>>

\* cancel of an identifier that is not active.
CancelNotFound(id) ==
    /\ Idle
    /\ id \notin DOMAIN active_orders
    /\ result' = [status |-> "NotFound"]
    /\ UNCHANGED <<levels, active_orders, seen_order_ids, next_arrival_sequence,
                   next_trade_id, call, terminated, tape>>

Next ==
    \/ \E order \in NewLimitOrder : Reject(order) \/ Submit(order)
    \/ MatchStep
    \/ Rest
    \/ InsertThrows
    \/ \E id \in OrderIds \cup {ZeroId} : CancelActive(id) \/ CancelNotFound(id)

Spec == Init /\ [][Next]_vars

-----------------------------------------------------------------------------
\* The quantity of a queue, and the quantity an order has traded: the number of
\* units in either.
QueueQuantity(orders) ==
    Cardinality(UNION {{i} \X (1..orders[i].remaining_quantity) : i \in 1..Len(orders)})
Traded(id) ==
    Cardinality(UNION {{k} \X (1..tape[k].execution_quantity) :
        k \in {j \in 1..Len(tape) : id \in {tape[j].maker_order_id, tape[j].taker_order_id}}})

\* Where the orders of the book are: side, price and position.
Nodes ==
    UNION {UNION {{<<side, p, i>> : i \in 1..Len(levels[side][p].orders)} :
                     p \in DOMAIN levels[side]} : side \in Side}
At(n) == levels[n[1]][n[2]].orders[n[3]]

\* Every variable holds a value of its C++ type, the locals of submit included.
TypeOK ==
    /\ levels = [side \in Side |-> levels[side]]
    /\ \A side \in Side : IsMap(levels[side], Prices, PriceLevel)
    /\ IsMap(active_orders, OrderIds, OrderLocator)
    /\ seen_order_ids \subseteq OrderIds
    /\ next_arrival_sequence \in Word
    /\ next_trade_id \in Word
    /\ \/ call = NoCall
       \/ call \in [active: {TRUE}, order: NewLimitOrder, remaining_quantity: Word,
                    trade_count: Nat,
                    plan: [remaining_quantity: Word, trade_count: Nat]]
    /\ terminated \in BOOLEAN
    /\ tape \in Seq(Trade)

\* The first check of invariants_hold: the best bid, and so every bid, is below
\* every ask.
Uncrossed ==
    \A bid \in DOMAIN levels["Buy"], ask \in DOMAIN levels["Sell"] : bid < ask

\* The corruption checks of match and cancel_resting_order never fire.
NeverTerminates == ~terminated

\* What preview_match promised before the first trade is what match did: the
\* two assertions after the loop in submit.
PlanIsExact ==
    call.active /\ ~Matching =>
        /\ call.remaining_quantity = call.plan.remaining_quantity
        /\ call.trade_count = call.plan.trade_count

\* Quantity is neither created nor lost: what an order still offers plus what it
\* traded, as maker or as taker, is what was submitted.
QuantityConserved ==
    /\ \A n \in Nodes :
          At(n).original_quantity = At(n).remaining_quantity + Traded(At(n).id)
    /\ call.active =>
          call.order.quantity = call.remaining_quantity + Traded(call.order.id)

\* Trade ids are issued without gap or repetition and never wrap, whatever
\* value the counter starts from.
TradeIdsConsecutive ==
    \A k \in 1..Len(tape) : tape[k].id = FirstTradeId + k - 1 /\ tape[k].id <= MaxValue

\* The orders that rest or are being matched.
Live == DOMAIN active_orders \cup (IF call.active THEN {call.order.id} ELSE {})

\* An order that left the book (filled, cancelled, or lost to an exception)
\* never comes back, and no later order takes its identifier.
IdsNeverReused ==
    [][seen_order_ids \subseteq seen_order_ids' /\ (Live' \cap seen_order_ids \subseteq Live)]_vars

=============================================================================

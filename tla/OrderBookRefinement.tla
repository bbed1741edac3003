------------------------- MODULE OrderBookRefinement -------------------------
(***************************************************************************)
(* OrderBook implements PriceTimeBook: the levels, the index and the       *)
(* counters together behave as a set of orders ranked by price and time.   *)
(***************************************************************************)
EXTENDS OrderBook

\* The abstract orders are the nodes of the lists; the arrival sequence is the
\* rank.
AbstractOrder(order) ==
    [id |-> order.id, side |-> order.side, price |-> order.limit_price,
     open |-> order.remaining_quantity, rank |-> order.arrival_sequence]

AbstractResting == {AbstractOrder(At(n)) : n \in Nodes}

AbstractTaker ==
    IF call.active
    THEN {[id |-> call.order.id, side |-> call.order.side,
           price |-> call.order.limit_price, open |-> call.remaining_quantity]}
    ELSE {}

AbstractTrades ==
    [k \in 1..Len(tape) |->
        [maker |-> tape[k].maker_order_id, taker |-> tape[k].taker_order_id,
         price |-> tape[k].execution_price, amount |-> tape[k].execution_quantity]]

Abstract ==
    INSTANCE PriceTimeBook WITH
        Ids <- OrderIds, Limits <- Prices, Amounts <- Quantities,
        Ranks <- 1..MaxValue,
        resting <- AbstractResting,
        taker <- AbstractTaker, used <- seen_order_ids, trades <- AbstractTrades

\* Every step of submit and cancel is a step of the abstract book or changes
\* nothing a caller can tell: strict price-time priority, execution at the
\* maker's price, and no order that rests while it could trade.
ImplementsPriceTime == Abstract!BookSpec

=============================================================================

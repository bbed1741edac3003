--------------------------- MODULE OrderBookViews ---------------------------
(***************************************************************************)
(* The const member functions of OrderBook (src/src/order_book.cpp): what  *)
(* a caller is shown between two calls, from the levels and the index, and *)
(* the self-check invariants_hold that submit and cancel assert.           *)
(***************************************************************************)
EXTENDS OrderBook

Nothing == {}   \* std::nullopt; a value is the set of it

\* The levels of a side in the order of its map.
LevelsBefore(side, p) == {q \in DOMAIN levels[side] : Precedes(side, q, p)}
InOrder(side) ==
    [i \in 1..Cardinality(DOMAIN levels[side]) |->
        CHOOSE p \in DOMAIN levels[side] : Cardinality(LevelsBefore(side, p)) = i - 1]

depth_from(side, max_levels) ==
    LET prices == InOrder(side) IN
    [i \in 1..Smaller(max_levels, Len(prices)) |->
        [price |-> prices[i], total_quantity |-> levels[side][prices[i]].total_quantity,
         order_count |-> Len(levels[side][prices[i]].orders)]]

depth(side, max_levels) ==
    IF max_levels = 0 \/ side \notin Side THEN <<>> ELSE depth_from(side, max_levels)

\* best_bid and best_ask: begin() of the map.
Best(side) ==
    IF DOMAIN levels[side] = {} THEN Nothing
    ELSE {[price |-> p, quantity |-> levels[side][p].total_quantity] :
             p \in {q \in DOMAIN levels[side] : IsBegin(side, q)}}
best_bid == Best("Buy")
best_ask == Best("Sell")

\* The order behind the locator's iterator.
find(id) ==
    IF id \notin DOMAIN active_orders THEN Nothing
    ELSE LET level == levels[active_orders[id].side][active_orders[id].price] IN
         {[id |-> id, side |-> level.orders[i].side, limit_price |-> level.orders[i].limit_price,
           original_quantity |-> level.orders[i].original_quantity,
           remaining_quantity |-> level.orders[i].remaining_quantity] :
              i \in PositionsOf(level.orders, id)}

active_order_count == Cardinality(DOMAIN active_orders)

-----------------------------------------------------------------------------
\* check_side of invariants_hold.  The order of the prices is the map's, and a sum
\* that would wrap is not the level's total, which is a Word.
check_side(side) ==
    \A p \in DOMAIN levels[side] :
        LET level == levels[side][p] IN
        /\ level.orders # <<>>
        /\ \A i \in 1..Len(level.orders) :
              LET order == level.orders[i] IN
              /\ order.side = side /\ order.limit_price = p
              /\ order.remaining_quantity \in 1..order.original_quantity
              /\ order.arrival_sequence # 0
              /\ \A j \in 1..(i - 1) : level.orders[j].arrival_sequence < order.arrival_sequence
              /\ order.id \in DOMAIN active_orders /\ order.id \in seen_order_ids
              /\ active_orders[order.id] = [side |-> side, price |-> p]
              /\ PositionsOf(level.orders, order.id) = {i}
        /\ level.total_quantity = QueueQuantity(level.orders)

invariants_hold ==
    /\ Uncrossed
    /\ check_side("Buy") /\ check_side("Sell")
    /\ Cardinality(Nodes) = Cardinality(DOMAIN active_orders)

\* "assert(impl_->invariants_hold())" in submit and cancel never fails, and the
\* book is as sound between two trades of a submit and after an allocation failed:
\* queues in order of arrival, totals that are the sum of what the orders offer,
\* and an index that names exactly the orders in the levels.
InvariantsHold == invariants_hold

\* The orders a set of prices of a side offers, and how much.
OrdersAt(side, prices) == {n \in Nodes : n[1] = side /\ n[2] \in prices}
Offered(nodes) == Cardinality(UNION {{n} \X (1..At(n).remaining_quantity) : n \in nodes})

\* What a caller is shown is the book, order by order: depth lists the best
\* max_levels prices that have an order, best first, each with the number and the
\* exact sum of its orders; the quote is the first of them; find finds exactly
\* the resting orders and the count is their number.
ViewsExact ==
    Idle =>
    /\ \A side \in Side, max_levels \in 0..(Cardinality(Prices) + 1) :
          LET view == depth(side, max_levels)
              prices == {At(n).limit_price : n \in OrdersAt(side, Prices)}
              shown == {view[i].price : i \in DOMAIN view}
          IN
          /\ Len(view) = Smaller(max_levels, Cardinality(prices)) /\ shown \subseteq prices
          /\ \A p \in shown, q \in prices \ shown : Precedes(side, p, q)
          /\ \A i \in DOMAIN view :
                /\ i > 1 => Precedes(side, view[i - 1].price, view[i].price)
                /\ view[i].order_count = Cardinality(OrdersAt(side, {view[i].price}))
                /\ view[i].total_quantity = Offered(OrdersAt(side, {view[i].price}))
          /\ max_levels = 1 =>
                Best(side) = {[price |-> view[i].price, quantity |-> view[i].total_quantity] :
                                 i \in DOMAIN view}
    /\ \A id \in OrderIds :
          find(id) = {[id |-> id, side |-> At(n).side, limit_price |-> At(n).limit_price,
                       original_quantity |-> At(n).original_quantity,
                       remaining_quantity |-> At(n).remaining_quantity] :
                         n \in {m \in Nodes : At(m).id = id}}
    /\ active_order_count = Cardinality(Nodes)

=============================================================================

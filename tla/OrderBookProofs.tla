--------------------------- MODULE OrderBookProofs ---------------------------
(***************************************************************************)
(* Proofs about the order book of src/src/order_book.cpp, for any number   *)
(* of identifiers, any prices and quantities and any width of a word: the  *)
(* safety properties, the self-check of the code, its views, and that the  *)
(* levels and the index implement a set of orders ranked by price and      *)
(* time.                                                                   *)
(***************************************************************************)
EXTENDS OrderBookStepProofs, OrderBookViews, OrderBookRefinement

\* What a leaf may take, in seconds, unless it names a prover; on a busy machine
\* the first attempt may find no time to start.
USE SMTT(30), ZenonT(30), SMTT(40), SMTT(50)

-----------------------------------------------------------------------------
(* The safety properties.                                                      *)

\* Every step of submit and cancel keeps the invariant, from the empty book on.
THEOREM Invariance == Spec => []IInv
<1>1. Init => IInv
  BY InitInv
<1>2. IInv /\ [Next]_vars => IInv'
  BY StepInv
<1> QED BY <1>1, <1>2, PTL DEF Spec

\* Every variable of the book, and every local of a submit in progress, holds a
\* value of its C++ type in every state of src/src/order_book.cpp.
THEOREM TypeCorrect == Spec => []TypeOK
<1>1. IInv => TypeOK
  BY Zenon DEF IInv, BookType, CallType, OtherType, TypeOK
<1> QED BY <1>1, Invariance, PTL

\* The corruption checks of match and cancel_resting_order never call
\* std::terminate.
THEOREM NoCorruption == Spec => []NeverTerminates
<1>1. IInv => NeverTerminates
  BY DEF IInv, OtherType, NeverTerminates
<1> QED BY <1>1, Invariance, PTL

\* The two assertions after the loop in submit hold: match executed what
\* preview_match had planned, for any book and any order.
THEOREM PlanExact == Spec => []PlanIsExact
<1>1. IInv => PlanIsExact
  BY PlanMet DEF PlanIsExact
<1> QED BY <1>1, Invariance, PTL

\* Every trade id is one more than that of the trade before, and none wraps.
THEOREM TradeIdsInSequence == Spec => []TradeIdsConsecutive
<1>1. IInv => TradeIdsConsecutive
  <2> SUFFICES ASSUME IInv, NEW k \in 1..Len(tape)
               PROVE  tape[k].id = FirstTradeId + k - 1 /\ tape[k].id <= MaxValue
    BY DEF TradeIdsConsecutive
  <2>1. MaxValue \in Nat /\ FirstTradeId \in Nat /\ Len(tape) \in Nat
    BY ConstantsAssumption DEF IInv, OtherType
  <2>2. tape[k].id = FirstTradeId + k - 1 /\ FirstTradeId + Len(tape) <= MaxValue + 1
    BY DEF IInv, CounterInv
  <2> QED BY <2>1, <2>2
<1> QED BY <1>1, Invariance, PTL

\* What an order still offers and what it has traded, as maker or as taker, is
\* what was submitted, between any two trades.
THEOREM Conserved == Spec => []QuantityConserved
<1>1. IInv => QuantityConserved
  <2> SUFFICES ASSUME IInv PROVE QuantityConserved
    OBVIOUS
  <2>1. ASSUME NEW n \in Nodes
        PROVE  At(n).original_quantity = At(n).remaining_quantity + Traded(At(n).id)
    <3>1. n[1] \in Side /\ n[2] \in DOMAIN levels[n[1]] /\ n[3] \in 1..Len(Orders(n[1], n[2]))
          /\ At(n) = Orders(n[1], n[2])[n[3]]
      BY <2>1, NodeIs
    <3>2. At(n).original_quantity = At(n).remaining_quantity + TradedIn(tape, At(n).id)
      BY <3>1 DEF IInv, ConservedInv
    <3>3. Traded(At(n).id) = TradedIn(tape, At(n).id)
      BY TradedAs
    <3> QED BY <3>2, <3>3
  <2>2. call.active => call.order.quantity = call.remaining_quantity + Traded(call.order.id)
    <3>1. Traded(call.order.id) = TradedIn(tape, call.order.id)
      BY TradedAs
    <3> QED BY <3>1 DEF IInv, ConservedInv
  <2> QED BY <2>1, <2>2 DEF QuantityConserved
<1> QED BY <1>1, Invariance, PTL

\* A step forgets no identifier and brings none back to life.
LEMMA StepIds ==
    ASSUME IInv, [Next]_vars
    PROVE  seen_order_ids \subseteq seen_order_ids' /\ Live' \cap seen_order_ids \subseteq Live
<1> DEFINE Goal == seen_order_ids \subseteq seen_order_ids' /\ Live' \cap seen_order_ids \subseteq Live
<1> SUFFICES Goal
  OBVIOUS
<1>1. ASSUME active_orders' = active_orders, seen_order_ids' = seen_order_ids,
             call' = call \/ call' = NoCall
      PROVE  Goal
  BY <1>1 DEF Live, NoCall
<1>2. ASSUME NEW order \in NewLimitOrder, Reject(order) PROVE Goal
  BY <1>1, <1>2 DEF Reject
<1>3. ASSUME NEW order \in NewLimitOrder, Submit(order) PROVE Goal
  <2>1. order.id \notin seen_order_ids
    BY <1>3, Accepted DEF IInv, Submit
  <2>2. Live' = DOMAIN active_orders \cup {order.id}
    BY <1>3 DEF Submit, Live
  <2> QED BY <1>3, <2>1, <2>2 DEF Submit, Live
<1>4. CASE MatchStep
  <2>1. call.active /\ \E p \in DOMAIN levels[Opposite(call.order.side)] : \E e \in 1..MaxValue :
                          Trades(Opposite(call.order.side), p, e)
    BY <1>4, MatchEffect
  <2>2. call'.order = call.order /\ DOMAIN active_orders' \subseteq DOMAIN active_orders
    BY <2>1, TradeCall, TradeBook, Zenon
  <2>3. seen_order_ids' = seen_order_ids
    BY <1>4 DEF MatchStep
  <2> QED BY <2>1, <2>2, <2>3 DEF Live
<1>5. CASE Rest
  <2>1. call.active /\ call' = NoCall /\ seen_order_ids' = seen_order_ids
        /\ DOMAIN active_orders' \subseteq DOMAIN active_orders \cup {call.order.id}
    BY <1>5 DEF Rest, Put
  <2>2. Live' = DOMAIN active_orders'
    BY <2>1 DEF Live, NoCall
  <2> QED BY <2>1, <2>2 DEF Live
<1>6. CASE InsertThrows
  BY <1>1, <1>6 DEF InsertThrows
<1>7. ASSUME NEW id \in OrderIds \cup {ZeroId}, CancelActive(id) PROVE Goal
  <2>1. call' = call /\ seen_order_ids' = seen_order_ids
    BY <1>7, Zenon DEF CancelActive
  <2>2. DOMAIN active_orders' \subseteq DOMAIN active_orders
    <3>1. \E side \in Side : \E p \in DOMAIN levels[side] : \E i \in 1..Len(Orders(side, p)) :
             RemovesNode(side, p, i)
      BY <1>7, CancelEffect
    <3>2. \E key : active_orders' = Without(active_orders, key)
      BY <3>1 DEF RemovesNode
    <3> QED BY <3>2 DEF Without
  <2> QED BY <2>1, <2>2 DEF Live
<1>8. ASSUME NEW id \in OrderIds \cup {ZeroId}, CancelNotFound(id) PROVE Goal
  BY <1>1, <1>8 DEF CancelNotFound
<1>9. CASE UNCHANGED vars
  BY <1>1, <1>9 DEF vars
<1> QED BY <1>2, <1>3, <1>4, <1>5, <1>6, <1>7, <1>8, <1>9 DEF Next

\* An order that left the book never comes back, and submit accepts no later
\* order under its identifier.
THEOREM IdsUsedOnce == Spec => IdsNeverReused
<1>1. IInv /\ [Next]_vars =>
         [seen_order_ids \subseteq seen_order_ids' /\ (Live' \cap seen_order_ids \subseteq Live)]_vars
  BY StepIds
<1> QED BY <1>1, Invariance, PTL DEF Spec, IdsNeverReused

-----------------------------------------------------------------------------
(* The self-check.                                                             *)

\* "assert(impl_->invariants_hold())" as the code computes it.
LEMMA BookSound ==
    ASSUME IInv
    PROVE  invariants_hold
<1>1. BookType /\ QueueInv /\ NodeInv /\ IndexInv /\ SeenInv /\ Uncrossed
  BY DEF IInv
<1>2. ASSUME NEW side \in Side PROVE check_side(side)
  <2> SUFFICES ASSUME NEW p \in DOMAIN levels[side]
               PROVE  /\ Orders(side, p) # <<>>
                      /\ \A i \in 1..Len(Orders(side, p)) :
                           LET order == Orders(side, p)[i] IN
                           /\ order.side = side /\ order.limit_price = p
                           /\ order.remaining_quantity \in 1..order.original_quantity
                           /\ order.arrival_sequence # 0
                           /\ \A j \in 1..(i - 1) :
                                 Orders(side, p)[j].arrival_sequence < order.arrival_sequence
                           /\ order.id \in DOMAIN active_orders /\ order.id \in seen_order_ids
                           /\ active_orders[order.id] = [side |-> side, price |-> p]
                           /\ PositionsOf(Orders(side, p), order.id) = {i}
                      /\ levels[side][p].total_quantity = QueueQuantity(Orders(side, p))
    BY Zenon DEF check_side, Orders
  <2>1. /\ Orders(side, p) # <<>> /\ levels[side][p].total_quantity = QueueQuantity(Orders(side, p))
    BY <1>1 DEF QueueInv
  <2>2. Len(Orders(side, p)) \in Nat
    BY <1>1, LevelType
  <2>3. ASSUME NEW i \in 1..Len(Orders(side, p))
        PROVE  /\ Settled(Orders(side, p)[i], side, p)
               /\ Orders(side, p)[i].id \in seen_order_ids
               /\ \A j \in 1..(i - 1) :
                     Orders(side, p)[j].arrival_sequence < Orders(side, p)[i].arrival_sequence
               /\ PositionsOf(Orders(side, p), Orders(side, p)[i].id) = {i}
    <3>1. Settled(Orders(side, p)[i], side, p)
      BY <1>1 DEF NodeInv
    <3>2. Orders(side, p)[i].id \in seen_order_ids
      BY <1>1, <3>1 DEF Settled, SeenInv
    <3>3. \A j \in 1..(i - 1) : j \in 1..Len(Orders(side, p)) /\ j < i
      BY <2>2
    <3>4. \A j \in 1..(i - 1) :
             Orders(side, p)[j].arrival_sequence < Orders(side, p)[i].arrival_sequence
      BY <1>1, <3>3 DEF QueueInv
    <3>5. \A j \in 1..Len(Orders(side, p)) : Orders(side, p)[j].id = Orders(side, p)[i].id => j = i
      BY <1>1, NodesDiffer
    <3>6. PositionsOf(Orders(side, p), Orders(side, p)[i].id) = {i}
      BY <3>5 DEF PositionsOf
    <3> QED BY <3>1, <3>2, <3>4, <3>6
  <2> QED BY <2>1, <2>3, Zenon DEF Settled
<1>3. Cardinality(Nodes) = Cardinality(DOMAIN active_orders)
  <2> DEFINE ids == DOMAIN active_orders
             g == [id \in ids |-> CHOOSE n \in Nodes : At(n).id = id]
  <2>1. ASSUME NEW n \in Nodes PROVE At(n).id \in ids
    <3>1. Settled(At(n), n[1], n[2])
      BY <1>1, NodeIs DEF NodeInv
    <3> QED BY <3>1 DEF Settled
  <2>2. ASSUME NEW n \in Nodes, NEW m \in Nodes, At(n).id = At(m).id PROVE n = m
    <3>1. n[1] = m[1] /\ n[2] = m[2] /\ n[3] = m[3]
      BY <1>1, <2>2, NodeIs, NodesDiffer
    <3> QED BY <3>1, NodeIs
  <2>3. ASSUME NEW id \in ids PROVE \E n \in Nodes : At(n).id = id
    <3> DEFINE s == active_orders[id].side
               p == active_orders[id].price
    <3>1. s \in Side /\ p \in DOMAIN levels[s]
      BY <1>1 DEF BookType, IsMap, OrderLocator, IndexInv
    <3>2. PICK i \in 1..Len(Orders(s, p)) : Orders(s, p)[i].id = id
      BY <1>1 DEF IndexInv
    <3> HIDE DEF s, p
    <3> QED BY <3>1, <3>2, NodeAt, Zenon
  <2>4. ASSUME NEW id \in ids PROVE g[id] \in Nodes /\ At(g[id]).id = id
    BY <2>3
  <2>5. g \in [ids -> Nodes]
    BY <2>4
  <2>6. \A n \in Nodes : g[At(n).id] = n
    <3> HIDE DEF g
    <3> QED BY <2>1, <2>2, <2>4
  <2> HIDE DEF g
  <2>7. g \in Bijection(ids, Nodes)
    <3>1. \A i, j \in ids : g[i] = g[j] => i = j
      BY <2>4
    <3>2. \A n \in Nodes : \E i \in ids : g[i] = n
      BY <2>1, <2>6
    <3> QED BY <2>5, <3>1, <3>2 DEF Bijection, Injection, Surjection, IsInjective
  <2>8. ExistsBijection(ids, Nodes)
    BY <2>7 DEF ExistsBijection
  <2>9. IsFiniteSet(ids)
    BY <1>1, ConstantsAssumption, FS_Subset DEF BookType, IsMap
  <2> QED BY <2>8, <2>9, FS_Bijection
<1> QED BY <1>1, <1>2, <1>3 DEF invariants_hold, Side

\* "assert(impl_->invariants_hold())" of submit and cancel never fails, and would
\* not fail between two trades either.
THEOREM SelfCheckHolds == Spec => []InvariantsHold
<1>1. IInv => InvariantsHold
  BY BookSound DEF InvariantsHold
<1> QED BY <1>1, Invariance, PTL

-----------------------------------------------------------------------------
(* The views.                                                                  *)

\* InOrder lists the levels of a side, each once, in the order of its map.
LEMMA LevelsInOrder ==
    ASSUME BookType, NEW side \in Side
    PROVE  LET D == DOMAIN levels[side]
               n == Cardinality(D)
               o == InOrder(side)
           IN  /\ IsFiniteSet(D) /\ n \in Nat /\ Len(o) = n /\ DOMAIN o = 1..n
               /\ \A i \in 1..n : o[i] \in D
               /\ \A i, j \in 1..n : i < j => Precedes(side, o[i], o[j])
               /\ \A p \in D : \E i \in 1..n : o[i] = p
<1> DEFINE D == DOMAIN levels[side]
           n == Cardinality(D)
           o == InOrder(side)
           B == [p \in D |-> LevelsBefore(side, p)]
           r == [p \in D |-> Cardinality(B[p])]
<1>1. D \subseteq Prices /\ D \subseteq Int
  BY ConstantsAssumption DEF BookType, IsMap
<1>2. IsFiniteSet(D)
  <2>1. 1 \in Int /\ MaxValue \in Int /\ D \in SUBSET (1..MaxValue)
    BY <1>1, ConstantsAssumption
  <2>2. IsFiniteSet(1..MaxValue)
    BY <2>1, FS_Interval, Zenon
  <2> QED BY <2>1, <2>2, FS_Subset, Zenon
<1>3. \A p, q \in D : q \in B[p] <=> Precedes(side, q, p)
  BY DEF LevelsBefore
<1>4. \A p \in D : B[p] \in SUBSET D /\ p \notin B[p]
  BY <1>1, <1>3 DEF LevelsBefore, Precedes
<1>5. \A p \in D : r[p] = Cardinality(B[p]) /\ r[p] = Cardinality(LevelsBefore(side, p))
  OBVIOUS
<1>6. o = [i \in 1..n |-> CHOOSE p \in D : Cardinality(LevelsBefore(side, p)) = i - 1]
  BY DEF InOrder
<1> HIDE DEF D, n, o, B, r
<1>7. \A p, q \in D : p = q \/ p \in B[q] \/ q \in B[p]
  BY <1>1, <1>3 DEF Precedes
<1>8. \A p, q \in D : q \in B[p] => B[q] \subseteq B[p]
  <2> SUFFICES ASSUME NEW p \in D, NEW q \in D, q \in B[p], NEW x \in B[q] PROVE x \in B[p]
    OBVIOUS
  <2>1. x \in D
    BY <1>4
  <2> QED BY <1>1, <1>3, <2>1 DEF Precedes
<1>9. /\ n \in Nat /\ \A p \in D : r[p] \in 0..(n - 1)
      /\ \A p, q \in D : q \in B[p] => r[q] < r[p]
      /\ \A k \in 0..(n - 1) : \E p \in D : r[p] = k
  <2>1. /\ n \in Nat /\ \A p \in D : Cardinality(B[p]) \in 0..(n - 1)
        /\ \A p, q \in D : q \in B[p] => Cardinality(B[q]) < Cardinality(B[p])
        /\ \A k \in 0..(n - 1) : \E p \in D : Cardinality(B[p]) = k
    BY <1>2, <1>4, <1>7, <1>8, Ranks, Zenon DEF n
  <2> QED BY <1>5, <2>1, Zenon
<1>10. ASSUME NEW i \in 1..n PROVE o[i] \in D /\ r[o[i]] = i - 1
  <2>1. i - 1 \in 0..(n - 1)
    BY <1>9
  <2>2. PICK p \in D : r[p] = i - 1
    BY <1>9, <2>1, Zenon
  <2>3. Cardinality(LevelsBefore(side, p)) = i - 1
    BY <1>5, <2>2, Zenon
  <2>4. o[i] = CHOOSE q \in D : Cardinality(LevelsBefore(side, q)) = i - 1
    BY <1>6
  <2>5. o[i] \in D /\ Cardinality(LevelsBefore(side, o[i])) = i - 1
    BY <2>3, <2>4, Zenon
  <2> QED BY <1>5, <2>5, Zenon
<1>11. ASSUME NEW i \in 1..n, NEW j \in 1..n, i < j PROVE Precedes(side, o[i], o[j])
  <2>1. o[i] \in D /\ o[j] \in D /\ r[o[i]] < r[o[j]] /\ r[o[i]] \in Int /\ r[o[j]] \in Int
    BY <1>9, <1>10, <1>11
  <2>2. o[i] # o[j] /\ o[j] \notin B[o[i]]
    BY <1>9, <2>1
  <2> QED BY <1>3, <1>7, <2>1, <2>2, Zenon
<1>12. ASSUME NEW p \in D PROVE \E i \in 1..n : o[i] = p
  <2>1. r[p] + 1 \in 1..n /\ r[p] = (r[p] + 1) - 1 /\ r[p] \in Int
    BY <1>9
  <2>2. PICK i \in 1..n : i - 1 = r[p]
    BY <2>1
  <2>3. o[i] \in D /\ r[o[i]] = r[p]
    BY <1>10, <2>2, Zenon
  <2>4. o[i] \notin B[p] /\ p \notin B[o[i]]
    BY <1>9, <2>1, <2>3
  <2> QED BY <1>7, <2>3, <2>4, Zenon
<1>13. Len(o) = n /\ DOMAIN o = 1..n
  BY <1>6, <1>9
<1> QED BY <1>2, <1>9, <1>10, <1>11, <1>12, <1>13, Zenon DEF D, n, o

\* The orders at one price are the queue of its level.
LEMMA OrdersOfLevel ==
    ASSUME BookType, QueueInv, NEW side \in Side, NEW p \in DOMAIN levels[side]
    PROVE  /\ Len(Orders(side, p)) = Cardinality(OrdersAt(side, {p}))
           /\ levels[side][p].total_quantity = Offered(OrdersAt(side, {p}))
<1> DEFINE q == Orders(side, p)
           M == 1..Len(q)
           N == OrdersAt(side, {p})
           f == [i \in M |-> <<side, p, i>>]
           v == [n \in N |-> At(n).remaining_quantity]
<1>1. q \in Seq(RestingOrder) /\ Len(q) \in Nat
  BY LevelType
<1>2. \A i \in M : f[i] = <<side, p, i>> /\ f[i] \in N /\ At(f[i]) = q[i]
  BY NodeAt DEF OrdersAt
<1>3. ASSUME NEW n \in N PROVE \E i \in M : f[i] = n
  <2>1. n \in Nodes /\ n[1] = side /\ n[2] = p
    BY DEF OrdersAt
  <2>2. n = <<side, p, n[3]>> /\ n[3] \in M
    BY <2>1, NodeIs
  <2> QED BY <2>2
<1>4. f \in Bijection(M, N)
  <2>1. f \in [M -> N]
    BY <1>2, Zenon
  <2>2. \A i, j \in M : f[i] = f[j] => i = j
    BY <1>2
  <2> HIDE DEF f
  <2> QED BY <1>3, <2>1, <2>2, Zenon DEF Bijection, Injection, Surjection, IsInjective
<1>5. IsFiniteSet(M) /\ Cardinality(M) = Len(q)
  <2>1. 1 \in Int /\ Len(q) \in Int
    BY <1>1
  <2> QED BY <1>1, <2>1, FS_Interval
<1>6. Cardinality(N) = Cardinality(M)
  BY <1>4, <1>5, FS_Bijection DEF ExistsBijection
<1>7. /\ MaxValue \in Nat /\ QueueQuantity(q) = Size(M, Weights(q))
      /\ \A i \in M : q[i].remaining_quantity \in 0..MaxValue /\ Weights(q)[i] = q[i].remaining_quantity
  BY <1>1, QueueType, QueueAsSize
<1>8. (\A i \in M : v[f[i]] = Weights(q)[i]) /\ \A i \in M : Weights(q)[i] \in 0..MaxValue
  BY <1>2, <1>7, Zenon
<1>9. Offered(N) = Size(N, v)
  <2>1. \A n \in N : v[n] = At(n).remaining_quantity
    OBVIOUS
  <2> HIDE DEF v, N
  <2>2. UNION {{n} \X (1..At(n).remaining_quantity) : n \in N} = Stack(N, v)
    BY <2>1 DEF Stack
  <2> QED BY <2>2, Zenon DEF Offered, Size
<1>10. levels[side][p].total_quantity = QueueQuantity(q)
  BY DEF QueueInv
<1> DEFINE w == Weights(q)
<1> HIDE DEF q, M, N, f, v, w
<1>11. Size(N, v) = Size(M, w)
  BY <1>4, <1>5, <1>7, <1>8, SizeRename DEF w
<1> QED BY <1>5, <1>6, <1>7, <1>9, <1>10, <1>11, Zenon DEF q, N, w

\* The prices of the orders on a side are those of its levels.
LEMMA PricesOfSide ==
    ASSUME BookType, QueueInv, NodeInv, NEW side \in Side
    PROVE  {At(n).limit_price : n \in OrdersAt(side, Prices)} = DOMAIN levels[side]
<1>1. ASSUME NEW n \in OrdersAt(side, Prices) PROVE At(n).limit_price \in DOMAIN levels[side]
  <2>1. n \in Nodes /\ n[1] = side
    BY DEF OrdersAt
  <2>2. n[2] \in DOMAIN levels[side] /\ Settled(At(n), side, n[2])
    BY <2>1, NodeIs DEF NodeInv
  <2> QED BY <2>2 DEF Settled
<1>2. ASSUME NEW p \in DOMAIN levels[side]
      PROVE  \E n \in OrdersAt(side, Prices) : At(n).limit_price = p
  <2>1. 1 \in 1..Len(Orders(side, p)) /\ p \in Prices
    <3>1. Orders(side, p) \in Seq(RestingOrder) /\ Orders(side, p) # <<>> /\ p \in Prices
      BY LevelType DEF QueueInv
    <3> QED BY <3>1
  <2>2. <<side, p, 1>> \in Nodes /\ At(<<side, p, 1>>) = Orders(side, p)[1]
    BY <2>1, NodeAt
  <2>3. Settled(Orders(side, p)[1], side, p)
    BY <2>1 DEF NodeInv
  <2>4. <<side, p, 1>> \in OrdersAt(side, Prices)
    BY <2>1, <2>2 DEF OrdersAt
  <2> QED BY <2>2, <2>3, <2>4 DEF Settled
<1> QED BY <1>1, <1>2

\* The locator of an order leads to its node, and there is no other.
LEMMA FindIs ==
    ASSUME BookType, NodeInv, IndexInv, NEW id
    PROVE  find(id) = {[id |-> id, side |-> At(n).side, limit_price |-> At(n).limit_price,
                        original_quantity |-> At(n).original_quantity,
                        remaining_quantity |-> At(n).remaining_quantity] :
                          n \in {m \in Nodes : At(m).id = id}}
<1> DEFINE F == {m \in Nodes : At(m).id = id}
           Shown(order) == [id |-> id, side |-> order.side, limit_price |-> order.limit_price,
                            original_quantity |-> order.original_quantity,
                            remaining_quantity |-> order.remaining_quantity]
<1>1. ASSUME NEW n \in F
      PROVE  /\ n = <<n[1], n[2], n[3]>> /\ n[3] \in 1..Len(Orders(n[1], n[2]))
             /\ At(n) = Orders(n[1], n[2])[n[3]] /\ At(n).id = id
             /\ id \in DOMAIN active_orders /\ active_orders[id] = [side |-> n[1], price |-> n[2]]
  <2>1. n \in Nodes /\ At(n).id = id
    OBVIOUS
  <2> QED BY <2>1, NodeIs DEF NodeInv, Settled
<1>2. CASE id \notin DOMAIN active_orders
  <2>1. F = {}
    BY <1>1, <1>2
  <2> QED BY <1>2, <2>1 DEF find, Nothing
<1>3. CASE id \in DOMAIN active_orders
  <2> DEFINE s == active_orders[id].side
             p == active_orders[id].price
             P == PositionsOf(Orders(s, p), id)
  <2>1. s \in Side
    BY <1>3 DEF BookType, IsMap, OrderLocator
  <2>2. find(id) = {Shown(Orders(s, p)[i]) : i \in P}
    BY <1>3, Zenon DEF find, Orders
  <2>3. ASSUME NEW n \in F PROVE n[3] \in P /\ At(n) = Orders(s, p)[n[3]]
    <3>1. /\ n[3] \in 1..Len(Orders(n[1], n[2])) /\ At(n) = Orders(n[1], n[2])[n[3]]
          /\ At(n).id = id /\ active_orders[id] = [side |-> n[1], price |-> n[2]]
      BY <1>1, Zenon
    <3>2. n[1] = s /\ n[2] = p
      BY <3>1
    <3> QED BY <3>1, <3>2, Zenon DEF PositionsOf
  <2>4. ASSUME NEW i \in P PROVE \E n \in F : At(n) = Orders(s, p)[i]
    <3>1. i \in 1..Len(Orders(s, p)) /\ Orders(s, p)[i].id = id
      BY DEF PositionsOf
    <3>2. p \in DOMAIN levels[s]
      BY <1>3 DEF IndexInv
    <3>3. <<s, p, i>> \in Nodes /\ At(<<s, p, i>>) = Orders(s, p)[i]
      BY <2>1, <3>1, <3>2, NodeAt
    <3> QED BY <3>1, <3>3
  <2> HIDE DEF s, p, P, F
  <2>5. {Shown(Orders(s, p)[i]) : i \in P} = {Shown(At(n)) : n \in F}
    BY <2>3, <2>4
  <2> QED BY <2>2, <2>5 DEF F
<1> QED BY <1>2, <1>3

\* depth has the first levels of the side.
LEMMA DepthLevels ==
    ASSUME BookType, NEW side \in Side, NEW m \in Nat
    PROVE  LET view == depth(side, m)
               o == InOrder(side)
               k == Smaller(m, Cardinality(DOMAIN levels[side]))
           IN  /\ k \in 0..Cardinality(DOMAIN levels[side]) /\ Len(view) = k /\ DOMAIN view = 1..k
               /\ \A i \in 1..k : /\ view[i].price = o[i]
                                  /\ view[i].total_quantity = levels[side][o[i]].total_quantity
                                  /\ view[i].order_count = Len(Orders(side, o[i]))
<1> DEFINE n == Cardinality(DOMAIN levels[side])
           o == InOrder(side)
           k == Smaller(m, n)
<1>1. n \in Nat /\ Len(o) = n
  BY LevelsInOrder, Zenon
<1>2. k \in 0..n
  <2> HIDE DEF n
  <2> QED BY <1>1 DEF Smaller
<1>3. CASE m = 0
  <2>1. k = 0
    <3> HIDE DEF n
    <3> QED BY <1>1, <1>3 DEF Smaller
  <2>2. depth(side, m) = <<>>
    BY <1>3 DEF depth
  <2> HIDE DEF k, n
  <2>3. Len(<<>>) = 0 /\ DOMAIN <<>> = 1..0 /\ \A i \in 1..0 : FALSE
    OBVIOUS
  <2> QED BY <1>2, <2>1, <2>2, <2>3 DEF k, n
<1>4. CASE m # 0
  <2>1. depth(side, m) = [i \in 1..k |->
            [price |-> o[i], total_quantity |-> levels[side][o[i]].total_quantity,
             order_count |-> Len(levels[side][o[i]].orders)]]
    BY <1>1, <1>4, Zenon DEF depth, depth_from
  <2> DEFINE view == depth(side, m)
  <2> HIDE DEF view, k, n, o
  <2>2. /\ DOMAIN view = 1..k
        /\ \A i \in 1..k : /\ view[i].price = o[i]
                           /\ view[i].total_quantity = levels[side][o[i]].total_quantity
                           /\ view[i].order_count = Len(Orders(side, o[i]))
    BY <2>1 DEF Orders, view
  <2>3. Len(view) = k
    BY <1>1, <1>2, <2>1 DEF view
  <2> QED BY <1>2, <2>2, <2>3, Zenon DEF view, k, n, o
<1> QED BY <1>3, <1>4

\* The quote is the first level.
LEMMA BestIsFirst ==
    ASSUME BookType, NEW side \in Side
    PROVE  /\ DOMAIN levels[side] = {} => Best(side) = {}
           /\ DOMAIN levels[side] # {} =>
                LET p == InOrder(side)[1] IN
                Best(side) = {[price |-> p, quantity |-> levels[side][p].total_quantity]}
<1> DEFINE D == DOMAIN levels[side]
           n == Cardinality(D)
           o == InOrder(side)
<1>1. /\ IsFiniteSet(D) /\ n \in Nat /\ \A i \in 1..n : o[i] \in D
      /\ \A i, j \in 1..n : i < j => Precedes(side, o[i], o[j])
      /\ \A p \in D : \E i \in 1..n : o[i] = p
  BY LevelsInOrder, Zenon
<1>2. CASE D = {}
  BY <1>2 DEF Best, Nothing
<1>3. CASE D # {}
  <2> HIDE DEF n, o
  <2>1. PICK x \in 1..n : TRUE
    BY <1>1, <1>3
  <2>2. 1 \in 1..n /\ \A j \in 1..n : j = 1 \/ 1 < j
    BY <1>1, <2>1
  <2>3. o[1] \in D
    BY <1>1, <2>2, Zenon
  <2>4. ASSUME NEW q \in D, q # o[1] PROVE Precedes(side, o[1], q)
    <3>1. PICK i \in 1..n : o[i] = q
      BY <1>1, Zenon
    <3>2. 1 < i
      BY <2>2, <2>4, <3>1, Zenon
    <3> QED BY <1>1, <2>2, <3>1, <3>2, Zenon
  <2>5. \A p, q \in D : Precedes(side, p, q) => ~ Precedes(side, q, p)
    <3>1. D \subseteq Int
      BY ConstantsAssumption DEF BookType, IsMap
    <3> HIDE DEF D
    <3> QED BY <3>1 DEF Precedes
  <2>6. \A q \in D : IsBegin(side, q) <=> q = o[1]
    BY <2>3, <2>4, <2>5, Zenon DEF IsBegin
  <2> DEFINE Quote(p) == [price |-> p, quantity |-> levels[side][p].total_quantity]
  <2>7. Best(side) = {Quote(p) : p \in {q \in D : IsBegin(side, q)}}
    BY <1>3, Zenon DEF Best
  <2>8. {q \in D : IsBegin(side, q)} = {o[1]}
    BY <2>3, <2>6, Zenon
  <2>9. Best(side) = {Quote(o[1])}
    <3> HIDE DEF Quote
    <3> QED BY <2>7, <2>8
  <2> QED BY <1>3, <2>9, Zenon DEF o
<1> QED BY <1>2, <1>3

LEMMA DepthIs ==
    ASSUME BookType, QueueInv, NodeInv, NEW side \in Side, NEW m \in Nat
    PROVE  LET view == depth(side, m)
               prices == {At(n).limit_price : n \in OrdersAt(side, Prices)}
               shown == {view[i].price : i \in DOMAIN view}
           IN
           /\ Len(view) = Smaller(m, Cardinality(prices)) /\ shown \subseteq prices
           /\ \A p \in shown, q \in prices \ shown : Precedes(side, p, q)
           /\ \A i \in DOMAIN view :
                 /\ i > 1 => Precedes(side, view[i - 1].price, view[i].price)
                 /\ view[i].order_count = Cardinality(OrdersAt(side, {view[i].price}))
                 /\ view[i].total_quantity = Offered(OrdersAt(side, {view[i].price}))
           /\ m = 1 => Best(side) = {[price |-> view[i].price, quantity |-> view[i].total_quantity] :
                                        i \in DOMAIN view}
<1> DEFINE D == DOMAIN levels[side]
           n == Cardinality(D)
           o == InOrder(side)
           k == Smaller(m, n)
           view == depth(side, m)
           shown == {view[i].price : i \in DOMAIN view}
<1>1. /\ IsFiniteSet(D) /\ n \in Nat /\ \A i \in 1..n : o[i] \in D
      /\ \A i, j \in 1..n : i < j => Precedes(side, o[i], o[j])
      /\ \A p \in D : \E i \in 1..n : o[i] = p
  BY LevelsInOrder, Zenon
<1>2. /\ k \in 0..n /\ Len(view) = k /\ DOMAIN view = 1..k
      /\ \A i \in 1..k : /\ view[i].price = o[i]
                         /\ view[i].total_quantity = levels[side][o[i]].total_quantity
                         /\ view[i].order_count = Len(Orders(side, o[i]))
  BY DepthLevels, Zenon
<1>3. {At(x).limit_price : x \in OrdersAt(side, Prices)} = D
  BY PricesOfSide, Zenon
<1>4. \A p : p \in shown <=> \E i \in 1..k : o[i] = p
  <2> HIDE DEF view, k, o
  <2> QED BY <1>2
<1>5. m = 1 => Best(side) = {[price |-> view[i].price, quantity |-> view[i].total_quantity] :
                                i \in DOMAIN view}
  <2> DEFINE Quote(p) == [price |-> p, quantity |-> levels[side][p].total_quantity]
             Shown(i) == [price |-> view[i].price, quantity |-> view[i].total_quantity]
  <2> SUFFICES ASSUME m = 1 PROVE Best(side) = {Shown(i) : i \in 1..k}
    BY <1>2, Zenon
  <2>1. /\ D = {} => Best(side) = {}
        /\ D # {} => Best(side) = {Quote(o[1])}
    BY BestIsFirst, Zenon
  <2>2. n = 0 <=> D = {}
    BY <1>1, FS_EmptySet
  <2>3. k = IF D = {} THEN 0 ELSE 1
    <3> HIDE DEF n, D
    <3> QED BY <1>1, <2>2 DEF Smaller
  <2>4. \A i \in 1..k : Shown(i) = Quote(o[i])
    BY <1>2, Zenon
  <2> HIDE DEF Quote, Shown, D, n, k, o, view
  <2>5. CASE D = {}
    BY <2>1, <2>3, <2>5
  <2>6. CASE D # {}
    <3>1. 1..k = {1} /\ 1 \in 1..k
      BY <2>3, <2>6
    <3>2. Shown(1) = Quote(o[1])
      BY <2>4, <3>1, Zenon
    <3> QED BY <2>1, <2>6, <3>1, <3>2, Zenon
  <2> QED BY <2>5, <2>6
<1> HIDE DEF D, n, o, k, view, shown
<1>6. \A i \in 1..k : i \in 1..n /\ (i > 1 => i - 1 \in 1..k /\ i - 1 \in 1..n /\ i - 1 < i)
  BY <1>1, <1>2
<1>7. ASSUME NEW i \in 1..k
      PROVE  /\ i > 1 => Precedes(side, view[i - 1].price, view[i].price)
             /\ view[i].order_count = Cardinality(OrdersAt(side, {view[i].price}))
             /\ view[i].total_quantity = Offered(OrdersAt(side, {view[i].price}))
  <2>1. i > 1 => Precedes(side, view[i - 1].price, view[i].price)
    BY <1>1, <1>2, <1>6, Zenon
  <2>2. o[i] \in DOMAIN levels[side]
    BY <1>1, <1>6, Zenon DEF D
  <2>3. /\ Len(Orders(side, o[i])) = Cardinality(OrdersAt(side, {o[i]}))
        /\ levels[side][o[i]].total_quantity = Offered(OrdersAt(side, {o[i]}))
    BY <2>2, OrdersOfLevel, Zenon
  <2> QED BY <1>2, <2>1, <2>3, Zenon
<1>8. shown \subseteq D
  BY <1>1, <1>4, <1>6, Zenon
<1>9. ASSUME NEW p \in shown, NEW q \in D \ shown PROVE Precedes(side, p, q)
  <2>1. PICK i \in 1..k : o[i] = p
    BY <1>4, Zenon
  <2>2. PICK j \in 1..n : o[j] = q
    BY <1>1, Zenon
  <2>3. j \notin 1..k
    BY <1>4, <2>2, Zenon
  <2>4. i \in 1..n /\ i < j
    BY <1>1, <1>2, <2>3
  <2> QED BY <1>1, <2>1, <2>2, <2>4, Zenon
<1> QED BY <1>2, <1>3, <1>5, <1>7, <1>8, <1>9, Zenon DEF n, k, view, shown

\* depth, best_bid, best_ask, find and active_order_count show exactly the orders
\* that rest in the book, however it came about.
THEOREM ViewsShowTheBook == Spec => []ViewsExact
<1>1. IInv => ViewsExact
  <2> SUFFICES ASSUME IInv PROVE ViewsExact
    OBVIOUS
  <2>1. BookType /\ QueueInv /\ NodeInv /\ IndexInv
    BY DEF IInv
  <2>2. \A m \in 0..(Cardinality(Prices) + 1) : m \in Nat
    OBVIOUS
  <2>3. active_order_count = Cardinality(Nodes)
    BY BookSound, Zenon DEF invariants_hold, active_order_count
  <2> QED BY <2>1, <2>2, <2>3, DepthIs, FindIs, Zenon DEF ViewsExact
<1> QED BY <1>1, Invariance, PTL

-----------------------------------------------------------------------------
(* The book implements PriceTimeBook.                                          *)

\* The orders of the book as the abstract book has them.
Ranked(orders) == {AbstractOrder(o) : o \in orders}
RankedFact == AbstractResting = Ranked(AllOrders)

LEMMA RankedHolds == RankedFact
BY DEF RankedFact, AbstractResting, Ranked, AllOrders

\* Removing an order from the book removes its image.
LEMMA RankedRemove ==
    ASSUME NEW S, NEW o \in S, \A r \in S : r.id = o.id => r = o
    PROVE  Ranked(S \ {o}) = Ranked(S) \ {AbstractOrder(o)}
<1>1. \A r \in S : AbstractOrder(r) = AbstractOrder(o) => r = o
  BY DEF AbstractOrder
<1> QED BY <1>1 DEF Ranked

LEMMA RankedAdd ==
    ASSUME NEW S, NEW o
    PROVE  Ranked(S \cup {o}) = Ranked(S) \cup {AbstractOrder(o)}
BY DEF Ranked

\* A trade on the tape is a trade of the abstract book.
AbstractTrade(t) ==
    [maker |-> t.maker_order_id, taker |-> t.taker_order_id,
     price |-> t.execution_price, amount |-> t.execution_quantity]
Listed(s) == [k \in 1..Len(s) |-> AbstractTrade(s[k])]
ListedFact == AbstractTrades = Listed(tape)

LEMMA ListedHolds == ListedFact
BY DEF ListedFact, AbstractTrades, Listed, AbstractTrade

\* A sequence is the function from its positions to its elements.
LEMMA SequenceIs ==
    ASSUME NEW X, NEW z \in Seq(X), NEW n, Len(z) = n
    PROVE  DOMAIN z = 1..n /\ z = [k \in 1..n |-> z[k]]
OBVIOUS

LEMMA ListedAppend ==
    ASSUME NEW s \in Seq(Trade), NEW t \in Trade
    PROVE  Listed(Append(s, t)) = Append(Listed(s), AbstractTrade(t))
<1> DEFINE X == {AbstractTrade(r) : r \in Trade}
<1>1. AbstractTrade(t) \in X /\ \A k \in 1..Len(s) : AbstractTrade(s[k]) \in X
  <2>1. \A k \in 1..Len(s) : s[k] \in Trade
    OBVIOUS
  <2> QED BY <2>1
<1> HIDE DEF X
<1>2. Len(s) \in Nat
  OBVIOUS
<1>3. Listed(s) \in Seq(X) /\ Len(Listed(s)) = Len(s)
  BY <1>1, <1>2 DEF Listed
<1>4. /\ Append(s, t) \in Seq(Trade) /\ Len(Append(s, t)) = Len(s) + 1
      /\ \A k \in 1..Len(s) : Append(s, t)[k] = s[k]
      /\ Append(s, t)[Len(s) + 1] = t
  OBVIOUS
<1>5. /\ Append(Listed(s), AbstractTrade(t)) \in Seq(X)
      /\ Len(Append(Listed(s), AbstractTrade(t))) = Len(s) + 1
      /\ \A k \in 1..Len(s) : Append(Listed(s), AbstractTrade(t))[k] = Listed(s)[k]
      /\ Append(Listed(s), AbstractTrade(t))[Len(s) + 1] = AbstractTrade(t)
  BY <1>1, <1>3
<1>6. ASSUME NEW k \in 1..(Len(s) + 1)
      PROVE  AbstractTrade(Append(s, t)[k]) = Append(Listed(s), AbstractTrade(t))[k]
  <2>1. CASE k \in 1..Len(s)
    BY <1>4, <1>5, <2>1 DEF Listed
  <2>2. CASE k = Len(s) + 1
    BY <1>4, <1>5, <2>2
  <2>3. k \in 1..Len(s) \/ k = Len(s) + 1
    BY <1>2
  <2> QED BY <2>1, <2>2, <2>3, Zenon
<1>7. /\ DOMAIN Append(Listed(s), AbstractTrade(t)) = 1..(Len(s) + 1)
      /\ Append(Listed(s), AbstractTrade(t)) = [k \in 1..(Len(s) + 1) |-> Append(Listed(s), AbstractTrade(t))[k]]
  BY <1>5, SequenceIs, Zenon
<1> QED BY <1>4, <1>6, <1>7 DEF Listed

LEMMA SameOrders ==
    ASSUME levels' = levels
    PROVE  AbstractResting' = AbstractResting
BY DEF AbstractResting, Nodes, At

LEMMA SameTrades ==
    ASSUME tape' = tape
    PROVE  AbstractTrades' = AbstractTrades
BY DEF AbstractTrades

\* Where an abstract order is in the book.
LEMMA RestingIs ==
    ASSUME BookType, NodeInv, NEW m \in AbstractResting
    PROVE  \E s \in Side : \E q \in DOMAIN levels[s] : \E j \in 1..Len(Orders(s, q)) :
              /\ m = AbstractOrder(Orders(s, q)[j]) /\ m.side = s /\ m.price = q
              /\ Settled(Orders(s, q)[j], s, q)
<1>1. PICK o \in AllOrders : m = AbstractOrder(o)
  BY RankedHolds DEF RankedFact, Ranked
<1>2. PICK s \in Side : \E q \in DOMAIN levels[s] : \E j \in 1..Len(Orders(s, q)) : o = Orders(s, q)[j]
  BY OrdersHold DEF OrdersFact
<1>3. PICK q \in DOMAIN levels[s] : \E j \in 1..Len(Orders(s, q)) : o = Orders(s, q)[j]
  BY <1>2
<1>4. PICK j \in 1..Len(Orders(s, q)) : o = Orders(s, q)[j]
  BY <1>3
<1>5. Settled(o, s, q)
  BY <1>4 DEF NodeInv
<1>6. m.side = s /\ m.price = q
  BY <1>1, <1>5 DEF AbstractOrder, Settled
<1> QED BY <1>1, <1>4, <1>5, <1>6

\* The order being matched, as the abstract taker.
Taker ==
    [id |-> call.order.id, side |-> call.order.side,
     price |-> call.order.limit_price, open |-> call.remaining_quantity]

LEMMA TakerIs ==
    ASSUME call.active
    PROVE  AbstractTaker = {Taker}
BY DEF AbstractTaker, Taker

\* The abstract taker can trade with what crosses on the other side.
LEMMA TradableIs ==
    ASSUME IInv, call.active, NEW s \in Side, NEW m, m.side = s
    PROVE  Abstract!Tradable(Taker, m) <=>
              /\ s = Opposite(call.order.side)
              /\ Crosses(call.order.side, m.price, call.order.limit_price)
<1>1. call.order.side \in Side
  BY CallIs
<1>2. Taker.side = call.order.side /\ Taker.price = call.order.limit_price
  BY DEF Taker
<1>3. Abstract!Opposed(Taker.side, m.side) <=> s = Opposite(call.order.side)
  BY <1>1, <1>2 DEF Abstract!Opposed, Opposite, Side
<1> QED BY <1>1, <1>2, <1>3 DEF Abstract!Tradable, Crosses

\* When the loop in match is over, the taker has nobody to trade with.
LEMMA NoneTradable ==
    ASSUME IInv, call.active, ~Matching, call.remaining_quantity > 0
    PROVE  \A m \in AbstractResting : ~Abstract!Tradable(Taker, m)
<1> SUFFICES ASSUME NEW m \in AbstractResting, Abstract!Tradable(Taker, m) PROVE FALSE
  OBVIOUS
<1>1. PICK s \in Side : \E q \in DOMAIN levels[s] : m.side = s /\ m.price = q
  BY RestingIs DEF IInv
<1>2. m.price \in DOMAIN levels[s] /\ m.side = s
  BY <1>1
<1>3. s = Opposite(call.order.side) /\ Crosses(call.order.side, m.price, call.order.limit_price)
  BY <1>2, TradableIs
<1> QED BY <1>2, <1>3 DEF Matching

\* A submit that passes its checks.
LEMMA ArriveStep ==
    ASSUME IInv, NEW order \in NewLimitOrder, Submit(order)
    PROVE  order.id \in OrderIds /\ Abstract!Arrive(order.id)
<1>1. /\ ~call.active /\ seen_order_ids' = seen_order_ids \cup {order.id}
      /\ call'.active /\ call'.order = order /\ call'.remaining_quantity = order.quantity
      /\ levels' = levels /\ tape' = tape
  BY DEF Submit, Idle
<1>2. /\ order.id \in OrderIds \ seen_order_ids /\ order.side \in Side
      /\ order.limit_price \in Prices /\ order.quantity \in Quantities
  BY Accepted DEF IInv, Submit
<1>3. AbstractTaker = {}
  BY <1>1 DEF AbstractTaker
<1>4. AbstractTaker' = {[id |-> order.id, side |-> order.side, price |-> order.limit_price,
                         open |-> order.quantity]}
  BY <1>1 DEF AbstractTaker
<1>5. AbstractResting' = AbstractResting /\ AbstractTrades' = AbstractTrades
  BY <1>1, SameOrders, SameTrades
<1> QED BY <1>1, <1>2, <1>3, <1>4, <1>5 DEF Abstract!Arrive, Side

\* A cancel of an active order.
LEMMA WithdrawStep ==
    ASSUME IInv, NEW id, CancelActive(id)
    PROVE  \E m \in AbstractResting : Abstract!Withdraw(m)
<1>1. /\ ~call.active /\ seen_order_ids' = seen_order_ids /\ call' = call /\ tape' = tape
  BY CancelEffect
<1>2. PICK side \in Side : \E p \in DOMAIN levels[side] : \E i \in 1..Len(Orders(side, p)) :
         RemovesNode(side, p, i)
  BY CancelEffect
<1>3. PICK p \in DOMAIN levels[side] : \E i \in 1..Len(Orders(side, p)) : RemovesNode(side, p, i)
  BY <1>2
<1>4. PICK i \in 1..Len(Orders(side, p)) : RemovesNode(side, p, i)
  BY <1>3
<1> DEFINE o == Orders(side, p)[i]
<1>5. o \in AllOrders /\ AllOrders' = AllOrders \ {o} /\ \A r \in AllOrders : r.id = o.id => r = o
  BY <1>4, RemoveOrders, OneOrder DEF IInv
<1> HIDE DEF o
<1>6. AbstractResting = Ranked(AllOrders) /\ AbstractResting' = Ranked(AllOrders')
  <2>1. RankedFact'
    BY RankedHolds, PTL
  <2> QED BY <2>1, RankedHolds DEF RankedFact
<1>7. AbstractResting' = AbstractResting \ {AbstractOrder(o)} /\ AbstractOrder(o) \in AbstractResting
  <2>1. Ranked(AllOrders \ {o}) = Ranked(AllOrders) \ {AbstractOrder(o)}
    BY <1>5, RankedRemove
  <2>2. AbstractOrder(o) \in Ranked(AllOrders)
    BY <1>5 DEF Ranked
  <2> QED BY <1>5, <1>6, <2>1, <2>2, Zenon
<1>8. AbstractTaker = {} /\ AbstractTaker' = {}
  BY <1>1 DEF AbstractTaker
<1>9. AbstractTrades' = AbstractTrades
  BY <1>1, SameTrades
<1>10. Abstract!Withdraw(AbstractOrder(o))
  BY <1>1, <1>7, <1>8, <1>9 DEF Abstract!Withdraw
<1> QED BY <1>7, <1>10

\* The end of a submit that is filled, or whose remainder an exception takes.
LEMMA LeaveStep ==
    ASSUME IInv, call.active, ~Matching, call' = NoCall, levels' = levels, tape' = tape,
           seen_order_ids' = seen_order_ids
    PROVE  Taker \in AbstractTaker /\ Abstract!Leave(Taker)
<1>1. call.remaining_quantity \in Nat
  BY CallIs
<1>2. Taker.open = call.remaining_quantity /\ Taker \in AbstractTaker
  BY TakerIs DEF Taker
<1>3. Taker.open = 0 \/ \A m \in AbstractResting : ~Abstract!Tradable(Taker, m)
  <2>1. CASE call.remaining_quantity > 0
    BY <2>1, NoneTradable
  <2>2. CASE ~ (call.remaining_quantity > 0)
    BY <1>1, <1>2, <2>2
  <2> QED BY <2>1, <2>2
<1>4. AbstractTaker' = {}
  BY DEF AbstractTaker, NoCall
<1>5. AbstractResting' = AbstractResting /\ AbstractTrades' = AbstractTrades
  BY SameOrders, SameTrades
<1> QED BY <1>2, <1>3, <1>4, <1>5 DEF Abstract!Leave

\* A remainder that comes to rest joins the abstract book with the last rank.
LEMMA QueueStep ==
    ASSUME IInv, Rest, call.remaining_quantity > 0
    PROVE  /\ Taker \in AbstractTaker
           /\ \E rank \in 1..MaxValue : Abstract!Queue(Taker, rank)
<1> DEFINE node == RestsNode
           rank == next_arrival_sequence
<1>1. /\ call.active /\ ~Matching /\ call' = NoCall /\ seen_order_ids' = seen_order_ids /\ tape' = tape
  BY DEF Rest
<1>2. MayRest(node) /\ AddsNode(node)
  BY RestEffect
<1>3. /\ BookType /\ QueueInv /\ NodeInv /\ IndexInv /\ Uncrossed /\ next_arrival_sequence \in Word
  BY DEF IInv, OtherType
<1>4. rank \in 1..MaxValue
  <2>1. MaxValue \in Nat /\ next_arrival_sequence # 0
    BY <1>2, ConstantsAssumption DEF MayRest
  <2> QED BY <1>3, <2>1 DEF Word
<1>5. AllOrders' = AllOrders \cup {node}
  <2> HIDE DEF node
  <2> QED BY <1>2, <1>3, AddOrders
<1>6. AbstractOrder(node) = [id |-> Taker.id, side |-> Taker.side, price |-> Taker.price,
                             open |-> Taker.open, rank |-> rank]
  BY DEF AbstractOrder, RestsNode, RestingNode, Taker
<1> HIDE DEF node
<1>7. AbstractResting' = AbstractResting \cup {AbstractOrder(node)}
  <2>1. RankedFact'
    BY RankedHolds, PTL
  <2> QED BY <1>5, <2>1, RankedHolds, RankedAdd, Zenon DEF RankedFact
<1>8. ASSUME NEW m \in AbstractResting PROVE ~Abstract!Tradable(Taker, m) /\ m.rank < rank
  <2>1. ~Abstract!Tradable(Taker, m)
    BY <1>1, NoneTradable
  <2>2. \E s \in Side : \E q \in DOMAIN levels[s] : \E j \in 1..Len(Orders(s, q)) :
           m = AbstractOrder(Orders(s, q)[j]) /\ Settled(Orders(s, q)[j], s, q)
    BY <1>3, RestingIs
  <2>3. m.rank < rank
    BY <1>4, <2>2 DEF Settled, AbstractOrder
  <2> QED BY <2>1, <2>3
<1>9. AbstractTaker = {Taker} /\ AbstractTaker' = {} /\ Taker.open > 0
  BY <1>1, TakerIs DEF AbstractTaker, NoCall, Taker
<1>10. AbstractTrades' = AbstractTrades
  BY <1>1, SameTrades
<1> HIDE DEF rank
<1>11. Abstract!Queue(Taker, rank)
  BY <1>1, <1>6, <1>7, <1>8, <1>9, <1>10 DEF Abstract!Queue
<1> QED BY <1>4, <1>9, <1>11

\* The first order of the best level beats every other one the taker can trade
\* with.
LEMMA FirstBeats ==
    ASSUME IInv, call.active, NEW p \in DOMAIN levels[Opposite(call.order.side)],
           IsBegin(Opposite(call.order.side), p), NEW m \in AbstractResting,
           Abstract!Tradable(Taker, m),
           m # AbstractOrder(Orders(Opposite(call.order.side), p)[1])
    PROVE  Abstract!Beats(AbstractOrder(Orders(Opposite(call.order.side), p)[1]), m)
<1> DEFINE opp == Opposite(call.order.side)
           first == Orders(opp, p)[1]
<1>1. BookType /\ QueueInv /\ NodeInv
  BY DEF IInv
<1>2. opp \in Side
  BY CallIs, OppositeSide
<1>3. PICK s \in Side : \E q \in DOMAIN levels[s] : \E j \in 1..Len(Orders(s, q)) :
         /\ m = AbstractOrder(Orders(s, q)[j]) /\ m.side = s /\ m.price = q
  BY <1>1, RestingIs
<1>4. PICK q \in DOMAIN levels[s] : \E j \in 1..Len(Orders(s, q)) :
         /\ m = AbstractOrder(Orders(s, q)[j]) /\ m.side = s /\ m.price = q
  BY <1>3
<1>5. PICK j \in 1..Len(Orders(s, q)) :
         /\ m = AbstractOrder(Orders(s, q)[j]) /\ m.side = s /\ m.price = q
  BY <1>4
<1>6. s = opp
  BY <1>5, TradableIs
<1>7. 1 \in 1..Len(Orders(opp, p)) /\ Settled(first, opp, p)
  <2>1. Orders(opp, p) \in Seq(RestingOrder) /\ Orders(opp, p) # <<>>
    BY <1>1, <1>2, LevelType DEF QueueInv
  <2>2. 1 \in 1..Len(Orders(opp, p))
    BY <2>1, TailErases
  <2> QED BY <1>1, <1>2, <2>2 DEF NodeInv
<1>8. /\ AbstractOrder(first).side = opp /\ AbstractOrder(first).price = p
      /\ AbstractOrder(first).rank = first.arrival_sequence
  BY <1>7, Zenon DEF AbstractOrder, Settled
<1>9. CASE q = p
  <2>1. j # 1 /\ Len(Orders(opp, p)) \in Nat
    BY <1>1, <1>2, <1>5, <1>6, <1>9, LevelType, Zenon
  <2>2. j \in 1..Len(Orders(opp, p)) /\ 1 < j
    BY <1>6, <1>9, <2>1
  <2>3. first.arrival_sequence < Orders(opp, p)[j].arrival_sequence
    BY <1>1, <1>2, <1>7, <2>2, Zenon DEF QueueInv
  <2>4. m.rank = Orders(opp, p)[j].arrival_sequence
    BY <1>5, <1>6, <1>9, Zenon DEF AbstractOrder
  <2> QED BY <1>5, <1>8, <1>9, <2>3, <2>4 DEF Abstract!Beats
<1>10. CASE q # p
  <2>1. Precedes(opp, p, q)
    BY <1>6, <1>10 DEF IsBegin
  <2> QED BY <1>5, <1>8, <2>1, Zenon DEF Abstract!Beats, Precedes
<1> QED BY <1>9, <1>10

\* An iteration of match is a trade with the order that beats all others.
LEMMA TradeStep ==
    ASSUME IInv, MatchStep
    PROVE  /\ Taker \in AbstractTaker
           /\ \E m \in AbstractResting : Abstract!Trade(Taker, m)
<1> DEFINE opp == Opposite(call.order.side)
<1>1. call.active /\ call.remaining_quantity # 0
  BY MatchEffect
<1>2. PICK p \in DOMAIN levels[opp] : \E e \in 1..MaxValue : Trades(opp, p, e)
  BY MatchEffect
<1>3. PICK e \in 1..MaxValue : Trades(opp, p, e)
  BY <1>2
<1> DEFINE first == Orders(opp, p)[1]
           m == AbstractOrder(first)
           less == [first EXCEPT !.remaining_quantity = @ - e]
<1>4. /\ BookType /\ QueueInv /\ NodeInv /\ IndexInv /\ Uncrossed /\ opp \in Side
      /\ call.remaining_quantity \in Nat /\ e \in Nat /\ tape \in Seq(Trade)
      /\ call.order.id \in OrderIds
  <2>1. BookType /\ QueueInv /\ NodeInv /\ IndexInv /\ Uncrossed /\ tape \in Seq(Trade)
    BY DEF IInv, OtherType
  <2>2. call.remaining_quantity \in Nat /\ call.order.id \in OrderIds /\ opp \in Side
    BY <1>1, CallIs, OppositeSide
  <2>3. e \in Nat
    BY ConstantsAssumption
  <2> QED BY <2>1, <2>2, <2>3
<1>5. 1 \in 1..Len(Orders(opp, p)) /\ first \in RestingOrder /\ Settled(first, opp, p)
  <2>1. Orders(opp, p) \in Seq(RestingOrder) /\ Orders(opp, p) # <<>>
    BY <1>4, LevelType DEF QueueInv
  <2>2. 1 \in 1..Len(Orders(opp, p))
    BY <2>1, TailErases
  <2> QED BY <1>4, <2>2, LevelType DEF NodeInv
<1>6. /\ IsBegin(opp, p) /\ Crosses(call.order.side, p, call.order.limit_price)
      /\ e <= call.remaining_quantity /\ tape' = Append(tape, TradeOf(first, e))
      /\ call' = [call EXCEPT !.remaining_quantity = @ - e, !.trade_count = @ + 1]
      /\ seen_order_ids' = seen_order_ids /\ next_trade_id \in 1..MaxValue
      /\ \/ e = first.remaining_quantity /\ RemovesNode(opp, p, 1)
         \/ e = call.remaining_quantity /\ e < first.remaining_quantity /\ ReducesHead(opp, p, e)
  BY <1>3 DEF Trades
<1>7. /\ m.id = first.id /\ m.side = opp /\ m.price = p /\ m.open = first.remaining_quantity
      /\ m.price = first.limit_price
  BY <1>5, Zenon DEF AbstractOrder, Settled
<1>8. first.remaining_quantity \in Nat
  BY <1>5, ConstantsAssumption DEF RestingOrder, Word
<1>9. Abstract!Lesser(Taker.open, m.open) = e /\ Taker.open > 0 /\ Taker.id = call.order.id
  <2>1. Taker.open = call.remaining_quantity /\ Taker.id = call.order.id
    BY DEF Taker
  <2>2. call.remaining_quantity > 0
    BY <1>1, <1>4
  <2> HIDE DEF m, first
  <2> QED BY <1>4, <1>6, <1>7, <1>8, <2>1, <2>2 DEF Abstract!Lesser
<1>10. first \in AllOrders /\ \A r \in AllOrders : r.id = first.id => r = first
  BY <1>4, <1>5, OrdersHold, OneOrder DEF OrdersFact
<1>11. AbstractResting = Ranked(AllOrders) /\ AbstractResting' = Ranked(AllOrders')
  <2>1. RankedFact'
    BY RankedHolds, PTL
  <2> QED BY <2>1, RankedHolds DEF RankedFact
<1>12. m \in AbstractResting
  BY <1>10, <1>11 DEF Ranked
<1>13. Ranked(AllOrders \ {first}) = Ranked(AllOrders) \ {m}
  <2> HIDE DEF first
  <2> QED BY <1>10, RankedRemove
<1>14. AbstractResting' = (AbstractResting \ {m}) \cup
          (IF m.open = e THEN {} ELSE {[m EXCEPT !.open = @ - e]})
  <2>1. CASE e = first.remaining_quantity /\ RemovesNode(opp, p, 1)
    <3>1. AllOrders' = AllOrders \ {first}
      BY <1>4, <1>5, <2>1, RemoveOrders
    <3> HIDE DEF m, first
    <3> QED BY <1>7, <1>11, <1>13, <2>1, <3>1
  <2>2. CASE e < first.remaining_quantity /\ ReducesHead(opp, p, e)
    <3>1. AllOrders' = (AllOrders \ {first}) \cup {less}
      BY <1>4, <2>2, ReduceOrders
    <3>2. AbstractOrder(less) = [m EXCEPT !.open = @ - e]
      BY <1>5 DEF AbstractOrder, RestingOrder
    <3> HIDE DEF m, first, less
    <3>3. m.open # e
      BY <1>4, <1>7, <1>8, <2>2
    <3>4. Ranked((AllOrders \ {first}) \cup {less}) = (Ranked(AllOrders) \ {m}) \cup {AbstractOrder(less)}
      BY <1>13, RankedAdd
    <3> QED BY <1>11, <3>1, <3>2, <3>3, <3>4, Zenon
  <2> QED BY <1>6, <2>1, <2>2
<1>15. AbstractTaker = {Taker} /\ AbstractTaker' = {[Taker EXCEPT !.open = @ - e]}
  <2>1. /\ call'.active /\ call'.order = call.order
        /\ call'.remaining_quantity = call.remaining_quantity - e
    BY <1>1, <1>6, CallIs
  <2>2. AbstractTaker' = {[id |-> call.order.id, side |-> call.order.side,
                           price |-> call.order.limit_price, open |-> call.remaining_quantity - e]}
    BY <2>1 DEF AbstractTaker
  <2> QED BY <1>1, <2>2, TakerIs DEF Taker
<1>16. AbstractTrades' = Append(AbstractTrades, [maker |-> m.id, taker |-> Taker.id,
                                                 price |-> m.price, amount |-> e])
  <2> DEFINE t == TradeOf(first, e)
  <2>1. t \in Trade
    BY <1>4, <1>5, <1>6, ConstantsAssumption DEF TradeOf, Trade, RestingOrder, Word
  <2>2. AbstractTrade(t) = [maker |-> m.id, taker |-> Taker.id, price |-> m.price, amount |-> e]
    BY <1>7, <1>9, Zenon DEF AbstractTrade, TradeOf
  <2> HIDE DEF t, m, first
  <2>3. Listed(Append(tape, t)) = Append(Listed(tape), AbstractTrade(t))
    BY <1>4, <2>1, ListedAppend
  <2>4. ListedFact'
    BY ListedHolds, PTL
  <2> QED BY <1>6, <2>2, <2>3, <2>4, ListedHolds DEF ListedFact, t
<1>17. Abstract!Tradable(Taker, m)
  <2> HIDE DEF m
  <2> QED BY <1>1, <1>4, <1>6, <1>7, TradableIs, Zenon
<1>18. \A n \in AbstractResting : Abstract!Tradable(Taker, n) /\ n # m => Abstract!Beats(m, n)
  BY <1>1, <1>6, FirstBeats
<1> HIDE DEF m
<1>19. Abstract!Trade(Taker, m)
  BY <1>6, <1>9, <1>14, <1>15, <1>16, <1>17, <1>18 DEF Abstract!Trade
<1> QED BY <1>12, <1>15, <1>19

LEMMA InitRefines ==
    ASSUME Init
    PROVE  Abstract!BookInit
<1>1. \A s \in Side : DOMAIN levels[s] = {}
  BY DEF Init
<1>2. AbstractResting = {}
  BY <1>1, NodeIs DEF AbstractResting
<1>3. AbstractTaker = {}
  BY DEF Init, NoCall, AbstractTaker
<1>4. AbstractTrades = <<>>
  BY DEF Init, AbstractTrades
<1> QED BY <1>2, <1>3, <1>4 DEF Init, Abstract!BookInit

LEMMA StepRefines ==
    ASSUME IInv, [Next]_vars
    PROVE  Abstract!BookNext \/ UNCHANGED Abstract!abstract_vars
<1> DEFINE Goal == Abstract!BookNext \/ UNCHANGED Abstract!abstract_vars
<1> SUFFICES Goal
  OBVIOUS
<1>1. ASSUME levels' = levels, tape' = tape, seen_order_ids' = seen_order_ids, call' = call
      PROVE  Goal
  <2>1. AbstractResting' = AbstractResting /\ AbstractTrades' = AbstractTrades
    BY <1>1, SameOrders, SameTrades
  <2>2. AbstractTaker' = AbstractTaker
    BY <1>1 DEF AbstractTaker
  <2> QED BY <1>1, <2>1, <2>2 DEF Abstract!abstract_vars
<1>2. ASSUME NEW order \in NewLimitOrder, Reject(order) PROVE Goal
  BY <1>1, <1>2 DEF Reject
<1>3. ASSUME NEW order \in NewLimitOrder, Submit(order) PROVE Goal
  BY <1>3, ArriveStep DEF Abstract!BookNext
<1>4. CASE MatchStep
  BY <1>4, TradeStep DEF Abstract!BookNext
<1>5. CASE Rest
  <2>1. call.active /\ ~Matching /\ call' = NoCall /\ seen_order_ids' = seen_order_ids /\ tape' = tape
    BY <1>5 DEF Rest
  <2>2. CASE call.remaining_quantity > 0
    BY <1>5, <2>2, QueueStep DEF Abstract!BookNext
  <2>3. CASE ~ (call.remaining_quantity > 0)
    <3>1. levels' = levels
      BY <1>5, <2>3 DEF Rest
    <3> QED BY <2>1, <3>1, LeaveStep DEF Abstract!BookNext
  <2> QED BY <2>2, <2>3
<1>6. CASE InsertThrows
  <2>1. /\ call.active /\ ~Matching /\ call' = NoCall /\ seen_order_ids' = seen_order_ids
        /\ tape' = tape /\ levels' = levels
    BY <1>6 DEF InsertThrows
  <2> QED BY <2>1, LeaveStep DEF Abstract!BookNext
<1>7. ASSUME NEW id \in OrderIds \cup {ZeroId}, CancelActive(id) PROVE Goal
  BY <1>7, WithdrawStep DEF Abstract!BookNext
<1>8. ASSUME NEW id \in OrderIds \cup {ZeroId}, CancelNotFound(id) PROVE Goal
  BY <1>1, <1>8 DEF CancelNotFound
<1>9. CASE UNCHANGED vars
  BY <1>1, <1>9 DEF vars
<1> QED BY <1>2, <1>3, <1>4, <1>5, <1>6, <1>7, <1>8, <1>9 DEF Next

\* OrderBook implements PriceTimeBook: submit, match and cancel keep strict
\* price-time priority, execute at the maker's price, and let no order rest that
\* could trade, for any number of orders and levels.
THEOREM BookImplementsPriceTime == Spec => ImplementsPriceTime
<1>1. Init => Abstract!BookInit
  BY InitRefines
<1>2. IInv /\ [Next]_vars => [Abstract!BookNext]_Abstract!abstract_vars
  BY StepRefines
<1> QED BY <1>1, <1>2, Invariance, PTL DEF Spec, ImplementsPriceTime, Abstract!BookSpec

=============================================================================

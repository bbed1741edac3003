------------------------- MODULE OrderBookStepProofs -------------------------
(***************************************************************************)
(* Every step of submit and cancel of src/src/order_book.cpp keeps the     *)
(* inductive invariant of OrderBookLemmas: how a trade keeps to the plan,  *)
(* the iterations of match and the other steps.                            *)
(***************************************************************************)
EXTENDS OrderBookLemmas

\* What a leaf may take, in seconds, unless it names a prover; on a busy machine
\* the first attempt may find no time to start.
USE SMTT(30), ZenonT(30), SMTT(40), SMTT(50)

-----------------------------------------------------------------------------
(* A trade keeps to the plan.                                                  *)

\* The plan for q before the step is one trade more than the plan for r after it.
Continues(side, limit, q, r) ==
    /\ preview_match(side, limit, q).remaining_quantity
         = preview_match(side, limit, r)'.remaining_quantity
    /\ preview_match(side, limit, q).trade_count
         = 1 + preview_match(side, limit, r)'.trade_count

\* A trade that fills the first maker takes it from the plan and leaves the rest.
LEMMA PlanFilled ==
    ASSUME BookType, QueueInv, NodeInv, BookType', QueueInv', NodeInv',
           NEW side \in Side, NEW limit \in Prices, NEW p \in DOMAIN levels[Opposite(side)],
           IsBegin(Opposite(side), p), Crosses(side, p, limit), RemovesNode(Opposite(side), p, 1),
           NEW q \in Nat, NEW e \in Nat, e = Orders(Opposite(side), p)[1].remaining_quantity,
           0 < q, e <= q, NEW r \in Nat, r = q - e
    PROVE  Continues(side, limit, q, r)
<1> DEFINE M == CrossingMakers(side, limit)
           w == Offers(side, M)
           B == Before(side, M)
           N == CrossingMakers(side, limit)'
           v == Offers(side, CrossingMakers(side, limit))'
           C == Before(side, CrossingMakers(side, limit))'
           h == <<p, 1>>
           opp == Opposite(side)
<1>1. PreviewIs(side, limit, q, M, w, B)
  BY PreviewHolds DEF PreviewFact
<1>2. PreviewIs(side, limit, r, CrossingMakers(side, limit),
                Offers(side, CrossingMakers(side, limit)),
                Before(side, CrossingMakers(side, limit)))'
  <2>1. PreviewFact'
    BY PreviewHolds, PTL
  <2> QED BY <2>1 DEF PreviewFact
<1>3. /\ preview_match(side, limit, r)'.remaining_quantity = r - Smaller(r, Size(N, v))
      /\ preview_match(side, limit, r)'.trade_count = Count(N, v, C, r)
      /\ \A n \in N : /\ v[n] = levels'[opp][n[1]].orders[n[2]].remaining_quantity
                      /\ C[n] = MakersBefore(side, N, n)
      /\ \A n \in N : /\ n = <<n[1], n[2]>> /\ n[1] \in DOMAIN levels'[opp]
                      /\ Crosses(side, n[1], limit)
                      /\ n[2] \in 1..Len(levels'[opp][n[1]].orders)
      /\ \A l \in DOMAIN levels'[opp] : \A i \in 1..Len(levels'[opp][l].orders) :
            Crosses(side, l, limit) => <<l, i>> \in N
  BY <1>2, Zenon DEF PreviewIs, Orders, MakersBefore
<1>4. /\ preview_match(side, limit, q).remaining_quantity = q - Smaller(q, Size(M, w))
      /\ preview_match(side, limit, q).trade_count = Count(M, w, B, q)
      /\ MaxValue \in Nat /\ IsFiniteSet(M) /\ Size(M, w) \in Nat
      /\ \A m \in M : /\ w[m] \in 0..MaxValue /\ B[m] \subseteq M
                      /\ w[m] = Orders(opp, m[1])[m[2]].remaining_quantity
                      /\ B[m] = MakersBefore(side, M, m)
      /\ \A m \in M : /\ m = <<m[1], m[2]>> /\ m[1] \in DOMAIN levels[opp]
                      /\ Crosses(side, m[1], limit) /\ m[2] \in 1..Len(Orders(opp, m[1]))
      /\ \A l \in DOMAIN levels[opp] : \A i \in 1..Len(Orders(opp, l)) :
            Crosses(side, l, limit) => <<l, i>> \in M
  BY <1>1 DEF PreviewIs
<1>5. /\ h \in M /\ MakersBefore(side, M, h) = {}
      /\ \A m \in M \ {h} : h \in MakersBefore(side, M, m)
      /\ w[h] = e
  BY FirstMaker, Zenon
<1> DEFINE R == M \ {h}
           D == [m \in R |-> B[m] \ {h}]
           f == [m \in R |-> IF m[1] = p THEN <<p, m[2] - 1>> ELSE m]
<1>6. opp \in Side /\ p \in DOMAIN levels[opp] /\ 1 \in 1..Len(Orders(opp, p)) /\ RemovesNode(opp, p, 1)
      /\ h[1] = p /\ h[2] = 1 /\ opp = Opposite(side)
  BY <1>4, <1>5, OppositeSide
<1>7. /\ \A l \in DOMAIN levels'[opp] : l \in DOMAIN levels[opp]
      /\ \A l \in DOMAIN levels[opp] : l # p =>
            l \in DOMAIN levels'[opp] /\ levels'[opp][l] = levels[opp][l]
      /\ p \in DOMAIN levels'[opp] <=> Len(Orders(opp, p)) > 1
      /\ p \in DOMAIN levels'[opp] => levels'[opp][p].orders = Erase(Orders(opp, p), 1)
  BY <1>6, RemoveEffect
<1>8. /\ Len(Orders(opp, p)) \in Nat /\ Len(Erase(Orders(opp, p), 1)) = Len(Orders(opp, p)) - 1
      /\ \A k \in 1..(Len(Orders(opp, p)) - 1) : Erase(Orders(opp, p), 1)[k] = Orders(opp, p)[k + 1]
  <2>1. Orders(opp, p) \in Seq(RestingOrder) /\ Len(Orders(opp, p)) \in Nat
    BY <1>6, LevelType
  <2>2. /\ Len(Erase(Orders(opp, p), 1)) = Len(Orders(opp, p)) - 1
        /\ \A k \in 1..(Len(Orders(opp, p)) - 1) :
              k >= 1 => Erase(Orders(opp, p), 1)[k] = Orders(opp, p)[k + 1]
    BY <1>6, <2>1, ErasedNode
  <2> QED BY <2>1, <2>2
<1>9. \A l \in DOMAIN levels[opp] : Len(Orders(opp, l)) \in Nat
  BY <1>6, LevelType
<1> HIDE DEF M, w, B, N, v, C, h, opp
<1>10. ASSUME NEW m \in R
       PROVE  /\ m \in M /\ m = <<m[1], m[2]>> /\ m[2] \in Nat /\ f[m] \in N /\ v[f[m]] = w[m]
              /\ f[m][1] = m[1] /\ f[m][2] = IF m[1] = p THEN m[2] - 1 ELSE m[2]
              /\ f[m] = <<f[m][1], f[m][2]>>
  <2>1. /\ m \in M /\ m # h /\ m = <<m[1], m[2]>> /\ m[1] \in DOMAIN levels[opp]
        /\ Crosses(side, m[1], limit) /\ m[2] \in 1..Len(Orders(opp, m[1]))
        /\ w[m] = Orders(opp, m[1])[m[2]].remaining_quantity
    BY <1>4
  <2>2. m[2] \in Nat
    BY <1>9, <2>1
  <2>3. CASE m[1] = p
    <3>1. f[m] = <<p, m[2] - 1>>
      BY <2>3
    <3>2. m[2] # 1
      BY <1>5, <2>1, <2>3 DEF h
    <3>3. m[2] - 1 \in 1..(Len(Orders(opp, p)) - 1) /\ Len(Orders(opp, p)) > 1 /\ (m[2] - 1) + 1 = m[2]
      BY <1>8, <2>1, <2>3, <3>2
    <3>4. p \in DOMAIN levels'[opp] /\ levels'[opp][p].orders = Erase(Orders(opp, p), 1)
      BY <1>7, <3>3
    <3>5. m[2] - 1 \in 1..Len(levels'[opp][p].orders)
      BY <1>8, <3>3, <3>4, Zenon
    <3>6. f[m] \in N
      BY <1>3, <2>1, <2>3, <3>1, <3>4, <3>5
    <3>7. f[m][1] = p /\ f[m][2] = m[2] - 1
      BY <3>1
    <3>8. v[f[m]] = levels'[opp][p].orders[m[2] - 1].remaining_quantity
      BY <1>3, <3>6, <3>7
    <3>9. levels'[opp][p].orders[m[2] - 1] = Orders(opp, p)[m[2]]
      BY <1>8, <3>3, <3>4, Zenon
    <3> QED BY <2>1, <2>2, <2>3, <3>1, <3>6, <3>7, <3>8, <3>9
  <2>4. CASE m[1] # p
    <3>1. f[m] = m
      BY <2>4
    <3>2. m[1] \in DOMAIN levels'[opp] /\ levels'[opp][m[1]] = levels[opp][m[1]]
      BY <1>7, <2>1, <2>4
    <3>3. m \in N
      BY <1>3, <2>1, <3>2, Zenon DEF Orders
    <3>4. v[m] = w[m]
      BY <1>3, <2>1, <3>2, <3>3, Zenon DEF Orders
    <3> QED BY <2>1, <2>2, <2>4, <3>1, <3>3, <3>4
  <2> QED BY <2>3, <2>4, Zenon
<1>11. ASSUME NEW n \in N PROVE \E m \in R : f[m] = n
  <2>1. /\ n = <<n[1], n[2]>> /\ n[1] \in DOMAIN levels'[opp] /\ Crosses(side, n[1], limit)
        /\ n[2] \in 1..Len(levels'[opp][n[1]].orders) /\ n[1] \in DOMAIN levels[opp]
    BY <1>3, <1>7
  <2>2. CASE n[1] = p
    <3> DEFINE m == <<p, n[2] + 1>>
    <3>1. n[2] \in 1..(Len(Orders(opp, p)) - 1)
      BY <1>7, <1>8, <2>1, <2>2
    <3>2. n[2] + 1 \in 1..Len(Orders(opp, p)) /\ n[2] + 1 # 1 /\ (n[2] + 1) - 1 = n[2]
      BY <1>8, <3>1
    <3>3. m \in M /\ m # h
      BY <1>4, <2>1, <2>2, <3>2 DEF h
    <3>4. m \in R /\ f[m] = <<p, (n[2] + 1) - 1>>
      BY <3>3
    <3> QED BY <2>1, <2>2, <3>2, <3>4
  <2>3. CASE n[1] # p
    <3>1. n \in M
      <4>1. levels'[opp][n[1]] = levels[opp][n[1]]
        BY <1>7, <2>1, <2>3
      <4> QED BY <1>4, <2>1, <4>1, ZenonT(30) DEF Orders
    <3>2. n \in R /\ f[n] = n
      BY <1>6, <2>3, <3>1
    <3> QED BY <3>2
  <2> QED BY <2>2, <2>3
<1>12. ASSUME NEW m \in R, NEW k \in R
       PROVE  /\ f[m] = f[k] => m = k
              /\ k \in B[m] <=> f[k] \in C[f[m]]
  <2>1. /\ m = <<m[1], m[2]>> /\ k = <<k[1], k[2]>> /\ m[2] \in Nat /\ k[2] \in Nat
        /\ m \in M /\ k \in M /\ f[m] \in N /\ f[k] \in N
    BY <1>10
  <2>2. /\ f[m][1] = m[1] /\ f[m][2] = IF m[1] = p THEN m[2] - 1 ELSE m[2]
        /\ f[k][1] = k[1] /\ f[k][2] = IF k[1] = p THEN k[2] - 1 ELSE k[2]
    BY <1>10
  <2> HIDE DEF f, R
  <2>3. f[m] = f[k] => m[1] = k[1] /\ m[2] = k[2]
    BY <2>1, <2>2
  <2>4. f[m] = f[k] => m = k
    BY <2>1, <2>3
  <2>5. B[m] = MakersBefore(side, M, m) /\ C[f[m]] = MakersBefore(side, N, f[m])
    BY <1>3, <1>4, <2>1, ZenonT(30)
  <2>6. k \in B[m] <=> Precedes(opp, k[1], m[1]) \/ (k[1] = m[1] /\ k[2] < m[2])
    BY <1>6, <2>1, <2>5 DEF MakersBefore
  <2>7. f[k] \in C[f[m]] <=>
           Precedes(opp, f[k][1], f[m][1]) \/ (f[k][1] = f[m][1] /\ f[k][2] < f[m][2])
    BY <1>6, <2>1, <2>5 DEF MakersBefore
  <2>8. k[1] = m[1] => (f[k][2] < f[m][2] <=> k[2] < m[2])
    BY <2>1, <2>2
  <2>9. k \in B[m] <=> f[k] \in C[f[m]]
    BY <2>2, <2>6, <2>7, <2>8, Zenon
  <2> QED BY <2>4, <2>9
<1>13. \A m \in R : D[m] = B[m] \ {h}
  OBVIOUS
<1>14. /\ \A m \in R : v[f[m]] = w[m] /\ D[m] \subseteq R /\ C[f[m]] \subseteq N
       /\ \A m \in R : w[m] \in 0..MaxValue
       /\ \A m \in R : f[m] \in N
  BY <1>3, <1>4, <1>10 DEF MakersBefore
<1>15. IsFiniteSet(R) /\ f \in [R -> N]
  BY <1>4, <1>14, FS_RemoveElement
<1>16. \A m \in M \ {h} : h \in B[m] /\ D[m] = B[m] \ {h}
  BY <1>4, <1>5, <1>13
<1>17. /\ B[h] = {} /\ w[h] = e /\ 0 < q /\ w[h] <= q /\ h \in M
       /\ IsFiniteSet(M) /\ MaxValue \in Nat
       /\ \A m \in M : w[m] \in 0..MaxValue
       /\ \A m \in M : B[m] \subseteq M
  BY <1>4, <1>5
<1> HIDE DEF f, D
<1>18. f \in Bijection(R, N)
  BY <1>11, <1>12, <1>15 DEF Bijection, Injection, Surjection, IsInjective
<1>19. /\ Count(M, w, B, q) = 1 + Count(M \ {h}, w, D, q - w[h])
       /\ Size(M, w) = Size(M \ {h}, w) + w[h]
  <2>1. q \in Nat
    OBVIOUS
  <2>2. Peeled(M, w, B, h, D, q)
    BY <1>16, <1>17, <2>1, CountRemove, Zenon
  <2> QED BY <2>2 DEF Peeled
<1>20. Count(N, v, C, r) = Count(R, w, D, r)
  <2>1. \A m, k \in R : k \in D[m] <=> f[k] \in C[f[m]]
    BY <1>12, <1>13, ZenonT(30)
  <2> HIDE DEF R
  <2> QED BY <1>14, <1>15, <1>17, <1>18, <2>1, CountRename
<1> HIDE DEF R
<1>21. Size(N, v) = Size(R, w) /\ Size(R, w) \in Nat
  <2>1. \A m \in R : v[f[m]] = w[m]
    BY <1>14
  <2>2. Size(N, v) = Size(R, w)
    BY <1>14, <1>15, <1>17, <1>18, <2>1, SizeRename
  <2>3. Size(R, w) \in Nat
    BY <1>14, <1>15, <1>17, StackFinite, Zenon
  <2> QED BY <2>2, <2>3
<1>22. q - Smaller(q, Size(M, w)) = r - Smaller(r, Size(N, v))
  <2>1. Size(M, w) = Size(N, v) + e /\ Size(N, v) \in Nat
    BY <1>17, <1>19, <1>21, Zenon DEF R
  <2> QED BY <2>1 DEF Smaller
<1>23. Count(M, w, B, q) = 1 + Count(N, v, C, r)
  BY <1>17, <1>19, <1>20, Zenon DEF R
<1> QED BY <1>3, <1>4, <1>22, <1>23 DEF Continues

\* The first maker is part of the plan, and alone when it offers enough.
LEMMA PlanFirst ==
    ASSUME BookType, QueueInv, NodeInv, NEW side \in Side, NEW limit \in Prices,
           NEW p \in DOMAIN levels[Opposite(side)],
           IsBegin(Opposite(side), p), Crosses(side, p, limit), NEW q \in Nat, 0 < q
    PROVE  /\ preview_match(side, limit, q).trade_count \in Nat \ {0}
           /\ q <= Orders(Opposite(side), p)[1].remaining_quantity =>
                 /\ preview_match(side, limit, q).trade_count = 1
                 /\ preview_match(side, limit, q).remaining_quantity = 0
<1> DEFINE M == CrossingMakers(side, limit)
           w == Offers(side, M)
           B == Before(side, M)
           h == <<p, 1>>
           C == [m \in M \ {h} |-> B[m] \ {h}]
<1>1. PreviewIs(side, limit, q, M, w, B)
  BY PreviewHolds DEF PreviewFact
<1>2. /\ h \in M /\ MakersBefore(side, M, h) = {}
      /\ \A m \in M \ {h} : h \in MakersBefore(side, M, m)
      /\ w[h] = Orders(Opposite(side), p)[1].remaining_quantity
  BY FirstMaker, Zenon
<1>3. /\ preview_match(side, limit, q).remaining_quantity = q - Smaller(q, Size(M, w))
      /\ preview_match(side, limit, q).trade_count = Count(M, w, B, q)
      /\ MaxValue \in Nat /\ IsFiniteSet(M) /\ Size(M, w) \in Nat
      /\ \A m \in M : w[m] \in 0..MaxValue
      /\ \A m \in M : B[m] \subseteq M
      /\ \A m \in M : B[m] = MakersBefore(side, M, m)
      /\ w[h] \in Nat \ {0}
  BY <1>1, <1>2, Zenon DEF PreviewIs
<1>4. B[h] = {} /\ \A m \in M \ {h} : h \in B[m]
  BY <1>2, <1>3, Zenon
<1>5. \A m \in M \ {h} : h \in B[m] /\ C[m] = B[m] \ {h}
  BY <1>4
<1>6. IsFiniteSet(M \ {h}) /\ \A m \in M \ {h} : w[m] \in 0..MaxValue
  BY <1>3, FS_RemoveElement, Zenon
<1> HIDE DEF M, w, B, C, h
<1>7. CASE q <= w[h]
  <2>1. Count(M, w, B, q) = 1
    BY <1>2, <1>3, <1>4, <1>7, CountOne
  <2>2. w[h] \in Nat /\ 0 < w[h] /\ w[h] <= w[h]
    BY <1>3
  <2>3. Peeled(M, w, B, h, C, w[h])
    BY <1>2, <1>3, <1>4, <1>5, <2>2, CountRemove, Zenon
  <2>4. Size(M \ {h}, w) \in Nat
    BY <1>3, <1>6, StackFinite, Zenon
  <2>5. q <= Size(M, w)
    BY <1>3, <1>7, <2>2, <2>3, <2>4 DEF Peeled
  <2>6. q - Smaller(q, Size(M, w)) = 0
    BY <2>5 DEF Smaller
  <2> QED BY <1>2, <1>3, <2>1, <2>6
<1>8. CASE ~ (q <= w[h])
  <2>1. w[h] <= q
    BY <1>3, <1>8
  <2>2. Peeled(M, w, B, h, C, q)
    BY <1>2, <1>3, <1>4, <1>5, <2>1, CountRemove, Zenon
  <2>3. Count(M \ {h}, w, C, q - w[h]) \in Nat
    BY <1>6, CountType, Zenon
  <2>4. Count(M, w, B, q) \in Nat \ {0}
    BY <2>2, <2>3 DEF Peeled
  <2> QED BY <1>2, <1>3, <1>8, <2>4, Zenon
<1> QED BY <1>7, <1>8, Zenon

\* Nothing is planned for an order that has no quantity left.
LEMMA PlanDone ==
    ASSUME BookType, QueueInv, NodeInv, NEW side \in Side, NEW limit
    PROVE  /\ preview_match(side, limit, 0).remaining_quantity = 0
           /\ preview_match(side, limit, 0).trade_count = 0
<1> DEFINE M == CrossingMakers(side, limit)
           w == Offers(side, M)
           B == Before(side, M)
<1>1. PreviewIs(side, limit, 0, M, w, B)
  BY PreviewHolds DEF PreviewFact
<1>2. /\ preview_match(side, limit, 0).remaining_quantity = 0 - Smaller(0, Size(M, w))
      /\ preview_match(side, limit, 0).trade_count = Count(M, w, B, 0)
      /\ MaxValue \in Nat /\ IsFiniteSet(M) /\ Size(M, w) \in Nat
      /\ \A m \in M : w[m] \in 0..MaxValue
      /\ \A m \in M : B[m] \subseteq M
  BY <1>1 DEF PreviewIs
<1> HIDE DEF M, w, B
<1>3. Count(M, w, B, 0) = 0
  BY <1>2, CountZero
<1>4. 0 - Smaller(0, Size(M, w)) = 0
  BY <1>2 DEF Smaller
<1> QED BY <1>2, <1>3, <1>4, Zenon

DoneFact ==
    BookType /\ QueueInv /\ NodeInv => \A side \in Side : \A limit :
        /\ preview_match(side, limit, 0).remaining_quantity = 0
        /\ preview_match(side, limit, 0).trade_count = 0
LEMMA DoneHolds == DoneFact
BY PlanDone DEF DoneFact

\* Nor for an order that crosses no level.
LEMMA PlanNone ==
    ASSUME BookType, QueueInv, NodeInv, NEW side \in Side, NEW limit, NEW q \in Nat,
           \A p \in DOMAIN levels[Opposite(side)] : ~Crosses(side, p, limit)
    PROVE  /\ preview_match(side, limit, q).remaining_quantity = q
           /\ preview_match(side, limit, q).trade_count = 0
<1> DEFINE M == CrossingMakers(side, limit)
           w == Offers(side, M)
           B == Before(side, M)
<1>1. PreviewIs(side, limit, q, M, w, B)
  BY PreviewHolds DEF PreviewFact
<1>2. M = {}
  BY Maker
<1>3. /\ preview_match(side, limit, q).remaining_quantity = q - Smaller(q, Size(M, w))
      /\ preview_match(side, limit, q).trade_count = Count(M, w, B, q)
  BY <1>1 DEF PreviewIs
<1> HIDE DEF M, w, B
<1>4. Size(M, w) = 0 /\ Visited(M, w, B, q) = {}
  BY <1>2, SizeEmpty DEF Visited
<1>5. q - Smaller(q, Size(M, w)) = q
  BY <1>4 DEF Smaller
<1>6. Count(M, w, B, q) = 0
  BY <1>4, FS_EmptySet DEF Count
<1> QED BY <1>3, <1>5, <1>6

-----------------------------------------------------------------------------
(* One iteration of match.                                                     *)

\* The call that is in progress carries a valid order.
LEMMA CallIs ==
    ASSUME IInv, call.active
    PROVE  /\ call \in [active: {TRUE}, order: NewLimitOrder, remaining_quantity: Word,
                        trade_count: Nat, plan: [remaining_quantity: Word, trade_count: Nat]]
           /\ call.order.id \in OrderIds /\ call.order.side \in Side
           /\ call.order.limit_price \in Prices /\ call.order.quantity \in Quantities
           /\ call.remaining_quantity \in Word /\ call.remaining_quantity \in Nat
           /\ call.trade_count \in Nat
           /\ call.plan \in [remaining_quantity: Word, trade_count: Nat]
<1>1. call # NoCall
  BY DEF NoCall
<1>2. call \in [active: {TRUE}, order: NewLimitOrder, remaining_quantity: Word,
                trade_count: Nat, plan: [remaining_quantity: Word, trade_count: Nat]]
  BY <1>1, Zenon DEF IInv, CallType
<1>3. /\ call.order.id \in OrderIds /\ call.order.side \in Side
      /\ call.order.limit_price \in Prices /\ call.order.quantity \in Quantities
  BY DEF IInv, SeenInv, OtherType
<1>4. /\ call.remaining_quantity \in Word /\ call.trade_count \in Nat
      /\ call.plan \in [remaining_quantity: Word, trade_count: Nat]
  BY <1>2
<1>5. call.remaining_quantity \in Nat
  BY <1>4, ConstantsAssumption DEF Word
<1> QED BY <1>2, <1>3, <1>4, <1>5, Zenon

\* A trade of e units with the head of level p.
TradeOf(maker, e) ==
    [id |-> next_trade_id, maker_order_id |-> maker.id, taker_order_id |-> call.order.id,
     execution_price |-> maker.limit_price, execution_quantity |-> e]
Trades(side, p, e) ==
    /\ IsBegin(side, p) /\ Crosses(call.order.side, p, call.order.limit_price)
    /\ e <= call.remaining_quantity
    /\ next_trade_id \in 1..MaxValue
    /\ tape' = Append(tape, TradeOf(Orders(side, p)[1], e))
    /\ next_trade_id' = Increment(next_trade_id)
    /\ call' = [call EXCEPT !.remaining_quantity = @ - e, !.trade_count = @ + 1]
    /\ seen_order_ids' = seen_order_ids /\ terminated' = terminated
    /\ next_arrival_sequence' = next_arrival_sequence
    /\ \/ e = Orders(side, p)[1].remaining_quantity /\ RemovesNode(side, p, 1)
       \/ /\ e = call.remaining_quantity /\ e < Orders(side, p)[1].remaining_quantity
          /\ ReducesHead(side, p, e)

\* If some level crosses, the best one does.
LEMMA BestCrosses ==
    ASSUME BookType, NEW side \in Side, NEW limit \in Nat, NEW p \in DOMAIN levels[Opposite(side)],
           IsBegin(Opposite(side), p),
           \E q \in DOMAIN levels[Opposite(side)] : Crosses(side, q, limit)
    PROVE  Crosses(side, p, limit)
<1>1. PICK q \in DOMAIN levels[Opposite(side)] : Crosses(side, q, limit)
  OBVIOUS
<1>2. Opposite(side) \in Side
  BY OppositeSide
<1>3. /\ p \in Nat /\ q \in Nat
      /\ q # p => Precedes(Opposite(side), p, q)
  BY <1>2, BestPrecedes
<1> QED BY <1>1, <1>3 DEF Crosses, Precedes, Opposite, Side

\* The iteration is a trade with the first maker: none of the corruption checks
\* fires.
LEMMA MatchEffect ==
    ASSUME IInv, MatchStep
    PROVE  /\ call.active /\ call.remaining_quantity # 0
           /\ \E p \in DOMAIN levels[Opposite(call.order.side)] : \E e \in 1..MaxValue :
                 Trades(Opposite(call.order.side), p, e)
<1> DEFINE side == call.order.side
           opp == Opposite(call.order.side)
           limit == call.order.limit_price
           q == call.remaining_quantity
<1>1. /\ call.active /\ q > 0
      /\ \E r \in DOMAIN levels[opp] : Crosses(side, r, limit)
      /\ seen_order_ids' = seen_order_ids /\ next_arrival_sequence' = next_arrival_sequence
  BY DEF MatchStep, Matching
<1>2. PICK p \in DOMAIN levels[opp] : IsBegin(opp, p) /\ Execute(opp, p)
  BY DEF MatchStep
<1>3. /\ side \in Side /\ limit \in Prices /\ q \in Word /\ q \in Nat /\ q # 0
      /\ opp \in Side /\ opp = Opposite(side) /\ limit \in Nat /\ MaxValue \in Nat
      /\ call.order.id \in OrderIds
  <2>1. side \in Side /\ limit \in Prices /\ q \in Word /\ q \in Nat /\ call.order.id \in OrderIds
    BY <1>1, CallIs
  <2>2. q # 0
    BY <1>1, <2>1
  <2>3. limit \in Nat /\ MaxValue \in Nat
    <3>1. MaxValue \in Nat /\ Prices \subseteq 1..MaxValue
      BY ConstantsAssumption
    <3> HIDE DEF limit
    <3> QED BY <2>1, <3>1
  <2>4. opp \in Side
    BY <2>1, OppositeSide
  <2> QED BY <2>1, <2>2, <2>3, <2>4
<1>4. BookType /\ QueueInv /\ NodeInv /\ IndexInv /\ OtherType /\ PlanInv
  BY DEF IInv
<1> DEFINE queue == Orders(opp, p)
           maker == queue[1]
           e == Smaller(q, maker.remaining_quantity)
<1>5. /\ queue \in Seq(RestingOrder) /\ queue # <<>> /\ Head(queue) = maker
      /\ Tail(queue) = Erase(queue, 1) /\ 1 \in 1..Len(queue) /\ maker \in RestingOrder
      /\ levels[opp][p].total_quantity = QueueQuantity(queue)
  <2>1. /\ queue \in Seq(RestingOrder) /\ queue # <<>>
        /\ levels[opp][p].total_quantity = QueueQuantity(queue)
    BY <1>3, <1>4, LevelType DEF QueueInv
  <2>2. Head(queue) = maker /\ Tail(queue) = Erase(queue, 1) /\ 1 \in 1..Len(queue)
    BY <2>1, TailErases
  <2> QED BY <2>1, <2>2
<1>6. Settled(maker, opp, p)
  BY <1>3, <1>4, <1>5 DEF NodeInv
<1>7. /\ maker.remaining_quantity \in Nat \ {0} /\ maker.remaining_quantity <= MaxValue
      /\ maker.id \in DOMAIN active_orders
  BY <1>3, <1>5, <1>6 DEF Settled, RestingOrder, Word
<1>8. maker.remaining_quantity <= QueueQuantity(queue) /\ QueueQuantity(queue) \in Nat
  <2> HIDE DEF queue
  <2>1. /\ QueueQuantity(queue) = QueueQuantity(Erase(queue, 1)) + maker.remaining_quantity
        /\ QueueQuantity(Erase(queue, 1)) \in Nat
        /\ maker.remaining_quantity <= QueueQuantity(queue)
    BY <1>5, QueueErase
  <2> QED BY <1>7, <2>1
<1>9. /\ e \in 1..MaxValue /\ e <= q /\ e <= QueueQuantity(queue)
      /\ e = maker.remaining_quantity \/ (e = q /\ e < maker.remaining_quantity)
  <2> HIDE DEF queue, maker, q
  <2> QED BY <1>3, <1>7, <1>8 DEF Smaller
<1>10. Crosses(side, p, limit)
  <2> HIDE DEF side, limit, opp
  <2> QED BY <1>1, <1>2, <1>3, <1>4, BestCrosses
<1>11. next_trade_id \in 1..MaxValue
  <2> DEFINE now == preview_match(side, limit, q)
  <2>1. now.trade_count \in Nat \ {0}
    <3>1. 0 < q
      BY <1>3
    <3> HIDE DEF side, limit, opp, q
    <3> QED BY <1>2, <1>3, <1>4, <1>10, <3>1, PlanFirst
  <2>2. can_issue_trade_ids(now.trade_count)
    BY <1>1, <1>4 DEF PlanInv
  <2> HIDE DEF now
  <2>3. next_trade_id # 0 /\ next_trade_id \in Word
    BY <1>4, <2>1, <2>2 DEF can_issue_trade_ids, OtherType
  <2> QED BY <1>3, <2>3 DEF Word
<1> DEFINE filled == maker.remaining_quantity = e
           left == IF filled THEN Tail(queue)
                   ELSE [queue EXCEPT ![1].remaining_quantity = @ - e]
<1>12. /\ tape' = Append(tape, TradeOf(maker, e))
       /\ next_trade_id' = Increment(next_trade_id)
       /\ call' = [call EXCEPT !.remaining_quantity = @ - e, !.trade_count = @ + 1]
       /\ active_orders' = IF filled THEN Without(active_orders, maker.id) ELSE active_orders
       /\ LevelBecomes(opp, p, left, levels[opp][p].total_quantity - e)
       /\ terminated' = terminated
  <2>1. /\ levels[opp][p].orders = queue /\ Head(queue) = maker
        /\ Smaller(call.remaining_quantity, maker.remaining_quantity) = e
    BY <1>5 DEF Orders
  <2>2. /\ e # 0 /\ ~ (levels[opp][p].total_quantity < e) /\ next_trade_id # 0
        /\ ~ (filled /\ maker.id \notin DOMAIN active_orders)
    <3> HIDE DEF queue, maker, e
    <3> QED BY <1>3, <1>5, <1>7, <1>8, <1>9, <1>11
  <2> HIDE DEF queue, maker, e, opp
  <2> QED BY <1>2, <2>1, <2>2, Zenon DEF Execute, TradeOf, LevelBecomes
<1>13. CASE filled
  <2>1. e = maker.remaining_quantity /\ RemovesNode(opp, p, 1)
    <3>1. left = Erase(queue, 1)
      BY <1>5, <1>13
    <3> HIDE DEF left
    <3> QED BY <1>1, <1>12, <1>13, <3>1 DEF RemovesNode
  <2>2. Trades(opp, p, e)
    <3> HIDE DEF e, opp
    <3> QED BY <1>1, <1>2, <1>9, <1>10, <1>11, <1>12, <2>1 DEF Trades
  <2> QED BY <1>1, <1>3, <1>9, <2>2
<1>14. CASE ~filled
  <2>1. e = q /\ e < maker.remaining_quantity
    <3> HIDE DEF e, maker, q
    <3> QED BY <1>9, <1>14
  <2>2. ReducesHead(opp, p, e)
    <3>1. left = [queue EXCEPT ![1].remaining_quantity = @ - e]
      BY <1>14
    <3> HIDE DEF left
    <3> QED BY <1>1, <1>12, <1>14, <3>1 DEF ReducesHead
  <2>3. Trades(opp, p, e)
    <3> HIDE DEF e, opp
    <3> QED BY <1>1, <1>2, <1>9, <1>10, <1>11, <1>12, <2>1, <2>2 DEF Trades
  <2> QED BY <1>1, <1>3, <1>9, <2>3
<1> QED BY <1>13, <1>14

\* What a trade leaves of the book.
LEMMA TradeBook ==
    ASSUME IInv, call.active, NEW p \in DOMAIN levels[Opposite(call.order.side)],
           NEW e \in 1..MaxValue, Trades(Opposite(call.order.side), p, e)
    PROVE  /\ BookType' /\ QueueInv' /\ NodeInv' /\ IndexInv' /\ Uncrossed'
           /\ DOMAIN active_orders' \subseteq DOMAIN active_orders
           /\ levels'[call.order.side] = levels[call.order.side]
<1> DEFINE opp == Opposite(call.order.side)
<1>1. call.order.side \in Side /\ opp \in Side /\ opp # call.order.side /\ e \in Nat
  BY CallIs, OppositeSide, ConstantsAssumption
<1>2. BookType /\ QueueInv /\ NodeInv /\ IndexInv /\ Uncrossed /\ p \in DOMAIN levels[opp]
  BY DEF IInv
<1>3. 1 \in 1..Len(Orders(opp, p))
  <2>1. Orders(opp, p) \in Seq(RestingOrder) /\ Orders(opp, p) # <<>>
    BY <1>1, <1>2, LevelType DEF QueueInv
  <2> QED BY <2>1, TailErases
<1> HIDE DEF opp
<1>4. CASE RemovesNode(opp, p, 1)
  <2>1. BookType' /\ QueueInv' /\ NodeInv' /\ IndexInv' /\ Uncrossed'
    BY <1>1, <1>2, <1>3, <1>4, RemoveInv
  <2>2. levels'[call.order.side] = levels[call.order.side]
    BY <1>1, <1>2, <1>3, <1>4, RemoveEffect
  <2>3. DOMAIN active_orders' \subseteq DOMAIN active_orders
    BY <1>4 DEF RemovesNode, Without
  <2> QED BY <2>1, <2>2, <2>3
<1>5. CASE e < Orders(opp, p)[1].remaining_quantity /\ ReducesHead(opp, p, e)
  <2>1. BookType' /\ QueueInv' /\ NodeInv' /\ IndexInv' /\ Uncrossed'
    BY <1>1, <1>2, <1>5, ReduceInv
  <2>2. levels'[call.order.side] = levels[call.order.side]
    BY <1>1, <1>2, <1>5, ReduceEffect, Zenon
  <2>3. active_orders' = active_orders
    BY <1>5 DEF ReducesHead
  <2> QED BY <2>1, <2>2, <2>3
<1>6. RemovesNode(opp, p, 1) \/ (e < Orders(opp, p)[1].remaining_quantity /\ ReducesHead(opp, p, e))
  BY DEF Trades, opp
<1> QED BY <1>4, <1>5, <1>6

\* What it leaves of the call.
LEMMA TradeCall ==
    ASSUME IInv, call.active, NEW p \in DOMAIN levels[Opposite(call.order.side)],
           NEW e \in 1..MaxValue, Trades(Opposite(call.order.side), p, e)
    PROVE  /\ CallType' /\ call'.active = TRUE /\ call'.order = call.order /\ call'.plan = call.plan
           /\ call'.remaining_quantity = call.remaining_quantity - e
           /\ call'.trade_count = call.trade_count + 1
           /\ e \in Nat \ {0} /\ e <= call.remaining_quantity
           /\ call.remaining_quantity \in Nat /\ call.remaining_quantity - e \in Nat
<1> DEFINE Calls == [active: {TRUE}, order: NewLimitOrder, remaining_quantity: Word, trade_count: Nat,
                     plan: [remaining_quantity: Word, trade_count: Nat]]
           rest == call.remaining_quantity - e
<1>1. call \in Calls /\ call.remaining_quantity \in Word /\ call.remaining_quantity \in Nat
      /\ call.trade_count \in Nat
  BY CallIs, Zenon
<1>2. MaxValue \in Nat /\ e \in Nat \ {0} /\ e <= call.remaining_quantity
  BY ConstantsAssumption DEF Trades
<1>3. rest \in Word /\ rest \in Nat /\ call.trade_count + 1 \in Nat
  BY <1>1, <1>2 DEF Word
<1>4. call' = [call EXCEPT !.remaining_quantity = rest, !.trade_count = call.trade_count + 1]
  BY <1>1 DEF Trades
<1> HIDE DEF rest
<1>5. /\ call'.active = TRUE /\ call'.order = call.order /\ call'.plan = call.plan
      /\ call'.remaining_quantity = rest /\ call'.trade_count = call.trade_count + 1
  BY <1>1, <1>4
<1>6. call' \in Calls
  BY <1>1, <1>3, <1>4, Zenon
<1>7. CallType'
  BY <1>6, Zenon DEF CallType
<1> QED BY <1>1, <1>2, <1>3, <1>5, <1>7 DEF rest

\* What it writes on the tape.
LEMMA TradeTape ==
    ASSUME IInv, call.active, NEW p \in DOMAIN levels[Opposite(call.order.side)],
           NEW e \in 1..MaxValue, Trades(Opposite(call.order.side), p, e)
    PROVE  LET t == TradeOf(Orders(Opposite(call.order.side), p)[1], e)
           IN  /\ tape \in Seq(Trade) /\ t \in Trade /\ tape' = Append(tape, t)
               /\ t.id = next_trade_id /\ t.execution_quantity = e
               /\ t.maker_order_id = Orders(Opposite(call.order.side), p)[1].id
               /\ t.taker_order_id = call.order.id
               /\ t.maker_order_id \in DOMAIN active_orders /\ t.maker_order_id # call.order.id
               /\ 1 \in 1..Len(Orders(Opposite(call.order.side), p))
<1> DEFINE opp == Opposite(call.order.side)
           maker == Orders(opp, p)[1]
           t == TradeOf(maker, e)
<1>1. opp \in Side /\ call.order.id \in OrderIds
  BY CallIs, OppositeSide
<1>2. BookType /\ QueueInv /\ NodeInv /\ OtherType /\ SeenInv /\ p \in DOMAIN levels[opp]
  BY DEF IInv
<1>3. 1 \in 1..Len(Orders(opp, p)) /\ maker \in RestingOrder
  <2>1. Orders(opp, p) \in Seq(RestingOrder) /\ Orders(opp, p) # <<>>
    BY <1>1, <1>2, LevelType DEF QueueInv
  <2>2. 1 \in 1..Len(Orders(opp, p))
    BY <2>1, TailErases
  <2> QED BY <1>1, <1>2, <2>2, LevelType
<1>4. Settled(maker, opp, p)
  BY <1>1, <1>2, <1>3 DEF NodeInv
<1>5. maker.id \in DOMAIN active_orders /\ maker.id # call.order.id
  BY <1>2, <1>4 DEF Settled, SeenInv
<1>6. maker.id \in OrderIds /\ maker.limit_price \in Prices /\ next_trade_id \in Word /\ e \in Word
  BY <1>2, <1>3, ConstantsAssumption DEF RestingOrder, OtherType, Word
<1> HIDE DEF maker
<1>7. t \in Trade
  BY <1>1, <1>6 DEF TradeOf, Trade
<1>8. /\ t.id = next_trade_id /\ t.execution_quantity = e
      /\ t.maker_order_id = maker.id /\ t.taker_order_id = call.order.id
  BY DEF TradeOf
<1>9. tape \in Seq(Trade) /\ tape' = Append(tape, t)
  BY <1>2 DEF OtherType, Trades, maker
<1> HIDE DEF t
<1>10. t.maker_order_id \in DOMAIN active_orders /\ t.maker_order_id # call.order.id
  BY <1>5, <1>8
<1> QED BY <1>3, <1>7, <1>8, <1>9, <1>10, Zenon DEF maker, t

\* The quantities add up after a trade.
LEMMA TradeConserved ==
    ASSUME IInv, call.active, NEW p \in DOMAIN levels[Opposite(call.order.side)],
           NEW e \in 1..MaxValue, Trades(Opposite(call.order.side), p, e)
    PROVE  ConservedInv'
<1> DEFINE opp == Opposite(call.order.side)
           maker == Orders(opp, p)[1]
           t == TradeOf(maker, e)
<1>1. /\ tape \in Seq(Trade) /\ t \in Trade /\ tape' = Append(tape, t)
      /\ t.execution_quantity = e /\ t.maker_order_id = maker.id /\ t.taker_order_id = call.order.id
      /\ t.maker_order_id # call.order.id /\ 1 \in 1..Len(Orders(opp, p))
  BY TradeTape
<1>2. /\ opp \in Side /\ p \in DOMAIN levels[opp]
      /\ BookType /\ QueueInv /\ NodeInv /\ IndexInv /\ Uncrossed /\ ConservedInv /\ SeenInv
  BY CallIs, OppositeSide DEF IInv
<1>3. e \in Nat \ {0} /\ call.remaining_quantity \in Nat
      /\ call'.remaining_quantity = call.remaining_quantity - e
      /\ call'.order = call.order
  BY TradeCall, Zenon
<1> HIDE DEF t
<1>4. ASSUME NEW id
      PROVE  /\ id = maker.id \/ id = call.order.id => TradedIn(tape', id) = TradedIn(tape, id) + e
             /\ id # maker.id /\ id # call.order.id => TradedIn(tape', id) = TradedIn(tape, id)
             /\ TradedIn(tape, id) \in Nat
  <2>1. /\ Involves(t, id) => TradedIn(tape', id) = TradedIn(tape, id) + e
        /\ ~Involves(t, id) => TradedIn(tape', id) = TradedIn(tape, id)
    BY <1>1, TradedAppend
  <2>2. Involves(t, id) <=> (id = maker.id \/ id = call.order.id)
    BY <1>1 DEF Involves
  <2>3. TradedIn(tape, id) \in Nat
    BY <1>1, TradesFinite
  <2> QED BY <2>1, <2>2, <2>3
<1>5. call'.order.quantity = call'.remaining_quantity + TradedIn(tape', call'.order.id)
  <2>1. call.order.quantity = call.remaining_quantity + TradedIn(tape, call.order.id)
    BY <1>2 DEF ConservedInv
  <2>2. TradedIn(tape', call.order.id) = TradedIn(tape, call.order.id) + e /\ TradedIn(tape, call.order.id) \in Nat
    BY <1>4
  <2> QED BY <1>3, <2>1, <2>2
<1>6. ASSUME NEW s \in Side, NEW q \in DOMAIN levels[s], NEW j \in 1..Len(Orders(s, q)),
             ~ (s = opp /\ q = p /\ j = 1)
      PROVE  Orders(s, q)[j].original_quantity
               = Orders(s, q)[j].remaining_quantity + TradedIn(tape', Orders(s, q)[j].id)
  <2> DEFINE x == Orders(s, q)[j]
  <2>1. x.original_quantity = x.remaining_quantity + TradedIn(tape, x.id)
    BY <1>2 DEF ConservedInv
  <2>2. x.id # maker.id
    BY <1>1, <1>2, <1>6, NodesDiffer
  <2>3. x.id \in DOMAIN active_orders
    BY <1>2, Zenon DEF NodeInv, Settled
  <2>4. x.id # call.order.id
    BY <1>2, <2>3 DEF SeenInv
  <2> HIDE DEF x, maker
  <2>5. TradedIn(tape', x.id) = TradedIn(tape, x.id)
    BY <1>4, <2>2, <2>4
  <2>6. x.original_quantity = x.remaining_quantity + TradedIn(tape', x.id)
    BY <2>1, <2>5
  <2> QED BY <2>6 DEF x
<1>7. ASSUME NEW s \in Side, NEW q \in DOMAIN levels'[s], NEW j \in 1..Len(levels'[s][q].orders)
      PROVE  levels'[s][q].orders[j].original_quantity
               = levels'[s][q].orders[j].remaining_quantity + TradedIn(tape', levels'[s][q].orders[j].id)
  <2>1. CASE RemovesNode(opp, p, 1)
    <3> HIDE DEF opp, maker
    <3>1. /\ q \in DOMAIN levels[s] /\ j \in Nat
          /\ s = opp /\ q = p => (j >= 1 => /\ j + 1 \in 1..Len(Orders(s, q))
                                            /\ levels'[s][q].orders[j] = Orders(s, q)[j + 1])
          /\ ~ (s = opp /\ q = p) => levels'[s][q] = levels[s][q]
      BY <1>1, <1>2, <2>1, RemoveNodes
    <3>2. CASE s = opp /\ q = p
      <4>1. j >= 1 /\ j + 1 # 1
        BY <3>1
      <4>2. j + 1 \in 1..Len(Orders(s, q)) /\ levels'[s][q].orders[j] = Orders(s, q)[j + 1]
        BY <3>1, <3>2, <4>1
      <4> QED BY <1>6, <3>1, <4>1, <4>2
    <3>3. CASE ~ (s = opp /\ q = p)
      <4>1. levels'[s][q].orders = Orders(s, q)
        BY <3>1, <3>3 DEF Orders
      <4> QED BY <1>6, <3>1, <3>3, <4>1
    <3> QED BY <3>2, <3>3
  <2>2. CASE e < maker.remaining_quantity /\ ReducesHead(opp, p, e)
    <3> HIDE DEF opp
    <3>1. e \in Nat /\ e < Orders(opp, p)[1].remaining_quantity /\ ReducesHead(opp, p, e)
      BY <1>3, <2>2
    <3> HIDE DEF maker
    <3>2. \A ss \in Side : DOMAIN levels'[ss] = DOMAIN levels[ss]
      BY <1>2, <3>1, ReduceEffect, Zenon
    <3>3. \A ss \in Side : \A r \in DOMAIN levels[ss] :
             /\ Len(levels'[ss][r].orders) = Len(Orders(ss, r))
             /\ \A k \in 1..Len(Orders(ss, r)) :
                   levels'[ss][r].orders[k] =
                      IF ss = opp /\ r = p /\ k = 1
                      THEN [Orders(ss, r)[k] EXCEPT !.remaining_quantity = @ - e]
                      ELSE Orders(ss, r)[k]
      BY <1>2, <3>1, ReduceInv
    <3>4. q \in DOMAIN levels[s] /\ j \in 1..Len(Orders(s, q))
      BY <3>2, <3>3
    <3>5. CASE s = opp /\ q = p /\ j = 1
      <4>1. levels'[s][q].orders[j] = [maker EXCEPT !.remaining_quantity = @ - e]
        BY <3>3, <3>4, <3>5, Zenon DEF maker
      <4>2. maker \in RestingOrder /\ maker.original_quantity = maker.remaining_quantity + TradedIn(tape, maker.id)
        BY <1>1, <1>2, LevelType DEF ConservedInv, maker
      <4>3. /\ levels'[s][q].orders[j].original_quantity = maker.original_quantity
            /\ levels'[s][q].orders[j].id = maker.id
            /\ levels'[s][q].orders[j].remaining_quantity = maker.remaining_quantity - e
        BY <4>1, <4>2 DEF RestingOrder
      <4>4. TradedIn(tape', maker.id) = TradedIn(tape, maker.id) + e /\ TradedIn(tape, maker.id) \in Nat
        BY <1>4
      <4>5. maker.remaining_quantity \in Int
        BY <4>2, ConstantsAssumption DEF RestingOrder, Word
      <4>6. maker.original_quantity = (maker.remaining_quantity - e) + TradedIn(tape', maker.id)
        BY <1>3, <4>2, <4>4, <4>5
      <4> QED BY <4>3, <4>6
    <3>6. CASE ~ (s = opp /\ q = p /\ j = 1)
      <4>1. levels'[s][q].orders[j] = Orders(s, q)[j]
        BY <3>3, <3>4, <3>6, Zenon
      <4> QED BY <1>6, <3>4, <3>6, <4>1
    <3> QED BY <3>5, <3>6
  <2>3. RemovesNode(opp, p, 1) \/ (e < maker.remaining_quantity /\ ReducesHead(opp, p, e))
    BY DEF Trades
  <2> QED BY <2>1, <2>2, <2>3
<1> QED BY <1>5, <1>7 DEF ConservedInv, Orders

\* The head of a level has a quantity.
LEMMA HeadWeight ==
    ASSUME BookType, QueueInv, NEW side \in Side, NEW p \in DOMAIN levels[Opposite(side)]
    PROVE  Orders(Opposite(side), p)[1].remaining_quantity \in Int
<1> DEFINE opp == Opposite(side)
<1>1. opp \in Side /\ p \in DOMAIN levels[opp]
  BY OppositeSide
<1> HIDE DEF opp
<1>2. Orders(opp, p) \in Seq(RestingOrder) /\ Orders(opp, p) # <<>>
  BY <1>1, LevelType DEF QueueInv
<1>3. 1 \in 1..Len(Orders(opp, p))
  BY <1>2, TailErases
<1>4. Orders(opp, p)[1] \in RestingOrder
  BY <1>1, <1>3, LevelType
<1>5. Orders(opp, p)[1].remaining_quantity \in Int
  BY <1>4, ConstantsAssumption DEF RestingOrder, Word
<1> QED BY <1>5 DEF opp

\* A trade takes its share of the plan.
LEMMA TradePlan ==
    ASSUME IInv, call.active, NEW p \in DOMAIN levels[Opposite(call.order.side)],
           NEW e \in 1..MaxValue, Trades(Opposite(call.order.side), p, e)
    PROVE  PlanInv'
<1> SUFFICES ASSUME NEW side, NEW limit, NEW q, NEW r,
                    side = call'.order.side, limit = call'.order.limit_price,
                    q = call.remaining_quantity, r = call'.remaining_quantity
             PROVE  /\ call'.plan.remaining_quantity = preview_match(side, limit, r)'.remaining_quantity
                    /\ call'.plan.trade_count
                         = call'.trade_count + preview_match(side, limit, r)'.trade_count
                    /\ \/ preview_match(side, limit, r)'.trade_count = 0
                       \/ /\ next_trade_id' # 0
                          /\ preview_match(side, limit, r)'.trade_count <= MaxValue - next_trade_id' + 1
  BY DEF PlanInv, can_issue_trade_ids
<1> DEFINE now == preview_match(side, limit, q)
           next == preview_match(side, limit, r)'
           opp == Opposite(side)
<1>1. /\ call'.order = call.order /\ call'.plan = call.plan /\ r = q - e
      /\ call'.trade_count = call.trade_count + 1
      /\ e \in Nat \ {0} /\ e <= q /\ q \in Nat /\ r \in Nat
  BY TradeCall, Zenon
<1>2. /\ side = call.order.side /\ limit = call.order.limit_price /\ side \in Side /\ limit \in Prices
      /\ opp = Opposite(call.order.side) /\ p \in DOMAIN levels[opp] /\ call.trade_count \in Nat
  BY <1>1, CallIs
<1>3. BookType /\ QueueInv /\ NodeInv /\ PlanInv /\ OtherType
  BY DEF IInv
<1>4. BookType' /\ QueueInv' /\ NodeInv'
  BY TradeBook
<1>5. /\ IsBegin(opp, p) /\ Crosses(side, p, limit) /\ next_trade_id \in 1..MaxValue
      /\ next_trade_id' = Increment(next_trade_id)
      /\ \/ e = Orders(opp, p)[1].remaining_quantity /\ RemovesNode(opp, p, 1)
         \/ e = q /\ e < Orders(opp, p)[1].remaining_quantity
  BY <1>2 DEF Trades
<1>6. /\ call.plan.remaining_quantity = now.remaining_quantity
      /\ call.plan.trade_count = call.trade_count + now.trade_count
      /\ now.trade_count = 0 \/ (next_trade_id # 0 /\ now.trade_count <= MaxValue - next_trade_id + 1)
  BY <1>2, <1>3 DEF PlanInv, can_issue_trade_ids
<1>7. next.trade_count \in Nat
  <2> DEFINE M == CrossingMakers(side, limit)'
             w == Offers(side, CrossingMakers(side, limit))'
             B == Before(side, CrossingMakers(side, limit))'
  <2>1. PreviewFact'
    BY PreviewHolds, PTL
  <2>2. PreviewIs(side, limit, r, CrossingMakers(side, limit),
                  Offers(side, CrossingMakers(side, limit)),
                  Before(side, CrossingMakers(side, limit)))'
    BY <1>2, <1>4, <2>1 DEF PreviewFact
  <2>3. next.trade_count = Count(M, w, B, r) /\ IsFiniteSet(M)
    BY <2>2 DEF PreviewIs
  <2> HIDE DEF next, M, w, B
  <2> QED BY <2>3, CountType
<1>8. now.remaining_quantity = next.remaining_quantity /\ now.trade_count = 1 + next.trade_count
  <2>1. CASE e = Orders(opp, p)[1].remaining_quantity /\ RemovesNode(opp, p, 1)
    <3>1. /\ side \in Side /\ limit \in Prices /\ p \in DOMAIN levels[Opposite(side)]
          /\ IsBegin(Opposite(side), p) /\ Crosses(side, p, limit)
          /\ RemovesNode(Opposite(side), p, 1) /\ e = Orders(Opposite(side), p)[1].remaining_quantity
      BY <1>2, <1>5, <2>1, Zenon
    <3>2. e \in Nat /\ q \in Nat /\ r \in Nat /\ 0 < q /\ e <= q /\ r = q - e
      BY <1>1
    <3>3. Continues(side, limit, q, r)
      BY <1>3, <1>4, <3>1, <3>2, PlanFilled, ZenonT(30)
    <3> QED BY <3>3 DEF Continues
  <2>2. CASE e = q /\ e < Orders(opp, p)[1].remaining_quantity
    <3>1. q \in Nat /\ 0 < q /\ r = 0
      BY <1>1, <2>2
    <3>2. q <= Orders(Opposite(side), p)[1].remaining_quantity
      <4>1. Orders(Opposite(side), p)[1].remaining_quantity \in Int
        BY <1>2, <1>3, HeadWeight
      <4> QED BY <1>1, <2>2, <4>1
    <3>3. now.remaining_quantity = 0 /\ now.trade_count = 1
      <4>1. /\ side \in Side /\ limit \in Prices /\ p \in DOMAIN levels[Opposite(side)]
            /\ IsBegin(Opposite(side), p) /\ Crosses(side, p, limit)
        BY <1>2, <1>5
      <4> QED BY <1>3, <3>1, <3>2, <4>1, PlanFirst
    <3>4. next.remaining_quantity = 0 /\ next.trade_count = 0
      <4>1. DoneFact'
        BY DoneHolds, PTL
      <4> QED BY <1>2, <1>4, <3>1, <4>1 DEF DoneFact
    <3> QED BY <3>3, <3>4
  <2> QED BY <1>5, <2>1, <2>2, Zenon
<1> HIDE DEF now, next
<1>9. next.trade_count = 0 \/ (next_trade_id' # 0 /\ next.trade_count <= MaxValue - next_trade_id' + 1)
  <2>1. MaxValue \in Nat /\ next_trade_id \in Word
    BY <1>3, ConstantsAssumption DEF OtherType
  <2>2. next_trade_id' = IF next_trade_id = MaxValue THEN 0 ELSE next_trade_id + 1
    BY <1>5, <2>1, Incremented
  <2> QED BY <1>5, <1>6, <1>7, <1>8, <2>1, <2>2
<1> QED BY <1>1, <1>2, <1>6, <1>7, <1>8, <1>9 DEF next

LEMMA MatchInv ==
    ASSUME IInv, MatchStep
    PROVE  IInv'
<1> DEFINE opp == Opposite(call.order.side)
<1>1. call.active /\ \E p \in DOMAIN levels[opp] : \E e \in 1..MaxValue : Trades(opp, p, e)
  BY MatchEffect
<1>2. PICK p \in DOMAIN levels[opp] : \E e \in 1..MaxValue : Trades(opp, p, e)
  BY <1>1
<1>3. PICK e \in 1..MaxValue : Trades(opp, p, e)
  BY <1>2
<1> DEFINE t == TradeOf(Orders(opp, p)[1], e)
<1>4. /\ tape \in Seq(Trade) /\ t \in Trade /\ tape' = Append(tape, t)
      /\ t.id = next_trade_id /\ t.maker_order_id \in DOMAIN active_orders
      /\ t.taker_order_id = call.order.id
  BY <1>1, <1>3, TradeTape, Zenon
<1>5. /\ BookType' /\ QueueInv' /\ NodeInv' /\ IndexInv' /\ Uncrossed'
      /\ DOMAIN active_orders' \subseteq DOMAIN active_orders
      /\ levels'[call.order.side] = levels[call.order.side]
  BY <1>1, <1>3, TradeBook
<1>6. CallType' /\ call'.active = TRUE /\ call'.order = call.order /\ call'.plan = call.plan
  BY <1>1, <1>3, TradeCall, Zenon
<1>7. ConservedInv' /\ PlanInv'
  BY <1>1, <1>3, TradeConserved, TradePlan
<1>8. /\ next_trade_id \in 1..MaxValue /\ next_trade_id' = Increment(next_trade_id)
      /\ seen_order_ids' = seen_order_ids /\ terminated' = terminated
      /\ next_arrival_sequence' = next_arrival_sequence
  BY <1>3 DEF Trades
<1>9. OtherType /\ SeenInv /\ RoomInv /\ CounterInv /\ next_trade_id \in Word /\ MaxValue \in Nat
      /\ FirstTradeId \in Nat
  BY ConstantsAssumption DEF IInv, OtherType
<1> HIDE DEF t
<1>10. tape' \in Seq(Trade) /\ Len(tape) \in Nat /\ Len(tape') = Len(tape) + 1
       /\ (\A k \in 1..Len(tape) : tape'[k] = tape[k]) /\ tape'[Len(tape) + 1] = t
  BY <1>4
<1>11. /\ next_trade_id' \in Word
       /\ next_trade_id' = IF next_trade_id = MaxValue THEN 0 ELSE next_trade_id + 1
  BY <1>8, <1>9, Incremented
<1>12. \A k \in 1..Len(tape') : k \in 1..Len(tape) \/ k = Len(tape) + 1
  BY <1>10
<1>13. OtherType'
  BY <1>8, <1>9, <1>10, <1>11 DEF OtherType
<1>14. SeenInv'
  <2>1. DOMAIN active_orders \subseteq seen_order_ids /\ call.order.id \in seen_order_ids \ DOMAIN active_orders
    BY <1>1, <1>9 DEF SeenInv
  <2>2. ASSUME NEW k \in 1..Len(tape')
        PROVE  {tape'[k].maker_order_id, tape'[k].taker_order_id} \subseteq seen_order_ids'
    <3>1. CASE k \in 1..Len(tape)
      BY <1>8, <1>9, <1>10, <3>1 DEF SeenInv
    <3>2. CASE k = Len(tape) + 1
      BY <1>4, <1>8, <1>10, <2>1, <3>2
    <3> QED BY <1>12, <3>1, <3>2
  <2>3. /\ call'.order.id \in seen_order_ids' \ DOMAIN active_orders'
        /\ call'.order.side \in Side /\ call'.order.limit_price \in Prices
        /\ call'.order.quantity \in Quantities
    BY <1>1, <1>5, <1>6, <1>8, <1>9 DEF SeenInv
  <2>4. DOMAIN active_orders' \subseteq seen_order_ids'
    BY <1>5, <1>8, <2>1
  <2> QED BY <2>2, <2>3, <2>4 DEF SeenInv
<1>15. RoomInv'
  BY <1>1, <1>5, <1>6, <1>8, <1>9, Zenon DEF RoomInv
<1>16. CounterInv'
  <2>1. /\ next_trade_id = IF FirstTradeId + Len(tape) <= MaxValue THEN FirstTradeId + Len(tape) ELSE 0
        /\ FirstTradeId + Len(tape) <= MaxValue + 1
        /\ \A k \in 1..Len(tape) : tape[k].id = FirstTradeId + k - 1
    BY <1>9 DEF CounterInv
  <2>2. FirstTradeId + Len(tape) <= MaxValue /\ next_trade_id = FirstTradeId + Len(tape)
    BY <1>8, <1>9, <1>10, <2>1
  <2>3. /\ next_trade_id' = IF FirstTradeId + Len(tape') <= MaxValue THEN FirstTradeId + Len(tape') ELSE 0
        /\ FirstTradeId + Len(tape') <= MaxValue + 1
    BY <1>9, <1>10, <1>11, <2>2
  <2>4. ASSUME NEW k \in 1..Len(tape') PROVE tape'[k].id = FirstTradeId + k - 1
    <3>1. CASE k \in 1..Len(tape)
      BY <1>10, <2>1, <3>1
    <3>2. CASE k = Len(tape) + 1
      <4>1. tape'[k].id = FirstTradeId + Len(tape)
        BY <1>4, <1>10, <2>2, <3>2
      <4> QED BY <1>9, <1>10, <3>2, <4>1
    <3> QED BY <1>12, <3>1, <3>2
  <2> QED BY <2>3, <2>4 DEF CounterInv
<1> QED BY <1>5, <1>6, <1>7, <1>13, <1>14, <1>15, <1>16, Zenon DEF IInv

-----------------------------------------------------------------------------
(* The other steps.                                                            *)

\* A preview has the type of a MatchPlan, and depends on the levels only.
LEMMA PreviewType ==
    ASSUME BookType, QueueInv, NodeInv, NEW side \in Side, NEW limit, NEW q \in Word
    PROVE  /\ preview_match(side, limit, q) \in [remaining_quantity: Word, trade_count: Nat]
           /\ preview_match(side, limit, q).remaining_quantity \in Word
           /\ preview_match(side, limit, q).trade_count \in Nat
<1> DEFINE M == CrossingMakers(side, limit)
           w == Offers(side, M)
           B == Before(side, M)
           now == preview_match(side, limit, q)
<1>1. PreviewIs(side, limit, q, M, w, B)
  BY PreviewHolds DEF PreviewFact
<1>2. /\ now.remaining_quantity = q - Smaller(q, Size(M, w)) /\ now.trade_count = Count(M, w, B, q)
      /\ MaxValue \in Nat /\ IsFiniteSet(M) /\ Size(M, w) \in Nat
  BY <1>1 DEF PreviewIs
<1>3. now = [remaining_quantity |-> now.remaining_quantity, trade_count |-> now.trade_count]
  BY DEF preview_match
<1> HIDE DEF M, w, B, now
<1>4. now.trade_count \in Nat
  BY <1>2, CountType
<1>5. now.remaining_quantity \in Word
  BY <1>2 DEF Smaller, Word
<1> QED BY <1>3, <1>4, <1>5 DEF now

LEMMA PreviewSame ==
    ASSUME levels' = levels, NEW side, NEW limit, NEW q
    PROVE  preview_match(side, limit, q)' = preview_match(side, limit, q)
BY DEF preview_match, CrossingMakers, Units, MakersBefore

\* When the loop in match ends, the plan is what it did.
LEMMA PlanMet ==
    ASSUME IInv, call.active, ~Matching
    PROVE  /\ call.remaining_quantity = call.plan.remaining_quantity
           /\ call.trade_count = call.plan.trade_count
<1> DEFINE side == call.order.side
           limit == call.order.limit_price
           q == call.remaining_quantity
           now == preview_match(side, limit, q)
<1>1. side \in Side /\ q \in Nat /\ call.trade_count \in Nat
  BY CallIs
<1>2. BookType /\ QueueInv /\ NodeInv /\ PlanInv
  BY DEF IInv
<1>3. call.plan.remaining_quantity = now.remaining_quantity
      /\ call.plan.trade_count = call.trade_count + now.trade_count
  BY <1>2 DEF PlanInv
<1>4. now.remaining_quantity = q /\ now.trade_count = 0
  <2>1. CASE q = 0
    <3>1. preview_match(side, limit, 0).remaining_quantity = 0 /\ preview_match(side, limit, 0).trade_count = 0
      <4> HIDE DEF side, limit
      <4> QED BY <1>1, <1>2, PlanDone
    <3> QED BY <2>1, <3>1
  <2>2. CASE q # 0
    <3>1. q > 0
      BY <1>1, <2>2
    <3>2. \A p \in DOMAIN levels[Opposite(side)] : ~Crosses(side, p, limit)
      BY <3>1 DEF Matching
    <3> HIDE DEF side, limit, q
    <3> QED BY <1>1, <1>2, <3>2, PlanNone
  <2> QED BY <2>1, <2>2
<1> HIDE DEF now
<1> QED BY <1>1, <1>3, <1>4

\* What the checks of submit establish.
LEMMA Accepted ==
    ASSUME BookType, NEW order \in NewLimitOrder, RejectionReason(order) = "None"
    PROVE  LET plan == preview_match(order.side, order.limit_price, order.quantity)
           IN  /\ order.id \in OrderIds \ seen_order_ids /\ order.side \in Side
               /\ order.limit_price \in Prices /\ order.quantity \in Quantities
               /\ can_issue_trade_ids(plan.trade_count)
               /\ plan.remaining_quantity > 0 =>
                     /\ next_arrival_sequence # 0
                     /\ order.limit_price \in DOMAIN levels[order.side] =>
                           ~would_overflow(levels[order.side][order.limit_price].total_quantity,
                                           plan.remaining_quantity)
<1> DEFINE plan == preview_match(order.side, order.limit_price, order.quantity)
<1> HIDE DEF plan
<1>1. /\ order.id # ZeroId /\ order.side \in Side /\ order.limit_price # 0 /\ order.quantity # 0
      /\ ~IsDuplicate(order.id) /\ can_issue_trade_ids(plan.trade_count)
      /\ ~ (plan.remaining_quantity > 0 /\ next_arrival_sequence = 0)
      /\ ~ (/\ plan.remaining_quantity > 0
            /\ order.limit_price \in DOMAIN levels[order.side]
            /\ would_overflow(levels[order.side][order.limit_price].total_quantity,
                              plan.remaining_quantity))
  BY Zenon DEF RejectionReason, plan
<1>2. /\ order.id \in OrderIds /\ order.limit_price \in Prices /\ order.quantity \in Quantities
  BY <1>1 DEF NewLimitOrder
<1> QED BY <1>1, <1>2 DEF plan, IsDuplicate

\* The levels, the index and the counter of arrivals do not change.
LEMMA SameBook ==
    ASSUME BookType, QueueInv, NodeInv, IndexInv, Uncrossed,
           levels' = levels, active_orders' = active_orders,
           next_arrival_sequence' = next_arrival_sequence
    PROVE  BookType' /\ QueueInv' /\ NodeInv' /\ IndexInv' /\ Uncrossed'
<1>1. BookType' /\ Uncrossed'
  BY DEF BookType, Uncrossed
<1>2. QueueInv'
  BY DEF QueueInv, Orders
<1>3. NodeInv'
  <2> SUFFICES ASSUME NEW side \in Side, NEW p \in DOMAIN levels[side],
                      NEW i \in 1..Len(Orders(side, p))
               PROVE  Settled(Orders(side, p)[i], side, p)'
    BY DEF NodeInv, Orders
  <2>1. Settled(Orders(side, p)[i], side, p)
    BY DEF NodeInv
  <2> QED BY <2>1, Zenon DEF Settled, Orders
<1>4. IndexInv'
  BY DEF IndexInv, Orders
<1> QED BY <1>1, <1>2, <1>3, <1>4

LEMMA SubmitInv ==
    ASSUME IInv, NEW order \in NewLimitOrder, Submit(order)
    PROVE  IInv'
<1> DEFINE side == order.side
           limit == order.limit_price
           q == order.quantity
           plan == preview_match(side, limit, q)
<1>1. /\ RejectionReason(order) = "None" /\ seen_order_ids' = seen_order_ids \cup {order.id}
      /\ call' = [active |-> TRUE, order |-> order, remaining_quantity |-> q,
                  trade_count |-> 0, plan |-> plan]
      /\ levels' = levels /\ active_orders' = active_orders
      /\ next_arrival_sequence' = next_arrival_sequence /\ next_trade_id' = next_trade_id
      /\ terminated' = terminated /\ tape' = tape
  BY DEF Submit
<1>2. /\ BookType /\ QueueInv /\ NodeInv /\ IndexInv /\ Uncrossed /\ OtherType /\ SeenInv
      /\ ConservedInv /\ CounterInv
  BY DEF IInv
<1>3. /\ order.id \in OrderIds \ seen_order_ids /\ side \in Side
      /\ limit \in Prices /\ q \in Quantities
      /\ can_issue_trade_ids(plan.trade_count)
      /\ plan.remaining_quantity > 0 =>
            /\ next_arrival_sequence # 0
            /\ limit \in DOMAIN levels[side] =>
                  ~would_overflow(levels[side][limit].total_quantity, plan.remaining_quantity)
  BY <1>1, <1>2, Accepted, Zenon
<1>4. q \in Word /\ q \in Nat /\ MaxValue \in Nat
  <2>1. MaxValue \in Nat /\ Quantities \subseteq 1..MaxValue
    BY ConstantsAssumption
  <2> HIDE DEF q
  <2> QED BY <1>3, <2>1 DEF Word
<1>5. /\ plan \in [remaining_quantity: Word, trade_count: Nat]
      /\ plan.remaining_quantity \in Word /\ plan.trade_count \in Nat
  <2> HIDE DEF side, limit, q
  <2> QED BY <1>2, <1>3, <1>4, PreviewType
<1>6. /\ call'.active = TRUE /\ call'.order = order /\ call'.remaining_quantity = q
      /\ call'.trade_count = 0 /\ call'.plan = plan
  BY <1>1
<1>7. BookType' /\ QueueInv' /\ NodeInv' /\ IndexInv' /\ Uncrossed'
  BY <1>1, <1>2, SameBook
<1>8. CallType'
  <2> HIDE DEF plan, q
  <2> QED BY <1>1, <1>4, <1>5 DEF CallType
<1>9. OtherType' /\ CounterInv'
  BY <1>1, <1>2, <1>3, Zenon DEF OtherType, CounterInv
<1>10. SeenInv'
  <2>1. \A k \in 1..Len(tape') : {tape'[k].maker_order_id, tape'[k].taker_order_id} \subseteq seen_order_ids'
    BY <1>1, <1>2, Zenon DEF SeenInv
  <2>2. DOMAIN active_orders' \subseteq seen_order_ids' /\ order.id \in seen_order_ids' \ DOMAIN active_orders'
    BY <1>1, <1>2, <1>3, Zenon DEF SeenInv
  <2> QED BY <1>3, <1>6, <2>1, <2>2, Zenon DEF SeenInv
<1>11. ConservedInv'
  <2>1. TradedIn(tape, order.id) = 0
    <3>1. tape \in Seq(Trade) /\ \A k \in 1..Len(tape) : ~Involves(tape[k], order.id)
      BY <1>2, <1>3, ZenonT(30) DEF OtherType, SeenInv, Involves
    <3> QED BY <3>1, TradedNothing
  <2>2. call'.order.quantity = call'.remaining_quantity + TradedIn(tape', call'.order.id)
    BY <1>1, <1>4, <1>6, <2>1
  <2>3. \A s \in Side : \A p \in DOMAIN levels'[s] : \A i \in 1..Len(levels'[s][p].orders) :
           levels'[s][p].orders[i].original_quantity
             = levels'[s][p].orders[i].remaining_quantity + TradedIn(tape', levels'[s][p].orders[i].id)
    BY <1>1, <1>2 DEF ConservedInv, Orders
  <2> QED BY <2>2, <2>3 DEF ConservedInv, Orders
<1>12. PlanInv'
  <2> SUFFICES ASSUME NEW s, NEW l, NEW r, s = side, l = limit, r = q
               PROVE  /\ plan.remaining_quantity = preview_match(s, l, r)'.remaining_quantity
                      /\ plan.trade_count = 0 + preview_match(s, l, r)'.trade_count
                      /\ \/ preview_match(s, l, r)'.trade_count = 0
                         \/ /\ next_trade_id' # 0
                            /\ preview_match(s, l, r)'.trade_count <= MaxValue - next_trade_id' + 1
    <3> HIDE DEF plan, side, limit, q
    <3> QED BY <1>6 DEF PlanInv, can_issue_trade_ids, side, limit
  <2>1. preview_match(s, l, r)' = preview_match(s, l, r)
    BY <1>1, PreviewSame
  <2>2. preview_match(s, l, r)' = plan
    BY <2>1
  <2> HIDE DEF plan
  <2> QED BY <1>1, <1>3, <1>5, <2>2 DEF can_issue_trade_ids
<1>13. RoomInv'
  <2>1. ASSUME plan.remaining_quantity > 0, limit \in DOMAIN levels[side]
        PROVE  levels[side][limit].total_quantity <= MaxValue - plan.remaining_quantity
    <3>1. levels[side][limit].total_quantity \in Word
      <4> HIDE DEF side, limit
      <4> QED BY <1>2, <1>3, <2>1, LevelType
    <3>2. ~would_overflow(levels[side][limit].total_quantity, plan.remaining_quantity)
      BY <1>3, <2>1
    <3> HIDE DEF plan, side, limit
    <3> QED BY <1>4, <1>5, <3>1, <3>2 DEF would_overflow, Word
  <2> HIDE DEF plan
  <2> QED BY <1>1, <1>3, <1>6, <2>1, Zenon DEF RoomInv
<1> QED BY <1>7, <1>8, <1>9, <1>10, <1>11, <1>12, <1>13 DEF IInv

\* The calls that change the result only.
LEMMA QuietInv ==
    ASSUME IInv, levels' = levels, active_orders' = active_orders, seen_order_ids' = seen_order_ids,
           next_arrival_sequence' = next_arrival_sequence, next_trade_id' = next_trade_id,
           terminated' = terminated, tape' = tape, call' = call \/ call' = NoCall
    PROVE  IInv'
<1>1. BookType' /\ QueueInv' /\ NodeInv' /\ IndexInv' /\ Uncrossed'
  BY SameBook DEF IInv
<1>2. OtherType' /\ CounterInv'
  BY DEF IInv, OtherType, CounterInv
<1>3. \A s \in Side : \A p \in DOMAIN levels'[s] : \A i \in 1..Len(levels'[s][p].orders) :
         levels'[s][p].orders[i].original_quantity
           = levels'[s][p].orders[i].remaining_quantity + TradedIn(tape', levels'[s][p].orders[i].id)
  BY DEF IInv, ConservedInv, Orders
<1>4. CASE call' = NoCall
  <2>1. ~call'.active
    BY <1>4 DEF NoCall
  <2>2. CallType'
    BY <1>4 DEF CallType
  <2>3. SeenInv'
    BY <2>1 DEF IInv, SeenInv
  <2>4. ConservedInv'
    BY <1>3, <2>1 DEF ConservedInv, Orders
  <2>5. PlanInv' /\ RoomInv'
    BY <2>1 DEF PlanInv, RoomInv
  <2> QED BY <1>1, <1>2, <2>2, <2>3, <2>4, <2>5 DEF IInv
<1>5. CASE call' = call
  <2>1. CallType'
    BY <1>5, Zenon DEF IInv, CallType
  <2>2. SeenInv'
    BY <1>5 DEF IInv, SeenInv
  <2>3. ConservedInv'
    <3>1. call'.active => call'.order.quantity = call'.remaining_quantity + TradedIn(tape', call'.order.id)
      BY <1>5, Zenon DEF IInv, ConservedInv
    <3> QED BY <1>3, <3>1 DEF ConservedInv, Orders
  <2>4. PlanInv'
    <3> SUFFICES ASSUME call.active, NEW s \in {call.order.side}, NEW l \in {call.order.limit_price},
                        NEW r \in {call.remaining_quantity}
                 PROVE  /\ call.plan.remaining_quantity = preview_match(s, l, r)'.remaining_quantity
                        /\ call.plan.trade_count
                             = call.trade_count + preview_match(s, l, r)'.trade_count
                        /\ \/ preview_match(s, l, r)'.trade_count = 0
                           \/ /\ next_trade_id' # 0
                              /\ preview_match(s, l, r)'.trade_count <= MaxValue - next_trade_id' + 1
      BY <1>5 DEF PlanInv, can_issue_trade_ids
    <3>1. preview_match(s, l, r)' = preview_match(s, l, r)
      BY PreviewSame
    <3>2. /\ call.plan.remaining_quantity = preview_match(s, l, r).remaining_quantity
          /\ call.plan.trade_count = call.trade_count + preview_match(s, l, r).trade_count
          /\ \/ preview_match(s, l, r).trade_count = 0
             \/ /\ next_trade_id # 0
                /\ preview_match(s, l, r).trade_count <= MaxValue - next_trade_id + 1
      BY DEF IInv, PlanInv, can_issue_trade_ids
    <3> QED BY <3>1, <3>2
  <2>5. RoomInv'
    BY <1>5 DEF IInv, RoomInv
  <2> QED BY <1>1, <1>2, <2>1, <2>2, <2>3, <2>4, <2>5 DEF IInv
<1> QED BY <1>4, <1>5

\* The remainder of an order may rest where insert_resting_order puts it.
RestsNode == RestingNode(call.order, call.remaining_quantity, next_arrival_sequence)

LEMMA RestEffect ==
    ASSUME IInv, Rest, call.remaining_quantity > 0
    PROVE  /\ MayRest(RestsNode) /\ AddsNode(RestsNode) /\ RestsNode.id = call.order.id
           /\ RestsNode.original_quantity = RestsNode.remaining_quantity + TradedIn(tape, RestsNode.id)
<1> DEFINE side == call.order.side
           limit == call.order.limit_price
           q == call.remaining_quantity
           node == RestsNode
<1>1. call.active /\ ~Matching
  BY DEF Rest
<1>2. /\ call.order.id \in OrderIds /\ side \in Side /\ limit \in Prices
      /\ call.order.quantity \in Quantities /\ q \in Word /\ q \in Nat
  BY <1>1, CallIs
<1>3. MaxValue \in Nat /\ call.order.quantity \in Word /\ call.order.quantity \in Nat
  <2> DEFINE c == call.order.quantity
  <2>1. MaxValue \in Nat /\ Quantities \subseteq 1..MaxValue /\ c \in Quantities
    BY <1>2, ConstantsAssumption
  <2> HIDE DEF c
  <2>2. c \in Word /\ c \in Nat
    BY <2>1 DEF Word
  <2> QED BY <2>1, <2>2 DEF c
<1>4. BookType /\ OtherType /\ SeenInv /\ ConservedInv /\ RoomInv
  BY DEF IInv
<1>5. /\ node.id = call.order.id /\ node.side = side /\ node.limit_price = limit
      /\ node.original_quantity = call.order.quantity /\ node.remaining_quantity = q
      /\ node.arrival_sequence = next_arrival_sequence
      /\ node \in RestingOrder
  BY <1>2, <1>3, <1>4 DEF RestsNode, RestingNode, RestingOrder, OtherType
<1>6. call.order.quantity = q + TradedIn(tape, call.order.id) /\ TradedIn(tape, call.order.id) \in Nat
  BY <1>1, <1>4, TradesFinite, Zenon DEF ConservedInv, OtherType
<1>7. node.remaining_quantity \in 1..node.original_quantity
  BY <1>2, <1>3, <1>5, <1>6
<1>8. q = call.plan.remaining_quantity
  BY <1>1, PlanMet
<1>9. next_arrival_sequence # 0 /\ call.order.id \notin DOMAIN active_orders
      /\ (limit \in DOMAIN levels[side] => levels[side][limit].total_quantity <= MaxValue - q)
  BY <1>1, <1>4, <1>8 DEF RoomInv, SeenInv
<1>10. TotalAt(side, limit) \in Nat /\ TotalAt(side, limit) + q <= MaxValue
  <2>1. CASE limit \in DOMAIN levels[side]
    <3>1. levels[side][limit].total_quantity \in Word
      <4> HIDE DEF side, limit
      <4> QED BY <1>2, <1>4, <2>1, LevelType
    <3> QED BY <1>2, <1>3, <1>9, <2>1, <3>1 DEF TotalAt, Word
  <2>2. CASE limit \notin DOMAIN levels[side]
    BY <1>2, <1>3, <2>2 DEF TotalAt, Word
  <2> QED BY <2>1, <2>2
<1>11. \A p \in DOMAIN levels[Opposite(side)] : ~Crosses(side, p, limit)
  BY <1>1 DEF Matching
<1> HIDE DEF node
<1>12. MayRest(node)
  BY <1>5, <1>7, <1>9, <1>10, <1>11 DEF MayRest
<1>13. AddsNode(node)
  <2> DEFINE total == TotalAt(side, limit) + q
             queue == Append(QueueAt(side, limit), node)
  <2>1. total % (MaxValue + 1) = total
    <3>1. total \in 0..MaxValue
      BY <1>2, <1>3, <1>10
    <3> HIDE DEF total
    <3> QED BY <1>3, <3>1
  <2>2. queue # <<>>
    <3>1. QueueAt(side, limit) \in Seq(RestingOrder)
      <4>1. CASE limit \in DOMAIN levels[side]
        <5>1. Orders(side, limit) \in Seq(RestingOrder)
          <6> HIDE DEF side, limit
          <6> QED BY <1>2, <1>4, <4>1, LevelType
        <5> QED BY <4>1, <5>1 DEF QueueAt
      <4>2. CASE limit \notin DOMAIN levels[side]
        <5>1. <<>> \in Seq(RestingOrder)
          OBVIOUS
        <5> QED BY <4>2, <5>1 DEF QueueAt
      <4> QED BY <4>1, <4>2
    <3> HIDE DEF side, limit
    <3> QED BY <1>5, <3>1
  <2>3. /\ levels' = [levels EXCEPT ![side] = insert_resting_order(levels[side], call.order, q, next_arrival_sequence)]
        /\ active_orders' = Put(active_orders, call.order.id, [side |-> side, price |-> limit])
        /\ next_arrival_sequence' = Increment(next_arrival_sequence)
    BY Zenon DEF Rest
  <2>4. insert_resting_order(levels[side], call.order, q, next_arrival_sequence)
          = Put(levels[side], limit, [orders |-> queue, total_quantity |-> total % (MaxValue + 1)])
    <3>1. RestingNode(call.order, q, next_arrival_sequence) = node
      BY DEF node, RestsNode
    <3>2. CASE limit \in DOMAIN levels[side]
      BY <3>1, <3>2 DEF insert_resting_order, PushBack, QueueAt, TotalAt, Orders
    <3>3. CASE limit \notin DOMAIN levels[side]
      BY <3>1, <3>3 DEF insert_resting_order, PushBack, QueueAt, TotalAt
    <3> QED BY <3>2, <3>3, Zenon
  <2>5. LevelBecomes(side, limit, queue, total)
    <3> HIDE DEF queue, total, side
    <3> QED BY <2>1, <2>2, <2>3, <2>4, Zenon DEF LevelBecomes
  <2> QED BY <1>5, <2>3, <2>5, Zenon DEF AddsNode
<1> QED BY <1>5, <1>6, <1>12, <1>13 DEF node

LEMMA RestInv ==
    ASSUME IInv, Rest
    PROVE  IInv'
<1>1. /\ call.active /\ call' = NoCall /\ seen_order_ids' = seen_order_ids
      /\ next_trade_id' = next_trade_id /\ terminated' = terminated /\ tape' = tape
  BY Zenon DEF Rest
<1>2. CASE call.remaining_quantity > 0
  <2> DEFINE node == RestsNode
  <2>1. /\ MayRest(node) /\ AddsNode(node) /\ node.id = call.order.id
        /\ node.original_quantity = node.remaining_quantity + TradedIn(tape, node.id)
    BY <1>2, RestEffect, Zenon
  <2>2. /\ BookType /\ QueueInv /\ NodeInv /\ IndexInv /\ Uncrossed /\ OtherType /\ SeenInv
        /\ ConservedInv /\ CounterInv /\ next_arrival_sequence \in Word
    BY DEF IInv, OtherType
  <2> HIDE DEF node
  <2>3. /\ BookType' /\ QueueInv' /\ NodeInv' /\ IndexInv' /\ Uncrossed'
        /\ \A s \in Side : \A q \in DOMAIN levels'[s] : \A j \in 1..Len(levels'[s][q].orders) :
              \/ levels'[s][q].orders[j] = node
              \/ /\ q \in DOMAIN levels[s] /\ j \in 1..Len(Orders(s, q))
                 /\ levels'[s][q].orders[j] = Orders(s, q)[j]
    BY <2>1, <2>2, AddInv, Zenon
  <2>4. ~call'.active /\ CallType'
    BY <1>1 DEF NoCall, CallType
  <2>5. OtherType' /\ CounterInv'
    <3>1. next_arrival_sequence' \in Word
      BY <2>1, <2>2, Incremented DEF AddsNode
    <3> QED BY <1>1, <2>2, <3>1 DEF OtherType, CounterInv
  <2>6. SeenInv'
    <3>1. DOMAIN active_orders' = DOMAIN active_orders \cup {call.order.id}
      BY <2>1 DEF AddsNode, Put
    <3>2. DOMAIN active_orders' \subseteq seen_order_ids'
      BY <1>1, <2>2, <3>1 DEF SeenInv
    <3> QED BY <1>1, <2>2, <2>4, <3>2 DEF SeenInv
  <2>7. ConservedInv'
    <3> SUFFICES ASSUME NEW s \in Side, NEW q \in DOMAIN levels'[s], NEW j \in 1..Len(levels'[s][q].orders)
                 PROVE  levels'[s][q].orders[j].original_quantity
                          = levels'[s][q].orders[j].remaining_quantity
                              + TradedIn(tape', levels'[s][q].orders[j].id)
      BY <2>4, Zenon DEF ConservedInv, Orders
    <3>1. CASE levels'[s][q].orders[j] = node
      BY <1>1, <2>1, <3>1
    <3>2. CASE /\ q \in DOMAIN levels[s] /\ j \in 1..Len(Orders(s, q))
               /\ levels'[s][q].orders[j] = Orders(s, q)[j]
      BY <1>1, <2>2, <3>2 DEF ConservedInv
    <3> QED BY <2>3, <3>1, <3>2, Zenon
  <2>8. PlanInv' /\ RoomInv'
    BY <2>4 DEF PlanInv, RoomInv
  <2> QED BY <2>3, <2>4, <2>5, <2>6, <2>7, <2>8, Zenon DEF IInv
<1>3. CASE ~ (call.remaining_quantity > 0)
  <2>1. /\ levels' = levels /\ active_orders' = active_orders
        /\ next_arrival_sequence' = next_arrival_sequence
    BY <1>3 DEF Rest
  <2> QED BY <1>1, <2>1, QuietInv
<1> QED BY <1>2, <1>3

\* A cancel finds the node the index points to.
LEMMA CancelEffect ==
    ASSUME IInv, NEW id, CancelActive(id)
    PROVE  /\ ~call.active /\ seen_order_ids' = seen_order_ids /\ next_trade_id' = next_trade_id
           /\ call' = call /\ tape' = tape /\ terminated' = terminated
           /\ \E side \in Side : \E p \in DOMAIN levels[side] : \E i \in 1..Len(Orders(side, p)) :
                 RemovesNode(side, p, i) /\ Orders(side, p)[i].id = id
<1> DEFINE side == active_orders[id].side
           price == active_orders[id].price
           level == levels[side][price]
           queue == Orders(side, price)
           Found == {i \in PositionsOf(level.orders, id) :
                        level.orders[i].remaining_quantity \in 1..level.total_quantity}
<1>1. /\ ~call.active /\ seen_order_ids' = seen_order_ids /\ next_trade_id' = next_trade_id
      /\ call' = call /\ tape' = tape /\ next_arrival_sequence' = next_arrival_sequence
      /\ id \in DOMAIN active_orders
  BY Zenon DEF CancelActive, Idle
<1>2. BookType /\ QueueInv /\ NodeInv /\ IndexInv
  BY DEF IInv
<1>3. side \in Side /\ price \in DOMAIN levels[side]
  BY <1>1, <1>2 DEF BookType, IsMap, OrderLocator, IndexInv
<1>4. PICK k \in 1..Len(queue) : queue[k].id = id
  BY <1>1, <1>2 DEF IndexInv
<1>5. queue \in Seq(RestingOrder) /\ queue[k] \in RestingOrder
      /\ level.total_quantity = QueueQuantity(queue) /\ level.orders = queue
  <2>1. level.total_quantity = QueueQuantity(queue) /\ level.orders = queue
    BY <1>2, <1>3 DEF QueueInv, Orders
  <2> HIDE DEF side, price
  <2> QED BY <1>2, <1>3, <1>4, <2>1, LevelType
<1>6. Settled(queue[k], side, price)
  BY <1>2, <1>3, <1>4 DEF NodeInv
<1>7. queue[k].remaining_quantity \in 1..level.total_quantity
  <2> HIDE DEF queue, level, side, price
  <2>1. /\ QueueQuantity(queue) = QueueQuantity(Erase(queue, k)) + queue[k].remaining_quantity
        /\ QueueQuantity(Erase(queue, k)) \in Nat
        /\ queue[k].remaining_quantity <= QueueQuantity(queue)
    BY <1>4, <1>5, QueueErase
  <2>2. queue[k].remaining_quantity \in Nat \ {0}
    BY <1>5, <1>6, ConstantsAssumption DEF Settled, RestingOrder, Word
  <2> QED BY <1>5, <2>1, <2>2
<1>8. k \in Found
  BY <1>4, <1>5, <1>7, ZenonT(30) DEF PositionsOf
<1>9. /\ terminated' = terminated
      /\ \E i \in Found :
            /\ LevelBecomes(side, price, Erase(queue, i),
                            level.total_quantity - queue[i].remaining_quantity)
            /\ active_orders' = Without(active_orders, id)
  <2>1. ~ (price \notin DOMAIN levels[side] \/ Found = {})
    BY <1>3, <1>8, Zenon
  <2>2. \E i \in Found :
           LET cancelled == level.orders[i].remaining_quantity
               left == Erase(level.orders, i)
           IN  /\ levels' = [levels EXCEPT ![side] =
                      IF left = <<>> THEN Without(@, price)
                      ELSE Put(@, price, [orders |-> left,
                                          total_quantity |-> level.total_quantity - cancelled])]
               /\ active_orders' = Without(active_orders, id)
               /\ result' = [status |-> "Cancelled", cancelled_quantity |-> cancelled]
               /\ UNCHANGED terminated
    BY <2>1, Zenon DEF CancelActive
  <2>3. PICK i \in Found :
           /\ levels' = [levels EXCEPT ![side] =
                  IF Erase(level.orders, i) = <<>> THEN Without(@, price)
                  ELSE Put(@, price, [orders |-> Erase(level.orders, i),
                       total_quantity |-> level.total_quantity - level.orders[i].remaining_quantity])]
           /\ active_orders' = Without(active_orders, id)
           /\ UNCHANGED terminated
    BY <2>2, Zenon
  <2>4. LevelBecomes(side, price, Erase(queue, i), level.total_quantity - queue[i].remaining_quantity)
    BY <1>5, <2>3, ZenonT(30) DEF LevelBecomes
  <2> QED BY <2>3, <2>4, Zenon
<1>10. PICK i \in Found :
          /\ LevelBecomes(side, price, Erase(queue, i),
                          level.total_quantity - queue[i].remaining_quantity)
          /\ active_orders' = Without(active_orders, id)
  BY <1>9, Zenon
<1>11. i \in 1..Len(queue) /\ queue[i].id = id
  BY <1>5, Zenon DEF PositionsOf
<1>12. RemovesNode(side, price, i)
  BY <1>1, <1>10, <1>11, Zenon DEF RemovesNode
<1> QED BY <1>1, <1>3, <1>9, <1>11, <1>12, Zenon

LEMMA CancelInv ==
    ASSUME IInv, NEW id, CancelActive(id)
    PROVE  IInv'
<1>1. /\ ~call.active /\ seen_order_ids' = seen_order_ids /\ next_trade_id' = next_trade_id
      /\ call' = call /\ tape' = tape /\ terminated' = terminated
  BY CancelEffect
<1>2. PICK side \in Side : \E p \in DOMAIN levels[side] : \E i \in 1..Len(Orders(side, p)) :
         RemovesNode(side, p, i) /\ Orders(side, p)[i].id = id
  BY CancelEffect
<1>3. PICK p \in DOMAIN levels[side] : \E i \in 1..Len(Orders(side, p)) :
         RemovesNode(side, p, i) /\ Orders(side, p)[i].id = id
  BY <1>2
<1>4. PICK i \in 1..Len(Orders(side, p)) : RemovesNode(side, p, i)
  BY <1>3
<1>5. /\ BookType /\ QueueInv /\ NodeInv /\ IndexInv /\ Uncrossed /\ OtherType /\ SeenInv
      /\ ConservedInv /\ CounterInv /\ CallType
  BY DEF IInv
<1>6. BookType' /\ QueueInv' /\ NodeInv' /\ IndexInv' /\ Uncrossed'
  BY <1>4, <1>5, RemoveInv
<1>7. /\ next_arrival_sequence' = next_arrival_sequence
      /\ DOMAIN active_orders' \subseteq DOMAIN active_orders
  BY <1>4 DEF RemovesNode, Without
<1>8. CallType' /\ OtherType' /\ CounterInv'
  BY <1>1, <1>5, <1>7, Zenon DEF CallType, OtherType, CounterInv
<1>9. SeenInv'
  BY <1>1, <1>5, <1>7, ZenonT(30) DEF SeenInv
<1>10. PlanInv' /\ RoomInv'
  BY <1>1 DEF PlanInv, RoomInv
<1>11. ConservedInv'
  <2> SUFFICES ASSUME NEW s \in Side, NEW q \in DOMAIN levels'[s], NEW j \in 1..Len(levels'[s][q].orders)
               PROVE  levels'[s][q].orders[j].original_quantity
                        = levels'[s][q].orders[j].remaining_quantity
                            + TradedIn(tape', levels'[s][q].orders[j].id)
    BY <1>1 DEF ConservedInv, Orders
  <2>1. /\ q \in DOMAIN levels[s] /\ j \in Nat
        /\ s = side /\ q = p =>
              /\ j < i => j \in 1..Len(Orders(s, q)) /\ levels'[s][q].orders[j] = Orders(s, q)[j]
              /\ j >= i => /\ j + 1 \in 1..Len(Orders(s, q))
                           /\ levels'[s][q].orders[j] = Orders(s, q)[j + 1]
        /\ ~ (s = side /\ q = p) => levels'[s][q] = levels[s][q]
    BY <1>4, <1>5, RemoveNodes
  <2>2. Len(Orders(side, p)) \in Nat
    BY <1>5, LevelType
  <2>3. \E k \in 1..Len(Orders(s, q)) : levels'[s][q].orders[j] = Orders(s, q)[k]
    <3>1. CASE s = side /\ q = p
      <4>1. i \in Nat
        BY <2>2
      <4> QED BY <2>1, <3>1, <4>1
    <3>2. CASE ~ (s = side /\ q = p)
      <4>1. levels'[s][q].orders = Orders(s, q)
        BY <2>1, <3>2 DEF Orders
      <4> QED BY <4>1
    <3> QED BY <3>1, <3>2, ZenonT(30)
  <2> QED BY <1>1, <1>5, <2>1, <2>3 DEF ConservedInv
<1> QED BY <1>6, <1>8, <1>9, <1>10, <1>11 DEF IInv

LEMMA InitInv ==
    ASSUME Init
    PROVE  IInv
<1>1. /\ MaxValue \in Nat \ {0} /\ FirstTradeId \in 1..MaxValue
  BY ConstantsAssumption
<1>2. \A side \in Side : DOMAIN levels[side] = {} /\ IsMap(levels[side], Prices, PriceLevel)
  BY DEF Init, IsMap
<1>3. DOMAIN active_orders = {} /\ IsMap(active_orders, OrderIds, OrderLocator)
  BY DEF Init, IsMap
<1>4. BookType
  BY <1>2, <1>3 DEF Init, BookType
<1>5. ~call.active /\ CallType
  BY DEF Init, NoCall, CallType
<1>6. tape = <<>> /\ tape \in Seq(Trade) /\ Len(tape) = 0
  <2>1. <<>> \in Seq(Trade)
    OBVIOUS
  <2> QED BY <2>1 DEF Init
<1>7. OtherType
  BY <1>1, <1>6 DEF Init, OtherType, Word
<1>8. QueueInv /\ NodeInv /\ ConservedInv
  BY <1>2, <1>5 DEF QueueInv, NodeInv, ConservedInv
<1>9. IndexInv
  BY <1>3 DEF IndexInv
<1>10. SeenInv
  BY <1>3, <1>5, <1>6 DEF SeenInv
<1>11. Uncrossed
  BY <1>2 DEF Uncrossed, Side
<1>12. PlanInv /\ RoomInv
  BY <1>5 DEF PlanInv, RoomInv
<1>13. CounterInv
  BY <1>1, <1>6 DEF Init, CounterInv
<1> QED BY <1>4, <1>5, <1>7, <1>8, <1>9, <1>10, <1>11, <1>12, <1>13 DEF IInv

LEMMA StepInv ==
    ASSUME IInv, [Next]_vars
    PROVE  IInv'
<1>1. ASSUME NEW order \in NewLimitOrder, Reject(order) PROVE IInv'
  BY <1>1, QuietInv DEF Reject
<1>2. ASSUME NEW order \in NewLimitOrder, Submit(order) PROVE IInv'
  BY <1>2, SubmitInv
<1>3. CASE MatchStep
  BY <1>3, MatchInv
<1>4. CASE Rest
  BY <1>4, RestInv
<1>5. CASE InsertThrows
  BY <1>5, QuietInv DEF InsertThrows
<1>6. ASSUME NEW id \in OrderIds \cup {ZeroId}, CancelActive(id) PROVE IInv'
  BY <1>6, CancelInv
<1>7. ASSUME NEW id \in OrderIds \cup {ZeroId}, CancelNotFound(id) PROVE IInv'
  BY <1>7, QuietInv DEF CancelNotFound
<1>8. CASE UNCHANGED vars
  BY <1>8, QuietInv DEF vars
<1> QED BY <1>1, <1>2, <1>3, <1>4, <1>5, <1>6, <1>7, <1>8 DEF Next

=============================================================================

--------------------------- MODULE OrderBookLemmas ---------------------------
(***************************************************************************)
(* What the proofs about src/src/order_book.cpp rest on: how units are     *)
(* counted, the inductive invariant, what a change of one level keeps of   *)
(* it, what preview_match counts and which orders the book has.            *)
(***************************************************************************)
EXTENDS OrderBook, FiniteSetTheorems, TLAPS

\* What a leaf may take, in seconds, unless it names a prover; on a busy machine
\* the first attempt may find no time to start.
USE SMTT(30), ZenonT(30), SMTT(40), SMTT(50)

-----------------------------------------------------------------------------
(* Counting units.  What a queue offers, what the crossing makers offer and   *)
(* what an order traded are each the number of units in a set of stacks.      *)

\* One unit for each member of M and each number up to its weight.
Stack(M, w) == UNION {{m} \X (1..w[m]) : m \in M}
Size(M, w) == Cardinality(Stack(M, w))

LEMMA StackMember ==
    ASSUME NEW M, NEW w, NEW u
    PROVE  u \in Stack(M, w) <=> \E m \in M : \E k \in 1..w[m] : u = <<m, k>>
<1>1. u \in Stack(M, w) <=> \E m \in M : u \in {m} \X (1..w[m])
  BY DEF Stack
<1> QED BY <1>1

\* Equal weights make equal stacks.
LEMMA StackAgree ==
    ASSUME NEW M, NEW w, NEW v, \A m \in M : w[m] = v[m]
    PROVE  Stack(M, w) = Stack(M, v)
<1>1. ASSUME NEW u PROVE u \in Stack(M, w) <=> u \in Stack(M, v)
  BY StackMember
<1> QED BY <1>1, Zenon

\* A finite number of bounded stacks is finite.
LEMMA StackFinite ==
    ASSUME NEW M, NEW w, NEW b \in Nat, IsFiniteSet(M), \A m \in M : w[m] \in 0..b
    PROVE  IsFiniteSet(Stack(M, w)) /\ Size(M, w) \in Nat
<1>1. Stack(M, w) \subseteq M \X (1..b)
  <2> SUFFICES ASSUME NEW u \in Stack(M, w) PROVE u \in M \X (1..b)
    OBVIOUS
  <2>1. PICK m \in M : \E k \in 1..w[m] : u = <<m, k>>
    BY StackMember
  <2>2. PICK k \in 1..w[m] : u = <<m, k>>
    BY <2>1
  <2>3. k \in 1..b
    BY <2>2
  <2> QED BY <2>2, <2>3
<1>2. IsFiniteSet(1..b)
  BY FS_Interval
<1>3. IsFiniteSet(M \X (1..b))
  BY <1>2, FS_Product
<1>4. IsFiniteSet(Stack(M, w))
  BY <1>1, <1>3, FS_Subset
<1> QED BY <1>4, FS_CardinalityType DEF Size

LEMMA SizeEmpty ==
    ASSUME NEW w
    PROVE  Size({}, w) = 0
<1>1. Stack({}, w) = {}
  BY DEF Stack
<1> QED BY <1>1, FS_EmptySet DEF Size

\* A new member adds its weight.
LEMMA SizeAdd ==
    ASSUME NEW M, NEW w, NEW b \in Nat, NEW x, IsFiniteSet(M), x \notin M,
           \A m \in M \cup {x} : w[m] \in 0..b
    PROVE  Size(M \cup {x}, w) = Size(M, w) + w[x]
<1> DEFINE own == {x} \X (1..w[x])
<1>1. IsFiniteSet({x}) /\ Cardinality({x}) = 1
  BY FS_Singleton, Zenon
<1>2. w[x] \in Nat
  OBVIOUS
<1>3. IsFiniteSet(1..w[x]) /\ Cardinality(1..w[x]) = w[x]
  <2> DEFINE n == w[x]
  <2>1. n \in Nat
    BY <1>2
  <2> HIDE DEF n
  <2>2. 1 \in Int /\ n \in Int /\ (1 > n => n = 0) /\ n - 1 + 1 = n
    BY <2>1
  <2>3. IsFiniteSet(1..n) /\ Cardinality(1..n) = n
    BY <2>2, FS_Interval
  <2> QED BY <2>3 DEF n
<1>4. IsFiniteSet(own) /\ Cardinality(own) = w[x]
  <2>1. IsFiniteSet(own) /\ Cardinality(own) = Cardinality({x}) * Cardinality(1..w[x])
    BY <1>1, <1>3, FS_Product
  <2> HIDE DEF own
  <2> QED BY <1>1, <1>2, <1>3, <2>1
<1>5. IsFiniteSet(Stack(M, w))
  BY StackFinite
<1>6. Stack(M \cup {x}, w) = Stack(M, w) \cup own
  <2>1. ASSUME NEW u PROVE u \in Stack(M \cup {x}, w) <=> u \in Stack(M, w) \cup own
    <3>1. u \in own <=> \E k \in 1..w[x] : u = <<x, k>>
      OBVIOUS
    <3> HIDE DEF own
    <3> QED BY <3>1, StackMember
  <2> HIDE DEF own
  <2> QED BY <2>1, Zenon
<1>7. Stack(M, w) \cap own = {}
  BY StackMember
<1> HIDE DEF own
<1>8. Cardinality(Stack(M, w)) \in Nat
  BY <1>5, FS_CardinalityType
<1>9. Cardinality(Stack(M, w) \cup own)
        = Cardinality(Stack(M, w)) + Cardinality(own) - Cardinality(Stack(M, w) \cap own)
  BY <1>4, <1>5, FS_Union
<1>10. Cardinality(Stack(M, w) \cap own) = 0
  BY <1>7, FS_EmptySet, Zenon
<1>11. Cardinality(Stack(M, w) \cup own) = Cardinality(Stack(M, w)) + w[x]
  BY <1>2, <1>4, <1>8, <1>9, <1>10
<1> QED BY <1>6, <1>11, Zenon DEF Size

\* Fewer members have no more units.
LEMMA SizeMonotone ==
    ASSUME NEW M, NEW w, NEW b \in Nat, NEW N \in SUBSET M, IsFiniteSet(M),
           \A m \in M : w[m] \in 0..b
    PROVE  Size(N, w) <= Size(M, w)
<1>1. IsFiniteSet(Stack(M, w))
  BY StackFinite
<1>2. Stack(N, w) \in SUBSET Stack(M, w)
  <2> SUFFICES ASSUME NEW u \in Stack(N, w) PROVE u \in Stack(M, w)
    OBVIOUS
  <2> QED BY StackMember
<1> QED BY <1>1, <1>2, FS_Subset DEF Size

\* A one-to-one renaming of the members that keeps the weights keeps the number
\* of units.
LEMMA SizeRename ==
    ASSUME NEW M, NEW N, NEW w, NEW v, NEW b \in Nat, NEW f \in Bijection(M, N),
           IsFiniteSet(M), \A m \in M : w[m] \in 0..b, \A m \in M : v[f[m]] = w[m]
    PROVE  Size(N, v) = Size(M, w)
<1>1. /\ \A m \in M : f[m] \in N
      /\ \A m, n \in M : f[m] = f[n] => m = n
      /\ \A n \in N : \E m \in M : f[m] = n
  BY DEF Bijection, Injection, Surjection, IsInjective
<1> DEFINE g == [u \in Stack(M, w) |-> <<f[u[1]], u[2]>>]
<1>2. ASSUME NEW u \in Stack(M, w)
      PROVE  /\ u = <<u[1], u[2]>> /\ u[1] \in M /\ u[2] \in 1..w[u[1]]
             /\ g[u] = <<f[u[1]], u[2]>>
  <2>1. PICK m \in M : \E k \in 1..w[m] : u = <<m, k>>
    BY StackMember
  <2>2. PICK k \in 1..w[m] : u = <<m, k>>
    BY <2>1
  <2> QED BY <2>1
<1>3. g \in [Stack(M, w) -> Stack(N, v)]
  <2>1. ASSUME NEW u \in Stack(M, w) PROVE <<f[u[1]], u[2]>> \in Stack(N, v)
    <3>1. f[u[1]] \in N /\ u[2] \in 1..v[f[u[1]]]
      BY <1>1, <1>2, Zenon
    <3> QED BY <3>1, StackMember, Zenon
  <2> QED BY <2>1
<1>4. ASSUME NEW t \in Stack(M, w), NEW u \in Stack(M, w), g[t] = g[u] PROVE t = u
  <2> HIDE DEF g
  <2>1. <<f[t[1]], t[2]>> = <<f[u[1]], u[2]>>
    BY <1>2, <1>4
  <2>2. f[t[1]] = f[u[1]] /\ t[2] = u[2]
    BY <2>1
  <2>3. t[1] = u[1]
    BY <1>1, <1>2, <2>2
  <2> QED BY <1>2, <2>2, <2>3
<1>5. ASSUME NEW z \in Stack(N, v) PROVE \E u \in Stack(M, w) : g[u] = z
  <2>1. PICK n \in N : \E k \in 1..v[n] : z = <<n, k>>
    BY StackMember
  <2>2. PICK k \in 1..v[n] : z = <<n, k>>
    BY <2>1
  <2>3. PICK m \in M : f[m] = n
    BY <1>1, <2>2
  <2>4. k \in 1..w[m]
    BY <2>2, <2>3
  <2>5. <<m, k>> \in Stack(M, w)
    BY <2>4, StackMember, Zenon
  <2>6. g[<<m, k>>] = <<f[m], k>>
    BY <2>5
  <2> QED BY <2>2, <2>3, <2>5, <2>6
<1> HIDE DEF g
<1>6. g \in Bijection(Stack(M, w), Stack(N, v))
  BY <1>3, <1>4, <1>5 DEF Bijection, Injection, Surjection, IsInjective
<1>7. ExistsBijection(Stack(M, w), Stack(N, v))
  BY <1>6 DEF ExistsBijection
<1>8. IsFiniteSet(Stack(M, w))
  BY StackFinite
<1> QED BY <1>7, <1>8, FS_Bijection DEF Size

-----------------------------------------------------------------------------
(* Queues.                                                                     *)

LEMMA ErasedNode ==
    ASSUME NEW S, NEW s \in Seq(S), NEW i \in 1..Len(s)
    PROVE  /\ Erase(s, i) \in Seq(S) /\ Len(Erase(s, i)) = Len(s) - 1
           /\ \A k \in 1..(Len(s) - 1) :
                 /\ k < i => Erase(s, i)[k] = s[k]
                 /\ k >= i => Erase(s, i)[k] = s[k + 1]
           /\ Erase(s, i) = <<>> <=> Len(s) = 1
<1>1. Len(s) \in Nat /\ Len(s) - 1 \in Nat
  OBVIOUS
<1>2. \A k \in 1..(Len(s) - 1) : (IF k < i THEN s[k] ELSE s[k + 1]) \in S
  <2> SUFFICES ASSUME NEW k \in 1..(Len(s) - 1)
               PROVE  (IF k < i THEN s[k] ELSE s[k + 1]) \in S
    OBVIOUS
  <2>1. k \in 1..Len(s) /\ k + 1 \in 1..Len(s)
    BY <1>1
  <2> QED BY <2>1
<1>3. Erase(s, i) \in Seq(S) /\ Len(Erase(s, i)) = Len(s) - 1
  <2> DEFINE n == Len(s) - 1
             Item(k) == IF k < i THEN s[k] ELSE s[k + 1]
  <2>1. n \in Nat /\ \A k \in 1..n : Item(k) \in S
    BY <1>1, <1>2
  <2>2. Erase(s, i) = [k \in 1..n |-> Item(k)]
    BY DEF Erase
  <2> HIDE DEF n, Item
  <2>3. [k \in 1..n |-> Item(k)] \in Seq(S) /\ Len([k \in 1..n |-> Item(k)]) = n
    BY <2>1
  <2> QED BY <2>2, <2>3 DEF n
<1>4. \A k \in 1..(Len(s) - 1) : Erase(s, i)[k] = IF k < i THEN s[k] ELSE s[k + 1]
  BY DEF Erase
<1>5. \A k \in 1..(Len(s) - 1) : /\ k < i => Erase(s, i)[k] = s[k]
                                 /\ k >= i => Erase(s, i)[k] = s[k + 1]
  BY <1>4
<1>6. Erase(s, i) = <<>> <=> Len(s) = 1
  <2> DEFINE t == Erase(s, i)
  <2>1. t \in Seq(S) /\ Len(t) = Len(s) - 1
    BY <1>3
  <2> HIDE DEF t
  <2>2. t = <<>> <=> Len(t) = 0
    BY <2>1
  <2>3. t = <<>> <=> Len(s) = 1
    BY <1>1, <2>1, <2>2
  <2> QED BY <2>3 DEF t
<1> QED BY <1>3, <1>5, <1>6

LEMMA TailErases ==
    ASSUME NEW S, NEW s \in Seq(S), s # <<>>
    PROVE  Tail(s) = Erase(s, 1) /\ 1 \in 1..Len(s) /\ Head(s) = s[1]
<1>1. Len(s) \in Nat \ {0}
  OBVIOUS
<1>2. Tail(s) \in Seq(S) /\ Len(Tail(s)) = Len(s) - 1
      /\ \A k \in 1..(Len(s) - 1) : Tail(s)[k] = s[k + 1]
  BY <1>1
<1>3. 1 \in 1..Len(s)
  BY <1>1
<1>4. /\ Erase(s, 1) \in Seq(S) /\ Len(Erase(s, 1)) = Len(s) - 1
      /\ \A k \in 1..(Len(s) - 1) : k >= 1 => Erase(s, 1)[k] = s[k + 1]
  BY <1>3, ErasedNode
<1>5. \A k \in 1..(Len(s) - 1) : Tail(s)[k] = Erase(s, 1)[k]
  BY <1>2, <1>4
<1> DEFINE t == Tail(s)
           e == Erase(s, 1)
<1>6. t \in Seq(S) /\ e \in Seq(S) /\ Len(t) = Len(e) /\ \A k \in 1..Len(t) : t[k] = e[k]
  BY <1>2, <1>4, <1>5
<1> HIDE DEF t, e
<1>7. t = e
  BY <1>6
<1> QED BY <1>3, <1>7 DEF t, e

\* Among finitely many elements that are pairwise one before the other, exactly
\* one has k elements before it, for every k below their number.
LEMMA Ranks ==
    ASSUME NEW D, NEW B, IsFiniteSet(D),
           \A p \in D : B[p] \in SUBSET D /\ p \notin B[p],
           \A p, q \in D : q \in B[p] => B[q] \subseteq B[p],
           \A p, q \in D : p = q \/ p \in B[q] \/ q \in B[p]
    PROVE  /\ Cardinality(D) \in Nat
           /\ \A p \in D : Cardinality(B[p]) \in 0..(Cardinality(D) - 1)
           /\ \A p, q \in D : q \in B[p] => Cardinality(B[q]) < Cardinality(B[p])
           /\ \A k \in 0..(Cardinality(D) - 1) : \E p \in D : Cardinality(B[p]) = k
<1> DEFINE n == Cardinality(D)
           r == [p \in D |-> Cardinality(B[p])]
<1>1. n \in Nat
  BY FS_CardinalityType
<1>2. ASSUME NEW S, NEW T, NEW x \in T, IsFiniteSet(T), S \subseteq T, x \notin S
      PROVE  /\ IsFiniteSet(S) /\ Cardinality(S) \in Nat /\ Cardinality(T) \in Nat
             /\ Cardinality(S) < Cardinality(T)
  <2>1. IsFiniteSet(S) /\ Cardinality(S) <= Cardinality(T) /\ Cardinality(S) # Cardinality(T)
    BY <1>2, FS_Subset
  <2>2. Cardinality(S) \in Nat /\ Cardinality(T) \in Nat
    BY <1>2, <2>1, FS_CardinalityType
  <2> QED BY <2>1, <2>2
<1>3. ASSUME NEW p \in D
      PROVE  IsFiniteSet(B[p]) /\ Cardinality(B[p]) \in Nat /\ Cardinality(B[p]) < n
  BY <1>2, Zenon
<1>4. ASSUME NEW p \in D, NEW q \in D, q \in B[p]
      PROVE  Cardinality(B[q]) < Cardinality(B[p])
  BY <1>2, <1>3, <1>4, Zenon
<1>5. \A p \in D : r[p] = Cardinality(B[p])
  OBVIOUS
<1>6. \A p \in D : r[p] \in 0..(n - 1)
  <2> HIDE DEF n, r
  <2> QED BY <1>1, <1>3, <1>5
<1>7. r \in [D -> 0..(n - 1)]
  BY <1>6
<1> HIDE DEF n, r
<1>8. ASSUME NEW p \in D, NEW q \in D, r[p] = r[q] PROVE p = q
  <2>1. Cardinality(B[p]) = Cardinality(B[q]) /\ Cardinality(B[p]) \in Nat
    BY <1>3, <1>5, <1>8, Zenon
  <2>2. p \in B[q] => Cardinality(B[p]) < Cardinality(B[q])
    BY <1>4, Zenon
  <2>3. q \in B[p] => Cardinality(B[q]) < Cardinality(B[p])
    BY <1>4, Zenon
  <2> QED BY <2>1, <2>2, <2>3
<1>9. r \in Injection(D, 0..(n - 1))
  BY <1>7, <1>8 DEF Injection, IsInjective
<1>10. IsFiniteSet(0..(n - 1)) /\ Cardinality(0..(n - 1)) = n
  <2>1. 0 \in Int /\ n - 1 \in Int
    BY <1>1
  <2> QED BY <1>1, <2>1, FS_Interval
<1>11. r \in Surjection(D, 0..(n - 1))
  BY <1>9, <1>10, FS_Injection DEF n
<1>12. \A k \in 0..(n - 1) : \E p \in D : r[p] = k
  BY <1>11 DEF Surjection
<1>13. \A p \in D : Cardinality(B[p]) \in 0..(n - 1)
  BY <1>1, <1>3
<1>14. \A k \in 0..(n - 1) : \E p \in D : Cardinality(B[p]) = k
  BY <1>5, <1>12, Zenon
<1> QED BY <1>1, <1>4, <1>13, <1>14, Zenon DEF n

\* The quantity of a queue is the number of units in its stacks.
Weights(orders) == [i \in 1..Len(orders) |-> orders[i].remaining_quantity]

LEMMA QueueAsSize ==
    ASSUME NEW orders
    PROVE  QueueQuantity(orders) = Size(1..Len(orders), Weights(orders))
<1>1. \A i \in 1..Len(orders) : Weights(orders)[i] = orders[i].remaining_quantity
  BY DEF Weights
<1>2. UNION {{i} \X (1..orders[i].remaining_quantity) : i \in 1..Len(orders)}
        = Stack(1..Len(orders), Weights(orders))
  BY <1>1 DEF Stack
<1> QED BY <1>2, Zenon DEF QueueQuantity, Size

\* A queue of nodes: what it offers is a number.
LEMMA QueueType ==
    ASSUME NEW orders \in Seq(RestingOrder)
    PROVE  /\ QueueQuantity(orders) \in Nat
           /\ IsFiniteSet(1..Len(orders)) /\ MaxValue \in Nat
           /\ \A i \in 1..Len(orders) :
                 /\ orders[i] \in RestingOrder
                 /\ orders[i].remaining_quantity \in 0..MaxValue
                 /\ Weights(orders)[i] = orders[i].remaining_quantity
<1>1. MaxValue \in Nat
  BY ConstantsAssumption
<1>2. IsFiniteSet(1..Len(orders))
  BY FS_Interval
<1>3. \A i \in 1..Len(orders) : orders[i] \in RestingOrder
  OBVIOUS
<1>4. \A i \in 1..Len(orders) : orders[i].remaining_quantity \in 0..MaxValue
  BY <1>3 DEF RestingOrder, Word
<1>5. \A i \in 1..Len(orders) : Weights(orders)[i] = orders[i].remaining_quantity
  BY DEF Weights
<1>6. \A i \in 1..Len(orders) : Weights(orders)[i] \in 0..MaxValue
  BY <1>4, <1>5
<1>7. Size(1..Len(orders), Weights(orders)) \in Nat
  BY <1>1, <1>2, <1>6, StackFinite, Zenon
<1> QED BY <1>1, <1>2, <1>3, <1>4, <1>5, <1>7, QueueAsSize

LEMMA QueueEmpty == QueueQuantity(<<>>) = 0
<1>1. 1..Len(<<>>) = {}
  OBVIOUS
<1>2. QueueQuantity(<<>>) = Size({}, Weights(<<>>))
  BY <1>1, QueueAsSize
<1> QED BY <1>2, SizeEmpty

\* Erasing a node takes what it offers.
LEMMA QueueErase ==
    ASSUME NEW orders \in Seq(RestingOrder), NEW i \in 1..Len(orders)
    PROVE  /\ QueueQuantity(orders)
                = QueueQuantity(Erase(orders, i)) + orders[i].remaining_quantity
           /\ QueueQuantity(Erase(orders, i)) \in Nat
           /\ orders[i].remaining_quantity <= QueueQuantity(orders)
<1> DEFINE n == Len(orders)
           w == Weights(orders)
           left == Erase(orders, i)
           v == Weights(left)
           M == (1..n) \ {i}
           f == [m \in M |-> IF m < i THEN m ELSE m - 1]
<1>1. n \in Nat /\ n - 1 \in Nat /\ i \in 1..n
  OBVIOUS
<1>2. /\ left \in Seq(RestingOrder) /\ Len(left) = n - 1
      /\ \A k \in 1..(n - 1) : /\ k < i => left[k] = orders[k]
                               /\ k >= i => left[k] = orders[k + 1]
  BY ErasedNode
<1>3. /\ MaxValue \in Nat /\ IsFiniteSet(1..n)
      /\ \A m \in 1..n : w[m] \in 0..MaxValue /\ w[m] = orders[m].remaining_quantity
  BY QueueType
<1>4. \A k \in 1..(n - 1) : v[k] = left[k].remaining_quantity
  BY <1>2, QueueType
<1>5. ASSUME NEW m \in M PROVE f[m] \in 1..(n - 1) /\ v[f[m]] = w[m]
  <2>1. CASE m < i
    <3>1. f[m] = m /\ m \in 1..(n - 1)
      BY <1>1, <2>1
    <3> HIDE DEF n, w, left, v, f
    <3> QED BY <1>2, <1>3, <1>4, <2>1, <3>1
  <2>2. CASE m > i
    <3>1. f[m] = m - 1 /\ m - 1 \in 1..(n - 1) /\ m - 1 >= i /\ m - 1 + 1 = m
      BY <1>1, <2>2
    <3> HIDE DEF n, w, left, v, f
    <3> QED BY <1>2, <1>3, <1>4, <2>2, <3>1
  <2> QED BY <1>1, <2>1, <2>2
<1>6. \A m, k \in M : f[m] = f[k] => m = k
  BY <1>1
<1>7. ASSUME NEW k \in 1..(n - 1) PROVE \E m \in M : f[m] = k
  <2>1. CASE k < i
    <3>1. k \in M /\ f[k] = k
      BY <1>1, <2>1
    <3> QED BY <3>1
  <2>2. CASE k >= i
    <3>1. k + 1 \in M /\ f[k + 1] = k
      BY <1>1, <2>2
    <3> QED BY <3>1
  <2> QED BY <1>1, <2>1, <2>2
<1>8. IsFiniteSet(M) /\ M \cup {i} = 1..n /\ i \notin M /\ M \subseteq 1..n
  <2>1. IsFiniteSet(M)
    BY <1>3, FS_RemoveElement
  <2> QED BY <1>1, <2>1
<1>9. \A m \in M : w[m] \in 0..MaxValue
  BY <1>3, <1>8
<1> HIDE DEF n, w, left, v, M, f
<1>10. Size(1..(n - 1), v) = Size(M, w)
  <2> DEFINE N == 1..(n - 1)
  <2>1. /\ \A m \in M : f[m] \in N /\ v[f[m]] = w[m]
        /\ \A k \in N : \E m \in M : f[m] = k
        /\ f = [m \in M |-> f[m]]
    BY <1>5, <1>7 DEF f
  <2> HIDE DEF N
  <2>2. f \in Bijection(M, N)
    BY <1>6, <2>1 DEF Bijection, Injection, Surjection, IsInjective
  <2>3. Size(N, v) = Size(M, w)
    BY <1>3, <1>8, <1>9, <2>1, <2>2, SizeRename
  <2> QED BY <2>3 DEF N
<1>11. Size(M \cup {i}, w) = Size(M, w) + w[i]
  BY <1>3, <1>8, SizeAdd
<1>12. QueueQuantity(left) = Size(1..(n - 1), v)
  BY <1>2, QueueAsSize DEF v
<1>13. QueueQuantity(orders) = Size(1..n, w)
  BY QueueAsSize DEF w, n
<1>14. QueueQuantity(left) \in Nat /\ w[i] = orders[i].remaining_quantity /\ w[i] \in Nat
  BY <1>1, <1>2, <1>3, QueueType
<1>15. QueueQuantity(orders) = QueueQuantity(left) + w[i]
  BY <1>8, <1>10, <1>11, <1>12, <1>13, Zenon
<1>16. w[i] <= QueueQuantity(orders)
  BY <1>14, <1>15
<1> QED BY <1>14, <1>15, <1>16 DEF left

\* A node at the back adds what it offers.
LEMMA QueueAppend ==
    ASSUME NEW orders \in Seq(RestingOrder), NEW node \in RestingOrder
    PROVE  QueueQuantity(Append(orders, node)) = QueueQuantity(orders) + node.remaining_quantity
<1> DEFINE n == Len(orders)
           more == Append(orders, node)
           w == Weights(orders)
           v == Weights(more)
<1>1. n \in Nat /\ n + 1 \in Nat /\ 1..(n + 1) = (1..n) \cup {n + 1} /\ n + 1 \notin 1..n
  OBVIOUS
<1>2. /\ more \in Seq(RestingOrder) /\ Len(more) = n + 1 /\ more[n + 1] = node
      /\ \A k \in 1..n : more[k] = orders[k]
  OBVIOUS
<1>3. /\ MaxValue \in Nat /\ IsFiniteSet(1..n)
      /\ \A m \in 1..n : w[m] \in 0..MaxValue /\ w[m] = orders[m].remaining_quantity
  BY QueueType
<1>4. /\ v[n + 1] = node.remaining_quantity
      /\ \A m \in 1..(n + 1) : v[m] \in 0..MaxValue /\ v[m] = more[m].remaining_quantity
  <2> HIDE DEF n, more, v
  <2>1. \A m \in 1..Len(more) : /\ Weights(more)[m] = more[m].remaining_quantity
                                /\ more[m].remaining_quantity \in 0..MaxValue
    BY <1>2, QueueType
  <2>2. n + 1 \in 1..(n + 1)
    BY <1>1
  <2> QED BY <1>2, <2>1, <2>2 DEF v
<1>5. QueueQuantity(more) = Size(1..(n + 1), v)
  <2> HIDE DEF n, more
  <2> QED BY <1>2, QueueAsSize DEF v
<1>6. QueueQuantity(orders) = Size(1..n, w)
  BY QueueAsSize
<1>7. Size(1..n, v) = Size(1..n, w)
  <2>1. \A m \in 1..n : v[m] = w[m]
    <3> HIDE DEF n, more, v, w
    <3> QED BY <1>1, <1>2, <1>3, <1>4
  <2> HIDE DEF n, more, v, w
  <2> QED BY <2>1, StackAgree, Zenon DEF Size
<1>8. Size((1..n) \cup {n + 1}, v) = Size(1..n, v) + v[n + 1]
  <2> DEFINE A == 1..n
             x == n + 1
  <2>1. IsFiniteSet(A) /\ x \notin A /\ \A m \in A \cup {x} : v[m] \in 0..MaxValue
    BY <1>1, <1>3, <1>4
  <2> HIDE DEF A, x, n, v, w, more
  <2>2. Size(A \cup {x}, v) = Size(A, v) + v[x]
    BY <1>3, <2>1, SizeAdd
  <2> QED BY <2>2 DEF A, x
<1> HIDE DEF n, v, w, more
<1>9. QueueQuantity(more) = QueueQuantity(orders) + node.remaining_quantity
  BY <1>1, <1>4, <1>5, <1>6, <1>7, <1>8, Zenon
<1> QED BY <1>9 DEF more

\* Changing what the first node offers changes the quantity by as much.
LEMMA QueueHead ==
    ASSUME NEW orders \in Seq(RestingOrder), NEW other \in Seq(RestingOrder),
           orders # <<>>, Len(other) = Len(orders),
           \A k \in 2..Len(orders) : other[k] = orders[k]
    PROVE  QueueQuantity(other) + orders[1].remaining_quantity
             = QueueQuantity(orders) + other[1].remaining_quantity
<1>1. Len(orders) \in Nat \ {0} /\ 1 \in 1..Len(orders) /\ 1 \in 1..Len(other)
  OBVIOUS
<1>2. Erase(other, 1) = Erase(orders, 1)
  <2>1. \A k \in 1..(Len(orders) - 1) : other[k + 1] = orders[k + 1]
    BY <1>1
  <2> QED BY <1>1, <2>1 DEF Erase
<1> DEFINE rest == QueueQuantity(Erase(orders, 1))
<1>3. QueueQuantity(orders) = rest + orders[1].remaining_quantity /\ rest \in Nat
  BY <1>1, QueueErase
<1>4. QueueQuantity(other) = rest + other[1].remaining_quantity
  BY <1>1, <1>2, QueueErase
<1>5. orders[1].remaining_quantity \in Int /\ other[1].remaining_quantity \in Int
  BY <1>1, QueueType
<1> HIDE DEF rest
<1> QED BY <1>3, <1>4, <1>5

-----------------------------------------------------------------------------
(* The plan.  B[m] is the set of members visited before m; a member is traded  *)
(* with when what those offer does not fill the quantity q.                    *)

Visited(M, w, B, q) == {m \in M : Size(B[m], w) < q}
Count(M, w, B, q) == Cardinality(Visited(M, w, B, q))

LEMMA CountType ==
    ASSUME NEW M, NEW w, NEW B, NEW q, IsFiniteSet(M)
    PROVE  IsFiniteSet(Visited(M, w, B, q)) /\ Count(M, w, B, q) \in Nat
<1>1. Visited(M, w, B, q) \in SUBSET M
  BY DEF Visited
<1>2. IsFiniteSet(Visited(M, w, B, q))
  BY <1>1, FS_Subset
<1> QED BY <1>2, FS_CardinalityType DEF Count

\* An order of no quantity is not matched.
LEMMA CountZero ==
    ASSUME NEW M, NEW w, NEW b \in Nat, NEW B, IsFiniteSet(M),
           \A m \in M : w[m] \in 0..b, \A m \in M : B[m] \subseteq M
    PROVE  Count(M, w, B, 0) = 0
<1>1. ASSUME NEW m \in M PROVE ~ (Size(B[m], w) < 0)
  <2>1. IsFiniteSet(B[m]) /\ \A n \in B[m] : w[n] \in 0..b
    BY FS_Subset
  <2>2. Size(B[m], w) \in Nat
    BY <2>1, StackFinite, Zenon
  <2> QED BY <2>2
<1>2. Visited(M, w, B, 0) = {}
  BY <1>1 DEF Visited
<1> QED BY <1>2, FS_EmptySet DEF Count

\* The first member is traded with; when it offers more than the quantity, it is
\* the only one.
LEMMA CountOne ==
    ASSUME NEW M, NEW w, NEW b \in Nat, NEW B, NEW h \in M, NEW q \in Nat,
           IsFiniteSet(M), \A m \in M : w[m] \in 0..b, \A m \in M : B[m] \subseteq M,
           B[h] = {}, \A m \in M \ {h} : h \in B[m], 0 < q, q <= w[h]
    PROVE  Count(M, w, B, q) = 1
<1>1. Size(B[h], w) = 0
  BY SizeEmpty
<1>2. ASSUME NEW m \in M \ {h} PROVE ~ (Size(B[m], w) < q)
  <2>1. IsFiniteSet(B[m]) /\ \A n \in B[m] : w[n] \in 0..b
    BY FS_Subset
  <2>2. {h} \in SUBSET B[m]
    OBVIOUS
  <2>3. Size({h}, w) <= Size(B[m], w) /\ Size(B[m], w) \in Nat
    BY <2>1, <2>2, SizeMonotone, StackFinite, Zenon
  <2>4. Size({} \cup {h}, w) = Size({}, w) + w[h]
    <3> DEFINE none == {}
    <3>1. IsFiniteSet(none) /\ h \notin none /\ \A n \in none \cup {h} : w[n] \in 0..b
      BY FS_EmptySet
    <3> HIDE DEF none
    <3>2. Size(none \cup {h}, w) = Size(none, w) + w[h]
      BY <3>1, SizeAdd
    <3> QED BY <3>2 DEF none
  <2>5. Size({h}, w) = w[h]
    <3>1. {} \cup {h} = {h} /\ w[h] \in Nat
      OBVIOUS
    <3> QED BY <2>4, <3>1, SizeEmpty
  <2> QED BY <2>3, <2>5
<1>3. Visited(M, w, B, q) = {h}
  BY <1>1, <1>2 DEF Visited
<1> QED BY <1>3, FS_Singleton, Zenon DEF Count

\* Once the first member is filled, the rest of the quantity meets the others.
Peeled(M, w, B, h, C, q) ==
    /\ Count(M, w, B, q) = 1 + Count(M \ {h}, w, C, q - w[h])
    /\ Size(M, w) = Size(M \ {h}, w) + w[h]

LEMMA CountRemove ==
    ASSUME NEW M, NEW w, NEW b \in Nat, NEW B, NEW h \in M, NEW q \in Nat, NEW C,
           IsFiniteSet(M), \A m \in M : w[m] \in 0..b, \A m \in M : B[m] \subseteq M,
           B[h] = {}, \A m \in M \ {h} : h \in B[m] /\ C[m] = B[m] \ {h}, 0 < q, w[h] <= q
    PROVE  Peeled(M, w, B, h, C, q)
<1> DEFINE N == M \ {h}
           rest == Visited(N, w, C, q - w[h])
<1>1. IsFiniteSet(N) /\ h \notin N /\ N \cup {h} = M /\ w[h] \in Nat
  BY FS_RemoveElement
<1>2. Size(B[h], w) = 0
  BY SizeEmpty
<1>3. ASSUME NEW m \in N PROVE Size(B[m], w) < q <=> Size(C[m], w) < q - w[h]
  <2>1. IsFiniteSet(B[m]) /\ \A n \in B[m] : w[n] \in 0..b
    BY FS_Subset
  <2>2. /\ IsFiniteSet(C[m]) /\ h \notin C[m] /\ C[m] \cup {h} = B[m]
        /\ \A n \in C[m] : w[n] \in 0..b
    BY <2>1, FS_RemoveElement
  <2>3. Size(C[m] \cup {h}, w) = Size(C[m], w) + w[h]
    BY <2>2, SizeAdd
  <2>4. Size(C[m], w) \in Nat
    BY <2>2, StackFinite, Zenon
  <2>5. Size(B[m], w) = Size(C[m], w) + w[h]
    BY <2>2, <2>3, Zenon
  <2> QED BY <1>1, <2>4, <2>5
<1>4. Visited(M, w, B, q) = rest \cup {h} /\ h \notin rest
  BY <1>1, <1>2, <1>3, Zenon DEF Visited
<1>5. IsFiniteSet(rest) /\ Cardinality(rest) \in Nat
  BY <1>1, CountType DEF Count
<1>6. Cardinality(rest \cup {h}) = Cardinality(rest) + 1
  <2> HIDE DEF rest
  <2> QED BY <1>4, <1>5, FS_AddElement, Zenon
<1>7. Count(M, w, B, q) = 1 + Count(N, w, C, q - w[h])
  <2>1. Count(M, w, B, q) = Cardinality(rest \cup {h})
    BY <1>4 DEF Count
  <2>2. Count(N, w, C, q - w[h]) = Cardinality(rest)
    BY DEF Count
  <2> HIDE DEF rest, N
  <2> QED BY <1>5, <1>6, <2>1, <2>2
<1>8. Size(N \cup {h}, w) = Size(N, w) + w[h]
  <2> HIDE DEF N
  <2>1. \A m \in N \cup {h} : w[m] \in 0..b
    BY <1>1
  <2> QED BY <1>1, <2>1, SizeAdd
<1> QED BY <1>1, <1>7, <1>8, Zenon DEF Peeled

\* A renaming of the members that keeps the weights and the order.
LEMMA CountRename ==
    ASSUME NEW M, NEW N, NEW w, NEW v, NEW b \in Nat, NEW B, NEW C, NEW q,
           NEW f \in Bijection(M, N), IsFiniteSet(M), \A m \in M : w[m] \in 0..b,
           \A m \in M : v[f[m]] = w[m] /\ B[m] \subseteq M /\ C[f[m]] \subseteq N,
           \A m, k \in M : k \in B[m] <=> f[k] \in C[f[m]]
    PROVE  Count(N, v, C, q) = Count(M, w, B, q)
<1>1. /\ f \in [M -> N] /\ \A m \in M : f[m] \in N
      /\ \A m, n \in M : f[m] = f[n] => m = n
      /\ \A n \in N : \E m \in M : f[m] = n
  BY DEF Bijection, Injection, Surjection, IsInjective
<1>2. ASSUME NEW m \in M PROVE Size(C[f[m]], v) = Size(B[m], w)
  <2> DEFINE P == B[m]
             Q == C[f[m]]
             g == [k \in P |-> f[k]]
  <2>1. P \subseteq M /\ Q \subseteq N /\ \A k \in M : k \in P <=> f[k] \in Q
    OBVIOUS
  <2> HIDE DEF P, Q
  <2>2. g \in [P -> Q] /\ \A k \in P : g[k] = f[k]
    BY <2>1
  <2>3. \A n \in Q : \E k \in P : g[k] = n
    BY <1>1, <2>1, <2>2
  <2>4. \A k, n \in P : g[k] = g[n] => k = n
    BY <1>1, <2>1, <2>2
  <2>5. \A k \in P : w[k] \in 0..b /\ v[g[k]] = w[k]
    BY <2>1, <2>2
  <2> HIDE DEF g
  <2>6. g \in Bijection(P, Q)
    BY <2>2, <2>3, <2>4 DEF Bijection, Injection, Surjection, IsInjective
  <2>7. IsFiniteSet(P)
    BY <2>1, FS_Subset
  <2>8. Size(Q, v) = Size(P, w)
    BY <2>5, <2>6, <2>7, SizeRename
  <2> QED BY <2>8 DEF P, Q
<1> DEFINE X == Visited(M, w, B, q)
           Y == Visited(N, v, C, q)
           g == [m \in X |-> f[m]]
<1>3. X \subseteq M /\ Y \subseteq N /\ \A m \in M : m \in X <=> f[m] \in Y
  BY <1>1, <1>2 DEF Visited
<1>4. IsFiniteSet(X)
  BY CountType
<1> HIDE DEF X, Y
<1>5. g \in [X -> Y] /\ \A m \in X : g[m] = f[m]
  BY <1>3
<1>6. \A n \in Y : \E m \in X : g[m] = n
  BY <1>1, <1>3, <1>5
<1>7. \A k, m \in X : g[k] = g[m] => k = m
  BY <1>1, <1>3, <1>5
<1> HIDE DEF g
<1>8. g \in Bijection(X, Y)
  BY <1>5, <1>6, <1>7 DEF Bijection, Injection, Surjection, IsInjective
<1>9. ExistsBijection(X, Y)
  BY <1>8 DEF ExistsBijection
<1>10. Cardinality(Y) = Cardinality(X)
  BY <1>4, <1>9, FS_Bijection
<1> QED BY <1>10 DEF X, Y, Count

-----------------------------------------------------------------------------
(* What an order traded, on any tape.                                          *)

Involves(t, id) == id \in {t.maker_order_id, t.taker_order_id}
TradesOf(s, id) == {j \in 1..Len(s) : Involves(s[j], id)}
Executed(s) == [j \in 1..Len(s) |-> s[j].execution_quantity]
TradedIn(s, id) == Size(TradesOf(s, id), Executed(s))

LEMMA TradedAs ==
    ASSUME NEW id
    PROVE  Traded(id) = TradedIn(tape, id)
<1> DEFINE M == {j \in 1..Len(tape) : id \in {tape[j].maker_order_id, tape[j].taker_order_id}}
<1>1. M = TradesOf(tape, id)
  BY DEF TradesOf, Involves
<1>2. \A k \in M : tape[k].execution_quantity = Executed(tape)[k]
  BY DEF Executed
<1>3. Traded(id) = Cardinality(UNION {{k} \X (1..tape[k].execution_quantity) : k \in M})
  BY DEF Traded
<1> HIDE DEF M
<1>4. UNION {{k} \X (1..tape[k].execution_quantity) : k \in M} = Stack(M, Executed(tape))
  BY <1>2 DEF Stack
<1> QED BY <1>1, <1>3, <1>4 DEF TradedIn, Size

LEMMA TradesFinite ==
    ASSUME NEW s \in Seq(Trade), NEW id
    PROVE  /\ MaxValue \in Nat /\ Len(s) \in Nat /\ IsFiniteSet(TradesOf(s, id))
           /\ \A j \in 1..Len(s) : s[j] \in Trade /\ Executed(s)[j] \in 0..MaxValue
           /\ \A j \in TradesOf(s, id) : Executed(s)[j] \in 0..MaxValue
           /\ TradedIn(s, id) \in Nat
<1>1. MaxValue \in Nat /\ Len(s) \in Nat
  BY ConstantsAssumption
<1>2. IsFiniteSet(1..Len(s)) /\ TradesOf(s, id) \in SUBSET (1..Len(s))
  BY <1>1, FS_Interval DEF TradesOf
<1>3. IsFiniteSet(TradesOf(s, id))
  BY <1>2, FS_Subset
<1>4. ASSUME NEW j \in 1..Len(s) PROVE s[j] \in Trade /\ Executed(s)[j] \in 0..MaxValue
  <2>1. s[j] \in Trade
    OBVIOUS
  <2>2. s[j].execution_quantity \in 0..MaxValue
    BY <2>1 DEF Trade, Word
  <2> QED BY <2>1, <2>2 DEF Executed
<1>5. \A j \in TradesOf(s, id) : Executed(s)[j] \in 0..MaxValue
  BY <1>2, <1>4
<1>6. TradedIn(s, id) \in Nat
  BY <1>1, <1>3, <1>5, StackFinite, Zenon DEF TradedIn
<1> QED BY <1>1, <1>3, <1>4, <1>5, <1>6

\* A trade adds its quantity to what its two orders traded, and to no other.
LEMMA TradedAppend ==
    ASSUME NEW s \in Seq(Trade), NEW t \in Trade, NEW id
    PROVE  /\ Involves(t, id) => TradedIn(Append(s, t), id) = TradedIn(s, id) + t.execution_quantity
           /\ ~Involves(t, id) => TradedIn(Append(s, t), id) = TradedIn(s, id)
<1> DEFINE r == Append(s, t)
           M == TradesOf(s, id)
           w == Executed(r)
           n == Len(s) + 1
<1>1. /\ r \in Seq(Trade) /\ Len(r) = n /\ r[n] = t /\ Len(s) \in Nat
      /\ \A j \in 1..Len(s) : r[j] = s[j]
  OBVIOUS
<1>2. n \in 1..n /\ 1..n = (1..Len(s)) \cup {n} /\ n \notin 1..Len(s)
  BY <1>1
<1> HIDE DEF n, r
<1>3. M \subseteq 1..Len(s) /\ n \notin M /\ IsFiniteSet(M) /\ MaxValue \in Nat
  BY <1>2, TradesFinite, Zenon DEF TradesOf
<1>4. \A j \in 1..n : w[j] \in 0..MaxValue
  BY <1>1, TradesFinite
<1>5. w[n] = t.execution_quantity /\ \A j \in M : w[j] = Executed(s)[j]
  BY <1>1, <1>2, <1>3 DEF Executed
<1>6. TradesOf(r, id) = IF Involves(t, id) THEN M \cup {n} ELSE M
  BY <1>1, <1>2 DEF TradesOf
<1>7. Stack(M, w) = Stack(M, Executed(s))
  BY <1>5, StackAgree
<1>8. TradedIn(s, id) = Size(M, w)
  BY <1>7 DEF TradedIn, Size
<1>9. TradedIn(r, id) = Size(TradesOf(r, id), w)
  BY DEF TradedIn
<1>10. Size(M \cup {n}, w) = Size(M, w) + w[n]
  <2>1. \A j \in M \cup {n} : w[j] \in 0..MaxValue
    BY <1>2, <1>3, <1>4
  <2> HIDE DEF M, w
  <2> QED BY <1>3, <2>1, SizeAdd, Zenon
<1> HIDE DEF M, w
<1> QED BY <1>5, <1>6, <1>8, <1>9, <1>10 DEF r

\* An order that is not on the tape traded nothing.
LEMMA TradedNothing ==
    ASSUME NEW s \in Seq(Trade), NEW id, \A j \in 1..Len(s) : ~Involves(s[j], id)
    PROVE  TradedIn(s, id) = 0
<1>1. TradesOf(s, id) = {}
  BY DEF TradesOf
<1> QED BY <1>1, SizeEmpty DEF TradedIn

-----------------------------------------------------------------------------
(* The inductive invariant.                                                    *)

Orders(side, p) == levels[side][p].orders

BookType ==
    /\ levels = [side \in Side |-> levels[side]]
    /\ \A side \in Side : IsMap(levels[side], Prices, PriceLevel)
    /\ IsMap(active_orders, OrderIds, OrderLocator)

CallType ==
    \/ call = NoCall
    \/ call \in [active: {TRUE}, order: NewLimitOrder, remaining_quantity: Word,
                 trade_count: Nat, plan: [remaining_quantity: Word, trade_count: Nat]]

OtherType ==
    /\ seen_order_ids \subseteq OrderIds
    /\ next_arrival_sequence \in Word
    /\ next_trade_id \in Word
    /\ terminated = FALSE
    /\ tape \in Seq(Trade)

\* A level has an order, its total is the sum over its queue, and the queue is in
\* the order of arrival.
QueueInv ==
    \A side \in Side : \A p \in DOMAIN levels[side] :
        /\ Orders(side, p) # <<>>
        /\ levels[side][p].total_quantity = QueueQuantity(Orders(side, p))
        /\ \A i, j \in 1..Len(Orders(side, p)) : i < j =>
              /\ Orders(side, p)[i].arrival_sequence < Orders(side, p)[j].arrival_sequence
              /\ Orders(side, p)[i].id # Orders(side, p)[j].id

\* A node is where its order belongs, arrived before the next order will, and is
\* the one the index points to.
Settled(order, side, p) ==
    /\ order.side = side /\ order.limit_price = p
    /\ order.remaining_quantity \in 1..order.original_quantity
    /\ order.arrival_sequence # 0
    /\ next_arrival_sequence # 0 => order.arrival_sequence < next_arrival_sequence
    /\ order.id \in DOMAIN active_orders
    /\ active_orders[order.id] = [side |-> side, price |-> p]
NodeInv ==
    \A side \in Side : \A p \in DOMAIN levels[side] : \A i \in 1..Len(Orders(side, p)) :
        Settled(Orders(side, p)[i], side, p)

\* The index points to nodes only.
IndexInv ==
    \A id \in DOMAIN active_orders :
        /\ active_orders[id].price \in DOMAIN levels[active_orders[id].side]
        /\ \E i \in 1..Len(Orders(active_orders[id].side, active_orders[id].price)) :
              Orders(active_orders[id].side, active_orders[id].price)[i].id = id

\* Whoever rested or traded was accepted before; the order of the call in
\* progress is valid, and new to the index.
SeenInv ==
    /\ DOMAIN active_orders \subseteq seen_order_ids
    /\ \A k \in 1..Len(tape) : {tape[k].maker_order_id, tape[k].taker_order_id} \subseteq seen_order_ids
    /\ call.active =>
          /\ call.order.id \in seen_order_ids \ DOMAIN active_orders
          /\ call.order.side \in Side /\ call.order.limit_price \in Prices
          /\ call.order.quantity \in Quantities

\* What every order has open and has traded is what it was submitted with.
ConservedInv ==
    /\ \A side \in Side : \A p \in DOMAIN levels[side] : \A i \in 1..Len(Orders(side, p)) :
          Orders(side, p)[i].original_quantity
            = Orders(side, p)[i].remaining_quantity + TradedIn(tape, Orders(side, p)[i].id)
    /\ call.active =>
          call.order.quantity = call.remaining_quantity + TradedIn(tape, call.order.id)

\* In every iteration of match, a preview of what is left agrees with the plan,
\* and there are trade ids for it.
PlanInv ==
    call.active =>
        \A side \in {call.order.side}, limit \in {call.order.limit_price},
           q \in {call.remaining_quantity} :
              LET now == preview_match(side, limit, q)
              IN  /\ call.plan.remaining_quantity = now.remaining_quantity
                  /\ call.plan.trade_count = call.trade_count + now.trade_count
                  /\ can_issue_trade_ids(now.trade_count)

\* The checks of submit still hold when the remainder comes to rest: match only
\* changes the opposite side.
RoomInv ==
    call.active /\ call.plan.remaining_quantity > 0 =>
        /\ next_arrival_sequence # 0
        /\ call.order.limit_price \in DOMAIN levels[call.order.side] =>
              levels[call.order.side][call.order.limit_price].total_quantity
                <= MaxValue - call.plan.remaining_quantity

\* The next trade id is the number of trades after the first, or 0 when the last
\* one was issued.
CounterInv ==
    /\ next_trade_id = IF FirstTradeId + Len(tape) <= MaxValue THEN FirstTradeId + Len(tape) ELSE 0
    /\ FirstTradeId + Len(tape) <= MaxValue + 1
    /\ \A k \in 1..Len(tape) : tape[k].id = FirstTradeId + k - 1

IInv ==
    /\ BookType /\ CallType /\ OtherType /\ QueueInv /\ NodeInv /\ IndexInv /\ SeenInv
    /\ ConservedInv /\ Uncrossed /\ PlanInv /\ RoomInv /\ CounterInv

-----------------------------------------------------------------------------
(* Changes of one level.                                                       *)

LEMMA LevelType ==
    ASSUME BookType, NEW side \in Side, NEW p \in DOMAIN levels[side]
    PROVE  /\ p \in Prices /\ Orders(side, p) \in Seq(RestingOrder)
           /\ levels[side][p].total_quantity \in Word
           /\ Len(Orders(side, p)) \in Nat
           /\ \A i \in 1..Len(Orders(side, p)) : Orders(side, p)[i] \in RestingOrder
<1>1. IsMap(levels[side], Prices, PriceLevel)
  BY DEF BookType
<1>2. p \in Prices /\ levels[side][p] \in PriceLevel
  BY <1>1 DEF IsMap
<1>3. Orders(side, p) \in Seq(RestingOrder) /\ levels[side][p].total_quantity \in Word
  BY <1>2 DEF PriceLevel, Orders
<1> HIDE DEF Orders
<1>4. /\ Len(Orders(side, p)) \in Nat
      /\ \A i \in 1..Len(Orders(side, p)) : Orders(side, p)[i] \in RestingOrder
  BY <1>3
<1> QED BY <1>2, <1>3, <1>4

\* The queue of level p becomes left; an empty level leaves the map.
LevelBecomes(side, p, left, total) ==
    levels' = [levels EXCEPT ![side] =
                  IF left = <<>> THEN Without(@, p)
                  ELSE Put(@, p, [orders |-> left, total_quantity |-> total])]

LevelIs(side, p, left, total) ==
    /\ levels' = [s \in Side |-> levels'[s]]
    /\ \A s \in Side : IsMap(levels'[s], Prices, PriceLevel)
    /\ \A s \in Side : s # side => levels'[s] = levels[s]
    /\ \A q \in DOMAIN levels[side] : q # p =>
          q \in DOMAIN levels'[side] /\ levels'[side][q] = levels[side][q]
    /\ \A q \in DOMAIN levels'[side] : q # p => q \in DOMAIN levels[side]
    /\ p \in DOMAIN levels'[side] <=> left # <<>>
    /\ p \in DOMAIN levels'[side] =>
          levels'[side][p].orders = left /\ levels'[side][p].total_quantity = total

LEMMA LevelEffect ==
    ASSUME BookType, NEW side \in Side, NEW p \in Prices, NEW left \in Seq(RestingOrder),
           NEW total \in Word, LevelBecomes(side, p, left, total)
    PROVE  LevelIs(side, p, left, total)
<1> DEFINE old == levels[side]
           new == levels'[side]
           entry == [orders |-> left, total_quantity |-> total]
<1>1. /\ levels = [s \in Side |-> levels[s]]
      /\ DOMAIN old \subseteq Prices /\ old = [q \in DOMAIN old |-> old[q]]
      /\ \A q \in DOMAIN old : old[q] \in PriceLevel
  BY DEF BookType, IsMap
<1>2. /\ new = IF left = <<>> THEN Without(old, p) ELSE Put(old, p, entry)
      /\ levels' = [s \in Side |-> levels'[s]]
      /\ \A s \in Side : s # side => levels'[s] = levels[s]
  BY <1>1 DEF LevelBecomes
<1>3. entry \in PriceLevel
  BY DEF PriceLevel
<1>4. entry.orders = left /\ entry.total_quantity = total
  OBVIOUS
<1> HIDE DEF old, new, entry
<1>5. CASE left = <<>>
  <2>1. /\ new = [q \in DOMAIN old \ {p} |-> old[q]]
    BY <1>2, <1>5 DEF Without
  <2>2. /\ DOMAIN new = DOMAIN old \ {p} /\ IsMap(new, Prices, PriceLevel)
        /\ \A q \in DOMAIN new : q # p => q \in DOMAIN old /\ new[q] = old[q]
    BY <1>1, <2>1 DEF IsMap
  <2>3. \A s \in Side : IsMap(levels'[s], Prices, PriceLevel)
    BY <1>2, <2>2 DEF BookType, new
  <2> QED BY <1>2, <1>5, <2>2, <2>3 DEF old, new, LevelIs
<1>6. CASE left # <<>>
  <2>1. new = [q \in DOMAIN old \cup {p} |-> IF q = p THEN entry ELSE old[q]]
    BY <1>2, <1>6 DEF Put
  <2>2. /\ DOMAIN new = DOMAIN old \cup {p} /\ new[p] = entry
        /\ \A q \in DOMAIN new : q # p => q \in DOMAIN old /\ new[q] = old[q]
    BY <2>1
  <2>3. IsMap(new, Prices, PriceLevel)
    BY <1>1, <1>3, <2>1 DEF IsMap
  <2>4. \A s \in Side : IsMap(levels'[s], Prices, PriceLevel)
    BY <1>2, <2>3 DEF BookType, new
  <2> QED BY <1>2, <1>4, <1>6, <2>2, <2>4 DEF old, new, LevelIs
<1> QED BY <1>5, <1>6

\* Two nodes of the book have different identifiers.
LEMMA NodesDiffer ==
    ASSUME BookType, QueueInv, NodeInv,
           NEW s \in Side, NEW q \in DOMAIN levels[s], NEW j \in 1..Len(Orders(s, q)),
           NEW t \in Side, NEW r \in DOMAIN levels[t], NEW k \in 1..Len(Orders(t, r)),
           Orders(s, q)[j].id = Orders(t, r)[k].id
    PROVE  s = t /\ q = r /\ j = k
<1>1. /\ active_orders[Orders(s, q)[j].id] = [side |-> s, price |-> q]
      /\ active_orders[Orders(t, r)[k].id] = [side |-> t, price |-> r]
  BY DEF NodeInv, Settled
<1>2. s = t /\ q = r
  BY <1>1
<1>3. j \in Nat /\ k \in Nat
  BY LevelType
<1>4. ~ (j < k) /\ ~ (k < j)
  BY <1>2 DEF QueueInv
<1> QED BY <1>2, <1>3, <1>4

\* Erasing a node from its queue and from the index.
RemovesNode(side, p, i) ==
    /\ LevelBecomes(side, p, Erase(Orders(side, p), i),
           levels[side][p].total_quantity - Orders(side, p)[i].remaining_quantity)
    /\ active_orders' = Without(active_orders, Orders(side, p)[i].id)
    /\ next_arrival_sequence' = next_arrival_sequence

\* The nodes that stay.
LEMMA RemoveEffect ==
    ASSUME BookType, QueueInv, NEW side \in Side, NEW p \in DOMAIN levels[side],
           NEW i \in 1..Len(Orders(side, p)), RemovesNode(side, p, i)
    PROVE  /\ levels' = [s \in Side |-> levels'[s]]
           /\ \A s \in Side : IsMap(levels'[s], Prices, PriceLevel)
           /\ \A s \in Side : DOMAIN levels'[s] \subseteq DOMAIN levels[s]
           /\ \A s \in Side : s # side => levels'[s] = levels[s]
           /\ \A q \in DOMAIN levels[side] : q # p =>
                 q \in DOMAIN levels'[side] /\ levels'[side][q] = levels[side][q]
           /\ p \in DOMAIN levels'[side] <=> Len(Orders(side, p)) > 1
           /\ p \in DOMAIN levels'[side] =>
                 /\ levels'[side][p].orders = Erase(Orders(side, p), i)
                 /\ levels'[side][p].total_quantity = QueueQuantity(Erase(Orders(side, p), i))
<1> DEFINE old == Orders(side, p)
           left == Erase(old, i)
           total == levels[side][p].total_quantity - old[i].remaining_quantity
<1>1. p \in Prices /\ old \in Seq(RestingOrder) /\ levels[side][p].total_quantity \in Word
      /\ Len(old) \in Nat
  BY LevelType
<1>2. left \in Seq(RestingOrder) /\ (left = <<>> <=> Len(old) = 1)
  BY <1>1, ErasedNode
<1>3. /\ QueueQuantity(old) = QueueQuantity(left) + old[i].remaining_quantity
      /\ QueueQuantity(left) \in Nat
  BY <1>1, QueueErase
<1>4. levels[side][p].total_quantity = QueueQuantity(old)
  BY DEF QueueInv
<1>5. old[i].remaining_quantity \in Nat
  BY <1>1, QueueType
<1> HIDE DEF old, left
<1>6. total = QueueQuantity(left) /\ total \in Word
  BY <1>1, <1>3, <1>4, <1>5, ConstantsAssumption DEF Word
<1>7. LevelBecomes(side, p, left, total)
  BY DEF RemovesNode, left, old
<1> HIDE DEF total
<1>8. i \in 1..Len(old)
  BY DEF old
<1>9. LevelIs(side, p, left, total)
  BY <1>1, <1>2, <1>6, <1>7, LevelEffect
<1>10. left # <<>> <=> Len(old) > 1
  <2> DEFINE n == Len(old)
             none == left = <<>>
  <2>1. n \in Nat /\ (none <=> n = 1) /\ i \in 1..n
    BY <1>1, <1>2, <1>8
  <2> HIDE DEF n, none
  <2>2. ~none <=> n > 1
    BY <2>1
  <2> QED BY <2>2 DEF n, none
<1>11. \A s \in Side : DOMAIN levels'[s] \subseteq DOMAIN levels[s]
  BY <1>9 DEF LevelIs
<1> QED BY <1>6, <1>9, <1>10, <1>11 DEF left, old, LevelIs

\* Every node left was there before, in the same place or one further back.
LEMMA RemoveNodes ==
    ASSUME BookType, QueueInv, NEW side \in Side, NEW p \in DOMAIN levels[side],
           NEW i \in 1..Len(Orders(side, p)), RemovesNode(side, p, i),
           NEW s \in Side, NEW q \in DOMAIN levels'[s], NEW j \in 1..Len(levels'[s][q].orders)
    PROVE  /\ q \in DOMAIN levels[s] /\ j \in Nat
           /\ s = side /\ q = p =>
                 /\ j < i => j \in 1..Len(Orders(s, q)) /\ levels'[s][q].orders[j] = Orders(s, q)[j]
                 /\ j >= i => /\ j + 1 \in 1..Len(Orders(s, q))
                              /\ levels'[s][q].orders[j] = Orders(s, q)[j + 1]
           /\ ~ (s = side /\ q = p) => levels'[s][q] = levels[s][q]
<1>1. q \in DOMAIN levels[s]
  BY RemoveEffect
<1>2. ~ (s = side /\ q = p) => levels'[s][q] = levels[s][q]
  BY RemoveEffect
<1>3. ASSUME s = side, q = p
      PROVE  /\ j \in Nat
             /\ j < i => j \in 1..Len(Orders(s, q)) /\ levels'[s][q].orders[j] = Orders(s, q)[j]
             /\ j >= i => /\ j + 1 \in 1..Len(Orders(s, q))
                          /\ levels'[s][q].orders[j] = Orders(s, q)[j + 1]
  <2> DEFINE old == Orders(side, p)
             left == Erase(old, i)
  <2>1. levels'[s][q].orders = left
    BY <1>3, RemoveEffect
  <2>2. old \in Seq(RestingOrder) /\ Len(old) \in Nat
    BY LevelType
  <2>3. /\ Len(left) = Len(old) - 1
        /\ \A k \in 1..(Len(old) - 1) : /\ k < i => left[k] = old[k]
                                        /\ k >= i => left[k] = old[k + 1]
    BY <2>2, ErasedNode, Zenon
  <2> HIDE DEF left
  <2>4. j \in 1..(Len(old) - 1)
    BY <2>1, <2>3
  <2> HIDE DEF old
  <2>5. j \in Nat /\ j \in 1..Len(old) /\ j + 1 \in 1..Len(old)
    BY <2>2, <2>4
  <2> QED BY <1>3, <2>1, <2>3, <2>4, <2>5 DEF old
<1>4. ASSUME ~ (s = side /\ q = p) PROVE j \in Nat
  <2>1. j \in 1..Len(Orders(s, q))
    BY <1>2, <1>4 DEF Orders
  <2> QED BY <1>1, <2>1, LevelType
<1> QED BY <1>1, <1>2, <1>3, <1>4

\* A book without one of its nodes is as sound as before.
LEMMA RemoveInv ==
    ASSUME BookType, QueueInv, NodeInv, IndexInv, Uncrossed,
           NEW side \in Side, NEW p \in DOMAIN levels[side],
           NEW i \in 1..Len(Orders(side, p)), RemovesNode(side, p, i)
    PROVE  BookType' /\ QueueInv' /\ NodeInv' /\ IndexInv' /\ Uncrossed'
<1> DEFINE gone == Orders(side, p)[i].id
<1>1. /\ active_orders' = Without(active_orders, gone)
      /\ next_arrival_sequence' = next_arrival_sequence
  BY DEF RemovesNode
<1>2. /\ IsMap(active_orders, OrderIds, OrderLocator)
      /\ DOMAIN active_orders' = DOMAIN active_orders \ {gone}
      /\ \A id \in DOMAIN active_orders' : active_orders'[id] = active_orders[id]
  BY <1>1 DEF BookType, Without
<1>3. BookType'
  <2>1. IsMap(active_orders', OrderIds, OrderLocator)
    BY <1>1, <1>2 DEF IsMap, Without
  <2> QED BY <2>1, RemoveEffect DEF BookType
<1>4. QueueInv'
  <2> SUFFICES ASSUME NEW s \in Side, NEW q \in DOMAIN levels'[s]
               PROVE  /\ levels'[s][q].orders # <<>>
                      /\ levels'[s][q].total_quantity = QueueQuantity(levels'[s][q].orders)
                      /\ \A j, k \in 1..Len(levels'[s][q].orders) : j < k =>
                            /\ levels'[s][q].orders[j].arrival_sequence
                                 < levels'[s][q].orders[k].arrival_sequence
                            /\ levels'[s][q].orders[j].id # levels'[s][q].orders[k].id
    BY ZenonT(30) DEF QueueInv, Orders
  <2>1. CASE ~ (s = side /\ q = p)
    <3>1. levels'[s][q] = levels[s][q] /\ q \in DOMAIN levels[s]
      BY <2>1, RemoveEffect
    <3> QED BY <3>1 DEF QueueInv, Orders
  <2>2. CASE s = side /\ q = p
    <3> DEFINE old == Orders(side, p)
               new == levels'[s][q].orders
    <3>1. old \in Seq(RestingOrder) /\ Len(old) \in Nat /\ new = Erase(old, i) /\ Len(old) > 1
          /\ levels'[s][q].total_quantity = QueueQuantity(new)
      BY <2>2, RemoveEffect, LevelType
    <3>2. new # <<>>
      BY <3>1, ErasedNode
    <3>3. ASSUME NEW j \in 1..Len(new), NEW k \in 1..Len(new), j < k
          PROVE  new[j].arrival_sequence < new[k].arrival_sequence /\ new[j].id # new[k].id
      <4>1. /\ j \in Nat /\ k \in Nat
            /\ j < i => j \in 1..Len(old) /\ new[j] = old[j]
            /\ j >= i => j + 1 \in 1..Len(old) /\ new[j] = old[j + 1]
            /\ k < i => k \in 1..Len(old) /\ new[k] = old[k]
            /\ k >= i => k + 1 \in 1..Len(old) /\ new[k] = old[k + 1]
        BY <2>2, RemoveNodes
      <4>2. \A m, n \in 1..Len(old) : m < n =>
               old[m].arrival_sequence < old[n].arrival_sequence /\ old[m].id # old[n].id
        BY DEF QueueInv
      <4>3. i \in Nat
        BY <3>1
      <4> HIDE DEF old, new
      <4> QED BY <3>3, <4>1, <4>2, <4>3
    <3> QED BY <3>1, <3>2, <3>3, ZenonT(30)
  <2> QED BY <2>1, <2>2, ZenonT(30)
<1>5. ASSUME NEW s \in Side, NEW q \in DOMAIN levels'[s], NEW j \in 1..Len(levels'[s][q].orders)
      PROVE  /\ q \in DOMAIN levels[s] /\ levels'[s][q].orders[j].id # gone
             /\ \E k \in 1..Len(Orders(s, q)) : levels'[s][q].orders[j] = Orders(s, q)[k]
  <2>1. q \in DOMAIN levels[s]
    BY RemoveEffect
  <2>2. PICK k \in 1..Len(Orders(s, q)) :
           levels'[s][q].orders[j] = Orders(s, q)[k] /\ ~ (s = side /\ q = p /\ k = i)
    <3>1. CASE ~ (s = side /\ q = p)
      <4>1. levels'[s][q] = levels[s][q]
        BY <3>1, RemoveEffect
      <4> QED BY <3>1, <4>1 DEF Orders
    <3>2. CASE s = side /\ q = p
      <4>1. /\ j \in Nat
            /\ j < i => j \in 1..Len(Orders(s, q)) /\ levels'[s][q].orders[j] = Orders(s, q)[j]
            /\ j >= i => /\ j + 1 \in 1..Len(Orders(s, q))
                         /\ levels'[s][q].orders[j] = Orders(s, q)[j + 1]
        BY <3>2, RemoveNodes
      <4>2. i \in Nat
        BY LevelType
      <4>3. CASE j < i
        BY <4>1, <4>2, <4>3
      <4>4. CASE j >= i
        BY <4>1, <4>2, <4>4
      <4> QED BY <4>1, <4>2, <4>3, <4>4
    <3> QED BY <3>1, <3>2
  <2>3. Orders(s, q)[k].id # gone
    BY <2>1, <2>2, NodesDiffer
  <2> QED BY <2>1, <2>2, <2>3
<1>6. NodeInv'
  <2> SUFFICES ASSUME NEW s \in Side, NEW q \in DOMAIN levels'[s], NEW j \in 1..Len(levels'[s][q].orders)
               PROVE  Settled(Orders(s, q)[j], s, q)'
    BY DEF NodeInv, Orders
  <2>1. q \in DOMAIN levels[s] /\ levels'[s][q].orders[j].id # gone
    BY <1>5
  <2>2. PICK k \in 1..Len(Orders(s, q)) : levels'[s][q].orders[j] = Orders(s, q)[k]
    BY <1>5
  <2>3. Settled(Orders(s, q)[k], s, q)
    BY <2>1 DEF NodeInv
  <2> DEFINE x == Orders(s, q)[k]
  <2>4. levels'[s][q].orders[j] = x /\ x.id # gone /\ Settled(x, s, q)
    BY <2>1, <2>2, <2>3, ZenonT(30)
  <2> HIDE DEF x
  <2> QED BY <1>1, <1>2, <2>4, Zenon DEF Settled, Orders
<1>7. IndexInv'
  <2> SUFFICES ASSUME NEW id \in DOMAIN active_orders'
               PROVE  /\ active_orders'[id].price \in DOMAIN levels'[active_orders'[id].side]
                      /\ \E j \in 1..Len(levels'[active_orders'[id].side][active_orders'[id].price].orders) :
                            levels'[active_orders'[id].side][active_orders'[id].price].orders[j].id = id
    BY ZenonT(30) DEF IndexInv, Orders
  <2> DEFINE s == active_orders[id].side
             q == active_orders[id].price
  <2>1. id \in DOMAIN active_orders /\ id # gone /\ active_orders'[id] = active_orders[id]
    BY <1>2
  <2>2. s \in Side /\ q \in DOMAIN levels[s]
    BY <1>2, <2>1 DEF IndexInv, IsMap, OrderLocator
  <2>3. PICK k \in 1..Len(Orders(s, q)) : Orders(s, q)[k].id = id
    BY <2>1 DEF IndexInv
  <2> HIDE DEF s, q
  <2>4. q \in DOMAIN levels'[s] /\ \E j \in 1..Len(levels'[s][q].orders) : levels'[s][q].orders[j].id = id
    <3>1. CASE ~ (s = side /\ q = p)
      <4>1. levels'[s][q] = levels[s][q] /\ q \in DOMAIN levels'[s]
        BY <2>2, <3>1, RemoveEffect
      <4> QED BY <2>3, <4>1 DEF Orders
    <3>2. CASE s = side /\ q = p
      <4> DEFINE old == Orders(side, p)
                 left == Erase(old, i)
      <4>1. old \in Seq(RestingOrder) /\ Len(old) \in Nat /\ k \in 1..Len(old) /\ k # i /\ old[k].id = id
        BY <2>1, <2>3, <3>2, LevelType
      <4>2. /\ Len(left) = Len(old) - 1
            /\ \A j \in 1..(Len(old) - 1) : /\ j < i => left[j] = old[j]
                                            /\ j >= i => left[j] = old[j + 1]
        BY <4>1, ErasedNode, Zenon
      <4>3. Len(old) > 1
        BY <4>1
      <4>4. q \in DOMAIN levels'[s] /\ levels'[s][q].orders = left
        BY <3>2, <4>3, RemoveEffect
      <4>5. i \in 1..Len(old)
        OBVIOUS
      <4> HIDE DEF old, left
      <4>6. \E j \in 1..Len(left) : left[j].id = id
        <5>1. CASE k < i
          BY <4>1, <4>2, <4>5, <5>1
        <5>2. CASE k > i
          <6>1. k - 1 \in 1..(Len(old) - 1) /\ k - 1 >= i /\ k - 1 + 1 = k
            BY <4>1, <4>5, <5>2
          <6> QED BY <4>1, <4>2, <6>1, Zenon
        <5> QED BY <4>1, <4>5, <5>1, <5>2
      <4> QED BY <4>4, <4>6
    <3> QED BY <3>1, <3>2
  <2> QED BY <2>1, <2>4, Zenon DEF s, q
<1>8. Uncrossed'
  <2>1. DOMAIN levels'["Buy"] \subseteq DOMAIN levels["Buy"] /\ DOMAIN levels'["Sell"] \subseteq DOMAIN levels["Sell"]
    BY RemoveEffect DEF Side
  <2> QED BY <2>1 DEF Uncrossed
<1> QED BY <1>3, <1>4, <1>6, <1>7, <1>8

\* Taking part of what the first node of a queue offers.
ReducesHead(side, p, executed) ==
    /\ LevelBecomes(side, p, [Orders(side, p) EXCEPT ![1].remaining_quantity = @ - executed],
           levels[side][p].total_quantity - executed)
    /\ active_orders' = active_orders
    /\ next_arrival_sequence' = next_arrival_sequence

LEMMA ReduceEffect ==
    ASSUME BookType, QueueInv, NEW side \in Side, NEW p \in DOMAIN levels[side], NEW executed \in Nat,
           executed < Orders(side, p)[1].remaining_quantity, ReducesHead(side, p, executed)
    PROVE  /\ levels' = [s \in Side |-> levels'[s]]
           /\ \A s \in Side : IsMap(levels'[s], Prices, PriceLevel)
           /\ \A s \in Side : DOMAIN levels'[s] = DOMAIN levels[s]
           /\ \A s \in Side : s # side => levels'[s] = levels[s]
           /\ \A q \in DOMAIN levels[side] : q # p => levels'[side][q] = levels[side][q]
           /\ levels'[side][p].total_quantity = QueueQuantity(levels'[side][p].orders)
           /\ 1 \in 1..Len(Orders(side, p)) /\ Len(levels'[side][p].orders) = Len(Orders(side, p))
           /\ \A k \in 2..Len(Orders(side, p)) : levels'[side][p].orders[k] = Orders(side, p)[k]
           /\ levels'[side][p].orders[1] = [Orders(side, p)[1] EXCEPT !.remaining_quantity = @ - executed]
<1> DEFINE old == Orders(side, p)
           first == [old[1] EXCEPT !.remaining_quantity = @ - executed]
           left == [old EXCEPT ![1].remaining_quantity = @ - executed]
           total == levels[side][p].total_quantity - executed
<1>1. p \in Prices /\ old \in Seq(RestingOrder) /\ levels[side][p].total_quantity \in Word
      /\ Len(old) \in Nat
  BY LevelType
<1>2. levels[side][p].total_quantity = QueueQuantity(old) /\ old # <<>>
  BY DEF QueueInv
<1>3. 1 \in 1..Len(old)
  BY <1>1, <1>2, TailErases
<1>4. old[1] \in RestingOrder /\ old[1].remaining_quantity \in 0..MaxValue /\ MaxValue \in Nat
  BY <1>1, <1>3, QueueType
<1>5. first \in RestingOrder /\ first.remaining_quantity = old[1].remaining_quantity - executed
  <2>1. old[1].remaining_quantity - executed \in Word
    BY <1>4 DEF Word
  <2> HIDE DEF old
  <2> QED BY <1>4, <2>1 DEF RestingOrder
<1>6. left = [old EXCEPT ![1] = first]
  OBVIOUS
<1>7. /\ left \in Seq(RestingOrder) /\ Len(left) = Len(old) /\ left[1] = first
      /\ \A k \in 2..Len(old) : left[k] = old[k]
  <2> HIDE DEF old, first, left
  <2> QED BY <1>1, <1>3, <1>5, <1>6
<1>8. LevelBecomes(side, p, left, total)
  BY DEF ReducesHead
<1> HIDE DEF left, first, old
<1>9. left # <<>>
  BY <1>1, <1>3, <1>7
<1>10. QueueQuantity(left) + old[1].remaining_quantity = QueueQuantity(old) + left[1].remaining_quantity
  BY <1>1, <1>2, <1>7, QueueHead
<1>11. old[1].remaining_quantity <= QueueQuantity(old) /\ QueueQuantity(left) \in Nat
  BY <1>1, <1>3, <1>7, QueueErase, QueueType, ZenonT(30)
<1>12. total = QueueQuantity(left) /\ total \in Word
  <2>1. executed < old[1].remaining_quantity
    BY DEF old
  <2>2. \A x, y, r, m \in Nat :
           executed < r /\ r <= x /\ x <= m /\ y + r = x + (r - executed) =>
               x - executed = y /\ x - executed \in 0..m
    OBVIOUS
  <2>3. /\ QueueQuantity(old) \in Nat /\ QueueQuantity(old) <= MaxValue
        /\ total = QueueQuantity(old) - executed
    BY <1>1, <1>2, <1>4 DEF Word
  <2> HIDE DEF total
  <2>4. /\ QueueQuantity(left) + old[1].remaining_quantity
             = QueueQuantity(old) + (old[1].remaining_quantity - executed)
        /\ MaxValue \in Nat
    BY <1>4, <1>5, <1>7, <1>10, ZenonT(30)
  <2>5. old[1].remaining_quantity \in Nat
    BY <1>4
  <2> QED BY <1>11, <2>1, <2>2, <2>3, <2>4, <2>5 DEF Word
<1> HIDE DEF total
<1>13. LevelIs(side, p, left, total)
  BY <1>1, <1>7, <1>8, <1>12, LevelEffect
<1>14. p \in DOMAIN levels'[side] /\ levels'[side][p].orders = left /\ levels'[side][p].total_quantity = total
  BY <1>9, <1>13 DEF LevelIs
<1>15. \A s \in Side : DOMAIN levels'[s] = DOMAIN levels[s]
  BY <1>13, <1>14 DEF LevelIs
<1> QED BY <1>3, <1>7, <1>12, <1>13, <1>14, <1>15 DEF LevelIs, old, first

\* A book whose first order of a queue offers less is as sound as before.
LEMMA ReduceInv ==
    ASSUME BookType, QueueInv, NodeInv, IndexInv, Uncrossed,
           NEW side \in Side, NEW p \in DOMAIN levels[side], NEW executed \in Nat,
           executed < Orders(side, p)[1].remaining_quantity, ReducesHead(side, p, executed)
    PROVE  /\ BookType' /\ QueueInv' /\ NodeInv' /\ IndexInv' /\ Uncrossed'
           /\ \A s \in Side : \A q \in DOMAIN levels[s] :
                 /\ Len(levels'[s][q].orders) = Len(Orders(s, q))
                 /\ \A j \in 1..Len(Orders(s, q)) :
                       levels'[s][q].orders[j] =
                          IF s = side /\ q = p /\ j = 1
                          THEN [Orders(s, q)[j] EXCEPT !.remaining_quantity = @ - executed]
                          ELSE Orders(s, q)[j]
<1>1. active_orders' = active_orders /\ next_arrival_sequence' = next_arrival_sequence
  BY DEF ReducesHead
<1>2. /\ \A s \in Side : DOMAIN levels'[s] = DOMAIN levels[s]
      /\ \A s \in Side : s # side => levels'[s] = levels[s]
      /\ \A q \in DOMAIN levels[side] : q # p => levels'[side][q] = levels[side][q]
  BY ReduceEffect, Zenon
<1>3. BookType'
  BY <1>1, ReduceEffect, Zenon DEF BookType
<1>4. ASSUME NEW s \in Side, NEW q \in DOMAIN levels[s]
      PROVE  /\ Len(levels'[s][q].orders) = Len(Orders(s, q))
             /\ \A j \in 1..Len(Orders(s, q)) :
                   levels'[s][q].orders[j] =
                      IF s = side /\ q = p /\ j = 1
                      THEN [Orders(s, q)[j] EXCEPT !.remaining_quantity = @ - executed]
                      ELSE Orders(s, q)[j]
  <2>1. CASE ~ (s = side /\ q = p)
    <3>1. levels'[s][q] = levels[s][q]
      BY <1>2, <2>1
    <3> QED BY <2>1, <3>1 DEF Orders
  <2>2. CASE s = side /\ q = p
    <3>1. /\ Len(levels'[side][p].orders) = Len(Orders(side, p))
          /\ \A k \in 2..Len(Orders(side, p)) : levels'[side][p].orders[k] = Orders(side, p)[k]
          /\ levels'[side][p].orders[1] = [Orders(side, p)[1] EXCEPT !.remaining_quantity = @ - executed]
      BY ReduceEffect
    <3>2. Len(Orders(side, p)) \in Nat
      BY LevelType
    <3>3. \A j \in 1..Len(Orders(side, p)) : j = 1 \/ j \in 2..Len(Orders(side, p))
      BY <3>2
    <3> QED BY <2>2, <3>1, <3>3
  <2> QED BY <2>1, <2>2
<1>5. ASSUME NEW s \in Side, NEW q \in DOMAIN levels[s], NEW j \in 1..Len(Orders(s, q))
      PROVE  LET x == Orders(s, q)[j]
                 y == levels'[s][q].orders[j]
             IN  /\ y.id = x.id /\ y.side = x.side /\ y.limit_price = x.limit_price
                 /\ y.original_quantity = x.original_quantity
                 /\ y.arrival_sequence = x.arrival_sequence
                 /\ y.remaining_quantity \in 1..x.remaining_quantity
  <2> DEFINE x == Orders(s, q)[j]
             y == levels'[s][q].orders[j]
  <2>1. x \in RestingOrder
    BY LevelType
  <2>2. Settled(x, s, q)
    BY DEF NodeInv
  <2>3. x.remaining_quantity \in Nat \ {0}
    BY <2>1, <2>2, ConstantsAssumption DEF Settled, RestingOrder, Word
  <2>4. CASE s = side /\ q = p /\ j = 1
    <3>1. y = [x EXCEPT !.remaining_quantity = @ - executed] /\ executed < x.remaining_quantity
      BY <1>4, <2>4, Zenon
    <3> HIDE DEF x, y
    <3> QED BY <2>1, <2>3, <3>1 DEF RestingOrder, x, y
  <2>5. CASE ~ (s = side /\ q = p /\ j = 1)
    <3>1. y = x
      BY <1>4, <2>5, Zenon
    <3> HIDE DEF x, y
    <3> QED BY <2>3, <3>1 DEF x, y
  <2> QED BY <2>4, <2>5, Zenon
<1>6. QueueInv'
  <2> SUFFICES ASSUME NEW s \in Side, NEW q \in DOMAIN levels'[s]
               PROVE  /\ levels'[s][q].orders # <<>>
                      /\ levels'[s][q].total_quantity = QueueQuantity(levels'[s][q].orders)
                      /\ \A j, k \in 1..Len(levels'[s][q].orders) : j < k =>
                            /\ levels'[s][q].orders[j].arrival_sequence
                                 < levels'[s][q].orders[k].arrival_sequence
                            /\ levels'[s][q].orders[j].id # levels'[s][q].orders[k].id
    BY DEF QueueInv, Orders
  <2>1. q \in DOMAIN levels[s]
    BY <1>2
  <2>2. levels'[s][q].total_quantity = QueueQuantity(levels'[s][q].orders)
    <3>1. CASE ~ (s = side /\ q = p)
      <4>1. levels'[s][q] = levels[s][q]
        BY <1>2, <2>1, <3>1
      <4> QED BY <2>1, <4>1 DEF QueueInv, Orders
    <3>2. CASE s = side /\ q = p
      BY <3>2, ReduceEffect, Zenon
    <3> QED BY <3>1, <3>2
  <2>3. Orders(s, q) # <<>> /\ Orders(s, q) \in Seq(RestingOrder)
    BY <2>1, LevelType DEF QueueInv
  <2>4. Len(Orders(s, q)) # 0 /\ Len(levels'[s][q].orders) = Len(Orders(s, q))
    BY <1>4, <2>1, <2>3
  <2>5. levels'[s][q].orders # <<>>
    BY <2>4
  <2>6. ASSUME NEW j \in 1..Len(levels'[s][q].orders), NEW k \in 1..Len(levels'[s][q].orders), j < k
        PROVE  /\ levels'[s][q].orders[j].arrival_sequence < levels'[s][q].orders[k].arrival_sequence
               /\ levels'[s][q].orders[j].id # levels'[s][q].orders[k].id
    <3>1. j \in 1..Len(Orders(s, q)) /\ k \in 1..Len(Orders(s, q))
      BY <2>4
    <3>2. /\ Orders(s, q)[j].arrival_sequence < Orders(s, q)[k].arrival_sequence
          /\ Orders(s, q)[j].id # Orders(s, q)[k].id
      BY <2>1, <2>6, <3>1 DEF QueueInv
    <3>3. /\ levels'[s][q].orders[j].arrival_sequence = Orders(s, q)[j].arrival_sequence
          /\ levels'[s][q].orders[j].id = Orders(s, q)[j].id
          /\ levels'[s][q].orders[k].arrival_sequence = Orders(s, q)[k].arrival_sequence
          /\ levels'[s][q].orders[k].id = Orders(s, q)[k].id
      BY <1>5, <2>1, <3>1
    <3> QED BY <3>2, <3>3
  <2> QED BY <2>2, <2>5, <2>6
<1>7. NodeInv'
  <2> SUFFICES ASSUME NEW s \in Side, NEW q \in DOMAIN levels'[s], NEW j \in 1..Len(levels'[s][q].orders)
               PROVE  Settled(Orders(s, q)[j], s, q)'
    BY DEF NodeInv, Orders
  <2> DEFINE x == Orders(s, q)[j]
             y == levels'[s][q].orders[j]
  <2>1. q \in DOMAIN levels[s] /\ j \in 1..Len(Orders(s, q))
    BY <1>2, <1>4
  <2>2. Settled(x, s, q) /\ x \in RestingOrder
    BY <2>1, LevelType DEF NodeInv
  <2>3. /\ y.id = x.id /\ y.side = x.side /\ y.limit_price = x.limit_price
        /\ y.original_quantity = x.original_quantity
        /\ y.arrival_sequence = x.arrival_sequence
        /\ y.remaining_quantity \in 1..x.remaining_quantity
    BY <1>5, <2>1, Zenon
  <2>4. Orders(s, q)'[j] = y
    BY DEF Orders
  <2> HIDE DEF x, y
  <2>5. y.remaining_quantity \in 1..y.original_quantity
    <3>1. x.remaining_quantity \in 1..x.original_quantity /\ x.original_quantity \in Nat
      BY <2>2, ConstantsAssumption DEF Settled, RestingOrder, Word
    <3> QED BY <2>3, <3>1
  <2> QED BY <1>1, <2>2, <2>3, <2>4, <2>5 DEF Settled
<1>8. IndexInv'
  <2> SUFFICES ASSUME NEW id \in DOMAIN active_orders
               PROVE  /\ active_orders[id].price \in DOMAIN levels'[active_orders[id].side]
                      /\ \E j \in 1..Len(levels'[active_orders[id].side][active_orders[id].price].orders) :
                            levels'[active_orders[id].side][active_orders[id].price].orders[j].id = id
    BY <1>1, Zenon DEF IndexInv, Orders
  <2> DEFINE s == active_orders[id].side
             q == active_orders[id].price
  <2>1. s \in Side /\ q \in DOMAIN levels[s]
    BY DEF BookType, IndexInv, IsMap, OrderLocator
  <2>2. PICK k \in 1..Len(Orders(s, q)) : Orders(s, q)[k].id = id
    BY DEF IndexInv
  <2> HIDE DEF s, q
  <2>3. q \in DOMAIN levels'[s] /\ k \in 1..Len(levels'[s][q].orders) /\ levels'[s][q].orders[k].id = id
    BY <1>2, <1>4, <1>5, <2>1, <2>2
  <2> QED BY <2>3, Zenon DEF s, q
<1>9. Uncrossed'
  <2>1. DOMAIN levels'["Buy"] = DOMAIN levels["Buy"] /\ DOMAIN levels'["Sell"] = DOMAIN levels["Sell"]
    BY <1>2 DEF Side
  <2> QED BY <2>1 DEF Uncrossed
<1> QED BY <1>3, <1>4, <1>6, <1>7, <1>8, <1>9

\* The queue a new node joins; a level that does not exist is empty.
QueueAt(side, p) == IF p \in DOMAIN levels[side] THEN Orders(side, p) ELSE <<>>
TotalAt(side, p) == IF p \in DOMAIN levels[side] THEN levels[side][p].total_quantity ELSE 0

AddsNode(node) ==
    /\ LevelBecomes(node.side, node.limit_price, Append(QueueAt(node.side, node.limit_price), node),
           TotalAt(node.side, node.limit_price) + node.remaining_quantity)
    /\ active_orders' = Put(active_orders, node.id, [side |-> node.side, price |-> node.limit_price])
    /\ next_arrival_sequence' = Increment(next_arrival_sequence)

\* What submit has established about the order before it rests.
MayRest(node) ==
    /\ node \in RestingOrder
    /\ node.remaining_quantity \in 1..node.original_quantity
    /\ node.arrival_sequence = next_arrival_sequence /\ next_arrival_sequence # 0
    /\ node.id \notin DOMAIN active_orders
    /\ TotalAt(node.side, node.limit_price) + node.remaining_quantity <= MaxValue
    /\ \A q \in DOMAIN levels[Opposite(node.side)] : ~Crosses(node.side, q, node.limit_price)

LEMMA AddEffect ==
    ASSUME BookType, QueueInv, NEW node, MayRest(node), AddsNode(node)
    PROVE  LET side == node.side
               p == node.limit_price
               old == QueueAt(side, p)
               new == levels'[side][p].orders
           IN  /\ side \in Side /\ p \in Prices
               /\ levels' = [s \in Side |-> levels'[s]]
               /\ \A s \in Side : IsMap(levels'[s], Prices, PriceLevel)
               /\ \A s \in Side : s # side => levels'[s] = levels[s]
               /\ \A q \in DOMAIN levels[side] : q # p => levels'[side][q] = levels[side][q]
               /\ DOMAIN levels'[side] = DOMAIN levels[side] \cup {p}
               /\ levels'[side][p].total_quantity = QueueQuantity(new)
               /\ Len(old) \in Nat /\ Len(new) = Len(old) + 1
               /\ \A j \in 1..Len(old) : p \in DOMAIN levels[side] /\ new[j] = Orders(side, p)[j]
               /\ new[Len(old) + 1] = node
               /\ p \in DOMAIN levels[side] => Len(old) = Len(Orders(side, p))
<1> DEFINE side == node.side
           p == node.limit_price
           old == QueueAt(side, p)
           new == levels'[side][p].orders
           left == Append(old, node)
           total == TotalAt(side, p) + node.remaining_quantity
<1>1. node \in RestingOrder /\ side \in Side /\ p \in Prices /\ node.remaining_quantity \in Word
  BY DEF MayRest, RestingOrder
<1> HIDE DEF side, p
<1>2. old \in Seq(RestingOrder) /\ TotalAt(side, p) = QueueQuantity(old) /\ TotalAt(side, p) \in Word
  <2>1. CASE p \in DOMAIN levels[side]
    <3>1. Orders(side, p) \in Seq(RestingOrder) /\ levels[side][p].total_quantity \in Word
      BY <1>1, <2>1, LevelType
    <3>2. levels[side][p].total_quantity = QueueQuantity(Orders(side, p))
      BY <1>1, <2>1 DEF QueueInv
    <3> QED BY <2>1, <3>1, <3>2 DEF QueueAt, TotalAt
  <2>2. CASE p \notin DOMAIN levels[side]
    <3>1. old = <<>> /\ TotalAt(side, p) = 0 /\ 0 \in Word
      BY <2>2, ConstantsAssumption DEF QueueAt, TotalAt, Word
    <3>2. <<>> \in Seq(RestingOrder)
      OBVIOUS
    <3> QED BY <3>1, <3>2, QueueEmpty
  <2> QED BY <2>1, <2>2
<1>3. \A j \in 1..Len(old) : p \in DOMAIN levels[side] /\ old[j] = Orders(side, p)[j]
  <2> SUFFICES ASSUME NEW j \in 1..Len(old) PROVE p \in DOMAIN levels[side] /\ old[j] = Orders(side, p)[j]
    OBVIOUS
  <2>1. CASE p \in DOMAIN levels[side]
    BY <2>1 DEF QueueAt
  <2>2. CASE p \notin DOMAIN levels[side]
    <3>1. old = <<>>
      BY <2>2 DEF QueueAt
    <3>2. 1..Len(<<>>) = {}
      OBVIOUS
    <3> QED BY <3>1, <3>2
  <2> QED BY <2>1, <2>2
<1>4. p \in DOMAIN levels[side] => Len(old) = Len(Orders(side, p))
  BY DEF QueueAt
<1> HIDE DEF old
<1>5. /\ left \in Seq(RestingOrder) /\ left # <<>> /\ Len(old) \in Nat /\ Len(left) = Len(old) + 1
      /\ \A j \in 1..Len(old) : left[j] = old[j]
      /\ left[Len(old) + 1] = node
  BY <1>1, <1>2
<1>6. QueueQuantity(left) = QueueQuantity(old) + node.remaining_quantity
  BY <1>1, <1>2, QueueAppend
<1>7. total = QueueQuantity(left) /\ total \in Word
  <2>1. total <= MaxValue
    BY DEF MayRest, side, p
  <2> QED BY <1>1, <1>2, <1>6, <2>1, ConstantsAssumption DEF Word
<1>8. LevelBecomes(side, p, left, total)
  BY DEF AddsNode, side, p, old
<1> HIDE DEF left, total
<1>9. LevelIs(side, p, left, total)
  BY <1>1, <1>5, <1>7, <1>8, LevelEffect
<1>10. p \in DOMAIN levels'[side] /\ new = left /\ levels'[side][p].total_quantity = total
  BY <1>5, <1>9 DEF LevelIs
<1>11. DOMAIN levels'[side] = DOMAIN levels[side] \cup {p}
  BY <1>9, <1>10 DEF LevelIs
<1>12. /\ levels' = [s \in Side |-> levels'[s]]
       /\ \A s \in Side : IsMap(levels'[s], Prices, PriceLevel)
       /\ \A s \in Side : s # side => levels'[s] = levels[s]
       /\ \A q \in DOMAIN levels[side] : q # p => levels'[side][q] = levels[side][q]
  BY <1>9 DEF LevelIs
<1>13. \A j \in 1..Len(old) : p \in DOMAIN levels[side] /\ new[j] = Orders(side, p)[j]
  BY <1>3, <1>5, <1>10
<1>14. levels'[side][p].total_quantity = QueueQuantity(new)
  BY <1>7, <1>10
<1>15. Len(old) \in Nat /\ Len(new) = Len(old) + 1 /\ new[Len(old) + 1] = node
  BY <1>5, <1>10
<1> QED BY <1>1, <1>4, <1>11, <1>12, <1>13, <1>14, <1>15 DEF side, p, old

\* The next arrival sequence is above all issued so far, until none is left.
LEMMA Incremented ==
    ASSUME NEW n \in Word
    PROVE  Increment(n) \in Word /\ (Increment(n) = IF n = MaxValue THEN 0 ELSE n + 1)
<1>1. MaxValue \in Nat
  BY ConstantsAssumption
<1>2. CASE n = MaxValue
  <2>1. (MaxValue + 1) % (MaxValue + 1) = 0
    BY <1>1
  <2> QED BY <1>1, <1>2, <2>1 DEF Increment, Word
<1>3. CASE n # MaxValue
  <2>1. (n + 1) % (MaxValue + 1) = n + 1
    BY <1>1, <1>3 DEF Word
  <2> QED BY <1>1, <1>3, <2>1 DEF Increment, Word
<1> QED BY <1>2, <1>3

\* A book with a new node at the back of its queue is as sound as before.
LEMMA AddInv ==
    ASSUME BookType, QueueInv, NodeInv, IndexInv, Uncrossed, next_arrival_sequence \in Word,
           NEW node, MayRest(node), AddsNode(node)
    PROVE  /\ BookType' /\ QueueInv' /\ NodeInv' /\ IndexInv' /\ Uncrossed'
           /\ \A s \in Side : \A q \in DOMAIN levels'[s] : \A j \in 1..Len(levels'[s][q].orders) :
                 \/ levels'[s][q].orders[j] = node
                 \/ /\ q \in DOMAIN levels[s] /\ j \in 1..Len(Orders(s, q))
                    /\ levels'[s][q].orders[j] = Orders(s, q)[j]
<1> DEFINE side == node.side
           p == node.limit_price
           old == QueueAt(side, p)
           new == levels'[side][p].orders
<1>1. /\ side \in Side /\ p \in Prices
      /\ levels' = [s \in Side |-> levels'[s]]
      /\ \A s \in Side : IsMap(levels'[s], Prices, PriceLevel)
      /\ \A s \in Side : s # side => levels'[s] = levels[s]
      /\ \A q \in DOMAIN levels[side] : q # p => levels'[side][q] = levels[side][q]
      /\ DOMAIN levels'[side] = DOMAIN levels[side] \cup {p}
  BY AddEffect
<1>2. levels'[side][p].total_quantity = QueueQuantity(new)
  BY AddEffect
<1>3. /\ Len(old) \in Nat /\ Len(new) = Len(old) + 1
      /\ \A j \in 1..Len(old) : p \in DOMAIN levels[side] /\ new[j] = Orders(side, p)[j]
      /\ new[Len(old) + 1] = node
      /\ p \in DOMAIN levels[side] => Len(old) = Len(Orders(side, p))
  BY AddEffect
<1>4. /\ active_orders' = Put(active_orders, node.id, [side |-> side, price |-> p])
      /\ next_arrival_sequence' = Increment(next_arrival_sequence)
  BY DEF AddsNode
<1>5. /\ node \in RestingOrder /\ node.id \notin DOMAIN active_orders
      /\ node.remaining_quantity \in 1..node.original_quantity
      /\ node.arrival_sequence = next_arrival_sequence /\ next_arrival_sequence # 0
      /\ \A q \in DOMAIN levels[Opposite(side)] : ~Crosses(side, q, p)
  BY DEF MayRest
<1>6. node.side = side /\ node.limit_price = p
  OBVIOUS
<1> HIDE DEF side, p, old, new
<1>7. /\ DOMAIN active_orders' = DOMAIN active_orders \cup {node.id}
      /\ active_orders'[node.id] = [side |-> side, price |-> p]
      /\ \A id \in DOMAIN active_orders : active_orders'[id] = active_orders[id]
  BY <1>4, <1>5 DEF Put
<1>8. BookType'
  <2>1. [side |-> side, price |-> p] \in OrderLocator /\ node.id \in OrderIds
    BY <1>1, <1>5 DEF OrderLocator, RestingOrder
  <2>2. IsMap(active_orders', OrderIds, OrderLocator)
    BY <1>4, <2>1 DEF BookType, IsMap, Put
  <2> QED BY <1>1, <2>2 DEF BookType
<1>9. ASSUME NEW s \in Side, NEW q \in DOMAIN levels'[s], ~ (s = side /\ q = p)
      PROVE  levels'[s][q] = levels[s][q] /\ q \in DOMAIN levels[s]
  BY <1>1, <1>9
<1>10. ASSUME NEW s \in Side, NEW q \in DOMAIN levels'[s], NEW j \in 1..Len(levels'[s][q].orders)
       PROVE  \/ levels'[s][q].orders[j] = node /\ s = side /\ q = p
              \/ /\ q \in DOMAIN levels[s] /\ j \in 1..Len(Orders(s, q))
                 /\ levels'[s][q].orders[j] = Orders(s, q)[j]
  <2>1. CASE ~ (s = side /\ q = p)
    BY <1>9, <2>1 DEF Orders
  <2>2. CASE s = side /\ q = p
    <3>1. j \in 1..(Len(old) + 1)
      BY <1>3, <2>2 DEF new
    <3>2. j \in 1..Len(old) \/ j = Len(old) + 1
      BY <1>3, <3>1
    <3>3. j \in 1..Len(old) => j \in 1..Len(Orders(side, p)) /\ p \in DOMAIN levels[side]
      BY <1>3
    <3> QED BY <1>3, <2>2, <3>2, <3>3 DEF new
  <2> QED BY <2>1, <2>2
<1>11. QueueInv'
  <2> SUFFICES ASSUME NEW s \in Side, NEW q \in DOMAIN levels'[s]
               PROVE  /\ levels'[s][q].orders # <<>>
                      /\ levels'[s][q].total_quantity = QueueQuantity(levels'[s][q].orders)
                      /\ \A j, k \in 1..Len(levels'[s][q].orders) : j < k =>
                            /\ levels'[s][q].orders[j].arrival_sequence
                                 < levels'[s][q].orders[k].arrival_sequence
                            /\ levels'[s][q].orders[j].id # levels'[s][q].orders[k].id
    BY DEF QueueInv, Orders
  <2>1. CASE ~ (s = side /\ q = p)
    BY <1>9, <2>1 DEF QueueInv, Orders
  <2>2. CASE s = side /\ q = p
    <3>1. levels'[s][q].orders = new /\ levels'[s][q].total_quantity = QueueQuantity(new)
      BY <1>2, <2>2 DEF new
    <3>2. new # <<>>
      BY <1>3
    <3>3. ASSUME NEW j \in 1..Len(new), NEW k \in 1..Len(new), j < k
          PROVE  new[j].arrival_sequence < new[k].arrival_sequence /\ new[j].id # new[k].id
      <4>1. j \in 1..Len(old) /\ (k \in 1..Len(old) \/ k = Len(old) + 1)
        BY <1>3, <3>3
      <4>2. /\ p \in DOMAIN levels[side] /\ new[j] = Orders(side, p)[j]
            /\ j \in 1..Len(Orders(side, p))
        BY <1>3, <4>1
      <4>3. Settled(Orders(side, p)[j], side, p)
        BY <1>1, <4>2 DEF NodeInv
      <4>4. CASE k \in 1..Len(old)
        <5>1. new[k] = Orders(side, p)[k] /\ k \in 1..Len(Orders(side, p))
          BY <1>3, <4>2, <4>4
        <5>2. /\ Orders(side, p)[j].arrival_sequence < Orders(side, p)[k].arrival_sequence
              /\ Orders(side, p)[j].id # Orders(side, p)[k].id
          BY <1>1, <3>3, <4>2, <5>1 DEF QueueInv
        <5> QED BY <4>2, <5>1, <5>2
      <4>5. CASE k = Len(old) + 1
        BY <1>3, <1>5, <4>2, <4>3, <4>5 DEF Settled
      <4> QED BY <4>1, <4>4, <4>5
    <3> QED BY <3>1, <3>2, <3>3
  <2> QED BY <2>1, <2>2, Zenon
<1>12. NodeInv'
  <2> SUFFICES ASSUME NEW s \in Side, NEW q \in DOMAIN levels'[s], NEW j \in 1..Len(levels'[s][q].orders)
               PROVE  Settled(Orders(s, q)[j], s, q)'
    BY DEF NodeInv, Orders
  <2> DEFINE y == levels'[s][q].orders[j]
  <2>1. Orders(s, q)'[j] = y
    BY DEF Orders
  <2>2. next_arrival_sequence' # 0 => /\ next_arrival_sequence < next_arrival_sequence'
                                      /\ next_arrival_sequence \in Int /\ next_arrival_sequence' \in Int
    BY <1>4, Incremented, ConstantsAssumption DEF Word
  <2>3. CASE y = node /\ s = side /\ q = p
    <3> HIDE DEF y
    <3>1. y.arrival_sequence # 0 /\ (next_arrival_sequence' # 0 => y.arrival_sequence < next_arrival_sequence')
      BY <1>5, <2>2, <2>3
    <3> QED BY <1>5, <1>6, <1>7, <2>1, <2>3, <3>1, Zenon DEF Settled
  <2>4. CASE q \in DOMAIN levels[s] /\ j \in 1..Len(Orders(s, q)) /\ y = Orders(s, q)[j]
    <3>1. Settled(y, s, q) /\ y \in RestingOrder
      BY <2>4, LevelType, Zenon DEF NodeInv
    <3> HIDE DEF y
    <3>2. y.arrival_sequence < next_arrival_sequence /\ y.arrival_sequence \in Int
      <4>1. y.arrival_sequence \in Word
        BY <3>1 DEF RestingOrder
      <4>2. \A i \in Word : i \in Int
        BY ConstantsAssumption DEF Word
      <4> QED BY <1>5, <3>1, <4>1, <4>2, Zenon DEF Settled
    <3>3. next_arrival_sequence' # 0 => y.arrival_sequence < next_arrival_sequence'
      BY <2>2, <3>2
    <3>4. y.id \in DOMAIN active_orders /\ active_orders'[y.id] = active_orders[y.id]
      BY <1>7, <3>1, ZenonT(30) DEF Settled
    <3> QED BY <1>7, <2>1, <3>1, <3>3, <3>4, Zenon DEF Settled
  <2> QED BY <1>10, <2>3, <2>4, Zenon
<1>13. IndexInv'
  <2> SUFFICES ASSUME NEW id \in DOMAIN active_orders'
               PROVE  /\ active_orders'[id].price \in DOMAIN levels'[active_orders'[id].side]
                      /\ \E j \in 1..Len(levels'[active_orders'[id].side][active_orders'[id].price].orders) :
                            levels'[active_orders'[id].side][active_orders'[id].price].orders[j].id = id
    BY Zenon DEF IndexInv, Orders
  <2>1. CASE id = node.id
    <3>1. active_orders'[id].side = side /\ active_orders'[id].price = p
      <4>1. active_orders'[id] = [side |-> side, price |-> p]
        BY <1>7, <2>1, Zenon
      <4> QED BY <4>1
    <3>2. p \in DOMAIN levels'[side] /\ Len(old) + 1 \in 1..Len(new) /\ new[Len(old) + 1].id = id
      BY <1>1, <1>3, <2>1
    <3> QED BY <3>1, <3>2 DEF new
  <2>2. CASE id \in DOMAIN active_orders
    <3> DEFINE s == active_orders[id].side
               q == active_orders[id].price
    <3>1. s \in Side /\ q \in DOMAIN levels[s] /\ active_orders'[id] = active_orders[id]
      BY <1>7, <2>2 DEF BookType, IndexInv, IsMap, OrderLocator
    <3>2. PICK k \in 1..Len(Orders(s, q)) : Orders(s, q)[k].id = id
      BY <2>2 DEF IndexInv
    <3> HIDE DEF s, q
    <3>3. q \in DOMAIN levels'[s] /\ k \in 1..Len(levels'[s][q].orders) /\ levels'[s][q].orders[k].id = id
      <4>1. CASE ~ (s = side /\ q = p)
        <5>1. q \in DOMAIN levels'[s]
          BY <1>1, <3>1, <4>1
        <5> QED BY <1>9, <3>1, <3>2, <4>1, <5>1 DEF Orders
      <4>2. CASE s = side /\ q = p
        <5>1. k \in 1..Len(old) /\ k \in 1..Len(new) /\ new[k] = Orders(side, p)[k]
          BY <1>3, <3>1, <3>2, <4>2
        <5> QED BY <1>1, <3>2, <4>2, <5>1 DEF new
      <4> QED BY <4>1, <4>2
    <3> QED BY <3>1, <3>3, Zenon DEF s, q
  <2> QED BY <1>7, <2>1, <2>2, Zenon
<1>14. Uncrossed'
  <2>1. \A q \in Prices : q \in Nat
    BY ConstantsAssumption
  <2>2. \A s \in Side : DOMAIN levels[s] \subseteq Prices
    BY DEF BookType, IsMap
  <2>3. CASE side = "Buy"
    <3>1. DOMAIN levels'["Buy"] = DOMAIN levels["Buy"] \cup {p} /\ levels'["Sell"] = levels["Sell"]
      BY <1>1, <2>3 DEF Side
    <3>2. \A ask \in DOMAIN levels["Sell"] : p < ask
      BY <1>1, <1>5, <2>1, <2>2, <2>3 DEF Opposite, Crosses, Side
    <3> QED BY <3>1, <3>2 DEF Uncrossed
  <2>4. CASE side = "Sell"
    <3>1. DOMAIN levels'["Sell"] = DOMAIN levels["Sell"] \cup {p} /\ levels'["Buy"] = levels["Buy"]
      BY <1>1, <2>4 DEF Side
    <3>2. \A bid \in DOMAIN levels["Buy"] : bid < p
      BY <1>1, <1>5, <2>1, <2>2, <2>4 DEF Opposite, Crosses, Side
    <3> QED BY <3>1, <3>2 DEF Uncrossed
  <2> QED BY <1>1, <2>3, <2>4 DEF Side
<1> QED BY <1>8, <1>10, <1>11, <1>12, <1>13, <1>14

-----------------------------------------------------------------------------
(* The preview of a book.                                                      *)

Offer(side, m) == levels[Opposite(side)][m[1]].orders[m[2]].remaining_quantity
Offers(side, M) == [m \in M |-> Offer(side, m)]
Before(side, M) == [m \in M |-> MakersBefore(side, M, m)]

LEMMA OppositeSide ==
    ASSUME NEW side \in Side
    PROVE  Opposite(side) \in Side /\ Opposite(side) # side
BY DEF Opposite, Side

LEMMA MakerMember ==
    ASSUME NEW side, NEW limit, NEW m
    PROVE  m \in CrossingMakers(side, limit) <=>
              \E p \in DOMAIN levels[Opposite(side)] :
                 /\ Crosses(side, p, limit)
                 /\ \E i \in 1..Len(Orders(Opposite(side), p)) : m = <<p, i>>
BY DEF CrossingMakers, Orders

LEMMA Maker ==
    ASSUME NEW side, NEW limit, NEW m \in CrossingMakers(side, limit)
    PROVE  /\ m = <<m[1], m[2]>> /\ m[1] \in DOMAIN levels[Opposite(side)]
           /\ Crosses(side, m[1], limit) /\ m[2] \in 1..Len(Orders(Opposite(side), m[1]))
<1>1. PICK p \in DOMAIN levels[Opposite(side)] :
         Crosses(side, p, limit) /\ \E i \in 1..Len(Orders(Opposite(side), p)) : m = <<p, i>>
  BY MakerMember
<1>2. PICK i \in 1..Len(Orders(Opposite(side), p)) : m = <<p, i>>
  BY <1>1
<1> QED BY <1>1, <1>2

\* There are no more makers than identifiers.
LEMMA MakersFinite ==
    ASSUME BookType, QueueInv, NodeInv, NEW side \in Side, NEW limit
    PROVE  IsFiniteSet(CrossingMakers(side, limit))
<1> DEFINE M == CrossingMakers(side, limit)
           opp == Opposite(side)
           f == [m \in M |-> Orders(opp, m[1])[m[2]].id]
<1>1. opp \in Side
  BY OppositeSide
<1>2. ASSUME NEW m \in M
      PROVE  /\ m = <<m[1], m[2]>> /\ m[1] \in DOMAIN levels[opp] /\ m[2] \in 1..Len(Orders(opp, m[1]))
             /\ Orders(opp, m[1])[m[2]].id \in OrderIds
  <2>1. m = <<m[1], m[2]>> /\ m[1] \in DOMAIN levels[opp] /\ m[2] \in 1..Len(Orders(opp, m[1]))
    BY Maker
  <2>2. Orders(opp, m[1])[m[2]] \in RestingOrder
    BY <1>1, <2>1, LevelType
  <2> QED BY <2>1, <2>2 DEF RestingOrder
<1> HIDE DEF M, opp
<1>3. f \in [M -> OrderIds]
  BY <1>2
<1>4. ASSUME NEW m \in M, NEW n \in M, f[m] = f[n] PROVE m = n
  <2>1. Orders(opp, m[1])[m[2]].id = Orders(opp, n[1])[n[2]].id
    BY <1>4
  <2>2. m[1] = n[1] /\ m[2] = n[2]
    BY <1>1, <1>2, <2>1, NodesDiffer
  <2> QED BY <1>2, <2>2
<1> HIDE DEF f
<1>5. f \in Injection(M, OrderIds)
  BY <1>3, <1>4 DEF Injection, IsInjective
<1>6. IsFiniteSet(M)
  BY <1>5, ConstantsAssumption, FS_Injection
<1> QED BY <1>6 DEF M

\* preview_match in terms of stacks.
LEMMA PreviewAsCount ==
    ASSUME BookType, QueueInv, NodeInv, NEW side \in Side, NEW limit, NEW q
    PROVE  LET M == CrossingMakers(side, limit)
               w == Offers(side, M)
               B == Before(side, M)
           IN  /\ preview_match(side, limit, q).remaining_quantity = q - Smaller(q, Size(M, w))
               /\ preview_match(side, limit, q).trade_count = Count(M, w, B, q)
               /\ MaxValue \in Nat /\ IsFiniteSet(M) /\ Size(M, w) \in Nat
               /\ \A m \in M : /\ w[m] \in 0..MaxValue /\ w[m] \in Nat \ {0} /\ B[m] \subseteq M
                               /\ w[m] = Orders(Opposite(side), m[1])[m[2]].remaining_quantity
                               /\ B[m] = MakersBefore(side, M, m)
<1> DEFINE M == CrossingMakers(side, limit)
           w == Offers(side, M)
           B == Before(side, M)
           opp == Opposite(side)
<1>1. MaxValue \in Nat /\ opp \in Side /\ IsFiniteSet(M)
  BY ConstantsAssumption, OppositeSide, MakersFinite
<1>2. ASSUME NEW m \in M
      PROVE  /\ w[m] = Orders(opp, m[1])[m[2]].remaining_quantity
             /\ w[m] \in 0..MaxValue /\ w[m] \in Nat \ {0}
  <2>1. m[1] \in DOMAIN levels[opp] /\ m[2] \in 1..Len(Orders(opp, m[1]))
    BY Maker
  <2> DEFINE x == Orders(opp, m[1])[m[2]]
  <2>2. x \in RestingOrder /\ Settled(x, opp, m[1])
    BY <1>1, <2>1, LevelType DEF NodeInv
  <2>3. w[m] = x.remaining_quantity
    BY DEF Offers, Offer, Orders
  <2> HIDE DEF x, w
  <2>4. x.remaining_quantity \in 0..MaxValue /\ x.remaining_quantity # 0
    BY <1>1, <2>2 DEF Settled, RestingOrder, Word
  <2>5. w[m] \in 0..MaxValue /\ w[m] \in Nat \ {0}
    BY <1>1, <2>3, <2>4
  <2> QED BY <2>3, <2>5 DEF x
<1>3. \A m \in M : B[m] = MakersBefore(side, M, m) /\ B[m] \subseteq M
  BY DEF Before, MakersBefore
<1>4. ASSUME NEW A \in SUBSET M PROVE Units(side, A) = Stack(A, w)
  <2>1. \A m \in A : w[m] = Offer(side, m)
    BY DEF Offers
  <2> HIDE DEF w
  <2> QED BY <2>1 DEF Units, Stack, Offer
<1>5. Size(M, w) \in Nat /\ Cardinality(Units(side, M)) = Size(M, w)
  <2>1. \A m \in M : w[m] \in 0..MaxValue
    BY <1>2
  <2>2. M \in SUBSET M
    OBVIOUS
  <2>3. Units(side, M) = Stack(M, w)
    BY <1>4, <2>2
  <2> HIDE DEF w, M
  <2> QED BY <1>1, <2>1, <2>3, StackFinite DEF Size
<1>6. {m \in M : Cardinality(Units(side, MakersBefore(side, M, m))) < q} = Visited(M, w, B, q)
  <2>1. \A m \in M : Cardinality(Units(side, MakersBefore(side, M, m))) = Size(B[m], w)
    <3> SUFFICES ASSUME NEW m \in M
                 PROVE  Cardinality(Units(side, MakersBefore(side, M, m))) = Size(B[m], w)
      OBVIOUS
    <3>1. B[m] = MakersBefore(side, M, m) /\ B[m] \in SUBSET M
      BY <1>3
    <3> HIDE DEF w, M, B
    <3> QED BY <1>4, <3>1 DEF Size
  <2> HIDE DEF w, M, B
  <2> QED BY <2>1 DEF Visited
<1>7. preview_match(side, limit, q) =
         [remaining_quantity |-> q - Smaller(q, Cardinality(Units(side, M))),
          trade_count |-> Cardinality(
             {m \in M : Cardinality(Units(side, MakersBefore(side, M, m))) < q})]
  BY DEF preview_match
<1> HIDE DEF M, w, B, opp
<1>8. /\ preview_match(side, limit, q).remaining_quantity = q - Smaller(q, Size(M, w))
      /\ preview_match(side, limit, q).trade_count = Count(M, w, B, q)
  BY <1>5, <1>6, <1>7 DEF Count
<1> QED BY <1>1, <1>2, <1>3, <1>5, <1>8, Zenon DEF M, w, B, opp

\* The same as a fact about any state, so that it holds after a step as well.
PreviewIs(side, limit, q, M, w, B) ==
    /\ preview_match(side, limit, q).remaining_quantity = q - Smaller(q, Size(M, w))
    /\ preview_match(side, limit, q).trade_count = Count(M, w, B, q)
    /\ MaxValue \in Nat /\ IsFiniteSet(M) /\ Size(M, w) \in Nat
    /\ \A m \in M : /\ w[m] \in 0..MaxValue /\ w[m] \in Nat \ {0} /\ B[m] \subseteq M
                    /\ w[m] = Orders(Opposite(side), m[1])[m[2]].remaining_quantity
                    /\ B[m] = MakersBefore(side, M, m)
    /\ \A m \in M : /\ m = <<m[1], m[2]>> /\ m[1] \in DOMAIN levels[Opposite(side)]
                    /\ Crosses(side, m[1], limit)
                    /\ m[2] \in 1..Len(Orders(Opposite(side), m[1]))
    /\ \A p \in DOMAIN levels[Opposite(side)] : \A i \in 1..Len(Orders(Opposite(side), p)) :
          Crosses(side, p, limit) => <<p, i>> \in M
PreviewFact ==
    BookType /\ QueueInv /\ NodeInv =>
        \A side \in Side : \A limit, q :
            PreviewIs(side, limit, q, CrossingMakers(side, limit),
                      Offers(side, CrossingMakers(side, limit)),
                      Before(side, CrossingMakers(side, limit)))

LEMMA PreviewHolds == PreviewFact
<1> SUFFICES ASSUME BookType, QueueInv, NodeInv, NEW side \in Side, NEW limit, NEW q
             PROVE  PreviewIs(side, limit, q, CrossingMakers(side, limit),
                              Offers(side, CrossingMakers(side, limit)),
                              Before(side, CrossingMakers(side, limit)))
  BY DEF PreviewFact
<1> DEFINE M == CrossingMakers(side, limit)
           w == Offers(side, M)
           B == Before(side, M)
<1>1. /\ preview_match(side, limit, q).remaining_quantity = q - Smaller(q, Size(M, w))
      /\ preview_match(side, limit, q).trade_count = Count(M, w, B, q)
      /\ MaxValue \in Nat /\ IsFiniteSet(M) /\ Size(M, w) \in Nat
      /\ \A m \in M : /\ w[m] \in 0..MaxValue /\ w[m] \in Nat \ {0} /\ B[m] \subseteq M
                      /\ w[m] = Orders(Opposite(side), m[1])[m[2]].remaining_quantity
                      /\ B[m] = MakersBefore(side, M, m)
  BY PreviewAsCount, Zenon
<1>2. \A m \in M : /\ m = <<m[1], m[2]>> /\ m[1] \in DOMAIN levels[Opposite(side)]
                  /\ Crosses(side, m[1], limit)
                  /\ m[2] \in 1..Len(Orders(Opposite(side), m[1]))
  BY Maker
<1>3. \A p \in DOMAIN levels[Opposite(side)] : \A i \in 1..Len(Orders(Opposite(side), p)) :
         Crosses(side, p, limit) => <<p, i>> \in M
  BY MakerMember
<1> HIDE DEF M, w, B
<1>4. PreviewIs(side, limit, q, M, w, B)
  BY <1>1, <1>2, <1>3 DEF PreviewIs
<1> QED BY <1>4 DEF M, w, B

\* The best price of a side comes before every other.
LEMMA BestPrecedes ==
    ASSUME BookType, NEW side \in Side, NEW p \in DOMAIN levels[side], IsBegin(side, p),
           NEW q \in DOMAIN levels[side]
    PROVE  /\ p \in Nat /\ q \in Nat
           /\ q # p => Precedes(side, p, q)
           /\ ~Precedes(side, q, p)
<1>1. p \in Nat /\ q \in Nat
  BY ConstantsAssumption DEF BookType, IsMap
<1>2. q # p => Precedes(side, p, q)
  BY DEF IsBegin
<1>3. ~Precedes(side, q, p)
  BY <1>1, <1>2 DEF Precedes
<1> QED BY <1>1, <1>2, <1>3

\* The head of the best level is the first maker.
LEMMA FirstMaker ==
    ASSUME BookType, QueueInv, NodeInv, NEW side \in Side, NEW limit \in Prices,
           NEW p \in DOMAIN levels[Opposite(side)], IsBegin(Opposite(side), p), Crosses(side, p, limit)
    PROVE  LET M == CrossingMakers(side, limit)
               h == <<p, 1>>
           IN  /\ h \in M /\ MakersBefore(side, M, h) = {}
               /\ \A m \in M \ {h} : h \in MakersBefore(side, M, m)
               /\ Offers(side, M)[h] = Orders(Opposite(side), p)[1].remaining_quantity
<1> DEFINE M == CrossingMakers(side, limit)
           h == <<p, 1>>
           opp == Opposite(side)
<1>1. opp \in Side /\ opp = Opposite(side) /\ p \in DOMAIN levels[opp] /\ IsBegin(opp, p)
  BY OppositeSide
<1>2. Orders(opp, p) \in Seq(RestingOrder) /\ Orders(opp, p) # <<>>
  BY <1>1, LevelType DEF QueueInv
<1>3. 1 \in 1..Len(Orders(opp, p))
  BY <1>2, TailErases
<1>4. h \in M
  BY <1>3, MakerMember
<1>5. ASSUME NEW m \in M
      PROVE  /\ m = <<m[1], m[2]>> /\ m[1] \in DOMAIN levels[opp] /\ m[2] \in 1..Len(Orders(opp, m[1]))
             /\ m[2] \in Nat \ {0}
             /\ m[1] # p => Precedes(opp, p, m[1])
             /\ ~Precedes(opp, m[1], p)
  <2>1. m = <<m[1], m[2]>> /\ m[1] \in DOMAIN levels[opp] /\ m[2] \in 1..Len(Orders(opp, m[1]))
    BY Maker
  <2>2. Len(Orders(opp, m[1])) \in Nat
    BY <1>1, <2>1, LevelType
  <2>3. m[2] \in Nat \ {0}
    BY <2>1, <2>2
  <2>4. (m[1] # p => Precedes(opp, p, m[1])) /\ ~Precedes(opp, m[1], p)
    <3> HIDE DEF opp, M
    <3> QED BY <1>1, <2>1, BestPrecedes
  <2> QED BY <2>1, <2>3, <2>4
<1> HIDE DEF M, opp
<1>6. MakersBefore(side, M, h) = {}
  <2>1. \A n \in M : ~ (n[2] < 1)
    BY <1>5
  <2>2. h[1] = p /\ h[2] = 1
    OBVIOUS
  <2> HIDE DEF h
  <2> QED BY <1>1, <1>5, <2>1, <2>2 DEF MakersBefore
<1>7. ASSUME NEW m \in M \ {h} PROVE h \in MakersBefore(side, M, m)
  <2>1. h[1] = p /\ h[2] = 1
    OBVIOUS
  <2>2. CASE m[1] = p
    <3>1. m[2] # 1
      BY <1>5, <2>2
    <3>2. 1 < m[2]
      BY <1>5, <3>1
    <3> HIDE DEF h
    <3> QED BY <1>4, <2>1, <2>2, <3>2 DEF MakersBefore
  <2>3. CASE m[1] # p
    <3>1. Precedes(opp, h[1], m[1])
      BY <1>5, <2>1, <2>3
    <3> HIDE DEF h
    <3> QED BY <1>1, <1>4, <3>1 DEF MakersBefore
  <2> QED BY <2>2, <2>3
<1>8. Offers(side, M)[h] = Orders(opp, p)[1].remaining_quantity
  BY <1>1, <1>4 DEF Offers, Offer, Orders
<1> QED BY <1>4, <1>6, <1>7, <1>8, Zenon DEF M, opp

-----------------------------------------------------------------------------
(* The set of the orders, wherever they are.                                   *)

\* A node is a place in a queue.
LEMMA NodeIs ==
    ASSUME NEW n \in Nodes
    PROVE  /\ n = <<n[1], n[2], n[3]>> /\ n[1] \in Side /\ n[2] \in DOMAIN levels[n[1]]
           /\ n[3] \in 1..Len(Orders(n[1], n[2])) /\ At(n) = Orders(n[1], n[2])[n[3]]
<1>1. PICK s \in Side : n \in UNION {{<<s, p, i>> : i \in 1..Len(levels[s][p].orders)} :
                                        p \in DOMAIN levels[s]}
  BY DEF Nodes
<1>2. PICK p \in DOMAIN levels[s] : n \in {<<s, p, i>> : i \in 1..Len(levels[s][p].orders)}
  BY <1>1
<1>3. PICK i \in 1..Len(levels[s][p].orders) : n = <<s, p, i>>
  BY <1>2
<1>4. n[1] = s /\ n[2] = p /\ n[3] = i
  BY <1>3
<1> QED BY <1>3, <1>4 DEF Orders, At

LEMMA NodeAt ==
    ASSUME NEW s \in Side, NEW p \in DOMAIN levels[s], NEW i \in 1..Len(Orders(s, p))
    PROVE  <<s, p, i>> \in Nodes /\ At(<<s, p, i>>) = Orders(s, p)[i]
<1>1. <<s, p, i>> \in {<<s, p, j>> : j \in 1..Len(levels[s][p].orders)}
  BY DEF Orders
<1>2. <<s, p, i>> \in UNION {{<<s, q, j>> : j \in 1..Len(levels[s][q].orders)} : q \in DOMAIN levels[s]}
  BY <1>1
<1>3. <<s, p, i>> \in Nodes
  BY <1>2 DEF Nodes
<1> QED BY <1>3 DEF At, Orders

AllOrders == {At(n) : n \in Nodes}
OrdersFact ==
    \A o : o \in AllOrders <=>
             \E s \in Side : \E q \in DOMAIN levels[s] : \E j \in 1..Len(Orders(s, q)) :
                o = Orders(s, q)[j]
IndexedFact ==
    BookType /\ IndexInv => \A id \in DOMAIN active_orders : \E o \in AllOrders : o.id = id

LEMMA OrdersHold == OrdersFact
<1> SUFFICES ASSUME NEW o
             PROVE  o \in AllOrders <=>
                      \E s \in Side : \E q \in DOMAIN levels[s] : \E j \in 1..Len(Orders(s, q)) :
                         o = Orders(s, q)[j]
  BY DEF OrdersFact
<1>1. ASSUME o \in AllOrders
      PROVE  \E s \in Side : \E q \in DOMAIN levels[s] : \E j \in 1..Len(Orders(s, q)) :
                o = Orders(s, q)[j]
  <2>1. PICK n \in Nodes : o = At(n)
    BY <1>1 DEF AllOrders
  <2> QED BY <2>1, NodeIs
<1>2. ASSUME NEW s \in Side, NEW q \in DOMAIN levels[s], NEW j \in 1..Len(Orders(s, q)),
             o = Orders(s, q)[j]
      PROVE  o \in AllOrders
  <2>1. <<s, q, j>> \in Nodes /\ At(<<s, q, j>>) = o
    BY <1>2, NodeAt
  <2> QED BY <2>1 DEF AllOrders
<1> QED BY <1>1, <1>2

\* The index finds an order.
LEMMA IndexedHolds == IndexedFact
<1> SUFFICES ASSUME BookType, IndexInv, NEW id \in DOMAIN active_orders
             PROVE  \E o \in AllOrders : o.id = id
  BY DEF IndexedFact
<1> DEFINE s == active_orders[id].side
           p == active_orders[id].price
<1>1. s \in Side /\ p \in DOMAIN levels[s]
  BY DEF BookType, IsMap, OrderLocator, IndexInv
<1>2. PICK i \in 1..Len(Orders(s, p)) : Orders(s, p)[i].id = id
  BY DEF IndexInv
<1> HIDE DEF s, p
<1>3. Orders(s, p)[i] \in AllOrders
  BY <1>1, OrdersHold DEF OrdersFact
<1> QED BY <1>2, <1>3

\* Two orders of the book differ in their identifiers, and each is indexed.
LEMMA OneOrder ==
    ASSUME BookType, QueueInv, NodeInv, NEW o \in AllOrders
    PROVE  /\ o.id \in DOMAIN active_orders
           /\ \A r \in AllOrders : r.id = o.id => r = o
<1>1. PICK n \in Nodes : o = At(n)
  BY DEF AllOrders
<1>2. o.id \in DOMAIN active_orders
  <2>1. Settled(At(n), n[1], n[2])
    BY NodeIs DEF NodeInv
  <2> QED BY <1>1, <2>1 DEF Settled
<1>3. ASSUME NEW r \in AllOrders, r.id = o.id PROVE r = o
  <2>1. PICK m \in Nodes : r = At(m)
    BY DEF AllOrders
  <2>2. n[1] = m[1] /\ n[2] = m[2] /\ n[3] = m[3]
    BY <1>1, <1>3, <2>1, NodeIs, NodesDiffer
  <2> QED BY <1>1, <2>1, <2>2, NodeIs
<1> QED BY <1>2, <1>3

LEMMA RemoveOrders ==
    ASSUME BookType, QueueInv, NodeInv, IndexInv, Uncrossed,
           NEW side \in Side, NEW p \in DOMAIN levels[side],
           NEW i \in 1..Len(Orders(side, p)), RemovesNode(side, p, i)
    PROVE  /\ Orders(side, p)[i] \in AllOrders
           /\ AllOrders' = AllOrders \ {Orders(side, p)[i]}
<1> DEFINE gone == Orders(side, p)[i]
<1>1. gone \in AllOrders
  BY OrdersHold DEF OrdersFact
<1>2. BookType' /\ IndexInv'
  BY RemoveInv
<1>3. OrdersFact' /\ IndexedFact'
  BY OrdersHold, IndexedHolds, PTL
<1>4. ASSUME NEW o \in AllOrders' PROVE o \in AllOrders /\ o # gone
  <2>1. PICK s \in Side : \E q \in DOMAIN levels'[s] : \E j \in 1..Len(levels'[s][q].orders) :
           o = levels'[s][q].orders[j]
    BY <1>3 DEF OrdersFact, Orders
  <2>2. PICK q \in DOMAIN levels'[s] : \E j \in 1..Len(levels'[s][q].orders) :
           o = levels'[s][q].orders[j]
    BY <2>1
  <2>3. PICK j \in 1..Len(levels'[s][q].orders) : o = levels'[s][q].orders[j]
    BY <2>2
  <2>4. /\ q \in DOMAIN levels[s] /\ j \in Nat
        /\ s = side /\ q = p =>
              /\ j < i => j \in 1..Len(Orders(s, q)) /\ levels'[s][q].orders[j] = Orders(s, q)[j]
              /\ j >= i => /\ j + 1 \in 1..Len(Orders(s, q))
                           /\ levels'[s][q].orders[j] = Orders(s, q)[j + 1]
        /\ ~ (s = side /\ q = p) => levels'[s][q] = levels[s][q]
    BY RemoveNodes
  <2>5. i \in Nat
    BY LevelType
  <2>6. PICK k \in 1..Len(Orders(s, q)) : o = Orders(s, q)[k] /\ ~ (s = side /\ q = p /\ k = i)
    <3>1. CASE s = side /\ q = p /\ j < i
      BY <2>3, <2>4, <2>5, <3>1
    <3>2. CASE s = side /\ q = p /\ j >= i
      BY <2>3, <2>4, <2>5, <3>2
    <3>3. CASE ~ (s = side /\ q = p)
      <4>1. levels'[s][q].orders = Orders(s, q)
        BY <2>4, <3>3 DEF Orders
      <4> QED BY <2>3, <3>3, <4>1
    <3> QED BY <2>4, <2>5, <3>1, <3>2, <3>3
  <2>7. o \in AllOrders
    BY <2>4, <2>6, OrdersHold DEF OrdersFact
  <2>8. o.id # gone.id
    BY <2>4, <2>6, NodesDiffer
  <2> QED BY <2>7, <2>8
<1>5. ASSUME NEW o \in AllOrders, o # gone PROVE o \in AllOrders'
  <2>1. o.id # gone.id /\ o.id \in DOMAIN active_orders
    BY <1>1, <1>5, OneOrder
  <2>2. o.id \in DOMAIN active_orders'
    BY <2>1 DEF RemovesNode, Without
  <2>3. PICK r \in AllOrders' : r.id = o.id
    BY <1>2, <1>3, <2>2 DEF IndexedFact
  <2>4. r = o
    BY <1>4, <2>3, OneOrder
  <2> QED BY <2>3, <2>4
<1> HIDE DEF gone
<1>6. AllOrders' = AllOrders \ {gone}
  BY <1>4, <1>5
<1> QED BY <1>1, <1>6 DEF gone

LEMMA ReduceOrders ==
    ASSUME BookType, QueueInv, NodeInv, IndexInv, Uncrossed,
           NEW side \in Side, NEW p \in DOMAIN levels[side], NEW e \in Nat,
           e < Orders(side, p)[1].remaining_quantity, ReducesHead(side, p, e)
    PROVE  /\ Orders(side, p)[1] \in AllOrders
           /\ AllOrders' = (AllOrders \ {Orders(side, p)[1]}) \cup
                               {[Orders(side, p)[1] EXCEPT !.remaining_quantity = @ - e]}
<1> DEFINE first == Orders(side, p)[1]
           less == [first EXCEPT !.remaining_quantity = @ - e]
<1>1. 1 \in 1..Len(Orders(side, p)) /\ \A s \in Side : DOMAIN levels'[s] = DOMAIN levels[s]
  BY ReduceEffect, Zenon
<1>2. \A s \in Side : \A q \in DOMAIN levels[s] :
         /\ Len(levels'[s][q].orders) = Len(Orders(s, q))
         /\ \A j \in 1..Len(Orders(s, q)) :
               levels'[s][q].orders[j] = IF s = side /\ q = p /\ j = 1 THEN less ELSE Orders(s, q)[j]
  <2> DEFINE Same(s, q) ==
               /\ Len(levels'[s][q].orders) = Len(Orders(s, q))
               /\ \A j \in 1..Len(Orders(s, q)) :
                     levels'[s][q].orders[j] =
                        IF s = side /\ q = p /\ j = 1
                        THEN [Orders(s, q)[j] EXCEPT !.remaining_quantity = @ - e]
                        ELSE Orders(s, q)[j]
  <2>1. \A s \in Side : \A q \in DOMAIN levels[s] : Same(s, q)
    BY ReduceInv
  <2> QED BY <2>1, Zenon
<1>3. OrdersFact'
  BY OrdersHold, PTL
<1>4. first \in AllOrders
  BY <1>1, OrdersHold DEF OrdersFact
<1> HIDE DEF less
<1>5. ASSUME NEW o \in AllOrders' PROVE o = less \/ (o \in AllOrders /\ o # first)
  <2>1. PICK s \in Side : \E q \in DOMAIN levels'[s] : \E j \in 1..Len(levels'[s][q].orders) :
           o = levels'[s][q].orders[j]
    BY <1>3 DEF OrdersFact, Orders
  <2>2. PICK q \in DOMAIN levels[s] : \E j \in 1..Len(levels'[s][q].orders) :
           o = levels'[s][q].orders[j]
    BY <1>1, <2>1
  <2>3. PICK j \in 1..Len(Orders(s, q)) : o = levels'[s][q].orders[j]
    BY <1>2, <2>2
  <2>4. CASE s = side /\ q = p /\ j = 1
    BY <1>2, <2>3, <2>4
  <2>5. CASE ~ (s = side /\ q = p /\ j = 1)
    <3>1. o = Orders(s, q)[j]
      BY <1>2, <2>3, <2>5
    <3>2. o \in AllOrders
      BY <3>1, OrdersHold DEF OrdersFact
    <3>3. o.id # first.id
      BY <1>1, <2>5, <3>1, NodesDiffer
    <3> QED BY <3>2, <3>3
  <2> QED BY <2>4, <2>5
<1>6. ASSUME NEW s \in Side, NEW q \in DOMAIN levels[s], NEW j \in 1..Len(Orders(s, q))
      PROVE  levels'[s][q].orders[j] \in AllOrders'
  <2>1. q \in DOMAIN levels'[s] /\ j \in 1..Len(levels'[s][q].orders)
    BY <1>1, <1>2
  <2> QED BY <1>3, <2>1 DEF OrdersFact, Orders
<1>7. less \in AllOrders'
  BY <1>1, <1>2, <1>6
<1>8. ASSUME NEW o \in AllOrders, o # first PROVE o \in AllOrders'
  <2>1. PICK s \in Side : \E q \in DOMAIN levels[s] : \E j \in 1..Len(Orders(s, q)) :
           o = Orders(s, q)[j]
    BY OrdersHold DEF OrdersFact
  <2>2. PICK q \in DOMAIN levels[s] : \E j \in 1..Len(Orders(s, q)) : o = Orders(s, q)[j]
    BY <2>1
  <2>3. PICK j \in 1..Len(Orders(s, q)) : o = Orders(s, q)[j]
    BY <2>2
  <2>4. levels'[s][q].orders[j] = o
    BY <1>2, <1>8, <2>3
  <2> QED BY <1>6, <2>4
<1> HIDE DEF first
<1>9. AllOrders' = (AllOrders \ {first}) \cup {less}
  BY <1>5, <1>7, <1>8
<1> QED BY <1>4, <1>9 DEF less, first

LEMMA AddOrders ==
    ASSUME BookType, QueueInv, NodeInv, IndexInv, Uncrossed, next_arrival_sequence \in Word,
           NEW node, MayRest(node), AddsNode(node)
    PROVE  AllOrders' = AllOrders \cup {node}
<1>1. BookType' /\ IndexInv'
  BY AddInv
<1>2. OrdersFact' /\ IndexedFact'
  BY OrdersHold, IndexedHolds, PTL
<1>3. node.id \notin DOMAIN active_orders /\ DOMAIN active_orders' = DOMAIN active_orders \cup {node.id}
  BY DEF MayRest, AddsNode, Put
<1>4. ASSUME NEW o \in AllOrders' PROVE o = node \/ o \in AllOrders
  <2>1. \A s \in Side : \A q \in DOMAIN levels'[s] : \A j \in 1..Len(levels'[s][q].orders) :
           \/ levels'[s][q].orders[j] = node
           \/ /\ q \in DOMAIN levels[s] /\ j \in 1..Len(Orders(s, q))
              /\ levels'[s][q].orders[j] = Orders(s, q)[j]
    BY AddInv
  <2>2. \E s \in Side : \E q \in DOMAIN levels'[s] : \E j \in 1..Len(levels'[s][q].orders) :
           o = levels'[s][q].orders[j]
    BY <1>2 DEF OrdersFact, Orders
  <2> QED BY <2>1, <2>2, OrdersHold DEF OrdersFact
<1>5. node \in AllOrders'
  <2>1. PICK r \in AllOrders' : r.id = node.id
    BY <1>1, <1>2, <1>3 DEF IndexedFact
  <2> QED BY <1>3, <1>4, <2>1, OneOrder
<1>6. ASSUME NEW o \in AllOrders PROVE o \in AllOrders'
  <2>1. o.id \in DOMAIN active_orders
    BY OneOrder
  <2>2. PICK r \in AllOrders' : r.id = o.id
    BY <1>1, <1>2, <1>3, <2>1 DEF IndexedFact
  <2>3. r \in AllOrders
    BY <1>3, <1>4, <2>1, <2>2
  <2> QED BY <2>2, <2>3, OneOrder
<1> QED BY <1>4, <1>5, <1>6

=============================================================================

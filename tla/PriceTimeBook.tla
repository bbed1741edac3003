---------------------------- MODULE PriceTimeBook ----------------------------
(***************************************************************************)
(* What the order book promises, without lists, levels, totals, index or   *)
(* counters: a set of resting orders, an arriving taker that trades with   *)
(* the best resting order as long as one crosses its limit, and a rank     *)
(* that says who came first.                                               *)
(***************************************************************************)
EXTENDS Integers, Sequences

CONSTANTS
    Ids,         \* identifiers of orders
    Limits,      \* limit prices
    Amounts,     \* quantities an order may be submitted with
    Ranks        \* ranks of arrival, a set of integers

VARIABLES
    resting,     \* the orders in the book
    taker,       \* the order being matched: a set with at most one element
    used,        \* identifiers accepted so far
    trades       \* the trades so far, in order

abstract_vars == <<resting, taker, used, trades>>

Opposed(a, b) == {a, b} = {"Buy", "Sell"}

\* A maker that the taker's limit allows it to trade with.
Tradable(t, m) ==
    /\ Opposed(t.side, m.side)
    /\ IF t.side = "Buy" THEN m.price <= t.price ELSE m.price >= t.price

\* Better price first, then earlier arrival.
Beats(m, n) ==
    \/ IF m.side = "Buy" THEN m.price > n.price ELSE m.price < n.price
    \/ m.price = n.price /\ m.rank < n.rank

Lesser(a, b) == IF a <= b THEN a ELSE b

BookInit == resting = {} /\ taker = {} /\ used = {} /\ trades = <<>>

\* A new order arrives and becomes the taker.
Arrive(id) ==
    /\ taker = {} /\ id \notin used
    /\ used' = used \cup {id}
    /\ \E side \in {"Buy", "Sell"}, price \in Limits, amount \in Amounts :
          taker' = {[id |-> id, side |-> side, price |-> price, open |-> amount]}
    /\ UNCHANGED <<resting, trades>>

\* The taker trades with the maker that beats all others, at the maker's price,
\* as much as both have open.
Trade(t, m) ==
    LET amount == Lesser(t.open, m.open)
    IN  /\ t.open > 0 /\ Tradable(t, m)
        /\ \A n \in resting : Tradable(t, n) /\ n # m => Beats(m, n)
        /\ taker' = {[t EXCEPT !.open = @ - amount]}
        /\ resting' = (resting \ {m}) \cup
               (IF m.open = amount THEN {} ELSE {[m EXCEPT !.open = @ - amount]})
        /\ trades' = Append(trades, [maker |-> m.id, taker |-> t.id,
                                     price |-> m.price, amount |-> amount])
        /\ UNCHANGED used

\* The taker has nobody left to trade with and rests behind everyone.
Queue(t, rank) ==
    /\ t.open > 0 /\ \A m \in resting : ~Tradable(t, m) /\ m.rank < rank
    /\ resting' = resting \cup {[id |-> t.id, side |-> t.side, price |-> t.price,
                                 open |-> t.open, rank |-> rank]}
    /\ taker' = {}
    /\ UNCHANGED <<used, trades>>

\* The taker is filled, or what is left of it is given up once it can trade no
\* more.
Leave(t) ==
    /\ t.open = 0 \/ \A m \in resting : ~Tradable(t, m)
    /\ taker' = {}
    /\ UNCHANGED <<resting, used, trades>>

\* A resting order is withdrawn, between two arrivals only.
Withdraw(m) ==
    /\ taker = {}
    /\ resting' = resting \ {m}
    /\ UNCHANGED <<taker, used, trades>>

\* An order is refused, or an order that does not rest is withdrawn.
Refuse == UNCHANGED abstract_vars

BookNext ==
    \/ Refuse
    \/ \E id \in Ids : Arrive(id)
    \/ \E t \in taker :
          \/ \E m \in resting : Trade(t, m)
          \/ \E rank \in Ranks : Queue(t, rank)
          \/ Leave(t)
    \/ \E m \in resting : Withdraw(m)

BookSpec == BookInit /\ [][BookNext]_abstract_vars

=============================================================================

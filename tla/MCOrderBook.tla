----------------------------- MODULE MCOrderBook -----------------------------
(***************************************************************************)
(* Small instances of OrderBook, with its views and the abstract book it   *)
(* implements.  Order identifiers are interchangeable.                     *)
(***************************************************************************)
EXTENDS OrderBookViews, OrderBookRefinement, TLC

Symmetry == Permutations(OrderIds)

=============================================================================

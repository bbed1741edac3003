--------------------------- MODULE MCDurableEngine ---------------------------
(* Small instances of DurableEngine. *)
EXTENDS DurableEngineRefinement

=============================================================================

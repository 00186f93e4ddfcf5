------------------------- MODULE MCStrategyRuntime -------------------------
(* Small instances of the strategy runtime.                                *)
EXTENDS StrategyRuntime, TLC

Symmetry == Permutations(Starts) \cup Permutations(Stops)
=============================================================================

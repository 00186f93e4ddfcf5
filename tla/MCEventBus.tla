----------------------------- MODULE MCEventBus -----------------------------
(* Small instances of the event bus.                                       *)
EXTENDS EventBus, TLC

CONSTANTS e1, e2, k1

MCEvents == {e1, e2}
MCKeys == {k1}
MCMarketOf == [e \in MCEvents |-> IF e = e1 THEN k1 ELSE None]

\* `object' and a type only e1 is an instance of.
MCEventTypes == {MCEvents, {e1}}
MCOneType == {MCEvents}

Symmetry == Permutations(Subs) \cup Permutations(Names)
=============================================================================

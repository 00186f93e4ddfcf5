------------------------ MODULE MCCommandDispatcher ------------------------
(* Small instances of the command dispatcher.                              *)
EXTENDS CommandDispatcher, TLC

CONSTANTS timed, plain, unknown, outdated

MCRequests == {timed, plain, unknown, outdated}
MCDeadlined == {timed}
MCRegistryCheck ==
    [r \in MCRequests |-> CASE r = unknown -> "unknown_command_type"
                            [] r = outdated -> "schema_version_mismatch"
                            [] OTHER -> "ok"]

Symmetry == Permutations(Calls) \cup Permutations(Keys)
=============================================================================

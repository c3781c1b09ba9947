------------------------- MODULE MCRuntimeLifecycle -------------------------
(* Two runtimes, one with a configured directory, used by two threads.     *)
EXTENDS RuntimeLifecycle, TLC

CONSTANTS configured, unconfigured, dir

Directories == [r \in {configured, unconfigured} |-> IF r = configured THEN dir ELSE Unset]
(* Threads and clients are interchangeable: nothing is ordered by them.    *)
Symmetry == Permutations(Threads) \union Permutations(Clients)
=============================================================================

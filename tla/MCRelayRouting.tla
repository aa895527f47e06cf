--------------------------- MODULE MCRelayRouting ---------------------------
(* Small instances of RelayRouting. *)
EXTENDS RelayRouting, TLC

\* Handlers and terminals are interchangeable: no definition names one of them.
Symmetry == Permutations(Handlers) \cup Permutations(Terminals)
=============================================================================

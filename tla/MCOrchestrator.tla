--------------------------- MODULE MCOrchestrator ---------------------------
(* Instances of Orchestrator for TLC. *)
EXTENDS Orchestrator, TLC

OneRegion  == {<<0, 0>>}
TwoRegions == {<<0, 0>>, <<1, 0>>}

\* Client ids and file contents are only compared for equality.
Symmetry == Permutations(Clients) \cup Permutations(Contents)

=============================================================================

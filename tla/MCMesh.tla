------------------------------- MODULE MCMesh -------------------------------
(* Instances of Mesh for TLC. *)
EXTENDS Mesh, TLC

OneRegion  == {<<0, 0>>}
TwoRegions == {<<0, 0>>, <<1, 0>>}

=============================================================================

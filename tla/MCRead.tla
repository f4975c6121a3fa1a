------------------------------- MODULE MCRead -------------------------------
(***************************************************************************)
(* Values of the constants for the model-checked instances of              *)
(* ReadEndpoints.                                                          *)
(***************************************************************************)
EXTENDS ReadEndpoints

Symmetry == Permutations(Events) \cup Permutations(Sources)

=============================================================================

--------------------------- MODULE MCMonitoring ---------------------------
(***************************************************************************)
(* Values of the constants for the model-checked instances of Monitoring.  *)
(***************************************************************************)
EXTENDS Monitoring, TLC

Symmetry == Permutations(Probes) \cup Permutations(Readers)

=============================================================================

--------------------------- MODULE MCQueueClient ---------------------------
(***************************************************************************)
(* Values of the constants for the model-checked instances of QueueClient. *)
(***************************************************************************)
EXTENDS QueueClient, TLC

Symmetry == Permutations(Coroutines)

=============================================================================

------------------------------ MODULE MCInline ------------------------------
(***************************************************************************)
(* Values of the constants for the model-checked instances of              *)
(* InlineProcessing.                                                       *)
(***************************************************************************)
EXTENDS InlineProcessing, MCPayloads, TLC

Symmetry == Permutations(Tasks) \cup Permutations(Events)

=============================================================================

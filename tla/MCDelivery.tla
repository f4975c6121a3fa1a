----------------------------- MODULE MCDelivery -----------------------------
(***************************************************************************)
(* Values of the constants for the model-checked instances of Delivery.    *)
(***************************************************************************)
EXTENDS Delivery, MCPayloads, TLC

Symmetry == Permutations(Workers) \cup Permutations(Events) \cup Permutations(Operators)

=============================================================================

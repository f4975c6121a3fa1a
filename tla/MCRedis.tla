------------------------------ MODULE MCRedis ------------------------------
(***************************************************************************)
(* Values of the constants for the model-checked instances of              *)
(* RedisDelivery.                                                          *)
(***************************************************************************)
EXTENDS RedisDelivery, MCPayloads, TLC

Symmetry == Permutations(Workers) \cup Permutations(Events)

=============================================================================

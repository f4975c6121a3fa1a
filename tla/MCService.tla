----------------------------- MODULE MCService -----------------------------
(***************************************************************************)
(* Values of the constants for the model-checked instance of Service.      *)
(***************************************************************************)
EXTENDS Service, MCIntake, MCPayloads

=============================================================================

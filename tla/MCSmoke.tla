------------------------------ MODULE MCSmoke -------------------------------
(***************************************************************************)
(* Values of the constants for the model-checked instance of SmokeCheck.   *)
(***************************************************************************)
EXTENDS SmokeCheck

ASSUME SetupAssumption == SmokeSetup

=============================================================================

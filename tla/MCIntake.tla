------------------------------ MODULE MCIntake ------------------------------
(***************************************************************************)
(* Values of the constants for the model-checked instances of Intake.      *)
(***************************************************************************)
EXTENDS Intake

CONSTANTS d1, d2

\* A request that passes every check, signed age seconds ago.
Good(delivery, age) ==
    [delivery |-> delivery, api_key |-> TRUE, valid |-> TRUE,
     timestamp |-> "integer", age |-> age, signature |-> "right"]

\* Both sides of both ends of the tolerance window, which is one second wide.
AtWindow == {Good(d1, -2), Good(d1, -1), Good(d2, 1), Good(d2, 2)}

\* One for each check that can fail.
Bad == {[Good(d1, 0) EXCEPT !.api_key = FALSE],
        [Good(d1, 0) EXCEPT !.valid = FALSE],
        [Good(d1, 0) EXCEPT !.timestamp = "absent"],
        [Good(d1, 0) EXCEPT !.timestamp = "malformed"],
        [Good(d1, 0) EXCEPT !.signature = "absent"],
        [Good(d1, 0) EXCEPT !.signature = "wrong"]}

AllHeaders  == AtWindow \cup Bad \cup {Good(NoId, 0), Good(EmptyId, 0)}
OneDelivery == {Good(d1, 0)}

=============================================================================

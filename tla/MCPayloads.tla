----------------------------- MODULE MCPayloads -----------------------------
(***************************************************************************)
(* The payloads of the model-checked instances: one that succeeds, two     *)
(* that fail a number of times first, one that always fails.               *)
(***************************************************************************)

ok     == [remaining |-> 0, force |-> FALSE]
flaky  == [remaining |-> 1, force |-> FALSE]
twice  == [remaining |-> 2, force |-> FALSE]
broken == [remaining |-> 0, force |-> TRUE]

AllPayloads  == {ok, flaky, broken}
TillRedriven == {flaky, twice, broken}
Recoverable  == {ok, flaky, twice}
FlakyOnly    == {flaky}

=============================================================================

---------------------------- MODULE MCOutboxRelay ----------------------------
(***************************************************************************)
(* Constants for model-checking OutboxRelay.                               *)
(***************************************************************************)
EXTENDS OutboxRelay

CONSTANTS w1, w2

TwoWorkers == {w1, w2}
OneWorker  == {w1}

ThreeMessages == 1..3
TwoTenants    == 1..2

\* The first tenant has a batch with and without need of the broker.
FirstHasTwo == [m \in ThreeMessages |-> IF m = 3 THEN 2 ELSE 1]
SecondNeeds == {2}

=============================================================================

------------------------- MODULE TransactionalOutbox -------------------------
(***************************************************************************)
(* What the outbox promises its writers (worker outbox.py, module comment):  *)
(* a message whose transaction committed is handed to the broker, at least  *)
(* once and never before; it is settled once, and after it was handed over. *)
(***************************************************************************)
CONSTANT Messages

VARIABLES
    committed,  \* messages whose writer's transaction committed
    handed,     \* messages the dispatcher was given
    settled     \* messages marked published

vars == <<committed, handed, settled>>

Init == committed = {} /\ handed = {} /\ settled = {}

Commit(m) ==
    /\ m \notin committed
    /\ committed' = committed \cup {m}
    /\ UNCHANGED <<handed, settled>>

HandOver(m) ==
    /\ m \in committed \ settled
    /\ handed' = handed \cup {m}
    /\ UNCHANGED <<committed, settled>>

\* A batch at a time.
Settle(batch) ==
    /\ batch # {} /\ batch \subseteq handed \ settled
    /\ settled' = settled \cup batch
    /\ UNCHANGED <<committed, handed>>

Next ==
    \/ \E m \in Messages : Commit(m) \/ HandOver(m)
    \/ \E batch \in SUBSET Messages : Settle(batch)

Spec == Init /\ [][Next]_vars

=============================================================================

------------------------------ MODULE SourceLife ------------------------------
(***************************************************************************)
(* What ConnectionTests and ExecutiveQuery, which model the edits of a data  *)
(* source by a step of their own, take it to be; DataSources implements it.  *)
(*                                                                         *)
(* A write computes the new version from the one it read, so that a version  *)
(* may be written twice and may go back.                                    *)
(***************************************************************************)
EXTENDS Naturals

VARIABLES
    status,         \* "absent", "active" or "disabled"
    version,        \* DataSource.version
    highest         \* the highest version it had; it had every one up to it

Init == status = "absent" /\ version = 0 /\ highest = 0

\* A version that was read, plus one.
Write ==
    \E read \in 1..highest :
        /\ version' = read + 1
        /\ highest' = IF read = highest THEN read + 1 ELSE highest

Create ==
    /\ status = "absent" /\ status' = "active"
    /\ version' = 1 /\ highest' = 1

\* Of a disabled source, too, by a request that read it before.
Edit == status # "absent" /\ UNCHANGED status /\ Write

\* For good.
Disable == status # "absent" /\ status' = "disabled" /\ Write

Next == Create \/ Edit \/ Disable

Spec == Init /\ [][Next]_<<status, version, highest>>

=============================================================================

-------------------------- MODULE MCExecutiveQuery --------------------------
(***************************************************************************)
(* Constants for model-checking ExecutiveQuery.                            *)
(***************************************************************************)
EXTENDS ExecutiveQuery, TLC

CONSTANTS r1, s1, s2, crm, erp, first, grown, revised, broken

OneReader == {r1}
TwoSeeders == {s1, s2}
TwoSources == {crm, erp}
FourEditions == {first, grown, revised, broken}

\* The second edition has a segment more, with a target and no actual yet; the third has
\* one there and other figures; the targets of the fourth do not add up.
Contents ==
    (first :> [total |-> 3, target |-> 3, flaws |-> {},
               slices |-> [people |-> 1, process |-> 2], targets |-> [people |-> 2, process |-> 1]])
    @@ (grown :> [total |-> 3, target |-> 5, flaws |-> {},
               slices |-> [people |-> 1, process |-> 2, technology |-> 0],
               targets |-> [people |-> 2, process |-> 1, technology |-> 2]])
    @@ (revised :> [total |-> 6, target |-> 7, flaws |-> {},
               slices |-> [people |-> 2, process |-> 1, technology |-> 3],
               targets |-> [people |-> 3, process |-> 1, technology |-> 3]])
    @@ (broken :> [total |-> 6, target |-> 6, flaws |-> {},
               slices |-> [people |-> 2, process |-> 1, technology |-> 3],
               targets |-> [people |-> 3, process |-> 1, technology |-> 3]])

\* Seeders are interchangeable, and so are sources.
BothSymmetries == Permutations(TwoSeeders) \cup Permutations(TwoSources)

=============================================================================

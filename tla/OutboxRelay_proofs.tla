------------------------- MODULE OutboxRelay_proofs -------------------------
(***************************************************************************)
(* Proofs about OutboxRelay for every set of workers, messages and tenants, *)
(* every batch size, limit and fault budget.                                *)
(***************************************************************************)
EXTENDS OutboxRelay, WellFoundedInduction, TLAPS

\* What is on record as dispatched was handed to the dispatcher, and nothing is
\* published or in a transaction's tally that was not.
HandedIsKnown ==
    /\ \A w \in Workers : out[w] \subseteq handed
    /\ \A m \in Messages : row[m] = "published" => m \in handed

\* Only committed rows are ever selected.
HandedIsCommitted == \A m \in handed : row[m] # "none"

IInv ==
    /\ TypeOK
    /\ BatchesAreDisjoint
    /\ HandedIsKnown
    /\ HandedIsCommitted

-----------------------------------------------------------------------------
(* Helpers.                                                                *)

\* The least element of a non-empty set of numbers is one of them.
LEMMA LeastElement ==
    ASSUME NEW S, S \subseteq Nat, S # {}
    PROVE  Least(S) \in S
<1> DEFINE R == OpToRel(<, Nat)
<1>1. \E x \in S : \A y \in S : <<y, x>> \notin R
    <2>1. IsWellFoundedOn(R, Nat)
        BY NatLessThanWellFounded
    <2> HIDE DEF R
    <2>2. QED BY <2>1, WFMin
<1>2. \A x, y \in Nat : <<y, x>> \notin R => x <= y
    BY DEF OpToRel
<1> HIDE DEF R
<1>3. \E x \in S : \A y \in S : x <= y
    BY <1>1, <1>2
<1>4. QED
    BY <1>3 DEF Least

\* What a transaction claims is pending, of its tenant, and locked by nobody.
LEMMA ClaimableRows ==
    ASSUME NEW t
    PROVE  /\ Claimable(t) \subseteq {m \in Messages : row[m] = "pending"}
           /\ \A w \in Workers : Claimable(t) \cap batch[w] = {}
BY DEF Claimable, FirstOf, Pending, Locked

\* The next row to dispatch is one of the batch that was not dispatched yet.
LEMMA NextOutInBatch ==
    ASSUME TypeOK, NEW w \in Workers, out[w] # batch[w]
    PROVE  NextOut(w) \in batch[w] /\ NextOut(w) \notin out[w]
<1>1. batch[w] \ out[w] # {} /\ batch[w] \ out[w] \subseteq Nat
    BY ConstantsAssumption DEF TypeOK
<1>2. QED
    BY <1>1, LeastElement DEF NextOut

\* The fault budget is never exceeded.
LEMMA FaultType ==
    ASSUME faults \in 0..MaxFaults, Fault
    PROVE  faults' \in 0..MaxFaults
BY ConstantsAssumption DEF Fault

-----------------------------------------------------------------------------
(* Types.                                                                  *)

\* A pass that ends leaves the loop's variables well-typed.
LEMMA LeavePassType ==
    ASSUME TypeOK, NEW w \in Workers, NEW to \in {"down", "idle"}, LeavePass(w, to),
           UNCHANGED <<rows, due>>, up' \in BOOLEAN,
           brokerReady' \in [Workers -> BOOLEAN], faults' \in 0..MaxFaults
    PROVE  TypeOK'
BY DEF TypeOK, LeavePass, rows

\* Every action keeps the types.
LEMMA TypeStep ==
    ASSUME TypeOK, [Next]_vars
    PROVE  TypeOK'
<1> USE DEF TypeOK, rows, loop
<1>1. ASSUME NEW w \in Workers, Boot(w)
      PROVE  TypeOK'
    BY <1>1 DEF Boot
<1>2. ASSUME NEW w \in Workers, Poll(w)
      PROVE  TypeOK'
    BY <1>2 DEF Poll, PendingTenants, FirstOf
<1>3. ASSUME NEW w \in Workers, ClaimBatch(w)
      PROVE  TypeOK'
    <2>1. PICK B \in SUBSET Messages :
            B # {} /\ batch' = [batch EXCEPT ![w] = B]
        BY <1>3, ClaimableRows DEF ClaimBatch
    <2>2. QED BY <1>3, <2>1 DEF ClaimBatch
<1>4. ASSUME NEW w \in Workers, NothingToClaim(w)
      PROVE  TypeOK'
    BY <1>4 DEF NothingToClaim
<1>5. ASSUME NEW w \in Workers, Dispatch(w)
      PROVE  TypeOK'
    BY <1>5, NextOutInBatch DEF Dispatch
<1>6. ASSUME NEW w \in Workers, CommitBatch(w)
      PROVE  TypeOK'
    BY <1>6 DEF CommitBatch
<1>7. ASSUME NEW w \in Workers, RelayDone(w)
      PROVE  TypeOK'
    BY <1>7 DEF RelayDone
<1>8. ASSUME NEW w \in Workers, Maintain(w)
      PROVE  TypeOK'
    BY <1>8 DEF Maintain
<1>9. ASSUME NEW w \in Workers, PassSucceeds(w)
      PROVE  TypeOK'
    BY <1>9 DEF PassSucceeds
<1>10. ASSUME NEW w \in Workers, DispatchFails(w)
       PROVE  TypeOK'
    BY <1>10, LeavePassType DEF DispatchFails, PassEnds
<1>11. ASSUME NEW w \in Workers, Crash(w)
       PROVE  TypeOK'
    BY <1>11, LeavePassType, FaultType DEF Crash
<1>12. ASSUME NEW w \in Workers, PassFails(w)
       PROVE  TypeOK'
    BY <1>12, LeavePassType, FaultType DEF PassFails, PassEnds
<1>13. ASSUME NEW m \in Messages, Publish(m)
       PROVE  TypeOK'
    BY <1>13 DEF Publish
<1>14. ASSUME NEW t \in Tenants, FallsDue(t)
       PROVE  TypeOK'
    BY <1>14 DEF FallsDue
<1>15. CASE BrokerFails
    BY <1>15, FaultType DEF BrokerFails
<1>16. CASE BrokerReturns
    BY <1>16 DEF BrokerReturns
<1>17. CASE UNCHANGED vars
    BY <1>17 DEF vars
<1>18. QED
    BY <1>1, <1>2, <1>3, <1>4, <1>5, <1>6, <1>7, <1>8, <1>9, <1>10, <1>11, <1>12, <1>13,
       <1>14, <1>15, <1>16, <1>17
    DEF Next, Work

-----------------------------------------------------------------------------
(* Batches and what was handed over.                                       *)

\* A pass that ends unlocks its rows, and forgets what it dispatched.
LEMMA LeavePassStep ==
    ASSUME IInv, NEW w \in Workers, NEW to, LeavePass(w, to), UNCHANGED rows
    PROVE  BatchesAreDisjoint' /\ HandedIsKnown' /\ HandedIsCommitted'
BY DEF IInv, TypeOK, BatchesAreDisjoint, HandedIsKnown, HandedIsCommitted, LeavePass, rows

\* The strengthened invariant is inductive.
LEMMA InductiveStep ==
    ASSUME IInv, [Next]_vars
    PROVE  IInv'
<1>0. TypeOK'
    BY TypeStep DEF IInv
<1> DEFINE Facts == BatchesAreDisjoint /\ HandedIsKnown /\ HandedIsCommitted
<1>1. ASSUME NEW w \in Workers, ClaimBatch(w)
      PROVE  Facts'
    <2> DEFINE B == Claimable(Least(todo[w]))
    <2>1. /\ B \subseteq {m \in Messages : row[m] = "pending"}
          /\ \A v \in Workers : B \cap batch[v] = {}
        BY ClaimableRows
    <2>2. batch' = [batch EXCEPT ![w] = B] /\ UNCHANGED <<row, handed, out>>
        BY <1>1 DEF ClaimBatch, rows
    <2> HIDE DEF B
    <2>3. QED
        BY <2>1, <2>2 DEF IInv, TypeOK, BatchesAreDisjoint, HandedIsKnown, HandedIsCommitted
<1>2. ASSUME NEW w \in Workers, Dispatch(w)
      PROVE  Facts'
    <2>1. NextOut(w) \in batch[w]
        BY <1>2, NextOutInBatch DEF Dispatch, IInv
    <2>2. row[NextOut(w)] = "pending"
        BY <2>1 DEF IInv, BatchesAreDisjoint
    <2>3. QED
        BY <1>2, <2>2
        DEF Dispatch, IInv, TypeOK, BatchesAreDisjoint, HandedIsKnown, HandedIsCommitted
<1>3. ASSUME NEW w \in Workers, CommitBatch(w)
      PROVE  Facts'
    <2>1. batch[w] \subseteq handed
        BY <1>3 DEF CommitBatch, IInv, HandedIsKnown
    <2>2. /\ row' = [m \in Messages |-> IF m \in batch[w] THEN "published" ELSE row[m]]
          /\ batch' = [batch EXCEPT ![w] = {}] /\ out' = [out EXCEPT ![w] = {}]
          /\ UNCHANGED handed
        BY <1>3 DEF CommitBatch
    <2>3. BatchesAreDisjoint'
        BY <2>2 DEF IInv, TypeOK, BatchesAreDisjoint
    <2>4. HandedIsKnown' /\ HandedIsCommitted'
        BY <2>1, <2>2 DEF IInv, TypeOK, HandedIsKnown, HandedIsCommitted
    <2>5. QED BY <2>3, <2>4
<1>4. ASSUME NEW w \in Workers, DispatchFails(w) \/ Crash(w) \/ PassFails(w)
      PROVE  Facts'
    BY <1>4, LeavePassStep DEF DispatchFails, Crash, PassFails, PassEnds
<1>5. ASSUME NEW m \in Messages, Publish(m)
      PROVE  Facts'
    BY <1>5 DEF Publish, loop, IInv, TypeOK, BatchesAreDisjoint, HandedIsKnown, HandedIsCommitted
<1>6. ASSUME UNCHANGED <<row, handed, batch, out>>
      PROVE  Facts'
    BY <1>6 DEF IInv, BatchesAreDisjoint, HandedIsKnown, HandedIsCommitted
<1>7. Facts'
    BY <1>1, <1>2, <1>3, <1>4, <1>5, <1>6
    DEF Next, Work, vars, rows, loop, Boot, Poll, NothingToClaim, RelayDone, Maintain,
        PassSucceeds, FallsDue, BrokerFails, BrokerReturns
<1>8. QED
    BY <1>0, <1>7 DEF IInv

\* The strengthened invariant holds initially ...
LEMMA InitialState == Init => IInv
BY ConstantsAssumption
DEF Init, IInv, TypeOK, BatchesAreDisjoint, HandedIsKnown, HandedIsCommitted

\* ... and always.
LEMMA Invariance == Spec => []IInv
<1>1. IInv /\ [Next]_vars => IInv'
    BY InductiveStep
<1>2. QED
    BY InitialState, <1>1, PTL DEF Spec

-----------------------------------------------------------------------------
(* Theorems.                                                               *)

\* The worker's variables keep their types.
THEOREM TypeCorrect == Spec => []TypeOK
BY Invariance, PTL DEF IInv

\* However many relays poll, fail and die, no two transactions hold the same row,
\* and none holds a row that was published (run relay).
THEOREM BatchesCorrect == Spec => []BatchesAreDisjoint
BY Invariance, PTL DEF IInv

\* A message is handed over while it is pending and in nobody else's tally.
THEOREM DuplicatesExplained == Spec => DuplicatesComeFromFailures
<1> DEFINE Fresh(w, m) == m \in out'[w] \ out[w]
           First(m) == row[m] = "pending" /\ \A v \in Workers : m \notin out[v]
<1>1. ASSUME IInv, Next, NEW w \in Workers, NEW m, Fresh(w, m)
      PROVE  First(m)
    <2>1. ASSUME NEW v \in Workers, LeavePass(v, "idle") \/ LeavePass(v, "down") \/ CommitBatch(v)
          PROVE  FALSE
        <3>1. out' = [out EXCEPT ![v] = {}]
            BY <2>1 DEF LeavePass, CommitBatch
        <3>2. out'[w] \subseteq out[w]
            BY <3>1 DEF IInv, TypeOK
        <3>3. QED BY <1>1, <3>2
    <2>2. PICK v \in Workers : Dispatch(v)
        BY <1>1, <2>1
        DEF Next, Work, loop, Boot, Poll, ClaimBatch, NothingToClaim, RelayDone, Maintain,
            PassSucceeds, DispatchFails, PassFails, PassEnds, Crash, Publish, FallsDue,
            BrokerFails, BrokerReturns
    <2>3. v = w /\ m = NextOut(w)
        <3>1. out' = [out EXCEPT ![v] = @ \cup {NextOut(v)}]
            BY <2>2 DEF Dispatch
        <3>2. QED BY <1>1, <3>1 DEF IInv, TypeOK
    <2>4. m \in batch[w] /\ m \notin out[w]
        BY <1>1, <2>2, <2>3, NextOutInBatch DEF Dispatch, IInv
    <2>5. row[m] = "pending" /\ \A u \in Workers \ {w} : m \notin batch[u]
        BY <1>1, <2>4 DEF IInv, BatchesAreDisjoint
    <2>6. QED
        BY <1>1, <2>4, <2>5 DEF IInv, TypeOK
<1>2. ASSUME IInv, [Next]_vars, NEW w \in Workers, NEW m, Fresh(w, m)
      PROVE  First(m) \/ UNCHANGED vars
    BY <1>1, <1>2
<1>3. IInv /\ [Next]_vars =>
        [\A w \in Workers : \A m \in out'[w] \ out[w] :
            /\ row[m] = "pending"
            /\ \A v \in Workers : m \notin out[v]]_vars
    BY <1>2
<1>4. QED
    BY <1>3, Invariance, PTL DEF Spec, DuplicatesComeFromFailures

-----------------------------------------------------------------------------
(* The relay implements TransactionalOutbox.                               *)

committed == {m \in Messages : row[m] # "none"}
settled   == {m \in Messages : row[m] = "published"}

\* Publication, dispatch and COMMIT are the abstract steps; the rest is invisible.
LEMMA OutboxStep ==
    ASSUME IInv, [Next]_vars
    PROVE  [Outbox!Next]_<<committed, handed, settled>>
<1>1. ASSUME NEW m \in Messages, Publish(m)
      PROVE  Outbox!Next
    <2>1. Outbox!Commit(m)
        BY <1>1 DEF Publish, Outbox!Commit, IInv, TypeOK
    <2>2. QED BY <2>1 DEF Outbox!Next
<1>2. ASSUME NEW w \in Workers, Dispatch(w)
      PROVE  Outbox!Next
    <2>1. NextOut(w) \in batch[w]
        BY <1>2, NextOutInBatch DEF Dispatch, IInv
    <2>2. NextOut(w) \in Messages /\ row[NextOut(w)] = "pending"
        BY <2>1 DEF IInv, TypeOK, BatchesAreDisjoint
    <2>3. Outbox!HandOver(NextOut(w))
        BY <1>2, <2>2 DEF Dispatch, Outbox!HandOver
    <2>4. QED BY <2>2, <2>3 DEF Outbox!Next
<1>3. ASSUME NEW w \in Workers, CommitBatch(w)
      PROVE  Outbox!Next
    <2>1. PICK B \in SUBSET Messages : B = batch[w]
        BY DEF IInv, TypeOK
    <2>2. B # {} /\ \A m \in B : m \in handed /\ row[m] = "pending"
        BY <1>3, <2>1 DEF CommitBatch, IInv, TypeOK, HandedIsKnown, BatchesAreDisjoint
    <2>3. row' = [m \in Messages |-> IF m \in B THEN "published" ELSE row[m]] /\ handed' = handed
        BY <1>3, <2>1 DEF CommitBatch
    <2>4. settled' = settled \cup B /\ committed' = committed
        BY <2>2, <2>3 DEF settled, committed
    <2>5. B \subseteq handed \ settled
        BY <2>2 DEF settled
    <2>6. Outbox!Settle(B)
        BY <2>2, <2>3, <2>4, <2>5 DEF Outbox!Settle, settled, committed
    <2>7. QED BY <2>6 DEF Outbox!Next
<1>4. CASE UNCHANGED rows
    BY <1>4 DEF rows, committed, settled
<1>5. QED
    BY <1>1, <1>2, <1>3, <1>4
    DEF Next, Work, vars, Boot, Poll, ClaimBatch, NothingToClaim, RelayDone, Maintain, PassSucceeds,
        DispatchFails, PassFails, PassEnds, Crash, FallsDue, BrokerFails, BrokerReturns

\* Whatever fails and however often: nothing is handed over before its writer
\* committed, and nothing is settled, or settled twice, that was not handed over.
THEOREM Refinement == Spec => ImplementsTransactionalOutbox
<1>1. Init => Outbox!Init
    BY DEF Init, Outbox!Init
<1>2. IInv /\ [Next]_vars => [Outbox!Next]_<<committed, handed, settled>>
    BY OutboxStep
<1>3. QED
    BY <1>1, <1>2, Invariance, PTL
    DEF Spec, ImplementsTransactionalOutbox, Outbox!Spec, Outbox!vars, committed, settled

=============================================================================

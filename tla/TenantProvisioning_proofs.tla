--------------------- MODULE TenantProvisioning_proofs ---------------------
(***************************************************************************)
(* Proofs about TenantProvisioning for every set of operators and slugs    *)
(* and every fault budget.                                                 *)
(***************************************************************************)
EXTENDS TenantProvisioning, SequenceTheorems, TLAPS

Secret(t, n, w) == [tenant |-> t, attempt |-> n, password |-> w]

\* A request holds an attempt that was really claimed.
ClaimedAttempts ==
    \A p \in Operators : pc[p] \in Owning =>
        1 <= mine[p] /\ mine[p] <= attempts[target[p]]

\* The row is locked exactly while a request is inside the plane's transaction.
LocksAreHeld ==
    /\ \A p \in Operators : pc[p] \in {"store", "ddl"} => lock[target[p]] = p
    /\ \A t \in Slugs : lock[t] # None =>
        target[lock[t]] = t /\ pc[lock[t]] \in {"store", "ddl"}

\* The fence, once passed, holds to the end of the plane's transaction.
FenceHolds == \A p \in Operators : pc[p] \in {"store", "ddl"} => Current(p)

\* Secrets belong to attempts already claimed, one secret to an attempt.
SecretsAreKeyed ==
    /\ \A s \in secrets : s.attempt <= attempts[s.tenant]
    /\ \A r, s \in secrets : r.tenant = s.tenant /\ r.attempt = s.attempt => r = s
    /\ \A p \in Operators : \A s \in secrets :
        pc[p] \in {"fence", "store"} /\ s.tenant = target[p] => s.attempt # mine[p]

\* The credential on its way from the plane to the row.
CredentialInFlight ==
    \A p \in Operators :
        /\ pc[p] = "ddl" => Secret(target[p], mine[p], Password(p)) \in secrets
        /\ pc[p] = "settle" /\ Current(p) => Secret(target[p], mine[p], role[target[p]]) \in secrets

ReadyCredential ==
    \A t \in Slugs : state[t] = "ready" => Secret(t, ref[t], role[t]) \in secrets

\* The outcomes in the trail are those of attempts that are over.
TrailIsPast ==
    \A t \in Slugs :
        /\ state[t] = "absent" <=> trail[t] = <<>>
        /\ \A i \in DOMAIN trail[t] :
            /\ trail[t][i].attempt <= attempts[t]
            /\ state[t] = "in_progress" => trail[t][i].attempt < attempts[t]

IInv ==
    /\ TypeOK
    /\ ClaimedAttempts
    /\ AttemptsAreExclusive
    /\ LocksAreHeld
    /\ FenceHolds
    /\ SecretsAreKeyed
    /\ CredentialInFlight
    /\ ReadyCredential
    /\ TrailIsPast
    /\ TrailIsConsistent
    /\ ReadyAnswersAreTrue

-----------------------------------------------------------------------------
\* The fault budget is never exceeded.
LEMMA FaultType ==
    ASSUME faults \in 0..MaxFaults, Fault
    PROVE  faults' \in 0..MaxFaults
BY ConstantsAssumption DEF Fault

\* Every action keeps the types.
LEMMA TypeStep ==
    ASSUME IInv, Next
    PROVE  TypeOK'
<1> USE ConstantsAssumption DEF IInv, TypeOK, Current, Owning, Steps, row, plane, local, States, Answers, Events, Passwords, Secrets, Password
<1>1. ASSUME NEW p \in Operators, \E t \in Slugs, call \in Calls : Start(p, t, call)
      PROVE  TypeOK'
    <2>1. PICK t \in Slugs, call \in Calls : Start(p, t, call)
        BY <1>1
    <2>2. QED BY <2>1 DEF Start, Calls
<1>2. ASSUME NEW p \in Operators, FindNothing(p)
      PROVE  TypeOK'
    BY <1>2 DEF FindNothing, Goto
<1>3. ASSUME NEW p \in Operators, Refuse(p)
      PROVE  TypeOK'
    BY <1>3 DEF Refuse, Reply
<1>4. ASSUME NEW p \in Operators, Adopt(p)
      PROVE  TypeOK'
    BY <1>4 DEF Adopt, Goto
<1>5. ASSUME NEW p \in Operators, Insert(p)
      PROVE  TypeOK'
    BY <1>5 DEF Insert, Goto, Publish
<1>6. ASSUME NEW p \in Operators, InsertRefused(p)
      PROVE  TypeOK'
    BY <1>6 DEF InsertRefused, Goto
<1>7. ASSUME NEW p \in Operators, Claim(p)
      PROVE  TypeOK'
    BY <1>7 DEF Claim, Claimable, Free
<1>8. ASSUME NEW p \in Operators, ClaimMisses(p)
      PROVE  TypeOK'
    BY <1>8 DEF ClaimMisses, Goto
<1>9. ASSUME NEW p \in Operators, ClaimExplain(p)
      PROVE  TypeOK'
    BY <1>9 DEF ClaimExplain, Reply
<1>10. ASSUME NEW p \in Operators, FencePasses(p)
      PROVE  TypeOK'
    BY <1>10 DEF FencePasses, Free, Goto
<1>11. ASSUME NEW p \in Operators, FenceRejects(p)
      PROVE  TypeOK'
    BY <1>11 DEF FenceRejects, Goto
<1>12. ASSUME NEW p \in Operators, PlaneStore(p)
      PROVE  TypeOK'
    BY <1>12, SMTT(30) DEF PlaneStore, Goto
<1>13. ASSUME NEW p \in Operators, PlaneCommit(p)
      PROVE  TypeOK'
    BY <1>13 DEF PlaneCommit, Goto, Unlock
<1>14. ASSUME NEW p \in Operators, PlaneFails(p)
      PROVE  TypeOK'
    BY <1>14, FaultType DEF PlaneFails, Goto, Unlock
<1>15. ASSUME NEW p \in Operators, PlaneCommitLost(p)
      PROVE  TypeOK'
    BY <1>15, FaultType DEF PlaneCommitLost, Goto, Unlock
<1>16. ASSUME NEW p \in Operators, Settle(p)
      PROVE  TypeOK'
    BY <1>16 DEF Settle, SettleRow, Free, Publish, Reply
<1>17. ASSUME NEW p \in Operators, SettleSuperseded(p)
      PROVE  TypeOK'
    BY <1>17 DEF SettleSuperseded, Reply
<1>18. ASSUME NEW p \in Operators, SettleFails(p)
      PROVE  TypeOK'
    BY <1>18, FaultType DEF SettleFails, Goto
<1>19. ASSUME NEW p \in Operators, SettleCommitLost(p)
      PROVE  TypeOK'
    BY <1>19, FaultType DEF SettleCommitLost, SettleRow, Free, Publish, Goto
<1>20. ASSUME NEW p \in Operators, RecordFailure(p)
      PROVE  TypeOK'
    BY <1>20 DEF RecordFailure, Publish, Free, Reply
<1>21. ASSUME NEW p \in Operators, RecordSuperseded(p)
      PROVE  TypeOK'
    BY <1>21 DEF RecordSuperseded, Reply
<1>22. ASSUME NEW p \in Operators, RecordSwallowed(p)
      PROVE  TypeOK'
    BY <1>22, FaultType DEF RecordSwallowed, Reply
<1>23. ASSUME NEW p \in Operators, Crash(p)
      PROVE  TypeOK'
    BY <1>23, FaultType DEF Crash, Reply
<1>24. ASSUME NEW t \in Slugs, Expire(t)
      PROVE  TypeOK'
    <2>1. faults' \in 0..MaxFaults
        BY <1>24, FaultType DEF Expire
    <2>2. QED BY <1>24, <2>1 DEF Expire
<1>25. QED
    BY <1>1, <1>2, <1>3, <1>4, <1>5, <1>6, <1>7, <1>8, <1>9, <1>10, <1>11, <1>12,
       <1>13, <1>14, <1>15, <1>16, <1>17, <1>18, <1>19, <1>20, <1>21, <1>22, <1>23, <1>24
    DEF Next, Progress, Failure

\* Every action keeps the credential in flight, and the one of a ready tenant,
\* equal in the secret store and in the role.
LEMMA CredentialStep ==
    ASSUME IInv, Next
    PROVE  CredentialInFlight' /\ ReadyCredential'
<1> USE ConstantsAssumption DEF IInv, TypeOK, Current, Owning, Steps, row, plane, local, ClaimedAttempts, AttemptsAreExclusive, FenceHolds, CredentialInFlight, ReadyCredential, Secret, Password
<1>1. ASSUME NEW p \in Operators, \E t \in Slugs, call \in Calls : Start(p, t, call)
      PROVE  CredentialInFlight' /\ ReadyCredential'
    <2>1. PICK t \in Slugs, call \in Calls : Start(p, t, call)
        BY <1>1
    <2>2. QED BY <2>1 DEF Start, Calls
<1>2. ASSUME NEW p \in Operators, FindNothing(p)
      PROVE  CredentialInFlight' /\ ReadyCredential'
    BY <1>2 DEF FindNothing, Goto
<1>3. ASSUME NEW p \in Operators, Refuse(p)
      PROVE  CredentialInFlight' /\ ReadyCredential'
    BY <1>3 DEF Refuse, Reply
<1>4. ASSUME NEW p \in Operators, Adopt(p)
      PROVE  CredentialInFlight' /\ ReadyCredential'
    BY <1>4 DEF Adopt, Goto
<1>5. ASSUME NEW p \in Operators, Insert(p)
      PROVE  CredentialInFlight' /\ ReadyCredential'
    BY <1>5 DEF Insert, Goto, Publish
<1>6. ASSUME NEW p \in Operators, InsertRefused(p)
      PROVE  CredentialInFlight' /\ ReadyCredential'
    BY <1>6 DEF InsertRefused, Goto
<1>7. ASSUME NEW p \in Operators, Claim(p)
      PROVE  CredentialInFlight' /\ ReadyCredential'
    <2>1. \A q \in Operators : q # p => ~Current(q)' \/ target[q] # target[p] \/ pc[q] \notin Owning
        BY <1>7 DEF Claim
    <2>2. CredentialInFlight'
        BY <1>7, <2>1 DEF Claim
    <2>3. ReadyCredential'
        BY <1>7 DEF Claim
    <2>4. QED BY <2>2, <2>3
<1>8. ASSUME NEW p \in Operators, ClaimMisses(p)
      PROVE  CredentialInFlight' /\ ReadyCredential'
    BY <1>8 DEF ClaimMisses, Goto
<1>9. ASSUME NEW p \in Operators, ClaimExplain(p)
      PROVE  CredentialInFlight' /\ ReadyCredential'
    BY <1>9 DEF ClaimExplain, Reply
<1>10. ASSUME NEW p \in Operators, FencePasses(p)
      PROVE  CredentialInFlight' /\ ReadyCredential'
    BY <1>10 DEF FencePasses, Free, Goto
<1>11. ASSUME NEW p \in Operators, FenceRejects(p)
      PROVE  CredentialInFlight' /\ ReadyCredential'
    BY <1>11 DEF FenceRejects, Goto
<1>12. ASSUME NEW p \in Operators, PlaneStore(p)
      PROVE  CredentialInFlight' /\ ReadyCredential'
    BY <1>12 DEF PlaneStore, Goto
<1>13. ASSUME NEW p \in Operators, PlaneCommit(p)
      PROVE  CredentialInFlight' /\ ReadyCredential'
    <2>1. ASSUME NEW q \in Operators, q # p, pc[q] = "settle", Current(q)
          PROVE  target[q] # target[p]
        BY <1>13, <2>1 DEF PlaneCommit
    <2>2. CredentialInFlight'
        BY <1>13, <2>1 DEF PlaneCommit, Goto, Unlock
    <2>3. ReadyCredential'
        BY <1>13 DEF PlaneCommit, Goto, Unlock
    <2>4. QED BY <2>2, <2>3
<1>14. ASSUME NEW p \in Operators, PlaneFails(p)
      PROVE  CredentialInFlight' /\ ReadyCredential'
    BY <1>14 DEF PlaneFails, Goto, Unlock, Fault
<1>15. ASSUME NEW p \in Operators, PlaneCommitLost(p)
      PROVE  CredentialInFlight' /\ ReadyCredential'
    <2>1. ASSUME NEW q \in Operators, q # p, pc[q] = "settle", Current(q)
          PROVE  target[q] # target[p]
        BY <1>15, <2>1 DEF PlaneCommitLost
    <2>2. CredentialInFlight'
        BY <1>15, <2>1 DEF PlaneCommitLost, Goto, Unlock, Fault
    <2>3. ReadyCredential'
        BY <1>15 DEF PlaneCommitLost, Goto, Unlock, Fault
    <2>4. QED BY <2>2, <2>3
<1>16. ASSUME NEW p \in Operators, Settle(p)
      PROVE  CredentialInFlight' /\ ReadyCredential'
    BY <1>16 DEF Settle, SettleRow, Free, Publish, Reply
<1>17. ASSUME NEW p \in Operators, SettleSuperseded(p)
      PROVE  CredentialInFlight' /\ ReadyCredential'
    BY <1>17 DEF SettleSuperseded, Reply
<1>18. ASSUME NEW p \in Operators, SettleFails(p)
      PROVE  CredentialInFlight' /\ ReadyCredential'
    BY <1>18 DEF SettleFails, Goto, Fault
<1>19. ASSUME NEW p \in Operators, SettleCommitLost(p)
      PROVE  CredentialInFlight' /\ ReadyCredential'
    BY <1>19 DEF SettleCommitLost, SettleRow, Free, Publish, Goto, Fault
<1>20. ASSUME NEW p \in Operators, RecordFailure(p)
      PROVE  CredentialInFlight' /\ ReadyCredential'
    BY <1>20 DEF RecordFailure, Publish, Free, Reply
<1>21. ASSUME NEW p \in Operators, RecordSuperseded(p)
      PROVE  CredentialInFlight' /\ ReadyCredential'
    BY <1>21 DEF RecordSuperseded, Reply
<1>22. ASSUME NEW p \in Operators, RecordSwallowed(p)
      PROVE  CredentialInFlight' /\ ReadyCredential'
    BY <1>22 DEF RecordSwallowed, Reply, Fault
<1>23. ASSUME NEW p \in Operators, Crash(p)
      PROVE  CredentialInFlight' /\ ReadyCredential'
    BY <1>23 DEF Crash, Reply, Fault
<1>24. ASSUME NEW t \in Slugs, Expire(t)
      PROVE  CredentialInFlight' /\ ReadyCredential'
    BY <1>24 DEF Expire, Fault
<1>25. QED
    BY <1>1, <1>2, <1>3, <1>4, <1>5, <1>6, <1>7, <1>8, <1>9, <1>10, <1>11, <1>12,
       <1>13, <1>14, <1>15, <1>16, <1>17, <1>18, <1>19, <1>20, <1>21, <1>22, <1>23, <1>24
    DEF Next, Progress, Failure

\* No action makes an answer "ready" untrue.
LEMMA AnswerStep ==
    ASSUME IInv, Next
    PROVE  ReadyAnswersAreTrue'
<1> USE ConstantsAssumption DEF IInv, TypeOK, Current, Owning, Steps, row, plane, local, FenceHolds, ReadyAnswersAreTrue
<1>1. ASSUME NEW p \in Operators, \E t \in Slugs, call \in Calls : Start(p, t, call)
      PROVE  ReadyAnswersAreTrue'
    <2>1. PICK t \in Slugs, call \in Calls : Start(p, t, call)
        BY <1>1
    <2>2. QED BY <2>1 DEF Start, Calls
<1>2. ASSUME NEW p \in Operators, FindNothing(p)
      PROVE  ReadyAnswersAreTrue'
    BY <1>2 DEF FindNothing, Goto
<1>3. ASSUME NEW p \in Operators, Refuse(p)
      PROVE  ReadyAnswersAreTrue'
    BY <1>3 DEF Refuse, Reply
<1>4. ASSUME NEW p \in Operators, Adopt(p)
      PROVE  ReadyAnswersAreTrue'
    BY <1>4 DEF Adopt, Goto
<1>5. ASSUME NEW p \in Operators, Insert(p)
      PROVE  ReadyAnswersAreTrue'
    BY <1>5 DEF Insert, Goto, Publish
<1>6. ASSUME NEW p \in Operators, InsertRefused(p)
      PROVE  ReadyAnswersAreTrue'
    BY <1>6 DEF InsertRefused, Goto
<1>7. ASSUME NEW p \in Operators, Claim(p)
      PROVE  ReadyAnswersAreTrue'
    BY <1>7 DEF Claim, Claimable, Free
<1>8. ASSUME NEW p \in Operators, ClaimMisses(p)
      PROVE  ReadyAnswersAreTrue'
    BY <1>8 DEF ClaimMisses, Goto
<1>9. ASSUME NEW p \in Operators, ClaimExplain(p)
      PROVE  ReadyAnswersAreTrue'
    BY <1>9 DEF ClaimExplain, Reply
<1>10. ASSUME NEW p \in Operators, FencePasses(p)
      PROVE  ReadyAnswersAreTrue'
    BY <1>10 DEF FencePasses, Free, Goto
<1>11. ASSUME NEW p \in Operators, FenceRejects(p)
      PROVE  ReadyAnswersAreTrue'
    BY <1>11 DEF FenceRejects, Goto
<1>12. ASSUME NEW p \in Operators, PlaneStore(p)
      PROVE  ReadyAnswersAreTrue'
    BY <1>12 DEF PlaneStore, Goto
<1>13. ASSUME NEW p \in Operators, PlaneCommit(p)
      PROVE  ReadyAnswersAreTrue'
    BY <1>13 DEF PlaneCommit, Goto, Unlock
<1>14. ASSUME NEW p \in Operators, PlaneFails(p)
      PROVE  ReadyAnswersAreTrue'
    BY <1>14 DEF PlaneFails, Goto, Unlock, Fault
<1>15. ASSUME NEW p \in Operators, PlaneCommitLost(p)
      PROVE  ReadyAnswersAreTrue'
    BY <1>15 DEF PlaneCommitLost, Goto, Unlock, Fault
<1>16. ASSUME NEW p \in Operators, Settle(p)
      PROVE  ReadyAnswersAreTrue'
    BY <1>16 DEF Settle, SettleRow, Free, Publish, Reply
<1>17. ASSUME NEW p \in Operators, SettleSuperseded(p)
      PROVE  ReadyAnswersAreTrue'
    BY <1>17 DEF SettleSuperseded, Reply
<1>18. ASSUME NEW p \in Operators, SettleFails(p)
      PROVE  ReadyAnswersAreTrue'
    BY <1>18 DEF SettleFails, Goto, Fault
<1>19. ASSUME NEW p \in Operators, SettleCommitLost(p)
      PROVE  ReadyAnswersAreTrue'
    BY <1>19 DEF SettleCommitLost, SettleRow, Free, Publish, Goto, Fault
<1>20. ASSUME NEW p \in Operators, RecordFailure(p)
      PROVE  ReadyAnswersAreTrue'
    BY <1>20 DEF RecordFailure, Publish, Free, Reply
<1>21. ASSUME NEW p \in Operators, RecordSuperseded(p)
      PROVE  ReadyAnswersAreTrue'
    BY <1>21 DEF RecordSuperseded, Reply
<1>22. ASSUME NEW p \in Operators, RecordSwallowed(p)
      PROVE  ReadyAnswersAreTrue'
    BY <1>22 DEF RecordSwallowed, Reply, Fault
<1>23. ASSUME NEW p \in Operators, Crash(p)
      PROVE  ReadyAnswersAreTrue'
    BY <1>23 DEF Crash, Reply, Fault
<1>24. ASSUME NEW t \in Slugs, Expire(t)
      PROVE  ReadyAnswersAreTrue'
    BY <1>24 DEF Expire, Fault
<1>25. QED
    BY <1>1, <1>2, <1>3, <1>4, <1>5, <1>6, <1>7, <1>8, <1>9, <1>10, <1>11, <1>12,
       <1>13, <1>14, <1>15, <1>16, <1>17, <1>18, <1>19, <1>20, <1>21, <1>22, <1>23, <1>24
    DEF Next, Progress, Failure

\* Every action keeps attempts exclusive: only _claim hands one out, a new one.
LEMMA ClaimStep ==
    ASSUME IInv, Next
    PROVE  ClaimedAttempts' /\ AttemptsAreExclusive'
<1> USE ConstantsAssumption DEF IInv, TypeOK, Current, Owning, Steps, row, plane, local, ClaimedAttempts, AttemptsAreExclusive
<1>1. ASSUME NEW p \in Operators, \E t \in Slugs, call \in Calls : Start(p, t, call)
      PROVE  ClaimedAttempts' /\ AttemptsAreExclusive'
    BY <1>1 DEF Start, Calls
<1>2. ASSUME NEW p \in Operators, FindNothing(p)
      PROVE  ClaimedAttempts' /\ AttemptsAreExclusive'
    BY <1>2 DEF FindNothing, Goto
<1>3. ASSUME NEW p \in Operators, Refuse(p)
      PROVE  ClaimedAttempts' /\ AttemptsAreExclusive'
    BY <1>3 DEF Refuse, Reply
<1>4. ASSUME NEW p \in Operators, Adopt(p)
      PROVE  ClaimedAttempts' /\ AttemptsAreExclusive'
    BY <1>4 DEF Adopt, Goto
<1>5. ASSUME NEW p \in Operators, Insert(p)
      PROVE  ClaimedAttempts' /\ AttemptsAreExclusive'
    BY <1>5 DEF Insert, Goto, Publish
<1>6. ASSUME NEW p \in Operators, InsertRefused(p)
      PROVE  ClaimedAttempts' /\ AttemptsAreExclusive'
    BY <1>6 DEF InsertRefused, Goto
<1>7. ASSUME NEW p \in Operators, Claim(p)
      PROVE  ClaimedAttempts' /\ AttemptsAreExclusive'
    BY <1>7 DEF Claim, Claimable, Free
<1>8. ASSUME NEW p \in Operators, ClaimMisses(p)
      PROVE  ClaimedAttempts' /\ AttemptsAreExclusive'
    BY <1>8 DEF ClaimMisses, Goto
<1>9. ASSUME NEW p \in Operators, ClaimExplain(p)
      PROVE  ClaimedAttempts' /\ AttemptsAreExclusive'
    BY <1>9 DEF ClaimExplain, Reply
<1>10. ASSUME NEW p \in Operators, FencePasses(p)
      PROVE  ClaimedAttempts' /\ AttemptsAreExclusive'
    BY <1>10 DEF FencePasses, Free, Goto
<1>11. ASSUME NEW p \in Operators, FenceRejects(p)
      PROVE  ClaimedAttempts' /\ AttemptsAreExclusive'
    BY <1>11 DEF FenceRejects, Goto
<1>12. ASSUME NEW p \in Operators, PlaneStore(p)
      PROVE  ClaimedAttempts' /\ AttemptsAreExclusive'
    BY <1>12 DEF PlaneStore, Goto
<1>13. ASSUME NEW p \in Operators, PlaneCommit(p)
      PROVE  ClaimedAttempts' /\ AttemptsAreExclusive'
    BY <1>13 DEF PlaneCommit, Goto, Unlock
<1>14. ASSUME NEW p \in Operators, PlaneFails(p)
      PROVE  ClaimedAttempts' /\ AttemptsAreExclusive'
    BY <1>14 DEF PlaneFails, Goto, Unlock, Fault
<1>15. ASSUME NEW p \in Operators, PlaneCommitLost(p)
      PROVE  ClaimedAttempts' /\ AttemptsAreExclusive'
    BY <1>15 DEF PlaneCommitLost, Goto, Unlock, Fault
<1>16. ASSUME NEW p \in Operators, Settle(p)
      PROVE  ClaimedAttempts' /\ AttemptsAreExclusive'
    BY <1>16 DEF Settle, SettleRow, Free, Publish, Reply
<1>17. ASSUME NEW p \in Operators, SettleSuperseded(p)
      PROVE  ClaimedAttempts' /\ AttemptsAreExclusive'
    BY <1>17 DEF SettleSuperseded, Reply
<1>18. ASSUME NEW p \in Operators, SettleFails(p)
      PROVE  ClaimedAttempts' /\ AttemptsAreExclusive'
    BY <1>18 DEF SettleFails, Goto, Fault
<1>19. ASSUME NEW p \in Operators, SettleCommitLost(p)
      PROVE  ClaimedAttempts' /\ AttemptsAreExclusive'
    BY <1>19 DEF SettleCommitLost, SettleRow, Free, Publish, Goto, Fault
<1>20. ASSUME NEW p \in Operators, RecordFailure(p)
      PROVE  ClaimedAttempts' /\ AttemptsAreExclusive'
    BY <1>20 DEF RecordFailure, Publish, Free, Reply
<1>21. ASSUME NEW p \in Operators, RecordSuperseded(p)
      PROVE  ClaimedAttempts' /\ AttemptsAreExclusive'
    BY <1>21 DEF RecordSuperseded, Reply
<1>22. ASSUME NEW p \in Operators, RecordSwallowed(p)
      PROVE  ClaimedAttempts' /\ AttemptsAreExclusive'
    BY <1>22 DEF RecordSwallowed, Reply, Fault
<1>23. ASSUME NEW p \in Operators, Crash(p)
      PROVE  ClaimedAttempts' /\ AttemptsAreExclusive'
    BY <1>23 DEF Crash, Reply, Fault
<1>24. ASSUME NEW t \in Slugs, Expire(t)
      PROVE  ClaimedAttempts' /\ AttemptsAreExclusive'
    BY <1>24 DEF Expire, Fault
<1>25. QED
    BY <1>1, <1>2, <1>3, <1>4, <1>5, <1>6, <1>7, <1>8, <1>9, <1>10, <1>11, <1>12,
       <1>13, <1>14, <1>15, <1>16, <1>17, <1>18, <1>19, <1>20, <1>21, <1>22, <1>23, <1>24
    DEF Next, Progress, Failure

\* Every action keeps the row lock with the request inside the plane.
LEMMA LockStep ==
    ASSUME IInv, Next
    PROVE  LocksAreHeld'
<1> USE ConstantsAssumption DEF IInv, TypeOK, Current, Owning, Steps, row, plane, local, LocksAreHeld
<1>1. ASSUME NEW p \in Operators, \E t \in Slugs, call \in Calls : Start(p, t, call)
      PROVE  LocksAreHeld'
    BY <1>1, SMTT(30) DEF Start, Calls
<1>2. ASSUME NEW p \in Operators, FindNothing(p)
      PROVE  LocksAreHeld'
    BY <1>2 DEF FindNothing, Goto
<1>3. ASSUME NEW p \in Operators, Refuse(p)
      PROVE  LocksAreHeld'
    BY <1>3 DEF Refuse, Reply
<1>4. ASSUME NEW p \in Operators, Adopt(p)
      PROVE  LocksAreHeld'
    BY <1>4 DEF Adopt, Goto
<1>5. ASSUME NEW p \in Operators, Insert(p)
      PROVE  LocksAreHeld'
    BY <1>5 DEF Insert, Goto, Publish
<1>6. ASSUME NEW p \in Operators, InsertRefused(p)
      PROVE  LocksAreHeld'
    BY <1>6 DEF InsertRefused, Goto
<1>7. ASSUME NEW p \in Operators, Claim(p)
      PROVE  LocksAreHeld'
    BY <1>7 DEF Claim, Claimable, Free
<1>8. ASSUME NEW p \in Operators, ClaimMisses(p)
      PROVE  LocksAreHeld'
    BY <1>8 DEF ClaimMisses, Goto
<1>9. ASSUME NEW p \in Operators, ClaimExplain(p)
      PROVE  LocksAreHeld'
    BY <1>9 DEF ClaimExplain, Reply
<1>10. ASSUME NEW p \in Operators, FencePasses(p)
      PROVE  LocksAreHeld'
    BY <1>10 DEF FencePasses, Free, Goto
<1>11. ASSUME NEW p \in Operators, FenceRejects(p)
      PROVE  LocksAreHeld'
    BY <1>11 DEF FenceRejects, Goto
<1>12. ASSUME NEW p \in Operators, PlaneStore(p)
      PROVE  LocksAreHeld'
    BY <1>12 DEF PlaneStore, Goto
<1>13. ASSUME NEW p \in Operators, PlaneCommit(p)
      PROVE  LocksAreHeld'
    BY <1>13 DEF PlaneCommit, Goto, Unlock
<1>14. ASSUME NEW p \in Operators, PlaneFails(p)
      PROVE  LocksAreHeld'
    BY <1>14, SMTT(30) DEF PlaneFails, Goto, Unlock, Fault
<1>15. ASSUME NEW p \in Operators, PlaneCommitLost(p)
      PROVE  LocksAreHeld'
    BY <1>15 DEF PlaneCommitLost, Goto, Unlock, Fault
<1>16. ASSUME NEW p \in Operators, Settle(p)
      PROVE  LocksAreHeld'
    BY <1>16 DEF Settle, SettleRow, Free, Publish, Reply
<1>17. ASSUME NEW p \in Operators, SettleSuperseded(p)
      PROVE  LocksAreHeld'
    BY <1>17 DEF SettleSuperseded, Reply
<1>18. ASSUME NEW p \in Operators, SettleFails(p)
      PROVE  LocksAreHeld'
    BY <1>18 DEF SettleFails, Goto, Fault
<1>19. ASSUME NEW p \in Operators, SettleCommitLost(p)
      PROVE  LocksAreHeld'
    BY <1>19 DEF SettleCommitLost, SettleRow, Free, Publish, Goto, Fault
<1>20. ASSUME NEW p \in Operators, RecordFailure(p)
      PROVE  LocksAreHeld'
    BY <1>20 DEF RecordFailure, Publish, Free, Reply
<1>21. ASSUME NEW p \in Operators, RecordSuperseded(p)
      PROVE  LocksAreHeld'
    BY <1>21 DEF RecordSuperseded, Reply
<1>22. ASSUME NEW p \in Operators, RecordSwallowed(p)
      PROVE  LocksAreHeld'
    BY <1>22 DEF RecordSwallowed, Reply, Fault
<1>23. ASSUME NEW p \in Operators, Crash(p)
      PROVE  LocksAreHeld'
    BY <1>23 DEF Crash, Reply, Fault
<1>24. ASSUME NEW t \in Slugs, Expire(t)
      PROVE  LocksAreHeld'
    BY <1>24 DEF Expire, Fault
<1>25. QED
    BY <1>1, <1>2, <1>3, <1>4, <1>5, <1>6, <1>7, <1>8, <1>9, <1>10, <1>11, <1>12,
       <1>13, <1>14, <1>15, <1>16, <1>17, <1>18, <1>19, <1>20, <1>21, <1>22, <1>23, <1>24
    DEF Next, Progress, Failure

\* No action takes the row away from the request that holds its lock.
LEMMA FenceStep ==
    ASSUME IInv, Next
    PROVE  FenceHolds'
<1> USE ConstantsAssumption DEF IInv, TypeOK, Current, Owning, Steps, row, plane, local, ClaimedAttempts, AttemptsAreExclusive, LocksAreHeld, FenceHolds
<1>1. ASSUME NEW p \in Operators, \E t \in Slugs, call \in Calls : Start(p, t, call)
      PROVE  FenceHolds'
    BY <1>1 DEF Start, Calls
<1>2. ASSUME NEW p \in Operators, FindNothing(p)
      PROVE  FenceHolds'
    BY <1>2 DEF FindNothing, Goto
<1>3. ASSUME NEW p \in Operators, Refuse(p)
      PROVE  FenceHolds'
    BY <1>3 DEF Refuse, Reply
<1>4. ASSUME NEW p \in Operators, Adopt(p)
      PROVE  FenceHolds'
    BY <1>4 DEF Adopt, Goto
<1>5. ASSUME NEW p \in Operators, Insert(p)
      PROVE  FenceHolds'
    BY <1>5 DEF Insert, Goto, Publish
<1>6. ASSUME NEW p \in Operators, InsertRefused(p)
      PROVE  FenceHolds'
    BY <1>6 DEF InsertRefused, Goto
<1>7. ASSUME NEW p \in Operators, Claim(p)
      PROVE  FenceHolds'
    BY <1>7 DEF Claim, Claimable, Free
<1>8. ASSUME NEW p \in Operators, ClaimMisses(p)
      PROVE  FenceHolds'
    BY <1>8 DEF ClaimMisses, Goto
<1>9. ASSUME NEW p \in Operators, ClaimExplain(p)
      PROVE  FenceHolds'
    BY <1>9 DEF ClaimExplain, Reply
<1>10. ASSUME NEW p \in Operators, FencePasses(p)
      PROVE  FenceHolds'
    BY <1>10 DEF FencePasses, Free, Goto
<1>11. ASSUME NEW p \in Operators, FenceRejects(p)
      PROVE  FenceHolds'
    BY <1>11 DEF FenceRejects, Goto
<1>12. ASSUME NEW p \in Operators, PlaneStore(p)
      PROVE  FenceHolds'
    BY <1>12 DEF PlaneStore, Goto
<1>13. ASSUME NEW p \in Operators, PlaneCommit(p)
      PROVE  FenceHolds'
    BY <1>13 DEF PlaneCommit, Goto, Unlock
<1>14. ASSUME NEW p \in Operators, PlaneFails(p)
      PROVE  FenceHolds'
    BY <1>14 DEF PlaneFails, Goto, Unlock, Fault
<1>15. ASSUME NEW p \in Operators, PlaneCommitLost(p)
      PROVE  FenceHolds'
    BY <1>15 DEF PlaneCommitLost, Goto, Unlock, Fault
<1>16. ASSUME NEW p \in Operators, Settle(p)
      PROVE  FenceHolds'
    BY <1>16 DEF Settle, SettleRow, Free, Publish, Reply
<1>17. ASSUME NEW p \in Operators, SettleSuperseded(p)
      PROVE  FenceHolds'
    BY <1>17 DEF SettleSuperseded, Reply
<1>18. ASSUME NEW p \in Operators, SettleFails(p)
      PROVE  FenceHolds'
    BY <1>18 DEF SettleFails, Goto, Fault
<1>19. ASSUME NEW p \in Operators, SettleCommitLost(p)
      PROVE  FenceHolds'
    BY <1>19 DEF SettleCommitLost, SettleRow, Free, Publish, Goto, Fault
<1>20. ASSUME NEW p \in Operators, RecordFailure(p)
      PROVE  FenceHolds'
    BY <1>20 DEF RecordFailure, Publish, Free, Reply
<1>21. ASSUME NEW p \in Operators, RecordSuperseded(p)
      PROVE  FenceHolds'
    BY <1>21 DEF RecordSuperseded, Reply
<1>22. ASSUME NEW p \in Operators, RecordSwallowed(p)
      PROVE  FenceHolds'
    BY <1>22 DEF RecordSwallowed, Reply, Fault
<1>23. ASSUME NEW p \in Operators, Crash(p)
      PROVE  FenceHolds'
    BY <1>23 DEF Crash, Reply, Fault
<1>24. ASSUME NEW t \in Slugs, Expire(t)
      PROVE  FenceHolds'
    BY <1>24 DEF Expire, Fault
<1>25. QED
    BY <1>1, <1>2, <1>3, <1>4, <1>5, <1>6, <1>7, <1>8, <1>9, <1>10, <1>11, <1>12,
       <1>13, <1>14, <1>15, <1>16, <1>17, <1>18, <1>19, <1>20, <1>21, <1>22, <1>23, <1>24
    DEF Next, Progress, Failure

\* Every action keeps secrets keyed by attempts that were claimed.
LEMMA SecretStep ==
    ASSUME IInv, Next
    PROVE  SecretsAreKeyed'
<1> USE ConstantsAssumption DEF IInv, TypeOK, Current, Owning, Steps, row, plane, local, Secrets, ClaimedAttempts, AttemptsAreExclusive, FenceHolds, SecretsAreKeyed
<1>1. ASSUME NEW p \in Operators, \E t \in Slugs, call \in Calls : Start(p, t, call)
      PROVE  SecretsAreKeyed'
    BY <1>1 DEF Start, Calls
<1>2. ASSUME NEW p \in Operators, FindNothing(p)
      PROVE  SecretsAreKeyed'
    BY <1>2 DEF FindNothing, Goto
<1>3. ASSUME NEW p \in Operators, Refuse(p)
      PROVE  SecretsAreKeyed'
    BY <1>3 DEF Refuse, Reply
<1>4. ASSUME NEW p \in Operators, Adopt(p)
      PROVE  SecretsAreKeyed'
    BY <1>4 DEF Adopt, Goto
<1>5. ASSUME NEW p \in Operators, Insert(p)
      PROVE  SecretsAreKeyed'
    BY <1>5 DEF Insert, Goto, Publish
<1>6. ASSUME NEW p \in Operators, InsertRefused(p)
      PROVE  SecretsAreKeyed'
    BY <1>6 DEF InsertRefused, Goto
<1>7. ASSUME NEW p \in Operators, Claim(p)
      PROVE  SecretsAreKeyed'
    BY <1>7 DEF Claim, Claimable, Free
<1>8. ASSUME NEW p \in Operators, ClaimMisses(p)
      PROVE  SecretsAreKeyed'
    BY <1>8 DEF ClaimMisses, Goto
<1>9. ASSUME NEW p \in Operators, ClaimExplain(p)
      PROVE  SecretsAreKeyed'
    BY <1>9 DEF ClaimExplain, Reply
<1>10. ASSUME NEW p \in Operators, FencePasses(p)
      PROVE  SecretsAreKeyed'
    BY <1>10 DEF FencePasses, Free, Goto
<1>11. ASSUME NEW p \in Operators, FenceRejects(p)
      PROVE  SecretsAreKeyed'
    BY <1>11 DEF FenceRejects, Goto
<1>12. ASSUME NEW p \in Operators, PlaneStore(p)
      PROVE  SecretsAreKeyed'
    BY <1>12 DEF PlaneStore, Goto
<1>13. ASSUME NEW p \in Operators, PlaneCommit(p)
      PROVE  SecretsAreKeyed'
    BY <1>13 DEF PlaneCommit, Goto, Unlock
<1>14. ASSUME NEW p \in Operators, PlaneFails(p)
      PROVE  SecretsAreKeyed'
    BY <1>14 DEF PlaneFails, Goto, Unlock, Fault
<1>15. ASSUME NEW p \in Operators, PlaneCommitLost(p)
      PROVE  SecretsAreKeyed'
    BY <1>15 DEF PlaneCommitLost, Goto, Unlock, Fault
<1>16. ASSUME NEW p \in Operators, Settle(p)
      PROVE  SecretsAreKeyed'
    BY <1>16 DEF Settle, SettleRow, Free, Publish, Reply
<1>17. ASSUME NEW p \in Operators, SettleSuperseded(p)
      PROVE  SecretsAreKeyed'
    BY <1>17 DEF SettleSuperseded, Reply
<1>18. ASSUME NEW p \in Operators, SettleFails(p)
      PROVE  SecretsAreKeyed'
    BY <1>18 DEF SettleFails, Goto, Fault
<1>19. ASSUME NEW p \in Operators, SettleCommitLost(p)
      PROVE  SecretsAreKeyed'
    BY <1>19 DEF SettleCommitLost, SettleRow, Free, Publish, Goto, Fault
<1>20. ASSUME NEW p \in Operators, RecordFailure(p)
      PROVE  SecretsAreKeyed'
    BY <1>20 DEF RecordFailure, Publish, Free, Reply
<1>21. ASSUME NEW p \in Operators, RecordSuperseded(p)
      PROVE  SecretsAreKeyed'
    BY <1>21 DEF RecordSuperseded, Reply
<1>22. ASSUME NEW p \in Operators, RecordSwallowed(p)
      PROVE  SecretsAreKeyed'
    BY <1>22 DEF RecordSwallowed, Reply, Fault
<1>23. ASSUME NEW p \in Operators, Crash(p)
      PROVE  SecretsAreKeyed'
    BY <1>23 DEF Crash, Reply, Fault
<1>24. ASSUME NEW t \in Slugs, Expire(t)
      PROVE  SecretsAreKeyed'
    BY <1>24 DEF Expire, Fault
<1>25. QED
    BY <1>1, <1>2, <1>3, <1>4, <1>5, <1>6, <1>7, <1>8, <1>9, <1>10, <1>11, <1>12,
       <1>13, <1>14, <1>15, <1>16, <1>17, <1>18, <1>19, <1>20, <1>21, <1>22, <1>23, <1>24
    DEF Next, Progress, Failure

\* Events carry attempt numbers.
LEMMA TrailAttempts ==
    ASSUME TypeOK, NEW t \in Slugs
    PROVE  \A i \in DOMAIN trail[t] : trail[t][i].attempt \in Nat
<1>1. trail[t] \in Seq(Events)
    BY DEF TypeOK
<1>2. ASSUME NEW i \in DOMAIN trail[t]
      PROVE  trail[t][i] \in Events
    BY <1>1, ElementOfSeq, LenProperties
<1>3. QED
    BY <1>2 DEF Events

\* What appending one event does to the trails.
LEMMA Published ==
    ASSUME TypeOK, NEW t \in Slugs, NEW n \in Nat,
           NEW kind \in {"registered", "provisioned", "failed"}, Publish(t, kind, n)
    PROVE  /\ \A u \in Slugs : u # t => trail'[u] = trail[u]
           /\ trail[t] \in Seq(Events) /\ Len(trail[t]) \in Nat
           /\ DOMAIN trail[t] = 1..Len(trail[t])
           /\ trail'[t] # <<>> /\ Len(trail'[t]) = Len(trail[t]) + 1
           /\ DOMAIN trail'[t] = 1..(Len(trail[t]) + 1)
           /\ \A i \in DOMAIN trail[t] : trail'[t][i] = trail[t][i]
           /\ trail'[t][Len(trail[t]) + 1] = [kind |-> kind, attempt |-> n]
<1> DEFINE e == [kind |-> kind, attempt |-> n]
<1>1. trail'[t] = Append(trail[t], e) /\ \A u \in Slugs : u # t => trail'[u] = trail[u]
    BY DEF TypeOK, Publish
<1>2. trail[t] \in Seq(Events) /\ e \in Events
    BY DEF TypeOK, Events
<1> HIDE DEF e
<1>3. QED
    BY <1>1, <1>2, AppendProperties DEF e

\* An outcome of an attempt later than every event so far extends the story.
LEMMA TrailGrows ==
    ASSUME TypeOK, TrailIsPast, TrailIsConsistent,
           NEW t \in Slugs, NEW n \in Nat, NEW kind \in {"registered", "provisioned", "failed"},
           Publish(t, kind, n), UNCHANGED attempts,
           \A u \in Slugs : u # t => state'[u] = state[u],
           state'[t] # "absent", state'[t] # "in_progress",
           state[t] # "ready", n <= attempts[t],
           \A i \in DOMAIN trail[t] : trail[t][i].attempt < n,
           kind = "registered" <=> state[t] = "absent",
           kind = "provisioned" <=> state'[t] = "ready"
    PROVE  TrailIsPast' /\ TrailIsConsistent'
<1>1. /\ trail[t] \in Seq(Events) /\ Len(trail[t]) \in Nat
      /\ DOMAIN trail[t] = 1..Len(trail[t])
      /\ trail'[t] # <<>> /\ Len(trail'[t]) = Len(trail[t]) + 1
      /\ DOMAIN trail'[t] = 1..(Len(trail[t]) + 1)
      /\ \A i \in DOMAIN trail[t] : trail'[t][i] = trail[t][i]
      /\ trail'[t][Len(trail[t]) + 1] = [kind |-> kind, attempt |-> n]
    BY Published, ZenonT(40)
<1>2. \A u \in Slugs : u # t => trail'[u] = trail[u] /\ state'[u] = state[u]
    BY Published, ZenonT(40)
<1>3. attempts' = attempts /\ attempts[t] \in Nat
    BY DEF TypeOK
<1>4. \A i \in DOMAIN trail[t] : trail[t][i].attempt \in Nat
    BY TrailAttempts
<1>5. trail[t] = <<>> <=> Len(trail[t]) = 0
    BY <1>1, EmptySeq
<1>6. TrailIsPast'
    <2>1. ASSUME NEW i \in DOMAIN trail'[t]
          PROVE  trail'[t][i].attempt <= attempts'[t]
        BY <1>1, <1>3, SMTT(30) DEF TrailIsPast
    <2>2. QED BY <1>1, <1>2, <1>3, <2>1 DEF TrailIsPast
<1>7. ASSUME NEW i \in DOMAIN trail'[t], NEW j \in DOMAIN trail'[t], i < j
      PROVE  trail'[t][i].attempt < trail'[t][j].attempt
    <2>1. i \in DOMAIN trail[t]
        BY <1>1, <1>7
    <2>2. CASE j \in DOMAIN trail[t]
        BY <1>1, <1>7, <2>1, <2>2 DEF TrailIsConsistent
    <2>3. CASE j = Len(trail[t]) + 1
        BY <1>1, <2>1, <2>3
    <2>4. QED BY <1>1, <2>2, <2>3
<1>8. ASSUME NEW i \in DOMAIN trail'[t]
      PROVE  /\ trail'[t][i].kind = "registered" <=> i = 1
             /\ trail'[t][i].kind = "provisioned" <=> state'[t] = "ready" /\ i = Len(trail'[t])
    <2>1. CASE i \in DOMAIN trail[t]
        BY <1>1, <2>1 DEF TrailIsConsistent
    <2>2. CASE i = Len(trail[t]) + 1
        BY <1>1, <1>3, <1>5, <2>2 DEF TrailIsPast
    <2>3. QED BY <1>1, <2>1, <2>2
<1>9. TrailIsConsistent'
    <2>1. SUFFICES ASSUME NEW u \in Slugs
                   PROVE  /\ \A i, j \in DOMAIN trail'[u] :
                                i < j => trail'[u][i].attempt < trail'[u][j].attempt
                          /\ \A i \in DOMAIN trail'[u] :
                                /\ trail'[u][i].kind = "registered" <=> i = 1
                                /\ trail'[u][i].kind = "provisioned"
                                    <=> state'[u] = "ready" /\ i = Len(trail'[u])
                          /\ state'[u] = "ready" => trail'[u] # <<>>
        BY DEF TrailIsConsistent
    <2>2. CASE u = t
        BY <1>1, <1>7, <1>8, <2>2
    <2>3. CASE u # t
        BY <1>2, <2>3 DEF TrailIsConsistent
    <2>4. QED BY <2>2, <2>3
<1>10. QED
    BY <1>6, <1>9

\* Every action keeps the trails consistent.
LEMMA TrailStep ==
    ASSUME IInv, Next
    PROVE  TrailIsPast' /\ TrailIsConsistent'
<1> USE DEF IInv
<1>1. CASE UNCHANGED <<state, attempts, trail>>
    BY <1>1 DEF TrailIsPast, TrailIsConsistent
<1>2. ASSUME NEW p \in Operators, Insert(p)
      PROVE  TrailIsPast' /\ TrailIsConsistent'
    <2> DEFINE t == target[p]
    <2>1. /\ t \in Slugs /\ state[t] = "absent" /\ trail[t] = <<>> /\ attempts[t] \in Nat
          /\ Publish(t, "registered", 0) /\ UNCHANGED attempts
          /\ state'[t] = "pending" /\ \A u \in Slugs : u # t => state'[u] = state[u]
        BY <1>2 DEF Insert, TypeOK, TrailIsPast
    <2> HIDE DEF t
    <2>2. QED
        BY <2>1, TrailGrows
<1>3. ASSUME NEW p \in Operators, Claim(p)
      PROVE  TrailIsPast' /\ TrailIsConsistent'
    <2> DEFINE t == target[p]
    <2>1. /\ t \in Slugs /\ state[t] \notin {"absent", "ready"} /\ attempts[t] \in Nat
          /\ UNCHANGED trail
          /\ state' = [state EXCEPT ![t] = "in_progress"]
          /\ attempts' = [attempts EXCEPT ![t] = attempts[t] + 1]
        BY <1>3 DEF Claim, Claimable, TypeOK
    <2>2. \A i \in DOMAIN trail[t] : trail[t][i].attempt \in Nat
        BY <2>1, TrailAttempts
    <2> HIDE DEF t
    <2>3. TrailIsPast'
        BY <2>1, <2>2 DEF TrailIsPast, TypeOK
    <2>4. TrailIsConsistent'
        BY <2>1 DEF TrailIsConsistent, TypeOK
    <2>5. QED BY <2>3, <2>4
<1>4. ASSUME NEW p \in Operators, SettleRow(p) \/ RecordFailure(p)
      PROVE  TrailIsPast' /\ TrailIsConsistent'
    <2> DEFINE t == target[p]
    <2>1. /\ t \in Slugs /\ state[t] = "in_progress" /\ mine[p] = attempts[t] /\ mine[p] \in Nat
          /\ \A i \in DOMAIN trail[t] : trail[t][i].attempt < mine[p]
        BY <1>4 DEF SettleRow, RecordFailure, Current, TypeOK, TrailIsPast
    <2>2. CASE SettleRow(p)
        <3>1. /\ Publish(t, "provisioned", mine[p]) /\ UNCHANGED attempts
              /\ state'[t] = "ready" /\ \A u \in Slugs : u # t => state'[u] = state[u]
            BY <2>2 DEF SettleRow, TypeOK
        <3> HIDE DEF t
        <3>2. QED BY <2>1, <3>1, TrailGrows
    <2>3. CASE RecordFailure(p)
        <3>1. /\ Publish(t, "failed", mine[p]) /\ UNCHANGED attempts
              /\ state'[t] = "failed" /\ \A u \in Slugs : u # t => state'[u] = state[u]
            BY <2>3 DEF RecordFailure, TypeOK
        <3> HIDE DEF t
        <3>2. QED BY <2>1, <3>1, TrailGrows
    <2>4. QED BY <1>4, <2>2, <2>3
<1>5. QED
    BY <1>1, <1>2, <1>3, <1>4
    DEF Next, Progress, Failure, row, Start, FindNothing, Refuse, Adopt, InsertRefused,
        ClaimMisses, ClaimExplain, FencePasses, FenceRejects, PlaneStore, PlaneCommit, PlaneFails,
        PlaneCommitLost, Settle, SettleSuperseded, SettleFails, SettleCommitLost,
        RecordSuperseded, RecordSwallowed, Crash, Expire

-----------------------------------------------------------------------------
\* The inductive invariant holds initially ...
LEMMA IInvInit == Init => IInv
<1> SUFFICES ASSUME Init PROVE IInv
    OBVIOUS
<1>1. TypeOK
    <2>1. \A t \in Slugs : trail[t] \in Seq(Events)
        BY EmptySeq DEF Init
    <2>2. QED
        BY <2>1, ConstantsAssumption DEF Init, TypeOK, States, Steps, Answers
<1>2. ClaimedAttempts /\ AttemptsAreExclusive /\ LocksAreHeld /\ FenceHolds
    BY <1>1 DEF Init, ClaimedAttempts, AttemptsAreExclusive, LocksAreHeld, FenceHolds, Owning, TypeOK
<1>3. SecretsAreKeyed /\ CredentialInFlight /\ ReadyCredential
    BY DEF Init, SecretsAreKeyed, CredentialInFlight, ReadyCredential
<1>4. TrailIsPast /\ TrailIsConsistent /\ ReadyAnswersAreTrue
    BY DEF Init, TrailIsPast, TrailIsConsistent, ReadyAnswersAreTrue
<1>5. QED
    BY <1>1, <1>2, <1>3, <1>4 DEF IInv

\* ... and is preserved by every step.
LEMMA IInvStep == IInv /\ [Next]_vars => IInv'
<1> SUFFICES ASSUME IInv, [Next]_vars PROVE IInv'
    OBVIOUS
<1>1. CASE Next
    BY <1>1, TypeStep, ClaimStep, LockStep, FenceStep, SecretStep, CredentialStep,
       TrailStep, AnswerStep DEF IInv
<1>2. CASE UNCHANGED vars
    <2> USE <1>2 DEF IInv, vars, row, plane, local
    <2>1. TypeOK' BY DEF TypeOK
    <2>2. ClaimedAttempts' /\ AttemptsAreExclusive' /\ LocksAreHeld' /\ FenceHolds'
        BY DEF ClaimedAttempts, AttemptsAreExclusive, LocksAreHeld, FenceHolds, Current
    <2>3. SecretsAreKeyed' /\ CredentialInFlight' /\ ReadyCredential'
        BY DEF SecretsAreKeyed, CredentialInFlight, ReadyCredential, Current, Password
    <2>4. TrailIsPast' /\ TrailIsConsistent' /\ ReadyAnswersAreTrue'
        BY DEF TrailIsPast, TrailIsConsistent, ReadyAnswersAreTrue
    <2>5. QED BY <2>1, <2>2, <2>3, <2>4
<1>3. QED
    BY <1>1, <1>2

\* The inductive invariant is an invariant.
LEMMA Invariance == Spec => []IInv
BY IInvInit, IInvStep, PTL DEF Spec

\* Every variable keeps its type, for any number of requests and tenants.
THEOREM TypeCorrect == Spec => []TypeOK
<1>1. IInv => TypeOK
    BY DEF IInv
<1>2. QED
    BY <1>1, Invariance, PTL

\* No two requests ever act on the same attempt of a tenant: the conditional
\* UPDATE of _claim suffices.
THEOREM ExclusiveAttempts == Spec => []AttemptsAreExclusive
<1>1. IInv => AttemptsAreExclusive
    BY DEF IInv
<1>2. QED
    BY <1>1, Invariance, PTL

\* The reference on a ready tenant's row always leads to the password of its
\* login role.
THEOREM CredentialCorrect == Spec => []CredentialMatchesRole
<1>1. IInv => CredentialMatchesRole
    BY DEF IInv, ReadyCredential, CredentialMatchesRole, Secret
<1>2. QED
    BY <1>1, Invariance, PTL

\* The audit trail of a tenant is one consistent story.
THEOREM TrailCorrect == Spec => []TrailIsConsistent
<1>1. IInv => TrailIsConsistent
    BY DEF IInv
<1>2. QED
    BY <1>1, Invariance, PTL

\* An answer "ready" stays true.
THEOREM AnswersCorrect == Spec => []ReadyAnswersAreTrue
<1>1. IInv => ReadyAnswersAreTrue
    BY DEF IInv
<1>2. QED
    BY <1>1, Invariance, PTL

-----------------------------------------------------------------------------
(* Action properties.                                                      *)

\* The role and the secret store change only in the hands of the current owner.
LEMMA OwnerStep ==
    ASSUME IInv, Next
    PROVE  /\ secrets \subseteq secrets'
           /\ \A s \in secrets' \ secrets :
                state[s.tenant] = "in_progress" /\ s.attempt = attempts[s.tenant]
           /\ \A t \in Slugs : role'[t] # role[t] =>
                state[t] = "in_progress" /\ role'[t].attempt = attempts[t]
<1> USE DEF IInv
<1>1. CASE UNCHANGED <<role, secrets>>
    BY <1>1
<1>2. ASSUME NEW p \in Operators, PlaneStore(p)
      PROVE  /\ secrets \subseteq secrets'
             /\ \A s \in secrets' \ secrets :
                  state[s.tenant] = "in_progress" /\ s.attempt = attempts[s.tenant]
             /\ role' = role
    BY <1>2 DEF PlaneStore, SecretsAreKeyed, FenceHolds, Current
<1>3. ASSUME NEW p \in Operators, PlaneCommit(p) \/ PlaneCommitLost(p)
      PROVE  /\ secrets' = secrets
             /\ \A t \in Slugs : role'[t] # role[t] =>
                  state[t] = "in_progress" /\ role'[t].attempt = attempts[t]
    <2>1. role' = [role EXCEPT ![target[p]] = Password(p)] /\ secrets' = secrets
        BY <1>3 DEF PlaneCommit, PlaneCommitLost
    <2>2. Current(p)
        BY <1>3 DEF PlaneCommit, PlaneCommitLost, FenceHolds
    <2>3. QED
        BY <2>1, <2>2 DEF Current, Password, TypeOK
<1>4. QED
    BY <1>1, <1>2, <1>3
    DEF Next, Progress, Failure, row, plane, Start, FindNothing, Refuse, Adopt, Insert,
        InsertRefused, Claim, ClaimMisses, ClaimExplain, FencePasses, FenceRejects, PlaneFails,
        SettleRow, Settle, SettleSuperseded, SettleFails, SettleCommitLost, RecordFailure,
        RecordSuperseded, RecordSwallowed, Crash, Expire

\* The role's password and the secret store change only behind the fence.
THEOREM RotationFenced == Spec => OnlyTheOwnerRotates
<1>1. IInv /\ [Next]_vars =>
        [/\ secrets \subseteq secrets'
         /\ \A s \in secrets' \ secrets :
              state[s.tenant] = "in_progress" /\ s.attempt = attempts[s.tenant]
         /\ \A t \in Slugs : role'[t] # role[t] =>
              state[t] = "in_progress" /\ role'[t].attempt = attempts[t]]_vars
    BY OwnerStep
<1>2. QED
    BY <1>1, Invariance, PTL DEF Spec, OnlyTheOwnerRotates

\* No action changes the row of a ready tenant.
LEMMA ReadyRowStep ==
    ASSUME IInv, Next, NEW t \in Slugs, state[t] = "ready"
    PROVE  state'[t] = "ready" /\ attempts'[t] = attempts[t] /\ ref'[t] = ref[t]
<1> USE DEF IInv, TypeOK
<1>1. CASE UNCHANGED <<state, attempts, ref>>
    BY <1>1
<1>2. ASSUME NEW p \in Operators, Insert(p)
      PROVE  target[p] # t /\ UNCHANGED <<attempts, ref>> /\ state' = [state EXCEPT ![target[p]] = "pending"]
    BY <1>2 DEF Insert
<1>3. ASSUME NEW p \in Operators, Claim(p)
      PROVE  state'[t] = "ready" /\ attempts'[t] = attempts[t] /\ ref'[t] = ref[t]
    BY <1>3 DEF Claim, Claimable
<1>4. ASSUME NEW p \in Operators, SettleRow(p)
      PROVE  state'[t] = "ready" /\ attempts'[t] = attempts[t] /\ ref'[t] = ref[t]
    BY <1>4 DEF SettleRow, Current
<1>5. ASSUME NEW p \in Operators, RecordFailure(p)
      PROVE  state'[t] = "ready" /\ attempts'[t] = attempts[t] /\ ref'[t] = ref[t]
    BY <1>5 DEF RecordFailure, Current
<1>6. QED
    BY <1>1, <1>2, <1>3, <1>4, <1>5
    DEF Next, Progress, Failure, row, Start, FindNothing, Refuse, Adopt, InsertRefused,
        ClaimMisses, ClaimExplain, FencePasses, FenceRejects, PlaneStore, PlaneCommit, PlaneFails,
        PlaneCommitLost, Settle, SettleSuperseded, SettleFails, SettleCommitLost,
        RecordSuperseded, RecordSwallowed, Crash, Expire

\* The same for its role and its secrets.
LEMMA ReadyStep ==
    ASSUME IInv, Next, NEW t \in Slugs, state[t] = "ready"
    PROVE  /\ state'[t] = "ready" /\ attempts'[t] = attempts[t] /\ ref'[t] = ref[t]
           /\ role'[t] = role[t]
           /\ {s \in secrets : s.tenant = t} = {s \in secrets' : s.tenant = t}
BY ReadyRowStep, OwnerStep

\* Nothing changes a ready tenant's row, role or secrets.
THEOREM ReadyFinal == Spec => ReadyIsFinal
<1>1. IInv /\ [Next]_vars =>
        [\A t \in Slugs : state[t] = "ready" =>
            /\ state'[t] = "ready" /\ attempts'[t] = attempts[t] /\ ref'[t] = ref[t]
            /\ role'[t] = role[t]
            /\ {s \in secrets : s.tenant = t} = {s \in secrets' : s.tenant = t}]_vars
    BY ReadyStep
<1>2. QED
    BY <1>1, Invariance, PTL DEF Spec, ReadyIsFinal

-----------------------------------------------------------------------------
(* Refinement.                                                             *)

\* What callers see of the row, the role and the secret store.
status == [t \in Slugs |-> Visible(t)]
login  == [t \in Slugs |-> IF state[t] = "ready" THEN role[t] ELSE None]
served == [t \in Slugs |-> IF state[t] = "ready" THEN Served(t) ELSE None]

\* The secret a ready tenant's reference leads to is unique, and it holds the
\* password of the role.
LEMMA ServedIsLogin == IInv => served = login
<1> SUFFICES ASSUME IInv, NEW t \in Slugs, state[t] = "ready"
             PROVE  Served(t) = role[t]
    BY DEF served, login
<1> DEFINE c == Secret(t, ref[t], role[t])
<1>1. c \in secrets /\ c.tenant = t /\ c.attempt = ref[t] /\ c.password = role[t]
    BY DEF IInv, ReadyCredential, Secret
<1>2. \A s \in secrets : s.tenant = t /\ s.attempt = ref[t] => s = c
    BY <1>1 DEF IInv, SecretsAreKeyed
<1> HIDE DEF c
<1>3. QED
    BY <1>1, <1>2 DEF Served

\* A step that keeps every tenant's visible status is invisible.
LEMMA InvisibleStep ==
    ASSUME IInv, Next, served = login, served' = login', status' = status
    PROVE  UNCHANGED <<status, login, served>>
<1>1. \A t \in Slugs : state[t] = "ready" <=> state'[t] = "ready"
    BY DEF status, Visible
<1>2. \A t \in Slugs : state[t] = "ready" => role'[t] = role[t]
    BY ReadyStep
<1>3. QED
    BY <1>1, <1>2 DEF login

\* A committed settlement finishes the tenant with a password of its plane.
LEMMA FinishStep ==
    ASSUME IInv, IInv', NEW p \in Operators, SettleRow(p), served = login, served' = login'
    PROVE  Once!Next
<1>0. PICK u \in Slugs : u = target[p]
    BY DEF IInv, TypeOK
<1>1. /\ state[u] = "in_progress" /\ state' = [state EXCEPT ![u] = "ready"]
      /\ role' = role
    BY <1>0 DEF IInv, TypeOK, SettleRow, Current, plane
<1>2. role'[u] \in Passwords
    <2>1. state'[u] = "ready"
        BY <1>1 DEF IInv, TypeOK
    <2>2. Secret(u, ref'[u], role'[u]) \in secrets'
        BY <1>1, <2>1 DEF IInv, ReadyCredential
    <2>3. QED
        BY <2>2 DEF IInv, TypeOK, Secrets, Secret
<1>3. status[u] = "building" /\ status' = [status EXCEPT ![u] = "ready"]
    BY <1>1 DEF status, Visible, IInv, TypeOK
<1>4. login'[u] \in Passwords /\ login' = [login EXCEPT ![u] = login'[u]]
    BY <1>1, <1>2 DEF login, IInv, TypeOK
<1>5. Once!Finish(u)
    BY <1>3, <1>4 DEF Once!Finish, status, login, served
<1>6. QED
    BY <1>5 DEF Once!Next

\* Every step of the workflow is a step of ProvisionOnce or invisible.
LEMMA OnceStep ==
    ASSUME IInv, IInv', [Next]_vars, served = login, served' = login'
    PROVE  [Once!Next]_<<status, login, served>>
<1>1. CASE UNCHANGED vars
    <2>1. UNCHANGED <<status, login>>
        BY <1>1 DEF vars, row, plane, status, login, Visible
    <2>2. QED BY <2>1
<1>2. CASE Next /\ UNCHANGED state
    <2>1. status' = status
        BY <1>2 DEF status, Visible
    <2>2. QED BY <1>2, <2>1, InvisibleStep
<1>3. ASSUME NEW p \in Operators, Insert(p)
      PROVE  Once!Next
    <2> DEFINE u == target[p]
    <2>1. /\ u \in Slugs /\ state[u] = "absent" /\ state' = [state EXCEPT ![u] = "pending"]
          /\ role' = role
        BY <1>3 DEF Insert, IInv, TypeOK, plane
    <2> HIDE DEF u
    <2>2. status[u] = "absent" /\ status' = [status EXCEPT ![u] = "building"]
        BY <2>1 DEF status, Visible, IInv, TypeOK
    <2>3. login' = login
        BY <2>1 DEF login, IInv, TypeOK
    <2>4. Once!Register(u)
        BY <2>2, <2>3 DEF Once!Register, status, login, served
    <2>5. QED BY <2>1, <2>4 DEF Once!Next
<1>4. ASSUME NEW p \in Operators, SettleRow(p)
      PROVE  Once!Next
    BY <1>4, FinishStep
<1>5. ASSUME NEW p \in Operators, Claim(p) \/ RecordFailure(p), Next
      PROVE  UNCHANGED <<status, login, served>>
    <2> DEFINE u == target[p]
    <2>1. /\ u \in Slugs /\ state[u] \notin {"absent", "ready"}
          /\ state' = [state EXCEPT ![u] = "in_progress"] \/ state' = [state EXCEPT ![u] = "failed"]
        BY <1>5 DEF Claim, Claimable, RecordFailure, Current, IInv, TypeOK
    <2> HIDE DEF u
    <2>2. \A t \in Slugs : Visible(t)' = Visible(t)
        BY <2>1 DEF Visible, IInv, TypeOK
    <2>3. status' = status
        BY <2>2 DEF status
    <2>4. QED BY <1>5, <2>3, InvisibleStep
<1>6. CASE Next
    BY <1>2, <1>3, <1>4, <1>5, <1>6
    DEF Next, Progress, Failure, row, Start, FindNothing, Refuse, Adopt, InsertRefused,
        ClaimMisses, ClaimExplain, FencePasses, FenceRejects, PlaneStore, PlaneCommit, PlaneFails,
        PlaneCommitLost, Settle, SettleSuperseded, SettleFails, SettleCommitLost,
        RecordSuperseded, RecordSwallowed, Crash, Expire
<1>7. QED
    BY <1>1, <1>6

\* The workflow implements its abstract specification: whatever requests do,
\* callers see tenants registered once and finished once, with one credential.
THEOREM Refinement == Spec => ImplementsProvisionOnce
<1>1. Init => Once!Init
    BY DEF Init, Once!Init, Visible
<1>2. IInv /\ IInv' /\ [Next]_vars /\ (served = login) /\ (served = login)'
        => [Once!Next]_<<status, login, served>>
    BY OnceStep
<1>3. QED
    BY <1>1, <1>2, Invariance, ServedIsLogin, PTL
    DEF Spec, ImplementsProvisionOnce, Once!Spec, status, login, served

=============================================================================

---------------------- MODULE SourcesAndQueries_proofs ----------------------
(***************************************************************************)
(* Proofs about DataSources for every set of concurrent requests and every  *)
(* number of editions, of failures and of crashes, and about ExecutiveQuery  *)
(* for every set of readers, of seeders, of sources and of contents.  What   *)
(* the second takes an edit of a source to be, SourceLife, the first         *)
(* implements.                                                              *)
(***************************************************************************)
EXTENDS DataSources, ExecutiveQuery, TLAPS

\* What is written, referred to or under way was drawn before, and each request
\* under way brings something of its own.
DrawnOnce ==
    /\ secret < next
    /\ \A s \in store \cup referenced \cup unanswered \cup abandoned : s < next
    /\ \A c \in Clients : new[c] < next
    /\ \A c, d \in Clients : new[c] # 0 /\ new[c] = new[d] => c = d

\* What a request has in hand at each of its steps.
RequestsHold ==
    \A c \in Clients :
        /\ pc[c] \in {"create_put", "create", "patch_put", "patch"} => new[c] # 0
        /\ pc[c] = "delete" => new[c] = 0
        /\ pc[c] = "create" => new[c] \in store
        /\ pc[c] \in {"patch_put", "patch", "delete"} => status # "absent"

\* What a request brings belongs to no committed row, unless its COMMIT took effect
\* and raised.
BroughtIsNew ==
    \A c \in Clients : new[c] \in referenced => pc[c] = "compensate" /\ new[c] \in unanswered

\* The row's secret belonged to a committed row: that one.
RowRefers == status # "absent" => secret \in referenced

\* Every secret in the store belonged to a row, was left by a crash or a failed clean-up,
\* or is in the hands of a request that will answer for it.
StoreIsOwned ==
    \A s \in store : s \in referenced \cup abandoned \/ \E c \in Clients : new[c] = s

\* Maintenance works on disabled rows whose deadline has passed, when no request is
\* left, and records a destruction only after it.
SweepFollows ==
    /\ due => status = "disabled" /\ \A c \in Clients : pc[c] = "idle"
    /\ sweep # "idle" \/ destroyed => due
    /\ sweep = "deleted" \/ destroyed => secret \notin store

\* A version that a request has read is one the source had: it had all of them up to
\* the highest.
VersionsRead ==
    /\ version <= highest
    /\ highest = 0 <=> status = "absent"
    /\ \A c \in Clients : pc[c] \in {"patch_put", "patch", "delete"} => seen[c] \in 1..highest

\* What the invariant says of secrets, beyond types.
Claims ==
    /\ DrawnOnce /\ RequestsHold /\ BroughtIsNew /\ RowRefers
    /\ StoreIsOwned /\ SweepFollows /\ CredentialAvailable

IInv == TypeOK /\ Claims /\ VersionsRead

-----------------------------------------------------------------------------
(* Requests.                                                               *)

\* The request ends: it holds nothing, and no other request is touched.
LEMMA EndStep ==
    ASSUME TypeOK, NEW c \in Clients, End(c)
    PROVE  /\ pc' \in [Clients -> Steps] /\ seen' \in [Clients -> Nat]
           /\ new' \in [Clients -> 0..MaxEditions]
           /\ pc'[c] = "idle" /\ seen'[c] = 0 /\ new'[c] = 0
           /\ \A d \in Clients : d # c => pc'[d] = pc[d] /\ seen'[d] = seen[d] /\ new'[d] = new[d]
BY ConstantsAssumption DEF End, Goto, TypeOK, Steps

\* The request goes on with what it has.
LEMMA GotoStep ==
    ASSUME TypeOK, NEW c \in Clients, NEW s \in Steps, Goto(c, s)
    PROVE  /\ pc' \in [Clients -> Steps] /\ pc'[c] = s
           /\ \A d \in Clients : d # c => pc'[d] = pc[d]
BY DEF Goto, TypeOK

\* It draws what nobody has drawn.
LEMMA BringStep ==
    ASSUME TypeOK, NEW c \in Clients, Bring(c)
    PROVE  /\ new' \in [Clients -> 0..MaxEditions] /\ next' \in 1..(MaxEditions + 1)
           /\ new'[c] = next /\ next' = next + 1 /\ next \in 1..MaxEditions
           /\ \A d \in Clients : d # c => new'[d] = new[d]
BY ConstantsAssumption DEF Bring, TypeOK

\* It writes one more than the version it read.
LEMMA BumpStep ==
    ASSUME TypeOK, NEW c \in Clients, BumpVersion(c)
    PROVE  version' \in Nat \ {0} /\ highest' \in Nat
<1>1. seen[c] \in Nat /\ highest \in Nat
    BY DEF TypeOK
<1>2. QED BY <1>1 DEF BumpVersion

\* What a COMMIT writes to the row: the secret the request has put, if it brought
\* one, else the one it finds there.
LEMMA RowStep ==
    ASSUME TypeOK, RequestsHold, NEW c \in Clients,
           InsertRow(c) \/ PatchRow(c) \/ DisableRow(c)
    PROVE  /\ status' \in {"active", "disabled"} /\ version' \in Nat \ {0}
           /\ edition' \in Nat /\ deletions' \in Nat /\ highest' \in Nat
           /\ pc[c] \in {"create", "patch", "delete"}
           /\ UNCHANGED <<destroyed, due, store, next>>
           /\ \/ /\ secret' = new[c] /\ referenced' = referenced \cup {new[c]}
                 /\ new[c] \in store /\ new[c] \in 1..MaxEditions
              \/ /\ UNCHANGED <<secret, referenced>>
                 /\ new[c] \notin store /\ status # "absent"
           /\ secret' \in Nat /\ referenced' \subseteq 1..MaxEditions
<1>0. \A s \in store : s \in 1..MaxEditions
    BY DEF TypeOK
<1>1. secret \in Nat /\ edition \in Nat /\ deletions \in Nat /\ new[c] \in Nat
    BY ConstantsAssumption DEF TypeOK
<1>2. new[c] \in store => new[c] \in 1..MaxEditions /\ referenced \cup {new[c]} \subseteq 1..MaxEditions
    BY <1>0 DEF TypeOK
<1>3. CASE InsertRow(c)
    <2>1. new[c] \in store /\ 1 \in Nat \ {0}
        BY <1>3 DEF InsertRow, RequestsHold
    <2>2. QED BY <1>1, <1>2, <1>3, <2>1 DEF InsertRow
<1>4. CASE PatchRow(c)
    <2>1. /\ status # "absent" /\ status \in {"absent", "active", "disabled"}
          /\ seen[c] \in Nat /\ highest \in Nat /\ referenced \subseteq 1..MaxEditions
        BY <1>4 DEF PatchRow, RequestsHold, TypeOK
    <2>2. version' \in Nat \ {0} /\ highest' \in Nat
        BY <1>4, <2>1, BumpStep DEF PatchRow
    <2>3. QED BY <1>1, <1>2, <1>4, <2>1, <2>2 DEF PatchRow
<1>5. CASE DisableRow(c)
    <2>1. new[c] = 0 /\ 0 \notin store /\ status # "absent"
        BY <1>0, <1>5, ConstantsAssumption DEF DisableRow, RequestsHold
    <2>2. version' \in Nat \ {0} /\ highest' \in Nat
        BY <1>5, BumpStep DEF DisableRow
    <2>3. QED BY <1>5, <2>1, <2>2 DEF DisableRow, vault, TypeOK
<1>6. QED
    BY <1>3, <1>4, <1>5

\* What a request brought, if anything, is a secret.
LEMMA BroughtStep ==
    ASSUME TypeOK, NEW c \in Clients
    PROVE  Brought(c) \subseteq 1..MaxEditions /\ \A s \in Brought(c) : s = new[c]
BY ConstantsAssumption DEF TypeOK, Brought

\* The count of faults stays within its bound.
LEMMA FaultStep ==
    ASSUME TypeOK, Fault
    PROVE  faults' \in 0..MaxFaults
<1>1. faults \in 0..MaxFaults
    BY DEF TypeOK
<1>2. QED
    BY <1>1, ConstantsAssumption DEF Fault

-----------------------------------------------------------------------------
(* Types.                                                                  *)

\* Every step keeps the types.
LEMMA TypeStep ==
    ASSUME IInv, Next
    PROVE  TypeOK'
<1>0. TypeOK /\ RequestsHold
    BY DEF IInv, Claims
<1>1. ASSUME NEW c \in Clients, CreateRead(c)
      PROVE  TypeOK'
    BY <1>0, <1>1, GotoStep, BringStep DEF CreateRead, row, past, TypeOK, Steps
<1>2. ASSUME NEW c \in Clients, PatchRead(c)
      PROVE  TypeOK'
    BY <1>0, <1>2, GotoStep, BringStep DEF PatchRead, row, past, TypeOK, Steps
<1>3. ASSUME NEW c \in Clients, CreatePut(c) \/ PatchPut(c)
      PROVE  TypeOK'
    <2>1. new[c] \in 1..MaxEditions
        BY <1>0, <1>3, ConstantsAssumption DEF CreatePut, PatchPut, RequestsHold, TypeOK
    <2>2. QED
        BY <1>0, <1>3, <2>1, GotoStep DEF CreatePut, PatchPut, PutFresh, row, past, TypeOK, Steps
<1>4. ASSUME NEW c \in Clients, CreateCommit(c) \/ PatchCommit(c) \/ DisableCommit(c)
      PROVE  TypeOK'
    <2>1. /\ InsertRow(c) \/ PatchRow(c) \/ DisableRow(c)
          /\ End(c) /\ UNCHANGED <<past, sweep, faults>>
        BY <1>4 DEF CreateCommit, PatchCommit, DisableCommit
    <2>2. /\ status' \in {"active", "disabled"} /\ version' \in Nat \ {0} /\ edition' \in Nat
          /\ deletions' \in Nat /\ secret' \in Nat /\ highest' \in Nat /\ referenced' \subseteq 1..MaxEditions
          /\ UNCHANGED <<destroyed, due, store, next>>
        BY <1>0, <2>1, RowStep
    <2>3. /\ pc' \in [Clients -> Steps] /\ seen' \in [Clients -> Nat]
          /\ new' \in [Clients -> 0..MaxEditions]
          /\ \A d \in Clients : pc'[d] = "idle" => seen'[d] = 0 /\ new'[d] = 0
        BY <1>0, <2>1, EndStep DEF TypeOK
    <2>4. QED
        BY <1>0, <2>1, <2>2, <2>3 DEF past, TypeOK
<1>5. ASSUME NEW c \in Clients, CreateRefused(c)
      PROVE  TypeOK'
    BY <1>0, <1>5, GotoStep DEF CreateRefused, row, vault, past, TypeOK, Steps
<1>6. ASSUME NEW c \in Clients, DisableRead(c)
      PROVE  TypeOK'
    BY <1>0, <1>6, GotoStep DEF DisableRead, row, vault, past, TypeOK, Steps
<1>7. ASSUME NEW c \in Clients, Compensate(c)
      PROVE  TypeOK'
    BY <1>0, <1>7, EndStep DEF Compensate, row, past, TypeOK
<1>8. ASSUME NEW c \in Clients, RequestFails(c)
      PROVE  TypeOK'
    BY <1>0, <1>8, GotoStep, FaultStep DEF RequestFails, row, vault, past, TypeOK, Steps
<1>9. ASSUME NEW c \in Clients, AckLost(c)
      PROVE  TypeOK'
    <2>1. unanswered' \subseteq 1..MaxEditions /\ faults' \in 0..MaxFaults
        BY <1>0, <1>9, FaultStep, BroughtStep DEF AckLost, TypeOK
    <2>2. /\ status' \in {"active", "disabled"} /\ version' \in Nat \ {0} /\ edition' \in Nat
          /\ deletions' \in Nat /\ secret' \in Nat /\ highest' \in Nat /\ referenced' \subseteq 1..MaxEditions
          /\ UNCHANGED <<destroyed, due, store, next>>
        BY <1>0, <1>9, RowStep DEF AckLost
    <2>3. /\ pc' \in [Clients -> Steps]
          /\ \A d \in Clients : pc'[d] = "idle" => pc[d] = "idle"
        BY <1>0, <1>9, GotoStep DEF AckLost, Steps
    <2>4. QED
        BY <1>0, <1>9, <2>1, <2>2, <2>3 DEF AckLost, TypeOK
<1>10. ASSUME NEW c \in Clients, Crash(c)
       PROVE  TypeOK'
    <2>1. abandoned' \subseteq 1..MaxEditions /\ faults' \in 0..MaxFaults
        BY <1>0, <1>10, FaultStep, BroughtStep DEF Crash, TypeOK
    <2>2. QED
        BY <1>0, <1>10, <2>1, EndStep DEF Crash, row, vault, TypeOK
<1>11. ASSUME NEW c \in Clients, CleanupFails(c)
       PROVE  TypeOK'
    <2>1. abandoned' \subseteq 1..MaxEditions /\ faults' \in 0..MaxFaults
        BY <1>0, <1>11, FaultStep, BroughtStep DEF CleanupFails, TypeOK
    <2>2. store' \subseteq 1..MaxEditions
        <3>1. CASE pc[c] = "compensate" /\ store' \in {store, store \ {new[c]}}
            BY <1>0, <3>1 DEF TypeOK
        <3>2. CASE pc[c] \in {"create_put", "patch_put"} /\ store' = store \cup {new[c]}
            <4>1. new[c] \in 1..MaxEditions
                BY <1>0, <3>2, ConstantsAssumption DEF RequestsHold, TypeOK
            <4>2. QED BY <1>0, <3>2, <4>1 DEF TypeOK
        <3>3. QED BY <1>11, <3>1, <3>2 DEF CleanupFails
    <2>3. QED
        BY <1>0, <1>11, <2>1, <2>2, EndStep DEF CleanupFails, row, TypeOK
<1>12. ASSUME DeadlinePasses \/ SweepLock \/ SweepDelete \/ SweepCommit \/ SweepFails
       PROVE  TypeOK'
    BY <1>0, <1>12, FaultStep
    DEF DeadlinePasses, SweepLock, SweepDelete, SweepCommit, SweepFails, row, vault, past, client, TypeOK
<1>13. QED
    BY <1>1, <1>2, <1>3, <1>4, <1>5, <1>6, <1>7, <1>8, <1>9, <1>10, <1>11, <1>12
    DEF Next, Request, Sweep

-----------------------------------------------------------------------------
(* Versions.                                                               *)

\* Every step of a request writes a version that is one more than one the source had,
\* or none.
LEMMA WriteStep ==
    ASSUME TypeOK, RequestsHold, VersionsRead, NEW c \in Clients,
           InsertRow(c) \/ PatchRow(c) \/ DisableRow(c)
    PROVE  /\ version' <= highest' /\ highest <= highest' /\ highest' \in Nat \ {0}
           /\ Life!Next
<1>0. version \in Nat /\ highest \in Nat /\ version <= highest
    BY DEF TypeOK, VersionsRead
<1>1. CASE InsertRow(c)
    <2>1. highest = 0 /\ highest' = 1 /\ version' = 1 /\ Life!Create
        BY <1>1 DEF InsertRow, VersionsRead, Life!Create
    <2>2. QED BY <2>1 DEF Life!Next
<1>2. ASSUME pc[c] \in {"patch", "delete"}, BumpVersion(c)
      PROVE  /\ version' <= highest' /\ highest <= highest' /\ highest' \in Nat \ {0}
             /\ status # "absent" /\ Life!Write
    <2>1. seen[c] \in 1..highest /\ status # "absent"
        BY <1>2 DEF VersionsRead, RequestsHold
    <2>2. version' = seen[c] + 1 /\ highest' = IF seen[c] = highest THEN seen[c] + 1 ELSE highest
        BY <1>2 DEF BumpVersion
    <2>3. Life!Write
        BY <2>1, <2>2 DEF Life!Write
    <2>4. QED BY <1>0, <2>1, <2>2, <2>3
<1>3. CASE PatchRow(c)
    BY <1>2, <1>3 DEF PatchRow, Life!Next, Life!Edit
<1>4. CASE DisableRow(c)
    BY <1>2, <1>4 DEF DisableRow, Life!Next, Life!Disable
<1>5. QED BY <1>1, <1>3, <1>4

\* What a step does to the versions, and to the source as SourceLife sees it.
LEMMA VersionsStep ==
    ASSUME IInv, Next
    PROVE  VersionsRead' /\ [Life!Next]_<<status, version, highest>>
<1>0. TypeOK /\ RequestsHold /\ VersionsRead
    BY DEF IInv, Claims
<1>1. ASSUME NEW c \in Clients, InsertRow(c) \/ PatchRow(c) \/ DisableRow(c),
             pc' = [pc EXCEPT ![c] = pc'[c]], pc'[c] \in {"idle", "compensate"},
             \A d \in Clients : d # c => seen'[d] = seen[d]
      PROVE  VersionsRead' /\ Life!Next
    <2>1. /\ version' <= highest' /\ highest <= highest' /\ highest' \in Nat \ {0} /\ Life!Next
          /\ status' # "absent" /\ highest \in Nat
        BY <1>0, <1>1, WriteStep, RowStep DEF TypeOK
    <2>2. ASSUME NEW d \in Clients, pc'[d] \in {"patch_put", "patch", "delete"}
          PROVE  seen'[d] \in 1..highest'
        <3>1. d # c /\ pc'[d] = pc[d] /\ seen'[d] = seen[d]
            BY <1>0, <1>1, <2>2 DEF TypeOK
        <3>2. seen[d] \in 1..highest
            BY <1>0, <2>2, <3>1 DEF VersionsRead
        <3>3. QED BY <2>1, <3>1, <3>2
    <2>3. QED BY <2>1, <2>2 DEF VersionsRead
<1>2. ASSUME NEW c \in Clients, CreateCommit(c) \/ PatchCommit(c) \/ DisableCommit(c)
      PROVE  VersionsRead' /\ Life!Next
    <2>1. InsertRow(c) \/ PatchRow(c) \/ DisableRow(c)
        BY <1>2 DEF CreateCommit, PatchCommit, DisableCommit
    <2>2. End(c)
        BY <1>2 DEF CreateCommit, PatchCommit, DisableCommit
    <2>3. QED BY <1>0, <1>1, <2>1, <2>2 DEF End, Goto, TypeOK
<1>3. ASSUME NEW c \in Clients, AckLost(c)
      PROVE  VersionsRead' /\ Life!Next
    BY <1>0, <1>1, <1>3 DEF AckLost, Goto, TypeOK
<1>4. ASSUME NEW c \in Clients, UNCHANGED <<status, version, highest>>,
             \A d \in Clients : d # c => pc'[d] = pc[d] /\ seen'[d] = seen[d],
             \/ pc'[c] \notin {"patch_put", "patch", "delete"}
             \/ pc[c] = "idle" /\ status = "active" /\ seen'[c] = version
             \/ pc[c] = "patch_put" /\ seen'[c] = seen[c]
      PROVE  VersionsRead'
    <2>1. status = "active" => version \in 1..highest
        BY <1>0 DEF TypeOK, VersionsRead
    <2>2. \A d \in Clients : pc'[d] \in {"patch_put", "patch", "delete"} => seen'[d] \in 1..highest
        BY <1>0, <1>4, <2>1 DEF VersionsRead
    <2>3. QED BY <1>0, <1>4, <2>2 DEF VersionsRead
<1>5. ASSUME NEW c \in Clients,
             \/ CreateRead(c) \/ CreatePut(c) \/ CreateRefused(c) \/ PatchRead(c) \/ PatchPut(c)
             \/ DisableRead(c) \/ Compensate(c) \/ RequestFails(c) \/ CleanupFails(c) \/ Crash(c)
      PROVE  VersionsRead' /\ UNCHANGED <<status, version, highest>>
    BY <1>0, <1>4, <1>5
    DEF CreateRead, CreatePut, CreateRefused, PatchRead, PatchPut, DisableRead, Compensate, RequestFails,
        CleanupFails, Crash, PutFresh, End, Goto, row, TypeOK
<1>6. ASSUME DeadlinePasses \/ SweepLock \/ SweepDelete \/ SweepCommit \/ SweepFails
      PROVE  VersionsRead' /\ UNCHANGED <<status, version, highest>>
    BY <1>0, <1>6
    DEF DeadlinePasses, SweepLock, SweepDelete, SweepCommit, SweepFails, row, client, VersionsRead
<1>7. QED
    BY <1>2, <1>3, <1>5, <1>6 DEF Next, Request, Sweep

-----------------------------------------------------------------------------
(* What a step does to the claims on secrets.                              *)

\* A request that starts to write draws what nobody has a claim on.
LEMMA DrawClaims ==
    ASSUME IInv, TypeOK', NEW c \in Clients, CreateRead(c) \/ PatchRead(c)
    PROVE  Claims'
<1>0. TypeOK /\ Claims
    BY DEF IInv, Claims
<1>1. /\ new'[c] = next /\ next' = next + 1 /\ next \in 1..MaxEditions
      /\ \A d \in Clients : d # c => new'[d] = new[d] /\ pc'[d] = pc[d]
      /\ pc'[c] \in {"create_put", "patch_put", "patch"} /\ pc[c] = "idle" /\ status # "disabled"
      /\ pc'[c] # "create_put" => status # "absent"
      /\ UNCHANGED <<status, secret, destroyed, due, store, referenced, unanswered, abandoned, sweep>>
    BY <1>0, GotoStep, BringStep DEF CreateRead, PatchRead, Steps, row, past
<1>2. DrawnOnce'
    BY <1>0, <1>1 DEF Claims, DrawnOnce, TypeOK
<1>3. RequestsHold'
    BY <1>0, <1>1 DEF Claims, RequestsHold, TypeOK
<1>4. BroughtIsNew'
    BY <1>0, <1>1 DEF Claims, BroughtIsNew, DrawnOnce, TypeOK
<1>5. RowRefers'
    BY <1>0, <1>1 DEF Claims, RowRefers, TypeOK
<1>6. StoreIsOwned'
    BY <1>0, <1>1 DEF Claims, StoreIsOwned, TypeOK
<1>7. SweepFollows'
    BY <1>0, <1>1 DEF Claims, SweepFollows, TypeOK
<1>8. CredentialAvailable'
    BY <1>0, <1>1 DEF Claims, CredentialAvailable, RowRefers, BroughtIsNew, SweepFollows, TypeOK
<1>9. QED
    BY <1>2, <1>3, <1>4, <1>5, <1>6, <1>7, <1>8 DEF Claims

\* It puts its secret into the store.
LEMMA PutClaims ==
    ASSUME IInv, TypeOK', NEW c \in Clients, CreatePut(c) \/ PatchPut(c)
    PROVE  Claims'
<1>0. TypeOK /\ Claims
    BY DEF IInv, Claims
<1>1. /\ store' = store \cup {new[c]} /\ new[c] # 0 /\ new[c] \in Nat
      /\ \A d \in Clients : d # c => pc'[d] = pc[d]
      /\ \/ pc[c] = "create_put" /\ pc'[c] = "create"
         \/ pc[c] = "patch_put" /\ pc'[c] = "patch"
      /\ UNCHANGED <<status, secret, destroyed, due, referenced, next, unanswered, abandoned, new, sweep>>
    BY <1>0, GotoStep DEF CreatePut, PatchPut, PutFresh, Claims, RequestsHold, Steps, TypeOK, row, past
<1>2. DrawnOnce'
    BY <1>0, <1>1 DEF Claims, DrawnOnce, TypeOK
<1>3. RequestsHold'
    BY <1>0, <1>1 DEF Claims, RequestsHold, TypeOK
<1>4. BroughtIsNew'
    BY <1>0, <1>1 DEF Claims, BroughtIsNew, DrawnOnce, TypeOK
<1>5. RowRefers'
    BY <1>0, <1>1 DEF Claims, RowRefers, TypeOK
<1>6. StoreIsOwned'
    BY <1>0, <1>1 DEF Claims, StoreIsOwned, TypeOK
<1>7. SweepFollows'
    BY <1>0, <1>1 DEF Claims, SweepFollows, TypeOK
<1>8. CredentialAvailable'
    BY <1>0, <1>1 DEF Claims, CredentialAvailable, RowRefers, BroughtIsNew, SweepFollows, TypeOK
<1>9. QED
    BY <1>2, <1>3, <1>4, <1>5, <1>6, <1>7, <1>8 DEF Claims

\* It reads the row, is refused or fails, and changes nothing.
LEMMA MoveClaims ==
    ASSUME IInv, TypeOK', NEW c \in Clients, CreateRefused(c) \/ DisableRead(c) \/ RequestFails(c)
    PROVE  Claims'
<1>0. TypeOK /\ Claims
    BY DEF IInv, Claims
<1>1. /\ \A d \in Clients : d # c => pc'[d] = pc[d]
      /\ \/ pc[c] \notin {"idle", "compensate"} /\ pc'[c] = "compensate"
         \/ pc[c] = "idle" /\ pc'[c] = "delete" /\ new[c] = 0 /\ status = "active"
      /\ UNCHANGED <<status, secret, destroyed, due, store, referenced, next, unanswered, abandoned, new, sweep>>
    BY <1>0, GotoStep DEF CreateRefused, DisableRead, RequestFails, Steps, TypeOK, row, vault, past
<1>2. DrawnOnce'
    BY <1>0, <1>1 DEF Claims, DrawnOnce, TypeOK
<1>3. RequestsHold'
    BY <1>0, <1>1 DEF Claims, RequestsHold, TypeOK
<1>4. BroughtIsNew'
    BY <1>0, <1>1 DEF Claims, BroughtIsNew, DrawnOnce, TypeOK
<1>5. RowRefers'
    BY <1>0, <1>1 DEF Claims, RowRefers, TypeOK
<1>6. StoreIsOwned'
    BY <1>0, <1>1 DEF Claims, StoreIsOwned, TypeOK
<1>7. SweepFollows'
    BY <1>0, <1>1 DEF Claims, SweepFollows, TypeOK
<1>8. CredentialAvailable'
    BY <1>0, <1>1 DEF Claims, CredentialAvailable, RowRefers, BroughtIsNew, SweepFollows, TypeOK
<1>9. QED
    BY <1>2, <1>3, <1>4, <1>5, <1>6, <1>7, <1>8 DEF Claims

\* It commits.
LEMMA CommitClaims ==
    ASSUME IInv, TypeOK', NEW c \in Clients, CreateCommit(c) \/ PatchCommit(c) \/ DisableCommit(c)
    PROVE  Claims'
<1>0. TypeOK /\ Claims
    BY DEF IInv, Claims
<1>1. /\ new'[c] = 0 /\ pc'[c] = "idle"
      /\ \A d \in Clients : d # c => new'[d] = new[d] /\ pc'[d] = pc[d]
      /\ status' \in {"active", "disabled"} /\ pc[c] # "idle" /\ pc[c] # "compensate"
      /\ UNCHANGED <<destroyed, due, store, next, unanswered, abandoned, sweep>>
      /\ \/ /\ secret' = new[c] /\ referenced' = referenced \cup {new[c]}
            /\ new[c] \in store /\ new[c] \in 1..MaxEditions
         \/ /\ UNCHANGED <<secret, referenced>>
            /\ new[c] \notin store /\ status # "absent"
    BY <1>0, EndStep, RowStep DEF CreateCommit, PatchCommit, DisableCommit, Claims, past
<1>2. DrawnOnce'
    BY <1>0, <1>1 DEF Claims, DrawnOnce, TypeOK
<1>3. RequestsHold'
    BY <1>0, <1>1 DEF Claims, RequestsHold, TypeOK
<1>4. BroughtIsNew'
    BY <1>0, <1>1 DEF Claims, BroughtIsNew, DrawnOnce, TypeOK
<1>5. RowRefers'
    BY <1>0, <1>1 DEF Claims, RowRefers, TypeOK
<1>6. StoreIsOwned'
    BY <1>0, <1>1 DEF Claims, StoreIsOwned, TypeOK
<1>7. SweepFollows'
    BY <1>0, <1>1 DEF Claims, SweepFollows, TypeOK
<1>8. CredentialAvailable'
    BY <1>0, <1>1 DEF Claims, CredentialAvailable, RowRefers, BroughtIsNew, SweepFollows, TypeOK
<1>9. QED
    BY <1>2, <1>3, <1>4, <1>5, <1>6, <1>7, <1>8 DEF Claims

\* Its COMMIT takes effect and raises.
LEMMA AckLostClaims ==
    ASSUME IInv, TypeOK', NEW c \in Clients, AckLost(c)
    PROVE  Claims'
<1>0. TypeOK /\ Claims
    BY DEF IInv, Claims
<1>1. /\ pc'[c] = "compensate" /\ UNCHANGED new
      /\ \A d \in Clients : d # c => pc'[d] = pc[d]
      /\ status' \in {"active", "disabled"} /\ pc[c] # "idle" /\ pc[c] # "compensate"
      /\ UNCHANGED <<destroyed, due, store, next, abandoned, sweep>>
      /\ unanswered' = unanswered \cup ({new[c]} \ {0})
      /\ \/ /\ secret' = new[c] /\ referenced' = referenced \cup {new[c]}
            /\ new[c] \in store /\ new[c] \in 1..MaxEditions
         \/ /\ UNCHANGED <<secret, referenced>>
            /\ new[c] \notin store /\ status # "absent"
    BY <1>0, GotoStep, RowStep DEF AckLost, Brought, Claims, Steps
<1>2. DrawnOnce'
    BY <1>0, <1>1 DEF Claims, DrawnOnce, TypeOK
<1>3. RequestsHold'
    BY <1>0, <1>1 DEF Claims, RequestsHold, TypeOK
<1>4. BroughtIsNew'
    BY <1>0, <1>1 DEF Claims, BroughtIsNew, DrawnOnce, TypeOK
<1>5. RowRefers'
    BY <1>0, <1>1 DEF Claims, RowRefers, TypeOK
<1>6. StoreIsOwned'
    BY <1>0, <1>1 DEF Claims, StoreIsOwned, TypeOK
<1>7. SweepFollows'
    BY <1>0, <1>1 DEF Claims, SweepFollows, TypeOK
<1>8. CredentialAvailable'
    BY <1>0, <1>1 DEF Claims, CredentialAvailable, RowRefers, BroughtIsNew, SweepFollows, TypeOK
<1>9. QED
    BY <1>2, <1>3, <1>4, <1>5, <1>6, <1>7, <1>8 DEF Claims

\* It deletes what it brought.
LEMMA CompensateClaims ==
    ASSUME IInv, TypeOK', NEW c \in Clients, Compensate(c)
    PROVE  Claims'
<1>0. TypeOK /\ Claims
    BY DEF IInv, Claims
<1>1. /\ new'[c] = 0 /\ pc'[c] = "idle" /\ pc[c] = "compensate"
      /\ \A d \in Clients : d # c => new'[d] = new[d] /\ pc'[d] = pc[d]
      /\ store' = store \ {new[c]}
      /\ UNCHANGED <<status, secret, destroyed, due, referenced, next, unanswered, abandoned, sweep>>
    BY <1>0, EndStep DEF Compensate, row, past
<1>2. DrawnOnce'
    BY <1>0, <1>1 DEF Claims, DrawnOnce, TypeOK
<1>3. RequestsHold'
    BY <1>0, <1>1 DEF Claims, RequestsHold, DrawnOnce, TypeOK
<1>4. BroughtIsNew'
    BY <1>0, <1>1 DEF Claims, BroughtIsNew, DrawnOnce, TypeOK
<1>5. RowRefers'
    BY <1>0, <1>1 DEF Claims, RowRefers, TypeOK
<1>6. StoreIsOwned'
    BY <1>0, <1>1 DEF Claims, StoreIsOwned, TypeOK
<1>7. SweepFollows'
    BY <1>0, <1>1 DEF Claims, SweepFollows, TypeOK
<1>8. CredentialAvailable'
    BY <1>0, <1>1 DEF Claims, CredentialAvailable, RowRefers, BroughtIsNew, SweepFollows, TypeOK
<1>9. QED
    BY <1>2, <1>3, <1>4, <1>5, <1>6, <1>7, <1>8 DEF Claims

\* It fails to clean up, and may leave what it brought.
LEMMA CleanupFailsClaims ==
    ASSUME IInv, TypeOK', NEW c \in Clients, CleanupFails(c)
    PROVE  Claims'
<1>0. TypeOK /\ Claims
    BY DEF IInv, Claims
<1>1. /\ new'[c] = 0 /\ pc'[c] = "idle" /\ pc[c] # "idle"
      /\ \A d \in Clients : d # c => new'[d] = new[d] /\ pc'[d] = pc[d]
      /\ abandoned' = abandoned \cup ({new[c]} \ {0})
      /\ \/ pc[c] = "compensate" /\ (store' = store \/ store' = store \ {new[c]})
         \/ pc[c] \in {"create_put", "patch_put"} /\ new[c] # 0 /\ store' = store \cup {new[c]}
      /\ UNCHANGED <<status, secret, destroyed, due, referenced, next, unanswered, sweep>>
    BY <1>0, EndStep DEF CleanupFails, Brought, Claims, RequestsHold, row
<1>2. DrawnOnce'
    BY <1>0, <1>1 DEF Claims, DrawnOnce, TypeOK
<1>3. RequestsHold'
    BY <1>0, <1>1 DEF Claims, RequestsHold, DrawnOnce, TypeOK
<1>4. BroughtIsNew'
    BY <1>0, <1>1 DEF Claims, BroughtIsNew, DrawnOnce, TypeOK
<1>5. RowRefers'
    BY <1>0, <1>1 DEF Claims, RowRefers, TypeOK
<1>6. StoreIsOwned'
    BY <1>0, <1>1 DEF Claims, StoreIsOwned, TypeOK
<1>7. SweepFollows'
    BY <1>0, <1>1 DEF Claims, SweepFollows, TypeOK
<1>8. CredentialAvailable'
    BY <1>0, <1>1 DEF Claims, CredentialAvailable, RowRefers, BroughtIsNew, SweepFollows, TypeOK
<1>9. QED
    BY <1>2, <1>3, <1>4, <1>5, <1>6, <1>7, <1>8 DEF Claims

\* Its process dies.
LEMMA CrashClaims ==
    ASSUME IInv, TypeOK', NEW c \in Clients, Crash(c)
    PROVE  Claims'
<1>0. TypeOK /\ Claims
    BY DEF IInv, Claims
<1>1. /\ new'[c] = 0 /\ pc'[c] = "idle" /\ pc[c] # "idle"
      /\ \A d \in Clients : d # c => new'[d] = new[d] /\ pc'[d] = pc[d]
      /\ abandoned' = abandoned \cup ({new[c]} \ {0})
      /\ UNCHANGED <<status, secret, destroyed, due, store, referenced, next, unanswered, sweep>>
    BY <1>0, EndStep DEF Crash, Brought, row, vault
<1>2. DrawnOnce'
    BY <1>0, <1>1 DEF Claims, DrawnOnce, TypeOK
<1>3. RequestsHold'
    BY <1>0, <1>1 DEF Claims, RequestsHold, TypeOK
<1>4. BroughtIsNew'
    BY <1>0, <1>1 DEF Claims, BroughtIsNew, DrawnOnce, TypeOK
<1>5. RowRefers'
    BY <1>0, <1>1 DEF Claims, RowRefers, TypeOK
<1>6. StoreIsOwned'
    BY <1>0, <1>1 DEF Claims, StoreIsOwned, TypeOK
<1>7. SweepFollows'
    BY <1>0, <1>1 DEF Claims, SweepFollows, TypeOK
<1>8. CredentialAvailable'
    BY <1>0, <1>1 DEF Claims, CredentialAvailable, RowRefers, BroughtIsNew, SweepFollows, TypeOK
<1>9. QED
    BY <1>2, <1>3, <1>4, <1>5, <1>6, <1>7, <1>8 DEF Claims

\* The deadline passes, or maintenance works.
LEMMA MaintenanceClaims ==
    ASSUME IInv, TypeOK', DeadlinePasses \/ SweepLock \/ SweepDelete \/ SweepCommit \/ SweepFails
    PROVE  Claims'
<1>0. TypeOK /\ Claims
    BY DEF IInv, Claims
<1>1. /\ UNCHANGED <<status, secret, referenced, next, unanswered, abandoned, pc, new>>
      /\ \/ /\ status = "disabled" /\ (\A c \in Clients : pc[c] = "idle") /\ due'
            /\ UNCHANGED <<store, destroyed, sweep>>
         \/ sweep' = "locked" /\ due /\ UNCHANGED <<store, destroyed, due>>
         \/ sweep' = "deleted" /\ sweep = "locked" /\ store' = store \ {secret} /\ UNCHANGED <<destroyed, due>>
         \/ sweep' = "idle" /\ sweep = "deleted" /\ destroyed' /\ UNCHANGED <<store, due>>
         \/ sweep' = "idle" /\ UNCHANGED <<store, destroyed, due>>
    BY <1>0 DEF DeadlinePasses, SweepLock, SweepDelete, SweepCommit, SweepFails, row, vault, past, client
<1>2. DrawnOnce'
    BY <1>0, <1>1 DEF Claims, DrawnOnce, TypeOK
<1>3. RequestsHold'
    BY <1>0, <1>1 DEF Claims, RequestsHold, SweepFollows, TypeOK
<1>4. BroughtIsNew'
    BY <1>0, <1>1 DEF Claims, BroughtIsNew, DrawnOnce, TypeOK
<1>5. RowRefers'
    BY <1>0, <1>1 DEF Claims, RowRefers, TypeOK
<1>6. StoreIsOwned'
    BY <1>0, <1>1 DEF Claims, StoreIsOwned, TypeOK
<1>7. SweepFollows'
    BY <1>0, <1>1 DEF Claims, SweepFollows, TypeOK
<1>8. CredentialAvailable'
    BY <1>0, <1>1 DEF Claims, CredentialAvailable, RowRefers, BroughtIsNew, SweepFollows, TypeOK
<1>9. QED
    BY <1>2, <1>3, <1>4, <1>5, <1>6, <1>7, <1>8 DEF Claims

-----------------------------------------------------------------------------
(* The invariant, and what follows from it.                                *)

\* Before the source exists nobody has a claim on anything.
LEMMA InitialState == Init => IInv
<1> SUFFICES ASSUME Init PROVE IInv
    OBVIOUS
<1>0. 1 \in 1..(MaxEditions + 1) /\ 0 \in 0..MaxEditions /\ 0 \in 0..MaxFaults
    BY ConstantsAssumption
<1>1. TypeOK
    BY <1>0 DEF Init, TypeOK, Steps
<1>2. Claims
    BY DEF Init, Claims, DrawnOnce, RequestsHold, BroughtIsNew, RowRefers, StoreIsOwned,
           SweepFollows, CredentialAvailable
<1>3. VersionsRead
    BY DEF Init, VersionsRead
<1>4. QED BY <1>1, <1>2, <1>3 DEF IInv

\* Every step keeps the types, the claims and the versions.
LEMMA InductiveStep == IInv /\ [Next]_vars => IInv'
<1> SUFFICES ASSUME IInv, [Next]_vars PROVE IInv'
    OBVIOUS
<1>1. CASE Next
    <2>1. TypeOK'
        BY <1>1, TypeStep
    <2>2. ASSUME NEW c \in Clients,
                 Request(c) \/ RequestFails(c) \/ AckLost(c) \/ CleanupFails(c) \/ Crash(c)
          PROVE  Claims'
        BY <2>1, <2>2, DrawClaims, PutClaims, MoveClaims, CommitClaims, AckLostClaims,
           CompensateClaims, CleanupFailsClaims, CrashClaims DEF Request
    <2>3. ASSUME DeadlinePasses \/ Sweep \/ SweepFails
          PROVE  Claims'
        BY <2>1, <2>3, MaintenanceClaims DEF Sweep
    <2>4. QED
        BY <1>1, <2>1, <2>2, <2>3, VersionsStep DEF Next, IInv
<1>2. CASE UNCHANGED vars
    BY <1>2
    DEF vars, row, vault, past, client, IInv, TypeOK, Claims, DrawnOnce, RequestsHold, BroughtIsNew,
        RowRefers, StoreIsOwned, SweepFollows, CredentialAvailable, VersionsRead
<1>3. QED BY <1>1, <1>2

\* What the claims say holds in every reachable state.
LEMMA Invariance == Spec => []IInv
BY InitialState, InductiveStep, PTL DEF Spec

\* The variables keep their types: a request that is not under way holds nothing,
\* and a row has a version exactly when it exists.
THEOREM TypeCorrect == Spec => []TypeOK
<1>1. IInv => TypeOK
    BY DEF IInv
<1>2. QED BY Invariance, <1>1, PTL

\* No interleaving of creates, rotations, failures, crashes and compensations deletes
\* the credential of a source that may still be used or recovered.
THEOREM CredentialsStayAvailable == Spec => []CredentialAvailable
<1>1. IInv => CredentialAvailable
    BY DEF IInv, Claims
<1>2. QED BY Invariance, <1>1, PTL

\* Once every request has ended, a secret that no committed row ever referred to was
\* left by a process that died or by a clean-up that failed itself.
THEOREM NothingIsOrphaned == Spec => []NoOrphans
<1>1. IInv => NoOrphans
    <2> SUFFICES ASSUME IInv, \A c \in Clients : pc[c] = "idle", NEW s \in store
                 PROVE  s \in referenced \cup abandoned
        BY DEF NoOrphans
    <2>1. s # 0 /\ \A c \in Clients : new[c] = 0
        BY ConstantsAssumption DEF IInv, TypeOK
    <2>2. QED BY <2>1 DEF IInv, Claims, StoreIsOwned
<1>2. QED BY Invariance, <1>1, PTL

\* A destruction is recorded only of a secret that is gone, and it never comes back:
\* no late request, no retried sweep puts it again.
THEOREM DestroyedMeansGone == Spec => []DestroyedIsGone
<1>1. IInv => DestroyedIsGone
    BY DEF IInv, Claims, SweepFollows, DestroyedIsGone
<1>2. QED BY Invariance, <1>1, PTL

\* The source others see: it comes to be once, is edited to one more than some version
\* it had, by a request that read it before it was disabled too, and is disabled for good.
THEOREM SourceLifeImplemented == Spec => ImplementsSourceLife
<1>1. Init => Life!Init
    BY DEF Init, Life!Init
<1>2. IInv /\ [Next]_vars => [Life!Next]_<<status, version, highest>>
    BY VersionsStep DEF vars, row
<1>3. QED BY Invariance, <1>1, <1>2, PTL DEF Spec, ImplementsSourceLife, Life!Spec

-----------------------------------------------------------------------------

Tests == Sources \X (1..MaxVersion)

Reading ==
    [pc : {"idle", "bundle", "dataset", "rows", "facts", "source", "test", "answered", "refused"},
     asked : Editions \cup {None}, group : Groups, bundle : {0, 1}, dataset : {0, 1},
     rows : Editions \cup {None}, chosen : Sources \cup {None}, facts : Editions \cup {None},
     version : 0..MaxVersion, calm : BOOLEAN, healthy : SUBSET Tests]

Seeding ==
    [pc : {"idle", "source", "reset", "inserted"}, edition : Editions \cup {None},
     source : Sources \cup {None}, version : 0..MaxVersion, serial : Nat]

\* What a reader has found by its step, whatever became of it.
Found(q) ==
    /\ q.pc \in {"facts", "source", "test", "answered"} => q.rows \in Editions /\ q.chosen \in Sources
    /\ q.pc \in {"source", "test", "answered"} =>
        /\ q.facts \in Editions /\ Seeded(q.facts)
        /\ Sum(Drill(q.rows, q.facts)) = Content[q.facts].total
    /\ q.pc \in {"test", "answered"} => q.version \in 1..MaxVersion

\* healthy has what is healthy now and, of the version a reader has read, the success
\* if there is one by now.
Noticed(q, src, tests) ==
    /\ Proven(src, tests) \subseteq q.healthy
    /\ q.pc = "test" /\ <<q.chosen, q.version>> \in tests => <<q.chosen, q.version>> \in q.healthy
    /\ q.pc = "answered" => <<q.chosen, q.version>> \in q.healthy

\* What a reader has read of the demo and the source is what they are now.
Undisturbed(q, d, src, tst) ==
    /\ q.pc # "refused"
    /\ \E t \in Proven(src, tst) : t[1] = d.source
    /\ q.asked \in {None, d.edition} /\ q.group # "other"
    /\ q.pc # "bundle" => q.bundle = 1
    /\ q.pc \notin {"bundle", "dataset"} => q.dataset = 1
    /\ q.pc \in {"facts", "source", "test", "answered"} => q.rows = d.edition /\ q.chosen = d.source
    /\ q.pc \in {"test", "answered"} => <<q.chosen, q.version>> \in tst

ReaderKnows(q, d, src, tst, rec) ==
    /\ q \in Reading
    /\ q.pc # "idle" =>
        Found(q) /\ Noticed(q, src, tst \cup rec) /\ (q.calm => Undisturbed(q, d, src, tst))

ReadersKnow ==
    /\ reader \in [Readers -> Reading]
    /\ \A r \in Readers : ReaderKnows(reader[r], demo, source, tested, recording)

SeedersKnow ==
    /\ seeder \in [Seeders -> Seeding]
    /\ \A s \in Seeders :
        /\ seeder[s].pc # "idle" => seeder[s].edition \in Editions /\ seeder[s].source \in Sources
        /\ seeder[s].pc = "inserted" => Seeded(seeder[s].edition)

DemoIsSeeded == demo # NoDemo => Seeded(demo.edition)

QueryInv == QueryTypeOK /\ SeedersKnow /\ DemoIsSeeded /\ ReadersKnow

-----------------------------------------------------------------------------
(* Readers.                                                                *)

\* A statement that changes its reader alone, to one that knows what it should.
LEMMA ReadToStep ==
    ASSUME QueryInv, NEW r \in Readers, NEW now, ReadTo(r, now),
           ReaderKnows(now, demo, source, tested, recording)
    PROVE  QueryInv'
<1>1. /\ reader \in [Readers -> Reading] /\ now \in Reading
      /\ \A q \in Readers : ReaderKnows(reader[q], demo, source, tested, recording)
    BY DEF QueryInv, ReadersKnow, ReaderKnows
<1>2. /\ reader' \in [Readers -> Reading] /\ reader'[r] = now
      /\ \A q \in Readers : q # r => reader'[q] = reader[q]
      /\ UNCHANGED <<demo, source, tested, recording, writing, seeder, seeds, changes>>
    BY <1>1 DEF ReadTo, world
<1>3. ReadersKnow'
    BY <1>1, <1>2 DEF ReadersKnow
<1>4. QueryTypeOK'
    <2>1. \A q \in Readers : reader'[q].group \in Groups /\ reader'[q].asked \in Editions \cup {None}
        BY <1>2 DEF Reading
    <2>2. QED BY <1>2, <2>1 DEF QueryInv, QueryTypeOK
<1>5. SeedersKnow' /\ DemoIsSeeded'
    BY <1>2 DEF QueryInv, SeedersKnow, DemoIsSeeded
<1>6. QED BY <1>3, <1>4, <1>5 DEF QueryInv

\* A refusal, to which nobody comes undisturbed, or the statement's result.
LEMMA GoStep ==
    ASSUME QueryInv, NEW r \in Readers, NEW found \in BOOLEAN, NEW now, Go(r, found, now),
           reader[r].pc # "idle", reader[r].calm => found,
           found => ReaderKnows(now, demo, source, tested, recording)
    PROVE  QueryInv'
<1>1. CASE found
    BY <1>1, ReadToStep DEF Go
<1>2. CASE ~found
    <2> DEFINE now2 == [reader[r] EXCEPT !.pc = "refused"]
    <2>1. ReadTo(r, now2)
        BY <1>2 DEF Go
    <2>2. reader[r] \in Reading /\ ~reader[r].calm /\ Noticed(reader[r], source, tested \cup recording)
        BY <1>2 DEF QueryInv, ReadersKnow, ReaderKnows
    <2>3. now2 \in Reading /\ now2.pc = "refused" /\ now2.calm = reader[r].calm /\ now2.healthy = reader[r].healthy
        BY <2>2 DEF Reading
    <2>4. ReaderKnows(now2, demo, source, tested, recording)
        BY <2>2, <2>3 DEF ReaderKnows, Found, Noticed
    <2> HIDE DEF now2
    <2>5. QED BY <2>1, <2>4, ReadToStep
<1>3. QED BY <1>1, <1>2

\* Every reader, one statement at a time.
LEMMA ReadStep ==
    ASSUME QueryInv, NEW r \in Readers, Read(r)
    PROVE  QueryInv'
<1> DEFINE q == reader[r]
<1>1. /\ q \in Reading
      /\ ReaderKnows(q, demo, source, tested, recording)
      /\ demo \in Demo \cup {NoDemo}
      /\ source \in [Sources -> [version : 1..MaxVersion, active : BOOLEAN, highest : 1..MaxVersion]]
      /\ tested \cup recording \subseteq Tests
    BY DEF QueryInv, ReadersKnow, QueryTypeOK, Tests
<1>2. /\ None \notin Editions /\ None \notin Sources
      /\ demo # NoDemo => demo \in Demo /\ demo.edition \in Editions /\ demo.source \in Sources
      /\ Id(demo) = (IF demo = NoDemo THEN 0 ELSE 1)
    BY <1>1, QueryAssumption DEF Demo, Id
<1>3. ASSUME q.pc # "idle", q.calm
      PROVE  demo # NoDemo /\ Undisturbed(q, demo, source, tested)
    <2>1. Undisturbed(q, demo, source, tested)
        BY <1>1, <1>3 DEF ReaderKnows
    <2>2. PICK t \in Proven(source, tested) : t[1] = demo.source
        BY <2>1 DEF Undisturbed
    <2>3. demo.source \in Sources
        BY <1>1, <2>2 DEF Proven, Tests
    <2>4. QED BY <1>2, <2>1, <2>3 DEF NoDemo
<1>4. CASE Ask(r)
    <2>1. PICK asked \in Editions \cup {None}, group \in Groups :
            ReadTo(r, [NotReading EXCEPT !.pc = "bundle", !.asked = asked, !.group = group,
                !.calm = Calm /\ asked \in {None, demo.edition} /\ group # "other",
                !.healthy = Proven(source, tested \cup recording)])
        BY <1>4 DEF Ask
    <2>2. PICK calm \in BOOLEAN : calm = (Calm /\ asked \in {None, demo.edition} /\ group # "other")
        BY DEF Calm
    <2> DEFINE now == [NotReading EXCEPT !.pc = "bundle", !.asked = asked, !.group = group,
                          !.calm = calm, !.healthy = Proven(source, tested \cup recording)]
    <2>3. Proven(source, tested \cup recording) \in SUBSET Tests
        BY <1>1 DEF Proven
    <2>4. /\ now \in Reading /\ now.pc = "bundle" /\ now.asked = asked /\ now.group = group
          /\ now.calm = calm /\ now.healthy = Proven(source, tested \cup recording)
        <3>1. NotReading \in Reading
            BY QueryAssumption DEF NotReading, Reading, Groups
        <3>2. QED BY <2>1, <2>2, <2>3, <3>1 DEF Reading
    <2>5. ReadTo(r, now)
        BY <2>1, <2>2
    <2> HIDE DEF now
    <2>6. ReaderKnows(now, demo, source, tested, recording)
        BY <2>2, <2>4 DEF ReaderKnows, Found, Noticed, Undisturbed, Calm
    <2>7. QED BY <2>5, <2>6, ReadToStep
<1>5. CASE ReadBundle(r)
    <2> DEFINE now == [q EXCEPT !.pc = "dataset", !.bundle = Id(demo)]
    <2>1. q.pc = "bundle" /\ Go(r, demo # NoDemo, now)
        BY <1>5 DEF ReadBundle
    <2>2. /\ now \in Reading /\ now.pc = "dataset" /\ now.bundle = Id(demo)
          /\ now.asked = q.asked /\ now.group = q.group /\ now.calm = q.calm /\ now.healthy = q.healthy
        BY <1>1, <1>2 DEF Reading
    <2> HIDE DEF now
    <2>3. demo # NoDemo => ReaderKnows(now, demo, source, tested, recording)
        BY <1>1, <1>2, <2>1, <2>2 DEF ReaderKnows, Found, Noticed, Undisturbed
    <2>4. QED BY <1>3, <2>1, <2>3, GoStep
<1>6. CASE ReadDataset(r)
    <2> DEFINE now == [q EXCEPT !.pc = "rows", !.dataset = Id(demo)]
               found == demo # NoDemo /\ Id(demo) = q.bundle /\ q.asked \in {None, demo.edition}
    <2>1. q.pc = "dataset" /\ Go(r, found, now)
        BY <1>6 DEF ReadDataset
    <2>2. /\ now \in Reading /\ now.pc = "rows" /\ now.dataset = Id(demo) /\ now.bundle = q.bundle
          /\ now.asked = q.asked /\ now.group = q.group /\ now.calm = q.calm /\ now.healthy = q.healthy
        BY <1>1, <1>2 DEF Reading
    <2> HIDE DEF now
    <2>3. found => ReaderKnows(now, demo, source, tested, recording)
        BY <1>1, <1>2, <2>1, <2>2 DEF ReaderKnows, Found, Noticed, Undisturbed
    <2>4. q.calm => found
        BY <1>2, <1>3, <2>1 DEF Undisturbed
    <2>5. found \in BOOLEAN
        OBVIOUS
    <2> HIDE DEF found
    <2>6. QED BY <2>1, <2>3, <2>4, <2>5, GoStep
<1>7. CASE ReadRows(r)
    <2> DEFINE now == [q EXCEPT !.pc = "facts", !.rows = demo.edition, !.chosen = demo.source]
               found == /\ demo # NoDemo /\ Id(demo) = q.dataset
                        /\ Content[demo.edition].flaws = {} /\ q.group # "other"
    <2>1. q.pc = "rows" /\ Go(r, found, now)
        BY <1>7 DEF ReadRows
    <2>2. demo # NoDemo =>
            /\ now \in Reading /\ now.pc = "facts" /\ now.rows = demo.edition /\ now.chosen = demo.source
            /\ now.dataset = q.dataset /\ now.bundle = q.bundle
            /\ now.asked = q.asked /\ now.group = q.group /\ now.calm = q.calm /\ now.healthy = q.healthy
        BY <1>1, <1>2 DEF Reading
    <2> HIDE DEF now
    <2>3. found => ReaderKnows(now, demo, source, tested, recording)
        BY <1>1, <1>2, <2>1, <2>2 DEF ReaderKnows, Found, Noticed, Undisturbed
    <2>4. q.calm => found
        <3>1. demo # NoDemo => Content[demo.edition].flaws = {}
            BY DEF QueryInv, DemoIsSeeded, Seeded
        <3>2. QED BY <1>2, <1>3, <2>1, <3>1 DEF Undisturbed
    <2>5. found \in BOOLEAN
        OBVIOUS
    <2> HIDE DEF found
    <2>6. QED BY <2>1, <2>3, <2>4, <2>5, GoStep
<1>8. CASE ReadFacts(r)
    <2> DEFINE now == [q EXCEPT !.pc = "source", !.facts = demo.edition]
               found == /\ demo # NoDemo /\ Id(demo) = q.dataset /\ AddsUp(q.rows, demo.edition)
    <2>1. q.pc = "facts" /\ Go(r, found, now)
        BY <1>8 DEF ReadFacts
    <2>2. demo # NoDemo =>
            /\ now \in Reading /\ now.pc = "source" /\ now.facts = demo.edition
            /\ now.rows = q.rows /\ now.chosen = q.chosen /\ now.dataset = q.dataset /\ now.bundle = q.bundle
            /\ now.asked = q.asked /\ now.group = q.group /\ now.calm = q.calm /\ now.healthy = q.healthy
        BY <1>1, <1>2 DEF Reading
    <2> HIDE DEF now
    <2>3. found => ReaderKnows(now, demo, source, tested, recording)
        <3>1. found => Seeded(now.facts) /\ Sum(Drill(now.rows, now.facts)) = Content[now.facts].total
            BY <2>2 DEF AddsUp, QueryInv, DemoIsSeeded
        <3>2. QED BY <1>1, <1>2, <2>1, <2>2, <3>1 DEF ReaderKnows, Found, Noticed, Undisturbed
    <2>4. q.calm => found
        <3> SUFFICES ASSUME q.calm PROVE found
            OBVIOUS
        <3>1. demo # NoDemo /\ Id(demo) = q.dataset /\ q.rows = demo.edition /\ demo.edition \in Editions
            BY <1>2, <1>3, <2>1 DEF Undisturbed
        <3>2. Drill(demo.edition, demo.edition) = Content[demo.edition].slices
            BY <3>1, QueryAssumption DEF Drill
        <3>3. Sum(Content[demo.edition].slices) = Content[demo.edition].total
            BY <3>1 DEF QueryInv, DemoIsSeeded, Seeded
        <3>4. AddsUp(demo.edition, demo.edition)
            BY <3>2, <3>3 DEF AddsUp
        <3>5. QED BY <3>1, <3>4
    <2>5. found \in BOOLEAN
        BY DEF AddsUp
    <2> HIDE DEF found
    <2>6. QED BY <2>1, <2>3, <2>4, <2>5, GoStep
<1>9. CASE ReadSource(r)
    <2> DEFINE s == q.chosen
               now == [q EXCEPT !.pc = "test", !.version = source[s].version]
    <2>1. q.pc = "source" /\ Go(r, source[s].active, now)
        BY <1>9 DEF ReadSource
    <2>2. s \in Sources /\ source[s].version \in 1..MaxVersion /\ source[s].active \in BOOLEAN
        BY <1>1, <2>1 DEF ReaderKnows, Found
    <2>3. /\ now \in Reading /\ now.pc = "test" /\ now.version = source[s].version /\ now.facts = q.facts
          /\ now.rows = q.rows /\ now.chosen = s /\ now.dataset = q.dataset /\ now.bundle = q.bundle
          /\ now.asked = q.asked /\ now.group = q.group /\ now.calm = q.calm /\ now.healthy = q.healthy
        <3>1. source[s].version \in 0..MaxVersion
            BY <2>2, QueryAssumption
        <3>2. QED BY <1>1, <3>1 DEF Reading
    <2> HIDE DEF now
    <2>4. source[s].active => Noticed(now, source, tested \cup recording)
        <3>1. source[s].active /\ <<s, source[s].version>> \in tested \cup recording
                => <<s, source[s].version>> \in Proven(source, tested \cup recording)
            BY DEF Proven
        <3>2. Proven(source, tested \cup recording) \subseteq q.healthy
            BY <1>1, <2>1 DEF ReaderKnows, Noticed
        <3>3. QED BY <2>3, <3>1, <3>2 DEF Noticed
    <2>5. q.calm => source[s].active /\ Undisturbed(now, demo, source, tested)
        <3> SUFFICES ASSUME q.calm PROVE source[s].active /\ Undisturbed(now, demo, source, tested)
            OBVIOUS
        <3>1. Undisturbed(q, demo, source, tested) /\ s = demo.source
            BY <1>3, <2>1 DEF Undisturbed
        <3>2. PICK t \in Proven(source, tested) : t[1] = s
            BY <3>1 DEF Undisturbed
        <3>3. t \in tested /\ source[s].active /\ source[s].version = t[2] /\ t = <<t[1], t[2]>>
            BY <1>1, <3>2 DEF Proven, Tests
        <3>4. <<now.chosen, now.version>> \in tested
            BY <2>3, <3>2, <3>3
        <3>5. QED BY <2>1, <2>3, <3>1, <3>3, <3>4 DEF Undisturbed
    <2>6. source[s].active => ReaderKnows(now, demo, source, tested, recording)
        <3>1. Found(now)
            BY <1>1, <2>1, <2>2, <2>3 DEF ReaderKnows, Found
        <3>2. QED BY <2>3, <2>4, <2>5, <3>1 DEF ReaderKnows
    <2> HIDE DEF s
    <2>7. QED BY <2>1, <2>2, <2>5, <2>6, GoStep
<1>10. CASE ReadTest(r)
    <2> DEFINE now == [q EXCEPT !.pc = "answered"]
               found == TestOf(q.chosen, q.version) # {}
    <2>1. q.pc = "test" /\ Go(r, found, now)
        BY <1>10 DEF ReadTest
    <2>2. /\ now \in Reading /\ now.pc = "answered" /\ now.version = q.version /\ now.facts = q.facts
          /\ now.rows = q.rows /\ now.chosen = q.chosen /\ now.dataset = q.dataset /\ now.bundle = q.bundle
          /\ now.asked = q.asked /\ now.group = q.group /\ now.calm = q.calm /\ now.healthy = q.healthy
        BY <1>1 DEF Reading
    <2>3. found <=> <<q.chosen, q.version>> \in tested
        BY DEF TestOf
    <2>4. found \in BOOLEAN
        OBVIOUS
    <2> HIDE DEF now, found
    <2>5. found => ReaderKnows(now, demo, source, tested, recording)
        BY <1>1, <2>1, <2>2, <2>3 DEF ReaderKnows, Found, Noticed, Undisturbed
    <2>6. q.calm => found
        BY <1>3, <2>1, <2>3 DEF Undisturbed
    <2>7. QED BY <2>1, <2>4, <2>5, <2>6, GoStep
<1>11. CASE Finish(r)
    <2>1. NotReading \in Reading /\ NotReading.pc = "idle"
        BY QueryAssumption DEF NotReading, Reading, Groups
    <2>2. ReaderKnows(NotReading, demo, source, tested, recording)
        BY <2>1 DEF ReaderKnows
    <2>3. QED BY <1>11, <2>2, ReadToStep DEF Finish
<1>12. QED
    BY <1>4, <1>5, <1>6, <1>7, <1>8, <1>9, <1>10, <1>11 DEF Read

-----------------------------------------------------------------------------
(* What changes around the readers.                                        *)

\* A change of the demo or of the sources: a success that is new is of the version its
\* source has, and every reader keeps knowing what it should.
LEMMA NotedStep ==
    ASSUME QueryInv, NEW d, NEW src, NEW tst, NEW rec,
           reader' = Noted(d, src, tst, rec),
           tested \subseteq tst, tst \cup rec \subseteq Tests,
           \A t \in (tst \cup rec) \ (tested \cup recording) : t \in Proven(src, tst \cup rec)
    PROVE  /\ reader' \in [Readers -> Reading]
           /\ \A r \in Readers : ReaderKnows(reader'[r], d, src, tst, rec)
<1> DEFINE after(q) ==
        [q EXCEPT !.calm = @ /\ d.edition = demo.edition /\ d.source = demo.source
                             /\ \E t \in Proven(src, tst) : t[1] = d.source,
                  !.healthy = @ \cup Proven(src, tst \cup rec)]
<1>1. /\ reader \in [Readers -> Reading]
      /\ \A r \in Readers : ReaderKnows(reader[r], demo, source, tested, recording)
    BY DEF QueryInv, ReadersKnow
<1>2. ASSUME NEW r \in Readers
      PROVE  reader'[r] = IF reader[r].pc = "idle" THEN reader[r] ELSE after(reader[r])
    BY DEF Noted
<1>3. ASSUME NEW q \in Reading, q.pc # "idle", ReaderKnows(q, demo, source, tested, recording)
      PROVE  ReaderKnows(after(q), d, src, tst, rec)
    <2>1. Proven(src, tst \cup rec) \subseteq Tests
        BY DEF Proven
    <2>2. PICK calm \in BOOLEAN : calm = (q.calm /\ d.edition = demo.edition /\ d.source = demo.source
                                            /\ \E t \in Proven(src, tst) : t[1] = d.source)
        BY <1>3 DEF Reading
    <2>3. PICK now \in Reading :
            /\ now = after(q) /\ now.calm = calm /\ now.healthy = q.healthy \cup Proven(src, tst \cup rec)
            /\ now.pc = q.pc /\ now.asked = q.asked /\ now.group = q.group
            /\ now.bundle = q.bundle /\ now.dataset = q.dataset /\ now.rows = q.rows
            /\ now.chosen = q.chosen /\ now.facts = q.facts /\ now.version = q.version
        <3> DEFINE now == [q EXCEPT !.calm = calm, !.healthy = @ \cup Proven(src, tst \cup rec)]
        <3>1. now = after(q)
            BY <2>2
        <3>2. /\ now \in Reading
              /\ now.calm = calm /\ now.healthy = q.healthy \cup Proven(src, tst \cup rec)
              /\ now.pc = q.pc /\ now.asked = q.asked /\ now.group = q.group
              /\ now.bundle = q.bundle /\ now.dataset = q.dataset /\ now.rows = q.rows
              /\ now.chosen = q.chosen /\ now.facts = q.facts /\ now.version = q.version
            BY <1>3, <2>1, <2>2 DEF Reading
        <3> HIDE DEF now, after
        <3>3. QED BY <3>1, <3>2
    <2> HIDE DEF after
    <2>4. Found(now)
        BY <1>3, <2>3 DEF ReaderKnows, Found
    <2>5. Noticed(now, src, tst \cup rec)
        <3>1. Noticed(q, source, tested \cup recording)
            BY <1>3 DEF ReaderKnows
        <3>2. QED BY <2>3, <3>1 DEF Noticed
    <2>6. calm => Undisturbed(now, d, src, tst)
        BY <1>3, <2>2, <2>3 DEF ReaderKnows, Undisturbed
    <2>7. QED BY <1>3, <2>3, <2>4, <2>5, <2>6 DEF ReaderKnows
<1>4. ASSUME NEW r \in Readers
      PROVE  ReaderKnows(reader'[r], d, src, tst, rec)
    <2> HIDE DEF after
    <2>1. CASE reader[r].pc = "idle"
        BY <1>1, <1>2, <2>1 DEF ReaderKnows
    <2>2. CASE reader[r].pc # "idle"
        BY <1>1, <1>2, <1>3, <2>2
    <2>3. QED BY <2>1, <2>2
<1>5. \A r \in Readers : reader'[r] \in Reading
    BY <1>4 DEF ReaderKnows
<1>6. reader' = [r \in Readers |-> reader'[r]]
    BY DEF Noted
<1>7. QED BY <1>4, <1>5, <1>6

\* What a reader's types say of it.
LEMMA ReadersTyped ==
    ASSUME reader' \in [Readers -> Reading]
    PROVE  \A r \in Readers : reader'[r].group \in Groups /\ reader'[r].asked \in Editions \cup {None}
BY DEF Reading

\* A seeder's move that leaves the world to itself.
LEMMA SeedToStep ==
    ASSUME QueryInv, NEW s \in Seeders, NEW now \in Seeding, SeedTo(s, now),
           now.pc # "idle" => now.edition \in Editions /\ now.source \in Sources,
           now.pc = "inserted" => Seeded(now.edition)
    PROVE  /\ SeedersKnow' /\ seeder'[s] = now
           /\ \A u \in Seeders : u # s => seeder'[u] = seeder[u]
BY DEF SeedTo, QueryInv, SeedersKnow

\* The rows of one seeder at a time are not committed yet.
LEMMA WritingStep ==
    ASSUME QueryInv, NEW s \in Seeders,
           \A u \in Seeders : u # s => seeder'[u] = seeder[u],
           \/ writing' = writing /\ seeder[s].pc # "inserted" /\ seeder'[s].pc # "inserted"
           \/ writing = None /\ writing' = s /\ seeder'[s].pc = "inserted"
           \/ seeder[s].pc = "inserted" /\ writing' = None /\ seeder'[s].pc # "inserted"
    PROVE  /\ writing' # None <=> \E u \in Seeders : seeder'[u].pc = "inserted"
           /\ \A u \in Seeders : seeder'[u].pc = "inserted" => writing' = u
<1>1. /\ writing # None <=> \E u \in Seeders : seeder[u].pc = "inserted"
      /\ \A u \in Seeders : seeder[u].pc = "inserted" => writing = u
    BY DEF QueryInv, QueryTypeOK
<1>2. s # None
    BY QueryAssumption
<1>3. QED BY <1>1, <1>2

\* Every statement of a seeding, its COMMIT and its failure.
LEMMA SeedStep ==
    ASSUME QueryInv, NEW s \in Seeders, Seed(s)
    PROVE  QueryInv'
<1>1. /\ seeder[s] \in Seeding /\ seeds \in 0..MaxSeeds /\ changes \in 0..MaxChanges
      /\ source \in [Sources -> [version : 1..MaxVersion, active : BOOLEAN, highest : 1..MaxVersion]]
      /\ demo \in Demo \cup {NoDemo} /\ demo.serial \in Nat
      /\ seeder[s].pc # "idle" => seeder[s].edition \in Editions /\ seeder[s].source \in Sources
      /\ seeder[s].pc = "inserted" => Seeded(seeder[s].edition)
    BY DEF QueryInv, SeedersKnow, QueryTypeOK, Demo, NoDemo
<1>2. NotSeeding \in Seeding /\ NotSeeding.pc = "idle"
    BY QueryAssumption DEF NotSeeding, Seeding
<1>3. ASSUME UNCHANGED <<demo, source, tested, recording, reader, changes>>, seeds' \in 0..MaxSeeds,
             SeedersKnow',
             writing' # None <=> \E u \in Seeders : seeder'[u].pc = "inserted",
             \A u \in Seeders : seeder'[u].pc = "inserted" => writing' = u
      PROVE  QueryInv'
    <2>1. QueryTypeOK'
        BY <1>3 DEF QueryInv, QueryTypeOK
    <2>2. DemoIsSeeded' /\ ReadersKnow'
        BY <1>3 DEF QueryInv, DemoIsSeeded, ReadersKnow
    <2>3. QED BY <1>3, <2>1, <2>2 DEF QueryInv
<1>4. CASE SeedRead(s)
    <2>1. PICK e \in Editions, src \in Sources :
            SeedTo(s, [NotSeeding EXCEPT !.pc = "source", !.edition = e, !.source = src,
                                         !.version = source[src].version])
        BY <1>4 DEF SeedRead
    <2>2. source[src].version \in 0..MaxVersion
        <3>1. source[src].version \in 1..MaxVersion
            BY <1>1
        <3>2. QED BY <3>1, QueryAssumption
    <2>3. PICK now \in Seeding : /\ SeedTo(s, now) /\ now.pc = "source"
                                 /\ now.edition \in Editions /\ now.source \in Sources
        <3> DEFINE first == [NotSeeding EXCEPT !.pc = "source", !.edition = e, !.source = src,
                                               !.version = source[src].version]
        <3>1. /\ first \in Seeding /\ first.pc = "source"
              /\ first.edition \in Editions /\ first.source \in Sources
            BY <1>2, <2>2 DEF NotSeeding, Seeding
        <3>2. SeedTo(s, first)
            BY <2>1
        <3> HIDE DEF first
        <3>3. QED BY <3>1, <3>2
    <2>4. SeedersKnow' /\ seeder'[s] = now /\ \A u \in Seeders : u # s => seeder'[u] = seeder[u]
        BY <2>3, SeedToStep
    <2>5. seeds' \in 0..MaxSeeds /\ seeder[s].pc = "idle"
        BY <1>1, <1>4, QueryAssumption DEF SeedRead
    <2>6. UNCHANGED <<demo, source, tested, recording, reader, changes, writing>>
        BY <1>4 DEF SeedRead, world
    <2>7. QED BY <1>3, <2>3, <2>4, <2>5, <2>6, WritingStep
<1>5. CASE SeedTested(s)
    <2>1. PICK now \in Seeding : /\ SeedTo(s, now) /\ now.pc \in {"reset", "idle"}
                                 /\ now.pc # "idle" => now.edition \in Editions /\ now.source \in Sources
        <3> DEFINE resetting == [seeder[s] EXCEPT !.pc = "reset", !.serial = demo.serial]
        <3>1. /\ resetting \in Seeding /\ resetting.pc = "reset"
              /\ resetting.edition = seeder[s].edition /\ resetting.source = seeder[s].source
            BY <1>1 DEF Seeding
        <3>2. seeder[s].pc = "source" /\ (SeedTo(s, resetting) \/ SeedTo(s, NotSeeding))
            BY <1>5 DEF SeedTested
        <3> HIDE DEF resetting
        <3>3. QED BY <1>1, <1>2, <3>1, <3>2
    <2>2. SeedersKnow' /\ seeder'[s] = now /\ \A u \in Seeders : u # s => seeder'[u] = seeder[u]
        BY <2>1, SeedToStep
    <2>3. seeder[s].pc = "source" /\ UNCHANGED <<demo, source, tested, recording, reader, changes, writing, seeds>>
        BY <1>5 DEF SeedTested, world
    <2>4. QED BY <1>1, <1>3, <2>1, <2>2, <2>3, WritingStep
<1>6. CASE ResetAndInsert(s)
    <2>1. /\ seeder[s].pc = "reset" /\ writing = None
          /\ UNCHANGED <<demo, source, tested, recording, reader, changes, seeds>>
        BY <1>6 DEF ResetAndInsert, world
    <2>2. CASE ResetClears(s) /\ Seeded(seeder[s].edition)
        <3>1. PICK now \in Seeding : /\ SeedTo(s, now) /\ now.pc = "inserted"
                                     /\ now.edition = seeder[s].edition /\ now.source = seeder[s].source
            BY <1>1, <1>6, <2>2 DEF ResetAndInsert, Seeding
        <3>2. SeedersKnow' /\ seeder'[s] = now /\ \A u \in Seeders : u # s => seeder'[u] = seeder[u]
            BY <1>1, <2>1, <2>2, <3>1, SeedToStep
        <3>3. writing' = s
            BY <1>6, <2>2 DEF ResetAndInsert
        <3>4. QED BY <1>1, <1>3, <2>1, <3>1, <3>2, <3>3, WritingStep
    <2>3. CASE ~(ResetClears(s) /\ Seeded(seeder[s].edition))
        <3>1. SeedTo(s, NotSeeding) /\ UNCHANGED writing
            BY <1>6, <2>3 DEF ResetAndInsert
        <3>2. SeedersKnow' /\ seeder'[s] = NotSeeding /\ \A u \in Seeders : u # s => seeder'[u] = seeder[u]
            BY <1>2, <3>1, SeedToStep
        <3>3. QED BY <1>1, <1>2, <1>3, <2>1, <3>1, <3>2, WritingStep
    <2>4. QED BY <2>2, <2>3
<1>7. CASE SeedFails(s)
    <2>1. /\ seeder[s].pc = "inserted" /\ writing' = None /\ SeedTo(s, NotSeeding)
          /\ UNCHANGED <<demo, source, tested, recording, reader, changes, seeds>>
        BY <1>7 DEF SeedFails, world
    <2>2. SeedersKnow' /\ seeder'[s] = NotSeeding /\ \A u \in Seeders : u # s => seeder'[u] = seeder[u]
        BY <1>2, <2>1, SeedToStep
    <2>3. QED BY <1>1, <1>2, <1>3, <2>1, <2>2, WritingStep
<1>8. CASE SeedCommit(s)
    <2>1. /\ seeder[s].pc = "inserted" /\ writing' = None /\ SeedTo(s, NotSeeding)
          /\ demo' = [edition |-> seeder[s].edition, source |-> seeder[s].source, serial |-> demo.serial + 1]
          /\ reader' = Noted(demo', source, tested, recording)
          /\ UNCHANGED <<source, tested, recording, changes, seeds>>
        BY <1>8 DEF SeedCommit, world
    <2>2. SeedersKnow' /\ seeder'[s] = NotSeeding /\ \A u \in Seeders : u # s => seeder'[u] = seeder[u]
        BY <1>2, <2>1, SeedToStep
    <2>3. demo' \in Demo /\ demo'.edition = seeder[s].edition
        BY <1>1, <2>1 DEF Demo
    <2>4. DemoIsSeeded'
        BY <1>1, <2>1, <2>3 DEF DemoIsSeeded
    <2>5. /\ reader' \in [Readers -> Reading]
          /\ \A r \in Readers : ReaderKnows(reader'[r], demo', source, tested, recording)
        <3>1. tested \cup recording \subseteq Tests
            BY DEF QueryInv, QueryTypeOK, Tests
        <3>2. PICK d : d = demo'
            OBVIOUS
        <3>3. reader' = Noted(d, source, tested, recording)
            BY <2>1, <3>2
        <3>4. QED BY <3>1, <3>2, <3>3, NotedStep
    <2>6. ReadersKnow'
        BY <2>1, <2>5 DEF ReadersKnow
    <2>7. /\ writing' # None <=> \E u \in Seeders : seeder'[u].pc = "inserted"
          /\ \A u \in Seeders : seeder'[u].pc = "inserted" => writing' = u
        BY <1>2, <2>1, <2>2, WritingStep
    <2>8. QueryTypeOK'
        BY <2>1, <2>3, <2>5, <2>7, ReadersTyped DEF QueryInv, QueryTypeOK
    <2>9. QED BY <2>2, <2>4, <2>6, <2>8 DEF QueryInv
<1>9. QED BY <1>4, <1>5, <1>6, <1>7, <1>8 DEF Seed

\* A change of the sources and their tests.
LEMMA ChangeStep ==
    ASSUME QueryInv, NEW src, NEW tst, NEW rec, Change(src, tst, rec), changes' \in 0..MaxChanges,
           src \in [Sources -> [version : 1..MaxVersion, active : BOOLEAN, highest : 1..MaxVersion]],
           \A s \in Sources : src[s].version <= src[s].highest /\ source[s].highest <= src[s].highest,
           tested \subseteq tst, tst \cup rec \subseteq Tests,
           \A t \in (tst \cup rec) \ (tested \cup recording) : t \in Proven(src, tst \cup rec)
    PROVE  QueryInv'
<1>1. /\ source' = src /\ tested' = tst /\ recording' = rec
      /\ reader' = Noted(demo, src, tst, rec) /\ UNCHANGED <<demo, writing, seeder, seeds>>
    BY DEF Change
<1>2. /\ reader' \in [Readers -> Reading]
      /\ \A r \in Readers : ReaderKnows(reader'[r], demo, src, tst, rec)
    BY <1>1, NotedStep
<1>3. ReadersKnow'
    BY <1>1, <1>2 DEF ReadersKnow
<1>4. ASSUME NEW t \in tst \cup rec
      PROVE  t[2] <= src[t[1]].highest
    <2>1. t[1] \in Sources /\ t[2] \in 1..MaxVersion
        BY DEF Tests
    <2>2. src[t[1]].version \in Nat /\ src[t[1]].highest \in Nat /\ src[t[1]].version <= src[t[1]].highest
          /\ source[t[1]].highest <= src[t[1]].highest
        BY <2>1
    <2>3. CASE t \in tested \cup recording
        <3>1. t[2] <= source[t[1]].highest /\ source[t[1]].highest \in Nat
            BY <2>1, <2>3 DEF QueryInv, QueryTypeOK
        <3>2. QED BY <2>1, <2>2, <3>1
    <2>4. CASE t \notin tested \cup recording
        BY <2>2, <2>4 DEF Proven
    <2>5. QED BY <2>3, <2>4
<1>5. QueryTypeOK'
    <2>1. \A r \in Readers : reader'[r].group \in Groups /\ reader'[r].asked \in Editions \cup {None}
        BY <1>2, ReadersTyped
    <2>2. QED BY <1>1, <1>4, <2>1 DEF QueryInv, QueryTypeOK, Tests
<1>6. SeedersKnow' /\ DemoIsSeeded'
    BY <1>1 DEF QueryInv, SeedersKnow, DemoIsSeeded
<1>7. QED BY <1>3, <1>5, <1>6 DEF QueryInv

\* Edits, disables and tests.
LEMMA SourceStep ==
    ASSUME QueryInv,
           \/ \E s \in Sources : Edit(s) \/ Disable(s) \/ Succeed(s)
           \/ \E t \in recording : Record(t)
    PROVE  QueryInv'
<1> DEFINE Row == [version : 1..MaxVersion, active : BOOLEAN, highest : 1..MaxVersion]
<1>1. /\ source \in [Sources -> Row] /\ tested \cup recording \subseteq Tests
      /\ \A s \in Sources : source[s].version <= source[s].highest /\ source[s].highest <= source[s].highest
      /\ changes \in 0..MaxChanges
    BY DEF QueryInv, QueryTypeOK, Tests
<1>2. Counted => changes' \in 0..MaxChanges
    BY <1>1, QueryAssumption DEF Counted
<1>3. ASSUME NEW s \in Sources, NEW entry \in Row, Counted, Change([source EXCEPT ![s] = entry], tested, recording),
             entry.version <= entry.highest, source[s].highest <= entry.highest
      PROVE  QueryInv'
    <2>1. PICK src : src = [source EXCEPT ![s] = entry]
        OBVIOUS
    <2>2. /\ src \in [Sources -> Row]
          /\ \A u \in Sources : src[u].version <= src[u].highest /\ source[u].highest <= src[u].highest
        BY <1>1, <1>3, <2>1
    <2>3. QED BY <1>1, <1>2, <1>3, <2>1, <2>2, ChangeStep
<1>4. ASSUME NEW s \in Sources, Edit(s)
      PROVE  QueryInv'
    <2>1. PICK read \in 1..source[s].highest :
            read < MaxVersion /\ Change([source EXCEPT ![s] = Edited(source[s], read)], tested, recording)
        BY <1>1, <1>4 DEF Edit
    <2>2. source[s] \in Row /\ read \in Nat
        BY <1>1
    <2>3. /\ Edited(source[s], read) \in Row
          /\ Edited(source[s], read).version = read + 1
          /\ Edited(source[s], read).highest = IF read = source[s].highest THEN read + 1 ELSE source[s].highest
        <3>1. /\ read + 1 \in 1..MaxVersion
              /\ (IF read = source[s].highest THEN read + 1 ELSE source[s].highest) \in 1..MaxVersion
            BY <2>1, <2>2, QueryAssumption
        <3>2. QED BY <2>2, <3>1 DEF Edited
    <2>4. /\ Edited(source[s], read).version <= Edited(source[s], read).highest
          /\ source[s].highest <= Edited(source[s], read).highest
        BY <2>1, <2>2, <2>3
    <2>5. QED BY <1>3, <1>4, <2>1, <2>3, <2>4 DEF Edit
<1>5. ASSUME NEW s \in Sources, Disable(s)
      PROVE  QueryInv'
    <2>1. PICK entry : entry = [source[s] EXCEPT !.active = FALSE]
        OBVIOUS
    <2>2. entry \in Row /\ entry.version <= entry.highest /\ source[s].highest <= entry.highest
        BY <1>1, <2>1
    <2>3. Change([source EXCEPT ![s] = entry], tested, recording) /\ Counted
        BY <1>1, <1>5, <2>1 DEF Disable
    <2>4. QED BY <1>3, <2>2, <2>3
<1>6. ASSUME NEW s \in Sources, Succeed(s)
      PROVE  QueryInv'
    <2>1. PICK t : t = <<s, source[s].version>>
        OBVIOUS
    <2>2. Change(source, tested, recording \cup {t}) /\ Counted /\ source[s].active
        BY <1>6, <2>1 DEF Succeed
    <2>3. t \in Tests /\ t \in Proven(source, tested \cup (recording \cup {t}))
        BY <1>1, <2>1, <2>2 DEF Tests, Proven
    <2>4. QED BY <1>1, <1>2, <2>2, <2>3, ChangeStep
<1>7. ASSUME NEW t \in recording, Record(t)
      PROVE  QueryInv'
    <2>1. Change(source, tested \cup {t}, recording \ {t}) /\ changes' = changes
        BY <1>7 DEF Record
    <2>2. (tested \cup {t}) \cup (recording \ {t}) = tested \cup recording
        OBVIOUS
    <2>3. QED BY <1>1, <2>1, <2>2, ChangeStep
<1>8. QED BY <1>4, <1>5, <1>6, <1>7

-----------------------------------------------------------------------------
(* The invariant, and what follows from it.                                *)

\* Before the first seeding and the first query.
LEMMA QueryInitial == QueryInit => QueryInv
<1> SUFFICES ASSUME QueryInit PROVE QueryInv
    OBVIOUS
<1>1. NotReading \in Reading /\ NotReading.pc = "idle" /\ NotReading.group = None /\ NotReading.asked = None
    BY QueryAssumption DEF NotReading, Reading, Groups
<1>2. NotSeeding \in Seeding /\ NotSeeding.pc = "idle"
    BY QueryAssumption DEF NotSeeding, Seeding
<1>3. ReadersKnow
    BY <1>1 DEF QueryInit, ReadersKnow, ReaderKnows
<1>4. SeedersKnow /\ DemoIsSeeded
    BY <1>2 DEF QueryInit, SeedersKnow, DemoIsSeeded
<1>5. QueryTypeOK
    <2>1. 1 \in 1..MaxVersion /\ 0 \in 0..MaxSeeds /\ 0 \in 0..MaxChanges
        BY QueryAssumption
    <2>2. QED BY <1>1, <1>2, <2>1 DEF QueryInit, QueryTypeOK, Groups
<1>6. QED BY <1>3, <1>4, <1>5 DEF QueryInv

\* Every step keeps it.
LEMMA QueryInductive == QueryInv /\ [QueryNext]_queryVars => QueryInv'
<1> SUFFICES ASSUME QueryInv, [QueryNext]_queryVars PROVE QueryInv'
    OBVIOUS
<1>1. CASE QueryNext
    BY <1>1, SeedStep, ReadStep, SourceStep DEF QueryNext
<1>2. CASE UNCHANGED queryVars
    BY <1>2 DEF queryVars, world, QueryInv, QueryTypeOK, SeedersKnow, DemoIsSeeded, ReadersKnow
<1>3. QED BY <1>1, <1>2

\* What a query knows holds in every reachable state.
LEMMA QueryInvariance == QuerySpec => []QueryInv
BY QueryInitial, QueryInductive, PTL DEF QuerySpec

\* The variables keep their types: versions stay under the highest one, and rows not
\* committed yet have one writer.
THEOREM QueryTypeCorrect == QuerySpec => []QueryTypeOK
<1>1. QueryInv => QueryTypeOK
    BY DEF QueryInv
<1>2. QED BY QueryInvariance, <1>1, PTL

\* Whatever is seeded between the statements of a query, an answer that shows all segments
\* of its facts has targets that add up, and what one leaves out makes no difference to
\* the value: seeding checked the facts it was made of, whosever metadata it has.
THEOREM AnswersStayWhole == QuerySpec => []AnswersAreWhole
<1>1. ASSUME QueryInv, NEW r \in Readers, reader[r].pc = "answered"
      PROVE  LET rows == reader[r].rows
                 facts == reader[r].facts
             IN  /\ DOMAIN Content[rows].slices = DOMAIN Content[facts].slices =>
                        Sum(DrillTargets(rows, facts)) = Content[facts].target
                 /\ Sum(Drill(rows, facts)) = Sum(Content[facts].slices)
    <2>1. PICK rows, facts : rows = reader[r].rows /\ facts = reader[r].facts
        OBVIOUS
    <2>2. facts \in Editions /\ Seeded(facts) /\ Sum(Drill(rows, facts)) = Content[facts].total
        BY <1>1, <2>1 DEF QueryInv, ReadersKnow, ReaderKnows, Found
    <2>3. ASSUME DOMAIN Content[rows].slices = DOMAIN Content[facts].slices
          PROVE  DrillTargets(rows, facts) = Content[facts].targets
        BY <2>2, <2>3, QueryAssumption DEF DrillTargets
    <2>4. Sum(Drill(rows, facts)) = Sum(Content[facts].slices) /\ Sum(Content[facts].targets) = Content[facts].target
        BY <2>2 DEF Seeded
    <2>5. QED BY <2>1, <2>3, <2>4
<1>2. QueryInv => AnswersAreWhole
    BY <1>1 DEF AnswersAreWhole
<1>3. QED BY QueryInvariance, <1>2, PTL

\* A query that meets nothing but seedings of the same content is answered, at whatever
\* statements they fall between.
THEOREM ReseedingIsInvisible == QuerySpec => []ReseedingSparesReaders
<1>1. QueryInv => ReseedingSparesReaders
    BY DEF QueryInv, ReadersKnow, ReaderKnows, Undisturbed, ReseedingSparesReaders
<1>2. QED BY QueryInvariance, <1>1, PTL

\* The health an answer reports was the source's at one moment of the query.
THEOREM HealthIsReal == QuerySpec => []HealthWasObserved
<1>1. QueryInv => HealthWasObserved
    BY DEF QueryInv, ReadersKnow, ReaderKnows, Noticed, HealthWasObserved
<1>2. QED BY QueryInvariance, <1>1, PTL

-----------------------------------------------------------------------------
(* The two modules together.                                               *)

\* A source of ExecutiveQuery as SourceLife sees it.
At(s) == INSTANCE SourceLife
    WITH status <- IF source[s].active THEN "active" ELSE "disabled",
         version <- source[s].version, highest <- source[s].highest

\* Whatever SourceLife does to an active source that stays active, ExecutiveQuery has an
\* Edit for, up to MaxVersion: DataSources, which implements SourceLife, does nothing to
\* such a source that the theorems about queries leave out.  (What becomes of one that is
\* disabled, by Disable, no query looks at any more.)
THEOREM SourceLifeIsAllowed ==
    ASSUME QueryInv, NEW s \in Sources, source[s].active, At(s)!Next,
           NEW edited \in [version : 1..MaxVersion, active : BOOLEAN, highest : 1..MaxVersion],
           edited.active, source' = [source EXCEPT ![s] = edited],
           Counted, Change(source', tested, recording)
    PROVE  Edit(s)
<1>1. /\ source \in [Sources -> [version : 1..MaxVersion, active : BOOLEAN, highest : 1..MaxVersion]]
      /\ source'[s] = edited
    BY DEF QueryInv, QueryTypeOK
<1>2. At(s)!Write
    BY <1>1 DEF At!Next, At!Create, At!Edit, At!Disable
<1>3. PICK read \in 1..source[s].highest :
        /\ source'[s].version = read + 1
        /\ source'[s].highest = IF read = source[s].highest THEN read + 1 ELSE source[s].highest
    BY <1>2 DEF At!Write
<1>4. edited = Edited(source[s], read)
    BY <1>1, <1>3 DEF Edited
<1>5. read < MaxVersion
    BY <1>1, <1>3, QueryAssumption
<1>6. Change([source EXCEPT ![s] = Edited(source[s], read)], tested, recording)
    BY <1>4
<1>7. QED BY <1>1, <1>5, <1>6 DEF Edit

=============================================================================

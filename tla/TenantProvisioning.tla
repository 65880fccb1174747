------------------------- MODULE TenantProvisioning -------------------------
(***************************************************************************)
(* The tenant provisioning workflow: identity/provisioning.py together     *)
(* with the part of dataplane/schema_per_tenant.py it drives.              *)
(*                                                                         *)
(* An operator's request walks through several transactions:               *)
(*                                                                         *)
(*   register  find the slug, or insert the row          (one transaction) *)
(*   _claim    a conditional UPDATE takes the next attempt                 *)
(*   plane     lock the row behind the fence, store a fresh password in    *)
(*             the secret store, rotate the login role   (one transaction) *)
(*   _settle   a conditional UPDATE marks the tenant ready                 *)
(*   _record_failure   or marks it failed, in a transaction of its own     *)
(*                                                                         *)
(* Requests of several operators interleave between any two of them, an    *)
(* API process may die between any two of them, and a claim older than     *)
(* stale_after_seconds may be taken over while its owner still runs.       *)
(*                                                                         *)
(* The secret store is not transactional: what the plane wrote there stays *)
(* when its database transaction rolls back.                               *)
(***************************************************************************)
EXTENDS Integers, Sequences

CONSTANTS
    Operators,   \* concurrent requests to the admin API
    Slugs,       \* tenant slugs; a row's id is fixed by its slug's one insert
    None,        \* "no value"
    MaxFaults    \* bound: exceptions, crashes and overrun claims in one run

ASSUME ConstantsAssumption == None \notin Operators /\ MaxFaults \in Nat

VARIABLES
    state,      \* [Slugs -> provisioning_state], "absent" while there is no row
    attempts,   \* [Slugs -> provisioning_attempts]
    stale,      \* [Slugs -> is provisioning_started_at older than the window]
    ref,        \* [Slugs -> the attempt whose secret the row points at], 0: none
    trail,      \* [Slugs -> audit rows and outbox messages, in commit order]
    lock,       \* [Slugs -> who holds the row FOR UPDATE]
    role,       \* [Slugs -> password of the login role], None before its CREATE
    secrets,    \* the external secret store
    pc,         \* [Operators -> next step of the request]
    target,     \* [Operators -> the slug the request is about]
    mine,       \* [Operators -> the attempt number its claim returned]
    answer,     \* [Operators -> how its last request ended]
    faults      \* faults injected so far

row   == <<state, attempts, stale, ref, trail>>
plane == <<lock, role, secrets>>
local == <<pc, target, mine, answer>>
vars  == <<row, plane, local, faults>>

States == {"absent", "pending", "in_progress", "ready", "failed"}

\* Steps at which a request owns, or believes it owns, an attempt.
Owning == {"fence", "store", "ddl", "settle", "record"}
Steps  == {"idle", "find", "insert", "claim", "explain"} \cup Owning

Answers == {"none", "ready", "conflict", "not_found",
            "failed", "superseded", "crashed"}

Calls == {"create", "provision"}

\* generate_password() returns a value nobody else has.  A request generates
\* one password for each attempt it claims, which names it.
Passwords == [by : Operators, attempt : Nat]
Events    == [kind : {"registered", "provisioned", "failed"}, attempt : Nat]
Secrets   == [tenant : Slugs, attempt : Nat, password : Passwords]

TypeOK ==
    /\ state \in [Slugs -> States]
    /\ attempts \in [Slugs -> Nat]
    /\ stale \in [Slugs -> BOOLEAN]
    /\ ref \in [Slugs -> Nat]
    /\ trail \in [Slugs -> Seq(Events)]
    /\ lock \in [Slugs -> Operators \cup {None}]
    /\ role \in [Slugs -> Passwords \cup {None}]
    /\ secrets \subseteq Secrets
    /\ pc \in [Operators -> Steps]
    /\ target \in [Operators -> Slugs]
    /\ mine \in [Operators -> Nat]
    /\ answer \in [Operators -> Answers]
    /\ faults \in 0..MaxFaults

Init ==
    /\ state = [t \in Slugs |-> "absent"]
    /\ attempts = [t \in Slugs |-> 0]
    /\ stale = [t \in Slugs |-> FALSE]
    /\ ref = [t \in Slugs |-> 0]
    /\ trail = [t \in Slugs |-> <<>>]
    /\ lock = [t \in Slugs |-> None]
    /\ role = [t \in Slugs |-> None]
    /\ secrets = {}
    /\ pc = [p \in Operators |-> "idle"]
    /\ target \in [Operators -> Slugs]
    /\ mine = [p \in Operators |-> 0]
    /\ answer = [p \in Operators |-> "none"]
    /\ faults = 0

-----------------------------------------------------------------------------
(* Helpers.                                                                *)

Fault == faults < MaxFaults /\ faults' = faults + 1

Goto(p, step) == pc' = [pc EXCEPT ![p] = step] /\ UNCHANGED <<target, mine, answer>>

Reply(p, result) ==
    /\ pc' = [pc EXCEPT ![p] = "idle"]
    /\ answer' = [answer EXCEPT ![p] = result]
    /\ UNCHANGED <<target, mine>>

\* The audit row and the outbox message written by the same transaction.
Publish(t, kind, n) == trail' = [trail EXCEPT ![t] = Append(@, [kind |-> kind, attempt |-> n])]

\* Mutant of Current: the attempt number is not compared.
CurrentByState(p) == state[target[p]] = "in_progress"

\* The fence of the data plane, and the WHERE of _settle and _record_failure.
Current(p) == state[target[p]] = "in_progress" /\ attempts[target[p]] = mine[p]

\* A statement that matches the row waits while another transaction holds it
\* FOR UPDATE; one whose WHERE does not match it waits for nobody.
Free(t) == lock[t] = None

Unlock(t) == lock' = [lock EXCEPT ![t] = None]

Password(p) == [by |-> p, attempt |-> mine[p]]

-----------------------------------------------------------------------------
(* create() and register().                                                *)

\* A request arrives: create() for a slug, or provision() for a tenant id.
Start(p, t, call) ==
    /\ pc[p] = "idle"
    /\ pc' = [pc EXCEPT ![p] = IF call = "create" THEN "find" ELSE "claim"]
    /\ target' = [target EXCEPT ![p] = t]
    /\ mine' = [mine EXCEPT ![p] = 0]
    /\ answer' = [answer EXCEPT ![p] = "none"]
    /\ UNCHANGED <<row, plane, faults>>

\* The SELECT by slug finds no row.
FindNothing(p) ==
    /\ pc[p] = "find" /\ state[target[p]] = "absent"
    /\ Goto(p, "insert")
    /\ UNCHANGED <<row, plane, faults>>

\* It finds one (as does the re-read of a registration that lost the race), and
\* _adopt_or_refuse refuses a finished tenant ...
Refuse(p) ==
    /\ pc[p] = "find" /\ state[target[p]] = "ready"
    /\ Reply(p, "conflict")
    /\ UNCHANGED <<row, plane, faults>>

\* ... and resumes an incomplete one.
Adopt(p) ==
    /\ pc[p] = "find" /\ state[target[p]] \notin {"absent", "ready"}
    /\ Goto(p, "claim")
    /\ UNCHANGED <<row, plane, faults>>

\* The INSERT, its audit row and its outbox message.
Insert(p) ==
    LET t == target[p] IN
    /\ pc[p] = "insert" /\ state[t] = "absent"
    /\ state' = [state EXCEPT ![t] = "pending"]
    /\ Publish(t, "registered", 0)
    /\ Goto(p, "claim")
    /\ UNCHANGED <<attempts, stale, ref, plane, faults>>

\* The unique slug refuses the loser of a race, who rolls back and re-reads.
InsertRefused(p) ==
    /\ pc[p] = "insert" /\ state[target[p]] # "absent"
    /\ Goto(p, "find")
    /\ UNCHANGED <<row, plane, faults>>

-----------------------------------------------------------------------------
(* provision(): the claim.                                                 *)

ClaimableIfOver(t)    == state[t] \in {"pending", "failed"}

Claimable(t) ==
    \/ state[t] \in {"pending", "failed"}
    \/ state[t] = "in_progress" /\ stale[t]

ClaimCountedDown(p) ==
    LET t == target[p] IN
    /\ pc[p] = "claim" /\ Free(t) /\ Claimable(t)
    /\ state' = [state EXCEPT ![t] = "in_progress"]
    /\ attempts' = [attempts EXCEPT ![t] = @ - 1]
    /\ stale' = [stale EXCEPT ![t] = FALSE]
    /\ mine' = [mine EXCEPT ![p] = attempts[t] - 1]
    /\ pc' = [pc EXCEPT ![p] = "fence"]
    /\ UNCHANGED <<ref, trail, plane, target, answer, faults>>

\* The conditional UPDATE of _claim.
Claim(p) ==
    LET t == target[p] IN
    /\ pc[p] = "claim" /\ Free(t) /\ Claimable(t)
    /\ state' = [state EXCEPT ![t] = "in_progress"]
    /\ attempts' = [attempts EXCEPT ![t] = @ + 1]
    /\ stale' = [stale EXCEPT ![t] = FALSE]
    /\ mine' = [mine EXCEPT ![p] = attempts[t] + 1]
    /\ pc' = [pc EXCEPT ![p] = "fence"]
    /\ UNCHANGED <<ref, trail, plane, target, answer, faults>>

\* The UPDATE matched no row, which locks nothing and waits for nobody.
ClaimMisses(p) ==
    /\ pc[p] = "claim" /\ ~Claimable(target[p])
    /\ Goto(p, "explain")
    /\ UNCHANGED <<row, plane, faults>>

\* The second SELECT of _claim says why; the row may have moved in between.
ClaimExplain(p) ==
    /\ pc[p] = "explain"
    /\ Reply(p, CASE state[target[p]] = "absent" -> "not_found"
                  [] state[target[p]] = "ready"  -> "ready"
                  [] OTHER                       -> "conflict")
    /\ UNCHANGED <<row, plane, faults>>

-----------------------------------------------------------------------------
(* SchemaPerTenantDataPlane.provision(): one transaction, fence to commit. *)

\* Mutant of FencePasses: the row is locked without the fence's WHERE.
FencePassesUnfenced(p) ==
    /\ pc[p] = "fence" /\ Free(target[p])
    /\ lock' = [lock EXCEPT ![target[p]] = p]
    /\ Goto(p, "store")
    /\ UNCHANGED <<row, role, secrets, faults>>

\* SELECT ... FOR UPDATE on the attempt: the row stays locked until the
\* transaction ends ...
FencePasses(p) ==
    /\ pc[p] = "fence" /\ Current(p) /\ Free(target[p])
    /\ lock' = [lock EXCEPT ![target[p]] = p]
    /\ Goto(p, "store")
    /\ UNCHANGED <<row, role, secrets, faults>>

\* ... or it matches no row, and ProvisioningFenceRejectedError is a failure.
FenceRejects(p) ==
    /\ pc[p] = "fence" /\ ~Current(p)
    /\ Goto(p, "record")
    /\ UNCHANGED <<row, plane, faults>>

\* store_new_password under the name of the attempt.  It is an external write,
\* and SecretStore.put replaces a secret of the same name.
PlaneStore(p) ==
    LET t == target[p] IN
    /\ pc[p] = "store"
    /\ secrets' = {s \in secrets : <<s.tenant, s.attempt>> # <<t, mine[p]>>}
                    \cup {[tenant |-> t, attempt |-> mine[p], password |-> Password(p)]}
    /\ Goto(p, "ddl")
    /\ UNCHANGED <<row, lock, role, faults>>

\* CREATE or ALTER ROLE with the password, the schema and its grants, COMMIT.
PlaneCommit(p) ==
    /\ pc[p] = "ddl"
    /\ role' = [role EXCEPT ![target[p]] = Password(p)]
    /\ Unlock(target[p])
    /\ Goto(p, "settle")
    /\ UNCHANGED <<row, secrets, faults>>

\* The store or a DDL statement raises: rollback releases the row.
PlaneFails(p) ==
    /\ pc[p] \in {"store", "ddl"} /\ Fault
    /\ Unlock(target[p])
    /\ Goto(p, "record")
    /\ UNCHANGED <<row, role, secrets>>

\* The COMMIT succeeds but its acknowledgement is lost.
PlaneCommitLost(p) ==
    /\ pc[p] = "ddl" /\ Fault
    /\ role' = [role EXCEPT ![target[p]] = Password(p)]
    /\ Unlock(target[p])
    /\ Goto(p, "record")
    /\ UNCHANGED <<row, secrets>>

-----------------------------------------------------------------------------
(* _settle and _record_failure.                                            *)

\* The UPDATE of a _settle that commits, its audit row and its message.
SettleRow(p) ==
    LET t == target[p] IN
    /\ pc[p] = "settle" /\ Current(p) /\ Free(t)
    /\ state' = [state EXCEPT ![t] = "ready"]
    /\ ref' = [ref EXCEPT ![t] = mine[p]]
    /\ Publish(t, "provisioned", mine[p])
    /\ UNCHANGED <<attempts, stale, plane>>

Settle(p) == SettleRow(p) /\ Reply(p, "ready") /\ UNCHANGED faults

\* The UPDATE matches no row: a newer attempt owns it, nothing is recorded.
SettleSuperseded(p) ==
    /\ pc[p] = "settle" /\ ~Current(p)
    /\ Reply(p, "superseded")
    /\ UNCHANGED <<row, plane, faults>>

\* _settle raises something else: before its COMMIT took effect, or after.
SettleFails(p) ==
    /\ pc[p] = "settle" /\ Goto(p, "record") /\ Fault
    /\ UNCHANGED <<row, plane>>

SettleCommitLost(p) == SettleRow(p) /\ Goto(p, "record") /\ Fault

\* Mutant of RecordFailure: it does not ask whose attempt the row names.
RecordFailureAnyway(p) ==
    LET t == target[p] IN
    /\ pc[p] = "record" /\ Free(t)
    /\ state' = [state EXCEPT ![t] = "failed"]
    /\ Publish(t, "failed", mine[p])
    /\ Reply(p, "failed")
    /\ UNCHANGED <<attempts, stale, ref, plane, faults>>

RecordFailure(p) ==
    LET t == target[p] IN
    /\ pc[p] = "record" /\ Current(p) /\ Free(t)
    /\ state' = [state EXCEPT ![t] = "failed"]
    /\ Publish(t, "failed", mine[p])
    /\ Reply(p, "failed")
    /\ UNCHANGED <<attempts, stale, ref, plane, faults>>

RecordSuperseded(p) ==
    /\ pc[p] = "record" /\ ~Current(p)
    /\ Reply(p, "superseded")
    /\ UNCHANGED <<row, plane, faults>>

\* _record_failure swallows its own exception: the row stays in_progress.
RecordSwallowed(p) ==
    /\ pc[p] = "record" /\ Fault
    /\ Reply(p, "failed")
    /\ UNCHANGED <<row, plane>>

-----------------------------------------------------------------------------
(* The environment.                                                        *)

\* The process serving the request dies; its open transaction rolls back.
Crash(p) ==
    /\ pc[p] # "idle" /\ Fault
    /\ lock' = [t \in Slugs |-> IF lock[t] = p THEN None ELSE lock[t]]
    /\ Reply(p, "crashed")
    /\ UNCHANGED <<row, role, secrets>>

\* Is the request that owns t's current attempt still running?
OwnerLives(t) == \E p \in Operators : pc[p] \in Owning /\ target[p] = t /\ mine[p] = attempts[t]

\* The staleness window passes.  A live owner that overruns it is a fault.
Expire(t) ==
    /\ state[t] = "in_progress" /\ ~stale[t]
    /\ stale' = [stale EXCEPT ![t] = TRUE]
    /\ \/ OwnerLives(t) /\ Fault
       \/ ~OwnerLives(t) /\ UNCHANGED faults
    /\ UNCHANGED <<state, attempts, ref, trail, plane, local>>

-----------------------------------------------------------------------------
\* The steps a running request takes by itself when nothing goes wrong.
Progress(p) ==
    \/ FindNothing(p) \/ Refuse(p) \/ Adopt(p) \/ Insert(p) \/ InsertRefused(p)
    \/ Claim(p) \/ ClaimMisses(p) \/ ClaimExplain(p)
    \/ FencePasses(p) \/ FenceRejects(p) \/ PlaneStore(p) \/ PlaneCommit(p)
    \/ Settle(p) \/ SettleSuperseded(p) \/ RecordFailure(p) \/ RecordSuperseded(p)

Failure(p) ==
    \/ PlaneFails(p) \/ PlaneCommitLost(p)
    \/ SettleFails(p) \/ SettleCommitLost(p)
    \/ RecordSwallowed(p) \/ Crash(p)

Next ==
    \/ \E p \in Operators :
        \/ \E t \in Slugs, call \in Calls : Start(p, t, call)
        \/ Progress(p)
        \/ Failure(p)
    \/ \E t \in Slugs : Expire(t)

Spec == Init /\ [][Next]_vars

\* A request in a living process is executed; a claim nobody works on any more
\* grows old.  Nothing obliges a fault, or an operator, to act.
FairSpec ==
    /\ Spec
    /\ \A p \in Operators : WF_vars(Progress(p))
    /\ \A t \in Slugs : WF_vars(Expire(t) /\ ~OwnerLives(t))

\* In addition an operator retries a tenant that list_tenants shows unfinished.
RetrySpec ==
    /\ FairSpec
    /\ \A t \in Slugs : SF_vars(\E p \in Operators : Start(p, t, "provision"))

-----------------------------------------------------------------------------
(* Properties.                                                             *)

\* A ready tenant can be opened: the reference on its row leads to a stored
\* secret whose value is the password its login role has now, whatever stolen
\* attempts, orphaned secrets and rolled-back DDL came before (_settle writes
\* only a reference; nothing in the code compares the two).
CredentialMatchesRole ==
    \A t \in Slugs : state[t] = "ready" =>
        [tenant |-> t, attempt |-> ref[t], password |-> role[t]] \in secrets

\* No two requests ever act on the same attempt of a tenant: the conditional
\* UPDATE of _claim is the whole of the concurrency control.
AttemptsAreExclusive ==
    \A p, q \in Operators :
        /\ p # q /\ target[p] = target[q]
        /\ pc[p] \in Owning /\ pc[q] \in Owning
        => mine[p] # mine[q]

\* The audit trail of a tenant tells one story: registered first, then at most
\* one outcome for an attempt, later outcomes for later attempts, and
\* "provisioned" exactly as its last word and exactly when the row is ready.
TrailIsConsistent ==
    \A t \in Slugs :
        /\ \A i, j \in DOMAIN trail[t] : i < j => trail[t][i].attempt < trail[t][j].attempt
        /\ \A i \in DOMAIN trail[t] :
            /\ trail[t][i].kind = "registered" <=> i = 1
            /\ trail[t][i].kind = "provisioned" <=> state[t] = "ready" /\ i = Len(trail[t])
        /\ state[t] = "ready" => trail[t] # <<>>

\* "ready" in an answer stays true: no request still running, however old, can
\* take the tenant out of ready afterwards.
ReadyAnswersAreTrue ==
    \A p \in Operators : answer[p] = "ready" => state[target[p]] = "ready"

\* Nothing a late, stolen or repeated request does changes a ready tenant: not
\* its row, not the password of its role, not the secret it refers to.
ReadyIsFinal ==
    [][\A t \in Slugs : state[t] = "ready" =>
        /\ state'[t] = "ready" /\ attempts'[t] = attempts[t] /\ ref'[t] = ref[t]
        /\ role'[t] = role[t]
        /\ {s \in secrets : s.tenant = t} = {s \in secrets' : s.tenant = t}]_vars

\* Only the attempt the row names may rotate the role or store a secret, and a
\* stored secret is never overwritten (the plane writes behind the fence's lock).
OnlyTheOwnerRotates ==
    [][/\ secrets \subseteq secrets'
       /\ \A s \in secrets' \ secrets :
            state[s.tenant] = "in_progress" /\ s.attempt = attempts[s.tenant]
       /\ \A t \in Slugs : role'[t] # role[t] =>
            state[t] = "in_progress" /\ role'[t].attempt = attempts[t]]_vars

\* A registered tenant becomes ready if an operator keeps retrying it: crashes,
\* swallowed bookkeeping and stolen claims leave it recoverable.
EventuallyReady == \A t \in Slugs : state[t] # "absent" ~> state[t] = "ready"

-----------------------------------------------------------------------------
(* The workflow implements ProvisionOnce.                                  *)

Visible(t) ==
    CASE state[t] = "absent" -> "absent"
      [] state[t] = "ready"  -> "ready"
      [] OTHER               -> "building"

\* SecretStore.get of the reference on the row.
Served(t) == (CHOOSE s \in secrets : s.tenant = t /\ s.attempt = ref[t]).password

Once == INSTANCE ProvisionOnce WITH
    status <- [t \in Slugs |-> Visible(t)],
    login  <- [t \in Slugs |-> IF state[t] = "ready" THEN role[t] ELSE None],
    served <- [t \in Slugs |-> IF state[t] = "ready" THEN Served(t) ELSE None]

\* Requests, attempts, takeovers and failures are invisible: callers see a tenant
\* registered once and finished once, with one working credential.
ImplementsProvisionOnce == Once!Spec

=============================================================================

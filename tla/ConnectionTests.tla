--------------------------- MODULE ConnectionTests ---------------------------
(***************************************************************************)
(* Connection tests of one data source of one tenant: the request          *)
(* (connectivity/connection_testing.py), the outbox relay that hands it to  *)
(* the broker (worker main.py and outbox.py), and the worker that executes *)
(* a delivery (worker connection_tests.py) under a lease, a tenant-wide     *)
(* concurrency limit and the version pinned at the request.                *)
(*                                                                         *)
(* A delivery is three transactions, each locking the job's row: claim,     *)
(* fence, record.  Edits of the source commit between them; an edit that    *)
(* commits inside one commutes with it, so each transaction is one action.  *)
(* Dramatiq is external: it redelivers what was not acknowledged, retries   *)
(* what raised, and gives a message up after MaxRetries retries.            *)
(***************************************************************************)
EXTENDS Integers, FiniteSets

CONSTANTS
    Jobs,           \* rows of connection_test
    Messages,       \* broker messages; bound: so many are ever sent
    Threads,        \* consumer threads of all worker processes
    Cap,            \* connection_test_tenant_concurrency
    MaxRetries,     \* max_retries of the actor
    MaxEditions,    \* bound: contents the source ever has
    MaxFaults,      \* bound: exceptions, crashes, lost acknowledgements
    None            \* no job

ASSUME ConstantsAssumption ==
    /\ IsFiniteSet(Jobs) /\ IsFiniteSet(Messages)
    /\ Threads \in Nat \ {0} /\ Cap \in Nat \ {0}
    /\ MaxRetries \in Nat /\ MaxEditions \in Nat \ {0, 1} /\ MaxFaults \in Nat

VARIABLES
    status,     \* [Jobs -> ConnectionTest.status], "none": no row
    lease,      \* [Jobs -> lease_expires_at is in the future]
    pinned,     \* [Jobs -> source_version]
    asked,      \* history: [Jobs -> the edition current at the request]
    about,      \* history: [Jobs -> the edition the recorded result is about], 0
    outbox,     \* jobs whose request is in the outbox, unpublished
    at,         \* [Messages -> where the delivery stands]
    job,        \* [Messages -> its job_id], None
    retries,    \* [Messages -> retries so far]
    probed,     \* [Messages -> edition the connector was built from], 0
    overrun,    \* history: working deliveries under which the lease lapsed
    version, edition, active,   \* the data source
    names,      \* history: [editions -> the version each had, 0 before it exists]
    faults

jobs   == <<status, lease, pinned, asked, about>>
broker == <<at, job, retries, probed, overrun>>
source == <<version, edition, active, names>>
vars   == <<jobs, outbox, broker, source, faults>>

Final == {"succeeded", "failed", "stale"}

Working == {m \in Messages : at[m] \in {"fence", "record"}}

TypeOK ==
    /\ status \in [Jobs -> {"none", "queued", "running"} \cup Final]
    /\ lease \in [Jobs -> BOOLEAN]
    /\ pinned \in [Jobs -> 0..MaxEditions] /\ asked \in [Jobs -> 0..MaxEditions]
    /\ about \in [Jobs -> 0..MaxEditions]
    /\ outbox \subseteq Jobs
    /\ at \in [Messages -> {"unused", "queue", "fence", "record", "acked", "dead"}]
    /\ job \in [Messages -> Jobs \cup {None}]
    /\ retries \in [Messages -> 0..MaxRetries]
    /\ probed \in [Messages -> 0..MaxEditions]
    /\ version \in 1..MaxEditions /\ edition \in 1..MaxEditions /\ active \in BOOLEAN
    /\ overrun \subseteq Working
    /\ names \in [1..MaxEditions -> 0..MaxEditions]
    /\ faults \in 0..MaxFaults
    /\ \A j \in Jobs : lease[j] => status[j] = "running"

\* The source has been edited once: a PATCH that read its first version may be
\* under way.
Init ==
    /\ status = [j \in Jobs |-> "none"]
    /\ lease = [j \in Jobs |-> FALSE]
    /\ pinned = [j \in Jobs |-> 0] /\ asked = [j \in Jobs |-> 0] /\ about = [j \in Jobs |-> 0]
    /\ outbox = {}
    /\ at = [m \in Messages |-> "unused"] /\ job = [m \in Messages |-> None]
    /\ retries = [m \in Messages |-> 0] /\ probed = [m \in Messages |-> 0]
    /\ version = 2 /\ edition = 2 /\ active = TRUE
    /\ names = [e \in 1..MaxEditions |-> IF e <= 2 THEN e ELSE 0]
    /\ overrun = {} /\ faults = 0

-----------------------------------------------------------------------------
(* Helpers.                                                                *)

Fault == faults < MaxFaults /\ faults' = faults + 1

\* The fence builds the connector; it lives until the delivery ends.
Goto(m, step) ==
    /\ at' = [at EXCEPT ![m] = step]
    /\ probed' = [probed EXCEPT ![m] = IF step = "record" THEN edition ELSE 0]
    /\ overrun' = IF step = "record" THEN overrun ELSE overrun \ {m}

SetStatus(j, s) ==
    /\ status' = [status EXCEPT ![j] = s]
    /\ lease' = [lease EXCEPT ![j] = s = "running"]

\* Mutant of Current: the pinned version is not compared.
CurrentUnversioned(j) == active

\* The job's pinned version is the source's, and the source is active.
Current(j) == pinned[j] = version /\ active

\* Mutant of Leased: every redelivery takes the job over.
LeasedNever(j) == FALSE

Leased(j) == status[j] = "running" /\ lease[j]

\* Mutant of Running: rows whose lease lapsed are not counted.
RunningLeased == {j \in Jobs : status[j] = "running" /\ lease[j]}

\* The rows the claim counts: a row whose lease lapsed, its own too, is one.
Running == {j \in Jobs : status[j] = "running"}

\* Dramatiq: try again while there are retries left, else give up.
Again(m) ==
    \/ /\ retries[m] < MaxRetries
       /\ retries' = [retries EXCEPT ![m] = @ + 1]
       /\ Goto(m, "queue")
    \/ /\ retries[m] = MaxRetries
       /\ Goto(m, "dead")
       /\ UNCHANGED retries

-----------------------------------------------------------------------------
(* The request, and the relay.                                             *)

\* One transaction: the row and its outbox message.
Request(j) ==
    /\ status[j] = "none" /\ active
    /\ SetStatus(j, "queued")
    /\ pinned' = [pinned EXCEPT ![j] = version]
    /\ asked' = [asked EXCEPT ![j] = edition]
    /\ outbox' = outbox \cup {j}
    /\ UNCHANGED <<about, broker, source, faults>>

Send(j, m) ==
    /\ j \in outbox /\ at[m] = "unused"
    /\ Goto(m, "queue")
    /\ job' = [job EXCEPT ![m] = j]
    /\ UNCHANGED retries

\* dispatch, then UPDATE published_at, COMMIT.
Relay(j, m) ==
    /\ Send(j, m)
    /\ outbox' = outbox \ {j}
    /\ UNCHANGED <<jobs, source, faults>>

\* The relay's transaction fails after the dispatch: the row stays.
RelayFails(j, m) ==
    /\ Fault /\ Send(j, m)
    /\ UNCHANGED <<jobs, outbox, source>>

-----------------------------------------------------------------------------
(* Transaction 1: the claim.                                               *)

Deliver(m) == at[m] = "queue" /\ Cardinality(Working) < Threads

\* The job has its result: acknowledge.
ClaimFinal(m) ==
    /\ Deliver(m) /\ status[job[m]] \in Final
    /\ Goto(m, "acked")
    /\ UNCHANGED <<jobs, outbox, job, retries, source, faults>>

ClaimLeased(m) ==
    /\ Deliver(m) /\ Leased(job[m])
    /\ Again(m)
    /\ UNCHANGED <<jobs, outbox, job, source, faults>>

Claimable(m) == Deliver(m) /\ status[job[m]] \notin Final /\ ~Leased(job[m])

ClaimStale(m) ==
    /\ Claimable(m) /\ ~Current(job[m])
    /\ SetStatus(job[m], "stale")
    /\ Goto(m, "acked")
    /\ UNCHANGED <<pinned, asked, about, outbox, job, retries, source, faults>>

\* Mutant of ClaimFull: a deferred delivery counts as done.
ClaimFullAcks(m) ==
    /\ Claimable(m) /\ Current(job[m]) /\ Cardinality(Running) >= Cap
    /\ SetStatus(job[m], "queued")
    /\ Goto(m, "acked")
    /\ UNCHANGED <<pinned, asked, about, outbox, job, retries, source, faults>>

\* A lapsed row goes back to queued; the COMMIT of "deferred" keeps that.
ClaimFull(m) ==
    /\ Claimable(m) /\ Current(job[m]) /\ Cardinality(Running) >= Cap
    /\ SetStatus(job[m], "queued")
    /\ Again(m)
    /\ UNCHANGED <<pinned, asked, about, outbox, job, source, faults>>

ClaimRun(m) ==
    /\ Claimable(m) /\ Current(job[m]) /\ Cardinality(Running) < Cap
    /\ SetStatus(job[m], "running")
    /\ Goto(m, "fence")
    /\ UNCHANGED <<pinned, asked, about, outbox, job, retries, source, faults>>

-----------------------------------------------------------------------------
(* Transaction 2, the fence before the credential and the network are used *)
(* and, after the probe, transaction 3.                                    *)

\* Mutant of Fenced: the status the claim set is not looked at again.
FencedByVersion(m) == Current(job[m])

Fenced(m) == status[job[m]] = "running" /\ Current(job[m])

\* The connector is built from the source as read here.
FencePasses(m) ==
    /\ at[m] = "fence" /\ Fenced(m)
    /\ Goto(m, "record")
    /\ UNCHANGED <<jobs, outbox, job, retries, source, faults>>

Record(m) ==
    /\ at[m] = "record" /\ Fenced(m)
    /\ \E outcome \in {"succeeded", "failed"} : SetStatus(job[m], outcome)
    /\ about' = [about EXCEPT ![job[m]] = probed[m]]
    /\ Goto(m, "acked")
    /\ UNCHANGED <<pinned, asked, outbox, job, retries, source, faults>>

\* Mutant of Superseded: "stale" is returned, but not written to the row.
SupersededSilently(m) ==
    /\ m \in Working /\ ~Fenced(m)
    /\ Goto(m, "acked")
    /\ UNCHANGED <<jobs, outbox, job, retries, source, faults>>

\* Either transaction finds the job or the source changed.
Superseded(m) ==
    /\ m \in Working /\ ~Fenced(m)
    /\ \/ status[job[m]] = "running" /\ SetStatus(job[m], "stale")
       \/ status[job[m]] # "running" /\ UNCHANGED <<status, lease>>
    /\ Goto(m, "acked")
    /\ UNCHANGED <<pinned, asked, about, outbox, job, retries, source, faults>>

-----------------------------------------------------------------------------
(* Failures, and time.                                                     *)

\* A transaction raises: Dramatiq retries the message.
Raises(m) ==
    /\ at[m] \in {"queue", "fence", "record"} /\ Fault
    /\ Again(m)
    /\ UNCHANGED <<jobs, outbox, job, source>>

\* The process dies before the acknowledgement, perhaps after the last COMMIT:
\* the broker hands the message to another.
Redelivered(m) ==
    /\ at[m] \in {"fence", "record", "acked"} /\ Fault
    /\ Goto(m, "queue")
    /\ UNCHANGED <<jobs, outbox, job, retries, source>>

LeaseLapses(j) ==
    /\ lease[j]
    /\ lease' = [lease EXCEPT ![j] = FALSE]
    /\ overrun' = overrun \cup {m \in Working : job[m] = j}
    /\ UNCHANGED <<status, pinned, asked, about, outbox, at, job, retries, probed, source, faults>>

-----------------------------------------------------------------------------
(* Edits of the source (DataSources).                                      *)

\* A PATCH writes one more than the version it read, which others may have
\* replaced since: it may repeat a version, and take the version back.
Edit ==
    /\ active /\ edition < MaxEditions
    /\ edition' = edition + 1
    /\ \E read \in {names[e] : e \in 1..edition} :
        /\ version' = read + 1
        /\ names' = [names EXCEPT ![edition'] = read + 1]
    /\ UNCHANGED <<active, jobs, outbox, broker, faults>>

\* A disabled source stays so; no test looks at its version any more.
Disable ==
    /\ active /\ active' = FALSE
    /\ UNCHANGED <<version, edition, names, jobs, outbox, broker, faults>>

-----------------------------------------------------------------------------
Publish(j) == \E m \in Messages : Relay(j, m)

Step(m) ==
    \/ ClaimFinal(m) \/ ClaimLeased(m) \/ ClaimStale(m) \/ ClaimFull(m) \/ ClaimRun(m)
    \/ FencePasses(m) \/ Record(m) \/ Superseded(m)

Next ==
    \/ \E j \in Jobs : Request(j) \/ Publish(j) \/ LeaseLapses(j)
    \/ \E j \in Jobs, m \in Messages : RelayFails(j, m)
    \/ \E m \in Messages : Step(m) \/ Raises(m) \/ Redelivered(m)
    \/ Edit \/ Disable

Spec == Init /\ [][Next]_vars

\* The relay polls, the consumer's threads serve the queue in turn, time passes.
FairSpec ==
    /\ Spec
    /\ \A j \in Jobs : WF_vars(Publish(j)) /\ WF_vars(LeaseLapses(j))
    /\ \A m \in Messages : SF_vars(Step(m))

-----------------------------------------------------------------------------
(* Properties.                                                             *)

\* At no time are more of the tenant's rows running than the limit, whatever
\* lapses, is redelivered or fails (the claim counts under the advisory lock).
CapRespected == Cardinality({j \in Jobs : status[j] = "running"}) <= Cap

\* Duplicate delivery, restart and retry never change a result once recorded:
\* neither its outcome nor what it is about.
ResultIsFinal ==
    [][\A j \in Jobs : status[j] \in Final => status'[j] = status[j] /\ about'[j] = about[j]]_vars

\* A recorded outcome is about the contents the source had when the test was
\* asked for, although edits commit between request, claim, fence and record, or
\* about other contents under the same version: PATCHes can give one version to
\* two contents.  docs/22:374 promises more: "A source update/credential rotation during a
\* queued test is fenced by `source_version`".
ResultAnswersRequest ==
    \A j \in Jobs : status[j] \in {"succeeded", "failed"} =>
        names[about[j]] = names[asked[j]]

\* Of the deliveries that work on a job, at most one has not outlived a lease,
\* for all the duplicates, redeliveries and retries there may be.
OneProber ==
    \A m, n \in Working \ overrun : job[m] = job[n] => m = n

\* A job without a result is never forgotten: its request is in the outbox, or a message
\* about it is in the queue, with a worker or given up.  That deliveries of one job are
\* deferred, superseded and acknowledged while others go on never leaves it to nobody.
NothingForgotten ==
    \A j \in Jobs : status[j] \in {"queued", "running"} =>
        j \in outbox \/ \E m \in Messages : job[m] = j /\ at[m] \notin {"unused", "acked"}

\* Every request is answered, or its message ends among the given-up ones.
AnsweredOrDropped ==
    \A j \in Jobs : status[j] = "queued" ~>
        (status[j] \in Final \/ \E m \in Messages : job[m] = j /\ at[m] = "dead")

-----------------------------------------------------------------------------
(* Statements of the repository that the code does not keep.               *)

\* docs/24:44 "If a worker dies, its persisted lease expires and redelivery
\* safely reclaims the attempt."
DeadWorkersAreReplaced ==
    \A j \in Jobs : status[j] = "running" /\ ~lease[j] ~> status[j] # "running" \/ lease[j]

=============================================================================

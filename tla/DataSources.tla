----------------------------- MODULE DataSources -----------------------------
(***************************************************************************)
(* One data source of one tenant: connectivity/service.py (create, update, *)
(* disable), the routes over it, the secret compensation of api/deps.py    *)
(* and the credential destruction of the worker's maintenance.py.          *)
(*                                                                         *)
(* A request is one READ COMMITTED transaction that first reads the row    *)
(* into the ORM session and later flushes what it computed from that       *)
(* reading; the flush and the COMMIT are one step here because the flush   *)
(* takes the row's lock.  The secret store is outside the transaction: a   *)
(* request that raises deletes the secret it wrote, unless the deletion    *)
(* raises too; one whose process dies does not.  Between its reading and   *)
(* its flush other requests commit.                                        *)
(***************************************************************************)
EXTENDS Integers, FiniteSets

CONSTANTS
    Clients,        \* concurrent requests about this source
    MaxEditions,    \* bound: contents (and secrets) ever written
    MaxFaults       \* bound: exceptions, crashes and lost answers

ASSUME ConstantsAssumption == MaxEditions \in Nat /\ MaxFaults \in Nat

VARIABLES
    status,     \* "absent" while there is no row, "active", "disabled"
    version,    \* DataSource.version, the ETag
    edition,    \* the configuration the row holds; every PATCH brings a new one
    secret,     \* the secret its (secret_name, secret_version) refers to
    destroyed,  \* credential_destroyed_at is set
    due,        \* credential_destroy_after has passed
    deletions,  \* audit rows SOURCE_DELETED
    highest,    \* history: the highest version the row had
    store,      \* secrets present in the secret store
    referenced, \* history: secrets some committed row referred to
    unanswered, \* history: what was committed by a COMMIT that raised all the same
    abandoned,  \* history: what was brought by requests that died or failed to clean up
    next,       \* next fresh edition (and secret)
    pc,         \* [Clients -> step of the request]
    seen,       \* [Clients -> version the request read into its session]
    new,        \* [Clients -> edition, and secret if any, that the request brings]
    sweep,      \* the worker's maintenance: "idle", "locked", "deleted"
    faults

row    == <<status, version, edition, secret, destroyed, due, deletions, highest>>
vault  == <<store, referenced, next>>
past   == <<unanswered, abandoned>>
client == <<pc, seen, new>>
vars   == <<row, vault, past, client, sweep, faults>>

Steps == {"idle", "create_put", "create", "patch_put", "patch", "delete", "compensate"}

TypeOK ==
    /\ status \in {"absent", "active", "disabled"}
    /\ version \in Nat /\ edition \in Nat /\ secret \in Nat /\ deletions \in Nat /\ highest \in Nat
    /\ destroyed \in BOOLEAN /\ due \in BOOLEAN
    /\ next \in 1..(MaxEditions + 1)
    /\ store \subseteq 1..MaxEditions /\ referenced \subseteq 1..MaxEditions
    /\ unanswered \subseteq 1..MaxEditions /\ abandoned \subseteq 1..MaxEditions
    /\ pc \in [Clients -> Steps]
    /\ seen \in [Clients -> Nat]
    /\ new \in [Clients -> 0..MaxEditions]
    /\ sweep \in {"idle", "locked", "deleted"}
    /\ \A c \in Clients : pc[c] = "idle" => seen[c] = 0 /\ new[c] = 0
    /\ version = 0 <=> status = "absent"
    /\ faults \in 0..MaxFaults

Init ==
    /\ status = "absent" /\ version = 0 /\ edition = 0 /\ secret = 0
    /\ destroyed = FALSE /\ due = FALSE /\ deletions = 0 /\ highest = 0
    /\ store = {} /\ referenced = {} /\ next = 1
    /\ unanswered = {} /\ abandoned = {}
    /\ pc = [c \in Clients |-> "idle"]
    /\ seen = [c \in Clients |-> 0]
    /\ new = [c \in Clients |-> 0]
    /\ sweep = "idle" /\ faults = 0

-----------------------------------------------------------------------------
(* Helpers.                                                                *)

Fault == faults < MaxFaults /\ faults' = faults + 1

Goto(c, step) == pc' = [pc EXCEPT ![c] = step]

\* The request ends; what its session held is gone.
End(c) ==
    /\ Goto(c, "idle")
    /\ seen' = [seen EXCEPT ![c] = 0]
    /\ new' = [new EXCEPT ![c] = 0]

\* The secret or edition the request brought, if any.
Brought(c) == {new[c]} \ {0}

\* What a request brings is new; the bound MaxEditions stops new requests.
Bring(c) ==
    /\ next <= MaxEditions
    /\ new' = [new EXCEPT ![c] = next]
    /\ next' = next + 1

\* Mutant of PutFresh: rotation deletes the secret the row still refers to.
PutReplacing(c, step) ==
    /\ store' = (store \ {secret}) \cup {new[c]}
    /\ Goto(c, step)
    /\ UNCHANGED <<row, referenced, next, past, seen, new, sweep, faults>>

\* secret_store.put under a name of its own (a fresh uuid).
PutFresh(c, step) ==
    /\ store' = store \cup {new[c]}
    /\ Goto(c, step)
    /\ UNCHANGED <<row, referenced, next, past, seen, new, sweep, faults>>

-----------------------------------------------------------------------------
(* create.  Every client repeats the same request: one Idempotency-Key.    *)

\* No row has the key: go on.  (A row that has it is returned unchanged.)
CreateRead(c) ==
    /\ pc[c] = "idle" /\ status = "absent"
    /\ Bring(c)
    /\ Goto(c, "create_put")
    /\ UNCHANGED <<row, store, referenced, past, seen, sweep, faults>>

CreatePut(c) == pc[c] = "create_put" /\ PutFresh(c, "create")

InsertRow(c) ==
    /\ pc[c] = "create" /\ status = "absent"
    /\ status' = "active" /\ version' = 1 /\ highest' = 1
    /\ edition' = new[c] /\ secret' = new[c]
    /\ referenced' = referenced \cup {new[c]}
    /\ UNCHANGED <<destroyed, due, deletions, store, next>>

CreateCommit(c) == InsertRow(c) /\ End(c) /\ UNCHANGED <<past, sweep, faults>>

\* The unique idempotency key refuses the loser of a race.
CreateRefused(c) ==
    /\ pc[c] = "create" /\ status # "absent"
    /\ Goto(c, "compensate")
    /\ UNCHANGED <<row, vault, past, seen, new, sweep, faults>>

-----------------------------------------------------------------------------
(* update.  The client's If-Match names the version the request reads;     *)
(* any other If-Match, and a disabled row, are refused without a trace.    *)

PatchRead(c) ==
    /\ pc[c] = "idle" /\ status = "active"
    /\ seen' = [seen EXCEPT ![c] = version]
    /\ Bring(c)
    /\ \E step \in {"patch_put", "patch"} : Goto(c, step)
    /\ UNCHANGED <<row, store, referenced, past, sweep, faults>>

PatchPut(c) == pc[c] = "patch_put" /\ PutFresh(c, "patch")

\* row.version += 1, on the version the request read.
BumpVersion(c) ==
    /\ version' = seen[c] + 1
    /\ highest' = IF seen[c] = highest THEN seen[c] + 1 ELSE highest

\* Mutant of PatchRow: the UPDATE writes every column as the request read it.
PatchAllColumns(c) ==
    /\ pc[c] = "patch"
    /\ BumpVersion(c)
    /\ edition' = new[c] /\ status' = "active"
    /\ UNCHANGED <<secret, referenced, destroyed, due, deletions, store, next>>

\* UPDATE ... WHERE id: the ORM writes the changed columns and the version it
\* computed from its reading.  No column of the WHERE tells it of other commits.
PatchRow(c) ==
    /\ pc[c] = "patch"
    /\ BumpVersion(c)
    /\ edition' = new[c]
    /\ \/ new[c] \in store
          /\ secret' = new[c] /\ referenced' = referenced \cup {new[c]}
       \/ new[c] \notin store /\ UNCHANGED <<secret, referenced>>
    /\ UNCHANGED <<status, destroyed, due, deletions, store, next>>

PatchCommit(c) == PatchRow(c) /\ End(c) /\ UNCHANGED <<past, sweep, faults>>

-----------------------------------------------------------------------------
(* disable.                                                                *)

\* get() reads the row into the session; an already disabled one is returned.
DisableRead(c) ==
    /\ pc[c] = "idle" /\ status = "active"
    /\ seen' = [seen EXCEPT ![c] = version]
    /\ Goto(c, "delete")
    /\ UNCHANGED <<row, vault, past, new, sweep, faults>>

\* SELECT ... FOR UPDATE takes the lock, but hands back the object the session
\* already holds, with the attributes it read before: its second look at the
\* status repeats the first.  Then flush, audit SOURCE_DELETED, COMMIT.
DisableRow(c) ==
    /\ pc[c] = "delete"
    /\ status' = "disabled"
    /\ BumpVersion(c)
    /\ deletions' = deletions + 1
    /\ UNCHANGED <<edition, secret, destroyed, due, vault>>

DisableCommit(c) == DisableRow(c) /\ End(c) /\ UNCHANGED <<past, sweep, faults>>

-----------------------------------------------------------------------------
(* Failures of a request, and the compensation of get_tenant_session.      *)

\* The service, the flush or the COMMIT raises and nothing is committed.
RequestFails(c) ==
    /\ pc[c] \in {"create_put", "create", "patch_put", "patch", "delete"} /\ Fault
    /\ Goto(c, "compensate")
    /\ UNCHANGED <<row, vault, past, seen, new, sweep>>

\* The COMMIT takes effect, but the session raises all the same.
AckLost(c) ==
    /\ Fault
    /\ InsertRow(c) \/ PatchRow(c) \/ DisableRow(c)
    /\ unanswered' = unanswered \cup Brought(c)
    /\ Goto(c, "compensate")
    /\ UNCHANGED <<abandoned, seen, new, sweep>>

\* Mutant of Compensate: the secret written stays.
CompensateNothing(c) ==
    /\ pc[c] = "compensate"
    /\ End(c)
    /\ UNCHANGED <<row, vault, past, sweep, faults>>

\* except BaseException: delete every secret this session wrote.
Compensate(c) ==
    /\ pc[c] = "compensate"
    /\ store' = store \ {new[c]}
    /\ End(c)
    /\ UNCHANGED <<row, referenced, next, past, sweep, faults>>

\* Cleaning up fails too and the secret may stay: the compensation's delete raises, before
\* or after the secret's file is gone (a request registers one secret, so it skips no other);
\* or put raises half-way and the removal of its file, whose error _write suppresses, fails:
\* nothing is registered for compensation then.
CleanupFails(c) ==
    /\ \/ pc[c] = "compensate" /\ new[c] \in store /\ store' \in {store, store \ {new[c]}}
       \/ pc[c] \in {"create_put", "patch_put"} /\ store' = store \cup {new[c]}
    /\ Fault
    /\ End(c)
    /\ abandoned' = abandoned \cup Brought(c)
    /\ UNCHANGED <<row, referenced, next, unanswered, sweep>>

Crash(c) ==
    /\ pc[c] # "idle" /\ Fault
    /\ End(c)
    /\ abandoned' = abandoned \cup Brought(c)
    /\ UNCHANGED <<row, vault, unanswered, sweep>>

-----------------------------------------------------------------------------
(* The 30 days, and run_tenant_maintenance.                                *)

\* No request lasts until the deadline, so none is left to race with the sweep
\* that locks the row FOR UPDATE.
DeadlinePasses ==
    /\ status = "disabled" /\ ~due
    /\ \A c \in Clients : pc[c] = "idle"
    /\ due' = TRUE
    /\ UNCHANGED <<status, version, edition, secret, destroyed, deletions, highest, vault, past, client,
                   sweep, faults>>

\* Mutant of SweepLock: the database claim precedes the external deletion.
SweepClaims ==
    /\ sweep = "idle" /\ status = "disabled" /\ due /\ ~destroyed
    /\ sweep' = "locked" /\ destroyed' = TRUE
    /\ UNCHANGED <<status, version, edition, secret, due, deletions, highest, vault, past, client, faults>>

SweepLock ==
    /\ sweep = "idle" /\ status = "disabled" /\ due /\ ~destroyed
    /\ sweep' = "locked"
    /\ UNCHANGED <<row, vault, past, client, faults>>

\* External deletion precedes the database claim.
SweepDelete ==
    /\ sweep = "locked"
    /\ store' = store \ {secret}
    /\ sweep' = "deleted"
    /\ UNCHANGED <<row, referenced, next, past, client, faults>>

SweepCommit ==
    /\ sweep = "deleted"
    /\ destroyed' = TRUE
    /\ sweep' = "idle"
    /\ UNCHANGED <<status, version, edition, secret, due, deletions, highest, vault, past, client, faults>>

\* The store or the COMMIT raises, or the worker dies: the next pass retries.
SweepFails ==
    /\ sweep \in {"locked", "deleted"} /\ Fault
    /\ sweep' = "idle"
    /\ UNCHANGED <<row, vault, past, client>>

-----------------------------------------------------------------------------
Sweep == SweepLock \/ SweepDelete \/ SweepCommit

Request(c) ==
    \/ CreateRead(c) \/ CreatePut(c) \/ CreateCommit(c) \/ CreateRefused(c)
    \/ PatchRead(c) \/ PatchPut(c) \/ PatchCommit(c)
    \/ DisableRead(c) \/ DisableCommit(c)
    \/ Compensate(c)

Next ==
    \/ \E c \in Clients : Request(c) \/ RequestFails(c) \/ AckLost(c) \/ CleanupFails(c) \/ Crash(c)
    \/ DeadlinePasses \/ Sweep \/ SweepFails

Spec == Init /\ [][Next]_vars

\* run_relay polls for due tenants for ever; days pass.
FairSpec == Spec /\ WF_vars(DeadlinePasses) /\ WF_vars(Sweep)
    /\ \A c \in Clients : WF_vars(pc[c] # "idle" /\ Request(c))

-----------------------------------------------------------------------------
(* Properties.                                                             *)

\* As long as a source can be tested, and through the recovery period of a
\* disabled one, the store holds the credential its row refers to: no failed or
\* crashed create or rotation, alone or racing others, deletes it.  The one
\* exception is a COMMIT that took effect and raised (ActiveSourceHasCredential).
CredentialAvailable ==
    status = "active" \/ (status = "disabled" /\ ~due) => secret \in store \cup unanswered

\* When no request is under way, the store holds no secret that never belonged
\* to a committed row: the loser of a create race and a rotation that raised
\* have cleaned up (get_tenant_session).  Only a process that died and a clean-up
\* that failed itself leave one.
NoOrphans == (\A c \in Clients : pc[c] = "idle") => store \subseteq referenced \cup abandoned

\* credential_destroyed_at is never set while the row's secret still exists,
\* whatever fails in maintenance between the deletion and the COMMIT.
DestroyedIsGone == destroyed => secret \notin store

\* Every disabled source ends with its credential gone and recorded as gone,
\* through failing passes, crashes and requests that lost their answers.
EventuallyDestroyed == (status = "disabled") ~> (destroyed /\ secret \notin store)

\* What the others may rely on, the tests of the source and the queries that name it:
\* SourceLife.  A disabled source is never active again, although a PATCH that read it
\* before writes it still, and no version is anything but one more than one it had
\* (service.py:206-232, 253-266).
Life == INSTANCE SourceLife

ImplementsSourceLife == Life!Spec

-----------------------------------------------------------------------------
(* Statements of the repository that the code does not keep.               *)

\* service.py:248 "Idempotently disable a source"; service.py:256 "Locking
\* closes the race with maintenance and concurrent deletion."
DeletedOnce == deletions <= 1

\* docs/22:136: version is the "Optimistic-concurrency value used by
\* `ETag`/`If-Match`": no write is based on a version that others replaced, so a
\* disabled source is not edited (service.py:206) and new contents get a version
\* never used before.
WritesAreOptimistic == [][edition' # edition => status = "absent" \/ (status = "active" /\ version' > version)]_vars

\* deps.py:139 "a failed commit is compensated without touching the previously
\* usable version": an active source keeps a usable credential.
ActiveSourceHasCredential == status = "active" => secret \in store

=============================================================================

----------------------------- MODULE TenantPools -----------------------------
(***************************************************************************)
(* The per-tenant analytical pools (dataplane/pool.py), the sessions opened  *)
(* on them (dataplane/session.py), and the rotation and deprovisioning of a  *)
(* tenant's login (dataplane/schema_per_tenant.py), after which their caller *)
(* evicts the tenant's pool.                                                *)
(*                                                                         *)
(* One event loop: a coroutine is interrupted at its awaits only.  A pool is *)
(* known by the engine it belongs to; an engine nobody refers to any more is *)
(* collected, and its number used again.  Version v of a tenant's credential *)
(* holds password v of its role.                                           *)
(***************************************************************************)
EXTENDS Integers, Sequences, FiniteSets, SequencesExt

CONSTANTS
    Callers,        \* coroutines that open analytical sessions
    Operator,       \* the coroutine that rotates, deprovisions and closes
    Tenants,
    Engines,        \* bound, by garbage collection: numbers of engines
    None,           \* no engine, credential or tenant
    MaxTenants,     \* analytical_pool_max_tenants
    MaxVersions,    \* bound: versions of a credential
    MaxDropped,     \* bound: tenants that are deprovisioned
    MaxFaults       \* bound: secrets that cannot be read, cancellations, crashes

ASSUME ConstantsAssumption ==
    /\ Operator \notin Callers /\ None \notin Engines
    /\ IsFiniteSet(Callers)
    /\ MaxTenants \in Nat \ {0} /\ MaxVersions \in Nat \ {0}
    /\ MaxDropped \in Nat /\ MaxFaults \in Nat

Actors == Callers \cup {Operator}

VARIABLES
    lock,           \* _lock: who holds it, or {}
    entries,        \* _entries: the tracked engines, least recently used first
    engine,         \* [Engines -> [tenant, password, state, idle]]; idle: its idle
                    \*   connections
    role,           \* [Tenants -> password of its login role], 0: dropped
    stored,         \* [Tenants -> versions the secret store can read]
    given,          \* [Tenants -> newest version a handle was made of]
    evicted,        \* history: [Tenants -> oldest password a warm pool may have since
                    \*   evict last returned]; of a dropped role, one nobody has
    gone,           \* history: tenants whose role and secret were gone when evict returned
    pc, cred,       \* [Callers -> step], [Callers -> the credential it presents]
    held,           \* [Callers -> the engine of its factory]
    fresh,          \* [Callers -> its connection belongs to the engine's pool]
    victims,        \* [Actors -> engines it popped and is to dispose of]
    op, target,     \* step of the operator, and its tenant
    faults

registry == <<lock, entries>>
database == <<role, stored, given>>
history  == <<evicted, gone>>
session  == <<pc, cred, held, fresh>>
admin    == <<op, target>>
vars == <<registry, engine, database, history, session, victims, admin, faults>>

\* sessions_for, after its first await.
Inside == {"sweep", "swept", "room", "made", "read"}

Credentials == [tenant : Tenants, version : 1..MaxVersions]

TypeOK ==
    /\ lock = {c \in Callers : pc[c] \in Inside}
    /\ entries \in Seq(Engines) /\ IsInjective(entries)
    /\ engine \in [Engines -> [tenant : Tenants \cup {None}, password : 0..MaxVersions,
                              state : {"free", "open", "disposed", "abandoned"},
                              idle : 0..Cardinality(Callers)]]
    /\ \A e \in ToSet(entries) : engine[e].state = "open"
    /\ role \in [Tenants -> 0..MaxVersions]
    /\ stored \in [Tenants -> SUBSET (1..MaxVersions)]
    /\ given \in [Tenants -> 1..MaxVersions]
    /\ evicted \in [Tenants -> 0..(MaxVersions + 1)] /\ gone \subseteq Tenants
    /\ pc \in [Callers -> {"idle", "want", "sweep", "swept", "room", "made",
                           "read", "have", "session"}]
    /\ cred \in [Callers -> Credentials \cup {None}]
    /\ held \in [Callers -> Engines \cup {None}]
    /\ fresh \in [Callers -> BOOLEAN]
    /\ victims \in [Actors -> SUBSET Engines]
    /\ op \in {"idle", "altered", "evict", "dispose", "dropped", "stopped"}
    /\ target \in Tenants \cup {None} /\ faults \in 0..MaxFaults

Unused == [tenant |-> None, password |-> 0, state |-> "free", idle |-> 0]

Init ==
    /\ lock = {} /\ entries = <<>>
    /\ engine = [e \in Engines |-> Unused]
    /\ role = [t \in Tenants |-> 1]
    /\ stored = [t \in Tenants |-> {1}] /\ given = [t \in Tenants |-> 1]
    /\ evicted = [t \in Tenants |-> 0] /\ gone = {}
    /\ pc = [c \in Callers |-> "idle"] /\ cred = [c \in Callers |-> None]
    /\ held = [c \in Callers |-> None] /\ fresh = [c \in Callers |-> FALSE]
    /\ victims = [a \in Actors |-> {}]
    /\ op = "idle" /\ target = None /\ faults = 0

-----------------------------------------------------------------------------
(* Helpers.                                                                *)

Fault == faults < MaxFaults /\ faults' = faults + 1

Goto(c, step) == pc' = [pc EXCEPT ![c] = step]

Free == lock = {}

\* _entries.get: the engine tracked for a tenant, as a set.
Pools(t) == {e \in ToSet(entries) : engine[e].tenant = t}

Holders(e) == {c \in Callers : held[c] = e}

FreeEngines == {e \in Engines : engine[e].state = "free"}

NewEngine == CHOOSE e \in FreeEngines : TRUE

\* An engine no longer tracked lives as long as a coroutine holds its factory.
Drop(c) ==
    engine' = [engine EXCEPT ![held[c]] =
                 IF @.state # "open" /\ Holders(held[c]) = {c} THEN Unused ELSE @]

\* popitem(last=False).
PopOldest(a) ==
    /\ entries' = Tail(entries)
    /\ victims' = [victims EXCEPT ![a] = @ \cup {Head(entries)}]

\* pop(tenant_id, None): _entries is a dictionary.
Without(t) ==
    IF Pools(t) = {} THEN entries
    ELSE RemoveAt(entries, CHOOSE i \in DOMAIN entries : entries[i] \in Pools(t))

\* AsyncEngine.dispose: idle connections are closed; those in use belong to no
\* pool any more.  The engine can still connect, with a new pool.
Dispose(a, e) ==
    /\ e \in victims[a]
    /\ engine' = [engine EXCEPT ![e] =
                    IF Holders(e) = {} THEN Unused
                    ELSE [@ EXCEPT !.state = "disposed", !.idle = 0]]
    /\ victims' = [victims EXCEPT ![a] = @ \ {e}]
    /\ fresh' = [c \in Callers |-> fresh[c] /\ held[c] # e]

\* The coroutine leaves sessions_for, with or without a factory.
Leave(c, step, e) ==
    /\ Goto(c, step)
    /\ held' = [held EXCEPT ![c] = e]
    /\ lock' = {}
    /\ cred' = [cred EXCEPT ![c] = None]
    /\ UNCHANGED fresh

-----------------------------------------------------------------------------
(* sessions_for.                                                           *)

\* analytical_session: the handle was made of any version given so far.
Ask(c, t, v) ==
    /\ pc[c] = "idle" /\ v <= given[t]
    /\ cred' = [cred EXCEPT ![c] = [tenant |-> t, version |-> v]]
    /\ Goto(c, "want")
    /\ UNCHANGED <<registry, engine, database, history, held, fresh, victims, admin, faults>>

Acquire(c) ==
    /\ pc[c] = "want" /\ Free
    /\ lock' = {c}
    /\ Goto(c, "sweep")
    /\ UNCHANGED <<entries, engine, database, history, cred, held, fresh, victims, admin, faults>>

\* _evict_idle_locked: the order of use is the order of last_used, so the stale
\* entries come first; how many are stale is a matter of time.
SweepStale(c) ==
    /\ pc[c] = "sweep" /\ entries # <<>>
    /\ PopOldest(c)
    /\ Goto(c, "swept")
    /\ UNCHANGED <<lock, engine, database, history, cred, held, fresh, admin, faults>>

SweptStale(c) ==
    /\ pc[c] = "swept"
    /\ \E e \in victims[c] : Dispose(c, e)
    /\ Goto(c, "sweep")
    /\ UNCHANGED <<registry, database, history, cred, held, admin, faults>>

\* The cached entry: move_to_end.
Find(c) ==
    /\ pc[c] = "sweep"
    /\ \E e \in Pools(cred[c].tenant) :
        /\ entries' = Append(Without(cred[c].tenant), e)
        /\ Leave(c, "have", e)
    /\ UNCHANGED <<engine, database, history, victims, admin, faults>>

\* No entry of the tenant, and everything stale is gone.
Missing(c) == pc[c] = "room" \/ (pc[c] = "sweep" /\ Pools(cred[c].tenant) = {})

\* _make_room_locked.
MakeRoom(c) ==
    /\ Missing(c) /\ Len(entries) >= MaxTenants
    /\ PopOldest(c)
    /\ Goto(c, "made")
    /\ UNCHANGED <<lock, engine, database, history, cred, held, fresh, admin, faults>>

MadeRoom(c) ==
    /\ pc[c] = "made"
    /\ \E e \in victims[c] : Dispose(c, e)
    /\ Goto(c, "room")
    /\ UNCHANGED <<registry, database, history, cred, held, admin, faults>>

\* Mutant of ReadSecret: the lock is not held while the secret is read.
ReadSecretUnlocked(c) ==
    /\ Missing(c) /\ Len(entries) < MaxTenants
    /\ cred[c].version \in stored[cred[c].tenant]
    /\ Goto(c, "read") /\ lock' = {}
    /\ UNCHANGED <<entries, engine, database, history, cred, held, fresh, victims, admin, faults>>

\* url_for.
ReadSecret(c) ==
    /\ Missing(c) /\ Len(entries) < MaxTenants
    /\ cred[c].version \in stored[cred[c].tenant]
    /\ Goto(c, "read")
    /\ UNCHANGED <<registry, engine, database, history, cred, held, fresh, victims, admin, faults>>

ReadFails(c) ==
    /\ Missing(c) /\ Len(entries) < MaxTenants
    /\ \/ cred[c].version \notin stored[cred[c].tenant] /\ UNCHANGED faults
       \/ Fault
    /\ Leave(c, "idle", None)
    /\ UNCHANGED <<entries, engine, database, history, victims, admin>>

\* create_async_engine, and the entry takes the place of another of its tenant.
Open(c) ==
    /\ pc[c] = "read" /\ FreeEngines # {}
    /\ engine' = [engine EXCEPT ![NewEngine] =
                    [tenant |-> cred[c].tenant, password |-> cred[c].version,
                     state |-> "open", idle |-> 0]]
    /\ entries' = Append(Without(cred[c].tenant), NewEngine)
    /\ Leave(c, "have", NewEngine)
    /\ UNCHANGED <<database, history, victims, admin, faults>>

\* The request is cancelled at an await of sessions_for: an engine it was to dispose
\* of keeps its pool for as long as its sessions last.
Cancel(c) ==
    /\ pc[c] \in {"want", "swept", "made", "read"} /\ Fault
    /\ Goto(c, "idle")
    /\ lock' = lock \ {c}
    /\ engine' = [e \in Engines |->
                    IF e \notin victims[c] THEN engine[e]
                    ELSE IF Holders(e) = {} THEN Unused
                    ELSE [engine[e] EXCEPT !.state = "abandoned"]]
    /\ cred' = [cred EXCEPT ![c] = None]
    /\ victims' = [victims EXCEPT ![c] = {}]
    /\ UNCHANGED <<entries, database, history, held, fresh, admin>>

-----------------------------------------------------------------------------
(* The session: a connection is checked out with the first statement.       *)

\* An idle connection, or a new one if PostgreSQL accepts the password.
Connect(c) ==
    LET e == held[c]
    IN  /\ pc[c] = "have"
        /\ engine[e].idle > 0 \/ engine[e].password = role[engine[e].tenant]
        /\ engine' = [engine EXCEPT ![e].idle = IF @ > 0 THEN @ - 1 ELSE 0]
        /\ fresh' = [fresh EXCEPT ![c] = TRUE]
        /\ Goto(c, "session")
        /\ UNCHANGED <<registry, database, history, cred, held, victims, admin, faults>>

ConnectFails(c) ==
    LET e == held[c]
    IN  /\ pc[c] = "have"
        /\ engine[e].idle = 0 /\ engine[e].password # role[engine[e].tenant]
        /\ Goto(c, "idle")
        /\ held' = [held EXCEPT ![c] = None] /\ Drop(c)
        /\ UNCHANGED <<registry, database, history, cred, fresh, victims, admin, faults>>

\* Checked in, unless its pool was disposed of meanwhile.
Return(c) ==
    /\ pc[c] = "session"
    /\ IF fresh[c] /\ (Holders(held[c]) # {c} \/ engine[held[c]].state = "open")
       THEN engine' = [engine EXCEPT ![held[c]].idle = @ + 1]
       ELSE Drop(c)
    /\ held' = [held EXCEPT ![c] = None]
    /\ fresh' = [fresh EXCEPT ![c] = FALSE]
    /\ Goto(c, "idle")
    /\ UNCHANGED <<registry, database, history, cred, victims, admin, faults>>

-----------------------------------------------------------------------------
(* The operator.                                                           *)

OpGoto(step) == op' = step /\ UNCHANGED target

OpEnds == op' = "idle" /\ target' = None

\* rotate_credential: ALTER ROLE commits.
Rotate(t) ==
    /\ op = "idle" /\ role[t] # 0 /\ given[t] < MaxVersions
    /\ role' = [role EXCEPT ![t] = given[t] + 1]
    /\ op' = "altered" /\ target' = t
    /\ UNCHANGED <<registry, engine, stored, given, history, session, victims, faults>>

\* secret_store.rotate leaves the older versions; the new handle is returned.
RotateStore ==
    LET v == given[target] + 1
    IN  /\ op = "altered"
        /\ stored' = [stored EXCEPT ![target] = @ \cup {v}]
        /\ given' = [given EXCEPT ![target] = v]
        /\ OpGoto("evict")
        /\ UNCHANGED <<registry, engine, role, history, session, victims, faults>>

\* deprovision: DROP SCHEMA and DROP ROLE, IF EXISTS both, commit.  It may be repeated
\* while something of the tenant is left.
Deprovision(t) ==
    /\ op = "idle" /\ (role[t] # 0 \/ stored[t] # {})
    /\ Cardinality({u \in Tenants : role[u] = 0} \cup {t}) <= MaxDropped
    /\ role' = [role EXCEPT ![t] = 0]
    /\ op' = "dropped" /\ target' = t
    /\ UNCHANGED <<registry, engine, stored, given, history, session, victims, faults>>

\* The caller passed secret_ref: FileSecretStore.delete removes every version.
Forget ==
    /\ op = "dropped"
    /\ stored' = [stored EXCEPT ![target] = {}]
    /\ OpGoto("evict")
    /\ UNCHANGED <<registry, engine, role, given, history, session, victims, faults>>

\* secret_ref is None, its default: the secret stays, for a later deprovision.
KeepSecret ==
    /\ op = "dropped"
    /\ OpGoto("evict")
    /\ UNCHANGED <<registry, engine, database, history, session, victims, faults>>

\* Deleting a version raises when some are gone, or the operator's process dies: nobody
\* evicts.
ForgetFails ==
    /\ op = "dropped" /\ Fault
    /\ \E left \in SUBSET stored[target] : stored' = [stored EXCEPT ![target] = left]
    /\ OpEnds
    /\ UNCHANGED <<registry, engine, role, given, history, session, victims>>

\* The oldest password that PostgreSQL may still take, after an eviction, of a tenant.
Oldest(t) == IF role[t] = 0 THEN given[t] + 1 ELSE given[t]

\* evict returns to its caller.
Returned ==
    /\ evicted' = [evicted EXCEPT ![target] = Oldest(target)]
    /\ gone' = IF role[target] = 0 /\ stored[target] = {} THEN gone \cup {target} ELSE gone

\* Mutant of Evict: the pool is popped without the lock.
EvictUnlocked ==
    /\ op = "evict"
    /\ entries' = Without(target)
    /\ victims' = [victims EXCEPT ![Operator] = Pools(target)]
    /\ OpGoto("dispose")
    /\ UNCHANGED <<lock, engine, database, history, session, faults>>

\* Mutant of Evict: nothing has the key.
EvictMisses ==
    /\ op = "evict" /\ Free
    /\ OpGoto("dispose")
    /\ UNCHANGED <<registry, engine, database, history, session, victims, faults>>

\* evict: popped under the lock, disposed of outside it.
Evict ==
    /\ op = "evict" /\ Free
    /\ entries' = Without(target)
    /\ victims' = [victims EXCEPT ![Operator] = Pools(target)]
    /\ OpGoto("dispose")
    /\ UNCHANGED <<lock, engine, database, history, session, faults>>

\* close, at shutdown: every entry, the same way.
Close ==
    /\ op = "idle" /\ Free
    /\ entries' = <<>>
    /\ victims' = [victims EXCEPT ![Operator] = ToSet(entries)]
    /\ OpGoto("stopped")
    /\ UNCHANGED <<lock, engine, database, history, session, faults>>

EvictDispose ==
    /\ op \in {"dispose", "stopped"}
    /\ \E e \in victims[Operator] : Dispose(Operator, e)
    /\ UNCHANGED <<registry, database, history, pc, cred, held, admin, faults>>

EvictEnds ==
    /\ op = "dispose" /\ victims[Operator] = {}
    /\ OpEnds /\ Returned
    /\ UNCHANGED <<registry, engine, database, session, victims, faults>>

\* The store's rotate raises, or the operator's process dies: what follows is not done.
OperatorFails ==
    /\ op \in {"altered", "evict"} /\ Fault
    /\ OpEnds
    /\ UNCHANGED <<registry, engine, database, history, session, victims>>

-----------------------------------------------------------------------------
Call(c) ==
    \/ Acquire(c) \/ SweepStale(c) \/ SweptStale(c)
    \/ Find(c) \/ MakeRoom(c) \/ MadeRoom(c)
    \/ ReadSecret(c) \/ ReadFails(c) \/ Open(c) \/ Cancel(c)
    \/ Connect(c) \/ ConnectFails(c) \/ Return(c)

Operate ==
    \/ \E t \in Tenants : Rotate(t) \/ Deprovision(t)
    \/ RotateStore \/ Forget \/ KeepSecret \/ ForgetFails
    \/ Evict \/ EvictDispose \/ EvictEnds \/ Close \/ OperatorFails

Next ==
    \/ \E c \in Callers : Call(c) \/ \E t \in Tenants, v \in 1..MaxVersions : Ask(c, t, v)
    \/ Operate

Spec == Init /\ [][Next]_vars

-----------------------------------------------------------------------------
(* Properties.                                                             *)

\* pool.py: "The registry keeps at most max_tenants pools", and one of a tenant,
\* although room is made before the secret is awaited.
PoolsAreBounded ==
    /\ Len(entries) <= MaxTenants
    /\ \A t \in Tenants : Cardinality(Pools(t)) <= 1

\* No engine is forgotten: an open one is tracked, or someone is disposing of it.
\* (The disposal may be cancelled; the sessions of the engine then keep its pool
\* until the last of them ends.)
NoEngineLeaks ==
    \A e \in Engines :
        engine[e].state = "open" => e \in ToSet(entries) \/ \E a \in Actors : e \in victims[a]

\* pool.py evict: "so a revoked or superseded password cannot keep working from a
\* warm pool", for the pools the registry tracks: after evict returned none has an
\* idle connection that was opened with an older password; of a dropped role none has
\* an idle connection at all, although a secret that was kept opens it a pool again.
WarmPoolsAreCurrent ==
    \A e \in ToSet(entries) :
        engine[e].idle > 0 => engine[e].password >= evicted[engine[e].tenant]

\* A tenant deprovisioned together with its secret, and then evicted, gets no pool again,
\* although requests that began before hold handles, and may have read the secret just
\* before it went.  (One whose secret was kept gets pools that cannot connect.)
DeprovisionedHaveNoPool == \A t \in gone : Pools(t) = {}

-----------------------------------------------------------------------------
(* Statements of the repository that the code does not keep.               *)

\* schema_per_tenant.py:237 "Three things must go together": schema, role and secret.  The
\* secret stays if the caller leaves secret_ref out, as it may.  (Whoever holds a handle of
\* before then gets the tenant a pool again, which cannot connect.)
DroppedTogether == \A t \in Tenants : evicted[t] > given[t] => stored[t] = {}

\* test_analytical_credentials.py:473 "A pool is a cache: evicting it costs a
\* reconnection, never access": whoever presents the current credential after an
\* eviction gets a pool that can connect.
EvictionCostsNoAccess ==
    [][\A c \in Callers :
          pc[c] \in {"sweep", "read"} /\ pc'[c] = "have"
            /\ cred[c].version = evicted[cred[c].tenant] /\ cred[c].version = role[cred[c].tenant]
          => engine'[held'[c]].password = cred[c].version]_vars

=============================================================================

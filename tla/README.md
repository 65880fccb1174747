# A verification project for the Trivera Executive Intelligence Platform

TLA+ models of the parts of the platform in which something can go wrong between
two steps: tenant provisioning, analytical pools, data sources and their
credentials, connection tests and the probe behind them, the outbox and its
workers, the audit chain, authentication and tenant sessions, and the governed
query. TLC checks the models on small instances; TLAPS proves their safety
properties and three refinements for every instance.

Paths below are relative to `apps/api/src/eip/` or, where marked *worker*, to
`apps/worker/src/eip_worker/`.

## 1. The system

| Component | State | Operations | Talks to |
|---|---|---|---|
| Provisioning workflow, `identity/provisioning.py`, `api/routers/admin.py` | the `tenant` row: `provisioning_state`, `_attempts`, `_started_at`, secret reference | `create`, `register`, `provision`, `list_tenants` | data plane, audit chain, outbox |
| Schema-per-tenant data plane, `dataplane/schema_per_tenant.py`, `credentials.py` | login role and schema in PostgreSQL, a password in the secret store | `provision` behind a fence; `deprovision`, `rotate_credential` (no callers) | secret store |
| Tenant pools, `dataplane/pool.py`, `registry.py`, `session.py` | LRU/TTL cache of engines, one lock | `sessions_for`, `evict`, `close` | secret store, PostgreSQL |
| Data source manager, `connectivity/service.py`, `api/routers/data_sources.py`, `api/deps.py` | `data_source` rows, ACLs | create, PATCH, DELETE, grant | secret store, audit chain |
| Secret store, `platform/secretstore.py` | one file per secret version | put, get, rotate, delete | - |
| Maintenance, *worker* `maintenance.py` | `credential_destroyed_at` | destroy due credentials, prune old tests | secret store, audit chain |
| Connection tests, `connectivity/connection_testing.py`, *worker* `connection_tests.py` | `connection_test` rows with lease and pinned version | request; claim, fence, record | outbox, broker, probe, audit chain |
| Connector, `connectivity/egress.py`, `postgresql.py`, `protocol.py` | sockets and an engine for one test | validate an endpoint, dial, revalidate, probe | DNS, network, secret store |
| Outbox and relay, `governance/outbox.py`, *worker* `outbox.py` | `outbox` rows | publish, relay | broker |
| Broker, *worker* `broker.py` | Dramatiq queue in Redis | enqueue, consume, retry | - |
| Worker process, *worker* `main.py` | readiness flags | start, poll loop | all of the above |
| Audit chain, `governance/audit.py`, migration `0002` | `audit_event` rows, `audit_chain_head` checkpoint | record, verify_chain, offboard | - |
| Authentication, `identity/oidc.py` | the key cache: a `PyJWKClient` shared by all requests | verify a token | identity provider |
| Identity, `identity/auth.py`, `service.py`, `platform/db.py` | memberships; settings of pooled connections | resolve a context, list, elevate, grant | PostgreSQL policies |
| Intelligence, `intelligence/` | the seeded demo | the governed query, seeding, AST validation | data sources, connection tests |
| HTTP shell, settings, logging, web application, migrations | - | - | - |

What makes the system hard is that almost every operation spans several
transactions, or a transaction and something that is not one:

* the secret store is written inside database transactions that may roll back;
* provisioning walks through four transactions, any two of which can be separated
  by a crash or by another operator's takeover;
* requests read a row in one statement and write what they computed from it in a
  later one, at READ COMMITTED, without a version in the WHERE; a query is six
  statements with six snapshots;
* a message is dispatched before the row that says so is updated, so everything
  behind the broker runs at least once;
* leases, staleness windows, cache lifetimes and retention deadlines let time
  decide while somebody is still at work;
* engines, key caches and database connections outlive the request they were made
  for and serve the next one.

What each component owes (section 4 makes these precise): provisioning - one
finished tenant per slug, whose stored password opens its role, whatever was tried
before; pools - no more than the limit, none lost, none for a tenant that is gone;
data sources - a credential while one is needed and none after; connection tests -
one result for a request, about what was asked, within the tenant's limit; the
probe - the password only for the peer the rules permit, and nothing left open;
the outbox - everything handed over, nothing before its transaction committed; the
chain - appends that never collide and a verdict that is right; authentication and
sessions - a handler sees the rows of one tenant its user belongs to; the query - an
answer that adds up and names a source that was healthy.

## 2. Modules and how they correspond to the code

| Module | Models | Composes |
|---|---|---|
| `TenantProvisioning` | the workflow and the data-plane step it drives | |
| `ProvisionOnce` | the abstract specification it implements | |
| `TenantPools` | engines of tenants, sessions on them, rotation and deprovisioning | |
| `DataSources` | one data source: requests, compensation, sweep | |
| `SourceLife` | the abstract specification it implements, which the edits of `ConnectionTests` and `ExecutiveQuery` are taken from | |
| `ConnectionTests` | tests of one source: request, relay, broker, three-transaction delivery | edits of `DataSources` |
| `SourceProbe` | one probe, under the egress rules | |
| `OutboxRelay` | worker processes, batches, the pass and its maintenance | |
| `TransactionalOutbox` | the abstract specification it implements | |
| `AuditChain` | one tenant's chain, its checkpoint and the verifier | |
| `SigningKeys` | the verifier's key caches | |
| `TenantAccess` | resolution of a context, sessions, row-level policies, memberships | extends `SigningKeys` |
| `AuthenticatedRequests` | a request from token to answer | joins the two |
| `ExecutiveQuery` | the query against seeding and changes of the source | outcomes of `DataSources` and `ConnectionTests` |
| `MC...` | constants for TLC | |
| `..._proofs` | theorems about the module of that name, eight in all; `SourcesAndQueries_proofs` is about `DataSources` and `ExecutiveQuery`, which it relates | |

In all of them a request, a delivery, a coroutine or a writer is a process with a
`pc`; an action is what happens between two points at which others can act. Locks
are held in the model where the code holds them across such points (the fence's
`FOR UPDATE`, the chain's advisory lock, the registry's `asyncio.Lock`, the rows of
a batch). An exception, a crash, a cancellation and a lost answer are *faults*,
bounded by `MaxFaults` and never obliged to happen.

**TenantProvisioning.** `Start ... InsertRefused` are `create`/`register`: the SELECT by
slug, the INSERT guarded by the unique constraint, the re-read of the loser.
`Claim`, `ClaimMisses`, `ClaimExplain` are `_claim`: the conditional UPDATE, and the
second SELECT after it matched nothing. `FencePasses ... PlaneCommitLost` are
`SchemaPerTenantDataPlane.provision`: lock the attempt, store the password under
the attempt's name, rotate the role, COMMIT; the store keeps what a rollback takes
back. `SettleRow` and the `Settle`/`Record` actions are `_settle` and
`_record_failure`, each a conditional UPDATE with its audit row and outbox message
(`trail`). `Expire` is the staleness window: it may close on an owner that still
works. A password is identified by who generated it for which attempt.

**TenantPools.** One event loop, so that a coroutine is interrupted at its awaits
only. `Acquire ... Open` are `sessions_for`: the lock, one stale entry after another
popped and disposed of, the cached entry, room made from the oldest entry, the
secret read, the engine made. `Connect` and `Return` are the checkout and check-in of
a connection; `fresh` says whether it still belongs to the engine's pool, which
`dispose` replaces. `Cancel` is a request cancelled at an await, with whatever it was
to dispose of. The operator is `rotate_credential` or `deprovision` followed by `evict`,
or `close`; as nothing calls the first two yet, that caller is the one `evict`'s comment
describes. `Forget` is a `deprovision` that was given the `secret_ref`, `KeepSecret` one that was
not, as in two of the tests, and `ForgetFails` one whose deletion raises with any part of the
versions gone; a `deprovision` may be repeated while something is left. An engine is a number that is used again once nobody refers to it,
which is Python's collection; `Open` waits for a free number, a bound the theorems do
not have, as they hold for any set of engines.

**DataSources.** A client's request reads (`CreateRead`, `PatchRead`, `DisableRead`),
may write a secret (`CreatePut`, `PatchPut`) and commits. `DisableCommit` contains the
`SELECT ... FOR UPDATE` of `disable`: the session hands back the object it already
holds, so its second look at `status` sees the first reading. `Compensate` is the
`except BaseException` of `get_tenant_session`; `CleanupFails` is its `delete` raising, with the
secret gone or not, or a `put` that raises and cannot remove its file. `DeadlinePasses` is the 30 days after
which `SweepLock`, `SweepDelete`, `SweepCommit` destroy the credential. Names, endpoints
and configurations are one number, the *edition*, new with every write. `BumpVersion` is
`row.version += 1` on the version the request read, so that a version may be written
twice or go back; `highest` remembers the highest there was.

**SourceLife** is what that amounts to for those who only read the source: created once,
disabled for good, and every write brings one more than some version it had had, to a
disabled source too.

**ConnectionTests.** `Request` writes the row and its outbox message; `Relay` dispatches
and then marks it, `RelayFails` dispatches only. `Claim...` are the outcomes of
transaction 1, `FencePasses`/`Superseded` of transaction 2, `Record`/`Superseded` of
transaction 3. `Again` is Dramatiq: retries, then the message is dead. `LeaseLapses`
may happen under a working delivery. `Edit` and `Disable` are what `DataSources` does
to a version: a PATCH may repeat one; the source starts in its second version, so
that a PATCH that read the first may still be under way. The two transactions'
result messages have topics no consumer reads, and are left out.

**SourceProbe.** `Validate ... MeasureLatency` are `test_connection` stage by stage, with
`FailAt` and `Skipped` building the diagnostics as the code does, `Leave` the `finally`
blocks that a return or an exception passes through, and `CloseConnection`,
`DisposeEngine` those blocks, which may raise themselves. Every DNS query may
answer with any set of addresses, one of them garbage. `LiteralPasses`, `AnswersPass`,
`PeerPasses` are the egress rules.

**OutboxRelay.** `Boot` is the start of a worker, with the one look at the broker that
decides whether it consumes. `Poll ... CommitBatch` are a pass of `run_relay` over the
tenants: the rows a transaction claims with SKIP LOCKED (`batch`), those of them
already handed over (`out`), the COMMIT. `RelayDone`, `Maintain`, `PassSucceeds` are the
maintenance that follows, `DispatchFails` and `PassFails` the exceptions that end the
pass. Only `connection_test.requested` needs the broker; the other topics are logged.

**AuditChain.** `Lock`, `Record`, `Commit`, `Rollback` are one appending transaction;
`Advanced` is the trigger's upsert; `VerifyHead` and `VerifyEvents` are the two
statements of `verify_chain`, `Verdict` its decision. A digest is the sequence of
what was hashed, which makes it injective. `Alter` and `Lose...` do to the rows what
the repository's tests do to them; they reach the events and never the checkpoint.

**SigningKeys, TenantAccess, AuthenticatedRequests.** `GetClient ... Reject` are
`_signing_key`: the shared client, replaced when it has grown old or after a failure
(at most once per interval), and PyJWKClient's own lookups in a thread, which fetch on
their own account. `Receive ... ReadSlug` are `resolve_context` with its three sessions,
`OpenTenant ... Leave` a handler in `tenant_session`, `Elevate` and `Grant` the platform
administrator's path. A connection carries the settings of its transaction (`local`)
and its own (`kept`); `Visible` is what the two permissive policies let a session see.
`Arrive`, `Decode` and `Refuse` join the two parts as `api/deps.py` does.

**ExecutiveQuery.** `SeedRead ... SeedFails` are `seed_demo`: the source and its test read,
the reset function and the insertions, COMMIT. `ReadBundle ... ReadTest` are the
statements of `query`, each of which sees what is committed by then, and each of
which may refuse. Identifiers are computed from names (`Id`), so that rows seeded
again have the identifiers of those they replace. `Succeed` and `Record` are the worker's
check of the source and its COMMIT, `Edit` and `Disable` what `SourceLife` does to an active
source: versions may repeat here too, so that the test an answer names is one of the
version, which may have stood for other contents when it was tested. Figures are small integers, and what the
expression validator objects to is a set of flaws of the content.

## 3. Bounds and fairness

| Run | Instance | Why it is enough |
|---|---|---|
| `provisioning` | 2 operators, 1 slug, 3 faults | an owner and the one who takes over, either of which may come back as a third request; tenants share nothing but the operator that moves between them |
| `pools` | 2 callers and the operator, 2 tenants, room for one pool, 2 versions, 4 engines, 1 tenant dropped, 1 fault | one tenant evicts the other's pool while the other is in use, and one is deprovisioned, twice if its secret was kept; four engines are the tracked one and one in the hands of each coroutine |
| `sources` | 2 clients, 4 editions, 2 faults | a create race, then rotations racing one another and a delete, one failing and one crashing |
| `tests` | 2 jobs, 3 messages, 2 threads, limit 1, 1 retry, 3 editions, 1 fault | a duplicate of a job beside another job that competes for the limit; three editions are the fewest with a repeated version |
| `probe` | 4 addresses, 2 of them safe, every allowlist, endpoint and answer | two of a kind make answers that are mixed, uniform, within and outside an allowlist |
| `relay` | 2 workers, 3 messages of 2 tenants, batches of 2, passes of 1 tenant, 1 fault | a batch with a message that needs the broker and one that does not, and a tenant behind another |
| `audit` | 2 writers, 5 events, 1 damage | transactions of several events, and as many appended after a loss as were lost |
| `access` | 2 requests on 1 connection, 2 key ids, 3 users, 2 tenants, 2 changes | every session follows another request's; a key is withdrawn and the cache expires, or a membership moves twice |
| `executive` | 1 query, 2 seeders, 2 sources with versions up to 3, 4 contents, 2 seedings, 4 changes | a content with a segment more that has a target only, one that has figures there, one whose targets do not add up, and source and test moving between any two statements; three versions are the fewest of which one comes back; readers do not influence one another |

A change in `access` is anything from outside: a key published or withdrawn, the
provider gone or back, an interval or a lifetime that passes, a membership granted,
suspended or deleted, a cancelled request.

The runs with liveness state fairness, never of a fault, an edit or a change:

* `provisioning`: weak fairness of the steps of a running request (a living process
  executes; a crashed one has no steps), of the staleness window of a claim nobody works
  on (time passes), and strong fairness of an operator's retry of an unfinished
  tenant - the use `list_tenants` exists for, and strong because other requests keep
  the operators busy in between.
* `sources`: requests go on, days pass, and the relay loop, which runs maintenance
  every second, is not stopped for ever.
* `tests`: the relay polls, leases lapse, and the consumer's threads serve every
  queued message in the end (strong fairness, as a thread is not always free).
* `relay`: a worker process executes, and one that died is started again. What is
  relayed or done needs a broker that stays up from some time on; that is a premise of
  the two properties and not of the specification.

## 4. What the runs show

### Properties that hold

* **`provisioning`**. `CredentialMatchesRole`: the reference on a ready row leads to
  the password its role has. The code never compares the two; it follows from the
  fence's lock and the naming of secrets by attempt. `TrailIsConsistent`: audit rows and
  messages tell one story. `ReadyAnswersAreTrue`: no late or stolen request undoes
  a "ready" that was answered. `OnlyTheOwnerRotates`: nothing but the attempt the row
  names writes a secret or the role. `ImplementsProvisionOnce`: a caller sees each tenant
  registered once and finished once, with one password. `EventuallyReady`: from any
  combination of crashes, swallowed failure records and stolen claims, and although
  requests wait for each other's row locks.
* **`pools`**. `PoolsAreBounded`: at most `max_tenants` pools and one for a tenant, although
  room is made before the secret is awaited. `NoEngineLeaks`: an open engine is
  tracked or in the hands of whoever disposes of it. `WarmPoolsAreCurrent`: after an
  eviction no tracked pool has an idle connection opened with an older password, and
  none at all if the role was dropped. `DeprovisionedHaveNoPool`: a tenant whose role and
  secret were gone when `evict` returned gets no pool again, although handles to it survive.
  (If the secret was kept it does get one, which cannot connect.) All four rest on the lock.
* **`sources`**. `CredentialAvailable`: failures and races never delete the credential of a
  source that can still be tested, except for the lost answer below. `NoOrphans`: only
  a process that died, or a clean-up that failed itself, leaves a secret behind. `EventuallyDestroyed`: delete-before-claim
  gets there through failures at either step, and records nothing that did not happen.
  `ImplementsSourceLife`: what a stale PATCH writes back is never the status, and its version
  is one more than one the source had.
* **`tests`**. `CapRespected`: never more running rows than the limit. `ResultIsFinal`: no
  duplicate, retry or second owner changes a recorded result. `ResultAnswersRequest`:
  a result is about the version asked for, though not always about the contents, as
  a version may name two. `OneProber`: one delivery works on a job until its lease
  lapses under it. `NothingForgotten`: however deliveries of one job are deferred, superseded
  and acknowledged beside one another, one thing is always left that will see to it, or the
  message was given up. `AnsweredOrDropped`: the giving-up is the only way for a request
  to stay unanswered.
* **`probe`**. `DialsOnlyPermitted`, `OneAddressDialled`, `SecretNeedsCurrentPeer`: whatever the
  DNS answers from one query to the next, one permitted address is connected to, and
  the password is read only for a peer that stands in an answer that passed as a
  whole. `NothingLeftOpen`, `ResultsAreWellFormed`: a failure at any stage closes
  everything, and its result is one that `ConnectionTestResult` accepts.
* **`relay`**. `BatchesAreDisjoint`: two relays never hold the same row, nor a published one.
  `DuplicatesComeFromFailures`: a second dispatch needs a failed transaction.
  `ImplementsTransactionalOutbox`: nothing is handed over before its writer committed,
  nothing settled that was not handed over. `EverythingIsRelayed`, `MaintenanceIsDone`: the
  failure of one tenant, which ends the pass for all, delays the others and no more,
  once the broker stays up.
* **`audit`**. `HonestChainVerifies`: an untouched trail verifies at every moment at which
  checkpoint and events are read together. `BrokenLinksAreReported`: an altered event or
  one lost from the middle is reported for ever. `LossIsReportedAtFirst`: a lost tail is
  reported as long as the checkpoint is that of a lost event.
* **`access`**. `RetiredKeysExpire`: a withdrawn key opens nothing once the cache's lifetime
  passed, whoever replaced the client meanwhile. `SessionsAreConfined`: settings never
  reach the next user of a connection, so that a session sees what it was opened for.
  `ContextsWereGranted`: tenant and role of a handler are those of one membership that was
  active while the request ran.
* **`executive`**. `AnswersAreWhole`: metadata and facts may come from two seedings, and the
  query compares actuals only. If the answer shows all segments of the facts its targets
  add up to its target all the same; if the older metadata lack one, what is left out
  has actuals that cancel out. `ReseedingSparesReaders`: the same
  content seeded again refuses nobody, at whatever statement of a query.
  `HealthWasObserved`: the version an answer calls healthy was active with a success, at
  one moment of the query; "success" includes one checked and not yet committed, as the
  worker's check of the source takes no lock on it.

### Statements of the repository the code does not keep

Three runs show one each:

* **`sources_optimistic`**. `version` is documented as an optimistic-concurrency value, but
  `update` compares it on an unlocked reading and its UPDATE has no condition on it.
  Two PATCHes with one If-Match both succeed under one new version; a PATCH that
  read before a DELETE changes the disabled source.
* **`tests_dead_worker`**. A delivery retried while the dead one's lease runs is deferred
  one second at a time; when its retries are used up (three; the run has fewer) Dramatiq
  drops it, and no code queues the job again: it stays running, and counts against
  the tenant's limit.
* **`keys_outage`**. After a failed lookup the verifier replaces its client, and with it
  every key it held; during an outage of the provider one token with an id that is not
  cached costs all others their keys.

Others were met while modelling and are not among the runs. Where a definition is
named, adding it to the run's `.cfg` reproduces the counterexample:

* `DeletedOnce` (`sources`): two concurrent DELETEs both disable the source and both write
  `source.deleted`, because the row re-read under the lock is the one the session cached;
* `ActiveSourceHasCredential` (`sources`): when a COMMIT takes effect and its answer is
  lost, the compensation deletes the secret the committed row refers to (`deps.py:139`);
* `LossStaysReported` (`audit`): events appended after a loss take the lost events'
  numbers; once they pass the checkpoint they replace it, and the trail verifies;
* `VerdictsAreSound` (`audit`): `verify_chain` reads the checkpoint before the events; an
  append that commits in between makes it report a tampered checkpoint;
* `ReadinessReflectsBroker` (`relay`): a worker that starts while the broker is away never
  starts its consumer and is never ready (*worker* `main.py:96`, `:158`);
* `DroppedTogether` (`pools`): "Three things must go together" (`schema_per_tenant.py:237`), but
  the default `secret_ref=None` leaves the secret, and a handle of before then has the registry
  track a pool of the tenant again;
* `EvictionCostsNoAccess` (`pools`): after rotation and eviction a request that holds an
  older handle may fill the cache with an engine of the old password, and whoever
  presents the current one gets that engine (the TTL ends it);
* `docs/19_PHASE_1A_REPORT.md:411` has rotation evict the pool; nothing in `src` calls `evict`,
  nor `rotate_credential` and `deprovision`;
* `rotate_credential` commits the role's password before the store has it, and two at once
  may leave the two apart;
* a composed role (`auth.py:157` says such roles work without a deployment) makes
  `RoleCode(...)` at `auth.py:265` raise: `ReadSlug` ends such a request with an error;
* a token with an unknown key id has PyJWKClient fetch twice in each client it is looked
  up in, whatever the interval between replacements (`oidc.py:34`, `:148`);
* a query that spans a seeding of another content may answer with the figures of one and
  the source of the other, and without a segment that has a target but no actual yet,
  which would be the one to name for attention.

## 5. What is proved

### Provisioning

`TenantProvisioning_proofs` proves, for any set of operators and tenants and any number
of faults, every safety property of `provisioning` and two more that no run lists:
`TypeCorrect`, `ExclusiveAttempts` (no two requests act on one attempt), `CredentialCorrect`,
`TrailCorrect`, `AnswersCorrect`, `RotationFenced`, `ReadyFinal` (no step of any request changes a
ready tenant), and the refinement of `ProvisionOnce` (`Refinement`). The only assumption is
`ConstantsAssumption`: `None` is no operator and `MaxFaults` is a natural number.

None of the properties is inductive. The invariant `IInv` adds what each leans on:

* `ClaimedAttempts`: a request that owns, or believes it owns, an attempt of a tenant has a
  number that was really claimed, no greater than the row's;
* `LocksAreHeld` and `FenceHolds`: the row lock is held exactly by the request between its
  fence and its COMMIT, and while it is held that attempt stays the current one. This
  is what makes the external write safe;
* `SecretsAreKeyed`: there is one stored secret for a tenant and attempt, none for
  attempts not yet claimed, and none for the attempt of a request about to store;
* `CredentialInFlight`: from the plane's COMMIT to the settle of an attempt that is still
  current, the role's password is the one stored under that attempt;
* `ReadyCredential`: the settle freezes that fact in the row;
* `TrailIsPast`: no event of the trail is about an attempt greater than the row's, and
  the current attempt has none while it is in progress.

`Init` implies `IInv`, every action preserves it (one lemma for each group of actions,
by conjunct), and the properties follow; the action properties and the refinement
are proved from `IInv` and one step. All of these were checked by TLC first.

### The relay

`OutboxRelay_proofs` proves, for any set of messages, tenants and workers, any size of a
batch and any number of faults: `TypeCorrect`, `BatchesCorrect` (`BatchesAreDisjoint`),
`DuplicatesExplained` (`DuplicatesComeFromFailures`) and the refinement of
`TransactionalOutbox` (`Refinement`). The invariant adds to the types and the disjointness
that what a transaction counts as handed over, and every published row, was handed
over (`HandedIsKnown`), and that what was handed over had been committed by its writer
(`HandedIsCommitted`). A row is in a batch only while nobody else holds it, which is
what SKIP LOCKED gives; hence two dispatches of a message need two transactions, the
first of which did not commit.

### The probe

`SourceProbe_proofs` proves all five properties of `probe`, for any finite set of addresses,
any of them safe, and any sequence of DNS answers: `DialsPermitted`, `DialsOne`,
`SecretGuarded`, `EverythingClosed`, `ResultsWellFormed`. The invariant has three parts: the
address selected is one the policy permits and the only one dialled (`SelectionHolds`);
from the revalidation on, the last answer passed as a whole and contains it
(`PeerWasCurrent`); and what is open belongs to the stage (`Open`), so that a return or an
exception meets the `finally` blocks it needs. For the results a fourth one is inductive
beside it: until the probe ends, its diagnostics are the passes of the stages behind it
(`Diagnosed`), so that the failure of the next and what `_skipped` adds make up the six
kinds in their order. The assumption is `ConstantsAssumption`: addresses are numbers, the
other values are none of them, and those the code tells apart are distinct.

### Connection tests

`ConnectionTests_proofs`, for any jobs, messages, threads, limit, retries, edits and faults:
`TypeCorrect`, `CapCorrect`, `OneProberAtATime`, `ResultsAnswer`, `VersionsHaveNoGaps`, and the
action property `ResultIsFinal` (`ResultsAreFinal`). Two parts of the invariant carry the weight. `WorkIsLeased`:
the job of a delivery that has not outlived a lease is leased or has its result, so
that a second claim needs a lapse - hence one prober, and hence a count of running
rows that the claim's check bounds. `VersionsAreNamed`, `PinsAreNamed`, `ProbesArePinned`:
each edition has one version, a job pins that of the edition it was asked for, and what
passed the fence has the version pinned; the result is then about the version asked for,
although that version may name two contents. `NothingForgotten` (`NothingIsForgotten`) is not inductive:
a superseded delivery acknowledges a queued job, and only that a *queued* job is in the
outbox or has a message outside the workers (`JobsAreCarried`) tells that another is left.

### The audit chain

`AuditChain_proofs`, for any writers, events and number of damages: `TypeCorrect`, `SeqsNeverCollide`
(`SeqsAreUnique`), `HonestChains`, `BrokenLinks`, `LossIsReported`. The invariant says of the
committed trail, and of what each open transaction sees of it, what was done to it
(`TrailsKeepShape`): an untouched trail links event by event, an altered one has an event
without its digest, one with a gap has a first unsound event whose number is not its
place; and numbers ascend in all of them. Appending keeps each of these, since an event is
hashed over the last one seen. `CheckpointKept`: until the trail is damaged the checkpoint
is its last event, and it is never removed. `OffboardedIsOver`: an offboarded trail is empty
and nobody appends to it. Digests are injective by construction, the only assumption about them.

### Data sources

`SourcesAndQueries_proofs`, for any clients, editions and faults: `TypeCorrect`, `CredentialsStayAvailable`,
`NothingIsOrphaned`, `DestroyedMeansGone` (`DestroyedIsGone`, which no run lists) and the
refinement of `SourceLife` (`SourceLifeImplemented`). The
invariant gives every secret an owner: each is drawn once (`DrawnOnce`); what a request
brings belongs to no committed row, unless its COMMIT took effect and its answer was
lost (`BroughtIsNew`), so that a compensation deletes nobody else's; the row refers to a
secret a COMMIT named (`RowRefers`); a stored secret belonged to a row, was left by a dead
process or a failed clean-up, or is in the hands of a request (`StoreIsOwned`); and the sweep touches a
disabled row only after its deadline, when no request is left (`SweepFollows`). The last is
the model's reading of 30 days: no request lasts that long. For the refinement,
`VersionsRead`: what a request has read is between one and the highest version, whatever
was committed since; each COMMIT, and each COMMIT whose answer is lost, is then a step of
`SourceLife`, and every other step leaves the source as it is.

### The governed query

The second half of `SourcesAndQueries_proofs`, for any readers, seeders, sources, contents
and numbers of seedings and changes: `QueryTypeCorrect`, `AnswersStayWhole` (`AnswersAreWhole`),
`ReseedingIsInvisible` (`ReseedingSparesReaders`), `HealthIsReal` (`HealthWasObserved`). Sums stay
unevaluated: only contents whose actuals and targets add up are committed (`DemoIsSeeded`),
so that the facts a query has read are of such a one, whatever its metadata are of
(`Found`); the targets of all their segments are then those the seeding compared, and the
actuals of the segments shown, which the query compares with the value, add up to what
those of all add up to. For the health,
`Noticed`: what is active and tested now has been noted by every query under way, and once
a query has read a version, a success of it noted too if there is one by now - a
success recorded later is noted when it is, as it was checked on an active version. For
the reseeding, `Undisturbed`: all that a query in a calm has read is what the demo is
now, the computed identifier included, so that the next statement finds it.

### What the modules assume of one another

`ConnectionTests` and `ExecutiveQuery` have an `Edit` of their own in place of the requests of
`DataSources`. That this leaves nothing out is proved twice over `SourceLife`: `DataSources`
implements it (`SourceLifeImplemented`), and whatever `SourceLife` does to a source that is
active and stays so is an `Edit` of either module, up to its bounds (`SourceLifeIsAllowed` in
`ConnectionTests_proofs` and in `SourcesAndQueries_proofs`). For the tests this needs
`VersionsHaveNoGaps`: they keep no highest version, but the versions their editions had are
all of those up to one. What becomes of the version of a disabled source is left out of
both, as nothing reads it: a claim, a fence and a query compare the status as well.

### Authentication and tenant sessions

`AuthenticatedRequests_proofs` treats `SigningKeys` and `TenantAccess` together, for any
requests, keys, users, tenants, roles, tokens, connections and memberships: `TypeCorrect`,
`RetiredKeysCorrect`, `SessionsCorrect`, `ContextsCorrect`. For the keys: a client younger
than the TTL has nothing of a retired key, neither remembered nor fetched nor on its way
(`YoungAreClean`), a request that came too late meets only such clients whatever their age by
now (`LateMeetClean`), and while the refetch is refused the current client is young
(`CurrentIsYoung`). For the sessions: a connection that is out belongs to one session and has
the settings that session was opened for, one that is in has none, and none keeps any of
its own (`ConnectionsAreScoped`); a request knows of every membership its user has had, and
acts with one of those (`RequestsAreLawful`). `Verifying` joins the two. The assumptions are
that tokens name known users, keys and tenants, that the initial memberships have roles
that exist, and that `None` is none of the values.

### Tenant pools

`TenantPools_proofs` proves the four invariants of `pools` and the types, for any tenants,
engines, versions, limit and faults and any finite set of callers: `TypeCorrect`, `PoolsBounded`,
`EnginesAreOwned`, `WarmPoolsCorrect`, `GoneForGood`. It begins with what `Tail`, `RemoveAt` and
`Append` do to sequences without repetitions. The invariant: the lock's holder is the one
coroutine inside (`Control`), so that what it found stays true until it leaves - its tenant
has no pool (`Vacant`), there is room (`Roomy`); tracked engines are open and one tenant's own
(`TrackedIsOpen`, `OnePool`), popped ones are open and in one coroutine's hands
(`VictimsAreOpen`, `VictimsAreInHand`), held ones are not free (`HeldIsUsed`). For eviction,
idle connections are not enough: a connection in use comes back, so `WarmIsCurrent` is about
engines that have an idle connection *or* one in use, and while the operator disposes it
already holds for the oldest version that could still be let in (`Oldest`; none, if the role is gone); a new connection is current as
PostgreSQL accepts the role's password only, which is never behind the last handle
(`Books`). `GoneIsClosed`: a tenant that is gone has neither role nor secret, for good, so that nobody can
come to the point of opening its pool, and at the moment of the eviction nobody is there,
as it takes the lock.

### Assumptions

Each module names its own (`ConstantsAssumption`, `KeysAssumption`, `AccessAssumption`,
`QueryAssumption`), and
the module of a passing run extends it, so that TLC evaluates them: bounds are natural
numbers, sets that are counted are finite, `None` is told apart from what it stands beside.
None of them bounds the number of processes, tenants, faults or messages.

### Only model-checked

* The liveness properties `EventuallyReady`, `EventuallyDestroyed`, `AnsweredOrDropped`, `EverythingIsRelayed`
  and `MaintenanceIsDone`: fairness and ENABLED are out of the prover's reach.
* The counterexamples of the three runs that expect one.

## 6. What is not modelled

* Row-level security as such is PostgreSQL's; the models take its policies as written.
* Address classes of the egress rules are *safe or not*; the codes of denials, the
  expression parser's cases, formats and messages are not distinguished.
* An interruption of the probe while it closes its socket; a host name that cannot be
  encoded is an exception (`Raises`), as it is in the code.
* The audit record of a query, which commits in the transaction of the query, and the
  session of a platform administrator, which uses another engine's pool.
* ACL grants (inserts without a race), reads that nothing depends on, pruning of old
  tests (one DELETE of final rows), the file modes and paths of the secret store.
* `seed_demo.py`, a script run once by hand; the issuer of development tokens, which
  keeps no state; start-up assertions, which read the catalogue and end the process.
* The web application, the HTTP shell, telemetry and logging keep no state the models
  could relate.

The type invariants of all modules are kept beside their specifications; the runs list
that of `provisioning`, and the others, `DestroyedIsGone` and `SeqsAreUnique` are checked the same way, by adding
them to a `.cfg`. Every hazard, with the line at which it bites and the properties
about it, is in `PROJECT.json`.

## 7. Plan

Done: all modules of section 2. Every invariant and action property of a passing run is
proved, three refinements, and the agreement of the modules about an edited source.

Left:

1. the agreement of `ConnectionTests` with `TransactionalOutbox`: its `Relay` hands a message
   over and settles it in one step, which is two there;
2. a run and a property for the hazards that have none in `PROJECT.json`, foremost
   `DeletedOnce` and `VerdictsAreSound`, whose counterexamples section 4 describes.

## 8. Running

    tlc -workers 2 -config provisioning.cfg MCTenantProvisioning.tla
    tlapm TenantProvisioning_proofs.tla

The same for the other `_proofs` modules; each takes a few minutes at most.
Every `.cfg` is named after its run; `PROJECT.json` gives each run's module and properties,
and for each property a mutant of the code's definition that violates it.

----------------------------- MODULE OutboxRelay -----------------------------
(***************************************************************************)
(* The worker processes (worker main.py) and the loop each runs: one pass   *)
(* relays the outbox tenant by tenant (worker outbox.py), then does the      *)
(* maintenance that is due (worker maintenance.py); an exception anywhere   *)
(* ends the pass.                                                          *)
(*                                                                         *)
(* A tenant's batch is one transaction: SELECT ... FOR UPDATE SKIP LOCKED,   *)
(* then for each row the dispatch, which nothing takes back, and its UPDATE, *)
(* then COMMIT.  Only the dispatches and the COMMIT are seen by others.      *)
(*                                                                         *)
(* Messages and tenants are numbers: a message's is its created_at, the     *)
(* start of its writer's transaction, so messages may commit in any order.  *)
(***************************************************************************)
EXTENDS Integers, FiniteSets

CONSTANTS
    Workers,        \* worker processes
    Messages,       \* rows of outbox, in the order of created_at
    Tenants,        \* in the order of their ids
    Owner,          \* [Messages -> Tenants]
    NeedsBroker,    \* messages of topic connection_test.requested
    BatchSize,      \* outbox_batch_size
    Limit,          \* tenants of one pass: 100
    MaxFaults       \* bound: crashes, failed transactions, failures of the broker

ASSUME ConstantsAssumption ==
    /\ Messages \subseteq Nat /\ IsFiniteSet(Messages)
    /\ Tenants \subseteq Nat /\ IsFiniteSet(Tenants)
    /\ Owner \in [Messages -> Tenants] /\ NeedsBroker \subseteq Messages
    /\ BatchSize \in Nat \ {0} /\ Limit \in Nat \ {0} /\ MaxFaults \in Nat

VARIABLES
    row,            \* [Messages -> its row: "none", "pending", "published"]
    handed,         \* history: messages the dispatcher was given
    due,            \* tenants whose maintenance is due
    up,             \* the broker answers
    pc,             \* [Workers -> where its loop stands]
    todo,           \* [Workers -> tenants left in this pass]
    batch,          \* [Workers -> rows its transaction has locked]
    out,            \* [Workers -> those of them already dispatched]
    brokerReady,    \* [Workers -> BOOLEAN]: consumes the queue, and says it is ready
    faults

rows  == <<row, handed>>
loop  == <<pc, todo, batch, out>>
vars  == <<rows, due, up, loop, brokerReady, faults>>

TypeOK ==
    /\ row \in [Messages -> {"none", "pending", "published"}]
    /\ handed \subseteq Messages
    /\ due \subseteq Tenants /\ up \in BOOLEAN
    /\ pc \in [Workers -> {"down", "idle", "relay", "dispatch", "maintain"}]
    /\ todo \in [Workers -> SUBSET Tenants]
    /\ batch \in [Workers -> SUBSET Messages]
    /\ out \in [Workers -> SUBSET Messages]
    /\ \A w \in Workers : /\ out[w] \subseteq batch[w]
                          /\ pc[w] # "dispatch" => batch[w] = {}
                          /\ pc[w] \in {"down", "idle"} => todo[w] = {}
                          /\ pc[w] = "dispatch" => todo[w] # {} /\ batch[w] # {}
    /\ brokerReady \in [Workers -> BOOLEAN]
    /\ faults \in 0..MaxFaults

Init ==
    /\ row = [m \in Messages |-> "none"]
    /\ handed = {} /\ due = {} /\ up = TRUE
    /\ pc = [w \in Workers |-> "down"]
    /\ todo = [w \in Workers |-> {}]
    /\ batch = [w \in Workers |-> {}] /\ out = [w \in Workers |-> {}]
    /\ brokerReady = [w \in Workers |-> FALSE]
    /\ faults = 0

-----------------------------------------------------------------------------
(* Helpers.                                                                *)

Fault == faults < MaxFaults /\ faults' = faults + 1

\* ORDER BY ... LIMIT n.
FirstOf(S, n) == {x \in S : Cardinality({y \in S : y <= x}) <= n}

Least(S) == CHOOSE x \in S : \A y \in S : x <= y

Pending(t) == {m \in Messages : Owner[m] = t /\ row[m] = "pending"}

\* eip_outbox_pending_tenants: rows that a transaction has locked count.
PendingTenants == FirstOf({t \in Tenants : Pending(t) # {}}, Limit)

Locked == UNION {batch[w] : w \in Workers}

\* Mutant of Claimable: FOR UPDATE without a look at other transactions' rows.
ClaimableLocked(t) == FirstOf(Pending(t), BatchSize)

\* Mutant of Claimable: every row of the tenant, published or not.
ClaimableAgain(t) == FirstOf({m \in Messages : Owner[m] = t /\ row[m] # "none"} \ Locked, BatchSize)

\* FOR UPDATE SKIP LOCKED.
Claimable(t) == FirstOf(Pending(t) \ Locked, BatchSize)

-----------------------------------------------------------------------------
(* The rest of the system.                                                 *)

\* A request's transaction commits, its message with it.
Publish(m) ==
    /\ row[m] = "none"
    /\ row' = [row EXCEPT ![m] = "pending"]
    /\ UNCHANGED <<handed, due, up, loop, brokerReady, faults>>

\* A credential's retention ends, or tests grow old.
FallsDue(t) ==
    /\ t \notin due
    /\ due' = due \cup {t}
    /\ UNCHANGED <<rows, up, loop, brokerReady, faults>>

BrokerFails ==
    /\ up /\ Fault
    /\ up' = FALSE
    /\ UNCHANGED <<rows, due, loop, brokerReady>>

BrokerReturns ==
    /\ ~up
    /\ up' = TRUE
    /\ UNCHANGED <<rows, due, loop, brokerReady, faults>>

-----------------------------------------------------------------------------
(* The process.                                                            *)

\* verify_invariants.  check_broker is asked here and never again; only if it
\* answers is the consumer of the interactive queue started.
Boot(w) ==
    /\ pc[w] = "down"
    /\ pc' = [pc EXCEPT ![w] = "idle"]
    /\ brokerReady' = [brokerReady EXCEPT ![w] = up]
    /\ UNCHANGED <<rows, due, up, todo, batch, out, faults>>

\* Mutant of LeavePass: the rows stay locked.
LeavePassLocked(w, to) ==
    /\ pc' = [pc EXCEPT ![w] = to]
    /\ todo' = [todo EXCEPT ![w] = {}]
    /\ out' = [out EXCEPT ![w] = {}]
    /\ UNCHANGED batch

\* The pass ends in the middle of whatever it did: the transaction rolls back,
\* which unlocks its rows.
LeavePass(w, to) ==
    /\ pc' = [pc EXCEPT ![w] = to]
    /\ todo' = [todo EXCEPT ![w] = {}]
    /\ batch' = [batch EXCEPT ![w] = {}]
    /\ out' = [out EXCEPT ![w] = {}]

\* The process dies or is stopped; stop() waits for the pass to end, which is
\* dying while idle.
Crash(w) ==
    /\ pc[w] # "down" /\ Fault
    /\ LeavePass(w, "down")
    /\ brokerReady' = [brokerReady EXCEPT ![w] = FALSE]
    /\ UNCHANGED <<rows, due, up>>

-----------------------------------------------------------------------------
(* run_relay.                                                              *)

\* Mutant of Poll: a pass only if there is something to relay.
PollWhenPending(w) ==
    /\ pc[w] = "idle" /\ PendingTenants # {}
    /\ pc' = [pc EXCEPT ![w] = "relay"]
    /\ todo' = [todo EXCEPT ![w] = PendingTenants]
    /\ UNCHANGED <<rows, due, up, batch, out, brokerReady, faults>>

\* pending_tenants, a transaction of its own.
Poll(w) ==
    /\ pc[w] = "idle"
    /\ pc' = [pc EXCEPT ![w] = "relay"]
    /\ todo' = [todo EXCEPT ![w] = PendingTenants]
    /\ UNCHANGED <<rows, due, up, batch, out, brokerReady, faults>>

\* relay_tenant_batch, its SELECT.
ClaimBatch(w) ==
    LET t == Least(todo[w])
    IN  /\ pc[w] = "relay" /\ todo[w] # {}
        /\ Claimable(t) # {}
        /\ batch' = [batch EXCEPT ![w] = Claimable(t)]
        /\ pc' = [pc EXCEPT ![w] = "dispatch"]
        /\ UNCHANGED <<rows, due, up, todo, out, brokerReady, faults>>

NothingToClaim(w) ==
    LET t == Least(todo[w])
    IN  /\ pc[w] = "relay" /\ todo[w] # {}
        /\ Claimable(t) = {}
        /\ todo' = [todo EXCEPT ![w] = @ \ {t}]
        /\ UNCHANGED <<rows, due, up, pc, batch, out, brokerReady, faults>>

NextOut(w) == Least(batch[w] \ out[w])

Dispatch(w) ==
    /\ pc[w] = "dispatch" /\ out[w] # batch[w]
    /\ NextOut(w) \in NeedsBroker => up
    /\ out' = [out EXCEPT ![w] = @ \cup {NextOut(w)}]
    /\ handed' = handed \cup {NextOut(w)}
    /\ UNCHANGED <<row, due, up, pc, todo, batch, brokerReady, faults>>

\* Mutant of CommitBatch: the rows are updated in a transaction before the dispatch.
CommitBatchEarly(w) ==
    /\ pc[w] = "dispatch" /\ batch[w] # {}
    /\ row' = [m \in Messages |-> IF m \in batch[w] THEN "published" ELSE row[m]]
    /\ batch' = [batch EXCEPT ![w] = {}] /\ out' = [out EXCEPT ![w] = {}]
    /\ todo' = [todo EXCEPT ![w] = @ \ {Least(@)}]
    /\ pc' = [pc EXCEPT ![w] = "relay"]
    /\ UNCHANGED <<handed, due, up, brokerReady, faults>>

\* The UPDATEs and the audit event become visible.
CommitBatch(w) ==
    /\ pc[w] = "dispatch" /\ out[w] = batch[w]
    /\ row' = [m \in Messages |-> IF m \in batch[w] THEN "published" ELSE row[m]]
    /\ batch' = [batch EXCEPT ![w] = {}] /\ out' = [out EXCEPT ![w] = {}]
    /\ todo' = [todo EXCEPT ![w] = @ \ {Least(@)}]
    /\ pc' = [pc EXCEPT ![w] = "relay"]
    /\ UNCHANGED <<handed, due, up, brokerReady, faults>>

\* due_tenants, after the last tenant.
RelayDone(w) ==
    /\ pc[w] = "relay" /\ todo[w] = {}
    /\ pc' = [pc EXCEPT ![w] = "maintain"]
    /\ todo' = [todo EXCEPT ![w] = due]
    /\ UNCHANGED <<rows, due, up, batch, out, brokerReady, faults>>

\* run_tenant_maintenance, in the order the UNION happens to give.
Maintain(w) ==
    /\ pc[w] = "maintain"
    /\ \E t \in todo[w] :
        /\ due' = due \ {t}
        /\ todo' = [todo EXCEPT ![w] = @ \ {t}]
    /\ UNCHANGED <<rows, up, pc, batch, out, brokerReady, faults>>

\* The else of the loop's try.
PassSucceeds(w) ==
    /\ pc[w] = "maintain" /\ todo[w] = {}
    /\ pc' = [pc EXCEPT ![w] = "idle"]
    /\ UNCHANGED <<rows, due, up, todo, batch, out, brokerReady, faults>>

\* The except: later tenants and all maintenance wait for the next pass.
PassEnds(w) ==
    /\ LeavePass(w, "idle")
    /\ UNCHANGED <<rows, due, up, brokerReady>>

\* enqueue_connection_test raises.
DispatchFails(w) ==
    /\ pc[w] = "dispatch" /\ out[w] # batch[w]
    /\ NextOut(w) \in NeedsBroker /\ ~up
    /\ PassEnds(w)
    /\ UNCHANGED faults

\* Any statement or COMMIT fails.
PassFails(w) ==
    /\ pc[w] \in {"relay", "dispatch", "maintain"} /\ Fault
    /\ PassEnds(w)

-----------------------------------------------------------------------------
Work(w) ==
    \/ Boot(w) \/ Poll(w) \/ ClaimBatch(w) \/ NothingToClaim(w) \/ Dispatch(w)
    \/ CommitBatch(w) \/ RelayDone(w) \/ Maintain(w) \/ PassSucceeds(w) \/ DispatchFails(w)

Next ==
    \/ \E w \in Workers : Work(w) \/ Crash(w) \/ PassFails(w)
    \/ \E m \in Messages : Publish(m)
    \/ \E t \in Tenants : FallsDue(t)
    \/ BrokerFails \/ BrokerReturns

Spec == Init /\ [][Next]_vars

\* A process executes, and one that died is started again.
FairSpec == Spec /\ \A w \in Workers : WF_vars(Work(w))

-----------------------------------------------------------------------------
(* Properties.                                                             *)

\* SKIP LOCKED gives concurrent relays disjoint batches, and only of rows that
\* nobody has published: worker outbox.py, module comment.
BatchesAreDisjoint ==
    \A w \in Workers :
        /\ \A m \in batch[w] : row[m] = "pending"
        /\ \A v \in Workers \ {w} : batch[v] \cap batch[w] = {}

\* At least once means once, unless a transaction failed between the dispatch and
\* its COMMIT: a message is never handed over when it is published, nor while
\* another relay has handed it over and not yet committed.
DuplicatesComeFromFailures ==
    [][\A w \in Workers : \A m \in out'[w] \ out[w] :
          /\ row[m] = "pending"
          /\ \A v \in Workers : m \notin out[v]]_vars

\* The outbox is what worker outbox.py says: nothing is handed over before its
\* transaction committed, and nothing is settled that was not handed over.
Outbox == INSTANCE TransactionalOutbox WITH
    committed <- {m \in Messages : row[m] # "none"},
    handed    <- handed,
    settled   <- {m \in Messages : row[m] = "published"}

ImplementsTransactionalOutbox == Outbox!Spec

\* Once the broker stays up every message is published, whatever failed before,
\* and whichever tenant's batch it was that failed.
EverythingIsRelayed ==
    <>[]up => \A m \in Messages : row[m] = "pending" ~> row[m] = "published"

\* And maintenance, which comes after the relay in every pass, is done.
MaintenanceIsDone == <>[]up => \A t \in Tenants : t \in due ~> t \notin due

-----------------------------------------------------------------------------
(* A statement of the repository that the code does not keep.              *)

\* worker main.py:158 "Readiness. Reflects database and broker reachability.": a
\* worker that runs on while database and broker answer is ready in the end.
ReadinessReflectsBroker ==
    \A w \in Workers :
        <>[](up /\ pc[w] # "down") => <>brokerReady[w]

=============================================================================

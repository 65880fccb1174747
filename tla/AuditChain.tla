----------------------------- MODULE AuditChain -----------------------------
(***************************************************************************)
(* The audit trail of one tenant: governance/audit.py (record and           *)
(* verify_chain) over the checkpoint that the triggers and functions of     *)
(* migration 0002 maintain.                                                *)
(*                                                                         *)
(* A writer appends inside its caller's transaction: an advisory lock,      *)
(* held until the transaction ends, then the latest event, then the INSERT  *)
(* whose trigger advances the checkpoint.  Nothing is seen before COMMIT.   *)
(* A verifier reads the checkpoint and the events with two statements, and  *)
(* each sees what is committed when it starts.                             *)
(*                                                                         *)
(* The digest is injective in its fields: the hash of an event is the       *)
(* sequence of what was hashed so far.                                     *)
(***************************************************************************)
EXTENDS Integers, Sequences

CONSTANTS
    Writers,        \* transactions that record audit events
    None,           \* nobody
    MaxEvents,      \* bound: events ever recorded
    MaxDamages      \* bound: times that rows are lost or altered behind the code's back

ASSUME ConstantsAssumption ==
    None \notin Writers /\ MaxEvents \in Nat /\ MaxDamages \in Nat

VARIABLES
    chain,      \* the committed events, ORDER BY seq
    head,       \* the committed row of audit_chain_head; seq = 0: no row
    tx,         \* [Writers -> events of its open transaction]
    holder,     \* who holds the tenant's advisory lock
    next,       \* what distinguishes the next event (its id, time and payload)
    read,       \* what the verifier has read of the checkpoint: <<>>, or <<head>>
    verdict,    \* its last answer
    damage,     \* history: what was done to the rows, "none" at first
    damages     \* history: how often

vars == <<chain, head, tx, holder, next, read, verdict, damage, damages>>

Genesis == <<>>

Digest(e) == Append(e.prev, <<e.seq, e.body>>)

Hashes == Seq(Nat \X Nat)
Events == [seq : Nat, body : Nat, prev : Hashes, hash : Hashes]
Heads  == [seq : Nat, hash : Hashes, offboarded : BOOLEAN]

Statuses == {"intact", "empty", "offboarded", "mutated", "gap", "truncated",
             "erased", "checkpoint_missing"}

\* ChainVerification.ok
Ok == {"intact", "empty", "offboarded"}

TypeOK ==
    /\ chain \in Seq(Events)
    /\ head \in Heads
    /\ tx \in [Writers -> Seq(Events)]
    /\ holder \in Writers \cup {None}
    /\ \A w \in Writers : tx[w] # <<>> => holder = w
    /\ next \in 1..(MaxEvents + 1)
    /\ read \in Seq(Heads) /\ Len(read) <= 1
    /\ verdict \in Statuses \cup {"none"}
    /\ damage \in {"none", "altered", "gap", "tail", "all"}
    /\ damages \in 0..MaxDamages

Init ==
    /\ chain = <<>>
    /\ head = [seq |-> 0, hash |-> Genesis, offboarded |-> FALSE]
    /\ tx = [w \in Writers |-> <<>>]
    /\ holder = None
    /\ next = 1
    /\ read = <<>> /\ verdict = "none"
    /\ damage = "none" /\ damages = 0

-----------------------------------------------------------------------------
(* record, and the transaction around it.                                  *)

\* pg_advisory_xact_lock, until COMMIT or ROLLBACK.  The row of an offboarded
\* tenant is gone, and with it whoever could act for it.
Lock(w) ==
    /\ holder = None /\ ~head.offboarded
    /\ holder' = w
    /\ UNCHANGED <<chain, head, tx, next, read, verdict, damage, damages>>

\* The events w's statements see.
Seen(w) == chain \o tx[w]

\* The event after the last one, or the first of all.
NewEvent(w) ==
    LET n    == Len(Seen(w))
        seq  == IF n = 0 THEN 1 ELSE Seen(w)[n].seq + 1
        prev == IF n = 0 THEN Genesis ELSE Seen(w)[n].hash
    IN  [seq |-> seq, body |-> next, prev |-> prev, hash |-> Append(prev, <<seq, next>>)]

Record(w) ==
    /\ holder = w /\ next <= MaxEvents
    /\ tx' = [tx EXCEPT ![w] = Append(@, NewEvent(w))]
    /\ next' = next + 1
    /\ UNCHANGED <<chain, head, holder, read, verdict, damage, damages>>

\* Mutant of Advanced: the checkpoint is kept where it is once it exists.
AdvancedOnce(h, e) == IF h.seq = 0 THEN [h EXCEPT !.seq = e.seq, !.hash = e.hash] ELSE h

\* eip_audit_chain_advance: the upsert with WHERE last_seq < EXCLUDED.last_seq.
\* Of several events of one transaction the last decides.
Advanced(h, e) == IF h.seq < e.seq THEN [h EXCEPT !.seq = e.seq, !.hash = e.hash] ELSE h

Commit(w) ==
    /\ holder = w /\ tx[w] # <<>>
    /\ chain' = Seen(w)
    /\ head' = Advanced(head, tx[w][Len(tx[w])])
    /\ tx' = [tx EXCEPT ![w] = <<>>]
    /\ holder' = None
    /\ UNCHANGED <<next, read, verdict, damage, damages>>

\* The caller's transaction fails, for whatever reason, and its events with it.
Rollback(w) ==
    /\ holder = w
    /\ tx' = [tx EXCEPT ![w] = <<>>]
    /\ holder' = None
    /\ UNCHANGED <<chain, head, next, read, verdict, damage, damages>>

\* eip_audit_chain_offboard, and the delete of the tenant that cascades to its
\* events once no transaction holds the tenant's row.
Offboard ==
    /\ holder = None /\ head.seq # 0
    /\ head' = [head EXCEPT !.offboarded = TRUE]
    /\ chain' = <<>>
    /\ damage' = "none"
    /\ UNCHANGED <<tx, holder, next, read, verdict, damages>>

-----------------------------------------------------------------------------
(* verify_chain.                                                           *)

Before(c, i) == IF i = 1 THEN Genesis ELSE c[i - 1].hash

\* Mutant of Sound: only the links are checked, no digest is computed again.
SoundLinks(c, i) == c[i].seq = i /\ c[i].prev = Before(c, i)

\* The three checks of the loop on the i-th event.
Sound(c, i) == c[i].seq = i /\ c[i].prev = Before(c, i) /\ c[i].hash = Digest(c[i])

Broken(c) == {i \in DOMAIN c : ~Sound(c, i)}

\* Mutant of Verdict: without the checkpoint, as before migration 0002.
VerdictByChain(h, c) ==
    IF c = <<>> THEN IF h.offboarded THEN "offboarded" ELSE "empty"
    ELSE IF Broken(c) = {} THEN "intact" ELSE "mutated"

Verdict(h, c) ==
    IF c = <<>> THEN
        IF h.seq = 0 THEN "empty" ELSE IF h.offboarded THEN "offboarded" ELSE "erased"
    ELSE IF h.seq = 0 THEN "checkpoint_missing"
    ELSE IF Broken(c) # {} THEN
        IF \E i \in Broken(c) : c[i].seq # i /\ \A j \in Broken(c) : i <= j
        THEN "gap" ELSE "mutated"
    ELSE IF Len(c) < h.seq THEN "truncated"
    ELSE IF Len(c) > h.seq \/ c[Len(c)].hash # h.hash THEN "checkpoint_missing"
    ELSE "intact"

VerifyHead ==
    /\ read = <<>>
    /\ read' = <<head>>
    /\ UNCHANGED <<chain, head, tx, holder, next, verdict, damage, damages>>

VerifyEvents ==
    /\ read # <<>>
    /\ verdict' = Verdict(read[1], chain)
    /\ read' = <<>>
    /\ UNCHANGED <<chain, head, tx, holder, next, damage, damages>>

-----------------------------------------------------------------------------
(* Rows altered or lost behind the code's back, as the tests of            *)
(* verify_chain do it.  The checkpoint is out of reach.                    *)

Damage(kind, c) ==
    /\ damages < MaxDamages /\ damages' = damages + 1
    /\ damage = "none"
    /\ damage' = kind
    /\ chain' = c
    /\ UNCHANGED <<head, tx, holder, next, read, verdict>>

Alter == \E i \in DOMAIN chain : Damage("altered", [chain EXCEPT ![i].body = 0])

LoseInterior ==
    \E i \in DOMAIN chain :
        /\ i < Len(chain)
        /\ Damage("gap", SubSeq(chain, 1, i - 1) \o SubSeq(chain, i + 1, Len(chain)))

LoseTail == \E n \in DOMAIN chain : n < Len(chain) /\ Damage("tail", SubSeq(chain, 1, n))

LoseAll == chain # <<>> /\ Damage("all", <<>>)

-----------------------------------------------------------------------------
Next ==
    \/ \E w \in Writers : Lock(w) \/ Record(w) \/ Commit(w) \/ Rollback(w)
    \/ Offboard
    \/ VerifyHead \/ VerifyEvents
    \/ Alter \/ LoseInterior \/ LoseTail \/ LoseAll

Spec == Init /\ [][Next]_vars

-----------------------------------------------------------------------------
(* Properties.                                                             *)

\* What the lock is for: no event, committed or about to be, has the seq of
\* another, so the unique constraint never turns an audited request down.
SeqsAreUnique ==
    /\ \A v, w \in Writers : \A i \in DOMAIN Seen(v), j \in DOMAIN tx[w] :
        Seen(v)[i].seq = tx[w][j].seq => Seen(v)[i] = tx[w][j]
    /\ \A w \in Writers : \A i, j \in DOMAIN Seen(w) : i < j => Seen(w)[i].seq < Seen(w)[j].seq

\* A trail that nobody touched verifies at every moment, between any commits and
\* rollbacks of its writers, when checkpoint and events are read together.
HonestChainVerifies == damage = "none" => Verdict(head, chain) \in Ok

\* An altered event, or one lost from the middle, is reported as such for ever,
\* however many events follow: verify_chain's table, first two rows.
BrokenLinksAreReported ==
    /\ damage = "altered" => Verdict(head, chain) = "mutated"
    /\ damage = "gap" => Verdict(head, chain) = "gap"

\* A lost tail and a lost chain are reported at least while the checkpoint is
\* that of a lost event: later events take the lost ones' numbers, but not
\* their hashes.
LossIsReportedAtFirst ==
    damage \in {"tail", "all"} /\ (\A i \in DOMAIN chain : chain[i].hash # head.hash)
        => Verdict(head, chain) \notin Ok

-----------------------------------------------------------------------------
(* Statements of the repository that the code does not keep.               *)

\* audit.py:351 "final event deleted  TRUNCATED  (max seq < checkpoint)" and
\* audit.py:353 "all events deleted  ERASED  (checkpoint survives)".
LossStaysReported == damage \in {"tail", "all"} => Verdict(head, chain) \notin Ok

\* audit.py:314 CHECKPOINT_MISSING: "the checkpoint itself was tampered with, or
\* the trigger was disabled": a verdict on an untouched trail is always ok.
VerdictsAreSound == damages = 0 => verdict \in Ok \cup {"none"}

=============================================================================

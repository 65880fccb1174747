----------------------------- MODULE SourceProbe -----------------------------
(***************************************************************************)
(* One test of a PostgreSQL source: PostgreSQLConnector.test_connection      *)
(* (connectivity/postgresql.py) under the egress rules                      *)
(* (connectivity/egress.py), against a DNS that may answer differently every *)
(* time, a server that may fail at any stage, and a worker that may be       *)
(* interrupted at any await but those of the finally blocks.                *)
(*                                                                         *)
(* Addresses are numbers in the order of their strings; which are safe is   *)
(* all _classify_address is asked for.  Which code a denial carries is left  *)
(* out.                                                                    *)
(***************************************************************************)
EXTENDS Integers, Sequences, FiniteSets, SequencesExt

CONSTANTS
    Addresses,      \* IP addresses
    Safe,           \* those _classify_address has nothing against
    Garbage,        \* a DNS answer that is no address
    Host,           \* an endpoint that names a host
    Unparsable,     \* an endpoint _parse_endpoint refuses
    None, Raised

ASSUME ConstantsAssumption ==
    /\ Addresses \subseteq Nat /\ IsFiniteSet(Addresses) /\ Safe \subseteq Addresses
    /\ {Garbage, Host, Unparsable, None, Raised} \cap Addresses = {}
    /\ Host \notin {Unparsable, None} /\ Unparsable # None /\ None # Raised

VARIABLES
    endpoint,       \* an address, Host or Unparsable
    allowlist,      \* connector_egress_allowlist; empty: no allowlist
    pc,
    answer,         \* history: the last DNS answer
    selected,       \* decision.selected_address
    dialled,        \* history: addresses connected to
    secret,         \* the password was read
    checks,         \* diagnostics so far
    result,         \* None, Raised or the ConnectionTestResult
    tcp, connection, engine     \* "closed" or "open"

policy == <<endpoint, allowlist>>
network == <<answer, selected, dialled>>
sockets == <<tcp, connection, engine>>
vars == <<policy, pc, network, secret, checks, result, sockets>>

\* DiagnosticCheckType, in its order.
Kinds == <<"network", "tls", "authentication", "authorization", "metadata_access", "latency">>

Check(kind, status) == [type |-> kind, status |-> status]

\* An error is an answer without addresses: both are denied.
Answers == SUBSET (Addresses \cup {Garbage})

CheckSet == [type : ToSet(Kinds), status : {"pass", "fail", "skipped"}]

TypeOK ==
    /\ endpoint \in Addresses \cup {Host, Unparsable} /\ allowlist \subseteq Addresses
    /\ pc \in {"start", "dial", "peer", "secret", "authentication", "authorization",
               "metadata_access", "latency", "close", "dispose", "done"}
    /\ answer \in Answers /\ selected \in Addresses \cup {None}
    /\ dialled \subseteq Addresses /\ secret \in BOOLEAN
    /\ checks \in Seq(CheckSet)
    /\ result \in {None, Raised} \/ result \in [success : BOOLEAN, checks : Seq(CheckSet)]
    /\ {tcp, connection, engine} \subseteq {"closed", "open"}
    /\ connection = "open" => engine = "open"
    /\ tcp = "open" <=> pc = "peer"
    /\ pc \in {"close", "dispose", "done"} <=> result # None

Init ==
    /\ endpoint \in Addresses \cup {Host, Unparsable}
    /\ allowlist \in SUBSET Addresses
    /\ pc = "start" /\ answer = {} /\ selected = None /\ dialled = {}
    /\ secret = FALSE /\ checks = <<>> /\ result = None
    /\ tcp = "closed" /\ connection = "closed" /\ engine = "closed"

-----------------------------------------------------------------------------
(* The egress rules.                                                       *)

Least(S) == CHOOSE x \in S : \A y \in S : x <= y

\* The rule of a literal address: an allowlist decides alone.
LiteralPasses(a) == IF allowlist # {} THEN a \in allowlist ELSE a \in Safe

\* Mutant of AnswersPass: one allowed answer is enough.
AnswersPassAny(A) ==
    /\ Garbage \notin A
    /\ \E a \in A : LiteralPasses(a)

\* The rule of a host's DNS answers: one that is no address, a mixture of safe and
\* unsafe ones, or one outside the allowlist denies them all; unsafe ones need one.
AnswersPass(A) ==
    /\ A # {} /\ Garbage \notin A
    /\ A \subseteq Safe \/ A \cap Safe = {}
    /\ allowlist # {} => A \subseteq allowlist
    /\ allowlist = {} => A \subseteq Safe

\* validate_endpoint: the address it selects, or None.
Selected(A) ==
    CASE endpoint = Unparsable -> None
      [] endpoint = Host       -> IF AnswersPass(A) THEN Least(A) ELSE None
      [] OTHER                 -> IF LiteralPasses(endpoint) THEN endpoint ELSE None

\* Mutant of PeerPasses: only the policy counts, not today's answers.
PeerPassesPolicy(peer, A) == peer # None /\ LiteralPasses(peer)

\* validate_peer_pre_connection.
PeerPasses(peer, A) ==
    IF endpoint = peer THEN LiteralPasses(peer)
    ELSE AnswersPass(A) /\ peer \in A

-----------------------------------------------------------------------------
(* Results.                                                                *)

\* Mutant of Skipped: kinds.index(after), without the + 1.
SkippedOff(kind) ==
    LET start == CHOOSE i \in DOMAIN Kinds : Kinds[i] = kind
    IN  [i \in 1..Len(Kinds) - start + 1 |-> Check(Kinds[start + i - 1], "skipped")]

\* _skipped.
Skipped(kind) ==
    LET start == CHOOSE i \in DOMAIN Kinds : Kinds[i] = kind
    IN  [i \in 1..Len(Kinds) - start |-> Check(Kinds[start + i], "skipped")]

\* Mutant of Leave: the return is not inside a finally.
LeaveOpen(r) ==
    /\ result' = r
    /\ pc' = "done"

\* return or raise: the finally blocks come first.
Leave(r) ==
    /\ result' = r
    /\ pc' = CASE connection = "open" -> "close"
               [] connection = "closed" /\ engine = "open" -> "dispose"
               [] OTHER -> "done"

FailAt(kind) ==
    /\ Leave([success |-> FALSE, checks |-> checks \o <<Check(kind, "fail")>> \o Skipped(kind)])
    /\ UNCHANGED checks

PassTo(kinds, step) ==
    /\ checks' = checks \o [i \in DOMAIN kinds |-> Check(kinds[i], "pass")]
    /\ pc' = step
    /\ UNCHANGED result

-----------------------------------------------------------------------------
(* test_connection.                                                        *)

Validate ==
    /\ pc = "start"
    /\ answer' \in Answers
    /\ selected' = Selected(answer')
    /\ IF selected' = None THEN FailAt("network")
       ELSE pc' = "dial" /\ UNCHANGED <<checks, result>>
    /\ UNCHANGED <<policy, dialled, secret, sockets>>

\* open_connection to the address itself, within the timeout.
Dial ==
    /\ pc = "dial"
    /\ dialled' = dialled \cup {selected}
    /\ tcp' = "open" /\ pc' = "peer"
    /\ UNCHANGED <<policy, answer, selected, secret, checks, result, connection, engine>>

DialFails ==
    /\ pc = "dial"
    /\ FailAt("network")
    /\ UNCHANGED <<policy, network, secret, sockets>>

\* The peer of the socket (none, if it is gone already) against a new DNS answer;
\* the socket is closed either way.
Revalidate ==
    /\ pc = "peer"
    /\ answer' \in Answers
    /\ \E peer \in {selected, None} :
        IF PeerPasses(peer, answer') THEN PassTo(<<"network", "tls">>, "secret")
        ELSE FailAt("network")
    /\ tcp' = "closed"
    /\ UNCHANGED <<policy, selected, dialled, secret, connection, engine>>

\* writer.wait_closed raises, or is interrupted.
CloseFails ==
    /\ pc = "peer"
    /\ answer' \in Answers
    /\ \/ FailAt("network")
       \/ Leave(Raised) /\ UNCHANGED checks
    /\ tcp' = "closed"
    /\ UNCHANGED <<policy, selected, dialled, secret, connection, engine>>

\* The secret, and the engine made with it.
ReadSecret ==
    /\ pc = "secret"
    /\ secret' = TRUE
    /\ engine' = "open" /\ pc' = "authentication"
    /\ UNCHANGED <<policy, network, checks, result, tcp, connection>>

SecretUnavailable ==
    /\ pc = "secret"
    /\ FailAt("authentication")
    /\ UNCHANGED <<policy, network, secret, sockets>>

\* Mutant of Authenticate: the engine is given the host, which is resolved anew.
AuthenticateByName ==
    /\ pc = "authentication"
    /\ answer' \in Answers
    /\ \E a \in (answer' \cap Addresses) \cup {selected} : dialled' = dialled \cup {a}
    /\ connection' = "open"
    /\ PassTo(<<"authentication">>, "authorization")
    /\ UNCHANGED <<policy, selected, secret, tcp, engine>>

\* engine.connect, to the selected address.
Authenticate ==
    /\ pc = "authentication"
    /\ dialled' = dialled \cup {selected}
    /\ connection' = "open"
    /\ PassTo(<<"authentication">>, "authorization")
    /\ UNCHANGED <<policy, answer, selected, secret, tcp, engine>>

AuthenticateFails ==
    /\ pc = "authentication"
    /\ dialled' = dialled \cup {selected}
    /\ FailAt("authentication")
    /\ UNCHANGED <<policy, answer, selected, secret, sockets>>

Authorize ==
    /\ pc = "authorization"
    /\ PassTo(<<"authorization">>, "metadata_access")
    /\ UNCHANGED <<policy, network, secret, sockets>>

ReadMetadata ==
    /\ pc = "metadata_access"
    /\ PassTo(<<"metadata_access">>, "latency")
    /\ UNCHANGED <<policy, network, secret, sockets>>

\* A DBAPIError, or for the last one any Exception.
StatementFails ==
    /\ pc \in {"authorization", "metadata_access", "latency"}
    /\ FailAt(pc)
    /\ UNCHANGED <<policy, network, secret, sockets>>

MeasureLatency ==
    /\ pc = "latency"
    /\ checks' = Append(checks, Check("latency", "pass"))
    /\ Leave([success |-> TRUE, checks |-> checks'])
    /\ UNCHANGED <<policy, network, secret, sockets>>

\* Another exception (the first: getaddrinfo cannot encode the name), or the worker
\* is interrupted at an await.
Raises ==
    /\ \/ pc = "start" /\ endpoint = Host
       \/ pc \in {"dial", "secret", "authentication", "authorization", "metadata_access", "latency"}
    /\ Leave(Raised)
    /\ UNCHANGED <<policy, network, secret, checks, sockets>>

\* The finally blocks; what they raise takes the place of the result.
CloseConnection ==
    /\ pc = "close"
    /\ connection' = "closed" /\ pc' = "dispose"
    /\ result' \in {result, Raised}
    /\ UNCHANGED <<policy, network, secret, checks, tcp, engine>>

DisposeEngine ==
    /\ pc = "dispose"
    /\ engine' = "closed" /\ pc' = "done"
    /\ result' \in {result, Raised}
    /\ UNCHANGED <<policy, network, secret, checks, tcp, connection>>

-----------------------------------------------------------------------------
Next ==
    \/ Validate \/ Dial \/ DialFails \/ Revalidate \/ CloseFails
    \/ ReadSecret \/ SecretUnavailable \/ Authenticate \/ AuthenticateFails
    \/ Authorize \/ ReadMetadata \/ StatementFails \/ MeasureLatency \/ Raises
    \/ CloseConnection \/ DisposeEngine

Spec == Init /\ [][Next]_vars

-----------------------------------------------------------------------------
(* Properties.                                                             *)

\* ConnectionTestResult.__post_init__.
PostInit(r) ==
    LET failed == {i \in DOMAIN r.checks : r.checks[i].status = "fail"}
    IN  /\ [i \in DOMAIN r.checks |-> r.checks[i].type] = Kinds
        /\ IF r.success THEN \A i \in DOMAIN r.checks : r.checks[i].status = "pass"
           ELSE \E f \in failed :
                  /\ failed = {f}
                  /\ \A i \in DOMAIN r.checks :
                       /\ i < f => r.checks[i].status = "pass"
                       /\ i > f => r.checks[i].status = "skipped"

\* Whatever fails, the result is one that __post_init__ accepts: the constructor
\* would otherwise raise where the probe means to report a failure.
ResultsAreWellFormed == result \notin {None, Raised} => PostInit(result)

\* egress.py: only addresses the policy permits are ever connected to, however the
\* DNS answers change while the probe runs.
DialsOnlyPermitted == \A a \in dialled : LiteralPasses(a)

\* ADR-004:114 "DNS rebinding is countered by resolving once and connecting to the
\* resolved address": the probe and the engine connect to the same address.
OneAddressDialled == Cardinality(dialled) <= 1

\* The password is read only after the socket's peer stood in a DNS answer that
\* passed as a whole at that time.
SecretNeedsCurrentPeer ==
    secret => IF endpoint = Host THEN AnswersPass(answer) /\ selected \in answer
              ELSE endpoint = selected

\* However the probe ends, nothing it opened stays open.
NothingLeftOpen == pc = "done" => {tcp, connection, engine} = {"closed"}

=============================================================================

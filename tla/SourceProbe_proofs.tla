------------------------- MODULE SourceProbe_proofs -------------------------
(***************************************************************************)
(* Proofs about SourceProbe for every set of addresses, safe or not, every  *)
(* allowlist, endpoint and sequence of DNS answers.                         *)
(***************************************************************************)
EXTENDS SourceProbe, FiniteSetTheorems, SequenceTheorems, WellFoundedInduction, TLAPS

\* Stages at which the probe has an engine, and those at which it is over.
AtEngine == {"authentication", "authorization", "metadata_access", "latency"}
AtEnd    == {"close", "dispose", "done"}
Steps    == {"start", "dial", "peer", "secret"} \cup AtEngine \cup AtEnd

\* The address selected is one the policy permits, and nothing else is dialled.
SelectionHolds ==
    /\ endpoint \in Addresses \cup {Host, Unparsable} /\ allowlist \subseteq Addresses
    /\ selected \in Addresses \cup {None} /\ pc \in Steps
    /\ pc = "start" => selected = None
    /\ selected # None => LiteralPasses(selected) /\ endpoint \in {selected, Host}
    /\ pc \notin {"start"} \cup AtEnd => selected # None
    /\ dialled \subseteq {selected} \ {None}

\* The last answer is the one the socket's peer was found in.
PeerWasCurrent ==
    /\ pc \in {"start", "dial", "peer"} => ~secret
    /\ pc \in {"secret"} \cup AtEngine \/ secret =>
        IF endpoint = Host THEN AnswersPass(answer) /\ selected \in answer
        ELSE endpoint = selected

\* What is open at which stage.
Open ==
    /\ tcp = "open" \/ tcp = "closed"
    /\ connection = "open" \/ connection = "closed"
    /\ engine = "open" \/ engine = "closed"
    /\ tcp = "open" => pc = "peer"
    /\ connection = "open" => pc \in {"authorization", "metadata_access", "latency", "close"}
    /\ engine = "open" => pc \in AtEngine \cup {"close", "dispose"}

IInv == SelectionHolds /\ PeerWasCurrent /\ Open

-----------------------------------------------------------------------------
(* The egress rules.                                                       *)

\* The least element of a non-empty set of numbers is one of them.
LEMMA LeastElement ==
    ASSUME NEW S, S \subseteq Nat, S # {}
    PROVE  Least(S) \in S
<1> DEFINE R == OpToRel(<, Nat)
<1>1. \E x \in S : \A y \in S : <<y, x>> \notin R
    <2>1. IsWellFoundedOn(R, Nat)
        BY NatLessThanWellFounded
    <2> HIDE DEF R
    <2>2. QED BY <2>1, WFMin
<1>2. \A x, y \in Nat : <<y, x>> \notin R => x <= y
    BY DEF OpToRel
<1> HIDE DEF R
<1>3. \E x \in S : \A y \in S : x <= y
    BY <1>1, <1>2
<1>4. QED
    BY <1>3 DEF Least

\* In an answer that passes every address is permitted by the literal rule.
LEMMA PassingAnswers ==
    ASSUME NEW A \in Answers, AnswersPass(A)
    PROVE  A # {} /\ A \subseteq Addresses /\ \A a \in A : LiteralPasses(a)
BY DEF Answers, AnswersPass, LiteralPasses

\* What validation selects is permitted, and the endpoint itself unless it is a host.
LEMMA SelectedPasses ==
    ASSUME NEW A \in Answers, endpoint \in Addresses \cup {Host, Unparsable}
    PROVE  /\ Selected(A) \in Addresses \cup {None}
           /\ Selected(A) # None => LiteralPasses(Selected(A)) /\ endpoint \in {Selected(A), Host}
<1>0. Host # Unparsable /\ Host \notin Addresses /\ Unparsable \notin Addresses /\ None \notin Addresses
    BY ConstantsAssumption
<1>1. CASE endpoint = Host /\ AnswersPass(A)
    <2>1. A # {} /\ A \subseteq Nat
        BY <1>1, PassingAnswers, ConstantsAssumption
    <2>2. Least(A) \in A
        BY <2>1, LeastElement
    <2>3. Selected(A) = Least(A)
        BY <1>0, <1>1 DEF Selected
    <2>4. QED
        BY <1>1, <2>2, <2>3, PassingAnswers
<1>2. QED
    BY <1>0, <1>1 DEF Selected

-----------------------------------------------------------------------------
(* The invariant.                                                          *)

\* The strengthened invariant holds initially ...
LEMMA InitialState == Init => IInv
BY DEF Init, IInv, SelectionHolds, PeerWasCurrent, Open, Steps, AtEngine, AtEnd

\* A return or an exception leads to the finally blocks that have work to do.
LEMMA LeaveStep ==
    ASSUME NEW r, Leave(r), Open
    PROVE  /\ pc' \in AtEnd
           /\ pc' = "close" => connection = "open"
           /\ pc' = "dispose" => connection = "closed"
           /\ pc' = "done" => connection = "closed" /\ engine = "closed"
BY DEF Leave, Open, AtEnd

\* A failure, or an exception, changes nothing else.
LEMMA EndStep ==
    ASSUME IInv, pc \in {"start", "dial", "peer", "secret"} \cup AtEngine, NEW r, Leave(r),
           UNCHANGED <<policy, selected, connection, engine, secret>>,
           tcp' \in {tcp, "closed"}, pc = "peer" => tcp' = "closed",
           dialled' \subseteq {selected} \ {None},
           secret => answer' = answer
    PROVE  IInv'
<1>1. /\ pc' \in AtEnd
      /\ pc' = "close" => connection = "open"
      /\ pc' = "dispose" => connection = "closed"
      /\ pc' = "done" => connection = "closed" /\ engine = "closed"
    BY LeaveStep DEF IInv
<1>2. SelectionHolds'
    BY <1>1 DEF IInv, SelectionHolds, AtEnd, AtEngine, Steps, policy, LiteralPasses
<1>3. PeerWasCurrent'
    BY <1>1 DEF IInv, PeerWasCurrent, AtEnd, AtEngine, AnswersPass, policy
<1>4. Open'
    BY <1>1 DEF IInv, Open, AtEnd, AtEngine, Steps
<1>5. QED
    BY <1>2, <1>3, <1>4 DEF IInv

\* The strengthened invariant is inductive.
LEMMA InductiveStep ==
    ASSUME IInv, [Next]_vars
    PROVE  IInv'
<1>0. UNCHANGED policy
    BY DEF Next, vars, Validate, Dial, DialFails, Revalidate, CloseFails, ReadSecret,
        SecretUnavailable, Authenticate, AuthenticateFails, Authorize, ReadMetadata,
        StatementFails, MeasureLatency, Raises, CloseConnection, DisposeEngine
<1> USE <1>0
<1>1. CASE Validate
    <2>1. /\ pc = "start" /\ answer' \in Answers /\ selected' = Selected(answer')
          /\ UNCHANGED <<dialled, secret, tcp, connection, engine>>
          /\ ~secret /\ dialled = {} /\ selected = None
        BY <1>1 DEF Validate, sockets, IInv, SelectionHolds, PeerWasCurrent
    <2>2. CASE selected' = None
        <3>1. PICK r : Leave(r)
            BY <1>1, <2>2 DEF Validate, FailAt
        <3>2. QED
            BY <2>1, <2>2, <3>1, EndStep DEF policy
    <2>3. CASE selected' # None
        <3>1. pc' = "dial"
            BY <1>1, <2>3 DEF Validate
        <3>2. /\ selected' \in Addresses
              /\ LiteralPasses(selected') /\ endpoint \in {selected', Host}
            BY <2>1, <2>3, SelectedPasses DEF IInv, SelectionHolds
        <3>3. SelectionHolds'
            BY <2>1, <2>3, <3>1, <3>2 DEF IInv, SelectionHolds, LiteralPasses, policy, Steps, AtEngine, AtEnd
        <3>4. PeerWasCurrent' /\ Open'
            BY <2>1, <3>1 DEF IInv, PeerWasCurrent, Open, AtEngine
        <3>5. QED BY <3>3, <3>4 DEF IInv
    <2>4. QED BY <2>2, <2>3
<1>2. CASE Dial
    BY <1>2 DEF Dial, IInv, SelectionHolds, PeerWasCurrent, Open, LiteralPasses, policy, Steps, AtEngine, AtEnd
<1>3. CASE Revalidate
    <2>1. /\ pc = "peer" /\ answer' \in Answers /\ tcp' = "closed"
          /\ UNCHANGED <<selected, dialled, secret, connection, engine>> /\ ~secret
          /\ selected \in Addresses /\ dialled \subseteq {selected} \ {None}
        BY <1>3 DEF Revalidate, IInv, SelectionHolds, PeerWasCurrent, AtEnd
    <2>2. PICK peer \in {selected, None} :
            IF PeerPasses(peer, answer') THEN PassTo(<<"network", "tls">>, "secret") ELSE FailAt("network")
        BY <1>3 DEF Revalidate
    <2>3. CASE PeerPasses(peer, answer')
        <3>1. pc' = "secret"
            BY <2>2, <2>3 DEF PassTo
        <3>2. IF endpoint = Host THEN AnswersPass(answer') /\ selected \in answer' ELSE endpoint = selected
            <4>1. CASE endpoint = peer
                BY <2>1, <4>1, ConstantsAssumption DEF IInv, SelectionHolds
            <4>2. CASE endpoint # peer
                <5>1. AnswersPass(answer') /\ peer \in answer'
                    BY <2>3, <4>2 DEF PeerPasses
                <5>2. peer \in Addresses
                    BY <2>1, <5>1, PassingAnswers
                <5>3. peer = selected
                    BY <5>2, ConstantsAssumption
                <5>4. QED
                    BY <2>1, <5>1, <5>3, ConstantsAssumption DEF IInv, SelectionHolds
            <4>3. QED BY <4>1, <4>2
        <3>3. SelectionHolds'
            BY <2>1, <3>1 DEF IInv, SelectionHolds, LiteralPasses, policy, Steps, AtEngine, AtEnd
        <3>4. PeerWasCurrent'
            BY <2>1, <3>1, <3>2 DEF PeerWasCurrent, AnswersPass, policy, AtEngine
        <3>5. Open'
            BY <2>1, <3>1 DEF IInv, Open, AtEngine
        <3>6. QED BY <3>3, <3>4, <3>5 DEF IInv
    <2>4. CASE ~PeerPasses(peer, answer')
        <3>1. PICK r : Leave(r)
            BY <2>2, <2>4 DEF FailAt
        <3>2. QED
            BY <2>1, <3>1, EndStep DEF policy
    <2>5. QED BY <2>3, <2>4
<1>4. CASE ReadSecret
    BY <1>4 DEF ReadSecret, IInv, SelectionHolds, PeerWasCurrent, Open, LiteralPasses, AnswersPass,
        network, policy, Steps, AtEngine, AtEnd
<1>5. CASE Authenticate
    BY <1>5 DEF Authenticate, PassTo, IInv, SelectionHolds, PeerWasCurrent, Open, LiteralPasses,
        AnswersPass, policy, Steps, AtEngine, AtEnd
<1>6. CASE Authorize \/ ReadMetadata
    BY <1>6 DEF Authorize, ReadMetadata, PassTo, IInv, SelectionHolds, PeerWasCurrent, Open,
        LiteralPasses, AnswersPass, network, sockets, policy, Steps, AtEngine, AtEnd
<1>7. CASE \/ DialFails \/ CloseFails \/ SecretUnavailable \/ AuthenticateFails
           \/ StatementFails \/ MeasureLatency \/ Raises
    <2>1. PICK r : Leave(r)
        BY <1>7 DEF DialFails, CloseFails, SecretUnavailable, AuthenticateFails, StatementFails,
            MeasureLatency, Raises, FailAt
    <2>2. /\ pc \in {"start", "dial", "peer", "secret"} \cup AtEngine
          /\ UNCHANGED <<selected, connection, engine, secret>>
          /\ tcp' \in {tcp, "closed"} /\ (pc = "peer" => tcp' = "closed")
          /\ dialled' \subseteq dialled \cup {selected}
          /\ pc = "start" => dialled' = dialled
          /\ pc = "peer" \/ answer' = answer
        BY <1>7 DEF DialFails, CloseFails, SecretUnavailable, AuthenticateFails, StatementFails,
            MeasureLatency, Raises, network, sockets, AtEngine
    <2>3. dialled' \subseteq {selected} \ {None} /\ (secret => answer' = answer)
        BY <2>2 DEF IInv, SelectionHolds, PeerWasCurrent, AtEngine, AtEnd
    <2>4. QED
        BY <2>1, <2>2, <2>3, EndStep
<1>8. CASE CloseConnection \/ DisposeEngine
    BY <1>8 DEF CloseConnection, DisposeEngine, IInv, SelectionHolds, PeerWasCurrent, Open,
        LiteralPasses, AnswersPass, network, policy, Steps, AtEngine, AtEnd
<1>9. CASE UNCHANGED vars
    BY <1>9 DEF vars, IInv, SelectionHolds, PeerWasCurrent, Open, LiteralPasses, AnswersPass,
        network, sockets, policy
<1>10. QED
    BY <1>1, <1>2, <1>3, <1>4, <1>5, <1>6, <1>7, <1>8, <1>9 DEF Next

\* ... and always.
LEMMA Invariance == Spec => []IInv
<1>1. IInv /\ [Next]_vars => IInv'
    BY InductiveStep
<1>2. QED
    BY InitialState, <1>1, PTL DEF Spec

-----------------------------------------------------------------------------
(* The results.                                                            *)

\* The diagnostics of a probe that has passed its first n checks.
Passes(n) == [i \in 1..n |-> Check(Kinds[i], "pass")]

Passed(step) ==
    IF step \in {"start", "dial", "peer"} THEN 0
    ELSE IF step \in {"secret", "authentication"} THEN 2
    ELSE IF step = "authorization" THEN 3
    ELSE IF step = "metadata_access" THEN 4 ELSE 5

\* Until the probe ends its diagnostics are those of the stages behind it; then its
\* result is what the constructor accepts, or there is none.
Diagnosed ==
    /\ pc \in Steps
    /\ pc \notin AtEnd => checks = Passes(Passed(pc)) /\ result = None
    /\ result \in {None, Raised} \/ PostInit(result)

\* The six kinds are distinct, and in their order.
LEMMA SixKinds ==
    /\ Kinds \in Seq(ToSet(Kinds)) /\ Len(Kinds) = 6 /\ DOMAIN Kinds = 1..6
    /\ \A i \in 1..6 : Kinds[i] \in ToSet(Kinds)
    /\ \A i, j \in 1..6 : Kinds[i] = Kinds[j] => i = j
BY DEF Kinds, ToSet

\* A function on 1..n is a sequence of length n.
LEMMA Sequences ==
    ASSUME NEW S, NEW n \in Nat, NEW f \in [1..n -> S]
    PROVE  f \in Seq(S) /\ Len(f) = n
BY SeqDef, LenProperties

\* r is s followed by t, sequences of lengths m and k.
Joined(r, s, t, m, k) ==
    /\ r \in Seq(CheckSet) /\ Len(r) = m + k
    /\ \A i \in 1..m : r[i] = s[i]
    /\ \A i \in 1..k : r[m + i] = t[i]

\* Concatenation joins its parts.
LEMMA Concatenation ==
    ASSUME NEW s \in Seq(CheckSet), NEW t \in Seq(CheckSet), NEW m \in Nat, NEW k \in Nat,
           Len(s) = m, Len(t) = k
    PROVE  Joined(s \o t, s, t, m, k)
<1> DEFINE r == s \o t
<1>1. /\ r \in Seq(CheckSet) /\ Len(r) = m + k
      /\ \A i \in 1..(m + k) : r[i] = IF i <= m THEN s[i] ELSE t[i - m]
    BY ConcatProperties
<1> HIDE DEF r
<1>2. \A i \in 1..m : r[i] = s[i]
    BY <1>1
<1>3. \A i \in 1..k : r[m + i] = t[i]
    <2>1. TAKE i \in 1..k
    <2>2. m + i \in 1..(m + k) /\ ~(m + i <= m) /\ (m + i) - m = i
        OBVIOUS
    <2>3. QED BY <1>1, <2>2
<1>4. Joined(r, s, t, m, k)
    BY <1>1, <1>2, <1>3 DEF Joined
<1>5. QED BY <1>4 DEF r

\* n passes are a sequence of n diagnostics.
LEMMA PassesIsSeq ==
    ASSUME NEW n \in 0..6
    PROVE  Passes(n) \in Seq(CheckSet) /\ Len(Passes(n)) = n
<1>1. Passes(n) \in [1..n -> CheckSet]
    BY SixKinds DEF Passes, CheckSet, Check
<1>2. QED
    BY <1>1, Sequences

\* Passing one more stage, or two.
LEMMA PassMore ==
    ASSUME NEW n \in 0..6, NEW k \in 1..2, n + k \in 0..6, NEW t \in [1..k -> CheckSet],
           \A i \in 1..k : t[i] = Check(Kinds[n + i], "pass")
    PROVE  Passes(n) \o t = Passes(n + k)
<1> DEFINE p == Passes(n)
           r == p \o t
           q == Passes(n + k)
<1>1. t \in Seq(CheckSet) /\ Len(t) = k
    BY Sequences
<1>2. p \in Seq(CheckSet) /\ Len(p) = n /\ q \in Seq(CheckSet) /\ Len(q) = n + k
    BY PassesIsSeq
<1>3. /\ \A i \in 1..n : p[i] = Check(Kinds[i], "pass")
      /\ \A i \in 1..(n + k) : q[i] = Check(Kinds[i], "pass")
    BY DEF Passes
<1> HIDE DEF p, q
<1>4. n \in Nat /\ k \in Nat
    OBVIOUS
<1>5. Joined(r, p, t, n, k)
    BY <1>1, <1>2, <1>4, Concatenation, Zenon
<1> HIDE DEF r
<1>6. ASSUME NEW i \in 1..(n + k)
      PROVE  r[i] = q[i]
    <2>1. CASE i <= n
        BY <2>1, <1>3, <1>5 DEF Joined
    <2>2. CASE i > n
        <3>1. PICK j \in 1..k : n + j = i
            <4>1. i - n \in 1..k /\ n + (i - n) = i
                BY <2>2
            <4>2. QED BY <4>1
        <3>2. r[n + j] = t[j]
            BY <1>5 DEF Joined
        <3>3. QED BY <3>1, <3>2, <1>3
    <2>3. QED BY <2>1, <2>2
<1>7. r = q
    BY <1>2, <1>5, <1>6, SeqEqual DEF Joined
<1>8. QED
    BY <1>7 DEF r, p, q

\* The diagnostics of a probe that fails after its first n checks: _skipped fills in
\* what is missing, and no more.
LEMMA FailedChecks ==
    ASSUME NEW n \in 0..5
    PROVE  LET c == Passes(n) \o <<Check(Kinds[n + 1], "fail")>> \o Skipped(Kinds[n + 1])
           IN  /\ DOMAIN c = 1..6
               /\ \A i \in 1..6 : c[i] = Check(Kinds[i], IF i <= n THEN "pass"
                                                         ELSE IF i = n + 1 THEN "fail" ELSE "skipped")
<1> DEFINE p == Passes(n)
           f == <<Check(Kinds[n + 1], "fail")>>
           k == Skipped(Kinds[n + 1])
           m == 5 - n
<1>1. p \in Seq(CheckSet) /\ Len(p) = n /\ \A i \in 1..n : p[i] = Check(Kinds[i], "pass")
    BY PassesIsSeq DEF Passes
<1>2. f \in Seq(CheckSet) /\ Len(f) = 1 /\ f[1] = Check(Kinds[n + 1], "fail")
    <2>1. Check(Kinds[n + 1], "fail") \in CheckSet
        BY SixKinds DEF Check, CheckSet
    <2>2. QED BY <2>1
<1>3. k = [i \in 1..m |-> Check(Kinds[n + 1 + i], "skipped")]
    <2>1. (CHOOSE i \in DOMAIN Kinds : Kinds[i] = Kinds[n + 1]) = n + 1
        BY SixKinds
    <2>2. QED BY <2>1, SixKinds DEF Skipped
<1>4. k \in Seq(CheckSet) /\ Len(k) = m /\ \A i \in 1..m : k[i] = Check(Kinds[n + 1 + i], "skipped")
    <2>1. \A i \in 1..m : Check(Kinds[n + 1 + i], "skipped") \in CheckSet
        BY SixKinds DEF Check, CheckSet
    <2>2. k \in [1..m -> CheckSet]
        BY <1>3, <2>1
    <2>3. k \in Seq(CheckSet) /\ Len(k) = m
        BY <2>2, Sequences
    <2>4. QED BY <1>3, <2>3
<1> HIDE DEF p, f, k
<1> DEFINE q == p \o f
           r == q \o k
<1>5. n \in Nat /\ 1 \in Nat /\ n + 1 \in Nat /\ m \in Nat /\ n + 1 + m = 6
    OBVIOUS
<1> HIDE DEF m
<1>6. Joined(q, p, f, n, 1)
    BY <1>1, <1>2, <1>5, Concatenation, Zenon
<1> HIDE DEF q
<1>7. q \in Seq(CheckSet) /\ Len(q) = n + 1
    BY <1>6 DEF Joined
<1>8. Joined(r, q, k, n + 1, m)
    BY <1>4, <1>5, <1>7, Concatenation, Zenon
<1> HIDE DEF r
<1>9. ASSUME NEW i \in 1..6
      PROVE  r[i] = Check(Kinds[i], IF i <= n THEN "pass"
                                    ELSE IF i = n + 1 THEN "fail" ELSE "skipped")
    <2>1. CASE i <= n
        <3>1. i \in 1..n /\ i \in 1..(n + 1)
            BY <2>1
        <3>2. r[i] = q[i] /\ q[i] = p[i]
            BY <3>1, <1>6, <1>8 DEF Joined
        <3>3. r[i] = Check(Kinds[i], "pass")
            BY <3>1, <3>2, <1>1
        <3>4. QED BY <2>1, <3>3, Zenon
    <2>2. CASE i = n + 1
        <3>1. 1 \in 1..1 /\ i \in 1..(n + 1) /\ ~(i <= n)
            BY <2>2
        <3>2. r[i] = q[i] /\ q[n + 1] = f[1]
            BY <3>1, <1>6, <1>8 DEF Joined
        <3>3. r[i] = Check(Kinds[i], "fail")
            BY <2>2, <3>2, <1>2
        <3>4. QED BY <2>2, <3>1, <3>3, Zenon
    <2>3. CASE i > n + 1
        <3>1. PICK j \in 1..m : n + 1 + j = i
            <4>1. i - (n + 1) \in 1..m /\ n + 1 + (i - (n + 1)) = i
                BY <2>3, <1>5
            <4>2. QED BY <4>1
        <3>2. r[n + 1 + j] = k[j] /\ k[j] = Check(Kinds[n + 1 + j], "skipped")
            BY <1>4, <1>8 DEF Joined
        <3>3. r[i] = Check(Kinds[i], "skipped")
            BY <3>1, <3>2
        <3>4. ~(i <= n) /\ ~(i = n + 1)
            BY <2>3
        <3>5. QED BY <3>3, <3>4, Zenon
    <2>4. QED BY <2>1, <2>2, <2>3
<1>10. DOMAIN r = 1..6
    BY <1>5, <1>8, LenProperties DEF Joined
<1>11. QED
    BY <1>9, <1>10 DEF r, q, p, f, k

\* Such a failure is a result __post_init__ accepts.
LEMMA FailedResult ==
    ASSUME NEW n \in 0..5, checks = Passes(n), FailAt(Kinds[n + 1])
    PROVE  PostInit(result')
<1> DEFINE c == Passes(n) \o <<Check(Kinds[n + 1], "fail")>> \o Skipped(Kinds[n + 1])
<1>1. result' = [success |-> FALSE, checks |-> c]
    BY DEF FailAt, Leave
<1>2. /\ DOMAIN c = 1..6
      /\ \A i \in 1..6 : c[i] = Check(Kinds[i], IF i <= n THEN "pass"
                                                ELSE IF i = n + 1 THEN "fail" ELSE "skipped")
    BY FailedChecks
<1> HIDE DEF c
<1>3. [i \in DOMAIN c |-> c[i].type] = Kinds
    <2>1. \A i \in 1..6 : c[i].type = Kinds[i]
        BY <1>2 DEF Check
    <2>2. Kinds = [i \in 1..6 |-> Kinds[i]]
        BY SixKinds DEF Kinds
    <2>3. QED BY <1>2, <2>1, <2>2
<1>4. \A i \in 1..6 : c[i].status = IF i <= n THEN "pass" ELSE IF i = n + 1 THEN "fail" ELSE "skipped"
    BY <1>2 DEF Check
<1>5. {i \in DOMAIN c : c[i].status = "fail"} = {n + 1}
    BY <1>2, <1>4
<1>6. \A i \in DOMAIN c : /\ i < n + 1 => c[i].status = "pass"
                          /\ i > n + 1 => c[i].status = "skipped"
    BY <1>2, <1>4
<1>7. QED
    BY <1>1, <1>3, <1>5, <1>6 DEF PostInit

\* So is the result of a probe that passed all its checks.
LEMMA PassedResult == PostInit([success |-> TRUE, checks |-> Passes(6)])
<1>1. DOMAIN Passes(6) = 1..6 /\ \A i \in 1..6 : Passes(6)[i] = Check(Kinds[i], "pass")
    BY DEF Passes
<1>2. [i \in DOMAIN Passes(6) |-> Passes(6)[i].type] = Kinds
    <2>1. \A i \in 1..6 : Passes(6)[i].type = Kinds[i]
        BY <1>1 DEF Check
    <2>2. Kinds = [i \in 1..6 |-> Kinds[i]]
        BY SixKinds DEF Kinds
    <2>3. QED BY <1>1, <2>1, <2>2
<1>3. \A i \in DOMAIN Passes(6) : Passes(6)[i].status = "pass"
    BY <1>1 DEF Check
<1>4. QED
    BY <1>2, <1>3 DEF PostInit

\* Passing the next stages, in the order of Kinds.
LEMMA PassStep ==
    ASSUME NEW n \in 0..6, NEW k \in 1..2, n + k \in 0..6, checks = Passes(n),
           NEW kinds, DOMAIN kinds = 1..k, \A i \in 1..k : kinds[i] = Kinds[n + i],
           NEW step, PassTo(kinds, step)
    PROVE  checks' = Passes(n + k) /\ pc' = step /\ result' = result
<1> DEFINE t == [i \in DOMAIN kinds |-> Check(kinds[i], "pass")]
<1>1. \A i \in 1..k : n + i \in 1..6 /\ t[i] = Check(Kinds[n + i], "pass")
    OBVIOUS
<1>2. t \in [1..k -> CheckSet]
    <2>1. \A i \in 1..k : t[i] \in CheckSet
        BY <1>1, SixKinds DEF Check, CheckSet
    <2>2. QED BY <2>1
<1>3. checks' = Passes(n) \o t /\ pc' = step /\ result' = result
    BY DEF PassTo
<1> HIDE DEF t
<1>4. QED
    BY <1>1, <1>2, <1>3, PassMore, Zenon

\* A failed stage, after the ones that passed.
LEMMA FailStep ==
    ASSUME NEW n \in 0..5, NEW kind, kind = Kinds[n + 1], Open, checks = Passes(n), FailAt(kind)
    PROVE  Diagnosed'
<1>1. PostInit(result')
    BY FailedResult
<1>2. pc' \in AtEnd
    BY LeaveStep DEF FailAt
<1>3. QED
    BY <1>1, <1>2 DEF Diagnosed, PostInit, AtEnd, Steps

\* An exception.
LEMMA RaiseStep ==
    ASSUME Open, Leave(Raised)
    PROVE  Diagnosed'
<1>1. pc' \in AtEnd
    BY LeaveStep
<1>2. QED
    BY <1>1 DEF Diagnosed, Leave, AtEnd, Steps

\* A probe that has not begun has no diagnostics.
LEMMA DiagnosedInit == Init => Diagnosed
<1>1. Passes(0) = <<>>
    BY PassesIsSeq, EmptySeq
<1>2. QED
    BY <1>1 DEF Init, Diagnosed, Passed, Steps, AtEnd

\* Every stage appends its own diagnostics, and a failure those of the rest.
LEMMA DiagnosedStep ==
    ASSUME IInv, Diagnosed, [Next]_vars
    PROVE  Diagnosed'
<1>1. Open
    BY DEF IInv
<1>2. /\ Kinds[0 + 1] = "network" /\ Kinds[0 + 2] = "tls" /\ Kinds[2 + 1] = "authentication"
      /\ Kinds[3 + 1] = "authorization" /\ Kinds[4 + 1] = "metadata_access" /\ Kinds[5 + 1] = "latency"
    BY DEF Kinds
<1>3. /\ pc \in {"start", "dial", "peer"} => checks = Passes(0) /\ result = None
      /\ pc \in {"secret", "authentication"} => checks = Passes(2) /\ result = None
      /\ pc = "authorization" => checks = Passes(3) /\ result = None
      /\ pc = "metadata_access" => checks = Passes(4) /\ result = None
      /\ pc = "latency" => checks = Passes(5) /\ result = None
    BY DEF Diagnosed, Passed, AtEnd
<1>4. ASSUME pc \in {"start", "dial", "peer"}, FailAt("network")
      PROVE  Diagnosed'
    <2>1. checks = Passes(0) /\ 0 \in 0..5
        BY <1>3, <1>4
    <2>2. QED BY <1>1, <1>2, <1>4, <2>1, FailStep
<1>5. ASSUME pc \in {"secret", "authentication"}, FailAt("authentication")
      PROVE  Diagnosed'
    <2>1. checks = Passes(2) /\ 2 \in 0..5
        BY <1>3, <1>5
    <2>2. QED BY <1>1, <1>2, <1>5, <2>1, FailStep
<1>6. CASE Validate
    <2>1. CASE selected' = None
        BY <1>4, <1>6, <2>1 DEF Validate
    <2>2. CASE selected' # None
        BY <1>3, <1>6, <2>2 DEF Validate, Diagnosed, Passed, Steps, AtEnd
    <2>3. QED BY <2>1, <2>2
<1>7. CASE Dial
    BY <1>3, <1>7 DEF Dial, Diagnosed, Passed, Steps, AtEnd
<1>8. CASE DialFails
    BY <1>4, <1>8 DEF DialFails
<1>9. CASE Revalidate
    <2>1. CASE FailAt("network")
        BY <1>4, <1>9, <2>1 DEF Revalidate
    <2>2. CASE PassTo(<<"network", "tls">>, "secret")
        <3>1. /\ checks = Passes(0) /\ result = None /\ 0 \in 0..6 /\ 2 \in 1..2 /\ 0 + 2 \in 0..6
              /\ 0 + 2 = 2
            BY <1>3, <1>9 DEF Revalidate
        <3>2. /\ DOMAIN <<"network", "tls">> = 1..2
              /\ \A i \in 1..2 : <<"network", "tls">>[i] = Kinds[0 + i]
            BY <1>2
        <3>3. checks' = Passes(0 + 2) /\ pc' = "secret" /\ result' = result
            BY <2>2, <3>1, <3>2, PassStep
        <3>4. QED
            BY <3>1, <3>3 DEF Diagnosed, Passed, Steps, AtEnd
    <2>3. QED
        BY <1>9, <2>1, <2>2 DEF Revalidate
<1>10. CASE CloseFails
    BY <1>1, <1>4, <1>10, RaiseStep DEF CloseFails
<1>11. CASE ReadSecret
    BY <1>3, <1>11 DEF ReadSecret, Diagnosed, Passed, Steps, AtEnd, AtEngine
<1>12. CASE SecretUnavailable \/ AuthenticateFails
    BY <1>5, <1>12 DEF SecretUnavailable, AuthenticateFails
<1>13. ASSUME NEW n \in 2..4, NEW kind, kind = Kinds[n + 1], checks = Passes(n), result = None,
              NEW step, step \in {"authorization", "metadata_access", "latency"},
              Passed(step) = n + 1, PassTo(<<kind>>, step)
       PROVE  Diagnosed'
    <2>1. n \in 0..6 /\ 1 \in 1..2 /\ n + 1 \in 0..6
        BY <1>13
    <2>2. DOMAIN <<kind>> = 1..1 /\ \A i \in 1..1 : <<kind>>[i] = Kinds[n + i]
        BY <1>13
    <2>3. checks' = Passes(n + 1) /\ pc' = step /\ result' = result
        BY <1>13, <2>1, <2>2, PassStep
    <2>4. QED
        BY <1>13, <2>3 DEF Diagnosed, Steps, AtEnd, AtEngine
<1>14. CASE Authenticate
    <2>1. Passed("authorization") = 2 + 1 /\ 2 \in 2..4
        BY DEF Passed
    <2>2. QED
        BY <1>2, <1>3, <1>13, <1>14, <2>1 DEF Authenticate
<1>15. CASE Authorize
    <2>1. Passed("metadata_access") = 3 + 1 /\ 3 \in 2..4
        BY DEF Passed
    <2>2. QED
        BY <1>2, <1>3, <1>13, <1>15, <2>1 DEF Authorize
<1>16. CASE ReadMetadata
    <2>1. Passed("latency") = 4 + 1 /\ 4 \in 2..4
        BY DEF Passed
    <2>2. QED
        BY <1>2, <1>3, <1>13, <1>16, <2>1 DEF ReadMetadata
<1>17. CASE StatementFails
    <2>1. CASE pc = "authorization"
        <3>1. checks = Passes(3) /\ 3 \in 0..5
            BY <1>3, <2>1
        <3>2. QED BY <1>1, <1>2, <1>17, <2>1, <3>1, FailStep DEF StatementFails
    <2>2. CASE pc = "metadata_access"
        <3>1. checks = Passes(4) /\ 4 \in 0..5
            BY <1>3, <2>2
        <3>2. QED BY <1>1, <1>2, <1>17, <2>2, <3>1, FailStep DEF StatementFails
    <2>3. CASE pc = "latency"
        <3>1. checks = Passes(5) /\ 5 \in 0..5
            BY <1>3, <2>3
        <3>2. QED BY <1>1, <1>2, <1>17, <2>3, <3>1, FailStep DEF StatementFails
    <2>4. QED BY <1>17, <2>1, <2>2, <2>3 DEF StatementFails
<1>18. CASE MeasureLatency
    <2> DEFINE t == <<Check("latency", "pass")>>
    <2>1. checks = Passes(5) /\ 5 \in 0..6 /\ 1 \in 1..2 /\ 5 + 1 \in 0..6 /\ 5 + 1 = 6
        BY <1>3, <1>18 DEF MeasureLatency
    <2>2. checks \in Seq(CheckSet) /\ Check("latency", "pass") \in CheckSet
        BY <1>2, <2>1, PassesIsSeq, SixKinds DEF Check, CheckSet
    <2>3. t \in [1..1 -> CheckSet] /\ \A i \in 1..1 : t[i] = Check(Kinds[5 + i], "pass")
        BY <1>2, <2>2
    <2>4. checks' = checks \o t
        BY <1>18, <2>2, AppendIsConcat DEF MeasureLatency
    <2>5. checks' = Passes(6)
        <3> HIDE DEF t
        <3>1. Passes(5) \o t = Passes(5 + 1)
            BY <2>1, <2>3, PassMore, Zenon
        <3>2. QED BY <2>1, <2>4, <3>1
    <2>6. Leave([success |-> TRUE, checks |-> Passes(6)])
        BY <1>18, <2>5 DEF MeasureLatency
    <2>7. pc' \in AtEnd
        BY <1>1, <2>6, LeaveStep
    <2>8. PostInit(result')
        BY <2>6, PassedResult DEF Leave
    <2>9. QED
        BY <2>7, <2>8 DEF Diagnosed, PostInit, AtEnd, Steps
<1>19. CASE Raises
    BY <1>1, <1>19, RaiseStep DEF Raises
<1>20. CASE CloseConnection \/ DisposeEngine
    BY <1>20 DEF CloseConnection, DisposeEngine, Diagnosed, PostInit, Steps, AtEnd
<1>21. CASE UNCHANGED vars
    BY <1>21 DEF vars, Diagnosed, PostInit, Steps, AtEnd, AtEngine, Passed
<1>22. QED
    BY <1>6, <1>7, <1>8, <1>9, <1>10, <1>11, <1>12, <1>14, <1>15, <1>16, <1>17, <1>18, <1>19,
        <1>20, <1>21 DEF Next

-----------------------------------------------------------------------------
(* Theorems.                                                               *)

\* Only permitted addresses are dialled, for every policy and every DNS.
THEOREM DialsPermitted == Spec => []DialsOnlyPermitted
<1>1. IInv => DialsOnlyPermitted
    BY DEF IInv, SelectionHolds, DialsOnlyPermitted
<1>2. QED
    BY Invariance, <1>1, PTL

\* No more than one address is dialled.
THEOREM DialsOne == Spec => []OneAddressDialled
<1>1. ASSUME IInv
      PROVE  OneAddressDialled
    <2>1. IsFiniteSet({selected}) /\ Cardinality({selected}) = 1
        BY FS_Singleton
    <2>2. dialled \in SUBSET {selected}
        BY <1>1 DEF IInv, SelectionHolds
    <2>3. QED
        BY <2>1, <2>2, FS_Subset DEF OneAddressDialled
<1>2. QED
    BY Invariance, <1>1, PTL

\* The password is read only for a peer of the last answer, which passed.
THEOREM SecretGuarded == Spec => []SecretNeedsCurrentPeer
<1>1. IInv => SecretNeedsCurrentPeer
    BY DEF IInv, PeerWasCurrent, SecretNeedsCurrentPeer
<1>2. QED
    BY Invariance, <1>1, PTL

\* Whatever stage fails, the result is one the constructor accepts.
THEOREM ResultsWellFormed == Spec => []ResultsAreWellFormed
<1>1. IInv /\ Diagnosed /\ [Next]_vars => Diagnosed'
    BY DiagnosedStep
<1>2. Diagnosed => ResultsAreWellFormed
    BY DEF Diagnosed, ResultsAreWellFormed
<1>3. QED
    BY Invariance, DiagnosedInit, <1>1, <1>2, PTL DEF Spec

\* Whatever stage fails, everything is closed at the end.
THEOREM EverythingClosed == Spec => []NothingLeftOpen
<1>1. IInv => NothingLeftOpen
    BY DEF IInv, Open, AtEngine, NothingLeftOpen
<1>2. QED
    BY Invariance, <1>1, PTL

=============================================================================

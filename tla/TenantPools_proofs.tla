-------------------------- MODULE TenantPools_proofs --------------------------
(***************************************************************************)
(* Theorems about TenantPools: the bound on the pools, engines that are not  *)
(* lost, evictions that leave nothing warm behind, and tenants that are gone *)
(* and get no pool again.  They hold for any callers, tenants and engines.   *)
(***************************************************************************)
EXTENDS TenantPools, FiniteSetTheorems, SequenceTheorems, TLAPS

-----------------------------------------------------------------------------
(* The inductive invariant.                                                *)

Tracked == ToSet(entries)

\* The connections of an engine that go back to its pool.
InUse(e) == {c \in Callers : held[c] = e /\ fresh[c]}

Steps == {"idle", "want", "sweep", "swept", "room", "made", "read", "have", "session"}

\* One coroutine at a time is inside sessions_for, and knows what it was asked.
Control ==
    /\ pc \in [Callers -> Steps] /\ cred \in [Callers -> Credentials \cup {None}]
    /\ lock = {c \in Callers : pc[c] \in Inside}
    /\ \A c, d \in Callers : pc[c] \in Inside /\ pc[d] \in Inside => c = d
    /\ \A c \in Callers : pc[c] \in Inside \cup {"want"} => cred[c] \in Credentials

\* A coroutine has a factory, or also a connection, when it is at that step.
Hands ==
    /\ held \in [Callers -> Engines \cup {None}] /\ fresh \in [Callers -> BOOLEAN]
    /\ \A c \in Callers :
        /\ held[c] # None <=> pc[c] \in {"have", "session"}
        /\ fresh[c] => pc[c] = "session"

\* What is tracked is open, and one tenant's own.
TrackedIsOpen ==
    \A e \in Tracked :
        engine[e].state = "open" /\ engine[e].tenant \in Tenants /\ engine[e].password > 0

OnePool == \A e, f \in Tracked : engine[e].tenant = engine[f].tenant => e = f

\* What a coroutine found about the entries stays true until it leaves.
Vacant ==
    \A c \in Callers : pc[c] \in {"room", "made", "read"} => Pools(cred[c].tenant) = {}

Roomy ==
    /\ Len(entries) <= MaxTenants
    /\ \A c \in Callers : pc[c] = "read" => Len(entries) < MaxTenants

\* A factory in somebody's hands is that of an engine in use.
HeldIsUsed == \A c \in Callers : held[c] # None => engine[held[c]].state # "free"

\* A popped engine is in the hands of one coroutine, still open, until disposed of.
VictimsAreOpen ==
    /\ victims \in [Actors -> SUBSET Engines]
    /\ \A a \in Actors : \A e \in victims[a] : engine[e].state = "open" /\ e \notin Tracked
    /\ \A a, b \in Actors : a # b => victims[a] \cap victims[b] = {}

VictimsAreInHand ==
    /\ \A c \in Callers :
        /\ victims[c] # {} => pc[c] \in {"swept", "made"}
        /\ \A e, f \in victims[c] : e = f
    /\ victims[Operator] # {} => op \in {"dispose", "stopped"}

\* An engine has no more connections than there are coroutines.
ConnectionsAreFew ==
    \A e \in Engines : engine[e].idle + Cardinality(InUse(e)) <= Cardinality(Callers)

\* The role's password is the last one given out, or the one about to be.
Books ==
    /\ role \in [Tenants -> 0..MaxVersions] /\ stored \in [Tenants -> SUBSET (1..MaxVersions)]
    /\ given \in [Tenants -> 1..MaxVersions] /\ evicted \in [Tenants -> 0..(MaxVersions + 1)]
    /\ gone \subseteq Tenants /\ faults \in 0..MaxFaults
    /\ op \in {"idle", "altered", "evict", "dispose", "dropped", "stopped"}
    /\ target \in Tenants \cup {None}
    /\ \A t \in Tenants :
        /\ role[t] \in {0, given[t], given[t] + 1}
        /\ evicted[t] <= given[t] + 1
        /\ role[t] # 0 => evicted[t] <= given[t]
    /\ op \in {"altered", "evict", "dispose", "dropped"} => target \in Tenants
    /\ op = "altered" => role[target] = given[target] + 1
    /\ op = "dropped" => role[target] = 0

\* A tracked engine that has, or will get back, an authenticated connection.
Warm(e) == engine[e].idle > 0 \/ InUse(e) # {}

Current(e) ==
    /\ engine[e].password >= evicted[engine[e].tenant]
    /\ op = "dispose" /\ engine[e].tenant = target => engine[e].password >= Oldest(target)

WarmIsCurrent == \A e \in Tracked : Warm(e) => Current(e)

\* The tenant's role and secret are gone, and nobody is about to open a pool of it.
Closed(t) ==
    /\ role[t] = 0 /\ stored[t] = {} /\ Pools(t) = {}
    /\ \A c \in Callers : pc[c] = "read" => cred[c].tenant # t

GoneIsClosed ==
    /\ \A t \in gone : Closed(t)
    /\ op = "dispose" /\ role[target] = 0 /\ stored[target] = {} => Closed(target)

IInv ==
    /\ TypeOK /\ Control /\ Hands /\ Books
    /\ TrackedIsOpen /\ OnePool /\ Vacant /\ Roomy
    /\ HeldIsUsed /\ VictimsAreOpen /\ VictimsAreInHand /\ NoEngineLeaks /\ ConnectionsAreFew
    /\ WarmIsCurrent /\ GoneIsClosed

-----------------------------------------------------------------------------
(* Sequences without repetitions.                                          *)

\* What a sequence holds.
LEMMA Members ==
    ASSUME NEW S, NEW s \in Seq(S)
    PROVE  /\ Len(s) \in Nat /\ DOMAIN s = 1..Len(s)
           /\ ToSet(s) = {s[i] : i \in 1..Len(s)} /\ ToSet(s) \subseteq S
<1>1. Len(s) \in Nat /\ DOMAIN s = 1..Len(s) /\ \A i \in 1..Len(s) : s[i] \in S
    BY LenProperties, ElementOfSeq
<1>2. QED
    BY <1>1 DEF ToSet

\* r is s without its i-th element.
Closes(r, s, i) ==
    /\ i \in 1..Len(s) /\ Len(r) = Len(s) - 1
    /\ \A j \in 1..(i - 1) : r[j] = s[j]
    /\ \A j \in i..(Len(s) - 1) : r[j] = s[j + 1]

\* It holds what s held but that element.
LEMMA OneLess ==
    ASSUME NEW S, NEW s \in Seq(S), NEW r \in Seq(S), NEW i, Closes(r, s, i), IsInjective(s)
    PROVE  IsInjective(r) /\ ToSet(r) = ToSet(s) \ {s[i]} /\ s[i] \in ToSet(s)
<1>1. /\ Len(s) \in Nat /\ DOMAIN s = 1..Len(s) /\ ToSet(s) = {s[j] : j \in 1..Len(s)}
      /\ DOMAIN r = 1..(Len(s) - 1) /\ ToSet(r) = {r[j] : j \in 1..(Len(s) - 1)}
    BY Members DEF Closes
<1>2. /\ i \in 1..Len(s)
      /\ \A j \in 1..(i - 1) : r[j] = s[j]
      /\ \A j \in i..(Len(s) - 1) : r[j] = s[j + 1]
    BY DEF Closes
<1>3. \A j, k \in 1..Len(s) : s[j] = s[k] => j = k
    BY <1>1 DEF IsInjective
<1>4. ASSUME NEW j \in 1..(Len(s) - 1), NEW k \in 1..(Len(s) - 1), r[j] = r[k]
      PROVE  j = k
    <2>1. CASE j < i /\ k < i
        BY <1>1, <1>2, <1>3, <1>4, <2>1
    <2>2. CASE j < i /\ ~(k < i)
        <3>1. r[j] = s[j] /\ r[k] = s[k + 1] /\ j # k + 1 /\ k + 1 \in 1..Len(s) /\ j \in 1..Len(s)
            BY <1>1, <1>2, <2>2
        <3>2. QED BY <1>3, <1>4, <3>1
    <2>3. CASE ~(j < i) /\ k < i
        <3>1. r[k] = s[k] /\ r[j] = s[j + 1] /\ k # j + 1 /\ j + 1 \in 1..Len(s) /\ k \in 1..Len(s)
            BY <1>1, <1>2, <2>3
        <3>2. QED BY <1>3, <1>4, <3>1
    <2>4. CASE ~(j < i) /\ ~(k < i)
        <3>1. r[k] = s[k + 1] /\ r[j] = s[j + 1] /\ k + 1 \in 1..Len(s) /\ j + 1 \in 1..Len(s)
            BY <1>1, <1>2, <2>4
        <3>2. j + 1 = k + 1
            BY <1>3, <1>4, <3>1
        <3>3. QED BY <1>1, <3>2
    <2>5. QED BY <1>1, <1>2, <2>1, <2>2, <2>3, <2>4
<1>5. IsInjective(r)
    BY <1>1, <1>4 DEF IsInjective
<1>6. ASSUME NEW j \in 1..(Len(s) - 1)
      PROVE  r[j] \in ToSet(s) \ {s[i]}
    <2>1. CASE j < i
        <3>1. r[j] = s[j] /\ j # i /\ j \in 1..Len(s)
            BY <1>1, <1>2, <2>1
        <3>2. QED BY <1>1, <1>2, <1>3, <3>1
    <2>2. CASE ~(j < i)
        <3>1. r[j] = s[j + 1] /\ j + 1 # i /\ j + 1 \in 1..Len(s)
            BY <1>1, <1>2, <2>2
        <3>2. QED BY <1>1, <1>2, <1>3, <3>1
    <2>3. QED BY <2>1, <2>2
<1>7. ASSUME NEW j \in 1..Len(s), s[j] # s[i]
      PROVE  s[j] \in ToSet(r)
    <2>1. CASE j < i
        <3>1. r[j] = s[j] /\ j \in 1..(Len(s) - 1)
            BY <1>1, <1>2, <2>1
        <3>2. QED BY <1>1, <3>1
    <2>2. CASE ~(j < i)
        <3>1. j > i /\ j - 1 \in i..(Len(s) - 1) /\ j - 1 \in 1..(Len(s) - 1) /\ (j - 1) + 1 = j
            BY <1>1, <1>2, <1>7, <2>2
        <3>2. r[j - 1] = s[j]
            BY <1>2, <3>1
        <3>3. QED BY <1>1, <3>1, <3>2
    <2>3. QED BY <2>1, <2>2
<1>8. ASSUME NEW x \in ToSet(s) \ {s[i]}
      PROVE  x \in ToSet(r)
    <2>1. PICK j \in 1..Len(s) : x = s[j]
        BY <1>1
    <2>2. QED BY <1>7, <1>8, <2>1
<1>9. \A x \in ToSet(r) : x \in ToSet(s) \ {s[i]}
    BY <1>1, <1>6
<1>10. s[i] \in ToSet(s)
    BY <1>1, <1>2
<1>11. QED
    BY <1>5, <1>8, <1>9, <1>10

\* The tail is the sequence without its first element.
LEMMA TailCloses ==
    ASSUME NEW S, NEW s \in Seq(S), s # <<>>
    PROVE  Tail(s) \in Seq(S) /\ Closes(Tail(s), s, 1) /\ Head(s) = s[1] /\ Len(s) > 0
<1>1. Len(s) \in Nat /\ Len(s) # 0
    BY LenProperties, EmptySeq
<1>2. /\ Tail(s) \in Seq(S) /\ Len(Tail(s)) = Len(s) - 1
      /\ \A i \in 1..Len(Tail(s)) : Tail(s)[i] = s[i + 1]
    BY HeadTailProperties
<1>3. QED
    BY <1>1, <1>2 DEF Closes

\* RemoveAt removes the element it is told to.
LEMMA RemoveCloses ==
    ASSUME NEW S, NEW s \in Seq(S), NEW i \in 1..Len(s)
    PROVE  RemoveAt(s, i) \in Seq(S) /\ Closes(RemoveAt(s, i), s, i)
<1> DEFINE a == SubSeq(s, 1, i - 1)
           b == SubSeq(s, i + 1, Len(s))
           r == RemoveAt(s, i)
<1>1. Len(s) \in Nat /\ i \in Nat /\ i - 1 \in Nat /\ \A j \in 1..Len(s) : s[j] \in S
    BY LenProperties, ElementOfSeq
<1>2. /\ a \in Seq(S) /\ Len(a) = i - 1
      /\ \A j \in 1..(i - 1) : a[j] = s[j]
    <2>1. \A j \in 1..(i - 1) : s[j] \in S
        BY <1>1
    <2>2. /\ a \in Seq(S) /\ Len(a) = IF 1 <= i - 1 THEN (i - 1) - 1 + 1 ELSE 0
          /\ \A j \in 1..((i - 1) - 1 + 1) : a[j] = s[1 + j - 1]
        BY <1>1, <2>1, SubSeqProperties
    <2>3. (IF 1 <= i - 1 THEN (i - 1) - 1 + 1 ELSE 0) = i - 1 /\ (i - 1) - 1 + 1 = i - 1
        BY <1>1
    <2>4. \A j \in 1..(i - 1) : 1 + j - 1 = j
        BY <1>1
    <2>5. QED BY <2>2, <2>3, <2>4
<1>3. /\ b \in Seq(S) /\ Len(b) = Len(s) - i
      /\ \A j \in 1..(Len(s) - i) : b[j] = s[j + i]
    <2>1. \A j \in (i + 1)..Len(s) : s[j] \in S
        BY <1>1
    <2>2. /\ b \in Seq(S) /\ Len(b) = IF i + 1 <= Len(s) THEN Len(s) - (i + 1) + 1 ELSE 0
          /\ \A j \in 1..(Len(s) - (i + 1) + 1) : b[j] = s[i + 1 + j - 1]
        BY <1>1, <2>1, SubSeqProperties
    <2>3. /\ (IF i + 1 <= Len(s) THEN Len(s) - (i + 1) + 1 ELSE 0) = Len(s) - i
          /\ Len(s) - (i + 1) + 1 = Len(s) - i
        BY <1>1
    <2>4. \A j \in 1..(Len(s) - i) : i + 1 + j - 1 = j + i
        BY <1>1
    <2>5. QED BY <2>2, <2>3, <2>4
<1>4. r = a \o b
    BY DEF RemoveAt
<1> HIDE DEF a, b, r
<1>5. /\ r \in Seq(S) /\ Len(r) = Len(a) + Len(b)
      /\ \A j \in 1..(Len(a) + Len(b)) : r[j] = IF j <= Len(a) THEN a[j] ELSE b[j - Len(a)]
    <2>1. a \in Seq(S) /\ b \in Seq(S)
        BY <1>2, <1>3
    <2>2. /\ a \o b \in Seq(S) /\ Len(a \o b) = Len(a) + Len(b)
          /\ \A j \in 1..(Len(a) + Len(b)) : (a \o b)[j] = IF j <= Len(a) THEN a[j] ELSE b[j - Len(a)]
        BY <2>1, ConcatProperties, Zenon
    <2>3. QED BY <1>4, <2>2
<1>6. Len(a) + Len(b) = Len(s) - 1
    BY <1>1, <1>2, <1>3
<1>7. ASSUME NEW j \in 1..(i - 1)
      PROVE  r[j] = s[j]
    <2>1. j \in 1..(Len(s) - 1) /\ j <= Len(a)
        BY <1>1, <1>2
    <2>2. QED BY <1>2, <1>5, <1>6, <2>1
<1>8. ASSUME NEW j \in i..(Len(s) - 1)
      PROVE  r[j] = s[j + 1]
    <2>1. /\ j \in 1..(Len(s) - 1) /\ ~(j <= Len(a)) /\ j - Len(a) \in 1..(Len(s) - i)
          /\ (j - Len(a)) + i = j + 1
        BY <1>1, <1>2
    <2>2. r[j] = b[j - Len(a)]
        BY <1>5, <1>6, <2>1
    <2>3. b[j - Len(a)] = s[(j - Len(a)) + i]
        BY <1>3, <2>1
    <2>4. QED BY <2>1, <2>2, <2>3
<1>9. QED
    BY <1>5, <1>6, <1>7, <1>8 DEF r, Closes

\* What is appended is held in addition, once.
LEMMA OneMore ==
    ASSUME NEW S, NEW s \in Seq(S), NEW e \in S, IsInjective(s), e \notin ToSet(s)
    PROVE  /\ Append(s, e) \in Seq(S) /\ IsInjective(Append(s, e))
           /\ ToSet(Append(s, e)) = ToSet(s) \cup {e} /\ Len(Append(s, e)) = Len(s) + 1
<1> DEFINE r == Append(s, e)
<1>1. /\ r \in Seq(S) /\ Len(r) = Len(s) + 1
      /\ \A i \in 1..Len(s) : r[i] = s[i]
      /\ r[Len(s) + 1] = e
    BY AppendProperties
<1> HIDE DEF r
<1>2. /\ Len(s) \in Nat /\ DOMAIN s = 1..Len(s) /\ ToSet(s) = {s[j] : j \in 1..Len(s)}
      /\ DOMAIN r = 1..(Len(s) + 1) /\ ToSet(r) = {r[j] : j \in 1..(Len(s) + 1)}
    BY <1>1, Members
<1>3. \A j, k \in 1..Len(s) : s[j] = s[k] => j = k
    BY <1>2 DEF IsInjective
<1>4. \A j \in 1..(Len(s) + 1) : j \in 1..Len(s) \/ j = Len(s) + 1
    BY <1>2
<1>5. ToSet(r) = ToSet(s) \cup {e}
    <2>1. Len(s) + 1 \in 1..(Len(s) + 1) /\ 1..Len(s) \subseteq 1..(Len(s) + 1)
        BY <1>2
    <2>2. QED BY <1>1, <1>2, <1>4, <2>1
<1>6. IsInjective(r)
    <2>1. ASSUME NEW j \in 1..(Len(s) + 1), NEW k \in 1..(Len(s) + 1), r[j] = r[k]
          PROVE  j = k
        <3>1. \A i \in 1..Len(s) : s[i] # e
            BY <1>2
        <3>2. QED BY <1>1, <1>3, <1>4, <2>1, <3>1
    <2>2. QED BY <1>2, <2>1 DEF IsInjective
<1>7. QED
    BY <1>1, <1>5, <1>6 DEF r

-----------------------------------------------------------------------------
(* The steps, by what they disturb.                                        *)

\* The lock is held by the one coroutine that is inside sessions_for.
LEMMA ControlStep ==
    ASSUME IInv, [Next]_vars
    PROVE  Control'
<1> USE ConstantsAssumption
<1>1. Control /\ \A c \in Callers : c \in lock <=> pc[c] \in Inside
    BY DEF IInv, Control
<1>2. ASSUME NEW c \in Callers, Call(c)
      PROVE  Control'
    <2>1. CASE Acquire(c)
        BY <1>1, <2>1 DEF Control, Acquire, Free, Goto, Inside, Steps
    <2>2. CASE SweepStale(c) \/ MakeRoom(c) \/ ReadSecret(c)
        BY <1>1, <2>2 DEF Control, SweepStale, MakeRoom, ReadSecret, Missing, Goto, Inside, Steps, registry
    <2>3. CASE SweptStale(c) \/ MadeRoom(c)
        BY <1>1, <2>3 DEF Control, SweptStale, MadeRoom, Goto, Inside, Steps, registry
    <2>4. ASSUME NEW step \in {"have", "idle"}, NEW e, Leave(c, step, e), pc[c] \in Inside
          PROVE  Control'
        BY <1>1, <2>4 DEF Control, Leave, Goto, Inside, Steps
    <2>5. CASE Find(c)
        BY <2>4, <2>5 DEF Find, Inside
    <2>6. CASE ReadFails(c) \/ Open(c)
        BY <2>4, <2>6 DEF ReadFails, Open, Missing, Inside
    <2>7. CASE Cancel(c)
        BY <1>1, <2>7 DEF Control, Cancel, Goto, Inside, Steps
    <2>8. CASE Connect(c) \/ ConnectFails(c) \/ Return(c)
        BY <1>1, <2>8 DEF Control, Connect, ConnectFails, Return, Goto, Inside, Steps, registry
    <2>9. QED
        BY <1>2, <2>1, <2>2, <2>3, <2>5, <2>6, <2>7, <2>8 DEF Call
<1>3. ASSUME NEW c \in Callers, NEW t \in Tenants, NEW v \in 1..MaxVersions, Ask(c, t, v)
      PROVE  Control'
    <2>1. [tenant |-> t, version |-> v] \in Credentials
        BY DEF Credentials
    <2>2. QED
        BY <1>1, <1>3, <2>1 DEF Control, Ask, Goto, Inside, Steps, registry
<1>4. CASE Operate
    <2>1. UNCHANGED <<lock, pc, cred>>
        BY <1>4 DEF Operate, Rotate, Deprovision, RotateStore, Forget, KeepSecret, ForgetFails, Evict, EvictDispose,
                    EvictEnds, Close, OperatorFails, registry, session
    <2>2. QED BY <1>1, <2>1 DEF Control
<1>5. CASE UNCHANGED vars
    BY <1>1, <1>5 DEF vars, registry, session, Control
<1>6. QED
    BY <1>2, <1>3, <1>4, <1>5 DEF Next

\* A coroutine has a factory from sessions_for until it is done with it.
LEMMA HandsStep ==
    ASSUME IInv, [Next]_vars
    PROVE  Hands'
<1> USE ConstantsAssumption
<1>1. Control /\ Hands
    BY DEF IInv
<1>2. ASSUME NEW c \in Callers, Call(c)
      PROVE  Hands'
    <2>1. CASE Acquire(c) \/ SweepStale(c) \/ MakeRoom(c) \/ ReadSecret(c)
        BY <1>1, <2>1 DEF Control, Hands, Acquire, SweepStale, MakeRoom, ReadSecret, Missing, Goto, Steps
    <2>2. ASSUME NEW a \in Actors, NEW e, Dispose(a, e), pc[c] \in Inside, held' = held,
                 NEW step \in Inside, Goto(c, step)
          PROVE  Hands'
        BY <1>1, <2>2 DEF Control, Hands, Dispose, Goto, Inside
    <2>3. CASE SweptStale(c) \/ MadeRoom(c)
        BY <2>2, <2>3 DEF SweptStale, MadeRoom, Actors, Inside
    <2>4. ASSUME NEW e \in Engines, Leave(c, "have", e), pc[c] \in Inside
          PROVE  Hands'
        BY <1>1, <2>4 DEF Control, Hands, Leave, Goto, Inside
    <2>5. CASE Find(c)
        <3>1. PICK e \in Pools(cred[c].tenant) : Leave(c, "have", e)
            BY <2>5 DEF Find
        <3>2. e \in Engines
            <4>1. entries \in Seq(Engines)
                BY DEF IInv, TypeOK
            <4>2. QED BY <3>1, <4>1, Members DEF Pools
        <3>3. QED BY <2>4, <2>5, <3>1, <3>2 DEF Find, Inside
    <2>6. CASE Open(c)
        <3>1. NewEngine \in Engines
            BY <2>6 DEF Open, NewEngine, FreeEngines
        <3>2. QED BY <2>4, <2>6, <3>1 DEF Open, Inside
    <2>7. CASE ReadFails(c)
        BY <1>1, <2>7 DEF Control, Hands, ReadFails, Missing, Leave, Goto, Inside
    <2>8. CASE Cancel(c)
        BY <1>1, <2>8 DEF Control, Hands, Cancel, Goto
    <2>9. ASSUME pc[c] = "have", Goto(c, "session"), held' = held, fresh' = [fresh EXCEPT ![c] = TRUE]
          PROVE  Hands'
        BY <1>1, <2>9 DEF Hands, Control, Goto
    <2>10. CASE Connect(c)
        BY <2>9, <2>10 DEF Connect
    <2>11. ASSUME Goto(c, "idle"), held' = [held EXCEPT ![c] = None],
                  \/ fresh' = fresh /\ pc[c] = "have"
                  \/ fresh' = [fresh EXCEPT ![c] = FALSE]
           PROVE  Hands'
        BY <1>1, <2>11 DEF Hands, Control, Goto
    <2>12. CASE ConnectFails(c) \/ Return(c)
        BY <2>11, <2>12 DEF ConnectFails, Return
    <2>13. QED
        BY <1>2, <2>1, <2>3, <2>5, <2>6, <2>7, <2>8, <2>10, <2>12 DEF Call
<1>3. ASSUME NEW c \in Callers, NEW t \in Tenants, NEW v \in 1..MaxVersions, Ask(c, t, v)
      PROVE  Hands'
    BY <1>1, <1>3 DEF Control, Hands, Ask, Goto
<1>4. CASE Operate
    <2>1. CASE EvictDispose
        BY <1>1, <2>1 DEF Hands, EvictDispose, Dispose
    <2>2. CASE ~EvictDispose
        <3>1. UNCHANGED <<pc, held, fresh>>
            BY <1>4, <2>2 DEF Operate, Rotate, Deprovision, RotateStore, Forget, KeepSecret, ForgetFails, Evict, EvictEnds, Close,
                              OperatorFails, session
        <3>2. QED BY <1>1, <3>1 DEF Hands
    <2>3. QED BY <2>1, <2>2
<1>5. CASE UNCHANGED vars
    BY <1>1, <1>5 DEF vars, session, Hands
<1>6. QED
    BY <1>2, <1>3, <1>4, <1>5 DEF Next

\* The role's password, the handles given out and the operator's progress agree.
LEMMA BooksStep ==
    ASSUME IInv, [Next]_vars
    PROVE  Books'
<1> USE ConstantsAssumption
<1>1. Books
    BY DEF IInv
<1>2. ASSUME NEW t \in Tenants, Rotate(t)
      PROVE  Books'
    BY <1>1, <1>2 DEF Books, Rotate, history
<1>3. ASSUME NEW t \in Tenants, Deprovision(t)
      PROVE  Books'
    BY <1>1, <1>3 DEF Books, Deprovision, history
<1>4. CASE RotateStore
    BY <1>1, <1>4 DEF Books, RotateStore, OpGoto, history
<1>5. CASE Forget
    BY <1>1, <1>5 DEF Books, Forget, OpGoto, history
<1>6. CASE KeepSecret
    BY <1>1, <1>6 DEF Books, KeepSecret, OpGoto, database, history
<1>7. CASE ForgetFails
    BY <1>1, <1>7 DEF Books, ForgetFails, OpEnds, Fault, history
<1>8. CASE Evict \/ Close
    BY <1>1, <1>8 DEF Books, Evict, Close, OpGoto, database, history
<1>9. CASE EvictDispose
    BY <1>1, <1>9 DEF Books, EvictDispose, database, history, admin
<1>10. CASE EvictEnds
    <2>1. /\ op = "dispose" /\ target \in Tenants /\ op' = "idle" /\ target' = None
          /\ evicted' = [evicted EXCEPT ![target] = Oldest(target)]
          /\ gone' \subseteq gone \cup {target}
          /\ UNCHANGED <<role, stored, given, faults>>
        BY <1>1, <1>10 DEF Books, EvictEnds, OpEnds, Returned, database
    <2>2. Oldest(target) \in {given[target], given[target] + 1} /\ (role[target] # 0 => Oldest(target) = given[target])
        BY DEF Oldest
    <2>3. Oldest(target) \in 0..(MaxVersions + 1) /\ Oldest(target) <= given[target] + 1
        BY <1>1, <2>1, <2>2 DEF Books
    <2>4. QED BY <1>1, <2>1, <2>2, <2>3 DEF Books
<1>11. CASE OperatorFails
    BY <1>1, <1>11 DEF Books, OperatorFails, OpEnds, Fault, database, history
<1>12. ASSUME NEW c \in Callers, Call(c)
      PROVE  Books'
    <2>1. UNCHANGED <<role, stored, given, evicted, gone, op, target>>
        BY <1>12 DEF Call, Acquire, SweepStale, SweptStale, Find, MakeRoom, MadeRoom, ReadSecret, ReadFails,
                    Open, Cancel, Connect, ConnectFails, Return, database, history, admin
    <2>2. faults' \in 0..MaxFaults
        BY <1>1, <1>12 DEF Books, Call, Acquire, SweepStale, SweptStale, Find, MakeRoom, MadeRoom, ReadSecret,
                    ReadFails, Open, Cancel, Connect, ConnectFails, Return, Fault
    <2>3. QED BY <1>1, <2>1, <2>2 DEF Books
<1>13. ASSUME NEW c \in Callers, NEW t \in Tenants, NEW v \in 1..MaxVersions, Ask(c, t, v)
      PROVE  Books'
    BY <1>1, <1>13 DEF Books, Ask, database, history, admin
<1>14. CASE UNCHANGED vars
    BY <1>1, <1>14 DEF vars, database, history, admin, Books
<1>15. QED
    BY <1>2, <1>3, <1>4, <1>5, <1>6, <1>7, <1>8, <1>9, <1>10, <1>11, <1>12, <1>13, <1>14 DEF Next, Operate

-----------------------------------------------------------------------------
(* The entries.                                                            *)

\* What the invariant says of the entries, for use below.
LEMMA EntriesNow ==
    ASSUME IInv
    PROVE  /\ entries \in Seq(Engines) /\ IsInjective(entries) /\ Tracked = ToSet(entries)
           /\ Len(entries) \in Nat /\ Tracked \subseteq Engines
           /\ \A t : Pools(t) = {e \in Tracked : engine[e].tenant = t}
<1>1. entries \in Seq(Engines) /\ IsInjective(entries)
    BY DEF IInv, TypeOK
<1>2. QED
    BY <1>1, Members DEF Tracked, Pools

\* popitem(last=False): the oldest entry and no other leaves.
LEMMA OldestPopped ==
    ASSUME IInv, NEW a, PopOldest(a), entries # <<>>
    PROVE  /\ entries' \in Seq(Engines) /\ IsInjective(entries') /\ Len(entries') = Len(entries) - 1
           /\ Head(entries) \in Tracked /\ Tracked' = Tracked \ {Head(entries)}
<1>1. entries \in Seq(Engines) /\ IsInjective(entries) /\ Tracked = ToSet(entries)
    BY EntriesNow
<1>2. Tail(entries) \in Seq(Engines) /\ Closes(Tail(entries), entries, 1) /\ Head(entries) = entries[1]
    BY <1>1, TailCloses
<1>3. /\ IsInjective(Tail(entries)) /\ ToSet(Tail(entries)) = ToSet(entries) \ {entries[1]}
      /\ entries[1] \in ToSet(entries)
    BY <1>1, <1>2, OneLess
<1>4. Len(Tail(entries)) = Len(entries) - 1
    BY <1>2 DEF Closes
<1>5. entries' = Tail(entries)
    BY DEF PopOldest
<1>6. QED
    BY <1>1, <1>2, <1>3, <1>4, <1>5 DEF Tracked

\* pop(tenant_id, None): the tenant's entry leaves, if it has one.
LEMMA OnePopped ==
    ASSUME IInv, NEW t
    PROVE  /\ Without(t) \in Seq(Engines) /\ IsInjective(Without(t))
           /\ ToSet(Without(t)) = Tracked \ Pools(t) /\ Len(Without(t)) <= Len(entries)
           /\ Pools(t) # {} => Len(Without(t)) = Len(entries) - 1
           /\ Pools(t) = {} => Without(t) = entries
<1>1. /\ entries \in Seq(Engines) /\ IsInjective(entries) /\ Tracked = ToSet(entries)
      /\ Len(entries) \in Nat /\ DOMAIN entries = 1..Len(entries)
      /\ Tracked = {entries[i] : i \in 1..Len(entries)}
      /\ Pools(t) = {e \in Tracked : engine[e].tenant = t}
    BY EntriesNow, Members
<1>2. CASE Pools(t) = {}
    <2>1. Without(t) = entries
        BY <1>2 DEF Without
    <2>2. Tracked \ Pools(t) = ToSet(entries) /\ Len(entries) <= Len(entries)
        BY <1>1, <1>2
    <2>3. QED BY <1>1, <1>2, <2>1, <2>2, Zenon
<1>3. CASE Pools(t) # {}
    <2>1. PICK i : i = CHOOSE j \in DOMAIN entries : entries[j] \in Pools(t)
        OBVIOUS
    <2>2. i \in 1..Len(entries) /\ entries[i] \in Pools(t)
        <3>1. \E j \in DOMAIN entries : entries[j] \in Pools(t)
            BY <1>1, <1>3
        <3>2. QED BY <1>1, <2>1, <3>1
    <2>3. Without(t) = RemoveAt(entries, i)
        BY <1>3, <2>1 DEF Without
    <2>4. RemoveAt(entries, i) \in Seq(Engines) /\ Closes(RemoveAt(entries, i), entries, i)
        BY <1>1, <2>2, RemoveCloses
    <2>5. /\ IsInjective(RemoveAt(entries, i))
          /\ ToSet(RemoveAt(entries, i)) = ToSet(entries) \ {entries[i]}
        BY <1>1, <2>4, OneLess, ZenonT(40)
    <2>6. Pools(t) = {entries[i]}
        <3>1. \A e, f \in Tracked : engine[e].tenant = engine[f].tenant => e = f
            BY DEF IInv, OnePool
        <3>2. QED BY <1>1, <2>2, <3>1
    <2>7. Len(RemoveAt(entries, i)) = Len(entries) - 1
        BY <2>4 DEF Closes
    <2>8. Len(RemoveAt(entries, i)) <= Len(entries)
        BY <1>1, <2>7
    <2>9. ToSet(RemoveAt(entries, i)) = Tracked \ Pools(t)
        BY <1>1, <2>5, <2>6, Zenon
    <2>10. QED BY <1>3, <2>3, <2>4, <2>5, <2>7, <2>8, <2>9, Zenon
<1>4. QED
    BY <1>2, <1>3

\* A hit moves the entry to the end.
LEMMA Found ==
    ASSUME IInv, NEW t, NEW e \in Pools(t), entries' = Append(Without(t), e)
    PROVE  /\ entries' \in Seq(Engines) /\ IsInjective(entries') /\ Len(entries') = Len(entries)
           /\ Tracked' = Tracked /\ e \in Tracked
<1>1. e \in Engines /\ e \in Tracked /\ engine[e].tenant = t /\ Len(entries) \in Nat
    BY EntriesNow
<1>2. /\ Without(t) \in Seq(Engines) /\ IsInjective(Without(t))
      /\ ToSet(Without(t)) = Tracked \ Pools(t) /\ Len(Without(t)) = Len(entries) - 1
    BY OnePopped
<1>3. Pools(t) = {e}
    <2>1. \A f \in Tracked : engine[f].tenant = engine[e].tenant => f = e
        BY <1>1 DEF IInv, OnePool
    <2>2. Pools(t) = {f \in Tracked : engine[f].tenant = t}
        BY EntriesNow
    <2>3. QED BY <1>1, <2>1, <2>2
<1>4. e \notin ToSet(Without(t))
    BY <1>2, <1>3
<1>5. /\ Append(Without(t), e) \in Seq(Engines) /\ IsInjective(Append(Without(t), e))
      /\ ToSet(Append(Without(t), e)) = ToSet(Without(t)) \cup {e}
      /\ Len(Append(Without(t), e)) = Len(Without(t)) + 1
    BY <1>1, <1>2, <1>4, OneMore
<1>6. QED
    BY <1>1, <1>2, <1>3, <1>5 DEF Tracked

\* A new engine is one that nobody refers to; its entry is the last.
LEMMA Opened ==
    ASSUME IInv, NEW c \in Callers, Open(c)
    PROVE  /\ NewEngine \in Engines /\ engine[NewEngine].state = "free"
           /\ NewEngine \notin Tracked /\ Tracked' = Tracked \cup {NewEngine}
           /\ entries' \in Seq(Engines) /\ IsInjective(entries') /\ Len(entries') = Len(entries) + 1
           /\ \A d \in Callers : held[d] # NewEngine
           /\ \A a \in Actors : NewEngine \notin victims[a]
           /\ Pools(cred[c].tenant) = {} /\ cred[c] \in Credentials
<1>1. NewEngine \in Engines /\ engine[NewEngine].state = "free"
    BY DEF Open, NewEngine, FreeEngines
<1>2. NewEngine \notin Tracked
    BY <1>1 DEF IInv, TrackedIsOpen
<1>3. Pools(cred[c].tenant) = {} /\ cred[c] \in Credentials
    BY DEF IInv, Vacant, Control, Open, Inside
<1>4. entries' = Append(entries, NewEngine)
    BY <1>3, OnePopped DEF Open
<1>5. entries \in Seq(Engines) /\ IsInjective(entries) /\ Tracked = ToSet(entries)
    BY EntriesNow
<1>6. /\ Append(entries, NewEngine) \in Seq(Engines) /\ IsInjective(Append(entries, NewEngine))
      /\ ToSet(Append(entries, NewEngine)) = ToSet(entries) \cup {NewEngine}
      /\ Len(Append(entries, NewEngine)) = Len(entries) + 1
    BY <1>1, <1>2, <1>5, OneMore
<1>7. \A d \in Callers : held[d] # NewEngine
    BY <1>1, ConstantsAssumption DEF IInv, HeldIsUsed
<1>8. \A a \in Actors : NewEngine \notin victims[a]
    BY <1>1 DEF IInv, VictimsAreOpen
<1>9. QED
    BY <1>1, <1>2, <1>3, <1>4, <1>5, <1>6, <1>7, <1>8 DEF Tracked

\* Only these touch the entries.
Reorders(c) == SweepStale(c) \/ MakeRoom(c) \/ Find(c) \/ Open(c)

\* All other steps leave them alone.
LEMMA EntriesStay ==
    ASSUME [Next]_vars, \A c \in Callers : ~Reorders(c), ~Evict, ~Close
    PROVE  entries' = entries
<1>1. ASSUME NEW c \in Callers, Call(c)
      PROVE  entries' = entries
    BY <1>1 DEF Call, Reorders, Acquire, SweptStale, MadeRoom, ReadSecret, ReadFails, Cancel, Connect,
                ConnectFails, Return, registry
<1>2. QED
    BY <1>1 DEF Next, Ask, Operate, Rotate, Deprovision, RotateStore, Forget, KeepSecret, ForgetFails, EvictDispose, EvictEnds,
                OperatorFails, vars, registry

\* Nothing is tracked twice, and there are no more entries than allowed.
LEMMA EntriesStep ==
    ASSUME IInv, [Next]_vars
    PROVE  entries' \in Seq(Engines) /\ IsInjective(entries') /\ Roomy'
<1>1. /\ entries \in Seq(Engines) /\ IsInjective(entries) /\ Len(entries) \in Nat
      /\ Roomy /\ Control /\ MaxTenants \in Nat \ {0}
    BY EntriesNow, ConstantsAssumption DEF IInv
<1>2. ASSUME NEW c \in Callers, SweepStale(c) \/ MakeRoom(c)
      PROVE  entries' \in Seq(Engines) /\ IsInjective(entries') /\ Roomy'
    <2>1. entries # <<>>
        BY <1>1, <1>2, EmptySeq DEF SweepStale, MakeRoom
    <2>2. /\ entries' \in Seq(Engines) /\ IsInjective(entries') /\ Len(entries') = Len(entries) - 1
        BY <1>2, <2>1, OldestPopped DEF SweepStale, MakeRoom
    <2>3. Roomy'
        BY <1>1, <1>2, <2>2 DEF Roomy, Control, SweepStale, MakeRoom, Goto
    <2>4. QED BY <2>2, <2>3
<1>3. ASSUME NEW c \in Callers, Find(c)
      PROVE  entries' \in Seq(Engines) /\ IsInjective(entries') /\ Roomy'
    <2>1. /\ entries' \in Seq(Engines) /\ IsInjective(entries') /\ Len(entries') = Len(entries)
        BY <1>3, Found DEF Find
    <2>2. Roomy'
        BY <1>1, <1>3, <2>1 DEF Roomy, Control, Find, Leave, Goto
    <2>3. QED BY <2>1, <2>2
<1>4. ASSUME NEW c \in Callers, Open(c)
      PROVE  entries' \in Seq(Engines) /\ IsInjective(entries') /\ Roomy'
    <2>1. /\ entries' \in Seq(Engines) /\ IsInjective(entries') /\ Len(entries') = Len(entries) + 1
        BY <1>4, Opened
    <2>2. \A d \in Callers : pc'[d] # "read"
        BY <1>1, <1>4 DEF Control, Open, Leave, Goto, Inside
    <2>3. Len(entries) < MaxTenants
        BY <1>1, <1>4 DEF Roomy, Open
    <2>4. QED BY <1>1, <2>1, <2>2, <2>3 DEF Roomy
<1>5. CASE Evict \/ Close
    <2>1. entries' \in Seq(Engines) /\ IsInjective(entries') /\ Len(entries') <= Len(entries) /\ Len(entries') \in Nat
        <3>1. CASE Evict
            BY <3>1, OnePopped, LenProperties DEF Evict
        <3>2. CASE Close
            <4>1. <<>> \in Seq(Engines) /\ Len(<<>>) = 0 /\ IsInjective(<<>>)
                BY EmptySeq DEF IsInjective
            <4>2. QED BY <1>1, <3>2, <4>1 DEF Close
        <3>3. QED BY <1>5, <3>1, <3>2
    <2>2. \A c \in Callers : pc'[c] # "read"
        BY <1>1, <1>5 DEF Control, Evict, Close, Free, session, Inside
    <2>3. QED BY <1>1, <2>1, <2>2 DEF Roomy
<1>6. CASE (\A c \in Callers : ~Reorders(c)) /\ ~Evict /\ ~Close
    <2>1. entries' = entries
        BY <1>6, EntriesStay
    <2>2. \A c \in Callers : pc'[c] = "read" => pc[c] = "read" \/ Len(entries) < MaxTenants
        <3>1. ASSUME NEW c \in Callers, Call(c)
              PROVE  \A d \in Callers : pc'[d] = "read" => pc[d] = "read" \/ Len(entries) < MaxTenants
            BY <1>1, <1>6, <3>1 DEF Control, Call, Reorders, Acquire, SweptStale, MadeRoom, ReadSecret, ReadFails,
                        Cancel, Connect, ConnectFails, Return, Leave, Goto
        <3>2. QED
            BY <1>1, <3>1 DEF Control, Next, Ask, Operate, Rotate, Deprovision, RotateStore, Forget, KeepSecret, ForgetFails, Evict,
                       EvictDispose, EvictEnds, Close, OperatorFails, Goto, vars, session
    <2>3. QED BY <1>1, <2>1, <2>2 DEF Roomy
<1>7. QED
    BY <1>2, <1>3, <1>4, <1>5, <1>6 DEF Reorders

-----------------------------------------------------------------------------
(* The engines: tracked, popped, held or free.                             *)

EngineShape ==
    engine \in [Engines -> [tenant : Tenants \cup {None}, password : 0..MaxVersions,
                            state : {"free", "open", "disposed", "abandoned"}, idle : Nat]]

Ownership ==
    EngineShape /\ TrackedIsOpen /\ OnePool /\ HeldIsUsed /\ VictimsAreOpen /\ NoEngineLeaks

\* What the invariant says of the engines, for use below.
LEMMA OwnershipNow ==
    ASSUME IInv
    PROVE  Ownership /\ victims \in [Actors -> SUBSET Engines] /\ Tracked \subseteq Engines
<1>1. Cardinality(Callers) \in Nat
    BY ConstantsAssumption, FS_CardinalityType
<1>2. EngineShape
    BY <1>1 DEF EngineShape, IInv, TypeOK
<1>3. QED
    BY <1>2, EntriesNow DEF Ownership, IInv, VictimsAreOpen

\* Engines keep their tenant, password and state; a coroutine may take a factory of a
\* tracked one or give its own up.
LEMMA NothingChangesHands ==
    ASSUME IInv, EngineShape', victims' = victims, Tracked' = Tracked,
           \A e \in Engines : /\ engine'[e].tenant = engine[e].tenant
                              /\ engine'[e].password = engine[e].password
                              /\ engine'[e].state = engine[e].state,
           \A d \in Callers : held'[d] # None => held'[d] = held[d] \/ held'[d] \in Tracked
    PROVE  Ownership'
<1>1. Ownership /\ victims \in [Actors -> SUBSET Engines] /\ Tracked \subseteq Engines
    BY OwnershipNow
<1>2. TrackedIsOpen' /\ OnePool'
    BY <1>1 DEF Ownership, TrackedIsOpen, OnePool
<1>3. HeldIsUsed'
    <2>1. Hands
        BY DEF IInv
    <2>2. QED BY <1>1, <2>1 DEF Ownership, HeldIsUsed, TrackedIsOpen, Hands
<1>4. VictimsAreOpen'
    BY <1>1 DEF Ownership, VictimsAreOpen
<1>5. NoEngineLeaks'
    <2>1. \A e \in Engines : engine[e].state = "open" => e \in Tracked \/ \E a \in Actors : e \in victims[a]
        BY <1>1 DEF Ownership, NoEngineLeaks, Tracked
    <2>2. \A e \in Engines : engine'[e].state = "open" => e \in Tracked' \/ \E a \in Actors : e \in victims'[a]
        BY <2>1
    <2>3. QED BY <2>2 DEF NoEngineLeaks, Tracked
<1>6. QED
    BY <1>2, <1>3, <1>4, <1>5 DEF Ownership

\* Popped: what was tracked is in somebody's hands.
LEMMA Popped ==
    ASSUME IInv, engine' = engine, held' = held, NEW a \in Actors, NEW V \in SUBSET Tracked,
           victims[a] = {}, Tracked' = Tracked \ V, victims' = [victims EXCEPT ![a] = V]
    PROVE  Ownership'
<1>1. Ownership /\ victims \in [Actors -> SUBSET Engines] /\ Tracked \subseteq Engines
    BY OwnershipNow
<1>2. TrackedIsOpen' /\ OnePool' /\ HeldIsUsed' /\ EngineShape'
    BY <1>1 DEF Ownership, TrackedIsOpen, OnePool, HeldIsUsed, EngineShape
<1>3. VictimsAreOpen'
    <2>1. victims' \in [Actors -> SUBSET Engines] /\ \A b \in Actors : victims'[b] = IF b = a THEN V ELSE victims[b]
        BY <1>1
    <2>2. \A b \in Actors : \A e \in victims'[b] : engine'[e].state = "open" /\ e \notin Tracked'
        BY <1>1, <2>1 DEF Ownership, VictimsAreOpen, TrackedIsOpen
    <2>3. \A b, d \in Actors : b # d => victims'[b] \cap victims'[d] = {}
        BY <1>1, <2>1 DEF Ownership, VictimsAreOpen
    <2>4. QED BY <2>1, <2>2, <2>3 DEF VictimsAreOpen
<1>4. NoEngineLeaks'
    <2>1. ASSUME NEW e \in Engines, engine'[e].state = "open"
          PROVE  e \in Tracked' \/ \E b \in Actors : e \in victims'[b]
        <3>1. e \in Tracked \/ \E b \in Actors : e \in victims[b]
            BY <1>1, <2>1 DEF Ownership, NoEngineLeaks, Tracked
        <3>2. e \in V => e \in victims'[a]
            BY <1>1
        <3>3. \A b \in Actors : e \in victims[b] => e \in victims'[b]
            BY <1>1
        <3>4. QED BY <3>1, <3>2, <3>3
    <2>2. QED BY <2>1 DEF NoEngineLeaks, Tracked
<1>5. QED
    BY <1>2, <1>3, <1>4 DEF Ownership

\* Disposed of: an engine that somebody held stays, without a pool of its own.
LEMMA Disposed ==
    ASSUME IInv, NEW a \in Actors, NEW e, Dispose(a, e), Tracked' = Tracked, held' = held
    PROVE  Ownership'
<1>1. Ownership /\ victims \in [Actors -> SUBSET Engines] /\ Tracked \subseteq Engines
    BY OwnershipNow
<1>2. /\ e \in victims[a] /\ e \in Engines /\ e \notin Tracked
      /\ victims' = [victims EXCEPT ![a] = victims[a] \ {e}]
    BY <1>1 DEF Dispose, Ownership, VictimsAreOpen
<1>3. /\ EngineShape' /\ \A f \in Engines : f # e => engine'[f] = engine[f]
      /\ engine'[e].state # "open" /\ (Holders(e) # {} => engine'[e].state = "disposed")
    <2>1. PICK n : n = IF Holders(e) = {} THEN Unused ELSE [engine[e] EXCEPT !.state = "disposed", !.idle = 0]
        OBVIOUS
    <2>2. engine' = [engine EXCEPT ![e] = n]
        BY <2>1 DEF Dispose
    <2>3. Unused \in [tenant : Tenants \cup {None}, password : 0..MaxVersions,
                      state : {"free", "open", "disposed", "abandoned"}, idle : Nat]
        BY ConstantsAssumption DEF Unused
    <2>4. n \in [tenant : Tenants \cup {None}, password : 0..MaxVersions,
                 state : {"free", "open", "disposed", "abandoned"}, idle : Nat]
        BY <1>1, <1>2, <2>1, <2>3 DEF Ownership, EngineShape
    <2>5. n.state # "open" /\ (Holders(e) # {} => n.state = "disposed")
        BY <1>1, <1>2, <2>1 DEF Ownership, EngineShape, Unused
    <2>6. QED BY <1>1, <1>2, <2>2, <2>4, <2>5 DEF Ownership, EngineShape
<1>4. TrackedIsOpen' /\ OnePool'
    BY <1>1, <1>2, <1>3 DEF Ownership, TrackedIsOpen, OnePool
<1>5. HeldIsUsed'
    <2>1. Hands
        BY DEF IInv
    <2>2. ASSUME NEW d \in Callers, held[d] # None
          PROVE  engine'[held[d]].state # "free"
        <3>1. held[d] \in Engines
            BY <2>1, <2>2 DEF Hands
        <3>2. CASE held[d] = e
            BY <1>3, <3>2 DEF Holders
        <3>3. CASE held[d] # e
            BY <1>1, <1>3, <2>2, <3>1, <3>3 DEF Ownership, HeldIsUsed
        <3>4. QED BY <3>2, <3>3
    <2>3. QED BY <2>2 DEF HeldIsUsed
<1>6. VictimsAreOpen'
    <2>1. /\ victims' \in [Actors -> SUBSET Engines]
          /\ \A b \in Actors : victims'[b] = IF b = a THEN victims[a] \ {e} ELSE victims[b]
        BY <1>1, <1>2
    <2>2. \A b \in Actors : e \notin victims'[b]
        BY <1>1, <1>2, <2>1 DEF Ownership, VictimsAreOpen
    <2>3. \A b \in Actors : \A f \in victims'[b] : f \in victims[b] /\ f # e /\ f \in Engines
        BY <1>1, <2>1, <2>2
    <2>4. \A b \in Actors : \A f \in victims'[b] : engine'[f].state = "open" /\ f \notin Tracked'
        BY <1>1, <1>3, <2>3 DEF Ownership, VictimsAreOpen
    <2>5. \A b, d \in Actors : b # d => victims'[b] \cap victims'[d] = {}
        BY <1>1, <2>3 DEF Ownership, VictimsAreOpen
    <2>6. QED BY <2>1, <2>4, <2>5 DEF VictimsAreOpen
<1>7. NoEngineLeaks'
    <2>1. ASSUME NEW f \in Engines, engine'[f].state = "open"
          PROVE  f \in Tracked' \/ \E b \in Actors : f \in victims'[b]
        <3>1. f # e /\ engine[f].state = "open"
            BY <1>3, <2>1
        <3>2. f \in Tracked \/ \E b \in Actors : f \in victims[b]
            BY <1>1, <3>1 DEF Ownership, NoEngineLeaks, Tracked
        <3>3. \A b \in Actors : f \in victims[b] => f \in victims'[b]
            BY <1>1, <1>2, <3>1
        <3>4. QED BY <3>2, <3>3
    <2>2. QED BY <2>1 DEF NoEngineLeaks, Tracked
<1>8. QED
    BY <1>3, <1>4, <1>5, <1>6, <1>7 DEF Ownership

\* A cancelled coroutine's victims keep their pool while somebody holds them.
LEMMA Cancelled ==
    ASSUME IInv, NEW c \in Callers, Cancel(c)
    PROVE  Ownership'
<1>1. /\ Ownership /\ victims \in [Actors -> SUBSET Engines] /\ Tracked \subseteq Engines
      /\ Tracked' = Tracked /\ held' = held /\ c \in Actors
      /\ victims' = [victims EXCEPT ![c] = {}]
    BY OwnershipNow DEF Cancel, Tracked, Actors
<1>2. ASSUME NEW e \in Engines
      PROVE  /\ engine'[e] \in [tenant : Tenants \cup {None}, password : 0..MaxVersions,
                                state : {"free", "open", "disposed", "abandoned"}, idle : Nat]
             /\ e \notin victims[c] => engine'[e] = engine[e]
             /\ e \in victims[c] => engine'[e].state # "open"
             /\ e \in victims[c] /\ Holders(e) # {} => engine'[e].state = "abandoned"
    <2>1. PICK n : n = [engine[e] EXCEPT !.state = "abandoned"]
        OBVIOUS
    <2>2. /\ n \in [tenant : Tenants \cup {None}, password : 0..MaxVersions,
                    state : {"free", "open", "disposed", "abandoned"}, idle : Nat]
          /\ n.state = "abandoned"
        BY <1>1, <2>1 DEF Ownership, EngineShape
    <2>3. /\ Unused \in [tenant : Tenants \cup {None}, password : 0..MaxVersions,
                         state : {"free", "open", "disposed", "abandoned"}, idle : Nat]
          /\ Unused.state = "free"
        BY ConstantsAssumption DEF Unused
    <2>4. engine'[e] = IF e \notin victims[c] THEN engine[e] ELSE IF Holders(e) = {} THEN Unused ELSE n
        BY <2>1 DEF Cancel
    <2>5. engine[e] \in [tenant : Tenants \cup {None}, password : 0..MaxVersions,
                         state : {"free", "open", "disposed", "abandoned"}, idle : Nat]
        BY <1>1 DEF Ownership, EngineShape
    <2>6. QED BY <2>2, <2>3, <2>4, <2>5
<1>3. EngineShape'
    <2>1. PICK m : m = [e \in Engines |-> engine'[e]]
        OBVIOUS
    <2>2. engine' = m
        BY <2>1 DEF Cancel
    <2>3. m \in [Engines -> [tenant : Tenants \cup {None}, password : 0..MaxVersions,
                             state : {"free", "open", "disposed", "abandoned"}, idle : Nat]]
        BY <1>2, <2>1
    <2>4. QED BY <2>2, <2>3 DEF EngineShape
<1>4. TrackedIsOpen' /\ OnePool'
    <2>1. \A e \in Tracked : engine'[e] = engine[e]
        BY <1>1, <1>2 DEF Ownership, VictimsAreOpen
    <2>2. QED BY <1>1, <2>1 DEF Ownership, TrackedIsOpen, OnePool
<1>5. HeldIsUsed'
    <2>1. Hands
        BY DEF IInv
    <2>2. ASSUME NEW d \in Callers, held[d] # None
          PROVE  engine'[held[d]].state # "free"
        <3>1. held[d] \in Engines /\ d \in Holders(held[d])
            BY <2>1, <2>2 DEF Hands, Holders
        <3>2. CASE held[d] \in victims[c]
            BY <1>2, <3>1, <3>2
        <3>3. CASE held[d] \notin victims[c]
            BY <1>1, <1>2, <2>2, <3>1, <3>3 DEF Ownership, HeldIsUsed
        <3>4. QED BY <3>2, <3>3
    <2>3. QED BY <1>1, <2>2 DEF HeldIsUsed
<1>6. VictimsAreOpen'
    <2>1. /\ victims' \in [Actors -> SUBSET Engines]
          /\ \A b \in Actors : victims'[b] = IF b = c THEN {} ELSE victims[b]
        BY <1>1
    <2>2. \A b \in Actors : \A f \in victims'[b] : f \in victims[b] /\ f \notin victims[c] /\ f \in Engines
        BY <1>1, <2>1 DEF Ownership, VictimsAreOpen
    <2>3. \A b \in Actors : \A f \in victims'[b] : engine'[f].state = "open" /\ f \notin Tracked'
        BY <1>1, <1>2, <2>2 DEF Ownership, VictimsAreOpen
    <2>4. \A b, d \in Actors : b # d => victims'[b] \cap victims'[d] = {}
        BY <1>1, <2>2 DEF Ownership, VictimsAreOpen
    <2>5. QED BY <2>1, <2>3, <2>4 DEF VictimsAreOpen
<1>7. NoEngineLeaks'
    <2>1. ASSUME NEW f \in Engines, engine'[f].state = "open"
          PROVE  f \in Tracked' \/ \E b \in Actors : f \in victims'[b]
        <3>1. f \notin victims[c] /\ engine[f].state = "open"
            BY <1>2, <2>1
        <3>2. f \in Tracked \/ \E b \in Actors : f \in victims[b]
            BY <1>1, <3>1 DEF Ownership, NoEngineLeaks, Tracked
        <3>3. \A b \in Actors : f \in victims[b] => f \in victims'[b]
            BY <1>1, <3>1
        <3>4. QED BY <1>1, <3>2, <3>3
    <2>2. QED BY <2>1 DEF NoEngineLeaks, Tracked
<1>8. QED
    BY <1>3, <1>4, <1>5, <1>6, <1>7 DEF Ownership

\* What Open makes of the new engine.
LEMMA OpenedEngine ==
    ASSUME IInv, NEW c \in Callers, Open(c)
    PROVE  /\ EngineShape' /\ \A f \in Engines : f # NewEngine => engine'[f] = engine[f]
           /\ engine'[NewEngine].state = "open" /\ engine'[NewEngine].tenant = cred[c].tenant
           /\ engine'[NewEngine].password = cred[c].version /\ engine'[NewEngine].idle = 0
           /\ cred[c].tenant \in Tenants /\ cred[c].version \in 1..MaxVersions
<1>1. EngineShape
    BY OwnershipNow DEF Ownership
<1>2. NewEngine \in Engines /\ cred[c].tenant \in Tenants /\ cred[c].version \in 1..MaxVersions
    BY Opened DEF Credentials
<1>3. PICK n : n = [tenant |-> cred[c].tenant, password |-> cred[c].version, state |-> "open", idle |-> 0]
    OBVIOUS
<1>4. n \in [tenant : Tenants \cup {None}, password : 0..MaxVersions,
             state : {"free", "open", "disposed", "abandoned"}, idle : Nat]
    BY <1>2, <1>3, ConstantsAssumption
<1>5. engine' = [engine EXCEPT ![NewEngine] = n]
    BY <1>3 DEF Open
<1>6. QED
    BY <1>1, <1>2, <1>3, <1>4, <1>5 DEF EngineShape

\* A new engine is tracked, and its tenant has no other.
LEMMA OpenedIsOwned ==
    ASSUME IInv, NEW c \in Callers, Open(c)
    PROVE  Ownership'
<1> DEFINE new == NewEngine
<1>1. /\ Ownership /\ victims \in [Actors -> SUBSET Engines] /\ Tracked \subseteq Engines
      /\ victims' = victims /\ held' = [held EXCEPT ![c] = new] /\ Hands
    BY OwnershipNow DEF Open, Leave, IInv
<1>2. /\ new \in Engines /\ new \notin Tracked /\ Tracked' = Tracked \cup {new}
      /\ \A a \in Actors : new \notin victims[a]
      /\ \A d \in Callers : held[d] # new
      /\ \A e \in Tracked : engine[e].tenant # cred[c].tenant
    BY Opened, EntriesNow
<1>3. /\ EngineShape' /\ \A f \in Engines : f # new => engine'[f] = engine[f]
      /\ engine'[new].state = "open" /\ engine'[new].tenant = cred[c].tenant
      /\ engine'[new].password > 0 /\ cred[c].tenant \in Tenants
    BY OpenedEngine, ConstantsAssumption
<1> HIDE DEF new
<1>4. TrackedIsOpen' /\ OnePool'
    BY <1>1, <1>2, <1>3 DEF Ownership, TrackedIsOpen, OnePool
<1>5. HeldIsUsed'
    <2>1. ASSUME NEW d \in Callers, held'[d] # None
          PROVE  engine'[held'[d]].state # "free"
        <3>1. CASE held'[d] = new
            BY <1>3, <3>1
        <3>2. CASE held'[d] # new
            <4>1. held'[d] = held[d] /\ held[d] \in Engines /\ engine[held[d]].state # "free"
                BY <1>1, <2>1, <3>2 DEF Hands, Ownership, HeldIsUsed
            <4>2. QED BY <1>3, <3>2, <4>1
        <3>3. QED BY <3>1, <3>2
    <2>2. QED BY <2>1 DEF HeldIsUsed
<1>6. VictimsAreOpen'
    BY <1>1, <1>2, <1>3 DEF Ownership, VictimsAreOpen
<1>7. NoEngineLeaks'
    <2>1. ASSUME NEW f \in Engines, engine'[f].state = "open"
          PROVE  f \in Tracked' \/ \E b \in Actors : f \in victims'[b]
        <3>1. f # new => f \in Tracked \/ \E b \in Actors : f \in victims[b]
            BY <1>1, <1>3, <2>1 DEF Ownership, NoEngineLeaks, Tracked
        <3>2. QED BY <1>1, <1>2, <3>1
    <2>2. QED BY <2>1 DEF NoEngineLeaks, Tracked
<1>8. QED
    BY <1>3, <1>4, <1>5, <1>6, <1>7 DEF Ownership

\* What Drop makes of the engine that was held.
LEMMA DroppedEngine ==
    ASSUME IInv, NEW c \in Callers, held[c] \in Engines, Drop(c)
    PROVE  /\ EngineShape' /\ \A f \in Engines : f # held[c] => engine'[f] = engine[f]
           /\ engine'[held[c]] = engine[held[c]]
                \/ /\ engine[held[c]].state # "open" /\ Holders(held[c]) = {c}
                   /\ engine'[held[c]] = Unused
<1>1. EngineShape
    BY OwnershipNow DEF Ownership
<1>2. Unused \in [tenant : Tenants \cup {None}, password : 0..MaxVersions,
                  state : {"free", "open", "disposed", "abandoned"}, idle : Nat]
    BY ConstantsAssumption DEF Unused
<1>3. PICK n : n = IF engine[held[c]].state # "open" /\ Holders(held[c]) = {c} THEN Unused
                   ELSE engine[held[c]]
    OBVIOUS
<1>4. engine' = [engine EXCEPT ![held[c]] = n]
    BY <1>3 DEF Drop
<1>5. n \in [tenant : Tenants \cup {None}, password : 0..MaxVersions,
             state : {"free", "open", "disposed", "abandoned"}, idle : Nat]
    BY <1>1, <1>2, <1>3 DEF EngineShape
<1>6. QED
    BY <1>1, <1>3, <1>4, <1>5 DEF EngineShape

\* An engine that is dropped was in nobody else's hands.
LEMMA DroppedIsOwned ==
    ASSUME IInv, NEW c \in Callers, held[c] \in Engines, Drop(c), Tracked' = Tracked, victims' = victims,
           held' = [held EXCEPT ![c] = None]
    PROVE  Ownership'
<1>1. /\ Ownership /\ victims \in [Actors -> SUBSET Engines] /\ Tracked \subseteq Engines /\ Hands
    BY OwnershipNow DEF IInv
<1>2. \A f \in Engines : f # held[c] => engine'[f] = engine[f]
    BY DroppedEngine
<1>3. CASE engine'[held[c]] = engine[held[c]]
    <2>1. \A f \in Engines : engine'[f] = engine[f]
        BY <1>2, <1>3
    <2>2. \A d \in Callers : held'[d] # None => held'[d] = held[d]
        BY <1>1 DEF Hands
    <2>3. EngineShape'
        BY DroppedEngine
    <2>4. QED BY <2>1, <2>2, <2>3, NothingChangesHands
<1>4. CASE engine[held[c]].state # "open" /\ Holders(held[c]) = {c} /\ engine'[held[c]] = Unused
    <2>1. held[c] \notin Tracked /\ \A a \in Actors : held[c] \notin victims[a]
        BY <1>1, <1>4 DEF Ownership, TrackedIsOpen, VictimsAreOpen
    <2>2. engine'[held[c]].state # "open"
        BY <1>4 DEF Unused
    <2>3. TrackedIsOpen' /\ OnePool'
        BY <1>1, <1>2, <2>1 DEF Ownership, TrackedIsOpen, OnePool
    <2>4. HeldIsUsed'
        <3>1. ASSUME NEW d \in Callers, held'[d] # None
              PROVE  engine'[held'[d]].state # "free"
            <4>1. d # c /\ held'[d] = held[d] /\ held[d] \in Engines /\ held[d] # None
                BY <1>1, <3>1 DEF Hands
            <4>2. held[d] # held[c]
                BY <1>4, <4>1 DEF Holders
            <4>3. QED BY <1>1, <1>2, <4>1, <4>2 DEF Ownership, HeldIsUsed
        <3>2. QED BY <3>1 DEF HeldIsUsed
    <2>5. VictimsAreOpen'
        BY <1>1, <1>2, <2>1 DEF Ownership, VictimsAreOpen
    <2>6. NoEngineLeaks'
        <3>1. ASSUME NEW f \in Engines, engine'[f].state = "open"
              PROVE  f \in Tracked' \/ \E b \in Actors : f \in victims'[b]
            <4>1. f \in Tracked \/ \E b \in Actors : f \in victims[b]
                BY <1>1, <1>2, <2>2, <3>1 DEF Ownership, NoEngineLeaks, Tracked
            <4>2. QED BY <4>1
        <3>2. QED BY <3>1 DEF NoEngineLeaks, Tracked
    <2>7. EngineShape'
        BY DroppedEngine
    <2>8. QED BY <2>3, <2>4, <2>5, <2>6, <2>7 DEF Ownership
<1>5. QED
    BY <1>3, <1>4, DroppedEngine

-----------------------------------------------------------------------------
(* The connections of an engine.                                           *)

\* The connections of an engine that are in use are finitely many, before a step ...
LEMMA FewNow ==
    ASSUME NEW e
    PROVE  /\ InUse(e) \subseteq Callers /\ IsFiniteSet(InUse(e)) /\ Cardinality(InUse(e)) \in Nat
           /\ Cardinality(InUse(e)) <= Cardinality(Callers) /\ Cardinality(Callers) \in Nat
<1>1. InUse(e) \subseteq Callers
    BY DEF InUse
<1>2. QED
    BY <1>1, ConstantsAssumption, FS_Subset, FS_CardinalityType

\* ... and after it.
LEMMA FewNext ==
    ASSUME NEW e
    PROVE  /\ InUse(e)' \subseteq Callers /\ IsFiniteSet(InUse(e)') /\ Cardinality(InUse(e)') \in Nat
           /\ Cardinality(InUse(e)') <= Cardinality(Callers)
<1>1. InUse(e)' \subseteq Callers
    BY DEF InUse
<1>2. QED
    BY <1>1, ConstantsAssumption, FS_Subset, FS_CardinalityType

\* No connection comes or goes but by closing them all.
LEMMA StillFew ==
    ASSUME IInv, EngineShape', NEW e \in Engines, InUse(e)' \subseteq InUse(e),
           engine'[e].idle \in {0, engine[e].idle}
    PROVE  (engine[e].idle + Cardinality(InUse(e)) <= Cardinality(Callers))'
<1>1. /\ engine[e].idle + Cardinality(InUse(e)) <= Cardinality(Callers) /\ engine[e].idle \in Nat
    BY OwnershipNow DEF Ownership, EngineShape, IInv, ConnectionsAreFew
<1>2. Cardinality(InUse(e)') <= Cardinality(InUse(e))
    BY FewNow, FS_Subset
<1>3. Cardinality(InUse(e)') \in Nat /\ Cardinality(InUse(e)) \in Nat /\ Cardinality(Callers) \in Nat
    BY FewNow, FewNext
<1>4. PICK n \in Nat, m \in Nat : n = Cardinality(InUse(e)) /\ m = Cardinality(InUse(e)')
    BY <1>3
<1>5. engine'[e].idle + m <= Cardinality(Callers)
    <2>1. CASE engine'[e].idle = 0
        BY <1>4, <2>1, FewNext
    <2>2. CASE engine'[e].idle = engine[e].idle
        BY <1>1, <1>2, <1>3, <1>4, <2>2
    <2>3. QED BY <2>1, <2>2
<1>6. QED
    BY <1>4, <1>5

\* An engine is told apart from the others by its idle connections only.
LEMMA CountedEngine ==
    ASSUME IInv, NEW e \in Engines, NEW n \in Nat, engine' = [engine EXCEPT ![e].idle = n]
    PROVE  /\ EngineShape' /\ \A f \in Engines : f # e => engine'[f] = engine[f]
           /\ engine'[e].idle = n
           /\ \A f \in Engines : /\ engine'[f].tenant = engine[f].tenant
                                 /\ engine'[f].password = engine[f].password
                                 /\ engine'[f].state = engine[f].state
<1>1. EngineShape
    BY OwnershipNow DEF Ownership
<1>2. PICK m : m = [engine[e] EXCEPT !.idle = n]
    OBVIOUS
<1>3. /\ m \in [tenant : Tenants \cup {None}, password : 0..MaxVersions,
                state : {"free", "open", "disposed", "abandoned"}, idle : Nat]
      /\ m.idle = n /\ m.tenant = engine[e].tenant /\ m.password = engine[e].password
      /\ m.state = engine[e].state
    BY <1>1, <1>2 DEF EngineShape
<1>4. engine' = [engine EXCEPT ![e] = m]
    BY <1>2
<1>5. QED
    BY <1>1, <1>3, <1>4 DEF EngineShape

\* A connection is checked out: an idle one, or a new one when the pool has none.
LEMMA Connected ==
    ASSUME IInv, NEW c \in Callers, Connect(c)
    PROVE  /\ Ownership' /\ ConnectionsAreFew' /\ held[c] \in Engines
           /\ \A f \in Engines : engine'[f].idle <= engine[f].idle
           /\ \A f \in Engines : f # held[c] => InUse(f)' = InUse(f)
           /\ \A f \in Engines : /\ engine'[f].tenant = engine[f].tenant
                                 /\ engine'[f].password = engine[f].password
<1>1. /\ Hands /\ Ownership /\ held' = held /\ fresh' = [fresh EXCEPT ![c] = TRUE] /\ ~fresh[c]
      /\ victims' = victims /\ Tracked' = Tracked
    BY OwnershipNow DEF IInv, Hands, Connect, registry, Tracked
<1>2. PICK e \in Engines : e = held[c]
    BY <1>1, ConstantsAssumption DEF Hands, Connect
<1>3. engine[e].idle \in Nat
    BY <1>1, <1>2 DEF Ownership, EngineShape
<1>4. PICK n \in Nat : n = IF engine[e].idle > 0 THEN engine[e].idle - 1 ELSE 0
    BY <1>3
<1>5. engine' = [engine EXCEPT ![e].idle = n]
    BY <1>2, <1>4 DEF Connect
<1>6. /\ EngineShape' /\ \A f \in Engines : f # e => engine'[f] = engine[f]
      /\ engine'[e].idle = n
      /\ \A f \in Engines : /\ engine'[f].tenant = engine[f].tenant
                            /\ engine'[f].password = engine[f].password
                            /\ engine'[f].state = engine[f].state
    BY <1>2, <1>5, CountedEngine
<1>7. Ownership'
    BY <1>1, <1>6, NothingChangesHands
<1>8. \A f \in Engines : f # e => InUse(f)' = InUse(f)
    BY <1>1, <1>2 DEF InUse, Hands
<1>9. ASSUME NEW f \in Engines
      PROVE  (engine[f].idle + Cardinality(InUse(f)) <= Cardinality(Callers))'
    <2>1. CASE f # e
        BY <1>6, <1>8, <2>1, StillFew
    <2>2. CASE f = e /\ engine[e].idle = 0
        <3>1. engine'[f].idle = 0
            BY <1>4, <1>6, <2>2
        <3>2. QED BY <3>1, FewNext
    <2>3. CASE f = e /\ engine[e].idle > 0
        <3>1. InUse(e)' = InUse(e) \cup {c} /\ c \notin InUse(e)
            BY <1>1, <1>2 DEF InUse, Hands
        <3>2. Cardinality(InUse(e)') = Cardinality(InUse(e)) + 1
            BY <3>1, FewNow, FS_AddElement
        <3>3. engine[e].idle + Cardinality(InUse(e)) <= Cardinality(Callers)
            BY <1>2 DEF IInv, ConnectionsAreFew
        <3>4. engine'[e].idle = engine[e].idle - 1
            BY <1>4, <1>6, <2>3
        <3>5. Cardinality(InUse(e)) \in Nat /\ Cardinality(Callers) \in Nat
            BY FewNow
        <3>6. engine'[e].idle + Cardinality(InUse(e)') <= Cardinality(Callers)
            BY <1>3, <3>2, <3>3, <3>4, <3>5
        <3>7. QED BY <2>3, <3>6
    <2>4. QED BY <1>3, <2>1, <2>2, <2>3
<1>10. \A f \in Engines : engine'[f].idle <= engine[f].idle
    BY <1>1, <1>3, <1>4, <1>6 DEF Ownership, EngineShape
<1>11. QED
    BY <1>2, <1>6, <1>7, <1>8, <1>9, <1>10 DEF ConnectionsAreFew

\* A connection is returned to the pool it came from, or closed.
LEMMA Returns ==
    ASSUME IInv, NEW c \in Callers, Return(c)
    PROVE  /\ Ownership' /\ ConnectionsAreFew' /\ held[c] \in Engines
           /\ \A f \in Engines : InUse(f)' \subseteq InUse(f)
           /\ \A f \in Engines : engine'[f].idle <= engine[f].idle \/ InUse(f) # {}
           /\ \A f \in Tracked : /\ engine'[f].tenant = engine[f].tenant
                                 /\ engine'[f].password = engine[f].password
<1>1. /\ Hands /\ Ownership /\ held' = [held EXCEPT ![c] = None] /\ fresh' = [fresh EXCEPT ![c] = FALSE]
      /\ victims' = victims /\ Tracked' = Tracked /\ Tracked \subseteq Engines
    BY OwnershipNow DEF IInv, Return, registry, Tracked
<1>2. PICK e \in Engines : e = held[c]
    BY <1>1, ConstantsAssumption DEF Hands, Return
<1>3. \A f \in Engines : engine[f].idle \in Nat
    BY <1>1 DEF Ownership, EngineShape
<1>4. \A f \in Engines : InUse(f)' \subseteq InUse(f)
    BY <1>1, ConstantsAssumption DEF InUse, Hands
<1>5. \A d \in Callers : held'[d] # None => held'[d] = held[d]
    BY <1>1 DEF Hands
<1>6. CASE fresh[c] /\ engine' = [engine EXCEPT ![e].idle = engine[e].idle + 1]
    <2>1. PICK n \in Nat : n = engine[e].idle + 1
        BY <1>2, <1>3
    <2>2. /\ EngineShape' /\ \A f \in Engines : f # e => engine'[f] = engine[f]
          /\ engine'[e].idle = n
          /\ \A f \in Engines : /\ engine'[f].tenant = engine[f].tenant
                                /\ engine'[f].password = engine[f].password
                                /\ engine'[f].state = engine[f].state
        BY <1>2, <1>6, <2>1, CountedEngine, ZenonT(40)
    <2>3. c \in InUse(e)
        BY <1>2, <1>6 DEF InUse
    <2>4. InUse(e)' = InUse(e) \ {c}
        BY <1>1, <1>2, <2>3, ConstantsAssumption DEF InUse, Hands
    <2>5. Ownership'
        BY <1>1, <1>5, <2>2, NothingChangesHands
    <2>6. ASSUME NEW f \in Engines
          PROVE  (engine[f].idle + Cardinality(InUse(f)) <= Cardinality(Callers))'
        <3>1. CASE f # e
            BY <1>4, <2>2, <3>1, StillFew
        <3>2. CASE f = e
            <4>1. Cardinality(InUse(e)') = Cardinality(InUse(e)) - 1
                BY <2>3, <2>4, FewNow, FS_RemoveElement
            <4>2. engine[e].idle + Cardinality(InUse(e)) <= Cardinality(Callers)
                BY <1>2 DEF IInv, ConnectionsAreFew
            <4>3. Cardinality(InUse(e)) \in Nat /\ Cardinality(Callers) \in Nat /\ engine[e].idle \in Nat
                BY <1>2, <1>3, FewNow
            <4>4. engine'[e].idle + Cardinality(InUse(e)') <= Cardinality(Callers)
                BY <2>1, <2>2, <4>1, <4>2, <4>3
            <4>5. QED BY <3>2, <4>4
        <3>3. QED BY <3>1, <3>2
    <2>7. \A f \in Engines : engine'[f].idle <= engine[f].idle \/ InUse(f) # {}
        BY <1>3, <2>2, <2>3
    <2>8. QED
        BY <1>1, <1>2, <1>4, <2>2, <2>5, <2>6, <2>7 DEF ConnectionsAreFew
<1>7. CASE Drop(c)
    <2>1. Ownership'
        BY <1>1, <1>2, <1>7, DroppedIsOwned
    <2>2. EngineShape' /\ \A f \in Engines : engine'[f] = engine[f] \/ (engine'[f] = Unused /\ engine[f].state # "open")
        BY <1>2, <1>7, DroppedEngine
    <2>3. \A f \in Engines : engine'[f].idle \in {0, engine[f].idle}
        BY <2>2 DEF Unused
    <2>4. ConnectionsAreFew'
        BY <1>4, <2>2, <2>3, StillFew DEF ConnectionsAreFew
    <2>5. \A f \in Engines : engine'[f].idle <= engine[f].idle
        BY <1>3, <2>3
    <2>6. \A f \in Tracked : engine'[f] = engine[f]
        BY <1>1, <2>2 DEF Ownership, TrackedIsOpen
    <2>7. QED BY <1>2, <1>4, <2>1, <2>4, <2>5, <2>6
<1>8. QED
    BY <1>2, <1>6, <1>7 DEF Return

-----------------------------------------------------------------------------
(* What a step leaves of the tracked engines.                              *)

\* None is added, and none gets a connection it did not have.
Kept ==
    \A f \in Tracked' :
        /\ f \in Tracked
        /\ engine'[f].tenant = engine[f].tenant /\ engine'[f].password = engine[f].password
        /\ Warm(f)' => Warm(f)

Sound == Ownership' /\ ConnectionsAreFew' /\ Kept

\* The engines are as they were, and so are their connections.
LEMMA EnginesRest ==
    ASSUME IInv, engine' = engine, \A f \in Engines : InUse(f)' \subseteq InUse(f),
           Tracked' \subseteq Tracked
    PROVE  ConnectionsAreFew' /\ Kept
<1>1. EngineShape /\ EngineShape' /\ Tracked \subseteq Engines
    BY OwnershipNow DEF Ownership, EngineShape
<1>2. ConnectionsAreFew'
    BY <1>1, StillFew DEF ConnectionsAreFew
<1>3. Kept
    BY <1>1 DEF Kept, Warm
<1>4. QED
    BY <1>2, <1>3

\* Steps that touch none of this.
LEMMA Resting ==
    ASSUME IInv, UNCHANGED <<engine, held, fresh, victims, entries>>
    PROVE  Sound
<1>1. Tracked' = Tracked /\ \A f \in Engines : InUse(f)' = InUse(f)
    BY DEF Tracked, InUse
<1>2. ConnectionsAreFew' /\ Kept
    BY <1>1, EnginesRest
<1>3. EngineShape'
    BY OwnershipNow DEF Ownership, EngineShape
<1>4. Ownership'
    BY <1>1, <1>3, NothingChangesHands
<1>5. QED
    BY <1>2, <1>4 DEF Sound

\* Engines are popped.
LEMMA Popping ==
    ASSUME IInv, UNCHANGED <<engine, held, fresh>>, NEW a \in Actors, NEW V \in SUBSET Tracked,
           victims[a] = {}, Tracked' = Tracked \ V, victims' = [victims EXCEPT ![a] = V]
    PROVE  Sound
<1>1. ConnectionsAreFew' /\ Kept
    <2>1. Tracked' \subseteq Tracked /\ \A f \in Engines : InUse(f)' = InUse(f)
        BY DEF InUse
    <2>2. QED BY <2>1, EnginesRest
<1>2. Ownership'
    BY Popped
<1>3. QED
    BY <1>1, <1>2 DEF Sound

\* An engine is disposed of.
LEMMA Disposing ==
    ASSUME IInv, NEW a \in Actors, NEW e, Dispose(a, e), UNCHANGED <<entries, held>>
    PROVE  Sound
<1>1. /\ Ownership /\ victims \in [Actors -> SUBSET Engines] /\ Tracked \subseteq Engines
      /\ Tracked' = Tracked
    BY OwnershipNow DEF Tracked
<1>2. Ownership' /\ e \in victims[a] /\ e \in Engines /\ e \notin Tracked
    BY <1>1, Disposed DEF Dispose, Ownership, VictimsAreOpen
<1>3. \A f \in Engines : f # e => engine'[f] = engine[f]
    BY <1>1 DEF Dispose, Ownership, EngineShape
<1>4. engine'[e].idle = 0
    BY <1>1, <1>2 DEF Dispose, Ownership, EngineShape, Unused
<1>5. \A f \in Engines : InUse(f)' \subseteq InUse(f)
    BY DEF Dispose, InUse
<1>6. EngineShape'
    BY <1>2 DEF Ownership
<1>7. ConnectionsAreFew'
    BY <1>3, <1>4, <1>5, <1>6, StillFew DEF ConnectionsAreFew
<1>8. Kept
    BY <1>1, <1>2, <1>3, <1>5 DEF Kept, Warm
<1>9. QED
    BY <1>2, <1>7, <1>8 DEF Sound

\* A coroutine is cancelled.
LEMMA Cancelling ==
    ASSUME IInv, NEW c \in Callers, Cancel(c)
    PROVE  Sound
<1>1. /\ Ownership /\ Tracked \subseteq Engines /\ Tracked' = Tracked /\ Ownership' /\ c \in Actors
      /\ \A f \in Engines : InUse(f)' = InUse(f)
    BY OwnershipNow, Cancelled DEF Cancel, Tracked, InUse, Actors
<1>2. ASSUME NEW f \in Engines
      PROVE  engine'[f].idle \in {0, engine[f].idle} /\ (f \notin victims[c] => engine'[f] = engine[f])
    <2>1. PICK n : n = [engine[f] EXCEPT !.state = "abandoned"]
        OBVIOUS
    <2>2. n.idle = engine[f].idle
        BY <1>1, <2>1 DEF Ownership, EngineShape
    <2>3. engine'[f] = IF f \notin victims[c] THEN engine[f] ELSE IF Holders(f) = {} THEN Unused ELSE n
        BY <2>1 DEF Cancel
    <2>4. Unused.idle = 0
        BY DEF Unused
    <2>5. QED BY <2>2, <2>3, <2>4
<1>3. ConnectionsAreFew'
    BY <1>1, <1>2, StillFew DEF ConnectionsAreFew, Ownership
<1>4. \A f \in Tracked : engine'[f] = engine[f]
    BY <1>1, <1>2 DEF Ownership, VictimsAreOpen
<1>5. Kept
    BY <1>1, <1>4 DEF Kept, Warm
<1>6. QED
    BY <1>1, <1>3, <1>5 DEF Sound

\* A coroutine finds the engine of its tenant.
LEMMA Finding ==
    ASSUME IInv, NEW c \in Callers, Find(c)
    PROVE  Sound
<1>1. PICK e \in Pools(cred[c].tenant) : /\ entries' = Append(Without(cred[c].tenant), e)
                                        /\ Leave(c, "have", e)
    BY DEF Find
<1>2. Tracked' = Tracked /\ e \in Tracked
    BY <1>1, Found
<1>3. /\ engine' = engine /\ victims' = victims /\ held' = [held EXCEPT ![c] = e] /\ fresh' = fresh
      /\ Hands /\ ~fresh[c]
    BY <1>1 DEF Find, Leave, IInv, Hands
<1>4. \A f \in Engines : InUse(f)' \subseteq InUse(f)
    BY <1>3 DEF InUse, Hands
<1>5. ConnectionsAreFew' /\ Kept
    BY <1>2, <1>3, <1>4, EnginesRest
<1>6. EngineShape'
    BY <1>3, OwnershipNow DEF Ownership, EngineShape
<1>7. \A d \in Callers : held'[d] # None => held'[d] = held[d] \/ held'[d] \in Tracked
    BY <1>2, <1>3 DEF Hands
<1>8. Ownership'
    BY <1>2, <1>3, <1>6, <1>7, NothingChangesHands
<1>9. QED
    BY <1>5, <1>8 DEF Sound

\* PostgreSQL refuses the password of an engine.
LEMMA ConnectingFails ==
    ASSUME IInv, NEW c \in Callers, ConnectFails(c)
    PROVE  Sound
<1>1. /\ Ownership /\ Hands /\ Tracked \subseteq Engines /\ Tracked' = Tracked /\ victims' = victims
      /\ held' = [held EXCEPT ![c] = None] /\ fresh' = fresh /\ ~fresh[c]
    BY OwnershipNow DEF ConnectFails, IInv, Hands, registry, Tracked
<1>2. held[c] \in Engines /\ Drop(c)
    BY <1>1 DEF ConnectFails, Hands
<1>3. Ownership'
    BY <1>1, <1>2, DroppedIsOwned
<1>4. EngineShape' /\ \A f \in Engines : engine'[f] = engine[f] \/ (engine'[f] = Unused /\ engine[f].state # "open")
    BY <1>2, DroppedEngine
<1>5. \A f \in Engines : engine'[f].idle \in {0, engine[f].idle}
    BY <1>4 DEF Unused
<1>6. \A f \in Engines : InUse(f)' \subseteq InUse(f)
    BY <1>1, ConstantsAssumption DEF InUse, Hands
<1>7. ConnectionsAreFew'
    BY <1>4, <1>5, <1>6, StillFew DEF ConnectionsAreFew
<1>8. \A f \in Tracked : engine'[f] = engine[f]
    BY <1>1, <1>4 DEF Ownership, TrackedIsOpen
<1>9. Kept
    BY <1>1, <1>6, <1>8 DEF Kept, Warm
<1>10. QED
    BY <1>3, <1>7, <1>9 DEF Sound

\* A session ends.
LEMMA Returning ==
    ASSUME IInv, NEW c \in Callers, Return(c)
    PROVE  Sound
<1>1. Tracked' = Tracked /\ Tracked \subseteq Engines /\ Ownership
    BY OwnershipNow DEF Return, registry, Tracked
<1>2. /\ Ownership' /\ ConnectionsAreFew'
      /\ \A f \in Engines : InUse(f)' \subseteq InUse(f)
      /\ \A f \in Engines : engine'[f].idle <= engine[f].idle \/ InUse(f) # {}
      /\ \A f \in Tracked : /\ engine'[f].tenant = engine[f].tenant
                            /\ engine'[f].password = engine[f].password
    BY Returns
<1>3. \A f \in Engines : Warm(f)' => Warm(f)
    <2>1. \A f \in Engines : engine[f].idle \in Nat /\ engine'[f].idle \in Nat
        BY <1>1, <1>2 DEF Ownership, EngineShape
    <2>2. QED BY <1>2, <2>1 DEF Warm
<1>4. QED
    BY <1>1, <1>2, <1>3 DEF Sound, Kept

\* All steps but Open and Connect keep what is tracked, without a new connection.
LEMMA SoundStep ==
    ASSUME IInv, [Next]_vars, \A c \in Callers : ~Open(c) /\ ~Connect(c)
    PROVE  Sound
<1>1. /\ VictimsAreInHand /\ Control /\ Hands /\ MaxTenants \in Nat \ {0} /\ Callers \subseteq Actors
      /\ Operator \in Actors /\ victims \in [Actors -> SUBSET Engines]
    BY ConstantsAssumption DEF IInv, Actors, VictimsAreOpen
<1>2. ASSUME NEW c \in Callers, Call(c)
      PROVE  Sound
    <2>1. CASE Acquire(c) \/ ReadSecret(c)
        BY <2>1, Resting DEF Acquire, ReadSecret, registry
    <2>2. CASE SweepStale(c) \/ MakeRoom(c)
        <3>1. entries # <<>>
            BY <1>1, <2>2, EmptySeq DEF SweepStale, MakeRoom
        <3>2. PopOldest(c) /\ UNCHANGED <<engine, held, fresh>> /\ victims[c] = {}
            BY <1>1, <2>2 DEF SweepStale, MakeRoom, Missing, VictimsAreInHand
        <3>3. PICK h : h = Head(entries)
            OBVIOUS
        <3>4. Head(entries) \in Tracked /\ Tracked' = Tracked \ {Head(entries)}
            BY <3>1, <3>2, OldestPopped
        <3>5. victims[c] \cup {h} = {h}
            BY <3>2
        <3>6. victims' = [victims EXCEPT ![c] = {h}]
            BY <3>2, <3>3, <3>5 DEF PopOldest
        <3>7. h \in Tracked /\ Tracked' = Tracked \ {h}
            BY <3>3, <3>4
        <3>8. PICK V \in SUBSET Tracked : V = {h}
            BY <3>7
        <3>9. c \in Actors
            BY <1>1
        <3>10. Tracked' = Tracked \ V /\ victims' = [victims EXCEPT ![c] = V]
            BY <3>6, <3>7, <3>8
        <3>11. QED BY <3>2, <3>9, <3>10, Popping
    <2>3. CASE SweptStale(c) \/ MadeRoom(c)
        BY <1>1, <2>3, Disposing DEF SweptStale, MadeRoom, registry
    <2>4. CASE Find(c)
        BY <2>4, Finding
    <2>5. CASE ReadFails(c)
        <3>1. held[c] = None
            BY <1>1, <2>5 DEF Hands, ReadFails, Missing
        <3>2. held' = held
            BY <1>1, <2>5, <3>1 DEF ReadFails, Leave, Hands
        <3>3. QED BY <2>5, <3>2, Resting DEF ReadFails, Leave
    <2>6. CASE Cancel(c)
        BY <2>6, Cancelling
    <2>7. CASE ConnectFails(c)
        BY <2>7, ConnectingFails
    <2>8. CASE Return(c)
        BY <2>8, Returning
    <2>9. QED
        BY <1>2, <2>1, <2>2, <2>3, <2>4, <2>5, <2>6, <2>7, <2>8 DEF Call
<1>3. ASSUME NEW c \in Callers, NEW t \in Tenants, NEW v \in 1..MaxVersions, Ask(c, t, v)
      PROVE  Sound
    BY <1>3, Resting DEF Ask, registry
<1>4. CASE Evict
    <2>1. UNCHANGED <<engine, held, fresh>> /\ victims[Operator] = {}
        BY <1>1, <1>4 DEF Evict, session, VictimsAreInHand
    <2>2. PICK V : V = Pools(target)
        OBVIOUS
    <2>3. Tracked' = Tracked \ V /\ V \subseteq Tracked /\ victims' = [victims EXCEPT ![Operator] = V]
        BY <1>4, <2>2, OnePopped, EntriesNow DEF Evict, Tracked
    <2>4. QED BY <1>1, <2>1, <2>3, Popping
<1>5. CASE Close
    <2>1. UNCHANGED <<engine, held, fresh>> /\ victims[Operator] = {}
        BY <1>1, <1>5 DEF Close, session, VictimsAreInHand
    <2>2. PICK V : V = Tracked
        OBVIOUS
    <2>3. Tracked' = {}
        <3>1. <<>> \in Seq(Engines) /\ Len(<<>>) = 0
            BY EmptySeq
        <3>2. ToSet(<<>>) = {<<>>[i] : i \in 1..Len(<<>>)}
            BY <3>1, Members
        <3>3. 1..Len(<<>>) = {}
            BY <3>1
        <3>4. ToSet(<<>>) = {}
            BY <3>2, <3>3
        <3>5. QED BY <1>5, <3>4 DEF Close, Tracked
    <2>4. Tracked' = Tracked \ V /\ V \subseteq Tracked /\ victims' = [victims EXCEPT ![Operator] = V]
        BY <1>5, <2>2, <2>3 DEF Close, Tracked
    <2>5. QED BY <1>1, <2>1, <2>4, Popping
<1>6. CASE EvictDispose
    BY <1>1, <1>6, Disposing DEF EvictDispose, registry
<1>7. CASE Operate /\ ~Evict /\ ~Close /\ ~EvictDispose
    BY <1>7, Resting DEF Operate, Rotate, Deprovision, RotateStore, Forget, KeepSecret, ForgetFails, EvictEnds, OperatorFails,
                         registry, session
<1>8. CASE UNCHANGED vars
    BY <1>8, Resting DEF vars, registry, session
<1>9. QED
    BY <1>2, <1>3, <1>4, <1>5, <1>6, <1>7, <1>8 DEF Next

\* Open adds an engine that has no connection yet.
LEMMA Opening ==
    ASSUME IInv, NEW c \in Callers, Open(c)
    PROVE  /\ Ownership' /\ ConnectionsAreFew'
           /\ \A f \in Tracked' : f # NewEngine =>
                f \in Tracked /\ engine'[f] = engine[f] /\ (Warm(f)' => Warm(f))
           /\ \A f \in Tracked' : f = NewEngine => ~Warm(f)' /\ engine'[f].tenant = cred[c].tenant
<1>1. PICK new \in Engines : new = NewEngine
    BY Opened
<1>2. /\ new \notin Tracked /\ Tracked' = Tracked \cup {new}
      /\ \A d \in Callers : held[d] # new
    BY <1>1, Opened
<1>3. /\ EngineShape' /\ \A f \in Engines : f # new => engine'[f] = engine[f]
      /\ engine'[new].idle = 0 /\ engine'[new].tenant = cred[c].tenant
    BY <1>1, OpenedEngine
<1>4. held' = [held EXCEPT ![c] = new] /\ fresh' = fresh /\ Hands /\ ~fresh[c]
    BY <1>1 DEF Open, Leave, IInv, Hands
<1>5. \A f \in Engines : InUse(f)' \subseteq InUse(f)
    BY <1>4 DEF InUse, Hands
<1>6. InUse(new)' = {}
    BY <1>2, <1>4 DEF InUse, Hands
<1>7. \A f \in Engines : engine'[f].idle \in {0, engine[f].idle}
    BY <1>3
<1>8. ConnectionsAreFew'
    BY <1>3, <1>5, <1>7, StillFew DEF ConnectionsAreFew
<1>9. Tracked \subseteq Engines
    BY EntriesNow
<1>10. \A f \in Tracked : engine'[f] = engine[f] /\ (Warm(f)' => Warm(f))
    BY <1>2, <1>3, <1>5, <1>9 DEF Warm
<1>11. ~Warm(new)'
    BY <1>3, <1>6 DEF Warm
<1>12. Ownership'
    BY OpenedIsOwned
<1>13. QED
    BY <1>1, <1>2, <1>3, <1>8, <1>10, <1>11, <1>12

\* Every engine stays tracked, popped, held or free.
LEMMA OwnershipStep ==
    ASSUME IInv, [Next]_vars
    PROVE  Ownership' /\ ConnectionsAreFew'
<1>1. CASE \A c \in Callers : ~Open(c) /\ ~Connect(c)
    BY <1>1, SoundStep DEF Sound
<1>2. ASSUME NEW c \in Callers, Open(c)
      PROVE  Ownership' /\ ConnectionsAreFew'
    BY <1>2, Opening
<1>3. ASSUME NEW c \in Callers, Connect(c)
      PROVE  Ownership' /\ ConnectionsAreFew'
    BY <1>3, Connected
<1>4. QED
    BY <1>1, <1>2, <1>3

\* Only a coroutine that is about to dispose of an engine has victims.
LEMMA InHandStep ==
    ASSUME IInv, [Next]_vars
    PROVE  VictimsAreInHand'
<1>1. /\ VictimsAreInHand /\ Control /\ victims \in [Actors -> SUBSET Engines] /\ Callers \subseteq Actors
      /\ Operator \in Actors /\ Operator \notin Callers
    BY ConstantsAssumption DEF IInv, VictimsAreOpen, Actors
<1>2. ASSUME NEW c \in Callers, Call(c)
      PROVE  VictimsAreInHand'
    <2>1. CASE SweepStale(c) \/ MakeRoom(c)
        <3>1. victims[c] = {}
            BY <1>1, <2>1 DEF SweepStale, MakeRoom, Missing, VictimsAreInHand
        <3>2. /\ victims' = [victims EXCEPT ![c] = {Head(entries)}]
              /\ pc'[c] \in {"swept", "made"} /\ op' = op
              /\ \A d \in Callers : d # c => pc'[d] = pc[d]
            BY <1>1, <2>1, <3>1 DEF SweepStale, MakeRoom, PopOldest, Goto, admin, Control
        <3>3. /\ victims'[c] = {Head(entries)} /\ victims'[Operator] = victims[Operator]
              /\ \A d \in Callers : d # c => victims'[d] = victims[d]
            BY <1>1, <3>2
        <3>4. QED BY <1>1, <3>2, <3>3 DEF VictimsAreInHand
    <2>2. CASE SweptStale(c) \/ MadeRoom(c)
        <3>1. PICK e \in victims[c] : Dispose(c, e)
            BY <2>2 DEF SweptStale, MadeRoom
        <3>2. victims[c] \ {e} = {}
            BY <1>1, <3>1 DEF VictimsAreInHand
        <3>3. /\ victims'[c] = {} /\ victims'[Operator] = victims[Operator]
              /\ \A d \in Callers : d # c => victims'[d] = victims[d]
            BY <1>1, <3>1, <3>2 DEF Dispose
        <3>4. op' = op /\ \A d \in Callers : d # c => pc'[d] = pc[d]
            BY <1>1, <2>2 DEF SweptStale, MadeRoom, Goto, admin, Control
        <3>5. QED BY <1>1, <3>3, <3>4 DEF VictimsAreInHand
    <2>3. CASE Cancel(c)
        <3>1. /\ victims'[c] = {} /\ victims'[Operator] = victims[Operator]
              /\ \A d \in Callers : d # c => victims'[d] = victims[d]
            BY <1>1, <2>3 DEF Cancel
        <3>2. op' = op /\ \A d \in Callers : d # c => pc'[d] = pc[d]
            BY <1>1, <2>3 DEF Cancel, Goto, admin, Control
        <3>3. QED BY <1>1, <3>1, <3>2 DEF VictimsAreInHand
    <2>4. CASE ~SweepStale(c) /\ ~MakeRoom(c) /\ ~SweptStale(c) /\ ~MadeRoom(c) /\ ~Cancel(c)
        <3>1. /\ victims' = victims /\ op' = op /\ pc[c] \notin {"swept", "made"}
              /\ \A d \in Callers : d # c => pc'[d] = pc[d]
            BY <1>1, <1>2, <2>4 DEF Call, Acquire, Find, ReadSecret, ReadFails, Open, Connect, ConnectFails,
                        Return, Leave, Goto, Missing, admin, Control
        <3>2. QED BY <1>1, <3>1 DEF VictimsAreInHand
    <2>5. QED
        BY <2>1, <2>2, <2>3, <2>4
<1>3. ASSUME NEW c \in Callers, NEW t \in Tenants, NEW v \in 1..MaxVersions, Ask(c, t, v)
      PROVE  VictimsAreInHand'
    BY <1>1, <1>3 DEF VictimsAreInHand, Ask, Goto, admin, Control
<1>4. CASE Operate
    <2>1. pc' = pc
        BY <1>4 DEF Operate, Rotate, Deprovision, RotateStore, Forget, KeepSecret, ForgetFails, Evict, EvictDispose, EvictEnds, Close,
                    OperatorFails, session
    <2>2. CASE Evict \/ Close
        <3>1. \A d \in Callers : victims'[d] = victims[d]
            BY <1>1, <2>2 DEF Evict, Close
        <3>2. op' \in {"dispose", "stopped"}
            BY <2>2 DEF Evict, Close, OpGoto
        <3>3. QED BY <1>1, <2>1, <3>1, <3>2 DEF VictimsAreInHand
    <2>3. CASE EvictDispose
        <3>1. \A d \in Callers : victims'[d] = victims[d]
            BY <1>1, <2>3 DEF EvictDispose, Dispose
        <3>2. op' = op /\ op \in {"dispose", "stopped"}
            BY <2>3 DEF EvictDispose, admin
        <3>3. QED BY <1>1, <2>1, <3>1, <3>2 DEF VictimsAreInHand
    <2>4. CASE ~Evict /\ ~Close /\ ~EvictDispose
        <3>1. victims' = victims /\ victims[Operator] = {}
            BY <1>1, <1>4, <2>4 DEF Operate, Rotate, Deprovision, RotateStore, Forget, KeepSecret, ForgetFails, EvictEnds,
                        OperatorFails, VictimsAreInHand
        <3>2. QED BY <1>1, <2>1, <3>1 DEF VictimsAreInHand
    <2>5. QED BY <2>2, <2>3, <2>4
<1>5. CASE UNCHANGED vars
    BY <1>1, <1>5 DEF VictimsAreInHand, vars, session, admin
<1>6. QED
    BY <1>2, <1>3, <1>4, <1>5 DEF Next

-----------------------------------------------------------------------------
(* The tenants: who has a pool, and who may get one.                       *)

\* Only Open gives a tenant a pool, its own.
LEMMA PoolsShrink ==
    ASSUME IInv, [Next]_vars, NEW t, Pools(t) = {},
           \A c \in Callers : Open(c) => cred[c].tenant # t
    PROVE  Pools(t)' = {}
<1>1. Pools(t) = {e \in Tracked : engine[e].tenant = t} /\ Pools(t)' = {e \in Tracked' : engine'[e].tenant = t}
    BY EntriesNow DEF Pools, Tracked
<1>2. CASE \A c \in Callers : ~Open(c) /\ ~Connect(c)
    <2>1. Kept
        BY <1>2, SoundStep DEF Sound
    <2>2. QED BY <1>1, <2>1 DEF Kept
<1>3. ASSUME NEW c \in Callers, Open(c)
      PROVE  Pools(t)' = {}
    <2>1. \A f \in Tracked' : engine'[f].tenant # t
        BY <1>1, <1>3, Opening
    <2>2. QED BY <1>1, <2>1
<1>4. ASSUME NEW c \in Callers, Connect(c)
      PROVE  Pools(t)' = {}
    <2>1. Tracked' = Tracked /\ Tracked \subseteq Engines
        BY <1>4, EntriesNow DEF Connect, registry, Tracked
    <2>2. \A f \in Engines : engine'[f].tenant = engine[f].tenant
        BY <1>4, Connected
    <2>3. QED BY <1>1, <2>1, <2>2
<1>5. QED
    BY <1>2, <1>3, <1>4

\* A tenant found without a pool has none until the coroutine opens it.
LEMMA VacantStep ==
    ASSUME IInv, [Next]_vars
    PROVE  Vacant'
<1>1. Control /\ Vacant
    BY DEF IInv
<1>2. ASSUME NEW d \in Callers, pc'[d] \in {"room", "made", "read"}
      PROVE  Pools(cred[d].tenant)' = {}
    <2>1. PICK t : t = cred[d].tenant
        OBVIOUS
    <2>2. cred'[d] = cred[d] /\ Pools(t) = {} /\ pc[d] \in Inside
        <3>1. ASSUME NEW c \in Callers, Call(c)
              PROVE  cred'[d] = cred[d] /\ (pc[d] \in {"room", "made", "read"} \/ Missing(d))
            <4>1. CASE c = d
                BY <1>1, <1>2, <3>1, <4>1 DEF Control, Call, Acquire, SweepStale, SweptStale, Find, MakeRoom,
                            MadeRoom, ReadSecret, ReadFails, Open, Cancel, Connect, ConnectFails, Return,
                            Leave, Goto
            <4>2. CASE c # d
                BY <1>1, <1>2, <3>1, <4>2 DEF Control, Call, Acquire, SweepStale, SweptStale, Find, MakeRoom,
                            MadeRoom, ReadSecret, ReadFails, Open, Cancel, Connect, ConnectFails, Return,
                            Leave, Goto
            <4>3. QED BY <4>1, <4>2
        <3>2. ASSUME NEW c \in Callers, NEW u \in Tenants, NEW v \in 1..MaxVersions, Ask(c, u, v)
              PROVE  cred'[d] = cred[d] /\ pc[d] \in {"room", "made", "read"}
            BY <1>1, <1>2, <3>2 DEF Control, Ask, Goto
        <3>3. ASSUME Operate \/ UNCHANGED vars
              PROVE  cred'[d] = cred[d] /\ pc[d] \in {"room", "made", "read"}
            BY <1>2, <3>3 DEF Operate, Rotate, Deprovision, RotateStore, Forget, KeepSecret, ForgetFails, Evict, EvictDispose,
                       EvictEnds, Close, OperatorFails, vars, session
        <3>4. cred'[d] = cred[d] /\ (pc[d] \in {"room", "made", "read"} \/ Missing(d))
            BY <1>2, <3>1, <3>2, <3>3 DEF Next
        <3>5. QED BY <1>1, <2>1, <3>4 DEF Vacant, Missing, Inside
    <2>3. ASSUME NEW c \in Callers, Open(c)
          PROVE  FALSE
        <3>1. c = d
            BY <1>1, <2>2, <2>3 DEF Control, Open, Inside
        <3>2. pc'[d] = "have"
            BY <1>1, <2>3, <3>1 DEF Control, Open, Leave, Goto
        <3>3. QED BY <1>2, <3>2
    <2>4. Pools(t)' = {}
        BY <2>2, <2>3, PoolsShrink
    <2>5. QED BY <2>1, <2>2, <2>4
<1>3. QED
    BY <1>2 DEF Vacant

\* A tenant that nobody can open a pool of stays so.
LEMMA ClosedStep ==
    ASSUME IInv, [Next]_vars, NEW t \in Tenants, Closed(t)
    PROVE  Closed(t)'
<1>1. /\ Control /\ Books /\ role[t] = 0 /\ stored[t] = {} /\ Pools(t) = {}
      /\ \A c \in Callers : pc[c] = "read" => cred[c].tenant # t
    BY DEF IInv, Closed
<1>2. Pools(t)' = {}
    BY <1>1, PoolsShrink DEF Open
<1>3. ASSUME NEW c \in Callers, Call(c) \/ \E u \in Tenants, v \in 1..MaxVersions : Ask(c, u, v)
      PROVE  Closed(t)'
    <2>1. role' = role /\ stored' = stored
        BY <1>3 DEF Call, Ask, Acquire, SweepStale, SweptStale, Find, MakeRoom, MadeRoom, ReadSecret, ReadFails,
                    Open, Cancel, Connect, ConnectFails, Return, database
    <2>2. \A d \in Callers : d # c => pc'[d] = pc[d] /\ cred'[d] = cred[d]
        BY <1>1, <1>3 DEF Control, Call, Ask, Acquire, SweepStale, SweptStale, Find, MakeRoom, MadeRoom,
                    ReadSecret, ReadFails, Open, Cancel, Connect, ConnectFails, Return, Leave, Goto
    <2>3. pc'[c] = "read" => cred'[c].tenant # t
        <3>1. CASE ReadSecret(c)
            <4>1. stored[cred[c].tenant] # {} /\ cred' = cred
                BY <3>1 DEF ReadSecret
            <4>2. QED BY <1>1, <4>1
        <3>2. CASE ~ReadSecret(c)
            <4>1. pc'[c] # "read"
                BY <1>1, <1>3, <3>2 DEF Control, Call, Ask, Acquire, SweepStale, SweptStale, Find, MakeRoom,
                            MadeRoom, ReadFails, Open, Cancel, Connect, ConnectFails, Return, Leave, Goto
            <4>2. QED BY <4>1
        <3>3. QED BY <3>1, <3>2
    <2>4. QED BY <1>1, <1>2, <2>1, <2>2, <2>3 DEF Closed
<1>4. ASSUME Operate \/ UNCHANGED vars
      PROVE  Closed(t)'
    <2>1. pc' = pc /\ cred' = cred
        BY <1>4 DEF Operate, Rotate, Deprovision, RotateStore, Forget, KeepSecret, ForgetFails, Evict, EvictDispose, EvictEnds, Close,
                    OperatorFails, vars, session
    <2>2. role'[t] = 0
        BY <1>1, <1>4 DEF Books, Operate, Rotate, Deprovision, RotateStore, Forget, KeepSecret, ForgetFails, Evict, EvictDispose,
                    EvictEnds, Close, OperatorFails, vars, database
    <2>3. stored'[t] = {}
        <3>1. RotateStore => target # t
            BY <1>1, ConstantsAssumption DEF Books, RotateStore
        <3>2. ForgetFails => stored'[t] = {}
            BY <1>1 DEF Books, ForgetFails
        <3>3. QED
            BY <1>1, <1>4, <3>1, <3>2 DEF Books, Operate, Rotate, Deprovision, RotateStore, Forget, KeepSecret, Evict,
                       EvictDispose, EvictEnds, Close, OperatorFails, vars, database
    <2>4. QED BY <1>1, <1>2, <2>1, <2>2, <2>3 DEF Closed
<1>5. QED
    BY <1>3, <1>4 DEF Next

\* The operator disposes of what it popped: it still does, or it just popped it.
LEMMA StillDisposing ==
    ASSUME IInv, [Next]_vars, op' = "dispose"
    PROVE  Evict \/ (op = "dispose" /\ UNCHANGED <<target, given, role, stored>>)
BY ZenonT(40) DEF Next, Call, Ask, Operate, Acquire, SweepStale, SweptStale, Find, MakeRoom, MadeRoom, ReadSecret, ReadFails,
       Open, Cancel, Connect, ConnectFails, Return, Rotate, Deprovision, RotateStore, Forget, KeepSecret, ForgetFails, EvictDispose,
       EvictEnds, Close, OperatorFails, OpGoto, OpEnds, vars, database, admin

\* evict leaves its tenant without a pool.
LEMMA Evicting ==
    ASSUME IInv, Evict
    PROVE  /\ target \in Tenants /\ Pools(target)' = {} /\ op' = "dispose"
           /\ UNCHANGED <<target, role, stored, given, evicted, gone, engine, held, fresh, pc, cred>>
<1>1. target \in Tenants
    BY DEF IInv, Books, Evict
<1>2. UNCHANGED <<target, role, stored, given, evicted, gone, engine, held, fresh, pc, cred>> /\ op' = "dispose"
    BY DEF Evict, OpGoto, database, history, session
<1>3. PICK t : t = target
    OBVIOUS
<1>4. Tracked' = Tracked \ Pools(t)
    BY <1>3, OnePopped DEF Evict, Tracked
<1>5. Pools(t) = {e \in Tracked : engine[e].tenant = t} /\ Pools(t)' = {e \in Tracked' : engine'[e].tenant = t}
    BY EntriesNow DEF Pools, Tracked
<1>6. Pools(t)' = {}
    BY <1>2, <1>4, <1>5
<1>7. QED
    BY <1>1, <1>2, <1>3, <1>6

\* Tenants that are gone stay closed, and the one whose eviction is under way.
LEMMA GoneStep ==
    ASSUME IInv, [Next]_vars
    PROVE  GoneIsClosed'
<1>1. Control /\ Books /\ GoneIsClosed
    BY DEF IInv
<1>2. \A t \in gone : Closed(t)'
    BY <1>1, ClosedStep DEF GoneIsClosed, Books
<1>3. op = "dispose" /\ role[target] = 0 /\ stored[target] = {} => Closed(target) /\ target \in Tenants
    BY <1>1 DEF GoneIsClosed, Books
<1>4. ASSUME NEW t \in gone'
      PROVE  Closed(t)'
    <2>1. gone' = gone \/ (EvictEnds /\ role[target] = 0 /\ stored[target] = {} /\ gone' = gone \cup {target})
        BY DEF Next, Call, Ask, Operate, Acquire, SweepStale, SweptStale, Find, MakeRoom, MadeRoom, ReadSecret,
               ReadFails, Open, Cancel, Connect, ConnectFails, Return, Rotate, Deprovision, RotateStore, Forget, KeepSecret, ForgetFails,
               Evict, EvictDispose, EvictEnds, Close, OperatorFails, Returned, vars, history
    <2>2. CASE t \in gone
        BY <1>2, <2>2
    <2>3. CASE t \notin gone
        <3>1. t = target /\ EvictEnds /\ role[target] = 0 /\ stored[target] = {}
            BY <1>4, <2>1, <2>3
        <3>2. Closed(t) /\ t \in Tenants
            BY <1>3, <3>1 DEF EvictEnds
        <3>3. QED BY <3>2, ClosedStep
    <2>4. QED BY <2>2, <2>3
<1>5. ASSUME op' = "dispose", role'[target'] = 0, stored'[target'] = {}
      PROVE  Closed(target)'
    <2>1. PICK t : t = target'
        OBVIOUS
    <2>2. CASE Evict
        <3>1. t = target /\ t \in Tenants /\ role[t] = 0 /\ op = "evict"
            BY <1>5, <2>1, <2>2, Evicting DEF Evict
        <3>2. stored[t] = {}
            BY <1>5, <2>1, <2>2, Evicting
        <3>3. Pools(t)' = {}
            <4>1. PICK u : u = target
                OBVIOUS
            <4>2. Pools(u)' = {}
                <5>1. Pools(target)' = {} /\ target' = u
                    BY <2>2, <4>1, Evicting
                <5>2. QED BY <5>1 DEF Pools
            <4>3. QED BY <3>1, <4>1, <4>2
        <3>4. \A c \in Callers : pc'[c] # "read"
            BY <1>1, <2>2, Evicting DEF Control, Evict, Free, Inside
        <3>5. role'[t] = 0 /\ stored'[t] = {}
            BY <2>2, <3>1, <3>2, Evicting
        <3>6. Closed(t)'
            BY <3>3, <3>4, <3>5 DEF Closed
        <3>7. QED BY <2>1, <3>6 DEF Closed, Pools
    <2>3. CASE op = "dispose" /\ UNCHANGED <<target, given, role, stored>>
        <3>1. Closed(t) /\ t \in Tenants
            BY <1>3, <1>5, <2>1, <2>3
        <3>2. Closed(t)'
            BY <3>1, ClosedStep
        <3>3. QED BY <2>1, <3>2 DEF Closed, Pools
    <2>4. QED BY <1>5, <2>2, <2>3, StillDisposing
<1>6. QED
    BY <1>4, <1>5 DEF GoneIsClosed

\* A tracked engine stays current: when the eviction returns it has outlived it.
LEMMA CurrentStep ==
    ASSUME IInv, [Next]_vars, NEW f \in Tracked, f \in Tracked', Current(f),
           engine'[f].tenant = engine[f].tenant, engine'[f].password = engine[f].password
    PROVE  Current(f)'
<1>1. Books /\ engine[f].tenant \in Tenants
    BY DEF IInv, TrackedIsOpen
<1>2. PICK u \in Tenants, p \in {engine[f].password} : u = engine[f].tenant
    BY <1>1
<1>3. p >= evicted[u] /\ (op = "dispose" /\ u = target => p >= Oldest(target))
    BY <1>2 DEF Current
<1>4. p >= evicted'[u]
    <2>1. evicted' = evicted \/ (EvictEnds /\ evicted' = [evicted EXCEPT ![target] = Oldest(target)])
        BY DEF Next, Call, Ask, Operate, Acquire, SweepStale, SweptStale, Find, MakeRoom, MadeRoom, ReadSecret,
               ReadFails, Open, Cancel, Connect, ConnectFails, Return, Rotate, Deprovision, RotateStore, Forget, KeepSecret, ForgetFails,
               Evict, EvictDispose, EvictEnds, Close, OperatorFails, Returned, vars, history
    <2>2. CASE evicted' = evicted
        BY <1>3, <2>2
    <2>3. CASE EvictEnds /\ evicted' = [evicted EXCEPT ![target] = Oldest(target)]
        <3>1. op = "dispose" /\ evicted'[u] = IF u = target THEN Oldest(target) ELSE evicted[u]
            BY <1>1, <2>3 DEF EvictEnds, Books
        <3>2. CASE u = target
            BY <1>3, <3>1, <3>2
        <3>3. CASE u # target
            BY <1>3, <3>1, <3>3
        <3>4. QED BY <3>2, <3>3
    <2>4. QED BY <2>1, <2>2, <2>3
<1>5. op' = "dispose" /\ u = target' => p >= Oldest(target)'
    <2>1. SUFFICES ASSUME op' = "dispose", u = target'
                   PROVE  p >= Oldest(target)'
        OBVIOUS
    <2>2. CASE Evict
        <3>1. Pools(target)' = {} /\ target' = u
            BY <2>1, <2>2, Evicting
        <3>2. f \in Pools(target)'
            BY <1>2, <3>1 DEF Pools, Tracked
        <3>3. QED BY <3>1, <3>2
    <2>3. CASE op = "dispose" /\ UNCHANGED <<target, given, role, stored>>
        BY <1>3, <2>1, <2>3 DEF Oldest
    <2>4. QED BY <2>1, <2>2, <2>3, StillDisposing
<1>6. QED
    BY <1>2, <1>4, <1>5 DEF Current

\* A tracked engine with a connection has a current password.
LEMMA WarmStep ==
    ASSUME IInv, [Next]_vars
    PROVE  WarmIsCurrent'
<1>1. WarmIsCurrent /\ Books /\ TrackedIsOpen /\ Ownership /\ Tracked \subseteq Engines
    BY OwnershipNow DEF IInv
<1>2. CASE \A c \in Callers : ~Open(c) /\ ~Connect(c)
    <2>1. Kept
        BY <1>2, SoundStep DEF Sound
    <2>2. ASSUME NEW f \in Tracked', Warm(f)'
          PROVE  Current(f)'
        <3>1. /\ f \in Tracked /\ Warm(f)
              /\ engine'[f].tenant = engine[f].tenant /\ engine'[f].password = engine[f].password
            BY <2>1, <2>2 DEF Kept
        <3>2. Current(f)
            BY <1>1, <3>1 DEF WarmIsCurrent
        <3>3. QED BY <3>1, <3>2, CurrentStep
    <2>3. QED BY <2>2 DEF WarmIsCurrent
<1>3. ASSUME NEW c \in Callers, Open(c)
      PROVE  WarmIsCurrent'
    <2>1. ASSUME NEW f \in Tracked', Warm(f)'
          PROVE  Current(f)'
        <3>1. f # NewEngine
            BY <1>3, <2>1, Opening
        <3>2. f \in Tracked /\ engine'[f] = engine[f] /\ Warm(f)
            BY <1>3, <2>1, <3>1, Opening
        <3>3. Current(f)
            BY <1>1, <3>2 DEF WarmIsCurrent
        <3>4. QED BY <3>2, <3>3, CurrentStep
    <2>2. QED BY <2>1 DEF WarmIsCurrent
<1>4. ASSUME NEW c \in Callers, Connect(c)
      PROVE  WarmIsCurrent'
    <2>1. ASSUME NEW f \in Tracked', Warm(f)'
          PROVE  Current(f)'
        <3>1. f \in Tracked /\ f \in Engines
            BY <1>1, <1>4 DEF Connect, registry, Tracked
        <3>2. /\ engine'[f].tenant = engine[f].tenant /\ engine'[f].password = engine[f].password
              /\ engine'[f].idle <= engine[f].idle
              /\ f # held[c] => InUse(f)' = InUse(f)
            BY <1>4, <3>1, Connected
        <3>3. Current(f)
            <4>1. CASE Warm(f)
                BY <1>1, <3>1, <4>1 DEF WarmIsCurrent
            <4>2. CASE ~Warm(f)
                <5>1. engine[f].idle \in Nat /\ engine'[f].idle \in Nat
                    <6>1. Ownership'
                        BY <1>4, Connected
                    <6>2. QED BY <1>1, <3>1, <6>1 DEF Ownership, EngineShape
                <5>2. f = held[c] /\ engine[f].idle = 0
                    BY <2>1, <3>2, <4>2, <5>1 DEF Warm
                <5>3. engine[f].password = role[engine[f].tenant]
                    BY <1>4, <5>2 DEF Connect
                <5>4. engine[f].tenant \in Tenants /\ engine[f].password > 0
                    BY <1>1, <3>1 DEF TrackedIsOpen
                <5>5. PICK u \in Tenants, p \in {engine[f].password} : u = engine[f].tenant
                    BY <5>4
                <5>6. /\ role[u] \in {0, given[u], given[u] + 1} /\ (role[u] # 0 => evicted[u] <= given[u])
                      /\ role[u] = p /\ p > 0 /\ given[u] \in 1..MaxVersions /\ evicted[u] \in 0..(MaxVersions + 1)
                    BY <1>1, <5>3, <5>4, <5>5 DEF Books
                <5>7. p >= Oldest(u) /\ p >= evicted[u]
                    BY <5>6, ConstantsAssumption DEF Oldest
                <5>8. QED BY <5>5, <5>7 DEF Current
            <4>3. QED BY <4>1, <4>2
        <3>4. QED BY <3>1, <3>2, <3>3, <2>1, CurrentStep
    <2>2. QED BY <2>1 DEF WarmIsCurrent
<1>5. QED
    BY <1>2, <1>3, <1>4

\* Every variable keeps its type.
LEMMA TypeStep ==
    ASSUME IInv, [Next]_vars
    PROVE  TypeOK'
<1>1. Control' /\ Hands' /\ Books'
    BY ControlStep, HandsStep, BooksStep
<1>2. Ownership' /\ ConnectionsAreFew' /\ entries' \in Seq(Engines) /\ IsInjective(entries')
    BY OwnershipStep, EntriesStep
<1>3. engine' \in [Engines -> [tenant : Tenants \cup {None}, password : 0..MaxVersions,
                               state : {"free", "open", "disposed", "abandoned"},
                               idle : 0..Cardinality(Callers)]]
    <2>1. ASSUME NEW e \in Engines
          PROVE  engine'[e].idle \in 0..Cardinality(Callers)
        <3>1. engine'[e].idle \in Nat
            BY <1>2 DEF Ownership, EngineShape
        <3>2. PICK n : n = Cardinality(InUse(e)')
            OBVIOUS
        <3>3. n \in Nat /\ Cardinality(Callers) \in Nat
            BY <3>2, FewNow, FewNext
        <3>4. engine'[e].idle + n <= Cardinality(Callers)
            BY <1>2, <3>2 DEF ConnectionsAreFew
        <3>5. QED BY <3>1, <3>3, <3>4
    <2>2. QED BY <1>2, <2>1 DEF Ownership, EngineShape
<1>4. \A e \in ToSet(entries') : engine'[e].state = "open"
    BY <1>2 DEF Ownership, TrackedIsOpen, Tracked
<1>5. victims' \in [Actors -> SUBSET Engines]
    BY <1>2 DEF Ownership, VictimsAreOpen
<1>6. QED
    BY <1>1, <1>2, <1>3, <1>4, <1>5 DEF TypeOK, Control, Hands, Books, Steps

\* The invariant holds initially.
LEMMA InitInvariant ==
    ASSUME Init
    PROVE  IInv
<1> USE ConstantsAssumption
<1>1. <<>> \in Seq(Engines) /\ Len(<<>>) = 0 /\ IsInjective(<<>>) /\ ToSet(<<>>) = {}
    <2>1. <<>> \in Seq(Engines) /\ Len(<<>>) = 0 /\ IsInjective(<<>>)
        BY EmptySeq DEF IsInjective
    <2>2. ToSet(<<>>) = {<<>>[i] : i \in 1..Len(<<>>)}
        BY <2>1, Members
    <2>3. 1..Len(<<>>) = {}
        BY <2>1
    <2>4. QED BY <2>1, <2>2, <2>3
<1>2. Tracked = {} /\ entries = <<>> /\ \A t : Pools(t) = {}
    BY <1>1 DEF Init, Tracked, Pools
<1>3. Cardinality(Callers) \in Nat
    BY FS_CardinalityType
<1>4. Unused \in [tenant : Tenants \cup {None}, password : 0..MaxVersions,
                  state : {"free", "open", "disposed", "abandoned"}, idle : 0..Cardinality(Callers)]
    BY <1>3 DEF Unused
<1>5. Control /\ Hands
    BY DEF Init, Control, Hands, Inside, Steps
<1>6. Books
    BY DEF Init, Books
<1>7. victims \in [Actors -> SUBSET Engines] /\ \A a \in Actors : victims[a] = {}
    BY DEF Init
<1>8. \A e \in Engines : engine[e].state = "free" /\ engine[e].idle = 0
    BY DEF Init, Unused
<1>9. TypeOK
    <2>1. engine \in [Engines -> [tenant : Tenants \cup {None}, password : 0..MaxVersions,
                                  state : {"free", "open", "disposed", "abandoned"},
                                  idle : 0..Cardinality(Callers)]]
        BY <1>4 DEF Init
    <2>2. ToSet(entries) = {}
        BY <1>1, <1>2
    <2>3. QED
        BY <1>1, <1>2, <1>5, <1>6, <1>7, <2>1, <2>2 DEF TypeOK, Control, Hands, Books, Steps
<1>10. TrackedIsOpen /\ OnePool /\ WarmIsCurrent /\ Vacant
    BY <1>2 DEF TrackedIsOpen, OnePool, WarmIsCurrent, Vacant
<1>11. Roomy
    BY <1>1, <1>2 DEF Roomy, Init
<1>12. HeldIsUsed
    BY DEF Init, HeldIsUsed
<1>13. VictimsAreOpen /\ VictimsAreInHand
    <2>1. Operator \in Actors /\ Callers \subseteq Actors
        BY DEF Actors
    <2>2. QED BY <1>7, <2>1 DEF VictimsAreOpen, VictimsAreInHand
<1>14. NoEngineLeaks
    BY <1>8 DEF NoEngineLeaks
<1>15. ConnectionsAreFew
    <2>1. ASSUME NEW e \in Engines
          PROVE  engine[e].idle + Cardinality(InUse(e)) <= Cardinality(Callers)
        BY <1>8, FewNow
    <2>2. QED BY <2>1 DEF ConnectionsAreFew
<1>16. GoneIsClosed
    BY DEF Init, GoneIsClosed
<1>17. QED
    BY <1>5, <1>6, <1>9, <1>10, <1>11, <1>12, <1>13, <1>14, <1>15, <1>16 DEF IInv

\* IInv is an invariant of the specification.
THEOREM Invariance == Spec => []IInv
<1>1. Init => IInv
    BY InitInvariant
<1>2. IInv /\ [Next]_vars => IInv'
    BY TypeStep, ControlStep, HandsStep, BooksStep, EntriesStep, OwnershipStep, InHandStep, VacantStep,
       WarmStep, GoneStep DEF IInv, Ownership
<1>3. QED
    BY <1>1, <1>2, PTL DEF Spec

-----------------------------------------------------------------------------
(* The theorems.                                                           *)

\* TypeOK: every variable of the registry, its callers and the operator keeps its
\* type; no engine ever has more idle connections than there are coroutines.
THEOREM TypeCorrect == Spec => []TypeOK
<1>1. IInv => TypeOK
    BY DEF IInv
<1>2. QED
    BY Invariance, <1>1, PTL

\* pool.py keeps at most max_tenants pools, and one of a tenant, for any number of
\* coroutines: what _make_room_locked and the lookup found is still true when the
\* secret has been read, as nobody else is inside the lock.
THEOREM PoolsBounded == Spec => []PoolsAreBounded
<1>1. ASSUME IInv, NEW t \in Tenants
      PROVE  Cardinality(Pools(t)) <= 1
    <2>1. \A e, f \in Pools(t) : e = f
        <3>1. Pools(t) = {e \in Tracked : engine[e].tenant = t}
            BY <1>1, EntriesNow
        <3>2. QED BY <1>1, <3>1 DEF IInv, OnePool
    <2>2. CASE Pools(t) = {}
        BY <2>2, FS_EmptySet
    <2>3. CASE Pools(t) # {}
        <3>1. PICK e : Pools(t) = {e}
            BY <2>1, <2>3
        <3>2. Cardinality({e}) = 1
            BY FS_Singleton
        <3>3. QED BY <3>1, <3>2
    <2>4. QED BY <2>2, <2>3
<1>2. IInv => PoolsAreBounded
    BY <1>1 DEF IInv, Roomy, PoolsAreBounded
<1>3. QED
    BY Invariance, <1>2, PTL

\* No engine is lost: one that is open is tracked, or in the hands of the coroutine
\* that popped it and is to dispose of it.
THEOREM EnginesAreOwned == Spec => []NoEngineLeaks
<1>1. IInv => NoEngineLeaks
    BY DEF IInv
<1>2. QED
    BY Invariance, <1>1, PTL

\* pool.py evict: after it returned no tracked pool has an idle connection that was
\* opened with a password older than the one current by then.
THEOREM WarmPoolsCorrect == Spec => []WarmPoolsAreCurrent
<1>1. ASSUME IInv, NEW e \in ToSet(entries), engine[e].idle > 0
      PROVE  engine[e].password >= evicted[engine[e].tenant]
    BY <1>1 DEF IInv, WarmIsCurrent, Warm, Current, Tracked
<1>2. IInv => WarmPoolsAreCurrent
    BY <1>1 DEF WarmPoolsAreCurrent
<1>3. QED
    BY Invariance, <1>2, PTL

\* A tenant whose role and secret were gone when evict returned has no pool, now or later,
\* whoever still holds one of its handles.
THEOREM GoneForGood == Spec => []DeprovisionedHaveNoPool
<1>1. IInv => DeprovisionedHaveNoPool
    BY DEF IInv, GoneIsClosed, Closed, DeprovisionedHaveNoPool
<1>2. QED
    BY Invariance, <1>1, PTL

=============================================================================

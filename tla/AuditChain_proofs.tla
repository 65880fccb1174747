-------------------------- MODULE AuditChain_proofs --------------------------
(***************************************************************************)
(* Proofs about AuditChain for every set of writers and every number of     *)
(* events and of damages.                                                  *)
(***************************************************************************)
EXTENDS AuditChain, SequenceTheorems, TLAPS

\* A trail nobody touched: each event is sound, and its payload the recorded one.
Honest(c) == \A i \in DOMAIN c : Sound(c, i) /\ c[i].body # 0

\* An altered trail: numbered without a gap, but some event does not have its digest.
Forged(c) ==
    /\ \A i \in DOMAIN c : c[i].seq = i
    /\ \E i \in DOMAIN c : c[i].hash # Digest(c[i])

\* A trail that lost an event from its middle: the first that is not sound has a
\* number that is not its place.
Gapped(c) == \E i \in DOMAIN c : c[i].seq # i /\ \A j \in 1..(i - 1) : Sound(c, j)

\* No two events have one number, whatever was lost.
Ascending(c) == \A i, j \in DOMAIN c : i < j => c[i].seq < c[j].seq

\* What a trail shows of what was done to it.
Shape(c, d) ==
    /\ d = "none" => Honest(c)
    /\ d = "altered" => Forged(c)
    /\ d = "gap" => Gapped(c)
    /\ Ascending(c)

\* What was done to the trail shows in it, and in what an open transaction sees.
TrailsKeepShape ==
    /\ Shape(chain, damage)
    /\ \A w \in Writers : Shape(Seen(w), damage)

\* The checkpoint is that of the last event, until events are lost or altered; it
\* stays, whatever happens to them.
CheckpointKept ==
    /\ damage = "none" /\ ~head.offboarded =>
        /\ head.seq = Len(chain)
        /\ chain # <<>> => head.hash = chain[Len(chain)].hash
    /\ damage # "none" => head.seq # 0

\* Nothing follows an offboarding.
OffboardedIsOver ==
    head.offboarded => head.seq # 0 /\ chain = <<>> /\ holder = None /\ damage = "none"

IInv ==
    /\ TypeOK
    /\ TrailsKeepShape
    /\ CheckpointKept
    /\ OffboardedIsOver

-----------------------------------------------------------------------------
(* Sequences.                                                              *)

\* Appending to the second part appends to the whole.
LEMMA ConcatAppend ==
    ASSUME NEW S, NEW s \in Seq(S), NEW t \in Seq(S), NEW e \in S
    PROVE  s \o Append(t, e) = Append(s \o t, e)
<1> DEFINE u == <<e>>
<1>1. u \in Seq(S) /\ Append(t, e) = t \o u
    BY AppendIsConcat
<1>2. s \o t \in Seq(S)
    BY ConcatProperties
<1>3. Append(s \o t, e) = (s \o t) \o u
    BY <1>2, AppendIsConcat
<1> HIDE DEF u
<1>4. (s \o t) \o u = s \o (t \o u)
    BY <1>1, ConcatAssociative
<1>5. QED
    BY <1>1, <1>3, <1>4

\* The first n elements.
LEMMA Prefix ==
    ASSUME NEW S, NEW s \in Seq(S), NEW n \in Nat, n <= Len(s)
    PROVE  /\ SubSeq(s, 1, n) \in Seq(S) /\ Len(SubSeq(s, 1, n)) = n
           /\ \A j \in 1..n : SubSeq(s, 1, n)[j] = s[j]
<1>1. Len(s) \in Nat /\ \A j \in 1..n : s[j] \in S
    BY LenProperties, ElementOfSeq
<1>2. /\ SubSeq(s, 1, n) \in Seq(S)
      /\ Len(SubSeq(s, 1, n)) = IF 1 <= n THEN n - 1 + 1 ELSE 0
      /\ \A j \in 1..(n - 1 + 1) : SubSeq(s, 1, n)[j] = s[1 + j - 1]
    BY <1>1, SubSeqProperties
<1>3. /\ n - 1 + 1 = n /\ (IF 1 <= n THEN n - 1 + 1 ELSE 0) = n
      /\ \A j \in 1..n : 1 + j - 1 = j
    OBVIOUS
<1>4. QED
    BY <1>2, <1>3

\* What follows the i-th element.
LEMMA Suffix ==
    ASSUME NEW S, NEW s \in Seq(S), NEW i \in 1..Len(s)
    PROVE  /\ SubSeq(s, i + 1, Len(s)) \in Seq(S)
           /\ Len(SubSeq(s, i + 1, Len(s))) = Len(s) - i
           /\ \A j \in 1..(Len(s) - i) : SubSeq(s, i + 1, Len(s))[j] = s[j + i]
<1>1. Len(s) \in Nat /\ \A j \in (i + 1)..Len(s) : s[j] \in S
    BY LenProperties, ElementOfSeq
<1>2. /\ SubSeq(s, i + 1, Len(s)) \in Seq(S)
      /\ Len(SubSeq(s, i + 1, Len(s))) = IF i + 1 <= Len(s) THEN Len(s) - (i + 1) + 1 ELSE 0
      /\ \A j \in 1..(Len(s) - (i + 1) + 1) : SubSeq(s, i + 1, Len(s))[j] = s[i + 1 + j - 1]
    BY <1>1, SubSeqProperties
<1>3. /\ Len(s) - (i + 1) + 1 = Len(s) - i
      /\ (IF i + 1 <= Len(s) THEN Len(s) - (i + 1) + 1 ELSE 0) = Len(s) - i
      /\ \A j \in 1..(Len(s) - i) : i + 1 + j - 1 = j + i
    BY <1>1
<1>4. QED
    BY <1>2, <1>3

\* A sequence without its i-th element ...
Without(s, i) == SubSeq(s, 1, i - 1) \o SubSeq(s, i + 1, Len(s))

\* ... and what it holds.
LEMMA WithoutOne ==
    ASSUME NEW S, NEW s \in Seq(S), NEW i \in 1..Len(s)
    PROVE  /\ Without(s, i) \in Seq(S) /\ Len(Without(s, i)) = Len(s) - 1
           /\ \A j \in 1..(i - 1) : Without(s, i)[j] = s[j]
           /\ \A j \in i..(Len(s) - 1) : Without(s, i)[j] = s[j + 1]
<1> DEFINE a == SubSeq(s, 1, i - 1)
           b == SubSeq(s, i + 1, Len(s))
           r == Without(s, i)
<1>1. Len(s) \in Nat /\ i - 1 \in Nat /\ i - 1 <= Len(s)
    BY LenProperties
<1>2. /\ a \in Seq(S) /\ Len(a) = i - 1
      /\ \A j \in 1..(i - 1) : a[j] = s[j]
    BY <1>1, Prefix
<1>3. /\ b \in Seq(S) /\ Len(b) = Len(s) - i
      /\ \A j \in 1..(Len(s) - i) : b[j] = s[j + i]
    BY Suffix
<1>4. r = a \o b
    BY DEF Without
<1> HIDE DEF a, b, r
<1>5. /\ r \in Seq(S) /\ Len(r) = Len(a) + Len(b)
      /\ \A j \in 1..(Len(a) + Len(b)) : r[j] = IF j <= Len(a) THEN a[j] ELSE b[j - Len(a)]
    <2>1. a \in Seq(S) /\ b \in Seq(S)
        BY <1>2, <1>3
    <2>2. /\ a \o b \in Seq(S) /\ Len(a \o b) = Len(a) + Len(b)
          /\ \A j \in 1..(Len(a) + Len(b)) : (a \o b)[j] = IF j <= Len(a) THEN a[j] ELSE b[j - Len(a)]
        BY <2>1, ConcatProperties, Zenon
    <2>3. QED BY <1>4, <2>2
<1>6. Len(a) + Len(b) = Len(s) - 1
    BY <1>1, <1>2, <1>3
<1>7. ASSUME NEW j \in 1..(i - 1)
      PROVE  r[j] = s[j]
    <2>1. j \in 1..(Len(s) - 1) /\ j <= Len(a)
        BY <1>1, <1>2
    <2>2. QED BY <1>2, <1>5, <1>6, <2>1
<1>8. ASSUME NEW j \in i..(Len(s) - 1)
      PROVE  r[j] = s[j + 1]
    <2>1. /\ j \in 1..(Len(s) - 1) /\ ~(j <= Len(a)) /\ j - Len(a) \in 1..(Len(s) - i)
          /\ (j - Len(a)) + i = j + 1
        BY <1>1, <1>2
    <2>2. r[j] = b[j - Len(a)]
        BY <1>5, <1>6, <2>1
    <2>3. b[j - Len(a)] = s[(j - Len(a)) + i]
        BY <1>3, <2>1
    <2>4. QED BY <2>1, <2>2, <2>3
<1>9. QED
    BY <1>5, <1>6, <1>7, <1>8 DEF r

\* r is s without the m elements after the n-th.
Lost(r, s, n, m) ==
    /\ n \in Nat /\ m \in Nat \ {0} /\ n + m <= Len(s) /\ Len(r) = Len(s) - m
    /\ \A j \in 1..n : r[j] = s[j]
    /\ \A j \in (n + 1)..(Len(s) - m) : r[j] = s[j + m]

\* What is lost from the first part is lost from the whole.
LEMMA LossInFront ==
    ASSUME NEW S, NEW s \in Seq(S), NEW r \in Seq(S), NEW t \in Seq(S), NEW n, NEW m,
           Lost(r, s, n, m)
    PROVE  Lost(r \o t, s \o t, n, m) /\ r \o t \in Seq(S) /\ Len(s) <= Len(s \o t)
<1> DEFINE c == s \o t
           d == r \o t
<1>0. /\ n \in Nat /\ m \in Nat \ {0} /\ n + m <= Len(s) /\ Len(r) = Len(s) - m
      /\ \A j \in 1..n : r[j] = s[j]
      /\ \A j \in (n + 1)..(Len(s) - m) : r[j] = s[j + m]
    BY DEF Lost
<1>1. Len(s) \in Nat /\ Len(t) \in Nat /\ Len(r) \in Nat
    BY LenProperties
<1>2. /\ Len(c) = Len(s) + Len(t)
      /\ \A i \in 1..(Len(s) + Len(t)) : c[i] = IF i <= Len(s) THEN s[i] ELSE t[i - Len(s)]
    BY ConcatProperties
<1>3. /\ d \in Seq(S) /\ Len(d) = Len(r) + Len(t)
      /\ \A i \in 1..(Len(r) + Len(t)) : d[i] = IF i <= Len(r) THEN r[i] ELSE t[i - Len(r)]
    BY ConcatProperties
<1> HIDE DEF c, d
<1>4. Len(s) <= Len(c) /\ Len(d) = Len(c) - m
    BY <1>0, <1>1, <1>2, <1>3
<1>5. ASSUME NEW j \in 1..n
      PROVE  d[j] = c[j]
    <2>1. j \in 1..(Len(s) + Len(t)) /\ j <= Len(s) /\ j \in 1..(Len(r) + Len(t)) /\ j <= Len(r)
        BY <1>0, <1>1
    <2>2. QED BY <1>0, <1>2, <1>3, <2>1
<1>6. ASSUME NEW j \in (n + 1)..(Len(c) - m)
      PROVE  d[j] = c[j + m]
    <2>1. j \in 1..(Len(r) + Len(t)) /\ j + m \in 1..(Len(s) + Len(t))
        BY <1>0, <1>1, <1>2
    <2>2. CASE j <= Len(r)
        <3>1. j + m <= Len(s) /\ j \in (n + 1)..(Len(s) - m)
            BY <1>0, <1>1, <2>2
        <3>2. QED BY <1>0, <1>2, <1>3, <2>1, <2>2, <3>1
    <2>3. CASE ~(j <= Len(r))
        <3>1. ~(j + m <= Len(s)) /\ (j + m) - Len(s) = j - Len(r)
            BY <1>0, <1>1, <2>3
        <3>2. d[j] = t[j - Len(r)] /\ c[j + m] = t[(j + m) - Len(s)]
            BY <1>0, <1>2, <1>3, <2>1, <2>3, <3>1
        <3>3. QED BY <3>1, <3>2
    <2>4. QED BY <2>2, <2>3
<1>7. QED
    BY <1>0, <1>1, <1>3, <1>4, <1>5, <1>6 DEF c, d, Lost

\* So is what is altered in it.
LEMMA ChangeInFront ==
    ASSUME NEW S, NEW s \in Seq(S), NEW r \in Seq(S), NEW t \in Seq(S), NEW i \in 1..Len(s),
           Len(r) = Len(s),
           \A j \in 1..Len(s) : j # i => r[j] = s[j]
    PROVE  /\ r \o t \in Seq(S) /\ Len(r \o t) = Len(s \o t) /\ i \in 1..Len(s \o t)
           /\ (r \o t)[i] = r[i] /\ (s \o t)[i] = s[i]
           /\ \A j \in 1..Len(s \o t) : j # i => (r \o t)[j] = (s \o t)[j]
<1>1. Len(s) \in Nat /\ Len(t) \in Nat
    BY LenProperties
<1>2. /\ Len(s \o t) = Len(s) + Len(t)
      /\ \A j \in 1..(Len(s) + Len(t)) : (s \o t)[j] = IF j <= Len(s) THEN s[j] ELSE t[j - Len(s)]
    BY ConcatProperties
<1>3. /\ r \o t \in Seq(S) /\ Len(r \o t) = Len(s) + Len(t)
      /\ \A j \in 1..(Len(s) + Len(t)) : (r \o t)[j] = IF j <= Len(s) THEN r[j] ELSE t[j - Len(s)]
    <2>1. /\ r \o t \in Seq(S) /\ Len(r \o t) = Len(r) + Len(t)
          /\ \A j \in 1..(Len(r) + Len(t)) : (r \o t)[j] = IF j <= Len(r) THEN r[j] ELSE t[j - Len(r)]
        BY ConcatProperties, Zenon
    <2>2. QED BY <2>1
<1>4. QED
    BY <1>1, <1>2, <1>3

-----------------------------------------------------------------------------
(* Trails.                                                                 *)

\* What a writer sees is the committed trail and then the events of its own.
LEMMA SeenEvents ==
    ASSUME TypeOK, NEW w \in Writers
    PROVE  /\ Seen(w) \in Seq(Events)
           /\ Len(Seen(w)) = Len(chain) + Len(tx[w])
           /\ \A i \in 1..(Len(chain) + Len(tx[w])) :
                Seen(w)[i] = IF i <= Len(chain) THEN chain[i] ELSE tx[w][i - Len(chain)]
BY ConcatProperties DEF Seen, TypeOK

\* Without events of its own it sees the committed ones.
LEMMA IdleSees ==
    ASSUME TypeOK, NEW w \in Writers, tx[w] = <<>>
    PROVE  Seen(w) = chain
BY ConcatEmptySeq DEF Seen, TypeOK

\* Two trails that agree up to some event agree on whether it is sound.
LEMMA SoundnessIsLocal ==
    ASSUME NEW c, NEW d, NEW i \in Nat \ {0}, \A j \in 1..i : c[j] = d[j]
    PROVE  Sound(c, i) <=> Sound(d, i)
<1>1. c[i] = d[i] /\ (i # 1 => c[i - 1] = d[i - 1])
    OBVIOUS
<1>2. Before(c, i) = Before(d, i)
    BY <1>1 DEF Before
<1>3. QED
    BY <1>1, <1>2 DEF Sound

\* The event that record computes from the last one of a trail.
Following(c) ==
    IF c = <<>> THEN [seq |-> 1, body |-> next, prev |-> Genesis, hash |-> Append(Genesis, <<1, next>>)]
    ELSE [seq |-> c[Len(c)].seq + 1, body |-> next, prev |-> c[Len(c)].hash,
          hash |-> Append(c[Len(c)].hash, <<c[Len(c)].seq + 1, next>>)]

\* It is an event, with its digest and a fresh payload.
LEMMA FollowingEvent ==
    ASSUME NEW c \in Seq(Events), next \in Nat \ {0}
    PROVE  /\ Following(c) \in Events
           /\ Following(c).hash = Digest(Following(c)) /\ Following(c).body # 0
           /\ c = <<>> => Following(c).seq = 1 /\ Following(c).prev = Genesis
           /\ c # <<>> => /\ Following(c).seq = c[Len(c)].seq + 1
                          /\ Following(c).prev = c[Len(c)].hash
<1>1. CASE c = <<>>
    <2>1. Genesis \in Hashes /\ <<1, next>> \in Nat \X Nat
        BY DEF Genesis, Hashes
    <2>2. Append(Genesis, <<1, next>>) \in Hashes
        BY <2>1, AppendProperties DEF Hashes
    <2>3. QED
        BY <1>1, <2>1, <2>2 DEF Following, Events, Digest
<1>2. CASE c # <<>>
    <2>1. c[Len(c)] \in Events
        BY <1>2, EmptySeq, LenProperties, ElementOfSeq
    <2>2. c[Len(c)].hash \in Hashes /\ <<c[Len(c)].seq + 1, next>> \in Nat \X Nat
        BY <2>1 DEF Events
    <2>3. Append(c[Len(c)].hash, <<c[Len(c)].seq + 1, next>>) \in Hashes
        BY <2>2, AppendProperties DEF Hashes
    <2>4. QED
        BY <1>2, <2>1, <2>2, <2>3 DEF Following, Events, Digest
<1>3. QED
    BY <1>1, <1>2

\* Recording keeps the shape of a trail, whatever was done to it before: honest ones
\* stay honest, and no damage is covered up.
LEMMA AppendKeepsShape ==
    ASSUME NEW c \in Seq(Events), NEW d, Shape(c, d), next \in Nat \ {0}
    PROVE  Shape(Append(c, Following(c)), d)
<1> DEFINE e == Following(c)
           a == Append(c, e)
<1>1. /\ e \in Events /\ e.hash = Digest(e) /\ e.body # 0
      /\ c = <<>> => e.seq = 1 /\ e.prev = Genesis
      /\ c # <<>> => e.seq = c[Len(c)].seq + 1 /\ e.prev = c[Len(c)].hash
    BY FollowingEvent
<1> HIDE DEF e
<1>2. /\ Len(c) \in Nat /\ DOMAIN c = 1..Len(c) /\ c # <<>> <=> Len(c) # 0
      /\ \A i \in 1..Len(c) : c[i] \in Events
    BY LenProperties, EmptySeq, ElementOfSeq
<1>3. /\ a \in Seq(Events) /\ DOMAIN a = 1..(Len(c) + 1) /\ Len(a) = Len(c) + 1
      /\ a[Len(c) + 1] = e
      /\ \A i \in 1..Len(c) : a[i] = c[i]
    BY <1>1, AppendProperties, LenProperties
<1> HIDE DEF a
<1>4. \A i \in 1..Len(c) : Sound(a, i) <=> Sound(c, i)
    <2> TAKE i \in 1..Len(c)
    <2>1. \A j \in 1..i : a[j] = c[j]
        BY <1>2, <1>3
    <2>2. QED BY <1>2, <2>1, SoundnessIsLocal
<1>5. ASSUME d = "none"
      PROVE  Honest(a)
    <2>1. Honest(c)
        BY <1>5 DEF Shape
    <2>2. c # <<>> => c[Len(c)].seq = Len(c)
        BY <1>2, <2>1 DEF Honest, Sound
    <2>3. e.seq = Len(c) + 1 /\ e.prev = Before(a, Len(c) + 1)
        BY <1>1, <1>2, <1>3, <2>2 DEF Before
    <2>4. Sound(a, Len(c) + 1) /\ a[Len(c) + 1].body # 0
        BY <1>1, <1>3, <2>3 DEF Sound
    <2>5. \A i \in 1..Len(c) : Sound(a, i) /\ a[i].body # 0
        BY <1>2, <1>3, <1>4, <2>1 DEF Honest
    <2>6. QED
        BY <1>2, <1>3, <2>4, <2>5 DEF Honest
<1>6. ASSUME d = "altered"
      PROVE  Forged(a)
    <2>1. Forged(c) /\ c # <<>>
        BY <1>2, <1>6 DEF Shape, Forged
    <2>2. e.seq = Len(c) + 1
        BY <1>1, <1>2, <2>1 DEF Forged
    <2>3. QED
        BY <1>2, <1>3, <2>1, <2>2 DEF Forged
<1>7. ASSUME d = "gap"
      PROVE  Gapped(a)
    BY <1>2, <1>3, <1>4, <1>7 DEF Shape, Gapped
<1>8. Ascending(a)
    <2>1. \A i \in 1..Len(c) : c[i].seq < e.seq
        <3> TAKE i \in 1..Len(c)
        <3>1. c # <<>> /\ Len(c) \in 1..Len(c) /\ c[i].seq \in Nat /\ c[Len(c)].seq \in Nat
            BY <1>2 DEF Events
        <3>2. i = Len(c) \/ c[i].seq < c[Len(c)].seq
            BY <1>2, <3>1 DEF Shape, Ascending
        <3>3. QED BY <1>1, <3>1, <3>2
    <2>2. QED
        BY <1>2, <1>3, <2>1 DEF Shape, Ascending
<1>9. QED
    BY <1>5, <1>6, <1>7, <1>8 DEF Shape, a, e

\* Altering an event's payload leaves its digest wrong, and the numbers in place.
LEMMA AlterKeepsShape ==
    ASSUME NEW c \in Seq(Events), NEW d \in Seq(Events), Shape(c, "none"), NEW i \in 1..Len(c),
           Len(d) = Len(c), d[i] = [c[i] EXCEPT !.body = 0],
           \A j \in 1..Len(c) : j # i => d[j] = c[j]
    PROVE  Shape(d, "altered")
<1>1. /\ DOMAIN c = 1..Len(c) /\ DOMAIN d = 1..Len(c) /\ Len(c) \in Nat
      /\ \A j \in 1..Len(c) : c[j] \in Events
    BY LenProperties, ElementOfSeq
<1>2. \A j \in 1..Len(c) : c[j].seq = j /\ c[j].hash = Digest(c[j]) /\ c[j].body # 0
    BY <1>1 DEF Shape, Honest, Sound
<1>3. /\ c[i] \in Events /\ c[i].hash = Digest(c[i]) /\ c[i].body \in Nat \ {0}
      /\ d[i].seq = c[i].seq /\ d[i].prev = c[i].prev /\ d[i].hash = c[i].hash /\ d[i].body = 0
    <2>1. c[i] \in Events /\ c[i].hash = Digest(c[i]) /\ c[i].body # 0
        BY <1>1, <1>2
    <2>2. /\ d[i].seq = c[i].seq /\ d[i].prev = c[i].prev
          /\ d[i].hash = c[i].hash /\ d[i].body = 0 /\ c[i].body \in Nat
        BY <2>1 DEF Events
    <2>3. QED BY <2>1, <2>2
<1>4. d[i].hash # Digest(d[i])
    <2>1. /\ c[i].prev \in Seq(Nat \X Nat) /\ <<c[i].seq, c[i].body>> \in Nat \X Nat
          /\ <<c[i].seq, 0>> \in Nat \X Nat /\ <<c[i].seq, 0>> # <<c[i].seq, c[i].body>>
        <3>1. c[i].prev \in Hashes /\ c[i].seq \in Nat /\ c[i].body \in Nat /\ c[i].body # 0
            BY <1>3 DEF Events
        <3>2. <<c[i].seq, c[i].body>> \in Nat \X Nat /\ <<c[i].seq, 0>> \in Nat \X Nat
            BY <3>1
        <3>3. <<c[i].seq, 0>> # <<c[i].seq, c[i].body>>
            BY <3>1
        <3>4. QED BY <3>1, <3>2, <3>3 DEF Hashes
    <2>2. Append(c[i].prev, <<c[i].seq, c[i].body>>) # Append(c[i].prev, <<c[i].seq, 0>>)
        BY <2>1, AppendInjective
    <2>3. QED BY <1>3, <2>2 DEF Digest
<1>5. \A j \in 1..Len(c) : d[j].seq = j
    BY <1>2, <1>3
<1>6. Forged(d)
    BY <1>1, <1>4, <1>5 DEF Forged
<1>7. QED
    BY <1>1, <1>5, <1>6 DEF Shape, Ascending

\* Losing the m events after the n-th of an honest trail leaves a gap there, or if
\* nothing follows no trace but the numbers' order.
LEMMA LossKeepsShape ==
    ASSUME NEW c \in Seq(Events), NEW d \in Seq(Events), Shape(c, "none"),
           NEW n, NEW m, Lost(d, c, n, m)
    PROVE  /\ \A kind \in {"tail", "all"} : Shape(d, kind)
           /\ n + m < Len(c) => Shape(d, "gap")
<1>0. /\ n \in Nat /\ m \in Nat \ {0} /\ n + m <= Len(c) /\ Len(d) = Len(c) - m
      /\ \A j \in 1..n : d[j] = c[j]
      /\ \A j \in (n + 1)..(Len(c) - m) : d[j] = c[j + m]
    BY DEF Lost
<1>1. /\ DOMAIN c = 1..Len(c) /\ DOMAIN d = 1..(Len(c) - m) /\ Len(c) \in Nat
    BY <1>0, LenProperties
<1>2. \A j \in 1..Len(c) : c[j].seq = j /\ Sound(c, j)
    BY <1>0, <1>1 DEF Shape, Honest, Sound
<1>3. Ascending(d)
    <2>1. \A j \in 1..(Len(c) - m) : d[j].seq = IF j <= n THEN j ELSE j + m
        BY <1>0, <1>1, <1>2, SMTT(30)
    <2>2. QED BY <1>0, <1>1, <2>1 DEF Ascending
<1>4. ASSUME n + m < Len(c)
      PROVE  Gapped(d)
    <2>1. n + 1 \in 1..(Len(c) - m) /\ d[n + 1].seq = n + 1 + m
        BY <1>0, <1>1, <1>2, <1>4, SMTT(30)
    <2>2. \A j \in 1..n : Sound(d, j)
        <3> TAKE j \in 1..n
        <3>1. j \in Nat \ {0} /\ j \in 1..Len(c) /\ \A k \in 1..j : c[k] = d[k]
            BY <1>0, <1>1
        <3>2. QED BY <1>2, <3>1, SoundnessIsLocal
    <2>3. d[n + 1].seq # n + 1 /\ (n + 1) - 1 = n
        BY <1>0, <2>1
    <2>4. QED
        BY <1>0, <1>1, <2>1, <2>2, <2>3 DEF Gapped
<1>5. QED
    BY <1>3, <1>4 DEF Shape

-----------------------------------------------------------------------------
(* Steps.                                                                  *)

\* What a writer records continues the trail that it sees.
LEMMA RecordAppends ==
    ASSUME TypeOK, NEW w \in Writers, Record(w)
    PROVE  /\ Following(Seen(w)) \in Events
           /\ tx' = [tx EXCEPT ![w] = Append(tx[w], Following(Seen(w)))]
           /\ Seen(w)' = Append(Seen(w), Following(Seen(w)))
<1>1. Seen(w) \in Seq(Events) /\ Len(Seen(w)) \in Nat
    BY SeenEvents, LenProperties
<1>2. Len(Seen(w)) = 0 <=> Seen(w) = <<>>
    BY <1>1, EmptySeq
<1>3. NewEvent(w) = Following(Seen(w))
    BY <1>2 DEF NewEvent, Following
<1>4. Following(Seen(w)) \in Events
    BY <1>1, FollowingEvent DEF TypeOK
<1>5. tx' = [tx EXCEPT ![w] = Append(tx[w], Following(Seen(w)))] /\ UNCHANGED chain
    BY <1>3 DEF Record
<1>6. Seen(w)' = chain \o Append(tx[w], Following(Seen(w)))
    BY <1>5 DEF Seen, TypeOK
<1>7. chain \in Seq(Events) /\ tx[w] \in Seq(Events)
    BY DEF TypeOK
<1>8. chain \o Append(tx[w], Following(Seen(w))) = Append(chain \o tx[w], Following(Seen(w)))
    BY <1>4, <1>7, ConcatAppend
<1>9. QED
    BY <1>4, <1>5, <1>6, <1>8 DEF Seen

\* The checkpoint a COMMIT leaves.
LEMMA AdvancedHead ==
    ASSUME NEW h \in Heads, NEW e \in Events
    PROVE  /\ Advanced(h, e) \in Heads
           /\ Advanced(h, e).offboarded = h.offboarded
           /\ h.seq # 0 => Advanced(h, e).seq # 0
           /\ h.seq < e.seq => Advanced(h, e).seq = e.seq /\ Advanced(h, e).hash = e.hash
<1>1. h.seq \in Nat /\ e.seq \in Nat /\ e.hash \in Hashes
    BY DEF Heads, Events
<1>2. CASE h.seq < e.seq
    <2>1. Advanced(h, e) = [h EXCEPT !.seq = e.seq, !.hash = e.hash]
        BY <1>2 DEF Advanced
    <2>2. /\ Advanced(h, e) \in Heads /\ Advanced(h, e).offboarded = h.offboarded
          /\ Advanced(h, e).seq = e.seq /\ Advanced(h, e).hash = e.hash
        BY <1>1, <2>1 DEF Heads
    <2>3. QED BY <1>1, <1>2, <2>2
<1>3. CASE ~(h.seq < e.seq)
    BY <1>3 DEF Advanced
<1>4. QED
    BY <1>2, <1>3

\* The last event of a non-empty transaction is the last of what its writer sees.
LEMMA LastSeen ==
    ASSUME TypeOK, NEW w \in Writers, tx[w] # <<>>
    PROVE  /\ Len(tx[w]) \in Nat \ {0} /\ tx[w][Len(tx[w])] \in Events
           /\ Len(Seen(w)) = Len(chain) + Len(tx[w]) /\ Len(Seen(w)) \in Nat \ {0}
           /\ Seen(w)[Len(Seen(w))] = tx[w][Len(tx[w])]
<1>1. tx[w] \in Seq(Events) /\ Len(tx[w]) \in Nat \ {0} /\ Len(chain) \in Nat
    BY EmptySeq, LenProperties DEF TypeOK
<1>2. tx[w][Len(tx[w])] \in Events
    BY <1>1, ElementOfSeq
<1>3. /\ Len(Seen(w)) = Len(chain) + Len(tx[w])
      /\ Seen(w)[Len(chain) + Len(tx[w])] = tx[w][(Len(chain) + Len(tx[w])) - Len(chain)]
    BY <1>1, SeenEvents
<1>4. QED
    BY <1>1, <1>2, <1>3

\* What Damage leaves of the trail.
LEMMA DamagedEvents ==
    ASSUME TypeOK, Alter \/ LoseInterior \/ LoseTail \/ LoseAll
    PROVE  /\ chain' \in Seq(Events) /\ damage = "none" /\ chain # <<>>
           /\ UNCHANGED <<head, tx, holder, next, read, verdict>>
           /\ damages < MaxDamages /\ damages' = damages + 1
           /\ \/ /\ damage' = "altered" /\ Len(chain') = Len(chain)
                 /\ \E i \in 1..Len(chain) :
                        /\ chain'[i] = [chain[i] EXCEPT !.body = 0]
                        /\ \A j \in 1..Len(chain) : j # i => chain'[j] = chain[j]
              \/ \E n, m :
                    /\ Lost(chain', chain, n, m)
                    /\ \/ damage' = "gap" /\ n + m < Len(chain)
                       \/ damage' \in {"tail", "all"}
<1>1. /\ chain \in Seq(Events) /\ Len(chain) \in Nat /\ DOMAIN chain = 1..Len(chain)
      /\ \A i \in 1..Len(chain) : chain[i] \in Events
      /\ chain = <<>> <=> Len(chain) = 0
    BY LenProperties, ElementOfSeq, EmptySeq DEF TypeOK
<1>2. CASE Alter
    <2>1. PICK i \in 1..Len(chain) : Damage("altered", [chain EXCEPT ![i].body = 0])
        BY <1>1, <1>2 DEF Alter
    <2>2. chain' = [chain EXCEPT ![i] = [chain[i] EXCEPT !.body = 0]]
        BY <2>1 DEF Damage
    <2>3. [chain[i] EXCEPT !.body = 0] \in Events
        BY <1>1 DEF Events
    <2>4. /\ chain' \in Seq(Events) /\ Len(chain') = Len(chain)
          /\ \A j \in 1..Len(chain) :
                chain'[j] = IF j = i THEN [chain[i] EXCEPT !.body = 0] ELSE chain[j]
        BY <1>1, <2>2, <2>3, ExceptSeq
    <2>5. chain # <<>>
        BY <1>1
    <2>6. QED
        BY <2>1, <2>4, <2>5 DEF Damage
<1>3. CASE LoseInterior
    <2>1. PICK i \in 1..Len(chain) : i < Len(chain)
              /\ Damage("gap", SubSeq(chain, 1, i - 1) \o SubSeq(chain, i + 1, Len(chain)))
        BY <1>1, <1>3 DEF LoseInterior
    <2>2. chain' = Without(chain, i)
        BY <2>1 DEF Damage, Without
    <2>3. /\ chain' \in Seq(Events) /\ Len(chain') = Len(chain) - 1
          /\ \A j \in 1..(i - 1) : chain'[j] = chain[j]
          /\ \A j \in i..(Len(chain) - 1) : chain'[j] = chain[j + 1]
        BY <1>1, <2>2, WithoutOne
    <2>4. PICK n \in Nat : n = i - 1
        OBVIOUS
    <2>5. /\ n + 1 = i /\ n + 1 <= Len(chain) /\ n + 1 < Len(chain) /\ chain # <<>> /\ 1 \in Nat \ {0}
        BY <1>1, <2>1, <2>4
    <2>6. /\ \A j \in 1..n : chain'[j] = chain[j]
          /\ \A j \in (n + 1)..(Len(chain) - 1) : chain'[j] = chain[j + 1]
        BY <2>3, <2>4, <2>5
    <2>7. Lost(chain', chain, n, 1)
        BY <2>3, <2>5, <2>6 DEF Lost
    <2>8. QED
        BY <2>1, <2>3, <2>5, <2>7 DEF Damage
<1>4. CASE LoseTail
    <2>1. PICK n \in 1..Len(chain) : n < Len(chain) /\ Damage("tail", SubSeq(chain, 1, n))
        BY <1>1, <1>4 DEF LoseTail
    <2>2. chain' = SubSeq(chain, 1, n) /\ chain # <<>>
        BY <1>1, <2>1 DEF Damage
    <2>3. chain' \in Seq(Events) /\ Len(chain') = n /\ \A j \in 1..n : chain'[j] = chain[j]
        BY <1>1, <2>1, <2>2, Prefix
    <2>4. n \in Nat /\ Len(chain) \in Nat /\ n < Len(chain)
        BY <1>1, <2>1
    <2>5. PICK m \in Nat \ {0} : m = Len(chain) - n
        BY <2>4
    <2>6. /\ n + m <= Len(chain) /\ n = Len(chain) - m
          /\ \A j \in (n + 1)..(Len(chain) - m) : chain'[j] = chain[j + m]
        BY <2>4, <2>5
    <2>7. Lost(chain', chain, n, m)
        BY <2>3, <2>4, <2>6 DEF Lost
    <2>8. QED
        BY <2>1, <2>2, <2>3, <2>7 DEF Damage
<1>5. CASE LoseAll
    <2>1. chain' = <<>> /\ chain # <<>> /\ Damage("all", <<>>)
        BY <1>5 DEF LoseAll, Damage
    <2>2. /\ Len(chain) \in Nat \ {0} /\ 0 + Len(chain) <= Len(chain)
          /\ Len(chain') = Len(chain) - Len(chain) /\ chain' \in Seq(Events)
          /\ \A j \in 1..0 : chain'[j] = chain[j]
          /\ \A j \in (0 + 1)..(Len(chain) - Len(chain)) : chain'[j] = chain[j + Len(chain)]
        BY <1>1, <2>1, EmptySeq
    <2>3. Lost(chain', chain, 0, Len(chain))
        BY <2>2 DEF Lost
    <2>4. QED
        BY <2>1, <2>2, <2>3 DEF Damage
<1>6. QED
    BY <1>2, <1>3, <1>4, <1>5

\* Every step keeps the types.
LEMMA TypeStep ==
    ASSUME IInv, Next
    PROVE  TypeOK'
<1>0. TypeOK
    BY DEF IInv
<1>1. ASSUME NEW w \in Writers, Lock(w)
      PROVE  TypeOK'
    BY <1>0, <1>1, ConstantsAssumption DEF Lock, TypeOK
<1>2. ASSUME NEW w \in Writers, Record(w)
      PROVE  TypeOK'
    <2>1. /\ Following(Seen(w)) \in Events
          /\ tx' = [tx EXCEPT ![w] = Append(tx[w], Following(Seen(w)))]
        BY <1>0, <1>2, RecordAppends
    <2>2. Append(tx[w], Following(Seen(w))) \in Seq(Events)
        BY <1>0, <2>1, AppendProperties DEF TypeOK
    <2> HIDE DEF Following
    <2>3. tx' \in [Writers -> Seq(Events)] /\ \A v \in Writers : tx'[v] # <<>> => holder = v
        BY <1>0, <1>2, <2>1, <2>2 DEF Record, TypeOK
    <2>4. next' \in 1..(MaxEvents + 1)
        BY <1>0, <1>2, ConstantsAssumption DEF Record, TypeOK
    <2>5. QED
        BY <1>0, <1>2, <2>3, <2>4 DEF Record, TypeOK
<1>3. ASSUME NEW w \in Writers, Commit(w)
      PROVE  TypeOK'
    <2>1. /\ chain' = Seen(w) /\ tx[w] # <<>> /\ holder = w /\ holder' = None
          /\ head' = Advanced(head, tx[w][Len(tx[w])]) /\ tx' = [tx EXCEPT ![w] = <<>>]
          /\ UNCHANGED <<next, read, verdict, damage, damages>>
        BY <1>3 DEF Commit
    <2>2. chain' \in Seq(Events)
        BY <1>0, <2>1, SeenEvents
    <2>3. head' \in Heads
        <3>1. tx[w][Len(tx[w])] \in Events /\ head \in Heads
            BY <1>0, <2>1, LastSeen DEF TypeOK
        <3>2. QED BY <2>1, <3>1, AdvancedHead
    <2>4. tx' \in [Writers -> Seq(Events)] /\ \A v \in Writers : tx'[v] = <<>>
        BY <1>0, <2>1, EmptySeq DEF TypeOK
    <2>5. QED
        BY <1>0, <2>1, <2>2, <2>3, <2>4 DEF TypeOK
<1>4. ASSUME NEW w \in Writers, Rollback(w)
      PROVE  TypeOK'
    <2>1. tx' \in [Writers -> Seq(Events)] /\ \A v \in Writers : tx'[v] = <<>>
        BY <1>0, <1>4, EmptySeq DEF Rollback, TypeOK
    <2>2. QED
        BY <1>0, <1>4, <2>1 DEF Rollback, TypeOK
<1>5. ASSUME Offboard
      PROVE  TypeOK'
    <2>1. chain' \in Seq(Events)
        BY <1>5, EmptySeq DEF Offboard
    <2>2. head' \in Heads
        BY <1>0, <1>5 DEF Offboard, TypeOK, Heads
    <2>3. QED
        BY <1>0, <1>5, <2>1, <2>2 DEF Offboard, TypeOK
<1>6. ASSUME VerifyHead
      PROVE  TypeOK'
    <2>1. read' \in Seq(Heads) /\ Len(read') <= 1
        BY <1>0, <1>6 DEF VerifyHead, TypeOK
    <2>2. QED
        BY <1>0, <1>6, <2>1 DEF VerifyHead, TypeOK
<1>7. ASSUME VerifyEvents
      PROVE  TypeOK'
    <2>1. Verdict(read[1], chain) \in Statuses
        BY DEF Verdict, Statuses
    <2>2. read' \in Seq(Heads) /\ Len(read') <= 1
        BY <1>7, EmptySeq DEF VerifyEvents
    <2>3. QED
        BY <1>0, <1>7, <2>1, <2>2 DEF VerifyEvents, TypeOK
<1>8. ASSUME Alter \/ LoseInterior \/ LoseTail \/ LoseAll
      PROVE  TypeOK'
    <2>1. /\ chain' \in Seq(Events) /\ damage' \in {"altered", "gap", "tail", "all"}
          /\ UNCHANGED <<head, tx, holder, next, read, verdict>>
          /\ damages < MaxDamages /\ damages' = damages + 1
        BY <1>0, <1>8, DamagedEvents
    <2>2. damages' \in 0..MaxDamages
        BY <1>0, <2>1, ConstantsAssumption DEF TypeOK
    <2>3. QED
        BY <1>0, <2>1, <2>2 DEF TypeOK
<1>9. QED
    BY <1>1, <1>2, <1>3, <1>4, <1>5, <1>6, <1>7, <1>8 DEF Next

\* Damage done to an honest trail shows in it, and in what a writer sees who has
\* recorded events and not committed them.
LEMMA DamageShows ==
    ASSUME IInv, Alter \/ LoseInterior \/ LoseTail \/ LoseAll
    PROVE  TrailsKeepShape'
<1>1. /\ TypeOK /\ chain \in Seq(Events) /\ damage = "none"
      /\ Shape(chain, "none") /\ \A w \in Writers : Shape(Seen(w), "none")
    BY DamagedEvents DEF IInv, TypeOK, TrailsKeepShape
<1>2. chain' \in Seq(Events) /\ tx' = tx
    BY <1>1, DamagedEvents
<1>3. \A w \in Writers : /\ tx[w] \in Seq(Events)
                         /\ Seen(w) = chain \o tx[w] /\ Seen(w)' = chain' \o tx[w]
                         /\ Seen(w) \in Seq(Events)
    BY <1>1, <1>2, SeenEvents DEF Seen, TypeOK
<1>4. ASSUME damage' = "altered", NEW i \in 1..Len(chain), Len(chain') = Len(chain),
             chain'[i] = [chain[i] EXCEPT !.body = 0],
             \A j \in 1..Len(chain) : j # i => chain'[j] = chain[j]
      PROVE  TrailsKeepShape'
    <2>1. Shape(chain', "altered")
        BY <1>1, <1>2, <1>4, AlterKeepsShape
    <2>2. ASSUME NEW w \in Writers
          PROVE  Shape(Seen(w)', "altered")
        <3>1. /\ chain \in Seq(Events) /\ chain' \in Seq(Events) /\ tx[w] \in Seq(Events)
              /\ chain \o tx[w] \in Seq(Events) /\ Shape(chain \o tx[w], "none")
            BY <1>1, <1>2, <1>3
        <3>2. /\ chain' \o tx[w] \in Seq(Events) /\ Len(chain' \o tx[w]) = Len(chain \o tx[w])
              /\ i \in 1..Len(chain \o tx[w])
              /\ (chain' \o tx[w])[i] = chain'[i] /\ (chain \o tx[w])[i] = chain[i]
              /\ \A j \in 1..Len(chain \o tx[w]) : j # i => (chain' \o tx[w])[j] = (chain \o tx[w])[j]
            <4>1. PICK s, r, t : s = chain /\ r = chain' /\ t = tx[w]
                OBVIOUS
            <4>2. /\ s \in Seq(Events) /\ r \in Seq(Events) /\ t \in Seq(Events) /\ i \in 1..Len(s)
                  /\ Len(r) = Len(s) /\ \A j \in 1..Len(s) : j # i => r[j] = s[j]
                BY <1>4, <3>1, <4>1
            <4>3. /\ r \o t \in Seq(Events) /\ Len(r \o t) = Len(s \o t) /\ i \in 1..Len(s \o t)
                  /\ (r \o t)[i] = r[i] /\ (s \o t)[i] = s[i]
                  /\ \A j \in 1..Len(s \o t) : j # i => (r \o t)[j] = (s \o t)[j]
                BY ONLY <4>2, ChangeInFront, SMTT(30)
            <4>4. QED BY <4>1, <4>3
        <3>3. PICK c, d : c = chain \o tx[w] /\ d = chain' \o tx[w]
            OBVIOUS
        <3>4. d[i] = [c[i] EXCEPT !.body = 0]
            BY <1>4, <3>2, <3>3
        <3>5. /\ c \in Seq(Events) /\ d \in Seq(Events) /\ Shape(c, "none") /\ Len(d) = Len(c)
              /\ i \in 1..Len(c) /\ \A j \in 1..Len(c) : j # i => d[j] = c[j]
            BY <3>1, <3>2, <3>3
        <3>6. Shape(d, "altered")
            BY ONLY <3>4, <3>5, AlterKeepsShape
        <3>7. QED BY <1>3, <3>3, <3>6
    <2>3. QED
        BY <1>4, <2>1, <2>2 DEF TrailsKeepShape
<1>5. ASSUME NEW n, NEW m, Lost(chain', chain, n, m),
             (damage' = "gap" /\ n + m < Len(chain)) \/ damage' \in {"tail", "all"}
      PROVE  TrailsKeepShape'
    <2>1. Shape(chain', damage')
        BY <1>1, <1>2, <1>5, LossKeepsShape
    <2>2. ASSUME NEW w \in Writers
          PROVE  Shape(Seen(w)', damage')
        <3>1. /\ tx[w] \in Seq(Events) /\ Shape(chain \o tx[w], "none")
              /\ Seen(w)' = chain' \o tx[w] /\ chain \o tx[w] \in Seq(Events)
            BY <1>1, <1>3
        <3>2. /\ Lost(chain' \o tx[w], chain \o tx[w], n, m) /\ chain' \o tx[w] \in Seq(Events)
              /\ Len(chain) <= Len(chain \o tx[w])
            BY <1>1, <1>2, <1>5, <3>1, LossInFront
        <3>3. n + m < Len(chain) => n + m < Len(chain \o tx[w])
            <4>1. n \in Nat /\ m \in Nat /\ Len(chain \o tx[w]) \in Nat /\ Len(chain) \in Nat
                BY <1>1, <1>5, <3>1, LenProperties DEF Lost
            <4>2. QED BY <3>2, <4>1
        <3>4. /\ \A kind \in {"tail", "all"} : Shape(chain' \o tx[w], kind)
              /\ n + m < Len(chain \o tx[w]) => Shape(chain' \o tx[w], "gap")
            BY <3>1, <3>2, LossKeepsShape
        <3>5. QED BY <1>5, <3>1, <3>3, <3>4
    <2>3. QED
        BY <2>1, <2>2 DEF TrailsKeepShape
<1>6. QED
    BY <1>1, <1>4, <1>5, DamagedEvents

\* Every step keeps the trails in shape.
LEMMA ShapeStep ==
    ASSUME IInv, Next
    PROVE  TrailsKeepShape'
<1>0. /\ TypeOK /\ chain \in Seq(Events) /\ next \in Nat \ {0}
      /\ Shape(chain, damage) /\ \A w \in Writers : Shape(Seen(w), damage)
    BY DEF IInv, TypeOK, TrailsKeepShape
<1>1. ASSUME UNCHANGED <<chain, tx, damage>>
      PROVE  TrailsKeepShape'
    <2>1. \A w \in Writers : Seen(w)' = Seen(w)
        BY <1>1 DEF Seen
    <2>2. QED
        BY <1>0, <1>1, <2>1 DEF TrailsKeepShape
<1>2. ASSUME NEW w \in Writers, Record(w)
      PROVE  TrailsKeepShape'
    <2>1. /\ Seen(w)' = Append(Seen(w), Following(Seen(w)))
          /\ tx' = [tx EXCEPT ![w] = Append(tx[w], Following(Seen(w)))]
          /\ Seen(w) \in Seq(Events)
        BY <1>0, <1>2, RecordAppends, SeenEvents
    <2>2. Shape(Append(Seen(w), Following(Seen(w))), damage)
        BY <1>0, <2>1, AppendKeepsShape
    <2> HIDE DEF Following
    <2>3. \A v \in Writers : v # w => Seen(v)' = Seen(v)
        BY <1>0, <1>2, <2>1 DEF Record, Seen, TypeOK
    <2>4. UNCHANGED <<chain, damage>>
        BY <1>2 DEF Record
    <2>5. QED
        BY <1>0, <2>1, <2>2, <2>3, <2>4 DEF TrailsKeepShape
<1>3. ASSUME Shape(chain', damage'), chain' \in Seq(Events), \A v \in Writers : tx'[v] = <<>>
      PROVE  TrailsKeepShape'
    <2>1. \A v \in Writers : Seen(v)' = chain' \o <<>>
        BY <1>3 DEF Seen
    <2>2. chain' \o <<>> = chain'
        BY <1>3, ConcatEmptySeq
    <2>3. QED
        BY <1>3, <2>1, <2>2 DEF TrailsKeepShape
<1>4. ASSUME NEW w \in Writers, Commit(w) \/ Rollback(w)
      PROVE  TrailsKeepShape'
    <2>1. chain' \in {chain, Seen(w)} /\ holder = w /\ tx' = [tx EXCEPT ![w] = <<>>] /\ damage' = damage
        BY <1>4 DEF Commit, Rollback
    <2>2. \A v \in Writers : tx'[v] = <<>>
        BY <1>0, <2>1 DEF TypeOK
    <2>3. Shape(chain', damage') /\ chain' \in Seq(Events)
        BY <1>0, <2>1, SeenEvents
    <2>4. QED BY <1>3, <2>2, <2>3
<1>5. CASE Offboard
    <2>1. chain' = <<>> /\ damage' = "none" /\ tx' = tx /\ \A v \in Writers : tx[v] = <<>>
        BY <1>0, <1>5, ConstantsAssumption DEF Offboard, TypeOK
    <2>2. Shape(<<>>, "none") /\ <<>> \in Seq(Events)
        BY EmptySeq DEF Shape, Honest, Ascending
    <2>3. QED BY <1>3, <2>1, <2>2
<1>6. QED
    BY <1>1, <1>2, <1>4, <1>5, DamageShows DEF Next, Lock, VerifyHead, VerifyEvents

\* A COMMIT moves the checkpoint to its last event, and never back; nothing else
\* moves it.
LEMMA CheckpointStep ==
    ASSUME IInv, Next
    PROVE  CheckpointKept'
<1>0. TypeOK /\ head \in Heads /\ Len(chain) \in Nat /\ (chain # <<>> => Len(chain) # 0)
    BY LenProperties, EmptySeq DEF IInv, TypeOK
<1>1. ASSUME UNCHANGED <<chain, head, damage>>
      PROVE  CheckpointKept'
    BY <1>1 DEF IInv, CheckpointKept
<1>2. ASSUME NEW w \in Writers, Commit(w)
      PROVE  CheckpointKept'
    <2>1. /\ chain' = Seen(w) /\ tx[w] # <<>> /\ holder = w /\ damage' = damage
          /\ head' = Advanced(head, tx[w][Len(tx[w])])
        BY <1>2 DEF Commit
    <2>2. PICK e : e = tx[w][Len(tx[w])]
        OBVIOUS
    <2>3. /\ Len(tx[w]) \in Nat \ {0} /\ e \in Events
          /\ Len(chain') = Len(chain) + Len(tx[w]) /\ Len(chain') \in Nat \ {0}
          /\ chain'[Len(chain')] = e
        BY <1>0, <2>1, <2>2, LastSeen
    <2>4. /\ head'.offboarded = head.offboarded
          /\ head.seq # 0 => head'.seq # 0
          /\ head.seq < e.seq => head'.seq = e.seq /\ head'.hash = e.hash
        BY <1>0, <2>1, <2>2, <2>3, AdvancedHead
    <2>5. damage = "none" => e.seq = Len(chain')
        <3>1. Seen(w) \in Seq(Events) /\ DOMAIN Seen(w) = 1..Len(Seen(w))
            BY <1>0, SeenEvents, LenProperties
        <3>2. damage = "none" => Honest(Seen(w))
            BY DEF IInv, TrailsKeepShape, Shape
        <3>3. QED
            BY <2>1, <2>3, <3>1, <3>2 DEF Honest, Sound
    <2>6. ASSUME damage = "none", ~head.offboarded
          PROVE  head'.seq = Len(chain') /\ head'.hash = chain'[Len(chain')].hash
        <3>1. head.seq = Len(chain)
            BY <2>6 DEF IInv, CheckpointKept
        <3>2. head.seq < e.seq
            BY <1>0, <2>3, <2>5, <2>6, <3>1
        <3>3. QED BY <2>3, <2>4, <2>5, <2>6, <3>2
    <2>7. QED
        BY <2>1, <2>4, <2>6 DEF IInv, CheckpointKept
<1>3. CASE Offboard
    BY <1>0, <1>3 DEF Offboard, Heads, CheckpointKept
<1>4. CASE Alter \/ LoseInterior \/ LoseTail \/ LoseAll
    <2>1. /\ chain # <<>> /\ damage = "none" /\ head' = head
          /\ damage' \in {"altered", "gap", "tail", "all"}
        BY <1>0, <1>4, DamagedEvents
    <2>2. ~head.offboarded
        BY <2>1 DEF IInv, OffboardedIsOver
    <2>3. head.seq # 0
        BY <1>0, <2>1, <2>2 DEF IInv, CheckpointKept
    <2>4. QED
        BY <2>1, <2>3 DEF CheckpointKept
<1>5. QED
    BY <1>1, <1>2, <1>3, <1>4 DEF Next, Lock, Record, Rollback, VerifyHead, VerifyEvents

\* After the offboarding nobody locks, and nothing is left to be damaged.
LEMMA OffboardedStep ==
    ASSUME IInv, Next
    PROVE  OffboardedIsOver'
<1>0. TypeOK /\ head \in Heads
    BY DEF IInv, TypeOK
<1>1. CASE UNCHANGED <<head, chain, holder, damage>>
    BY <1>1 DEF IInv, OffboardedIsOver
<1>2. ASSUME NEW w \in Writers, Lock(w) \/ Record(w) \/ Rollback(w)
      PROVE  OffboardedIsOver'
    BY <1>2, ConstantsAssumption DEF Lock, Record, Rollback, IInv, OffboardedIsOver
<1>3. ASSUME NEW w \in Writers, Commit(w)
      PROVE  OffboardedIsOver'
    <2>1. head' = Advanced(head, tx[w][Len(tx[w])]) /\ tx[w] # <<>> /\ holder = w
        BY <1>3 DEF Commit
    <2>2. tx[w][Len(tx[w])] \in Events
        BY <1>0, <2>1, LastSeen
    <2>3. head'.offboarded = head.offboarded /\ ~head.offboarded
        BY <1>0, <2>1, <2>2, AdvancedHead, ConstantsAssumption DEF IInv, OffboardedIsOver
    <2>4. QED BY <2>3 DEF OffboardedIsOver
<1>4. CASE Offboard
    BY <1>0, <1>4 DEF Offboard, Heads, OffboardedIsOver
<1>5. CASE Alter \/ LoseInterior \/ LoseTail \/ LoseAll
    <2>1. chain # <<>> /\ head' = head
        BY <1>0, <1>5, DamagedEvents
    <2>2. QED BY <2>1 DEF IInv, OffboardedIsOver
<1>6. QED
    BY <1>1, <1>2, <1>3, <1>4, <1>5 DEF Next, VerifyHead, VerifyEvents

-----------------------------------------------------------------------------
(* Theorems.                                                               *)

\* The strengthened invariant holds initially ...
LEMMA InitialState == Init => IInv
<1> SUFFICES ASSUME Init
             PROVE  IInv
    OBVIOUS
<1>1. <<>> \in Seq(Events) /\ <<>> \in Seq(Heads) /\ Len(<<>>) = 0 /\ <<>> \in Hashes
    BY EmptySeq DEF Hashes
<1>2. TypeOK
    BY <1>1, ConstantsAssumption DEF Init, TypeOK, Heads, Genesis
<1>3. Shape(<<>>, "none")
    BY DEF Shape, Honest, Ascending
<1>4. TrailsKeepShape
    BY <1>2, <1>3, IdleSees DEF Init, TrailsKeepShape
<1>5. CheckpointKept /\ OffboardedIsOver
    BY <1>1 DEF Init, CheckpointKept, OffboardedIsOver
<1>6. QED
    BY <1>2, <1>4, <1>5 DEF IInv

\* ... is kept by every step ...
LEMMA InductiveStep ==
    ASSUME IInv, [Next]_vars
    PROVE  IInv'
<1>1. CASE Next
    BY <1>1, TypeStep, ShapeStep, CheckpointStep, OffboardedStep DEF IInv
<1>2. CASE UNCHANGED vars
    BY <1>2 DEF vars, IInv, TypeOK, TrailsKeepShape, Seen, CheckpointKept, OffboardedIsOver
<1>3. QED BY <1>1, <1>2

\* ... and so always.
LEMMA Invariance == Spec => []IInv
<1>1. IInv /\ [Next]_vars => IInv'
    BY InductiveStep
<1>2. QED
    BY InitialState, <1>1, PTL DEF Spec

\* Every variable keeps its type, for any writers and any number of events.
THEOREM TypeCorrect == Spec => []TypeOK
<1>1. IInv => TypeOK
    BY DEF IInv
<1>2. QED BY Invariance, <1>1, PTL

\* No two events get one number, whichever writers race and whatever was lost in
\* the meantime: the unique constraint refuses no audited request.
THEOREM SeqsNeverCollide == Spec => []SeqsAreUnique
<1>1. IInv => SeqsAreUnique
    <2> SUFFICES ASSUME IInv
                 PROVE  SeqsAreUnique
        OBVIOUS
    <2>0. TypeOK
        BY DEF IInv
    <2>1. ASSUME NEW w \in Writers
          PROVE  /\ Ascending(Seen(w)) /\ DOMAIN Seen(w) = 1..(Len(chain) + Len(tx[w]))
                 /\ DOMAIN tx[w] = 1..Len(tx[w]) /\ Len(tx[w]) \in Nat /\ Len(chain) \in Nat
                 /\ \A j \in 1..(Len(chain) + Len(tx[w])) : Seen(w)[j].seq \in Nat
                 /\ \A j \in 1..Len(tx[w]) : Seen(w)[Len(chain) + j] = tx[w][j]
                 /\ DOMAIN chain = 1..Len(chain)
                 /\ \A j \in 1..Len(chain) : Seen(w)[j] = chain[j]
        <3>1. /\ Seen(w) \in Seq(Events) /\ Len(Seen(w)) = Len(chain) + Len(tx[w])
              /\ \A i \in 1..(Len(chain) + Len(tx[w])) :
                    Seen(w)[i] = IF i <= Len(chain) THEN chain[i] ELSE tx[w][i - Len(chain)]
            BY <2>0, SeenEvents
        <3>2. /\ Len(tx[w]) \in Nat /\ DOMAIN tx[w] = 1..Len(tx[w])
              /\ Len(chain) \in Nat /\ DOMAIN chain = 1..Len(chain)
            BY <2>0, LenProperties DEF TypeOK
        <3>3. /\ DOMAIN Seen(w) = 1..(Len(chain) + Len(tx[w]))
              /\ \A j \in 1..(Len(chain) + Len(tx[w])) : Seen(w)[j] \in Events
            BY <3>1, LenProperties, ElementOfSeq
        <3>4. \A j \in 1..(Len(chain) + Len(tx[w])) : Seen(w)[j].seq \in Nat
            BY <3>3 DEF Events
        <3>5. \A j \in 1..Len(tx[w]) : Seen(w)[Len(chain) + j] = tx[w][j]
            <4> TAKE j \in 1..Len(tx[w])
            <4>1. /\ Len(chain) + j \in 1..(Len(chain) + Len(tx[w]))
                  /\ ~(Len(chain) + j <= Len(chain)) /\ (Len(chain) + j) - Len(chain) = j
                BY <3>2
            <4>2. QED BY <3>1, <4>1
        <3>6. \A j \in 1..Len(chain) : Seen(w)[j] = chain[j]
            BY <3>1, <3>2
        <3>7. Ascending(Seen(w))
            BY DEF IInv, TrailsKeepShape, Shape
        <3>8. QED
            BY <3>2, <3>3, <3>4, <3>5, <3>6, <3>7
    <2>2. ASSUME NEW w \in Writers, NEW i \in DOMAIN Seen(w), NEW j \in DOMAIN tx[w],
                 Seen(w)[i].seq = tx[w][j].seq
          PROVE  Seen(w)[i] = tx[w][j]
        <3>0. /\ j \in 1..Len(tx[w]) /\ Len(chain) \in Nat /\ Len(tx[w]) \in Nat
              /\ DOMAIN Seen(w) = 1..(Len(chain) + Len(tx[w]))
            BY <2>1
        <3>1. Len(chain) + j \in DOMAIN Seen(w) /\ Seen(w)[Len(chain) + j] = tx[w][j]
            BY <2>1, <3>0
        <3>2. ~(Seen(w)[i].seq < Seen(w)[Len(chain) + j].seq) /\ ~(Seen(w)[Len(chain) + j].seq < Seen(w)[i].seq)
            BY <2>1, <2>2, <3>1, SMTT(30)
        <3>3. i = Len(chain) + j
            <4>1. i \in Nat /\ Len(chain) + j \in Nat
                BY <3>0
            <4>2. Ascending(Seen(w))
                BY <2>1
            <4>3. QED BY <3>1, <3>2, <4>1, <4>2 DEF Ascending
        <3>4. QED BY <3>1, <3>3
    <2>3. ASSUME NEW v \in Writers, NEW w \in Writers, v # w,
                 NEW i \in DOMAIN Seen(v), NEW j \in DOMAIN tx[w],
                 Seen(v)[i].seq = tx[w][j].seq
          PROVE  Seen(v)[i] = tx[w][j]
        <3>1. tx[w] # <<>>
            BY <2>1, EmptySeq
        <3>2. tx[v] = <<>>
            BY <2>0, <2>3, <3>1 DEF TypeOK
        <3>3. Seen(v) = chain
            BY <2>0, <3>2, IdleSees
        <3>4. i \in DOMAIN Seen(w) /\ Seen(w)[i] = Seen(v)[i]
            BY <2>1, <3>3
        <3>5. QED BY <2>2, <2>3, <3>4
    <2>4. \A w \in Writers : \A i, j \in DOMAIN Seen(w) : i < j => Seen(w)[i].seq < Seen(w)[j].seq
        BY <2>1 DEF Ascending
    <2>5. QED
        BY <2>2, <2>3, <2>4 DEF SeqsAreUnique
<1>2. QED BY Invariance, <1>1, PTL

\* A trail nobody touched is answered for with ok at every moment.
THEOREM HonestChains == Spec => []HonestChainVerifies
<1>1. IInv => HonestChainVerifies
    <2> SUFFICES ASSUME IInv, damage = "none"
                 PROVE  Verdict(head, chain) \in Ok
        BY DEF HonestChainVerifies
    <2>1. chain \in Seq(Events) /\ Len(chain) \in Nat /\ (chain # <<>> => Len(chain) # 0)
        BY LenProperties, EmptySeq DEF IInv, TypeOK
    <2>2. Broken(chain) = {}
        BY DEF IInv, TrailsKeepShape, Shape, Honest, Broken
    <2>3. CASE head.offboarded
        BY <2>3 DEF IInv, OffboardedIsOver, Verdict, Ok
    <2>4. CASE ~head.offboarded
        <3>1. head.seq = Len(chain) /\ (chain # <<>> => head.hash = chain[Len(chain)].hash)
            BY <2>4 DEF IInv, CheckpointKept
        <3>2. CASE chain = <<>>
            BY <3>1, <3>2, EmptySeq DEF Verdict, Ok
        <3>3. CASE chain # <<>>
            <4>1. Verdict(head, chain) = "intact"
                BY <2>1, <2>2, <3>1, <3>3 DEF Verdict
            <4>2. QED BY <4>1 DEF Ok
        <3>4. QED BY <3>2, <3>3
    <2>5. QED BY <2>3, <2>4
<1>2. QED BY Invariance, <1>1, PTL

\* An altered event and one lost from the middle are reported as such for ever.
THEOREM BrokenLinks == Spec => []BrokenLinksAreReported
<1>1. IInv => BrokenLinksAreReported
    <2> SUFFICES ASSUME IInv
                 PROVE  BrokenLinksAreReported
        OBVIOUS
    <2>1. chain \in Seq(Events) /\ Len(chain) \in Nat /\ DOMAIN chain = 1..Len(chain)
        BY LenProperties DEF IInv, TypeOK
    <2>2. ASSUME damage = "altered"
          PROVE  Verdict(head, chain) = "mutated"
        <3>1. Forged(chain) /\ head.seq # 0
            BY <2>2 DEF IInv, TrailsKeepShape, Shape, CheckpointKept
        <3>2. Broken(chain) # {} /\ chain # <<>>
            BY <3>1, EmptySeq DEF Forged, Broken, Sound
        <3>3. ~\E i \in Broken(chain) : chain[i].seq # i /\ \A j \in Broken(chain) : i <= j
            BY <3>1 DEF Forged, Broken
        <3>4. QED BY <3>1, <3>2, <3>3 DEF Verdict
    <2>3. ASSUME damage = "gap"
          PROVE  Verdict(head, chain) = "gap"
        <3>1. Gapped(chain) /\ head.seq # 0
            BY <2>3 DEF IInv, TrailsKeepShape, Shape, CheckpointKept
        <3>2. PICK i \in DOMAIN chain : chain[i].seq # i /\ \A j \in 1..(i - 1) : Sound(chain, j)
            BY <3>1 DEF Gapped
        <3>3. i \in Broken(chain)
            BY <3>2 DEF Broken, Sound
        <3>4. ASSUME NEW j \in Broken(chain)
              PROVE  i <= j
            <4>1. j \in 1..Len(chain) /\ ~Sound(chain, j) /\ i \in 1..Len(chain)
                BY <2>1, <3>4 DEF Broken
            <4>2. j \notin 1..(i - 1)
                BY <3>2, <4>1
            <4>3. QED BY <2>1, <4>1, <4>2
        <3>5. Broken(chain) # {} /\ chain # <<>>
            BY <2>1, <3>3, EmptySeq DEF Broken
        <3>6. \E k \in Broken(chain) : chain[k].seq # k /\ \A j \in Broken(chain) : k <= j
            BY <3>2, <3>3, <3>4
        <3>7. QED BY <3>1, <3>5, <3>6 DEF Verdict
    <2>4. QED BY <2>2, <2>3 DEF BrokenLinksAreReported
<1>2. QED BY Invariance, <1>1, PTL

\* A lost tail and a lost chain are reported while the checkpoint is a lost event's.
THEOREM LossIsReported == Spec => []LossIsReportedAtFirst
<1>1. IInv => LossIsReportedAtFirst
    <2> SUFFICES ASSUME IInv, damage \in {"tail", "all"},
                        \A i \in DOMAIN chain : chain[i].hash # head.hash
                 PROVE  Verdict(head, chain) \notin Ok
        BY DEF LossIsReportedAtFirst
    <2>1. chain \in Seq(Events) /\ (chain # <<>> => Len(chain) \in DOMAIN chain)
        BY LenProperties, EmptySeq DEF IInv, TypeOK
    <2>2. head.seq # 0 /\ ~head.offboarded
        BY DEF IInv, CheckpointKept, OffboardedIsOver
    <2>3. chain # <<>> => chain[Len(chain)].hash # head.hash
        BY <2>1
    <2>4. Verdict(head, chain) \in {"erased", "gap", "mutated", "truncated", "checkpoint_missing"}
        BY <2>2, <2>3 DEF Verdict
    <2>5. QED BY <2>4 DEF Ok
<1>2. QED BY Invariance, <1>1, PTL

=============================================================================

--------------------------- MODULE ExecutiveQuery ---------------------------
(***************************************************************************)
(* The governed metric of one tenant (intelligence/service.py, ast.py), the  *)
(* seeding of its demo (intelligence/seed.py, migration 0008), and the       *)
(* source the demo was seeded against, which is edited, disabled and tested  *)
(* meanwhile.                                                               *)
(*                                                                         *)
(* A query is six statements at READ COMMITTED, each of which sees what is   *)
(* committed by then.  Seeding deletes and inserts in one transaction, under *)
(* identifiers computed from the tenant and the content's names: a seeded    *)
(* demo is known by the edition of its content and its source alone.         *)
(***************************************************************************)
EXTENDS Integers, FiniteSets, Folds, Functions

CONSTANTS
    Readers, Seeders,
    Sources,
    Editions,       \* contents of demo_seed.json, as deployments change it
    Content,        \* [Editions -> [total, target, slices, targets, flaws]]; flaws:
                    \*   what validate_metric_expression objects to
    None,
    MaxVersion,     \* bound: version of a source
    MaxSeeds,       \* bound: seedings
    MaxChanges      \* bound: edits, disables and tests

ASSUME QueryAssumption ==
    /\ MaxVersion \in Nat \ {0} /\ MaxSeeds \in Nat /\ MaxChanges \in Nat
    /\ None \notin Editions \cup Sources \cup Seeders
    /\ \A e \in Editions :
        /\ DOMAIN Content[e].slices = DOMAIN Content[e].targets
        /\ Content[e].slices \in [DOMAIN Content[e].slices -> Int]
        /\ Content[e].targets \in [DOMAIN Content[e].targets -> Int]

VARIABLES
    demo,           \* the seeded Demo, or NoDemo
    source,         \* [Sources -> [version, active; highest: the highest version it had]]
    tested,         \* <<source, version>> with a succeeded test
    recording,      \* <<source, version>> whose success is checked, not committed
    writing,        \* the seeder whose rows are not committed yet, or None
    seeder,         \* [Seeders -> its position, what it read]
    reader,         \* [Readers -> its position, what it read]
    seeds, changes

world == <<source, tested, recording>>
queryVars == <<demo, world, writing, seeder, reader, seeds, changes>>

Demo == [edition : Editions, source : Sources, serial : Nat \ {0}]

NoDemo == [edition |-> None, source |-> None, serial |-> 0]

NotSeeding == [pc |-> "idle", edition |-> None, source |-> None, version |-> 0, serial |-> 0]

\* calm (history): since it began one content of one healthy source was seeded.
\* healthy (history): <<source, version>> active and tested, or its success being
\*   recorded, at some time since.
NotReading == [pc |-> "idle", asked |-> None, group |-> None, bundle |-> 0, dataset |-> 0,
               rows |-> None, chosen |-> None, facts |-> None, version |-> 0,
               calm |-> FALSE, healthy |-> {}]

Groups == {None, "segment", "other"}

QueryTypeOK ==
    /\ demo \in Demo \cup {NoDemo}
    /\ source \in [Sources -> [version : 1..MaxVersion, active : BOOLEAN, highest : 1..MaxVersion]]
    /\ \A s \in Sources : source[s].version <= source[s].highest
    /\ tested \cup recording \subseteq Sources \X (1..MaxVersion)
    /\ \A t \in tested \cup recording : t[2] <= source[t[1]].highest
    /\ writing # None <=> \E s \in Seeders : seeder[s].pc = "inserted"
    /\ \A s \in Seeders : seeder[s].pc = "inserted" => writing = s
    /\ \A r \in Readers : reader[r].group \in Groups /\ reader[r].asked \in Editions \cup {None}
    /\ seeds \in 0..MaxSeeds /\ changes \in 0..MaxChanges

QueryInit ==
    /\ demo = NoDemo
    /\ source = [s \in Sources |-> [version |-> 1, active |-> TRUE, highest |-> 1]]
    /\ tested = {} /\ recording = {} /\ writing = None
    /\ seeder = [s \in Seeders |-> NotSeeding]
    /\ reader = [r \in Readers |-> NotReading]
    /\ seeds = 0 /\ changes = 0

-----------------------------------------------------------------------------
(* Helpers.                                                                *)

Sum(f) == MapThenFoldSet(+, 0, LAMBDA x : f[x], LAMBDA S : CHOOSE x \in S : TRUE, DOMAIN f)

\* The active versions with a success among the given ones.
Proven(src, tests) == {t \in tests : src[t[1]].active /\ src[t[1]].version = t[2]}

\* Mutant: random identifiers.
FreshId(d) == d.serial

\* _id: the same identifiers for every seeding of the tenant.
Id(d) == IF d = NoDemo THEN 0 ELSE 1

\* Mutant: of what is seeded only the actuals are added up.
SeededActuals(e) == Content[e].flaws = {} /\ Sum(Content[e].slices) = Content[e].total

\* What seeding checks of a content: its actuals and its targets add up.
Seeded(e) == Content[e].flaws = {} /\ Sum(Content[e].slices) = Content[e].total
                                   /\ Sum(Content[e].targets) = Content[e].target

-----------------------------------------------------------------------------
(* seed_demo, one transaction.                                             *)

SeedTo(s, now) == seeder' = [seeder EXCEPT ![s] = now]

\* The version of an active source.
SeedRead(s) ==
    /\ seeder[s].pc = "idle" /\ seeds < MaxSeeds /\ seeds' = seeds + 1
    /\ \E e \in Editions, src \in Sources :
        /\ source[src].active
        /\ SeedTo(s, [NotSeeding EXCEPT !.pc = "source", !.edition = e, !.source = src,
                                        !.version = source[src].version])
    /\ UNCHANGED <<demo, world, writing, reader, changes>>

\* A succeeded test of that version.  The next statement's snapshot is taken with it:
\* a test once recorded stays, so that reading it later finds it as well.
SeedTested(s) ==
    /\ seeder[s].pc = "source"
    /\ SeedTo(s, IF <<seeder[s].source, seeder[s].version>> \in tested
                 THEN [seeder[s] EXCEPT !.pc = "reset", !.serial = demo.serial] ELSE NotSeeding)
    /\ UNCHANGED <<demo, world, writing, reader, seeds, changes>>

\* eip_reset_seeded_demo deletes the demo its statement saw, if it is still there.
ResetClears(s) == seeder[s].serial = demo.serial

\* It waits for a transaction that deletes or inserts the bundle; the rows of a demo
\* it has not cleared refuse the insertion, as does content that does not validate
\* or reconcile.
ResetAndInsert(s) ==
    /\ seeder[s].pc = "reset" /\ writing = None
    /\ IF ResetClears(s) /\ Seeded(seeder[s].edition)
       THEN writing' = s /\ SeedTo(s, [seeder[s] EXCEPT !.pc = "inserted"])
       ELSE SeedTo(s, NotSeeding) /\ UNCHANGED writing
    /\ UNCHANGED <<demo, world, reader, seeds, changes>>

\* calm and healthy of every reader, after a change of the demo or the sources.
Noted(d, src, tst, rec) ==
    [r \in Readers |->
        IF reader[r].pc = "idle" THEN reader[r]
        ELSE [reader[r] EXCEPT
            !.calm = @ /\ d.edition = demo.edition /\ d.source = demo.source
                       /\ \E t \in Proven(src, tst) : t[1] = d.source,
            !.healthy = @ \cup Proven(src, tst \cup rec)]]

SeedCommit(s) ==
    /\ seeder[s].pc = "inserted" /\ writing' = None
    /\ demo' = [edition |-> seeder[s].edition, source |-> seeder[s].source,
                serial |-> demo.serial + 1]
    /\ reader' = Noted(demo', source, tested, recording)
    /\ SeedTo(s, NotSeeding)
    /\ UNCHANGED <<world, seeds, changes>>

\* Any failure takes the deletion back with the rows.
SeedFails(s) ==
    /\ seeder[s].pc = "inserted" /\ writing' = None
    /\ SeedTo(s, NotSeeding)
    /\ UNCHANGED <<demo, world, reader, seeds, changes>>

-----------------------------------------------------------------------------
(* ExecutiveQueryService.query.                                            *)

ReadTo(r, now) ==
    /\ reader' = [reader EXCEPT ![r] = now]
    /\ UNCHANGED <<demo, world, writing, seeder, seeds, changes>>

\* NotFoundError, wherever something is missing.
Go(r, found, now) ==
    ReadTo(r, IF found THEN now ELSE [reader[r] EXCEPT !.pc = "refused"])

Calm == \E t \in Proven(source, tested) : t[1] = demo.source

\* A dashboard, a metric query or a lineage: with or without a time and a grouping.
Ask(r) ==
    /\ reader[r].pc = "idle"
    /\ \E asked \in Editions \cup {None}, group \in Groups :
        ReadTo(r, [NotReading EXCEPT !.pc = "bundle", !.asked = asked, !.group = group,
            !.calm = Calm /\ asked \in {None, demo.edition} /\ group # "other",
            !.healthy = Proven(source, tested \cup recording)])

ReadBundle(r) ==
    /\ reader[r].pc = "bundle"
    /\ Go(r, demo # NoDemo, [reader[r] EXCEPT !.pc = "dataset", !.bundle = Id(demo)])

\* The dataset of the bundle, as of the time asked for.
ReadDataset(r) ==
    /\ reader[r].pc = "dataset"
    /\ Go(r, demo # NoDemo /\ Id(demo) = reader[r].bundle /\ reader[r].asked \in {None, demo.edition},
          [reader[r] EXCEPT !.pc = "rows", !.dataset = Id(demo)])

\* The metadata, its links and the expression; they name the source.
ReadRows(r) ==
    /\ reader[r].pc = "rows"
    /\ Go(r, /\ demo # NoDemo /\ Id(demo) = reader[r].dataset
             /\ Content[demo.edition].flaws = {} /\ reader[r].group # "other",
          [reader[r] EXCEPT !.pc = "facts", !.rows = demo.edition, !.chosen = demo.source])

\* The values of the segments the metadata has, among the facts of another edition.
Drill(rows, facts) ==
    [s \in DOMAIN Content[rows].slices |-> Content[facts].slices[s]]

\* Their targets, which the query adds up nowhere.
DrillTargets(rows, facts) ==
    [s \in DOMAIN Content[rows].slices |-> Content[facts].targets[s]]

\* Every segment has its facts, and the actuals add up to the metric's value.
AddsUp(rows, facts) ==
    /\ DOMAIN Content[rows].slices \subseteq DOMAIN Content[facts].slices
    /\ Sum(Drill(rows, facts)) = Content[facts].total

ReadFacts(r) ==
    /\ reader[r].pc = "facts"
    /\ Go(r, /\ demo # NoDemo /\ Id(demo) = reader[r].dataset
             /\ AddsUp(reader[r].rows, demo.edition),
          [reader[r] EXCEPT !.pc = "source", !.facts = demo.edition])

ReadSource(r) ==
    /\ reader[r].pc = "source"
    /\ LET s == reader[r].chosen IN
        Go(r, source[s].active, [reader[r] EXCEPT !.pc = "test", !.version = source[s].version])

\* Mutant: a test of any version will do.
TestOfAny(s, version) == {t \in tested : t[1] = s}

TestOf(s, version) == {t \in tested : t = <<s, version>>}

\* The answer names the source, its version and the test.
ReadTest(r) ==
    /\ reader[r].pc = "test"
    /\ Go(r, TestOf(reader[r].chosen, reader[r].version) # {}, [reader[r] EXCEPT !.pc = "answered"])

Finish(r) ==
    /\ reader[r].pc \in {"answered", "refused"}
    /\ ReadTo(r, NotReading)

-----------------------------------------------------------------------------
(* The source, as DataSources and ConnectionTests leave it.                *)

Change(src, tst, rec) ==
    /\ source' = src /\ tested' = tst /\ recording' = rec
    /\ reader' = Noted(demo, src, tst, rec)
    /\ UNCHANGED <<demo, writing, seeder, seeds>>

Counted == changes < MaxChanges /\ changes' = changes + 1

\* A PATCH writes one more than the version it read, which others may have replaced
\* since: it may repeat a version, and take the version back.
Edited(old, read) ==
    [old EXCEPT !.version = read + 1, !.highest = IF read = @ THEN read + 1 ELSE @]

Edit(s) ==
    /\ Counted /\ source[s].active
    /\ \E read \in 1..source[s].highest :
        /\ read < MaxVersion
        /\ Change([source EXCEPT ![s] = Edited(@, read)], tested, recording)

Disable(s) ==
    /\ Counted /\ source[s].active
    /\ Change([source EXCEPT ![s].active = FALSE], tested, recording)

\* The worker finds the version it probed still active, without a lock on it,
Succeed(s) ==
    /\ Counted /\ source[s].active
    /\ LET t == <<s, source[s].version>> IN
        /\ t \notin tested \cup recording
        /\ Change(source, tested, recording \cup {t})

\* and commits the success, whatever became of the source.
Record(t) ==
    /\ t \in recording /\ UNCHANGED changes
    /\ Change(source, tested \cup {t}, recording \ {t})

Seed(s) == SeedRead(s) \/ SeedTested(s) \/ ResetAndInsert(s) \/ SeedCommit(s) \/ SeedFails(s)

Read(r) ==
    \/ Ask(r) \/ ReadBundle(r) \/ ReadDataset(r) \/ ReadRows(r) \/ ReadFacts(r)
    \/ ReadSource(r) \/ ReadTest(r) \/ Finish(r)

QueryNext ==
    \/ \E s \in Seeders : Seed(s)
    \/ \E r \in Readers : Read(r)
    \/ \E s \in Sources : Edit(s) \/ Disable(s) \/ Succeed(s)
    \/ \E t \in recording : Record(t)

QuerySpec == QueryInit /\ [][QueryNext]_queryVars

-----------------------------------------------------------------------------
(* Properties.                                                             *)

\* An answer made of the metadata of one content and of the facts of another, seeded in
\* between, is whole: if it shows every segment the facts have, its targets add up to its
\* target, although the query compares actuals only (service.py:202) and the seeding
\* compared the targets of each content by itself (seed.py:183); and whatever segments it
\* leaves out, which the older metadata lacks, have actuals that cancel out.
AnswersAreWhole ==
    \A r \in Readers : reader[r].pc = "answered" =>
        LET rows == reader[r].rows
            facts == reader[r].facts
        IN  /\ DOMAIN Content[rows].slices = DOMAIN Content[facts].slices =>
                   Sum(DrillTargets(rows, facts)) = Content[facts].target
            /\ Sum(Drill(rows, facts)) = Sum(Content[facts].slices)

\* Seeding the same content again, at whatever point of a query, takes no answer
\* from anybody: identifiers outlive the rows, and no statement sees their gap.
ReseedingSparesReaders == \A r \in Readers : reader[r].pc = "refused" => ~reader[r].calm

\* The version of the source an answer calls healthy was its active version, with a
\* success recorded or being recorded, at one moment of the query, although source
\* and test are read by two statements between which the source may be edited or
\* disabled (service.py:216-244).
HealthWasObserved ==
    \A r \in Readers : reader[r].pc = "answered" =>
        <<reader[r].chosen, reader[r].version>> \in reader[r].healthy

=============================================================================

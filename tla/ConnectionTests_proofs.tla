----------------------- MODULE ConnectionTests_proofs -----------------------
(***************************************************************************)
(* Proofs about ConnectionTests for every set of jobs and messages, every   *)
(* limit, number of threads and retries, and every number of edits and      *)
(* faults.                                                                 *)
(***************************************************************************)
EXTENDS ConnectionTests, FiniteSetTheorems, TLAPS

\* A message that was sent names a job, and a requested one.
MessagesNameJobs ==
    /\ \A j \in outbox : status[j] # "none"
    /\ \A m \in Messages : at[m] # "unused" => job[m] \in Jobs /\ status[job[m]] # "none"

\* The history of versions: each edition has one, no greater than its own number,
\* and the current one is the source's.
VersionsAreNamed ==
    /\ \A e \in 1..edition : names[e] \in 1..e
    /\ version = names[edition]

\* A job pins the version of the edition it was requested for.
PinsAreNamed ==
    \A j \in Jobs : status[j] # "none" => asked[j] \in 1..edition /\ pinned[j] = names[asked[j]]

\* What a delivery probes has the version its job pins, and so has what a recorded
\* result is about.
ProbesArePinned ==
    /\ \A m \in Messages :
        at[m] = "record" => probed[m] \in 1..edition /\ names[probed[m]] = pinned[job[m]]
    /\ \A j \in Jobs :
        status[j] \in {"succeeded", "failed"} => about[j] \in 1..edition /\ names[about[j]] = pinned[j]

\* The job of a delivery that has not outlived a lease is leased, or has its result.
WorkIsLeased ==
    \A m \in Working \ overrun : status[job[m]] \in Final \/ Leased(job[m])

IInv ==
    /\ TypeOK
    /\ MessagesNameJobs
    /\ VersionsAreNamed
    /\ PinsAreNamed
    /\ ProbesArePinned
    /\ WorkIsLeased
    /\ OneProber
    /\ CapRespected

-----------------------------------------------------------------------------
(* Types.                                                                  *)

\* The count of faults stays within its bound.
LEMMA FaultStep ==
    ASSUME TypeOK, Fault
    PROVE  faults' \in 0..MaxFaults
BY ConstantsAssumption DEF TypeOK, Fault

\* Wherever a delivery goes, and whatever becomes of its job, types are kept.
LEMMA GotoTypes ==
    ASSUME TypeOK, NEW m \in Messages,
           NEW s \in {"queue", "fence", "record", "acked", "dead"}, Goto(m, s),
           s = "record" => m \in Working
    PROVE  /\ at' \in [Messages -> {"unused", "queue", "fence", "record", "acked", "dead"}]
           /\ probed' \in [Messages -> 0..MaxEditions]
           /\ overrun' \subseteq Working'
<1>1. at' \in [Messages -> {"unused", "queue", "fence", "record", "acked", "dead"}]
    BY DEF TypeOK, Goto
<1>2. probed' \in [Messages -> 0..MaxEditions]
    BY ConstantsAssumption DEF TypeOK, Goto
<1>3. \A n \in overrun' : n \in Messages /\ at'[n] \in {"fence", "record"}
    BY DEF TypeOK, Goto, Working
<1>4. QED
    BY <1>1, <1>2, <1>3 DEF Working

\* A retry is counted below the maximum; the message goes back or is given up.
LEMMA AgainTypes ==
    ASSUME TypeOK, NEW m \in Messages, Again(m)
    PROVE  /\ \E s \in {"queue", "dead"} : Goto(m, s)
           /\ retries' \in [Messages -> 0..MaxRetries]
<1>1. CASE retries[m] < MaxRetries /\ retries' = [retries EXCEPT ![m] = @ + 1] /\ Goto(m, "queue")
    <2>1. retries[m] \in 0..MaxRetries /\ retries[m] + 1 \in 0..MaxRetries
        BY <1>1, ConstantsAssumption DEF TypeOK
    <2>2. QED BY <1>1, <2>1 DEF TypeOK
<1>2. CASE retries' = retries /\ Goto(m, "dead")
    BY <1>2 DEF TypeOK
<1>3. QED
    BY <1>1, <1>2 DEF Again

\* A change of status frees the lease unless the job runs; no other row is touched.
LEMMA RowIsSet ==
    ASSUME TypeOK, NEW j \in Jobs, NEW s, SetStatus(j, s)
    PROVE  (lease'[j] <=> s = "running") /\ status'[j] = s
BY DEF TypeOK, SetStatus

\* No change of status leaves a lease on a row that does not run.
LEMMA StatusTypes ==
    ASSUME TypeOK, NEW j, NEW s \in {"none", "queued", "running"} \cup Final, SetStatus(j, s)
    PROVE  /\ status' \in [Jobs -> {"none", "queued", "running"} \cup Final]
           /\ lease' \in [Jobs -> BOOLEAN]
           /\ \A k \in Jobs : lease'[k] => status'[k] = "running"
<1>1. j \in Jobs => (lease'[j] <=> s = "running") /\ status'[j] = s
    BY DEF TypeOK, SetStatus
<1>2. \A k \in Jobs : k # j => lease'[k] = lease[k] /\ status'[k] = status[k]
    BY DEF TypeOK, SetStatus
<1>3. lease' \in [Jobs -> BOOLEAN]
    BY DEF TypeOK, SetStatus
<1>4. status' \in [Jobs -> {"none", "queued", "running"} \cup Final]
    BY DEF TypeOK, SetStatus
<1>5. ASSUME NEW k \in Jobs, lease'[k]
      PROVE  status'[k] = "running"
    <2>1. CASE k = j
        BY <1>1, <1>5, <2>1
    <2>2. CASE k # j
        BY <1>2, <1>5, <2>2 DEF TypeOK
    <2>3. QED BY <2>1, <2>2
<1>6. QED
    BY <1>3, <1>4, <1>5

\* Every step keeps the types.
LEMMA TypeStep ==
    ASSUME IInv, Next
    PROVE  TypeOK'
<1>0. TypeOK
    BY DEF IInv
<1>1. ASSUME NEW j \in Jobs, Request(j)
      PROVE  TypeOK'
    <2>1. pinned' \in [Jobs -> 0..MaxEditions] /\ asked' \in [Jobs -> 0..MaxEditions]
        BY <1>0, <1>1, ConstantsAssumption DEF Request, TypeOK
    <2>2. outbox' \subseteq Jobs /\ overrun' \subseteq Working'
        BY <1>0, <1>1 DEF Request, TypeOK, broker, Working
    <2>3. QED
        BY <1>0, <1>1, <2>1, <2>2, StatusTypes DEF Request, TypeOK, broker, source
<1>2. ASSUME NEW j \in Jobs, NEW m \in Messages, Relay(j, m) \/ RelayFails(j, m)
      PROVE  TypeOK'
    BY <1>0, <1>2, GotoTypes, FaultStep, ZenonT(40) DEF Relay, RelayFails, Send, TypeOK, jobs, source
<1>3. ASSUME NEW j \in Jobs, LeaseLapses(j)
      PROVE  TypeOK'
    BY <1>0, <1>3 DEF LeaseLapses, TypeOK, source, Working
<1>4. ASSUME NEW m \in Messages, ClaimFinal(m)
      PROVE  TypeOK'
    BY <1>0, <1>4, GotoTypes DEF ClaimFinal, TypeOK, jobs, source
<1>5. ASSUME NEW m \in Messages, ClaimLeased(m)
      PROVE  TypeOK'
    BY <1>0, <1>5, GotoTypes, AgainTypes DEF ClaimLeased, TypeOK, jobs, source
<1>6. ASSUME NEW m \in Messages, ClaimStale(m)
      PROVE  TypeOK'
    BY <1>0, <1>6, GotoTypes, StatusTypes DEF ClaimStale, TypeOK, source, Final
<1>7. ASSUME NEW m \in Messages, ClaimFull(m)
      PROVE  TypeOK'
    BY <1>0, <1>7, GotoTypes, AgainTypes, StatusTypes DEF ClaimFull, TypeOK, source
<1>8. ASSUME NEW m \in Messages, ClaimRun(m)
      PROVE  TypeOK'
    BY <1>0, <1>8, GotoTypes, StatusTypes DEF ClaimRun, TypeOK, source
<1>9. ASSUME NEW m \in Messages, FencePasses(m)
      PROVE  TypeOK'
    BY <1>0, <1>9, GotoTypes DEF FencePasses, TypeOK, jobs, source, Working
<1>10. ASSUME NEW m \in Messages, Record(m)
       PROVE  TypeOK'
    BY <1>0, <1>10, GotoTypes, StatusTypes DEF Record, TypeOK, source, Final
<1>11. ASSUME NEW m \in Messages, Superseded(m)
       PROVE  TypeOK'
    BY <1>0, <1>11, GotoTypes, StatusTypes DEF Superseded, TypeOK, source, Final
<1>12. ASSUME NEW m \in Messages, Raises(m)
       PROVE  TypeOK'
    BY <1>0, <1>12, GotoTypes, AgainTypes, FaultStep DEF Raises, TypeOK, jobs, source
<1>13. ASSUME NEW m \in Messages, Redelivered(m)
       PROVE  TypeOK'
    BY <1>0, <1>13, GotoTypes, FaultStep DEF Redelivered, TypeOK, jobs, source
<1>14. ASSUME Edit
       PROVE  TypeOK'
    <2>1. edition' = edition + 1 /\ edition' \in 1..MaxEditions
        BY <1>0, <1>14, ConstantsAssumption DEF Edit, TypeOK
    <2>2. PICK e \in 1..edition : version' = names[e] + 1 /\ names' = [names EXCEPT ![edition'] = names[e] + 1]
        BY <1>14 DEF Edit
    <2>3. names[e] \in 1..e
        BY DEF IInv, VersionsAreNamed
    <2>4. names[e] + 1 \in 1..MaxEditions
        BY <1>0, <2>1, <2>3, ConstantsAssumption DEF TypeOK
    <2>5. QED
        BY <1>0, <1>14, <2>1, <2>2, <2>4 DEF Edit, TypeOK, jobs, broker, Working
<1>15. ASSUME Disable
       PROVE  TypeOK'
    BY <1>0, <1>15 DEF Disable, TypeOK, jobs, broker, Working
<1>16. QED
    BY <1>1, <1>2, <1>3, <1>4, <1>5, <1>6, <1>7, <1>8, <1>9, <1>10, <1>11, <1>12, <1>13, <1>14, <1>15
    DEF Next, Step, Publish

-----------------------------------------------------------------------------
(* What a delivery does.                                                   *)

\* A delivery that leaves the worker, or never got into it, for now or for ever.
Leaves(m) ==
    \E s \in {"queue", "acked", "dead"} :
        /\ at' = [at EXCEPT ![m] = s]
        /\ probed' = [probed EXCEPT ![m] = 0]
        /\ overrun' = overrun \ {m}

\* A delivery that is not to go on has left the worker.
LEMMA GotoLeaves ==
    ASSUME NEW m, NEW s \in {"queue", "acked", "dead"}, Goto(m, s)
    PROVE  Leaves(m)
BY DEF Goto, Leaves

\* So has one that is to be tried again.
LEMMA AgainLeaves ==
    ASSUME NEW m, Again(m)
    PROVE  Leaves(m)
BY DEF Again, Goto, Leaves

\* What a delivery that leaves may have done to its job: nothing, or one change of
\* status, never of a job that has its result.
LEMMA DeliveryEnds ==
    ASSUME NEW m \in Messages,
           \/ ClaimFinal(m) \/ ClaimLeased(m) \/ ClaimStale(m) \/ ClaimFull(m)
           \/ Record(m) \/ Superseded(m) \/ Raises(m) \/ Redelivered(m)
    PROVE  /\ Leaves(m) /\ at[m] # "unused"
           /\ UNCHANGED <<job, pinned, asked, outbox, source>>
           /\ \/ UNCHANGED <<status, lease, about>>
              \/ /\ SetStatus(job[m], "queued") /\ UNCHANGED about
                 /\ status[job[m]] \notin Final /\ ~Leased(job[m])
              \/ /\ SetStatus(job[m], "stale") /\ UNCHANGED about
                 /\ status[job[m]] \notin Final
              \/ /\ \E s \in {"succeeded", "failed"} : SetStatus(job[m], s)
                 /\ about' = [about EXCEPT ![job[m]] = probed[m]]
                 /\ status[job[m]] \notin Final /\ at[m] = "record"
<1>1. CASE ClaimFinal(m)
    BY <1>1, GotoLeaves DEF ClaimFinal, Deliver, jobs
<1>2. CASE ClaimLeased(m)
    BY <1>2, AgainLeaves DEF ClaimLeased, Deliver, jobs
<1>3. CASE ClaimStale(m)
    BY <1>3, GotoLeaves DEF ClaimStale, Claimable, Deliver
<1>4. CASE ClaimFull(m)
    BY <1>4, AgainLeaves DEF ClaimFull, Claimable, Deliver
<1>5. CASE Record(m)
    BY <1>5, GotoLeaves DEF Record, Fenced, Final
<1>6. CASE Superseded(m)
    BY <1>6, GotoLeaves DEF Superseded, Working, Final
<1>7. CASE Raises(m)
    BY <1>7, AgainLeaves DEF Raises, jobs
<1>8. CASE Redelivered(m)
    BY <1>8, GotoLeaves DEF Redelivered, jobs
<1>9. QED
    BY <1>1, <1>2, <1>3, <1>4, <1>5, <1>6, <1>7, <1>8

-----------------------------------------------------------------------------
(* One job.                                                                *)

\* No job is ever forgotten.
LEMMA StatusStays ==
    ASSUME IInv, Next, NEW j \in Jobs, status[j] # "none"
    PROVE  status'[j] # "none"
<1>1. ASSUME NEW k, NEW s \in {"queued", "running", "stale", "succeeded", "failed"}, SetStatus(k, s)
      PROVE  status'[j] # "none"
    BY <1>1 DEF SetStatus, IInv, TypeOK
<1>2. ASSUME NEW m \in Messages,
           \/ ClaimFinal(m) \/ ClaimLeased(m) \/ ClaimStale(m) \/ ClaimFull(m)
           \/ Record(m) \/ Superseded(m) \/ Raises(m) \/ Redelivered(m)
      PROVE  status'[j] # "none"
    <2>1. \/ UNCHANGED status
          \/ \E s \in {"queued", "stale", "succeeded", "failed"} : SetStatus(job[m], s)
        BY <1>2, DeliveryEnds
    <2>2. QED BY <1>1, <2>1
<1>3. QED
    BY <1>1, <1>2
    DEF Next, Step, Publish, Request, ClaimRun, FencePasses, Relay, RelayFails, LeaseLapses,
        Edit, Disable, jobs

\* Messages and outbox rows go on naming requested jobs.
LEMMA NamesStep ==
    ASSUME IInv, Next, TypeOK'
    PROVE  MessagesNameJobs'
<1>1. ASSUME outbox' \subseteq outbox, UNCHANGED job,
             \A m \in Messages : at'[m] # "unused" => at[m] # "unused"
      PROVE  MessagesNameJobs'
    BY <1>1, StatusStays DEF IInv, TypeOK, MessagesNameJobs
<1>2. ASSUME NEW m \in Messages,
           \/ ClaimFinal(m) \/ ClaimLeased(m) \/ ClaimStale(m) \/ ClaimFull(m)
           \/ Record(m) \/ Superseded(m) \/ Raises(m) \/ Redelivered(m)
      PROVE  MessagesNameJobs'
    <2>1. Leaves(m) /\ at[m] # "unused" /\ UNCHANGED <<job, outbox>>
        BY <1>2, DeliveryEnds
    <2>2. QED BY <1>1, <2>1 DEF Leaves, IInv, TypeOK
<1>3. ASSUME NEW m \in Messages, ClaimRun(m) \/ FencePasses(m)
      PROVE  MessagesNameJobs'
    <2>1. /\ \E s : at' = [at EXCEPT ![m] = s]
          /\ at[m] # "unused" /\ UNCHANGED <<job, outbox>>
        BY <1>3 DEF ClaimRun, Claimable, Deliver, FencePasses, Goto
    <2>2. QED BY <1>1, <2>1 DEF IInv, TypeOK
<1>4. ASSUME NEW j \in Jobs, NEW m \in Messages, Relay(j, m) \/ RelayFails(j, m)
      PROVE  MessagesNameJobs'
    <2>1. /\ at' = [at EXCEPT ![m] = "queue"] /\ job' = [job EXCEPT ![m] = j]
          /\ outbox' \subseteq outbox /\ UNCHANGED status /\ j \in outbox
        BY <1>4 DEF Relay, RelayFails, Send, Goto, jobs
    <2>2. QED BY <2>1 DEF IInv, TypeOK, MessagesNameJobs
<1>5. ASSUME NEW j \in Jobs, Request(j)
      PROVE  MessagesNameJobs'
    BY <1>5 DEF Request, SetStatus, broker, IInv, TypeOK, MessagesNameJobs
<1>6. ASSUME UNCHANGED <<outbox, at, job>>
      PROVE  MessagesNameJobs'
    BY <1>1, <1>6
<1>7. QED
    BY <1>2, <1>3, <1>4, <1>5, <1>6
    DEF Next, Step, Publish, LeaseLapses, Edit, Disable, jobs, broker

\* An edit adds one version, and changes none that an edition had.
LEMMA VersionsStep ==
    ASSUME IInv, Next, TypeOK'
    PROVE  /\ VersionsAreNamed'
           /\ edition' >= edition /\ \A e \in 1..edition : names'[e] = names[e]
<1>1. CASE Edit
    <2>1. edition' = edition + 1 /\ edition' \in 1..MaxEditions
        BY <1>1, ConstantsAssumption DEF Edit, IInv, TypeOK
    <2>2. PICK e \in 1..edition : version' = names[e] + 1 /\ names' = [names EXCEPT ![edition'] = names[e] + 1]
        BY <1>1 DEF Edit
    <2>3. names[e] \in 1..e /\ names[e] + 1 \in 1..edition'
        BY <2>1, SMTT(30) DEF IInv, TypeOK, VersionsAreNamed
    <2>4. names'[edition'] = version' /\ \A f \in 1..edition : names'[f] = names[f]
        BY <2>1, <2>2, ConstantsAssumption DEF IInv, TypeOK
    <2>5. \A f \in 1..edition' : f = edition' \/ f \in 1..edition
        BY <2>1, ConstantsAssumption DEF IInv, TypeOK
    <2>6. \A f \in 1..edition' : names'[f] \in 1..f
        BY <2>2, <2>3, <2>4, <2>5, SMTT(30) DEF IInv, VersionsAreNamed
    <2>7. QED BY <2>1, <2>4, <2>6 DEF VersionsAreNamed, IInv, TypeOK
<1>2. ASSUME UNCHANGED <<version, edition, names>>
      PROVE  /\ VersionsAreNamed'
             /\ edition' >= edition /\ \A e \in 1..edition : names'[e] = names[e]
    BY <1>2 DEF IInv, TypeOK, VersionsAreNamed
<1>3. UNCHANGED <<version, edition, names>> \/ Edit
    BY DEF Next, Step, Publish, Request, Relay, RelayFails, LeaseLapses, ClaimFinal, ClaimLeased,
        ClaimStale, ClaimFull, ClaimRun, FencePasses, Record, Superseded, Raises, Redelivered,
        Disable, source
<1>4. QED BY <1>1, <1>2, <1>3

\* What a job pins is what the request read, whatever is edited later.
LEMMA PinsStep ==
    ASSUME IInv, Next, TypeOK'
    PROVE  PinsAreNamed'
<1>1. edition' >= edition /\ \A e \in 1..edition : names'[e] = names[e]
    BY VersionsStep
<1>2. edition \in Nat /\ edition' \in Nat
    BY ConstantsAssumption DEF IInv, TypeOK
<1>3. CASE \E j \in Jobs : Request(j)
    <2>1. PICK j \in Jobs : Request(j)
        BY <1>3
    <2>2. /\ pinned' = [pinned EXCEPT ![j] = version] /\ asked' = [asked EXCEPT ![j] = edition]
          /\ status' = [status EXCEPT ![j] = "queued"] /\ UNCHANGED <<version, edition, names>>
        BY <2>1 DEF Request, SetStatus, source
    <2>3. edition \in 1..edition /\ version = names[edition]
        BY ConstantsAssumption DEF IInv, TypeOK, VersionsAreNamed
    <2>4. QED
        BY <2>2, <2>3 DEF IInv, TypeOK, PinsAreNamed
<1>4. ASSUME UNCHANGED <<pinned, asked>>, \A j \in Jobs : status'[j] # "none" => status[j] # "none"
      PROVE  PinsAreNamed'
    BY <1>1, <1>2, <1>4 DEF IInv, PinsAreNamed
<1>5. ASSUME NEW m \in Messages,
           \/ ClaimFinal(m) \/ ClaimLeased(m) \/ ClaimStale(m) \/ ClaimFull(m)
           \/ Record(m) \/ Superseded(m) \/ Raises(m) \/ Redelivered(m)
      PROVE  PinsAreNamed'
    <2>1. at[m] # "unused" /\ UNCHANGED <<pinned, asked>> /\ (UNCHANGED status \/ \E s : SetStatus(job[m], s))
        BY <1>5, DeliveryEnds
    <2>2. QED
        BY <1>4, <2>1 DEF IInv, TypeOK, MessagesNameJobs, SetStatus
<1>6. ASSUME NEW m \in Messages, ClaimRun(m) \/ FencePasses(m)
      PROVE  PinsAreNamed'
    BY <1>4, <1>6 DEF ClaimRun, FencePasses, Claimable, Deliver, IInv, TypeOK, MessagesNameJobs, SetStatus, jobs
<1>7. QED
    BY <1>3, <1>4, <1>5, <1>6
    DEF Next, Step, Publish, Relay, RelayFails, LeaseLapses, Edit, Disable, jobs

\* What is probed, and what is recorded, has the version that was pinned.
LEMMA ProbesStep ==
    ASSUME IInv, Next, TypeOK', PinsAreNamed', MessagesNameJobs'
    PROVE  ProbesArePinned'
<1>1. /\ edition' >= edition /\ \A e \in 1..edition : names'[e] = names[e]
      /\ edition \in Nat /\ edition' \in Nat
    <2>1. edition \in Nat /\ edition' \in Nat
        BY ConstantsAssumption DEF IInv, TypeOK
    <2>2. QED BY <2>1, VersionsStep
<1>2. \A j \in Jobs : status[j] # "none" => pinned'[j] = pinned[j]
    BY DEF Next, Step, Publish, Request, Relay, RelayFails, LeaseLapses, ClaimFinal, ClaimLeased,
        ClaimStale, ClaimFull, ClaimRun, FencePasses, Record, Superseded, Raises, Redelivered,
        Edit, Disable, jobs, IInv, TypeOK
<1> DEFINE Probe(m) == at[m] = "record" => probed[m] \in 1..edition /\ names[probed[m]] = pinned[job[m]]
           Result(j) == status[j] \in {"succeeded", "failed"} =>
                            about[j] \in 1..edition /\ names[about[j]] = pinned[j]
<1>3. ASSUME NEW m \in Messages, at'[m] = "record" => at[m] = "record" /\ UNCHANGED <<probed[m], job[m]>>
      PROVE  Probe(m)'
    BY <1>1, <1>2, <1>3 DEF IInv, ProbesArePinned, MessagesNameJobs
<1>4. ASSUME NEW j \in Jobs,
             status'[j] \in {"succeeded", "failed"} => status'[j] = status[j] /\ about'[j] = about[j]
      PROVE  Result(j)'
    BY <1>1, <1>2, <1>4 DEF IInv, ProbesArePinned
<1>5. ASSUME NEW m \in Messages,
           \/ ClaimFinal(m) \/ ClaimLeased(m) \/ ClaimStale(m) \/ ClaimFull(m)
           \/ Record(m) \/ Superseded(m) \/ Raises(m) \/ Redelivered(m)
      PROVE  ProbesArePinned'
    <2>1. Leaves(m) /\ UNCHANGED job
        BY <1>5, DeliveryEnds
    <2>2. ASSUME NEW n \in Messages
          PROVE  Probe(n)'
        BY <1>3, <2>1 DEF Leaves, IInv, TypeOK
    <2>3. ASSUME NEW j \in Jobs
          PROVE  Result(j)'
        <3>1. \/ UNCHANGED <<status, about>>
              \/ UNCHANGED about /\ \E s \in {"queued", "stale"} : SetStatus(job[m], s)
              \/ /\ \E s : SetStatus(job[m], s)
                 /\ about' = [about EXCEPT ![job[m]] = probed[m]] /\ at[m] = "record"
            BY <1>5, DeliveryEnds
        <3>2. CASE j # job[m] \/ UNCHANGED <<status, about>>
            BY <1>4, <3>1, <3>2 DEF SetStatus, IInv, TypeOK
        <3>3. CASE j = job[m] /\ \E s \in {"queued", "stale"} : SetStatus(job[m], s)
            BY <3>3 DEF SetStatus, IInv, TypeOK
        <3>4. CASE j = job[m] /\ about' = [about EXCEPT ![job[m]] = probed[m]] /\ at[m] = "record"
            <4>1. about'[j] = probed[m]
                BY <3>4 DEF IInv, TypeOK
            <4>2. probed[m] \in 1..edition /\ names[probed[m]] = pinned[j]
                BY <3>4 DEF IInv, ProbesArePinned
            <4>3. pinned'[j] = pinned[j]
                BY <1>2, <3>4 DEF IInv, MessagesNameJobs
            <4>4. QED BY <1>1, <4>1, <4>2, <4>3
        <3>5. QED BY <3>1, <3>2, <3>3, <3>4
    <2>4. QED BY <2>2, <2>3 DEF ProbesArePinned
<1>6. ASSUME NEW m \in Messages, FencePasses(m)
      PROVE  ProbesArePinned'
    <2>1. /\ at' = [at EXCEPT ![m] = "record"] /\ probed' = [probed EXCEPT ![m] = edition]
          /\ UNCHANGED <<job, status, about, pinned, edition, version, names>>
          /\ pinned[job[m]] = version
        BY <1>6 DEF FencePasses, Goto, Fenced, Current, jobs, source
    <2>2. edition \in 1..edition /\ names[edition] = version
        BY <1>1, ConstantsAssumption DEF IInv, TypeOK, VersionsAreNamed
    <2>3. Probe(m)'
        BY <2>1, <2>2 DEF IInv, TypeOK
    <2>4. ASSUME NEW n \in Messages, n # m
          PROVE  Probe(n)'
        BY <1>3, <2>1, <2>4 DEF IInv, TypeOK
    <2>5. ASSUME NEW j \in Jobs
          PROVE  Result(j)'
        BY <1>4, <2>1
    <2>6. QED BY <2>3, <2>4, <2>5 DEF ProbesArePinned
<1>7. ASSUME \A m \in Messages : at'[m] = "record" => at[m] = "record" /\ UNCHANGED <<probed[m], job[m]>>,
             \A j \in Jobs :
                 status'[j] \in {"succeeded", "failed"} => status'[j] = status[j] /\ about'[j] = about[j]
      PROVE  ProbesArePinned'
    BY <1>3, <1>4, <1>7 DEF ProbesArePinned
<1>8. ASSUME NEW m \in Messages, ClaimRun(m)
      PROVE  ProbesArePinned'
    BY <1>7, <1>8 DEF ClaimRun, Goto, SetStatus, IInv, TypeOK
<1>9. ASSUME NEW j \in Jobs, NEW m \in Messages, Relay(j, m) \/ RelayFails(j, m)
      PROVE  ProbesArePinned'
    BY <1>7, <1>9 DEF Relay, RelayFails, Send, Goto, jobs, IInv, TypeOK
<1>10. ASSUME NEW j \in Jobs, Request(j)
       PROVE  ProbesArePinned'
    BY <1>7, <1>10 DEF Request, SetStatus, broker, IInv, TypeOK
<1>11. ASSUME UNCHANGED <<status, about, at, probed, job>>
       PROVE  ProbesArePinned'
    BY <1>7, <1>11
<1>12. QED
    BY <1>5, <1>6, <1>8, <1>9, <1>10, <1>11
    DEF Next, Step, Publish, LeaseLapses, Edit, Disable, jobs, broker

-----------------------------------------------------------------------------
(* The lease, and the limit.                                               *)

\* A job is leased while the deliveries that work on it have not outlived a lease:
\* only who takes it over, frees it or lets it lapse touches the lease.
LEMMA LeaseStep ==
    ASSUME IInv, Next, TypeOK'
    PROVE  WorkIsLeased' /\ OneProber'
<1> DEFINE Sure(m) == m \in Working /\ m \notin overrun
           Held(m) == status[job[m]] \in Final \/ Leased(job[m])
<1>0. /\ \A m \in Messages : Sure(m) => Held(m) /\ job[m] \in Jobs
      /\ \A m, n \in Messages : Sure(m) /\ Sure(n) /\ job[m] = job[n] => m = n
    BY DEF IInv, WorkIsLeased, OneProber, MessagesNameJobs, Working
<1>1. ASSUME \A m \in Messages : Sure(m)' => Sure(m) /\ job'[m] = job[m] /\ Held(m)'
      PROVE  WorkIsLeased' /\ OneProber'
    <2>1. \A m \in Working' \ overrun' : m \in Messages /\ Sure(m)'
        BY DEF Working
    <2> HIDE DEF Sure, Held
    <2>2. \A m \in Working' \ overrun' : Held(m)'
        BY <1>1, <2>1
    <2>3. \A m, n \in Working' \ overrun' : job'[m] = job'[n] => m = n
        BY <1>0, <1>1, <2>1
    <2>4. QED
        BY <2>2, <2>3 DEF WorkIsLeased, OneProber, Held
<1>2. ASSUME NEW m \in Messages,
           \/ ClaimFinal(m) \/ ClaimLeased(m) \/ ClaimStale(m) \/ ClaimFull(m)
           \/ Record(m) \/ Superseded(m) \/ Raises(m) \/ Redelivered(m)
      PROVE  WorkIsLeased' /\ OneProber'
    <2>1. Leaves(m) /\ UNCHANGED job
        BY <1>2, DeliveryEnds
    <2>2. ASSUME NEW n \in Messages, Sure(n)'
          PROVE  Sure(n) /\ job'[n] = job[n]
        BY <2>1, <2>2 DEF Leaves, Working, IInv, TypeOK
    <2>3. ASSUME NEW n \in Messages, Sure(n)
          PROVE  Held(n)'
        <3>1. Held(n) /\ job[n] \in Jobs
            BY <1>0, <2>3
        <3>2. \/ UNCHANGED <<status, lease>>
              \/ /\ SetStatus(job[m], "queued")
                 /\ status[job[m]] \notin Final /\ ~Leased(job[m])
              \/ \E s \in Final : SetStatus(job[m], s)
            BY <1>2, DeliveryEnds DEF Final
        <3>3. CASE UNCHANGED <<status, lease>>
            BY <2>1, <3>1, <3>3 DEF Leased
        <3>4. CASE job[n] # job[m] /\ \E s : SetStatus(job[m], s)
            <4>1. status'[job[n]] = status[job[n]] /\ lease'[job[n]] = lease[job[n]]
                BY <3>1, <3>4 DEF SetStatus, IInv, TypeOK
            <4>2. QED BY <2>1, <3>1, <4>1 DEF Leased
        <3>5. CASE job[n] = job[m] /\ \E s \in Final : SetStatus(job[m], s)
            BY <2>1, <3>1, <3>5 DEF SetStatus, IInv, TypeOK
        <3>6. QED
            BY <3>1, <3>2, <3>3, <3>4, <3>5
    <2>4. QED
        BY <1>1, <2>2, <2>3
<1>3. ASSUME NEW m \in Messages, ClaimRun(m)
      PROVE  WorkIsLeased' /\ OneProber'
    <2>1. /\ at' = [at EXCEPT ![m] = "fence"] /\ overrun' = overrun \ {m} /\ UNCHANGED job
          /\ SetStatus(job[m], "running")
          /\ status[job[m]] \notin Final /\ ~Leased(job[m]) /\ job[m] \in Jobs
        BY <1>3 DEF ClaimRun, Claimable, Deliver, Goto, IInv, MessagesNameJobs
    <2>2. ASSUME NEW n \in Messages, n # m, Sure(n)'
          PROVE  Sure(n) /\ job[n] # job[m] /\ job'[n] = job[n] /\ Held(n)'
        <3>1. Sure(n)
            BY <2>1, <2>2 DEF Working, IInv, TypeOK
        <3>2. job[n] # job[m] /\ Held(n) /\ job[n] \in Jobs
            BY <1>0, <2>1, <3>1
        <3>3. status'[job[n]] = status[job[n]] /\ lease'[job[n]] = lease[job[n]]
            BY <2>1, <3>2 DEF SetStatus, IInv, TypeOK
        <3>4. QED BY <2>1, <3>1, <3>2, <3>3 DEF Leased
    <2>3. Held(m)'
        <3>1. status'[job[m]] = "running" /\ (lease'[job[m]] <=> "running" = "running")
            BY <2>1, RowIsSet DEF IInv
        <3>2. QED BY <2>1, <3>1 DEF Leased
    <2>4. \A n \in Working' \ overrun' : n \in Messages /\ Sure(n)'
        BY DEF Working
    <2> HIDE DEF Sure, Held
    <2>5. \A n \in Working' \ overrun' : Held(n)'
        BY <2>2, <2>3, <2>4
    <2>6. \A n, k \in Working' \ overrun' : job'[n] = job'[k] => n = k
        BY <1>0, <2>1, <2>2, <2>4
    <2>7. QED
        BY <2>5, <2>6 DEF WorkIsLeased, OneProber, Held
<1>4. ASSUME NEW m \in Messages, FencePasses(m)
      PROVE  WorkIsLeased' /\ OneProber'
    <2>1. /\ at' = [at EXCEPT ![m] = "record"] /\ at[m] = "fence"
          /\ UNCHANGED <<overrun, job, status, lease>>
        BY <1>4 DEF FencePasses, Goto, jobs
    <2>2. QED
        BY <1>0, <1>1, <2>1 DEF Working, Leased, IInv, TypeOK
<1>5. ASSUME NEW j \in Jobs, LeaseLapses(j)
      PROVE  WorkIsLeased' /\ OneProber'
    <2>1. /\ lease' = [lease EXCEPT ![j] = FALSE] /\ UNCHANGED <<at, job, status>>
          /\ overrun' = overrun \cup {m \in Working : job[m] = j}
        BY <1>5 DEF LeaseLapses
    <2>2. ASSUME NEW m \in Messages, Sure(m)'
          PROVE  Sure(m) /\ job[m] # j /\ job[m] \in Jobs /\ Held(m)
        BY <1>0, <2>1, <2>2 DEF Working
    <2>3. ASSUME NEW m \in Messages, Sure(m)'
          PROVE  Held(m)'
        BY <2>1, <2>2, <2>3 DEF Leased, IInv, TypeOK
    <2>4. QED
        BY <1>1, <2>1, <2>2, <2>3
<1>6. ASSUME NEW j \in Jobs, Request(j)
      PROVE  WorkIsLeased' /\ OneProber'
    <2>1. /\ SetStatus(j, "queued") /\ status[j] = "none" /\ UNCHANGED <<at, job, overrun>>
        BY <1>6 DEF Request, broker
    <2>2. ASSUME NEW m \in Messages, Sure(m)'
          PROVE  Sure(m) /\ job[m] # j /\ job[m] \in Jobs /\ Held(m)
        BY <1>0, <2>1, <2>2 DEF Working, Leased, Final
    <2>3. ASSUME NEW m \in Messages, Sure(m)'
          PROVE  Held(m)'
        BY <2>1, <2>2, <2>3 DEF Leased, SetStatus, IInv, TypeOK
    <2>4. QED
        BY <1>1, <2>1, <2>2, <2>3
<1>7. ASSUME NEW j \in Jobs, NEW m \in Messages, Relay(j, m) \/ RelayFails(j, m)
      PROVE  WorkIsLeased' /\ OneProber'
    <2>1. /\ at' = [at EXCEPT ![m] = "queue"] /\ job' = [job EXCEPT ![m] = j]
          /\ overrun' = overrun \ {m} /\ UNCHANGED <<status, lease>>
        BY <1>7 DEF Relay, RelayFails, Send, Goto, jobs
    <2>2. ASSUME NEW n \in Messages, Sure(n)'
          PROVE  n # m /\ Sure(n) /\ job'[n] = job[n]
        BY <2>1, <2>2 DEF Working, IInv, TypeOK
    <2>3. ASSUME NEW n \in Messages, Sure(n)'
          PROVE  Held(n)'
        BY <1>0, <2>1, <2>2, <2>3 DEF Leased
    <2>4. QED
        BY <1>1, <2>2, <2>3
<1>8. ASSUME UNCHANGED <<status, lease, at, job, overrun>>
      PROVE  WorkIsLeased' /\ OneProber'
    BY <1>0, <1>1, <1>8 DEF Working, Leased
<1>9. QED
    BY <1>2, <1>3, <1>4, <1>5, <1>6, <1>7, <1>8
    DEF Next, Step, Publish, Edit, Disable, jobs, broker

\* Only a claim that counted below the limit adds a running row.
LEMMA CapStep ==
    ASSUME IInv, Next, TypeOK'
    PROVE  CapRespected'
<1>1. /\ IsFiniteSet(Running) /\ Cardinality(Running) \in Nat /\ Cardinality(Running) <= Cap
      /\ Cap \in Nat
    <2>1. IsFiniteSet(Running)
        BY FS_Subset, ConstantsAssumption DEF Running
    <2>2. QED
        BY <2>1, FS_CardinalityType, ConstantsAssumption DEF IInv, CapRespected, Running
<1>2. ASSUME Running' \subseteq Running
      PROVE  CapRespected'
    <2>1. Cardinality(Running') <= Cardinality(Running) /\ Cardinality(Running') \in Nat
        BY <1>1, <1>2, FS_Subset, FS_CardinalityType
    <2>2. Cardinality(Running') <= Cap
        BY <1>1, <2>1
    <2>3. QED BY <2>2 DEF CapRespected, Running
<1>3. ASSUME NEW j, NEW s, s # "running", SetStatus(j, s)
      PROVE  Running' \subseteq Running
    BY <1>3 DEF SetStatus, Running, IInv, TypeOK
<1>4. ASSUME NEW m \in Messages,
           \/ ClaimFinal(m) \/ ClaimLeased(m) \/ ClaimStale(m) \/ ClaimFull(m)
           \/ Record(m) \/ Superseded(m) \/ Raises(m) \/ Redelivered(m)
      PROVE  CapRespected'
    <2>1. \/ UNCHANGED status
          \/ \E s \in {"queued", "stale", "succeeded", "failed"} : SetStatus(job[m], s)
        BY <1>4, DeliveryEnds
    <2>2. CASE UNCHANGED status
        BY <1>2, <2>2 DEF Running
    <2>3. QED BY <1>2, <1>3, <2>1, <2>2
<1>5. ASSUME NEW m \in Messages, ClaimRun(m)
      PROVE  CapRespected'
    <2>1. Cardinality(Running) < Cap /\ SetStatus(job[m], "running")
        BY <1>5 DEF ClaimRun
    <2>2. Running' \subseteq Running \cup {job[m]}
        BY <2>1 DEF SetStatus, Running, IInv, TypeOK
    <2>3. /\ IsFiniteSet(Running \cup {job[m]})
          /\ Cardinality(Running \cup {job[m]}) \in Nat
          /\ Cardinality(Running \cup {job[m]}) <= Cardinality(Running) + 1
        <3>1. /\ IsFiniteSet(Running \cup {job[m]})
              /\ \/ Cardinality(Running \cup {job[m]}) = Cardinality(Running)
                 \/ Cardinality(Running \cup {job[m]}) = Cardinality(Running) + 1
            BY <1>1, FS_AddElement
        <3>2. QED BY <1>1, <3>1
    <2>4. Cardinality(Running') <= Cardinality(Running \cup {job[m]}) /\ Cardinality(Running') \in Nat
        BY <2>2, <2>3, FS_Subset, FS_CardinalityType
    <2>5. Cardinality(Running') <= Cap
        BY <1>1, <2>1, <2>3, <2>4
    <2>6. QED BY <2>5 DEF CapRespected, Running
<1>6. ASSUME NEW j \in Jobs, Request(j)
      PROVE  CapRespected'
    BY <1>2, <1>3, <1>6 DEF Request
<1>7. ASSUME UNCHANGED status
      PROVE  CapRespected'
    BY <1>2, <1>7 DEF Running
<1>8. QED
    BY <1>4, <1>5, <1>6, <1>7
    DEF Next, Step, Publish, Relay, RelayFails, LeaseLapses, FencePasses, Edit, Disable, jobs

-----------------------------------------------------------------------------
(* Theorems.                                                               *)

\* The strengthened invariant holds initially ...
LEMMA InitialState == Init => IInv
<1> SUFFICES ASSUME Init
             PROVE  IInv
    OBVIOUS
<1>1. TypeOK
    BY ConstantsAssumption DEF Init, TypeOK, Working
<1>2. MessagesNameJobs /\ PinsAreNamed /\ ProbesArePinned
    BY DEF Init, MessagesNameJobs, PinsAreNamed, ProbesArePinned
<1>3. VersionsAreNamed
    BY ConstantsAssumption DEF Init, VersionsAreNamed
<1>4. WorkIsLeased /\ OneProber
    BY DEF Init, WorkIsLeased, OneProber, Working
<1>5. CapRespected
    <2>1. {j \in Jobs : status[j] = "running"} = {}
        BY DEF Init
    <2>2. QED BY <2>1, FS_EmptySet, ConstantsAssumption DEF CapRespected
<1>6. QED
    BY <1>1, <1>2, <1>3, <1>4, <1>5 DEF IInv

\* ... is kept by every step ...
LEMMA InductiveStep ==
    ASSUME IInv, [Next]_vars
    PROVE  IInv'
<1>1. CASE Next
    <2>1. TypeOK'
        BY <1>1, TypeStep
    <2>2. MessagesNameJobs' /\ VersionsAreNamed' /\ PinsAreNamed'
        BY <1>1, <2>1, NamesStep, VersionsStep, PinsStep
    <2>3. ProbesArePinned' /\ WorkIsLeased' /\ OneProber' /\ CapRespected'
        BY <1>1, <2>1, <2>2, ProbesStep, LeaseStep, CapStep
    <2>4. QED BY <2>1, <2>2, <2>3 DEF IInv
<1>2. CASE UNCHANGED vars
    BY <1>2 DEF vars, jobs, broker, source, IInv, TypeOK, MessagesNameJobs, VersionsAreNamed,
        PinsAreNamed, ProbesArePinned, WorkIsLeased, OneProber, CapRespected, Working, Leased
<1>3. QED BY <1>1, <1>2

\* ... and so always.
LEMMA Invariance == Spec => []IInv
<1>1. IInv /\ [Next]_vars => IInv'
    BY InductiveStep
<1>2. QED
    BY InitialState, <1>1, PTL DEF Spec

\* Every variable keeps its type, for any jobs, messages, threads, retries and edits.
THEOREM TypeCorrect == Spec => []TypeOK
<1>1. IInv => TypeOK
    BY DEF IInv
<1>2. QED BY Invariance, <1>1, PTL

\* No more rows of a tenant are running than the limit, for every limit.
THEOREM CapCorrect == Spec => []CapRespected
<1>1. IInv => CapRespected
    BY DEF IInv
<1>2. QED BY Invariance, <1>1, PTL

\* However often a job is delivered, one delivery works on it until its lease lapses.
THEOREM OneProberAtATime == Spec => []OneProber
<1>1. IInv => OneProber
    BY DEF IInv
<1>2. QED BY Invariance, <1>1, PTL

\* A recorded outcome is about contents under the version asked for, however many
\* edits commit meanwhile.
THEOREM ResultsAnswer == Spec => []ResultAnswersRequest
<1>1. IInv => ResultAnswersRequest
    BY DEF IInv, PinsAreNamed, ProbesArePinned, ResultAnswersRequest
<1>2. QED BY Invariance, <1>1, PTL

\* No action of a delivery, of the request, of the relay or of time rewrites a result.
LEMMA ResultStep ==
    ASSUME IInv, [Next]_vars, NEW j \in Jobs, status[j] \in Final
    PROVE  status'[j] = status[j] /\ about'[j] = about[j]
<1> DEFINE Keeps == status'[j] = status[j] /\ about'[j] = about[j]
<1>1. ASSUME NEW m \in Messages,
             \/ ClaimFinal(m) \/ ClaimLeased(m) \/ ClaimStale(m) \/ ClaimFull(m)
             \/ Record(m) \/ Superseded(m) \/ Raises(m) \/ Redelivered(m)
      PROVE  Keeps
    <2>1. \/ UNCHANGED <<status, about>>
          \/ /\ \E s : SetStatus(job[m], s)
             /\ \E e : about' = [about EXCEPT ![job[m]] = e] \/ UNCHANGED about
             /\ status[job[m]] \notin Final
        BY <1>1, DeliveryEnds
    <2>2. QED BY <2>1 DEF SetStatus, IInv, TypeOK
<1>2. ASSUME NEW m \in Messages, ClaimRun(m)
      PROVE  Keeps
    BY <1>2 DEF ClaimRun, Claimable, SetStatus, IInv, TypeOK
<1>3. ASSUME NEW k \in Jobs, Request(k)
      PROVE  Keeps
    BY <1>3 DEF Request, SetStatus, IInv, TypeOK, Final
<1>4. CASE UNCHANGED vars
    BY <1>4 DEF vars, jobs
<1>5. QED
    BY <1>1, <1>2, <1>3, <1>4
    DEF Next, Step, Publish, Relay, RelayFails, LeaseLapses, FencePasses, Edit, Disable, jobs

\* A result, once recorded, is never changed by a duplicate, a retry or a late owner.
THEOREM ResultsAreFinal == Spec => ResultIsFinal
<1>1. IInv /\ [Next]_vars =>
        [\A j \in Jobs : status[j] \in Final => status'[j] = status[j] /\ about'[j] = about[j]]_vars
    BY ResultStep
<1>2. QED
    BY Invariance, <1>1, PTL DEF Spec, ResultIsFinal

-----------------------------------------------------------------------------
(* No job without a result is forgotten.                                   *)

\* Who will see to a job: of a queued one the outbox, or a message that no worker has
\* at the moment; of a running one also a delivery at work.
JobsAreCarried ==
    \A j \in Jobs :
        /\ status[j] = "queued" =>
            j \in outbox \/ \E m \in Messages : job[m] = j /\ at[m] \in {"queue", "dead"}
        /\ status[j] = "running" =>
            \E m \in Messages : job[m] = j /\ at[m] \in {"queue", "fence", "record", "dead"}

\* A message goes one step.  Its job has a result then, or the message is one that will
\* see to it, or it was superseded and the job was in other hands already.
LEMMA DeliveryMoves ==
    ASSUME IInv, NEW m \in Messages, Step(m) \/ Raises(m) \/ Redelivered(m)
    PROVE  /\ at[m] # "unused" /\ UNCHANGED <<job, outbox>>
           /\ \A k \in Jobs : k # job[m] => status'[k] = status[k]
           /\ \A n \in Messages : n # m => at'[n] = at[n]
           /\ \/ status'[job[m]] \in Final
              \/ at'[m] \in {"queue", "dead"}
              \/ at'[m] \in {"fence", "record"} /\ status'[job[m]] = "running"
              \/ /\ at[m] \in {"fence", "record"} /\ status[job[m]] # "running"
                 /\ UNCHANGED status
<1>0. TypeOK /\ (at[m] # "unused" => job[m] \in Jobs)
    BY DEF IInv, MessagesNameJobs
<1>1. ASSUME NEW s, SetStatus(job[m], s), at[m] # "unused"
      PROVE  status'[job[m]] = s /\ \A k \in Jobs : k # job[m] => status'[k] = status[k]
    BY <1>0, <1>1 DEF SetStatus, TypeOK
<1>2. ASSUME NEW s, Goto(m, s)
      PROVE  at'[m] = s /\ \A n \in Messages : n # m => at'[n] = at[n]
    BY <1>0, <1>2 DEF Goto, TypeOK
<1>3. ASSUME Again(m)
      PROVE  at'[m] \in {"queue", "dead"} /\ \A n \in Messages : n # m => at'[n] = at[n]
    BY <1>2, <1>3 DEF Again
<1>4. CASE ClaimFinal(m)
    BY <1>2, <1>4 DEF ClaimFinal, Deliver, jobs
<1>5. CASE ClaimLeased(m) \/ Raises(m)
    BY <1>3, <1>5 DEF ClaimLeased, Raises, Deliver, jobs
<1>6. CASE ClaimStale(m)
    BY <1>1, <1>2, <1>6 DEF ClaimStale, Claimable, Deliver, Final
<1>7. CASE ClaimFull(m)
    BY <1>1, <1>3, <1>7 DEF ClaimFull, Claimable, Deliver
<1>8. CASE ClaimRun(m)
    BY <1>1, <1>2, <1>8 DEF ClaimRun, Claimable, Deliver
<1>9. CASE FencePasses(m)
    BY <1>2, <1>9 DEF FencePasses, Fenced, jobs
<1>10. CASE Record(m)
    BY <1>1, <1>2, <1>10 DEF Record, Final
<1>11. CASE Superseded(m)
    <2>1. at[m] \in {"fence", "record"} /\ Goto(m, "acked") /\ UNCHANGED <<job, outbox>>
        BY <1>11 DEF Superseded, Working
    <2>2. CASE SetStatus(job[m], "stale")
        BY <1>1, <1>2, <2>1, <2>2 DEF Final
    <2>3. CASE status[job[m]] # "running" /\ UNCHANGED <<status, lease>>
        BY <1>2, <2>1, <2>3
    <2>4. QED BY <1>11, <2>2, <2>3 DEF Superseded
<1>12. CASE Redelivered(m)
    BY <1>2, <1>12 DEF Redelivered, jobs
<1>13. QED
    BY <1>4, <1>5, <1>6, <1>7, <1>8, <1>9, <1>10, <1>11, <1>12 DEF Step

\* Whatever becomes of one message or one job, every job stays in somebody's hands.
LEMMA CarriedStep ==
    ASSUME IInv, JobsAreCarried, [Next]_vars
    PROVE  JobsAreCarried'
<1>0. TypeOK
    BY DEF IInv
<1>1. ASSUME NEW m \in Messages, Step(m) \/ Raises(m) \/ Redelivered(m)
      PROVE  JobsAreCarried'
    <2>1. /\ at[m] # "unused" /\ UNCHANGED <<job, outbox>>
          /\ \A k \in Jobs : k # job[m] => status'[k] = status[k]
          /\ \A n \in Messages : n # m => at'[n] = at[n]
        BY <1>1, DeliveryMoves
    <2>2. ASSUME NEW j \in Jobs, j # job[m]
          PROVE  /\ status'[j] = "queued" =>
                     j \in outbox' \/ \E n \in Messages : job'[n] = j /\ at'[n] \in {"queue", "dead"}
                 /\ status'[j] = "running" =>
                     \E n \in Messages : job'[n] = j /\ at'[n] \in {"queue", "fence", "record", "dead"}
        BY <2>1, <2>2 DEF JobsAreCarried
    <2>3. ASSUME job[m] \in Jobs
          PROVE  /\ status'[job[m]] = "queued" =>
                     \/ job[m] \in outbox'
                     \/ \E n \in Messages : job'[n] = job[m] /\ at'[n] \in {"queue", "dead"}
                 /\ status'[job[m]] = "running" =>
                     \E n \in Messages :
                         job'[n] = job[m] /\ at'[n] \in {"queue", "fence", "record", "dead"}
        <3>1. CASE status'[job[m]] \in Final
            BY <3>1 DEF Final
        <3>2. CASE at'[m] \in {"queue", "dead"}
            BY <2>1, <3>2
        <3>3. CASE at'[m] \in {"fence", "record"} /\ status'[job[m]] = "running"
            BY <2>1, <3>3
        <3>4. CASE at[m] \in {"fence", "record"} /\ status[job[m]] # "running" /\ UNCHANGED status
            BY <2>1, <2>3, <3>4 DEF JobsAreCarried
        <3>5. QED BY <1>1, <3>1, <3>2, <3>3, <3>4, DeliveryMoves
    <2>4. QED BY <2>2, <2>3 DEF JobsAreCarried
<1>2. ASSUME NEW j \in Jobs, NEW m \in Messages, Relay(j, m) \/ RelayFails(j, m)
      PROVE  JobsAreCarried'
    <2>1. /\ at[m] = "unused" /\ at' = [at EXCEPT ![m] = "queue"] /\ job' = [job EXCEPT ![m] = j]
          /\ outbox \ {j} \subseteq outbox' /\ UNCHANGED status
        BY <1>2 DEF Relay, RelayFails, Send, Goto, jobs
    <2>2. /\ at'[m] = "queue" /\ job'[m] = j
          /\ \A n \in Messages : at[n] # "unused" => at'[n] = at[n] /\ job'[n] = job[n]
        BY <1>0, <2>1 DEF TypeOK
    <2>3. ASSUME NEW k \in Jobs
          PROVE  /\ status'[k] = "queued" =>
                     k \in outbox' \/ \E n \in Messages : job'[n] = k /\ at'[n] \in {"queue", "dead"}
                 /\ status'[k] = "running" =>
                     \E n \in Messages : job'[n] = k /\ at'[n] \in {"queue", "fence", "record", "dead"}
        BY <2>1, <2>2 DEF JobsAreCarried
    <2>4. QED BY <2>3 DEF JobsAreCarried
<1>3. ASSUME NEW j \in Jobs, Request(j)
      PROVE  JobsAreCarried'
    <2>1. j \in outbox' /\ outbox \subseteq outbox' /\ UNCHANGED <<at, job>> /\ SetStatus(j, "queued")
        BY <1>3 DEF Request, broker
    <2>2. status'[j] = "queued" /\ \A k \in Jobs : k # j => status'[k] = status[k]
        BY <1>0, <2>1 DEF SetStatus, TypeOK
    <2>3. QED BY <2>1, <2>2 DEF JobsAreCarried
<1>4. CASE UNCHANGED <<status, outbox, at, job>>
    BY <1>4 DEF JobsAreCarried
<1>5. QED
    BY <1>1, <1>2, <1>3, <1>4
    DEF Next, Publish, LeaseLapses, Edit, Disable, vars, jobs, broker

\* A job without a result stays in the outbox, in the queue, with a worker or among the
\* given-up messages, for all jobs, deliveries, lapses, limits and edits: what the
\* liveness of the tests rests on.
THEOREM NothingIsForgotten == Spec => []NothingForgotten
<1>1. Init => JobsAreCarried
    BY DEF Init, JobsAreCarried
<1>2. IInv /\ JobsAreCarried /\ [Next]_vars => JobsAreCarried'
    BY CarriedStep
<1>3. JobsAreCarried => NothingForgotten
    BY DEF JobsAreCarried, NothingForgotten
<1>4. QED BY Invariance, <1>1, <1>2, <1>3, PTL DEF Spec

-----------------------------------------------------------------------------
(* The source as DataSources has it.                                       *)

\* The versions the source has had are all of those up to the highest.
Versions == {names[e] : e \in 1..edition}

VersionsAreContiguous == \E h \in Nat \ {0} : Versions = 1..h

Highest == CHOOSE h \in Nat \ {0} : Versions = 1..h

\* An edit adds one more than one of them.
LEMMA ContiguousStep ==
    ASSUME IInv, VersionsAreContiguous, [Next]_vars
    PROVE  VersionsAreContiguous'
<1>0. edition \in Nat /\ names \in [1..MaxEditions -> 0..MaxEditions] /\ edition \in 1..MaxEditions
    BY ConstantsAssumption DEF IInv, TypeOK
<1>1. PICK h \in Nat \ {0} : Versions = 1..h
    BY DEF VersionsAreContiguous
<1>2. CASE Edit
    <2>1. PICK read \in Versions :
            version' = read + 1 /\ names' = [names EXCEPT ![edition'] = read + 1]
        BY <1>2 DEF Edit, Versions
    <2>2. read \in 1..h /\ edition' = edition + 1 /\ edition' \in 1..MaxEditions
        BY <1>0, <1>1, <1>2, <2>1, ConstantsAssumption DEF Edit
    <2>3. names'[edition'] = read + 1 /\ \A e \in 1..edition : names'[e] = names[e]
        BY <1>0, <2>1, <2>2
    <2>4. 1..edition' = 1..edition \cup {edition'}
        BY <1>0, <2>2
    <2>5. Versions' = Versions \cup {read + 1}
        BY <2>3, <2>4 DEF Versions
    <2>6. Versions' = IF read = h THEN 1..(h + 1) ELSE 1..h
        BY <1>1, <2>2, <2>5
    <2>7. h + 1 \in Nat \ {0}
        OBVIOUS
    <2>8. QED BY <2>6, <2>7 DEF VersionsAreContiguous
<1>3. CASE UNCHANGED <<version, edition, names>>
    BY <1>1, <1>3 DEF Versions, VersionsAreContiguous
<1>4. UNCHANGED <<version, edition, names>> \/ Edit
    BY DEF Next, Step, Publish, Request, Relay, RelayFails, LeaseLapses, ClaimFinal, ClaimLeased,
        ClaimStale, ClaimFull, ClaimRun, FencePasses, Record, Superseded, Raises, Redelivered,
        Disable, source, vars
<1>5. QED BY <1>2, <1>3, <1>4

\* The source has had every version up to the highest it had.
THEOREM VersionsHaveNoGaps == Spec => []VersionsAreContiguous
<1>1. Init => VersionsAreContiguous
    <2> SUFFICES ASSUME Init PROVE VersionsAreContiguous
        OBVIOUS
    <2>1. 1..edition = {1, 2} /\ names[1] = 1 /\ names[2] = 2
        BY ConstantsAssumption DEF Init
    <2>2. Versions = 1..2
        BY <2>1 DEF Versions
    <2>3. QED BY <2>2 DEF VersionsAreContiguous
<1>2. IInv /\ VersionsAreContiguous /\ [Next]_vars => VersionsAreContiguous'
    BY ContiguousStep
<1>3. QED BY Invariance, <1>1, <1>2, PTL DEF Spec

\* The source of ConnectionTests as SourceLife sees it.
Life == INSTANCE SourceLife
    WITH status <- IF active THEN "active" ELSE "disabled", highest <- Highest

\* Whatever SourceLife does to the version of an active source that stays active,
\* ConnectionTests has an Edit for, up to MaxEditions: DataSources, which implements
\* SourceLife, does nothing to such a source that the theorems about tests leave out.
THEOREM SourceLifeIsAllowed ==
    ASSUME IInv, VersionsAreContiguous, active, Life!Next,
           edition < MaxEditions, edition' = edition + 1,
           names' = [names EXCEPT ![edition'] = version'],
           UNCHANGED <<active, jobs, outbox, broker, faults>>
    PROVE  Edit
<1>1. Highest \in Nat \ {0} /\ Versions = 1..Highest
    BY DEF VersionsAreContiguous, Highest
<1>2. Life!Write
    BY DEF Life!Next, Life!Create, Life!Edit, Life!Disable
<1>3. PICK read \in 1..Highest : version' = read + 1
    BY <1>2 DEF Life!Write
<1>4. read \in Versions
    BY <1>1, <1>3
<1>5. QED BY <1>3, <1>4 DEF Edit, Versions

=============================================================================

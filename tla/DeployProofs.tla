----------------------------- MODULE DeployProofs -----------------------------
(***************************************************************************)
(* Theorems about deployments, for any number of them at once, any set of    *)
(* workflows and sub-workflows, and any canvas.                              *)
(***************************************************************************)
EXTENDS Deploy, CanvasProofs

\* A ledger gives a workflow an id of its own.
Ledger == {f \in [Names -> Ids \cup {NoId}] :
             \A n \in Names : f[n] # NoId => f[n] \in Ids /\ f[n][1] = n}

\* Where a run stands, and what it carries.
PCs == {"idle", "before", "put", "post", "record", "activate", "verify", "tag"}
JobRecord == [pc : PCs, name : Names \cup {Nobody}, wid : Ids \cup {NoId}, calls : Ids \cup {NoId},
            ledger : [Names -> Ids \cup {NoId}], activate : BOOLEAN,
            failed : BOOLEAN, touched : BOOLEAN]

\* A run works on an id of its workflow and calls what its ledger says.
Job == {j \in JobRecord :
          j.pc # "idle" =>
            /\ j.name \in Names /\ j.wid \in Ids /\ j.wid[1] = j.name
            /\ j.ledger \in Ledger
            /\ LET sub == Callee[j.name]
               IN sub # Nobody /\ j.ledger[sub] # NoId => j.calls = j.ledger[sub]}

\* A bootstrap and the workflows it has left to do.
Boot == [pc : {"idle", "import", "publish"}, left : SUBSET Names]

\* What every variable keeps.
Typed ==
  /\ server \in [Ids -> Workflow]
  /\ copies \in [Names -> 0 .. MaxCopies]
  /\ ledger \in Ledger
  /\ job \in [Deployers -> Job]
  /\ boot \in Boot

\* What is kept is at least the type invariant.
LEMMA TypedIsTypeOK == Typed => TypeOK
<1> SUFFICES ASSUME Typed PROVE TypeOK
  OBVIOUS
<1>1. ledger \in [Names -> Ids \cup {NoId}] /\ job \in [Deployers -> JobRecord]
  BY DEF Typed, Ledger, Job
<1> QED
  BY <1>1 DEF Typed, TypeOK, JobRecord, PCs, Boot

\* A pinned id is an id of its workflow, and no id is the missing one.
LEMMA IdFacts ==
  /\ NoId \notin Ids
  /\ \A n \in Names : Pinned(n) \in Ids /\ Pinned(n)[1] = n /\ Pinned(n)[2] = 0
BY DeployAssumption DEF Ids, NoId, Pinned

-----------------------------------------------------------------------------
(* Types *)

\* What n8n makes of a workflow is a workflow again.
LEMMA ServerTypes ==
  /\ NoVersion \in Version /\ Absent \in Workflow
  /\ \A w \in Workflow : Published(w) \in Workflow /\ Reactivated(w) \in Workflow
  /\ \A w \in Workflow, v \in Version : Saved(w, v) \in Workflow
BY DEF NoVersion, Version, Absent, Workflow, Published, Reactivated, Saved

\* A run that goes on, fails or is disturbed is a run again.
LEMMA JobSteps ==
  ASSUME Typed, NEW d \in Deployers
  PROVE  /\ \A j \in Job : With(d, j) \in [Deployers -> Job] /\ [j EXCEPT !.touched = TRUE] \in Job
         /\ Idle \in Job
         /\ job[d].pc # "idle" =>
              \A pc \in PCs : At(d, pc) \in Job /\ [At(d, pc) EXCEPT !.failed = TRUE] \in Job
<1>1. \A j \in Job : With(d, j) \in [Deployers -> Job]
  BY DEF With, Typed
<1>2. \A j \in Job : [j EXCEPT !.touched = TRUE] \in Job
  BY DEF Job, JobRecord
<1>3. Idle \in Job
  BY DEF Idle, Job, JobRecord, PCs
<1>4. ASSUME job[d].pc # "idle", NEW pc \in PCs
      PROVE  At(d, pc) \in Job /\ [At(d, pc) EXCEPT !.failed = TRUE] \in Job
  BY <1>4 DEF At, Typed, Job, JobRecord
<1> QED
  BY <1>1, <1>2, <1>3, <1>4

\* A write leaves workflows and runs what they are.
LEMMA WriteTypes ==
  ASSUME Typed, NEW jobs \in [Deployers -> Job], NEW i \in Ids, NEW w \in Workflow,
         Writes(jobs, i, w)
  PROVE  server' \in [Ids -> Workflow] /\ job' \in [Deployers -> Job]
<1>1. server' \in [Ids -> Workflow]
  BY DEF Writes, Typed
<1>2. \A j \in Job : [j EXCEPT !.touched = TRUE] \in Job
  BY DEF Job, JobRecord
<1> QED
  BY <1>1, <1>2 DEF Writes

\* What a run sends.
LEMMA MineType ==
  ASSUME Typed, NEW d \in Deployers
  PROVE  Mine(d) \in Version
BY DEF Typed, Mine, Version, Job, JobRecord

\* Nothing on n8n, empty ledgers, no run.
LEMMA InitTyped == Init => Typed
<1> SUFFICES ASSUME Init PROVE Typed
  OBVIOUS
<1>1. server \in [Ids -> Workflow]
  BY ServerTypes DEF Init
<1>2. copies \in [Names -> 0 .. MaxCopies]
  BY DeployAssumption DEF Init
<1>3. Idle \in Job
  BY DEF Idle, Job, JobRecord, PCs
<1> QED
  BY <1>1, <1>2, <1>3 DEF Typed, Init, NoBoot, Boot, Ledger

\* A run takes its id and its callee from the ledger, or the pinned ones.
LEMMA StartTyped ==
  ASSUME Typed, NEW d \in Deployers, Start(d)
  PROVE  Typed'
<1> DEFINE Old(v) == IF v.by = d THEN [v EXCEPT !.by = "earlier"] ELSE v
<1>1. PICK n \in Names, activate \in BOOLEAN :
        /\ job' = With(d, [pc |-> IF activate THEN "before" ELSE "put", name |-> n,
                           wid |-> IF ledger[n] # NoId THEN ledger[n] ELSE Pinned(n),
                           calls |-> Wired(n), ledger |-> ledger, activate |-> activate,
                           failed |-> FALSE, touched |-> FALSE])
        /\ server' = [i \in Ids |-> [server[i] EXCEPT !.draft = Old(@), !.live = Old(@)]]
  BY Zenon DEF Start
<1>2. \A v \in Version : Old(v) \in Version
  BY DEF Version
<1>3. server' \in [Ids -> Workflow]
  <2>1. \A w \in Workflow : [w EXCEPT !.draft = Old(@), !.live = Old(@)] \in Workflow
    BY <1>2 DEF Workflow
  <2> QED
    BY <1>1, <2>1 DEF Typed
<1>4. Wired(n) \in Ids \cup {NoId}
      /\ (Callee[n] # Nobody /\ ledger[Callee[n]] # NoId => Wired(n) = ledger[Callee[n]])
  <2>1. Callee[n] \in Names \cup {Nobody}
    BY DeployAssumption
  <2> QED
    BY <2>1, IdFacts DEF Wired, Typed, Ledger
<1>5. (IF ledger[n] # NoId THEN ledger[n] ELSE Pinned(n)) \in Ids
      /\ (IF ledger[n] # NoId THEN ledger[n] ELSE Pinned(n))[1] = n
  BY IdFacts DEF Typed, Ledger
<1>6. ledger \in [Names -> Ids \cup {NoId}]
  BY DEF Typed, Ledger
<1> DEFINE j == [pc |-> IF activate THEN "before" ELSE "put", name |-> n,
                 wid |-> IF ledger[n] # NoId THEN ledger[n] ELSE Pinned(n),
                 calls |-> Wired(n), ledger |-> ledger, activate |-> activate,
                 failed |-> FALSE, touched |-> FALSE]
<1>7. j \in Job
  <2>1. j \in JobRecord
    BY <1>4, <1>5, <1>6 DEF JobRecord, PCs
  <2> QED
    BY <2>1, <1>4, <1>5 DEF Job, Typed
<1>8. job' \in [Deployers -> Job]
  BY <1>1, <1>7, JobSteps
<1> QED
  BY <1>3, <1>8 DEF Typed, Start

\* Both activations, answered or not.
LEMMA ActivatesTyped ==
  ASSUME Typed, NEW d \in Deployers, NEW pc \in PCs \ {"idle"}, NEW next \in PCs,
         Activates(d, pc, next)
  PROVE  Typed'
<1>1. /\ job[d].wid \in Ids /\ At(d, next) \in Job /\ [At(d, next) EXCEPT !.failed = TRUE] \in Job
      /\ server[job[d].wid] \in Workflow
  BY JobSteps DEF Activates, Typed, Job
<1>2. server' \in [Ids -> Workflow] /\ job' \in [Deployers -> Job]
  <2>1. Reactivated(server[job[d].wid]) \in Workflow
    BY <1>1, ServerTypes
  <2>2. With(d, At(d, next)) \in [Deployers -> Job]
        /\ With(d, [At(d, next) EXCEPT !.failed = TRUE]) \in [Deployers -> Job]
    BY <1>1, JobSteps
  <2>3. CASE Writes(With(d, At(d, next)), job[d].wid, Reactivated(server[job[d].wid]))
    BY <1>1, <2>1, <2>2, <2>3, WriteTypes
  <2>4. CASE UNCHANGED server
    BY <2>2, <2>4, <2>3 DEF Activates, Typed
  <2> QED
    BY <2>3, <2>4 DEF Activates
<1> QED
  BY <1>2 DEF Typed, Activates

\* Every step of a run.
LEMMA DeploymentTyped ==
  ASSUME Typed, NEW d \in Deployers, Deployment(d)
  PROVE  Typed'
<1> USE DEF PCs
<1>1. CASE Start(d)
  BY <1>1, StartTyped
<1>2. CASE PreActivate(d) \/ Activate(d)
  BY <1>2, ActivatesTyped DEF PreActivate, Activate
<1>3. CASE Put(d)
  <2>1. job[d].wid \in Ids /\ server[job[d].wid] \in Workflow
    BY <1>3 DEF Put, Typed, Job
  <2>2. With(d, At(d, "record")) \in [Deployers -> Job] /\ With(d, At(d, "post")) \in [Deployers -> Job]
    BY <1>3, JobSteps DEF Put
  <2>3. Saved(server[job[d].wid], Mine(d)) \in Workflow
    BY <2>1, MineType, ServerTypes
  <2>4. server' \in [Ids -> Workflow] /\ job' \in [Deployers -> Job]
    <3>1. CASE Writes(With(d, At(d, "record")), job[d].wid, Saved(server[job[d].wid], Mine(d)))
      BY <3>1, <2>1, <2>2, <2>3, WriteTypes
    <3>2. CASE job' = With(d, At(d, "post")) /\ UNCHANGED server
      BY <3>2, <2>2 DEF Typed
    <3> QED
      BY <1>3, <3>1, <3>2 DEF Put
  <2> QED
    BY <1>3, <2>4 DEF Put, Typed
<1>4. CASE Post(d)
  <2> DEFINE n == job[d].name
             id == <<n, copies[n] + 1>>
             j == [At(d, "record") EXCEPT !.wid = id]
  <2>1. n \in Names /\ copies[n] \in 0 .. MaxCopies /\ copies[n] < MaxCopies
    BY <1>4 DEF Post, Typed, Job
  <2>2. copies[n] + 1 \in 0 .. MaxCopies
    BY <2>1, DeployAssumption
  <2>3. id \in Ids /\ id[1] = n
    BY <2>1, <2>2 DEF Ids
  <2>4. j \in Job
    BY <1>4, <2>3 DEF Post, Typed, Job, JobRecord, At
  <2>5. With(d, j) \in [Deployers -> Job]
    BY <2>4, JobSteps
  <2>6. Saved(Absent, Mine(d)) \in Workflow
    BY MineType, ServerTypes
  <2>7. Writes(With(d, j), id, Saved(Absent, Mine(d)))
    BY <1>4 DEF Post
  <2>8. server' \in [Ids -> Workflow] /\ job' \in [Deployers -> Job]
    BY <2>3, <2>5, <2>6, <2>7, WriteTypes
  <2>9. copies' \in [Names -> 0 .. MaxCopies]
    BY <1>4, <2>2 DEF Post, Typed
  <2> QED
    BY <1>4, <2>8, <2>9 DEF Post, Typed
<1>5. CASE Record(d)
  <2>1. job[d].name \in Names /\ job[d].wid \in Ids /\ job[d].wid[1] = job[d].name
        /\ job[d].ledger \in Ledger
    BY <1>5 DEF Record, Typed, Job
  <2>2. ledger' \in Ledger
    BY <1>5, <2>1 DEF Record, Ledger
  <2>3. job' \in [Deployers -> Job]
    BY <1>5, JobSteps DEF Record
  <2> QED
    BY <1>5, <2>2, <2>3 DEF Record, Typed
<1>6. CASE Verify(d)
  <2>1. job' \in [Deployers -> Job]
    BY <1>6, JobSteps DEF Verify
  <2> QED
    BY <1>6, <2>1 DEF Verify, Typed
<1>7. CASE End(d)
  BY <1>7, JobSteps DEF End, Typed
<1> QED
  BY <1>1, <1>2, <1>3, <1>4, <1>5, <1>6, <1>7 DEF Deployment

\* The others write one workflow each, and no job.
LEMMA OthersTyped ==
  ASSUME Typed,
         \/ Generate \/ BootStart \/ BootEnd
         \/ \E n \in Names : Import(n) \/ Publish(n)
         \/ \E i \in Ids : Edit(i)
  PROVE  Typed'
<1>0. job \in [Deployers -> Job] /\ \A i \in Ids : server[i] \in Workflow
  BY DEF Typed
<1>1. CASE Generate \/ BootStart \/ BootEnd
  BY <1>1 DEF Generate, BootStart, BootEnd, NoBoot, Boot, Typed
<1>2. ASSUME NEW n \in Names, Import(n) PROVE Typed'
  <2> DEFINE v == [by |-> "import", whole |-> TRUE,
                   calls |-> IF Callee[n] = Nobody THEN NoId ELSE Pinned(Callee[n])]
  <2>1. v \in Version
    BY DeployAssumption, IdFacts DEF Version
  <2>2. Saved(Absent, v) \in Workflow
    BY <2>1, ServerTypes
  <2>3. Writes(job, Pinned(n), Saved(Absent, v))
    BY <1>2 DEF Import
  <2>4. server' \in [Ids -> Workflow] /\ job' \in [Deployers -> Job]
    BY <1>0, <2>2, <2>3, IdFacts, WriteTypes
  <2>5. boot' \in Boot
    BY <1>2, DeployAssumption DEF Import, Typed, Boot
  <2> QED
    BY <1>2, <2>4, <2>5 DEF Import, Typed
<1>3. ASSUME NEW n \in Names, Publish(n) PROVE Typed'
  <2>1. Published(server[Pinned(n)]) \in Workflow
    BY <1>0, IdFacts, ServerTypes
  <2>2. server' \in [Ids -> Workflow] /\ job' \in [Deployers -> Job]
    BY <1>0, <1>3, <2>1, IdFacts, WriteTypes DEF Publish
  <2>3. boot' \in Boot
    BY <1>3 DEF Publish, Typed, Boot
  <2> QED
    BY <1>3, <2>2, <2>3 DEF Publish, Typed
<1>4. ASSUME NEW i \in Ids, Edit(i) PROVE Typed'
  <2>1. PICK w \in Workflow : Writes(job, i, w)
    <3>1. \A whole \in BOOLEAN :
            [server[i] EXCEPT !.draft = [@ EXCEPT !.by = "editor", !.whole = whole],
                              !.current = FALSE] \in Workflow
      BY <1>0 DEF Workflow, Version
    <3>2. Published(server[i]) \in Workflow /\ [server[i] EXCEPT !.active = FALSE] \in Workflow
      BY <1>0, ServerTypes DEF Workflow
    <3> QED
      BY <1>4, <3>1, <3>2, ServerTypes DEF Edit
  <2>2. server' \in [Ids -> Workflow] /\ job' \in [Deployers -> Job]
    BY <1>0, <2>1, WriteTypes
  <2> QED
    BY <1>4, <2>2 DEF Edit, Typed
<1> QED
  BY <1>1, <1>2, <1>3, <1>4

\* The typing, kept by every step.
LEMMA TypedInvariant == Spec => []Typed
<1>1. Typed /\ [Next]_vars => Typed'
  <2> SUFFICES ASSUME Typed, [Next]_vars PROVE Typed'
    OBVIOUS
  <2>1. CASE UNCHANGED vars
    BY <2>1 DEF vars, Typed
  <2>2. CASE Next
    BY <2>2, DeploymentTyped, OthersTyped DEF Next
  <2> QED
    BY <2>1, <2>2
<1> QED
  BY <1>1, InitTyped, PTL DEF Spec

\* Every workflow, version, ledger and run stays what the scripts and n8n take
\* it for, and a run works on an id of the workflow it was given.
THEOREM TypeCorrect == Spec => []TypeOK
BY TypedInvariant, TypedIsTypeOK, PTL

-----------------------------------------------------------------------------
(* A deployment nobody disturbed *)

\* After its PUT or POST the draft is what it sent, and a draft that is current
\* is what runs.
Own(d) ==
  job[d].pc \in {"record", "activate", "verify"} /\ ~job[d].touched =>
    LET w == server[job[d].wid]
    IN w.exists /\ w.draft = Mine(d) /\ (w.current => w.active /\ w.live = w.draft)

\* With --activate and no call that failed, the PUT meets an active workflow, and
\* what it leaves unpublished was never published before.
Landing(d) ==
  job[d].activate /\ ~job[d].failed /\ ~job[d].touched =>
    LET w == server[job[d].wid]
    IN /\ job[d].pc = "put" /\ w.exists => w.active
       /\ job[d].pc \in {"record", "activate"} => w.current \/ ~w.published
       /\ job[d].pc = "verify" => w.current

Undisturbed == \A d \in Deployers : Own(d) /\ Landing(d)

\* A run that does not act, and whose workflow stays as it is unless it is told.
LeavesAlone(e) ==
  /\ job'[e] \in {job[e], [job[e] EXCEPT !.touched = TRUE]}
  /\ job[e].pc # "idle" /\ ~job'[e].touched => server'[job[e].wid] = server[job[e].wid]

\* A run that is left alone keeps what it has.
LEMMA AloneKeeps ==
  ASSUME Typed, NEW e \in Deployers, LeavesAlone(e), Own(e), Landing(e)
  PROVE  Own(e)' /\ Landing(e)'
<1>1. job[e] \in JobRecord
  BY DEF Typed, Job
<1>2. CASE job'[e] = job[e]
  BY <1>1, <1>2 DEF LeavesAlone, Own, Landing, Mine, JobRecord
<1>3. CASE job'[e] = [job[e] EXCEPT !.touched = TRUE]
  BY <1>1, <1>3 DEF Own, Landing, JobRecord
<1> QED
  BY <1>2, <1>3 DEF LeavesAlone

\* One write: the writer's run goes on, the others on that id are disturbed.
LEMMA WriteEffect ==
  ASSUME Typed, NEW jobs \in [Deployers -> Job], NEW i \in Ids, NEW w, Writes(jobs, i, w)
  PROVE  /\ server'[i] = w
         /\ \A e \in Deployers : jobs[e] # job[e] => job'[e] = jobs[e]
         /\ \A e \in Deployers : jobs[e] = job[e] => LeavesAlone(e)
<1>1. server'[i] = w /\ \A k \in Ids : k # i => server'[k] = server[k]
  BY DEF Writes, Typed
<1>2. \A e \in Deployers : jobs[e] # job[e] => job'[e] = jobs[e]
  BY DEF Writes
<1>3. ASSUME NEW e \in Deployers, jobs[e] = job[e] PROVE LeavesAlone(e)
  <2>1. job[e] \in JobRecord /\ (job[e].pc # "idle" => job[e].wid \in Ids)
    BY DEF Typed, Job
  <2>2. job'[e] = IF job[e].wid = i THEN [job[e] EXCEPT !.touched = TRUE] ELSE job[e]
    BY <1>3 DEF Writes
  <2> QED
    BY <1>1, <2>1, <2>2 DEF LeavesAlone, JobRecord
<1> QED
  BY <1>1, <1>2, <1>3

\* What a run does to the others, when it writes nothing.
LEMMA QuietStep ==
  ASSUME Typed, NEW d \in Deployers, NEW j \in Job, job' = With(d, j), UNCHANGED server
  PROVE  job'[d] = j /\ \A e \in Deployers \ {d} : LeavesAlone(e)
BY DEF With, Typed, LeavesAlone

\* A new run touches the others' versions no more than it has written them.
LEMMA StartUndisturbed ==
  ASSUME Typed, Undisturbed, NEW d \in Deployers, Start(d)
  PROVE  Undisturbed'
<1> DEFINE Old(v) == IF v.by = d THEN [v EXCEPT !.by = "earlier"] ELSE v
<1>1. PICK n \in Names, activate \in BOOLEAN :
        /\ job' = With(d, [pc |-> IF activate THEN "before" ELSE "put", name |-> n,
                           wid |-> IF ledger[n] # NoId THEN ledger[n] ELSE Pinned(n),
                           calls |-> Wired(n), ledger |-> ledger, activate |-> activate,
                           failed |-> FALSE, touched |-> FALSE])
        /\ server' = [i \in Ids |-> [server[i] EXCEPT !.draft = Old(@), !.live = Old(@)]]
  BY Zenon DEF Start
<1>2. ASSUME NEW e \in Deployers, e # d PROVE Own(e)' /\ Landing(e)'
  <2>1. job'[e] = job[e] /\ job[e] \in JobRecord
    BY <1>1, <1>2 DEF With, Typed, Job
  <2>2. ASSUME job[e].pc # "idle"
        PROVE  LET w == server[job[e].wid]  x == server'[job[e].wid]
               IN /\ w \in Workflow
                  /\ x.exists = w.exists /\ x.active = w.active /\ x.published = w.published
                  /\ x.current = w.current /\ x.draft = Old(w.draft) /\ x.live = Old(w.live)
    <3>1. job[e].wid \in Ids
      BY <2>2 DEF Typed, Job
    <3> QED
      BY <1>1, <3>1 DEF Typed, Workflow
  <2>3. Old(Mine(e)) = Mine(e)
    BY <1>2 DEF Mine
  <2>4. Own(e)'
    BY <2>1, <2>2, <2>3 DEF Own, Mine, Undisturbed
  <2>5. Landing(e)'
    BY <2>1, <2>2 DEF Landing, Undisturbed
  <2> QED
    BY <2>4, <2>5
<1>3. Own(d)' /\ Landing(d)'
  <2>1. job'[d].pc \in {"before", "put"} /\ (job'[d].activate => job'[d].pc = "before")
    BY <1>1 DEF With, Typed
  <2> QED
    BY <2>1 DEF Own, Landing
<1> QED
  BY <1>2, <1>3 DEF Undisturbed

\* The activation before the PUT: what exists is active then.
LEMMA PreActivateUndisturbed ==
  ASSUME Typed, Undisturbed, NEW d \in Deployers, PreActivate(d)
  PROVE  Undisturbed'
<1> DEFINE i == job[d].wid
<1> USE DEF PCs
<1>1. job[d].pc = "before" /\ i \in Ids /\ server[i] \in Workflow /\ job[d] \in JobRecord
  BY DEF PreActivate, Activates, Typed, Job
<1>2. At(d, "put") \in Job /\ [At(d, "put") EXCEPT !.failed = TRUE] \in Job
  BY <1>1, JobSteps
<1>3. CASE Writes(With(d, At(d, "put")), i, Reactivated(server[i]))
  <2> DEFINE jobs == With(d, At(d, "put"))
  <2>1. jobs \in [Deployers -> Job] /\ jobs[d] = At(d, "put") /\ jobs[d] # job[d]
        /\ \A e \in Deployers \ {d} : jobs[e] = job[e]
    BY <1>1, <1>2 DEF With, At, Typed, JobRecord
  <2>2. /\ server'[i] = Reactivated(server[i]) /\ job'[d] = At(d, "put")
        /\ \A e \in Deployers \ {d} : LeavesAlone(e)
    BY <1>1, <1>3, <2>1, WriteEffect
  <2>3. Reactivated(server[i]).active
    BY <1>1 DEF Reactivated, Published, Workflow
  <2>4. job'[d].pc = "put" /\ job'[d].wid = i
    BY <1>1, <2>2 DEF At, JobRecord
  <2>5. Own(d)' /\ Landing(d)'
    BY <2>2, <2>3, <2>4 DEF Own, Landing
  <2> QED
    BY <2>2, <2>5, AloneKeeps DEF Undisturbed
<1>4. CASE /\ UNCHANGED server
           /\ \/ ~server[i].exists /\ job' = With(d, At(d, "put"))
              \/ job' = With(d, [At(d, "put") EXCEPT !.failed = TRUE])
  <2>1. PICK j \in Job : job' = With(d, j) /\ j.pc = "put" /\ j.wid = i
                         /\ (j.failed \/ ~server[i].exists)
    <3>1. At(d, "put").pc = "put" /\ At(d, "put").wid = i
          /\ [At(d, "put") EXCEPT !.failed = TRUE].pc = "put"
          /\ [At(d, "put") EXCEPT !.failed = TRUE].wid = i
          /\ [At(d, "put") EXCEPT !.failed = TRUE].failed
      BY <1>1 DEF At, JobRecord
    <3> QED
      BY <1>2, <1>4, <3>1
  <2>2. job'[d] = j /\ \A e \in Deployers \ {d} : LeavesAlone(e)
    BY <1>4, <2>1, QuietStep
  <2>3. Own(d)' /\ Landing(d)'
    BY <1>4, <2>1, <2>2 DEF Own, Landing
  <2> QED
    BY <2>2, <2>3, AloneKeeps DEF Undisturbed
<1> QED
  BY <1>3, <1>4 DEF PreActivate, Activates

\* Where the PUT meets an active workflow it is published at once; a POST makes
\* a workflow that was never published.
LEMMA SendUndisturbed ==
  ASSUME Typed, Undisturbed, NEW d \in Deployers, Put(d) \/ Post(d)
  PROVE  Undisturbed'
<1> USE DEF PCs
<1>1. job[d].pc \in {"put", "post"} /\ job[d] \in JobRecord /\ job[d] \in Job
      /\ job[d].wid \in Ids /\ job[d].name \in Names
  BY DEF Put, Post, Typed, Job
<1>2. CASE Put(d) /\ UNCHANGED server /\ job' = With(d, At(d, "post"))
  <2>1. At(d, "post") \in Job /\ At(d, "post").pc = "post"
    BY <1>1, JobSteps DEF At, JobRecord
  <2>2. job'[d] = At(d, "post") /\ \A e \in Deployers \ {d} : LeavesAlone(e)
    BY <1>2, <2>1, QuietStep
  <2>3. Own(d)' /\ Landing(d)'
    BY <2>1, <2>2 DEF Own, Landing
  <2> QED
    BY <2>2, <2>3, AloneKeeps DEF Undisturbed
<1>3. ASSUME NEW i \in Ids, NEW w \in Workflow, NEW j \in Job,
             j = [At(d, "record") EXCEPT !.wid = i],
             Writes(With(d, j), i, Saved(w, Mine(d))),
             ~w.active => ~w.published \/ ~job[d].activate \/ job[d].failed \/ job[d].touched
      PROVE  Undisturbed'
  <2> DEFINE jobs == With(d, j)
  <2>1. /\ jobs \in [Deployers -> Job] /\ jobs[d] = j /\ jobs[d] # job[d]
        /\ \A e \in Deployers \ {d} : jobs[e] = job[e]
        /\ j.pc = "record" /\ j.wid = i /\ j.calls = job[d].calls
        /\ j.activate = job[d].activate /\ j.failed = job[d].failed /\ j.touched = job[d].touched
    BY <1>1, <1>3 DEF With, At, Typed, JobRecord
  <2>2. /\ server'[i] = Saved(w, Mine(d)) /\ job'[d] = j
        /\ \A e \in Deployers \ {d} : LeavesAlone(e)
    BY <1>3, <2>1, WriteEffect
  <2>3. LET x == Saved(w, Mine(d))
        IN /\ x.exists /\ x.draft = Mine(d) /\ x.active = w.active /\ x.current = w.active
           /\ x.published = w.published /\ (w.active => x.live = Mine(d))
    BY DEF Saved, Workflow
  <2>4. Mine(d)' = Mine(d)
    BY <2>1, <2>2 DEF Mine
  <2>5. Own(d)'
    BY <2>1, <2>2, <2>3, <2>4 DEF Own
  <2>6. Landing(d)'
    BY <1>3, <2>1, <2>2, <2>3 DEF Landing
  <2> QED
    BY <2>2, <2>5, <2>6, AloneKeeps DEF Undisturbed
<1>4. CASE Put(d) /\ server[job[d].wid].exists
           /\ Writes(With(d, At(d, "record")), job[d].wid, Saved(server[job[d].wid], Mine(d)))
  <2> DEFINE j == [At(d, "record") EXCEPT !.wid = job[d].wid]
  <2>1. j = At(d, "record")
    BY <1>1 DEF At, JobRecord
  <2>2. At(d, "record") \in Job
    BY <1>1, JobSteps
  <2>3. server[job[d].wid] \in Workflow
    BY <1>1 DEF Typed
  <2>4. ~server[job[d].wid].active => ~job[d].activate \/ job[d].failed \/ job[d].touched
    BY <1>4 DEF Undisturbed, Landing, Put
  <2> QED
    BY <1>1, <1>3, <1>4, <2>1, <2>2, <2>3, <2>4
<1>5. CASE Post(d)
  <2> DEFINE i == <<job[d].name, copies[job[d].name] + 1>>
             j == [At(d, "record") EXCEPT !.wid = i]
  <2>1. Writes(With(d, j), i, Saved(Absent, Mine(d)))
    BY <1>5 DEF Post
  <2>2. i \in Ids /\ i[1] = job[d].name
    BY <1>1, <1>5, DeployAssumption DEF Post, Typed, Ids
  <2>3. j \in Job
    BY <1>1, <2>2 DEF Job, JobRecord, At
  <2>4. Absent \in Workflow /\ ~Absent.published
    BY ServerTypes DEF Absent
  <2> QED
    BY <1>3, <2>1, <2>2, <2>3, <2>4
<1> QED
  BY <1>2, <1>4, <1>5 DEF Put

\* What was never published is published as it is, and what was is current already.
LEMMA ActivateUndisturbed ==
  ASSUME Typed, Undisturbed, NEW d \in Deployers, Activate(d)
  PROVE  Undisturbed'
<1> DEFINE i == job[d].wid
           w == server[i]
<1> USE DEF PCs
<1>1. job[d].pc = "activate" /\ i \in Ids /\ w \in Workflow /\ job[d] \in JobRecord
  BY DEF Activate, Activates, Typed, Job
<1>2. At(d, "verify") \in Job /\ [At(d, "verify") EXCEPT !.failed = TRUE] \in Job
  BY <1>1, JobSteps
<1>3. CASE w.exists /\ Writes(With(d, At(d, "verify")), i, Reactivated(w))
  <2> DEFINE jobs == With(d, At(d, "verify"))
  <2>1. /\ jobs \in [Deployers -> Job] /\ jobs[d] = At(d, "verify") /\ jobs[d] # job[d]
        /\ \A e \in Deployers \ {d} : jobs[e] = job[e]
    BY <1>1, <1>2 DEF With, At, Typed, JobRecord
  <2>2. /\ server'[i] = Reactivated(w) /\ job'[d] = At(d, "verify")
        /\ \A e \in Deployers \ {d} : LeavesAlone(e)
    BY <1>1, <1>3, <2>1, WriteEffect
  <2>3. /\ job'[d].wid = i /\ job'[d].pc = "verify" /\ job'[d].calls = job[d].calls
        /\ job'[d].activate = job[d].activate /\ job'[d].failed = job[d].failed
        /\ job'[d].touched = job[d].touched
    BY <1>1, <2>2 DEF At, JobRecord
  <2>4. LET x == Reactivated(w)
        IN /\ x.exists = w.exists \/ x.exists
           /\ x.active /\ x.draft = w.draft
           /\ ~w.published => x.current /\ x.live = x.draft
           /\ w.published => x.current = w.current /\ x.live = w.live /\ x.exists = w.exists
           /\ x.exists = w.exists
    BY <1>1 DEF Reactivated, Published, Workflow
  <2>5. Mine(d)' = Mine(d)
    BY <2>3 DEF Mine
  <2>6. Own(d)
    BY DEF Undisturbed
  <2>7. Own(d)'
    BY <1>1, <2>2, <2>3, <2>4, <2>5, <2>6 DEF Own
  <2>8. Landing(d)'
    BY <1>1, <2>2, <2>3, <2>4 DEF Undisturbed, Landing
  <2> QED
    BY <2>2, <2>7, <2>8, AloneKeeps DEF Undisturbed
<1>4. CASE /\ UNCHANGED server
           /\ \/ ~w.exists /\ job' = With(d, At(d, "verify"))
              \/ job' = With(d, [At(d, "verify") EXCEPT !.failed = TRUE])
  <2>1. PICK j \in Job : /\ job' = With(d, j) /\ j.pc = "verify" /\ j.wid = i
                         /\ j.calls = job[d].calls /\ j.touched = job[d].touched
                         /\ j.failed \/ ~w.exists
    <3> DEFINE j == At(d, "verify")
               k == [At(d, "verify") EXCEPT !.failed = TRUE]
    <3>1. /\ j.pc = "verify" /\ j.wid = i /\ j.calls = job[d].calls /\ j.touched = job[d].touched
          /\ k.pc = "verify" /\ k.wid = i /\ k.calls = job[d].calls /\ k.touched = job[d].touched
          /\ k.failed
      BY <1>1 DEF At, JobRecord
    <3> QED
      BY <1>2, <1>4, <3>1
  <2>2. job'[d] = j /\ \A e \in Deployers \ {d} : LeavesAlone(e)
    BY <1>4, <2>1, QuietStep
  <2>3. Mine(d)' = Mine(d)
    BY <2>1, <2>2 DEF Mine
  <2>4. Own(d)'
    BY <1>1, <1>4, <2>1, <2>2, <2>3 DEF Own, Undisturbed
  <2>5. Landing(d)'
    BY <1>1, <1>4, <2>1, <2>2 DEF Own, Landing, Undisturbed
  <2> QED
    BY <2>2, <2>4, <2>5, AloneKeeps DEF Undisturbed
<1> QED
  BY <1>3, <1>4 DEF Activate, Activates

\* A run without --activate goes from its ledger to the read-back.
LEMMA QuietUndisturbed ==
  ASSUME Typed, Undisturbed, NEW d \in Deployers, Record(d) \/ Verify(d) \/ End(d)
  PROVE  Undisturbed'
<1> USE DEF PCs
<1>1. job[d].pc # "idle" /\ job[d] \in JobRecord /\ UNCHANGED server
  BY DEF Record, Verify, End, Typed, Job
<1>2. CASE Record(d)
  <2> DEFINE pc == IF job[d].activate THEN "activate" ELSE "verify"
  <2>1. At(d, pc) \in Job
    BY <1>1, JobSteps
  <2>2. job'[d] = At(d, pc) /\ \A e \in Deployers \ {d} : LeavesAlone(e)
    BY <1>1, <1>2, <2>1, QuietStep DEF Record
  <2>3. /\ job[d].pc = "record" /\ job'[d].pc = pc /\ job'[d].wid = job[d].wid
        /\ job'[d].calls = job[d].calls /\ job'[d].activate = job[d].activate
        /\ job'[d].failed = job[d].failed /\ job'[d].touched = job[d].touched
    BY <1>1, <1>2, <2>2 DEF Record, At, JobRecord
  <2>4. Mine(d)' = Mine(d)
    BY <2>3 DEF Mine
  <2>5. Own(d)'
    BY <1>1, <2>3, <2>4 DEF Own, Undisturbed
  <2>6. Landing(d)'
    BY <1>1, <2>3 DEF Landing, Undisturbed
  <2> QED
    BY <2>2, <2>5, <2>6, AloneKeeps DEF Undisturbed
<1>3. CASE Verify(d) \/ End(d)
  <2>1. PICK j \in Job : job' = With(d, j) /\ j.pc \in {"idle", "tag"}
    <3>1. At(d, "tag") \in Job /\ Idle \in Job /\ At(d, "tag").pc = "tag" /\ Idle.pc = "idle"
      BY <1>1, JobSteps DEF At, Idle, JobRecord
    <3> QED
      BY <1>3, <3>1 DEF Verify, End
  <2>2. job'[d] = j /\ \A e \in Deployers \ {d} : LeavesAlone(e)
    BY <1>1, <2>1, QuietStep
  <2>3. Own(d)' /\ Landing(d)'
    BY <2>1, <2>2 DEF Own, Landing
  <2> QED
    BY <2>2, <2>3, AloneKeeps DEF Undisturbed
<1> QED
  BY <1>2, <1>3

\* Bootstrap and editor disturb whoever is at work on what they write.
LEMMA OthersUndisturbed ==
  ASSUME Typed, Undisturbed,
         \/ Generate \/ BootStart \/ BootEnd
         \/ \E n \in Names : Import(n) \/ Publish(n)
         \/ \E i \in Ids : Edit(i)
  PROVE  Undisturbed'
<1>1. job \in [Deployers -> Job]
  BY DEF Typed
<1>2. CASE Generate \/ BootStart \/ BootEnd
  <2>1. UNCHANGED <<server, job>>
    BY <1>2 DEF Generate, BootStart, BootEnd
  <2>2. \A e \in Deployers : LeavesAlone(e)
    BY <2>1 DEF LeavesAlone
  <2> QED
    BY <2>2, AloneKeeps DEF Undisturbed
<1>3. ASSUME NEW i \in Ids, NEW w, Writes(job, i, w) PROVE Undisturbed'
  BY <1>1, <1>3, WriteEffect, AloneKeeps DEF Undisturbed
<1>4. CASE \E n \in Names : Import(n) \/ Publish(n)
  BY <1>3, <1>4, IdFacts DEF Import, Publish
<1>5. CASE \E i \in Ids : Edit(i)
  BY <1>3, <1>5 DEF Edit
<1> QED
  BY <1>2, <1>4, <1>5

\* Every step.
LEMMA UndisturbedStep == Typed /\ Undisturbed /\ [Next]_vars => Undisturbed'
<1> SUFFICES ASSUME Typed, Undisturbed, [Next]_vars PROVE Undisturbed'
  OBVIOUS
<1>1. CASE UNCHANGED vars
  <2>1. \A e \in Deployers : LeavesAlone(e)
    BY <1>1 DEF vars, LeavesAlone
  <2> QED
    BY <2>1, AloneKeeps DEF Undisturbed
<1>2. ASSUME NEW d \in Deployers, Deployment(d) PROVE Undisturbed'
  BY <1>2, StartUndisturbed, PreActivateUndisturbed, SendUndisturbed, ActivateUndisturbed,
     QuietUndisturbed DEF Deployment
<1> QED
  BY <1>1, <1>2, OthersUndisturbed DEF Next

\* An invariant of the system.
LEMMA UndisturbedInvariant == Spec => []Undisturbed
<1>1. Init => Undisturbed
  BY DEF Init, Undisturbed, Own, Landing, Idle
<1> QED
  BY <1>1, TypedInvariant, UndisturbedStep, PTL DEF Spec

\* A step of another's changes no run's pc.
LEMMA PcIsOwn ==
  ASSUME Typed, NEW d \in Deployers, NEW e \in Deployers \ {d}, Deployment(e)
  PROVE  job'[d].pc = job[d].pc
<1>1. \A j : With(e, j)[d] = job[d]
  BY DEF With, Typed
<1>2. job[d] \in JobRecord
  BY DEF Typed, Job
<1>3. \A j, i, w : Writes(With(e, j), i, w) => job'[d].pc = job[d].pc
  BY <1>1, <1>2 DEF Writes, JobRecord
<1>4. CASE Start(e)
  <2>1. \E j : job' = With(e, j)
    BY <1>4, Zenon DEF Start
  <2> QED
    BY <1>1, <2>1
<1>5. CASE PreActivate(e) \/ Activate(e)
  BY <1>1, <1>3, <1>5 DEF PreActivate, Activate, Activates
<1>6. CASE Put(e) \/ Post(e)
  BY <1>1, <1>3, <1>6 DEF Put, Post
<1>7. CASE Record(e) \/ Verify(e) \/ End(e)
  BY <1>1, <1>7 DEF Record, Verify, End
<1> QED
  BY <1>4, <1>5, <1>6, <1>7 DEF Deployment

\* Only the read-back lets a run go on to its tags.
LEMMA VerifyPasses ==
  ASSUME Typed, [Next]_vars, NEW d \in Deployers, job[d].pc = "verify", job'[d].pc = "tag"
  PROVE  Verifies(server[job[d].wid])
<1>1. job[d] \in JobRecord
  BY DEF Typed, Job
<1>2. \A i, w : Writes(job, i, w) => job'[d].pc = job[d].pc
  BY <1>1 DEF Writes, JobRecord
<1>3. Deployment(d)
  <2>1. ~UNCHANGED job
    OBVIOUS
  <2>2. \A e \in Deployers \ {d} : ~Deployment(e)
    BY PcIsOwn
  <2>3. ~Generate /\ ~BootStart /\ ~BootEnd
    BY <2>1 DEF Generate, BootStart, BootEnd
  <2>4. ~(\E n \in Names : Import(n) \/ Publish(n)) /\ ~(\E i \in Ids : Edit(i))
    BY <1>2 DEF Import, Publish, Edit
  <2> QED
    BY <2>1, <2>2, <2>3, <2>4 DEF Next, vars
<1>4. Verify(d)
  <2>1. ~End(d)
    BY DEF End, With, Idle, Typed
  <2> QED
    BY <1>3, <2>1 DEF Deployment, Start, PreActivate, Put, Post, Record, Activate, Activates
<1> QED
  BY <1>4 DEF Verify, With, Idle, Typed

\* A deploy that reports success, and that nobody disturbed, left its own version
\* running, and that calls the copy of its sub-workflow its ledger names.
THEOREM VerifiedVersionRuns == Spec => VerifiedIsLive
<1>1. ASSUME Typed, Undisturbed, [Next]_vars, NEW d \in Deployers,
             job[d].pc = "verify", job'[d].pc = "tag", ~job[d].touched
      PROVE  LET w == server[job[d].wid]
                 sub == Callee[job[d].name]
             IN /\ w.active /\ w.live.by = d
                /\ sub # Nobody /\ job[d].ledger[sub] # NoId => w.live.calls = job[d].ledger[sub]
  <2>1. Verifies(server[job[d].wid])
    BY <1>1, VerifyPasses
  <2>2. LET w == server[job[d].wid] IN w.active /\ w.live = Mine(d)
    BY <1>1, <2>1 DEF Undisturbed, Own, Verifies
  <2>3. LET sub == Callee[job[d].name]
        IN sub # Nobody /\ job[d].ledger[sub] # NoId => job[d].calls = job[d].ledger[sub]
    BY <1>1 DEF Typed, Job
  <2> QED
    BY <2>2, <2>3 DEF Mine
<1>2. Typed /\ Undisturbed /\ [Next]_vars =>
        \A d \in Deployers :
          job[d].pc = "verify" /\ job'[d].pc = "tag" /\ ~job[d].touched =>
            LET w == server[job[d].wid]
                sub == Callee[job[d].name]
            IN /\ w.active /\ w.live.by = d
               /\ sub # Nobody /\ job[d].ledger[sub] # NoId => w.live.calls = job[d].ledger[sub]
  BY <1>1
<1> QED
  BY <1>2, TypedInvariant, UndisturbedInvariant, PTL DEF Spec, VerifiedIsLive

\* A deploy with --activate whose calls n8n answers passes its own read-back.
THEOREM DeploysLand == Spec => []DeployLands
<1>1. ASSUME Undisturbed PROVE DeployLands
  <2> SUFFICES ASSUME NEW d \in Deployers, job[d].pc = "verify", job[d].activate,
                      ~job[d].failed, ~job[d].touched
               PROVE  Verifies(server[job[d].wid])
    BY DEF DeployLands
  <2>1. LET w == server[job[d].wid] IN w.exists /\ w.draft = Mine(d) /\ w.current
    BY <1>1 DEF Undisturbed, Own, Landing
  <2> QED
    BY <2>1 DEF Verifies, Mine
<1> QED
  BY <1>1, UndisturbedInvariant, PTL

-----------------------------------------------------------------------------
(* The copies that deploys made *)

\* n8n runs what was published, of what exists.
Kept(w) == (w.active => w.published) /\ (w.published => w.exists)

\* A copy was published, and not by hand against the ledger.
Spread(i) == server[i].published /\ i \notin done.byHand

\* Of the copies, only the one in the ledger was ever published so.
LedgerKnows ==
  \A n \in Names : \A k \in 1 .. MaxCopies :
    Spread(<<n, k>>) => ledger[n] = <<n, k>>

\* A run works on the ledger's id, else the pinned one, till it finds it gone; it
\* records another id than the ledger's copy only when that is gone.
OnItsWay(d) ==
  LET j == job[d]
  IN /\ j.pc \in {"before", "put", "post", "record"} => j.ledger = ledger
     /\ j.pc \in {"before", "put", "post"} =>
          j.wid = IF ledger[j.name] # NoId THEN ledger[j.name] ELSE Pinned(j.name)
     /\ j.pc = "post" => j.wid[2] = 0 \/ ~server[j.wid].exists
     /\ j.pc = "record" => \A k \in 1 .. MaxCopies :
          ledger[j.name] = <<j.name, k>> /\ server[<<j.name, k>>].exists =>
            j.wid = <<j.name, k>>
     /\ j.pc = "activate" => ledger[j.name] = j.wid

\* A run is under way.
Busy(d) == job[d].pc # "idle"

\* What the bounds count.
Tally == [deploys : Nat, boots : Nat, edits : Nat, overlapped : BOOLEAN, byHand : SUBSET Ids]

\* As long as no two runs overlapped there is one at a time, and the ledger knows its copies.
Solo ==
  /\ done \in Tally
  /\ \A i \in Ids : Kept(server[i])
  /\ ~done.overlapped =>
       /\ \A d, e \in Deployers : Busy(d) /\ Busy(e) => d = e
       /\ LedgerKnows
       /\ \A d \in Deployers : OnItsWay(d)

\* A copy has an id, which is not the pinned one.
LEMMA CopyIds ==
  ASSUME NEW n \in Names, NEW k \in 1 .. MaxCopies
  PROVE  <<n, k>> \in Ids /\ <<n, k>>[2] # 0 /\ <<n, k>> # Pinned(n) /\ <<n, k>> # NoId
BY DeployAssumption DEF Ids, Pinned, NoId

\* n8n's own operations keep to that.
LEMMA KeptOps ==
  /\ Kept(Absent)
  /\ \A w \in Workflow : Kept(Published(w)) \/ ~w.exists
  /\ \A w \in Workflow : Kept(w) /\ w.exists => Kept(Reactivated(w)) /\ Reactivated(w).exists
  /\ \A w \in Workflow, v \in Version :
       Kept(w) => /\ Kept(Saved(w, v)) /\ Saved(w, v).exists
                  /\ Saved(w, v).published = w.published
BY DEF Kept, Absent, Published, Reactivated, Saved, Workflow

\* A write by somebody who is not a deploy: of a pinned id, or of one that does not
\* come to exist and that is the ledger's if it is published for the first time,
\* or else counts as published by hand.
LEMMA OtherWrites ==
  ASSUME Typed, Solo, NEW i \in Ids, NEW w \in Workflow, Writes(job, i, w),
         UNCHANGED <<ledger, done.overlapped>>, Kept(w),
         done' \in Tally, done.byHand \subseteq done'.byHand,
         \/ i[2] = 0
         \/ /\ w.exists => server[i].exists
            /\ w.published => server[i].published \/ ledger[i[1]] = i \/ i \in done'.byHand
  PROVE  Solo'
<1>1. /\ server'[i] = w /\ \A k \in Ids : k # i => server'[k] = server[k]
      /\ \A d \in Deployers : job'[d] \in {job[d], [job[d] EXCEPT !.touched = TRUE]}
  BY DEF Writes, Typed
<1>2. \A d \in Deployers : /\ job'[d].pc = job[d].pc /\ job'[d].name = job[d].name
                           /\ job'[d].wid = job[d].wid /\ job'[d].ledger = job[d].ledger
  BY <1>1 DEF Typed, Job, JobRecord
<1>3. \A k \in Ids : k[2] # 0 => /\ Spread(k)' => Spread(k) \/ ledger[k[1]] = k
                                 /\ server'[k].exists => server[k].exists
  BY <1>1 DEF Spread
<1>4. \A k \in Ids : Kept(server[k])'
  BY <1>1 DEF Solo, Kept
<1>5. ASSUME ~done.overlapped PROVE LedgerKnows'
  <2>1. SUFFICES ASSUME NEW n \in Names, NEW k \in 1 .. MaxCopies, Spread(<<n, k>>)'
                 PROVE  ledger[n] = <<n, k>>
    BY DEF LedgerKnows
  <2>2. Spread(<<n, k>>) \/ ledger[n] = <<n, k>>
    BY <1>3, <2>1, CopyIds
  <2> QED
    BY <1>5, <2>2 DEF Solo, LedgerKnows
<1>6. ASSUME ~done.overlapped, NEW d \in Deployers PROVE OnItsWay(d)'
  <2>1. OnItsWay(d)
    BY <1>6 DEF Solo
  <2>2. job[d].pc # "idle" => job[d].wid \in Ids /\ job[d].name \in Names
    BY DEF Typed, Job
  <2>3. job[d].pc = "post" => (job[d].wid[2] = 0 \/ ~server'[job[d].wid].exists)
    <3>1. CASE job[d].pc = "post" /\ job[d].wid[2] # 0
      BY <1>3, <2>1, <2>2, <3>1 DEF OnItsWay
    <3> QED
      BY <3>1
  <2>4. ASSUME job[d].pc = "record", NEW k \in 1 .. MaxCopies,
               ledger[job[d].name] = <<job[d].name, k>>, server'[<<job[d].name, k>>].exists
        PROVE  job[d].wid = <<job[d].name, k>>
    <3>1. server[<<job[d].name, k>>].exists
      BY <1>3, <2>2, <2>4, CopyIds
    <3> QED
      BY <2>1, <2>4, <3>1 DEF OnItsWay
  <2> QED
    BY <1>2, <2>1, <2>3, <2>4 DEF OnItsWay
<1> QED
  BY <1>2, <1>4, <1>5, <1>6 DEF Solo, Busy

\* Bootstrap and editor.
LEMMA OthersSolo ==
  ASSUME Typed, Solo,
         \/ Generate \/ BootStart \/ BootEnd
         \/ \E n \in Names : Import(n) \/ Publish(n)
         \/ \E i \in Ids : Edit(i)
  PROVE  Solo'
<1>0. /\ \A i \in Ids : server[i] \in Workflow /\ Kept(server[i])
      /\ done \in Tally
  BY DEF Typed, Solo
<1>1. CASE Generate \/ BootStart \/ BootEnd
  <2>1. /\ UNCHANGED <<server, job, ledger, done.overlapped, done.byHand>>
        /\ done' \in Tally
    BY <1>0, <1>1 DEF Generate, BootStart, BootEnd, Tally
  <2> QED
    BY <2>1 DEF Solo, LedgerKnows, Spread, OnItsWay, Busy
<1>2. ASSUME NEW n \in Names, Import(n) PROVE Solo'
  <2> DEFINE v == [by |-> "import", whole |-> TRUE,
                   calls |-> IF Callee[n] = Nobody THEN NoId ELSE Pinned(Callee[n])]
  <2>1. v \in Version
    BY DeployAssumption, IdFacts DEF Version
  <2>2. Saved(Absent, v) \in Workflow /\ Kept(Saved(Absent, v))
    BY <2>1, ServerTypes, KeptOps
  <2>3. Writes(job, Pinned(n), Saved(Absent, v)) /\ UNCHANGED <<ledger, done>>
    BY <1>2 DEF Import
  <2> QED
    BY <1>0, <2>2, <2>3, IdFacts, OtherWrites
<1>3. ASSUME NEW n \in Names, Publish(n) PROVE Solo'
  <2>1. Published(server[Pinned(n)]) \in Workflow /\ Kept(Published(server[Pinned(n)]))
    BY <1>0, <1>3, IdFacts, ServerTypes, KeptOps DEF Publish
  <2>2. Writes(job, Pinned(n), Published(server[Pinned(n)])) /\ UNCHANGED <<ledger, done>>
    BY <1>3 DEF Publish
  <2> QED
    BY <1>0, <2>1, <2>2, IdFacts, OtherWrites
<1>4. ASSUME NEW i \in Ids, Edit(i) PROVE Solo'
  <2> DEFINE s == server[i]
             Draft(whole) == [s EXCEPT !.draft = [@ EXCEPT !.by = "editor", !.whole = whole],
                                       !.current = FALSE]
             Hand == IF s.published \/ ledger[i[1]] = i THEN {} ELSE {i}
  <2>1. PICK w, hand :
          /\ hand \in {{}, Hand}
          /\ \/ \E whole \in BOOLEAN : w = Draft(whole)
             \/ w = Published(s) /\ hand = Hand
             \/ w = [s EXCEPT !.active = FALSE]
             \/ w = Absent
          /\ s.exists /\ Writes(job, i, w) /\ ledger' = ledger
          /\ done' = [done EXCEPT !.edits = @ + 1, !.byHand = @ \cup hand]
    <3> DEFINE Done(hand) == [done EXCEPT !.edits = @ + 1, !.byHand = @ \cup hand]
    <3>1. /\ s.exists /\ ledger' = ledger
          /\ \/ \E whole \in BOOLEAN : Writes(job, i, Draft(whole)) /\ done' = Done({})
             \/ Writes(job, i, Published(s)) /\ done' = Done(Hand)
             \/ Writes(job, i, [s EXCEPT !.active = FALSE]) /\ done' = Done({})
             \/ Writes(job, i, Absent) /\ done' = Done({})
      BY <1>4 DEF Edit
    <3> HIDE DEF Draft, Hand
    <3> QED
      BY <3>1, Zenon
  <2>2. /\ w \in Workflow /\ Kept(w)
        /\ w.published => s.published \/ hand = Hand
    <3>1. \A whole \in BOOLEAN :
            /\ Draft(whole) \in Workflow /\ Kept(Draft(whole))
            /\ Draft(whole).published = s.published
      BY <1>0 DEF Workflow, Version, Kept
    <3>2. Published(s) \in Workflow /\ Kept(Published(s)) /\ Absent \in Workflow /\ Kept(Absent)
          /\ ~Absent.published
      BY <1>0, <2>1, ServerTypes, KeptOps DEF Absent
    <3>3. /\ [s EXCEPT !.active = FALSE] \in Workflow /\ Kept([s EXCEPT !.active = FALSE])
          /\ [s EXCEPT !.active = FALSE].published = s.published
      BY <1>0 DEF Workflow, Kept
    <3> HIDE DEF Draft
    <3> QED
      BY <2>1, <3>1, <3>2, <3>3
  <2>3. /\ done' \in Tally /\ done'.overlapped = done.overlapped
        /\ done.byHand \subseteq done'.byHand /\ hand \subseteq done'.byHand
    <3>1. hand \in SUBSET Ids
      BY <2>1
    <3>2. done.byHand \cup hand \in SUBSET Ids /\ done.edits + 1 \in Nat
      BY <1>0, <3>1 DEF Tally
    <3>3. done' = [done EXCEPT !.edits = @ + 1, !.byHand = @ \cup hand]
      BY <2>1
    <3> QED
      BY <1>0, <3>2, <3>3 DEF Tally
  <2>4. w.published => s.published \/ ledger[i[1]] = i \/ i \in done'.byHand
    BY <2>1, <2>2, <2>3
  <2> QED
    BY <2>1, <2>2, <2>3, <2>4, OtherWrites
<1> QED
  BY <1>1, <1>2, <1>3, <1>4

\* As long as no two runs overlap, the others rest.
LEMMA OthersRest ==
  ASSUME Typed, Solo, ~done.overlapped, NEW d \in Deployers, Busy(d), Deployment(d),
         NEW e \in Deployers \ {d}
  PROVE  job'[e].pc = "idle" /\ OnItsWay(e)'
<1>1. job[e].pc = "idle"
  BY DEF Solo, Busy
<1>2. job'[e].pc = "idle"
  BY <1>1, PcIsOwn
<1> QED
  BY <1>2 DEF OnItsWay

\* What is left to show of a step of a run.
LEMMA RunSolo ==
  ASSUME Typed, Solo, NEW d \in Deployers, Busy(d), Deployment(d), UNCHANGED done,
         \A i \in Ids : Kept(server'[i]),
         ~done.overlapped => LedgerKnows' /\ OnItsWay(d)'
  PROVE  Solo'
<1>1. ASSUME ~done.overlapped PROVE \A e \in Deployers : OnItsWay(e)'
  BY <1>1, OthersRest
<1>2. ASSUME ~done.overlapped, NEW e \in Deployers, NEW f \in Deployers, Busy(e)', Busy(f)'
      PROVE  e = f
  BY <1>2, OthersRest DEF Busy
<1> QED
  BY <1>1, <1>2 DEF Solo

\* A run that starts alone takes what the ledger says.
LEMMA StartSolo ==
  ASSUME Typed, Solo, NEW d \in Deployers, Start(d)
  PROVE  Solo'
<1> DEFINE Old(v) == IF v.by = d THEN [v EXCEPT !.by = "earlier"] ELSE v
<1>1. PICK n \in Names, activate \in BOOLEAN :
        /\ job[d].pc = "idle"
        /\ job' = With(d, [pc |-> IF activate THEN "before" ELSE "put", name |-> n,
                           wid |-> IF ledger[n] # NoId THEN ledger[n] ELSE Pinned(n),
                           calls |-> Wired(n), ledger |-> ledger, activate |-> activate,
                           failed |-> FALSE, touched |-> FALSE])
        /\ server' = [i \in Ids |-> [server[i] EXCEPT !.draft = Old(@), !.live = Old(@)]]
        /\ done' = [done EXCEPT !.deploys = @ + 1,
                     !.overlapped = @ \/ \E e \in Deployers : job[e].pc # "idle"]
        /\ ledger' = ledger
  BY Zenon DEF Start
<1>2. \A i \in Ids : /\ server'[i].exists = server[i].exists
                     /\ server'[i].active = server[i].active
                     /\ server'[i].published = server[i].published
  BY <1>1 DEF Typed, Workflow
<1>3. \A i \in Ids : Kept(server'[i])
  BY <1>2 DEF Solo, Kept
<1>4. done' \in Tally
  <2> DEFINE o == done.overlapped \/ \E e \in Deployers : job[e].pc # "idle"
  <2>1. o \in BOOLEAN
    BY Zenon
  <2>2. done' = [done EXCEPT !.deploys = @ + 1, !.overlapped = o]
    BY <1>1
  <2>3. done \in Tally
    BY DEF Solo
  <2>4. done.deploys + 1 \in Nat
    BY <2>3 DEF Tally
  <2> HIDE DEF o
  <2> QED
    BY <2>1, <2>2, <2>3, <2>4 DEF Tally
<1>5. ASSUME ~done'.overlapped
      PROVE  ~done.overlapped /\ \A e \in Deployers : job[e].pc = "idle"
  BY <1>1, <1>5 DEF Solo, Tally
<1>6. ASSUME ~done'.overlapped PROVE LedgerKnows'
  <2>1. SUFFICES ASSUME NEW m \in Names, NEW k \in 1 .. MaxCopies, Spread(<<m, k>>)'
                 PROVE  ledger[m] = <<m, k>>
    BY <1>1 DEF LedgerKnows
  <2>2. done'.byHand = done.byHand
    BY <1>1 DEF Solo, Tally
  <2>3. Spread(<<m, k>>)
    BY <1>2, <2>1, <2>2, CopyIds DEF Spread
  <2> QED
    BY <1>5, <1>6, <2>3 DEF Solo, LedgerKnows
<1>7. ASSUME ~done'.overlapped, NEW e \in Deployers PROVE OnItsWay(e)'
  <2>1. CASE e = d
    <3>1. /\ job'[d].pc \in {"before", "put"} /\ job'[d].ledger = ledger /\ job'[d].name = n
          /\ job'[d].wid = IF ledger[n] # NoId THEN ledger[n] ELSE Pinned(n)
      BY <1>1 DEF With, Typed
    <3> QED
      BY <1>1, <2>1, <3>1 DEF OnItsWay
  <2>2. CASE e # d
    <3>1. job'[e].pc = "idle"
      BY <1>1, <1>5, <1>7, <2>2 DEF With, Typed
    <3> QED
      BY <3>1 DEF OnItsWay
  <2> QED
    BY <2>1, <2>2
<1>8. ASSUME ~done'.overlapped, NEW e \in Deployers, NEW f \in Deployers, Busy(e)', Busy(f)'
      PROVE  e = f
  BY <1>1, <1>5, <1>8 DEF With, Typed, Busy
<1> QED
  BY <1>3, <1>4, <1>6, <1>7, <1>8 DEF Solo

\* An activation publishes an id that the ledger has, or a pinned one.
LEMMA ActivatesSolo ==
  ASSUME Typed, Solo, NEW d \in Deployers, Deployment(d),
         NEW pc \in {"before", "activate"}, NEW next \in {"put", "verify"},
         (pc = "before") <=> (next = "put"), Activates(d, pc, next)
  PROVE  Solo'
<1> DEFINE i == job[d].wid
           w == server[i]
<1> USE DEF PCs
<1>1. /\ job[d].pc = pc /\ i \in Ids /\ w \in Workflow /\ Kept(w) /\ job[d] \in JobRecord
      /\ i[1] = job[d].name /\ job[d].name \in Names
  BY DEF Activates, Typed, Job, Solo
<1>2. At(d, next) \in Job /\ [At(d, next) EXCEPT !.failed = TRUE] \in Job
  BY <1>1, JobSteps
<1>3. UNCHANGED <<ledger, done>> /\ Busy(d)
  BY <1>1 DEF Activates, Busy
<1>4. /\ \A k \in Ids : k # i => server'[k] = server[k]
      /\ server'[i] = w \/ (w.exists /\ server'[i] = Reactivated(w))
      /\ job'[d] = At(d, next) \/ job'[d] = [At(d, next) EXCEPT !.failed = TRUE]
  <2> DEFINE jobs == With(d, At(d, next))
  <2>1. /\ jobs \in [Deployers -> Job] /\ jobs[d] = At(d, next) /\ jobs[d] # job[d]
        /\ With(d, [At(d, next) EXCEPT !.failed = TRUE])[d] = [At(d, next) EXCEPT !.failed = TRUE]
    BY <1>1, <1>2 DEF With, At, Typed, JobRecord
  <2>2. CASE w.exists /\ Writes(jobs, i, Reactivated(w))
    BY <1>1, <2>1, <2>2, WriteEffect DEF Writes, Typed
  <2>3. CASE /\ UNCHANGED server
             /\ job' = jobs \/ job' = With(d, [At(d, next) EXCEPT !.failed = TRUE])
    BY <2>1, <2>3
  <2> QED
    BY <2>2, <2>3 DEF Activates
<1>5. \A k \in Ids : Kept(server'[k])
  BY <1>1, <1>4, KeptOps DEF Solo
<1>6. /\ job'[d].pc = next /\ job'[d].wid = i /\ job'[d].name = job[d].name
      /\ job'[d].ledger = job[d].ledger
  <2>1. /\ At(d, next).pc = next /\ At(d, next).wid = i /\ At(d, next).name = job[d].name
        /\ At(d, next).ledger = job[d].ledger /\ At(d, next) \in JobRecord
    BY <1>1, <1>2 DEF At, JobRecord, Job
  <2>2. LET j == [At(d, next) EXCEPT !.failed = TRUE]
        IN j.pc = next /\ j.wid = i /\ j.name = job[d].name /\ j.ledger = job[d].ledger
    BY <2>1 DEF JobRecord
  <2> QED
    BY <1>4, <2>1, <2>2
<1>7. ASSUME ~done.overlapped PROVE OnItsWay(d)'
  BY <1>1, <1>3, <1>6, <1>7 DEF Solo, OnItsWay
<1>8. ASSUME ~done.overlapped PROVE LedgerKnows'
  <2>1. SUFFICES ASSUME NEW n \in Names, NEW k \in 1 .. MaxCopies, Spread(<<n, k>>)'
                 PROVE  ledger[n] = <<n, k>>
    BY <1>3 DEF LedgerKnows
  <2>2. CASE <<n, k>> # i
    <3>1. Spread(<<n, k>>)
      BY <1>3, <1>4, <2>1, <2>2, CopyIds DEF Spread
    <3> QED
      BY <1>8, <3>1 DEF Solo, LedgerKnows
  <2>3. CASE <<n, k>> = i
    <3>1. n = job[d].name /\ i # Pinned(n)
      BY <1>1, <2>3, CopyIds
    <3>2. OnItsWay(d)
      BY <1>8 DEF Solo
    <3> QED
      BY <1>1, <2>3, <3>1, <3>2 DEF OnItsWay
  <2> QED
    BY <2>2, <2>3
<1> QED
  BY <1>3, <1>5, <1>7, <1>8, RunSolo

\* A PUT changes nothing of what was published; a POST is made only when the
\* ledger's copy is gone, or the pinned one.
LEMMA SendSolo ==
  ASSUME Typed, Solo, NEW d \in Deployers, Deployment(d), Put(d) \/ Post(d)
  PROVE  Solo'
<1> DEFINE name == job[d].name
           w == server[job[d].wid]
<1> USE DEF PCs
<1>1. /\ job[d] \in JobRecord /\ job[d].wid \in Ids /\ name \in Names /\ job[d].wid[1] = name
      /\ w \in Workflow /\ Busy(d) /\ UNCHANGED <<ledger, done>> /\ job[d] \in Job
  BY DEF Put, Post, Typed, Job, Busy
<1>2. ~done.overlapped => OnItsWay(d) /\ LedgerKnows
  BY DEF Solo
<1>3. CASE Put(d) /\ ~w.exists /\ UNCHANGED server /\ job' = With(d, At(d, "post"))
  <2>1. /\ job'[d].pc = "post" /\ job'[d].wid = job[d].wid /\ job'[d].name = name
        /\ job'[d].ledger = job[d].ledger /\ job[d].pc = "put"
    BY <1>1, <1>3 DEF With, At, Typed, JobRecord, Put
  <2>2. ~done.overlapped => OnItsWay(d)' /\ LedgerKnows'
    BY <1>1, <1>2, <1>3, <2>1 DEF OnItsWay, LedgerKnows, Spread
  <2>3. \A k \in Ids : Kept(server'[k])
    BY <1>3 DEF Solo
  <2> QED
    BY <1>1, <2>2, <2>3, RunSolo
<1>4. CASE Put(d) /\ w.exists
           /\ Writes(With(d, At(d, "record")), job[d].wid, Saved(w, Mine(d)))
  <2> DEFINE i == job[d].wid
             jobs == With(d, At(d, "record"))
  <2>0. job[d].pc = "put" /\ At(d, "record") \in Job
    BY <1>1, <1>4, JobSteps DEF Put
  <2>1. jobs \in [Deployers -> Job] /\ jobs[d] = At(d, "record") /\ jobs[d] # job[d]
    BY <1>1, <2>0 DEF With, At, Typed, JobRecord
  <2>2. /\ server'[i] = Saved(w, Mine(d)) /\ job'[d] = At(d, "record")
        /\ \A k \in Ids : k # i => server'[k] = server[k]
    BY <1>1, <1>4, <2>1, WriteEffect DEF Writes, Typed
  <2>3. Kept(server'[i]) /\ server'[i].published = w.published
    BY <1>1, <2>2, MineType, KeptOps DEF Solo
  <2>4. \A k \in Ids : Kept(server'[k]) /\ server'[k].published = server[k].published
    BY <2>2, <2>3 DEF Solo
  <2>5. /\ job'[d].pc = "record" /\ job'[d].wid = i /\ job'[d].name = name
        /\ job'[d].ledger = job[d].ledger
    BY <1>1, <2>2 DEF At, JobRecord
  <2>6. ASSUME ~done.overlapped PROVE LedgerKnows'
    <3>1. SUFFICES ASSUME NEW n \in Names, NEW k \in 1 .. MaxCopies, Spread(<<n, k>>)'
                   PROVE  ledger[n] = <<n, k>>
      BY <1>1 DEF LedgerKnows
    <3> QED
      BY <1>1, <1>2, <2>4, <2>6, <3>1, CopyIds DEF LedgerKnows, Spread
  <2>7. ASSUME ~done.overlapped, NEW k \in 1 .. MaxCopies, ledger[name] = <<name, k>>
        PROVE  i = <<name, k>>
    BY <1>1, <1>2, <2>0, <2>7, CopyIds DEF OnItsWay
  <2>8. ASSUME ~done.overlapped PROVE OnItsWay(d)'
    BY <1>1, <1>2, <2>0, <2>5, <2>7, <2>8 DEF OnItsWay
  <2> QED
    BY <1>1, <2>4, <2>6, <2>8, RunSolo
<1>5. CASE Post(d)
  <2> DEFINE i == <<name, copies[name] + 1>>
             j == [At(d, "record") EXCEPT !.wid = i]
             jobs == With(d, j)
  <2>0. job[d].pc = "post" /\ i \in Ids /\ i[1] = name
    BY <1>1, <1>5, DeployAssumption DEF Post, Typed, Ids
  <2>1. /\ j \in Job /\ j.pc = "record" /\ j.wid = i /\ j.name = name /\ j.ledger = job[d].ledger
    BY <1>1, <2>0 DEF Job, JobRecord, At
  <2>2. jobs \in [Deployers -> Job] /\ jobs[d] = j /\ jobs[d] # job[d]
    BY <2>0, <2>1 DEF With, Typed
  <2>3. Writes(jobs, i, Saved(Absent, Mine(d)))
    BY <1>5 DEF Post
  <2>4. /\ Saved(Absent, Mine(d)) \in Workflow /\ Kept(Saved(Absent, Mine(d)))
        /\ ~Saved(Absent, Mine(d)).published
    BY MineType, ServerTypes, KeptOps DEF Absent
  <2>5. /\ server'[i] = Saved(Absent, Mine(d)) /\ job'[d] = j
        /\ \A k \in Ids : k # i => server'[k] = server[k]
    BY <2>0, <2>2, <2>3, <2>4, WriteEffect DEF Writes, Typed
  <2>6. /\ \A k \in Ids : Kept(server'[k])
        /\ \A k \in Ids : server'[k].published => server[k].published
    BY <2>4, <2>5 DEF Solo
  <2>7. ASSUME ~done.overlapped PROVE LedgerKnows'
    <3>1. SUFFICES ASSUME NEW n \in Names, NEW k \in 1 .. MaxCopies, Spread(<<n, k>>)'
                   PROVE  ledger[n] = <<n, k>>
      BY <1>1 DEF LedgerKnows
    <3> QED
      BY <1>1, <1>2, <2>6, <2>7, <3>1, CopyIds DEF LedgerKnows, Spread
  <2>8. ASSUME ~done.overlapped, NEW k \in 1 .. MaxCopies, ledger[name] = <<name, k>>,
               server'[<<name, k>>].exists
        PROVE  i = <<name, k>>
    <3>1. <<name, k>> \in Ids /\ <<name, k>> # NoId /\ <<name, k>>[2] # 0
      BY <1>1, CopyIds
    <3>2. job[d].wid = <<name, k>> /\ ~w.exists
      BY <1>2, <2>0, <2>8, <3>1 DEF OnItsWay
    <3> QED
      BY <2>5, <2>8, <3>1, <3>2
  <2>9. ASSUME ~done.overlapped PROVE OnItsWay(d)'
    BY <1>1, <1>2, <2>0, <2>1, <2>5, <2>8, <2>9 DEF OnItsWay
  <2> QED
    BY <1>1, <2>6, <2>7, <2>9, RunSolo
<1> QED
  BY <1>3, <1>4, <1>5 DEF Put

\* The ledger gets the one id that may be published.
LEMMA RecordSolo ==
  ASSUME Typed, Solo, NEW d \in Deployers, Deployment(d), Record(d)
  PROVE  Solo'
<1> DEFINE name == job[d].name
<1>1. /\ job[d] \in JobRecord /\ name \in Names /\ job[d].pc = "record" /\ Busy(d)
      /\ UNCHANGED <<server, done>> /\ ledger' = [job[d].ledger EXCEPT ![name] = job[d].wid]
  BY DEF Record, Typed, Job, Busy
<1>2. /\ job'[d].pc \in {"activate", "verify"} /\ job'[d].name = name
      /\ job'[d].wid = job[d].wid
  BY <1>1 DEF Record, With, At, Typed, JobRecord
<1>3. ASSUME ~done.overlapped PROVE LedgerKnows' /\ OnItsWay(d)'
  <2>1. OnItsWay(d) /\ LedgerKnows
    BY <1>3 DEF Solo
  <2>2. /\ ledger'[name] = job[d].wid
        /\ \A n \in Names : n # name => ledger'[n] = ledger[n]
    BY <1>1, <2>1 DEF OnItsWay, Typed, Ledger
  <2>3. ASSUME NEW n \in Names, NEW k \in 1 .. MaxCopies, Spread(<<n, k>>)'
        PROVE  ledger'[n] = <<n, k>>
    <3>1. ledger[n] = <<n, k>> /\ server[<<n, k>>].exists
      BY <1>1, <2>1, <2>3, CopyIds DEF LedgerKnows, Spread, Solo, Kept
    <3> QED
      BY <1>1, <2>1, <2>2, <3>1 DEF OnItsWay
  <2>4. OnItsWay(d)'
    BY <1>2, <2>2 DEF OnItsWay
  <2> QED
    BY <2>3, <2>4 DEF LedgerKnows
<1>4. \A i \in Ids : Kept(server'[i])
  BY <1>1 DEF Solo
<1> QED
  BY <1>1, <1>3, <1>4, RunSolo

\* Every step.
LEMMA SoloStep == Typed /\ Solo /\ [Next]_vars => Solo'
<1> SUFFICES ASSUME Typed, Solo, [Next]_vars PROVE Solo'
  OBVIOUS
<1>1. CASE UNCHANGED vars
  BY <1>1 DEF vars, Solo, LedgerKnows, Spread, OnItsWay, Busy
<1>2. ASSUME NEW d \in Deployers, Deployment(d) PROVE Solo'
  <2>1. CASE Verify(d) \/ End(d)
    <3>1. UNCHANGED <<server, ledger, done>> /\ Busy(d)
      BY <2>1 DEF Verify, End, Busy
    <3>2. job'[d].pc \in {"tag", "idle"}
      BY <2>1 DEF Verify, End, With, At, Idle, Typed, Job, JobRecord
    <3>3. ~done.overlapped => LedgerKnows' /\ OnItsWay(d)'
      BY <3>1, <3>2 DEF Solo, LedgerKnows, Spread, OnItsWay
    <3>4. \A i \in Ids : Kept(server'[i])
      BY <3>1 DEF Solo
    <3> QED
      BY <1>2, <3>1, <3>3, <3>4, RunSolo
  <2>2. CASE PreActivate(d) \/ Activate(d)
    BY <1>2, <2>2, ActivatesSolo DEF PreActivate, Activate
  <2> QED
    BY <1>2, <2>1, <2>2, StartSolo, SendSolo, RecordSolo DEF Deployment
<1> QED
  BY <1>1, <1>2, OthersSolo DEF Next

\* An invariant of the system.
LEMMA SoloInvariant == Spec => []Solo
<1>1. Init => Solo
  <2> SUFFICES ASSUME Init PROVE Solo
    OBVIOUS
  <2>1. \A i \in Ids : server[i] = Absent
    BY DEF Init
  <2>2. \A d \in Deployers : job[d].pc = "idle"
    BY DEF Init, Idle
  <2>3. LedgerKnows
    <3>1. ASSUME NEW n \in Names, NEW k \in 1 .. MaxCopies PROVE ~server[<<n, k>>].published
      <4>1. server[<<n, k>>] = Absent
        BY <2>1, CopyIds
      <4> QED
        BY <4>1 DEF Absent
    <3> QED
      BY <3>1 DEF LedgerKnows, Spread
  <2>4. done \in Tally
    BY DEF Init, Tally
  <2>5. \A d \in Deployers : OnItsWay(d)
    BY <2>2 DEF OnItsWay
  <2> QED
    BY <2>1, <2>2, <2>3, <2>4, <2>5, KeptOps DEF Solo, Busy
<1> QED
  BY <1>1, TypedInvariant, SoloStep, PTL DEF Spec

\* Of the copies that deploys made of a workflow at most one runs, however often
\* runs die half way, as long as no two overlap; a copy that somebody first
\* published by hand against the ledger does not count.
THEOREM CopiesDoNotMultiply == Spec => []OneLiveCopy
<1>1. ASSUME Solo PROVE OneLiveCopy
  <2> SUFFICES ASSUME ~done.overlapped, NEW n \in Names,
                      NEW k \in 1 .. MaxCopies, NEW l \in 1 .. MaxCopies,
                      server[<<n, k>>].active, <<n, k>> \notin done.byHand,
                      server[<<n, l>>].active, <<n, l>> \notin done.byHand
               PROVE  k = l
    BY DEF OneLiveCopy
  <2>1. ledger[n] = <<n, k>> /\ ledger[n] = <<n, l>>
    BY <1>1, CopyIds DEF Solo, Kept, LedgerKnows, Spread
  <2> QED
    BY <2>1
<1> QED
  BY <1>1, SoloInvariant, PTL

-----------------------------------------------------------------------------
(* The canvas on its way to the gate *)

\* The file is as the author laid the nodes somewhere, or as the generator wrote
\* it, or sent.
FileKnown ==
  \/ file = Sent
  \/ ~file.laid /\ file.at \in [Nodes -> Points]
  \/ \E at \in [Nodes -> Points] : file = [Generated(at) EXCEPT !.laid = TRUE]

\* What the generator wrote, and nothing else, counts as laid.
LEMMA LaidFile ==
  ASSUME NEW at \in [Nodes -> Points], NEW f, f = [Generated(at) EXCEPT !.laid = TRUE]
  PROVE  /\ f.laid /\ ~f.sent /\ f.stickies = Generated(at).stickies /\ f.at = Generated(at).at
         /\ f.at \in [Nodes -> Points]
         /\ [Generated(f.at) EXCEPT !.laid = TRUE] = f
<1>1. Generated(at).at \in [Nodes -> Points]
  BY GeneratedIsNeat
<1>2. Generated(at) = [laid |-> FALSE, sent |-> FALSE, stickies |-> Generated(at).stickies,
                       at |-> Generated(at).at]
  BY GeneratedIs
<1>3. /\ f.laid /\ ~f.sent /\ f.stickies = Generated(at).stickies /\ f.at = Generated(at).at
  BY <1>2
<1>4. Generated(f.at) = Generated(at)
  BY <1>3, GeneratesTheSame
<1> QED
  BY <1>1, <1>3, <1>4

\* At first the author has laid the nodes.
LEMMA FileAtFirst == Init => FileKnown
<1> SUFFICES ASSUME Init PROVE FileKnown
  OBVIOUS
<1>1. file \in [at : [Nodes -> Places], stickies : {<<>>}, laid : {FALSE}, sent : {FALSE}]
  BY DEF Init
<1>2. Places \subseteq Points
  BY DeployAssumption DEF Points
<1>3. ~file.laid /\ file.at \in [Nodes -> Places]
  BY <1>1
<1>4. file.at \in [Nodes -> Points]
  BY <1>2, <1>3
<1> QED
  BY <1>3, <1>4 DEF FileKnown

\* Only the generator writes the file, until it is sent.
LEMMA FileStep == FileKnown /\ [Next]_vars => FileKnown'
<1> SUFFICES ASSUME FileKnown, [Next]_vars PROVE FileKnown'
  OBVIOUS
<1>1. CASE file' = file
  BY <1>1 DEF FileKnown
<1>2. CASE file' = Sent
  BY <1>2 DEF FileKnown
<1>3. CASE Generate
  <2>1. ~file.sent /\ file' = [Generated(file.at) EXCEPT !.laid = TRUE]
    BY <1>3 DEF Generate
  <2>2. file # Sent
    BY <2>1 DEF Sent
  <2>3. file.at \in [Nodes -> Points]
    BY <2>2, LaidFile DEF FileKnown
  <2> QED
    BY <2>1, <2>3 DEF FileKnown
<1>4. ASSUME NEW d \in Deployers, Deployment(d) PROVE file' = file \/ file' = Sent
  BY <1>4 DEF Deployment, Start, PreActivate, Put, Post, Record, Activate, Activates, Verify, End
<1>5. CASE BootStart \/ BootEnd
  BY <1>1, <1>2, <1>5 DEF BootStart, BootEnd
<1>6. ASSUME NEW n \in Names, Import(n) \/ Publish(n) PROVE file' = file
  BY <1>6 DEF Import, Publish
<1>7. ASSUME NEW i \in Ids, Edit(i) PROVE file' = file
  BY <1>7 DEF Edit
<1>8. CASE UNCHANGED vars
  BY <1>1, <1>8 DEF vars
<1> QED
  BY <1>1, <1>2, <1>3, <1>4, <1>5, <1>6, <1>7, <1>8 DEF Next

\* docs/CANVAS.md, "levels and spaces the rows for you": wherever the nodes were
\* laid, what zone_layout.py writes passes layout_check.py, but for a row of too
\* many columns and a row the check splits, and it would write the same again.
THEOREM GeneratedCanvasPasses == Spec => []GeneratedPasses
<1>1. ASSUME FileKnown PROVE GeneratedPasses
  <2> SUFFICES ASSUME file.laid
               PROVE  /\ Errors(file) \subseteq {"overflow"} \cup {e \in {"tight", "row"} : SplitRow(file.at)}
                      /\ [Generated(file.at) EXCEPT !.laid = TRUE] = file
    BY DEF GeneratedPasses
  <2>1. file # Sent
    BY DEF Sent
  <2>2. PICK at \in [Nodes -> Points] : file = [Generated(at) EXCEPT !.laid = TRUE]
    BY <1>1, <2>1 DEF FileKnown
  <2>3. /\ file.stickies = Generated(at).stickies /\ file.at = Generated(at).at
        /\ [Generated(file.at) EXCEPT !.laid = TRUE] = file
    BY <2>2, LaidFile
  <2>4. Errors(file) \subseteq {"overflow"} \cup {e \in {"tight", "row"} : SplitRow(file.at)}
    BY <2>3, GeneratedIsClean
  <2> QED
    BY <2>3, <2>4
<1> QED
  BY <1>1, FileAtFirst, FileStep, PTL DEF Spec
=============================================================================

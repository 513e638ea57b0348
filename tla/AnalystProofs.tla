---------------------------- MODULE AnalystProofs ----------------------------
(***************************************************************************)
(* Theorems about the analyst: its service, for every number of rows, keys,  *)
(* threads, tickers, faults and crashes; and what code keeps of a draft, for *)
(* every draft and all evidence.                                             *)
(***************************************************************************)
EXTENDS AnalystService, Grounding, FiniteSetTheorems, TLAPS

-----------------------------------------------------------------------------
(* The service *)

\* The worker has a pass exactly when it is inside _run or _run_entry.
WorkerHasJob == at \in {"idle", "chain"} <=> job = 0

\* A thread between the insert and the submit carries the new row's id.
SubmitterHasRow == \A p \in Threads : caller[p].at = "submit" => caller[p].id # 0

\* A pass with a job was inserted and holds its key.
JobHoldsKey == \A i \in Ids : HasJob(i) => i <= last /\ inflight[key[i]] = i

\* A pass is in one place: with one submitter, once in the queue, or running.
OnePlace ==
  /\ \A p, q \in Threads :
       caller[p].at = "submit" /\ caller[q].at = "submit" /\ caller[p].id = caller[q].id
         => p = q
  /\ \A m, n \in 1 .. Len(queue) : queue[m] = queue[n] => m = n
  /\ \A i \in Ids : /\ Queued(i) => job # i /\ ~Submitting(i)
                    /\ Submitting(i) => job # i

\* The inductive invariant: where a pass is and what it holds.
JobInv == WorkerHasJob /\ SubmitterHasRow /\ NoWedgedKey /\ JobHoldsKey /\ OnePlace
IInv == TypeOK /\ JobInv

\* How far a pass's row has come, seen from where its job stands.
RowInv ==
  /\ \A i \in Ids : i > last => status[i] = "none"
  /\ \A i \in Ids : Queued(i) \/ Submitting(i) => status[i] = "pending"
  /\ at = "begin" => status[job] = "pending"
  /\ at = "turns" => status[job] = "running"
  /\ at = "capped" => status[job] = "running"
  /\ at = "error" => status[job] \in Live \/ key[job] \notin Reports
  /\ at = "signals" => status[job] \in Terminal /\ key[job] \notin Reports
  /\ ~up => queue = <<>> /\ job = 0 /\ \A p \in Threads : caller[p].at = "idle"

\* What holds besides when nothing fails and nothing pauses.
NoInterference == MaxFaults = 0 /\ Pausing = {}

\* A pass is written off before its key is popped.
CleanInv ==
  /\ at # "unwind"
  /\ at = "error" => status[job] = "running"
  /\ at = "release" => status[job] \in Terminal
  /\ up => \A i \in Ids : status[i] \in Live => inflight[key[i]] = i

-----------------------------------------------------------------------------
\* The bounds are numbers.
LEMMA BoundsAreNat ==
  /\ MaxRows \in Nat /\ MaxFaults \in Nat /\ MaxCrashes \in Nat /\ MaxDays \in Nat
  /\ Cap \in Nat /\ MaxTurns \in Nat
  BY ServiceAssumption

\* A thread at rest is a thread, and so is one at the lock or about to submit.
LEMMA RestingIsACaller == Resting \in CallerState
  BY BoundsAreNat DEF Resting, CallerState, Keys, EntryKeys

\* A thread at the lock is a thread.
LEMMA AtLockIsACaller ==
  ASSUME NEW kind \in {"report", "entry"}, NEW k \in Keys, NEW rest \in SUBSET Tickers,
         NEW s \in Int
  PROVE  AtLock(kind, k, rest, s) \in CallerState
  BY BoundsAreNat DEF AtLock, CallerState

\* A thread that inserted its row is a thread.
LEMMA AtSubmitIsACaller ==
  ASSUME NEW c \in CallerState, NEW i \in 0 .. MaxRows
  PROVE  [c EXCEPT !.at = "submit", !.id = i] \in CallerState
  BY BoundsAreNat DEF CallerState

\* The next key is of tickers that are left.
LEMMA ChunkIsSubset == \A rest : NextChunk(rest) \subseteq rest
  BY DEF NextChunk

\* What a thread asks for is a key.
LEMMA CallerKeyIsAKey ==
  ASSUME TypeOK, NEW p \in Threads
  PROVE  CallerKey(p) \in Keys
  <1>1. caller[p] \in CallerState
    BY DEF TypeOK
  <1>2. NextChunk(caller[p].rest) \subseteq Tickers
    BY <1>1, ChunkIsSubset DEF CallerState
  <1>3. QED
    BY <1>1, <1>2 DEF CallerKey, Keys, EntryKeys, CallerState

\* Done with a key, a thread is at the next or at rest.
LEMMA AfterKeyIsACaller ==
  ASSUME TypeOK, NEW p \in Threads
  PROVE  /\ AfterKey(p) \in CallerState
         /\ AfterKey(p).at # "submit"
  <1> DEFINE rest == caller[p].rest \ NextChunk(caller[p].rest)
  <1>1. caller[p] \in CallerState
    BY DEF TypeOK
  <1>2. rest \in SUBSET Tickers
    BY <1>1 DEF CallerState
  <1>3. AfterKey(p) = Resting \/ AfterKey(p) = AtLock("entry", {}, rest, caller[p].spent)
    BY DEF AfterKey
  <1>4. AtLock("entry", {}, rest, caller[p].spent) \in CallerState
    <2> HIDE DEF rest
    <2>1. QED
      BY <1>1, <1>2, AtLockIsACaller DEF CallerState, Keys, EntryKeys
  <1>5. QED
    BY <1>3, <1>4, RestingIsACaller DEF Resting, AtLock

-----------------------------------------------------------------------------
(* The type invariant, together with the one fact it leans on: a worker     *)
(* between jobs has none, so job is a row id wherever the worker uses it.   *)

LEMMA InitIsTyped == Init => TypeOK
  BY BoundsAreNat, RestingIsACaller
  DEF Init, TypeOK, Keys, EntryKeys, Ids, Threads, WorkerPoints, Live, Terminal

\* start_entry_signals keeps the types and touches no pass.
LEMMA StartEntryIsTyped ==
  ASSUME TypeOK, NEW p \in Threads, NEW only \in SUBSET Tickers, StartEntrySignals(p, only)
  PROVE  /\ caller' \in [Threads -> CallerState]
         /\ watch' \in [Tickers -> {"none", "live", "closed"}]
         /\ UNCHANGED <<up, dbVars, inflight, queue, job, spent, burned, boundVars>>
  <1> DEFINE rows == IF only = {} THEN Enrolled ELSE watch
             syms == {t \in Tickers : rows[t] = "live" /\ (only = {} \/ t \in only)}
             c == AtLock("entry", {}, syms, recorded)
  <1>1. rows \in [Tickers -> {"none", "live", "closed"}]
    BY DEF Enrolled, TypeOK
  <1>2. c \in CallerState
    BY AtLockIsACaller DEF TypeOK, Keys, EntryKeys
  <1>3. caller' = caller \/ caller' = [caller EXCEPT ![p] = c]
    BY DEF StartEntrySignals
  <1>4. watch' = rows
    BY DEF StartEntrySignals
  <1>5. UNCHANGED <<up, dbVars, inflight, queue, job, spent, burned, boundVars>>
    BY DEF StartEntrySignals
  <1> HIDE DEF rows, c
  <1>6. QED
    BY <1>1, <1>2, <1>3, <1>4, <1>5 DEF TypeOK

\* Requests change the caller, the row they insert, or the watch list.
LEMMA RequestIsTyped ==
  ASSUME TypeOK, WorkerHasJob, SubmitterHasRow,
         \/ \E p \in Requests, k \in Reports : StartAnalysis(p, k)
         \/ \E p \in Requests, only \in SUBSET Tickers : RequestEntrySignals(p, only)
         \/ \E p \in Threads : RequestStep(p)
  PROVE  TypeOK' /\ WorkerHasJob'
  <1> USE BoundsAreNat
  <1>1. ASSUME NEW p \in Requests, NEW k \in Reports, StartAnalysis(p, k)
        PROVE  TypeOK' /\ WorkerHasJob'
    <2> DEFINE c == AtLock("report", k, {}, recorded)
    <2>1. c \in CallerState
      BY AtLockIsACaller DEF TypeOK, Keys
    <2>2. caller' = [caller EXCEPT ![p] = c]
      BY <1>1 DEF StartAnalysis
    <2> HIDE DEF c
    <2>3. caller' \in [Threads -> CallerState]
      BY <2>1, <2>2 DEF TypeOK
    <2>4. QED
      BY <1>1, <2>3 DEF StartAnalysis, TypeOK, WorkerHasJob, dbVars, boundVars
  <1>2. ASSUME NEW p \in Requests, NEW only \in SUBSET Tickers, RequestEntrySignals(p, only)
        PROVE  TypeOK' /\ WorkerHasJob'
    <2>1. /\ caller' \in [Threads -> CallerState]
          /\ watch' \in [Tickers -> {"none", "live", "closed"}]
          /\ UNCHANGED <<up, dbVars, inflight, queue, job, spent, burned, boundVars>>
      BY <1>2, StartEntryIsTyped DEF RequestEntrySignals, Threads
    <2>2. QED
      BY <1>2, <2>1 DEF RequestEntrySignals, TypeOK, WorkerHasJob, dbVars, boundVars
  <1>3. ASSUME NEW p \in Threads, RequestStep(p)
        PROVE  TypeOK' /\ WorkerHasJob'
    <2>1. CASE AlreadyRunning(p)
      BY <2>1, AfterKeyIsACaller
      DEF AlreadyRunning, TypeOK, WorkerHasJob, dbVars, boundVars
    <2>2. CASE TakeKey(p)
      <3> DEFINE k == CallerKey(p)
      <3>1. k \in Keys
        BY CallerKeyIsAKey
      <3>2. last + 1 \in Ids
        BY <2>2 DEF TakeKey, TypeOK, Ids
      <3>3. caller' \in [Threads -> CallerState]
        <4>1. caller[p] \in CallerState
          BY DEF TypeOK
        <4>2. caller' = [caller EXCEPT ![p] = [caller[p] EXCEPT !.at = "submit", !.id = last + 1]]
          BY <2>2 DEF TakeKey, TypeOK
        <4>3. [caller[p] EXCEPT !.at = "submit", !.id = last + 1] \in CallerState
          <5>1. last + 1 \in 0 .. MaxRows
            BY <3>2 DEF Ids
          <5>2. QED
            BY <4>1, <5>1, AtSubmitIsACaller
        <4>4. QED
          BY <4>2, <4>3 DEF TypeOK
      <3>4. /\ status' = [status EXCEPT ![last + 1] = "pending"]
            /\ key' = [key EXCEPT ![last + 1] = k]
            /\ inflight' = [inflight EXCEPT ![k] = last + 1]
            /\ last' = last + 1
            /\ UNCHANGED <<up, cost, today, recorded, watch, queue, at, job, spent, burned,
                           boundVars>>
        BY <2>2 DEF TakeKey
      <3> HIDE DEF k
      <3>5. QED
        BY <3>1, <3>2, <3>3, <3>4, SMTT(30) DEF TypeOK, WorkerHasJob, boundVars, Ids, Live
    <2>3. CASE GiveUp(p)
      BY <2>3, RestingIsACaller DEF GiveUp, TypeOK, WorkerHasJob, dbVars, boundVars
    <2>4. CASE Submit(p)
      <3>1. caller[p].id \in Ids
        BY <2>4, BoundsAreNat DEF Submit, TypeOK, SubmitterHasRow, CallerState, Ids
      <3>2. QED
        BY <2>4, <3>1, AfterKeyIsACaller
        DEF Submit, TypeOK, WorkerHasJob, dbVars, boundVars, CallerState
    <2>5. QED
      BY <1>3, <2>1, <2>2, <2>3, <2>4 DEF RequestStep
  <1>4. QED
    BY <1>1, <1>2, <1>3

\* Inside a pass, job is a row id.
LEMMA JobIsARow ==
  ASSUME TypeOK, WorkerHasJob, at \notin {"idle", "chain"}
  PROVE  job \in Ids
  BY BoundsAreNat DEF TypeOK, WorkerHasJob, Ids

\* The worker's steps keep the types, and it has a pass exactly while inside one.
LEMMA WorkerIsTyped ==
  ASSUME TypeOK, WorkerHasJob, WorkerStep
  PROVE  TypeOK' /\ WorkerHasJob'
  <1> USE BoundsAreNat DEF dbVars, boundVars
  <1>1. CASE Dequeue
    <2>1. Head(queue) \in Ids /\ Tail(queue) \in Seq(Ids)
      BY <1>1 DEF Dequeue, TypeOK
    <2>2. job' \in 0 .. MaxRows /\ job' # 0 /\ at' = "begin"
      BY <1>1, <2>1 DEF Dequeue, Ids
    <2>3. queue' \in Seq(Ids)
      BY <1>1, <2>1 DEF Dequeue
    <2>4. QED
      BY <1>1, <2>2, <2>3 DEF Dequeue, TypeOK, WorkerHasJob, WorkerPoints
  <1>2. CASE Begin
    <2>1. /\ status' \in [Ids -> {"none"} \cup Live \cup Terminal]
          /\ at' \in {"turns", "error"}
      BY <1>2 DEF Begin, TypeOK, Live
    <2>2. faults' \in 0 .. MaxFaults
      BY <1>2 DEF Begin, Commits, Raises, TypeOK
    <2>3. QED
      BY <1>2, <2>1, <2>2 DEF Begin, TypeOK, WorkerHasJob, WorkerPoints
  <1>3. CASE Turn
    <2>1. /\ burned' \in [Ids -> Nat]
          /\ at' \in {"turns", "capped"}
      BY <1>3, JobIsARow DEF Turn, TypeOK
    <2>2. QED
      BY <1>3, <2>1 DEF Turn, TypeOK, WorkerHasJob, WorkerPoints
  <1>4. CASE GraphError
    BY <1>4 DEF GraphError, TypeOK, WorkerHasJob, WorkerPoints
  <1>5. CASE PauseForApproval
    BY <1>5 DEF PauseForApproval, TypeOK, WorkerHasJob, WorkerPoints
  <1>6. ASSUME NEW result \in {"ok", "invalid"}, Persist(result)
        PROVE  TypeOK' /\ WorkerHasJob'
    <2>1. job \in Ids
      BY <1>6, JobIsARow DEF Persist
    <2>2. recorded' \in Int
      BY <1>6, <2>1 DEF Persist, TypeOK
    <2>3. /\ status' \in [Ids -> {"none"} \cup Live \cup Terminal]
          /\ cost' \in [Ids -> Nat]
          /\ faults' \in 0 .. MaxFaults
      <3>1. status' \in [Ids -> {"none"} \cup Live \cup Terminal]
        BY <1>6, <2>1 DEF Persist, TypeOK, Terminal
      <3>2. cost' \in [Ids -> Nat]
        BY <1>6, <2>1 DEF Persist, TypeOK
      <3>3. faults' \in 0 .. MaxFaults
        BY <1>6 DEF Persist, Commits, Raises, TypeOK
      <3> QED
        BY <3>1, <3>2, <3>3
    <2>4. at' \in {"signals", "release", "error"}
      BY <1>6 DEF Persist
    <2>5. QED
      BY <1>6, <2>2, <2>3, <2>4 DEF Persist, TypeOK, WorkerHasJob, WorkerPoints
  <1>7. CASE PersistSignals
    BY <1>7 DEF PersistSignals, Commits, Raises, TypeOK, WorkerHasJob, WorkerPoints
  <1>8. CASE Fail
    <2>1. /\ status' \in [Ids -> {"none"} \cup Live \cup Terminal]
          /\ at' \in {"release", "unwind"}
      BY <1>8 DEF Fail, TypeOK, Terminal
    <2>2. faults' \in 0 .. MaxFaults
      BY <1>8 DEF Fail, Commits, Raises, TypeOK
    <2>3. QED
      BY <1>8, <2>1, <2>2 DEF Fail, TypeOK, WorkerHasJob, WorkerPoints
  <1>9. CASE Release
    <2>1. at' \in {"chain", "idle"} /\ job' = 0
      BY <1>9 DEF Release
    <2>2. inflight' \in [Keys -> 0 .. MaxRows]
      <3>1. inflight' = [inflight EXCEPT ![key[job]] = 0] /\ 0 \in 0 .. MaxRows
        BY <1>9 DEF Release, Popped
      <3>2. QED
        BY <3>1 DEF TypeOK
    <2>3. QED
      BY <1>9, <2>1, <2>2 DEF Release, TypeOK, WorkerHasJob, WorkerPoints
  <1>10. CASE ChainEntrySignals
    <2>1. /\ caller' \in [Threads -> CallerState]
          /\ watch' \in [Tickers -> {"none", "live", "closed"}]
          /\ UNCHANGED <<up, dbVars, inflight, queue, job, spent, burned, boundVars>>
      BY <1>10, StartEntryIsTyped DEF ChainEntrySignals, Threads
    <2>2. QED
      BY <1>10, <2>1 DEF ChainEntrySignals, TypeOK, WorkerHasJob, WorkerPoints
  <1>11. QED
    BY <1>1, <1>2, <1>3, <1>4, <1>5, <1>6, <1>7, <1>8, <1>9, <1>10 DEF WorkerStep

\* So does every step.
LEMMA NextIsTyped ==
  ASSUME TypeOK, WorkerHasJob, SubmitterHasRow, [Next]_vars
  PROVE  TypeOK' /\ WorkerHasJob'
  <1> USE BoundsAreNat DEF dbVars, boundVars, memVars
  <1>1. ASSUME NEW t \in Tickers, NEW s \in {"live", "closed"}, EditWatch(t, s)
        PROVE  TypeOK' /\ WorkerHasJob'
    BY <1>1 DEF EditWatch, TypeOK, WorkerHasJob
  <1>2. CASE Crash
    <2>1. /\ inflight' \in [Keys -> 0 .. MaxRows]
          /\ caller' \in [Threads -> CallerState]
          /\ crashes' \in 0 .. MaxCrashes
      BY <1>2, RestingIsACaller DEF Crash, TypeOK
    <2>2. /\ queue' \in Seq(Ids)
          /\ job' \in 0 .. MaxRows
      BY <1>2 DEF Crash
    <2>3. QED
      BY <1>2, <2>1, <2>2 DEF Crash, TypeOK, WorkerHasJob, WorkerPoints
  <1>3. CASE Startup
    <2>1. /\ status' \in [Ids -> {"none"} \cup Live \cup Terminal]
          /\ faults' \in 0 .. MaxFaults
          /\ up' \in BOOLEAN
      BY <1>3 DEF Startup, Reaped, Commits, Raises, TypeOK, Terminal
    <2>2. QED
      BY <1>3, <2>1 DEF Startup, TypeOK, WorkerHasJob
  <1>4. CASE NewDay
    BY <1>4 DEF NewDay, TypeOK, WorkerHasJob
  <1>5. CASE UNCHANGED vars
    BY <1>5 DEF vars, TypeOK, WorkerHasJob
  <1>6. QED
    BY <1>1, <1>2, <1>3, <1>4, <1>5, RequestIsTyped, WorkerIsTyped DEF Next

-----------------------------------------------------------------------------
(* Jobs and keys. Most steps move no job: for them it is enough that the    *)
(* same threads are handing over the same rows.                             *)

SameSubmitters ==
  \A p \in Threads :
    /\ caller'[p].at = "submit" <=> caller[p].at = "submit"
    /\ caller[p].at = "submit" => caller'[p].id = caller[p].id

\* A step that moves no pass keeps what is known of where they are.
LEMMA QuietStep ==
  ASSUME IInv, SameSubmitters, UNCHANGED <<queue, job, inflight, key, last>>
  PROVE  SubmitterHasRow' /\ NoWedgedKey' /\ JobHoldsKey' /\ OnePlace'
  <1>1. \A i : (Submitting(i)' <=> Submitting(i)) /\ (Queued(i)' <=> Queued(i))
    BY DEF SameSubmitters, Submitting, Queued
  <1>2. \A i : HasJob(i)' <=> HasJob(i)
    BY <1>1 DEF HasJob
  <1>3. SubmitterHasRow'
    BY DEF IInv, JobInv, SubmitterHasRow, SameSubmitters
  <1>4. NoWedgedKey' /\ JobHoldsKey'
    BY <1>2 DEF IInv, JobInv, NoWedgedKey, JobHoldsKey
  <1>5. OnePlace'
    <2>1. \A p, q \in Threads :
            caller'[p].at = "submit" /\ caller'[q].at = "submit" /\ caller'[p].id = caller'[q].id
              => p = q
      BY DEF IInv, JobInv, OnePlace, SameSubmitters
    <2>2. QED
      BY <1>1, <2>1 DEF IInv, JobInv, OnePlace
  <1>6. QED
    BY <1>3, <1>4, <1>5

\* A request that only moves to or from the lock hands over nothing.
LEMMA OffSubmit ==
  ASSUME TypeOK, NEW p \in Threads, NEW c \in CallerState, c.at # "submit",
         caller[p].at # "submit", caller' = [caller EXCEPT ![p] = c]
  PROVE  SameSubmitters
  BY DEF SameSubmitters, TypeOK

\* start_entry_signals has nothing to submit yet.
LEMMA StartEntryKeepsSubmitters ==
  ASSUME TypeOK, NEW p \in Threads, NEW only \in SUBSET Tickers, StartEntrySignals(p, only)
  PROVE  SameSubmitters
  BY DEF SameSubmitters, StartEntrySignals, AtLock, TypeOK

\* The steps that move no pass.
LEMMA QuietSteps ==
  ASSUME IInv,
         \/ \E p \in Requests, k \in Reports : StartAnalysis(p, k)
         \/ \E p \in Requests, only \in SUBSET Tickers : RequestEntrySignals(p, only)
         \/ \E p \in Threads : AlreadyRunning(p) \/ GiveUp(p)
         \/ \E t \in Tickers, s \in {"live", "closed"} : EditWatch(t, s)
         \/ Begin \/ Turn \/ GraphError \/ PauseForApproval
         \/ \E result \in {"ok", "invalid"} : Persist(result)
         \/ PersistSignals \/ Fail \/ ChainEntrySignals
         \/ Startup \/ NewDay \/ UNCHANGED vars
  PROVE  SubmitterHasRow' /\ NoWedgedKey' /\ JobHoldsKey' /\ OnePlace'
  <1> USE DEF IInv
  <1>1. ASSUME NEW p \in Requests, NEW k \in Reports, StartAnalysis(p, k)
        PROVE  SameSubmitters /\ UNCHANGED <<queue, job, inflight, key, last>>
    BY <1>1 DEF StartAnalysis, SameSubmitters, AtLock, TypeOK, Threads, dbVars
  <1>2. ASSUME NEW p \in Requests, NEW only \in SUBSET Tickers, RequestEntrySignals(p, only)
        PROVE  SameSubmitters /\ UNCHANGED <<queue, job, inflight, key, last>>
    <2>1. StartEntrySignals(p, only) /\ p \in Threads
      BY <1>2 DEF RequestEntrySignals, Threads
    <2>2. QED
      BY <2>1, StartEntryKeepsSubmitters DEF StartEntrySignals, dbVars
  <1>3. ASSUME NEW p \in Threads, AlreadyRunning(p) \/ GiveUp(p)
        PROVE  SameSubmitters /\ UNCHANGED <<queue, job, inflight, key, last>>
    <2>1. Resting \in CallerState /\ Resting.at # "submit"
      BY RestingIsACaller DEF Resting
    <2>2. SameSubmitters
      BY <1>3, <2>1, AfterKeyIsACaller, OffSubmit DEF AlreadyRunning, GiveUp
    <2>3. QED
      BY <1>3, <2>2 DEF AlreadyRunning, GiveUp, dbVars
  <1>4. CASE \E t \in Tickers, s \in {"live", "closed"} : EditWatch(t, s)
    <2>1. UNCHANGED <<caller, queue, job, inflight, key, last>>
      BY <1>4 DEF EditWatch, dbVars, memVars
    <2>2. QED
      BY <2>1, QuietStep DEF SameSubmitters
  <1>5. CASE \/ Begin \/ Turn \/ GraphError \/ PauseForApproval
             \/ \E result \in {"ok", "invalid"} : Persist(result)
             \/ PersistSignals \/ Fail
    <2>1. UNCHANGED <<caller, queue, job, inflight, key, last>>
      BY <1>5 DEF Begin, Turn, GraphError, PauseForApproval, Persist, PersistSignals, Fail, dbVars
    <2>2. QED
      BY <2>1, QuietStep DEF SameSubmitters
  <1>6. CASE ChainEntrySignals
    <2>1. StartEntrySignals(Worker, {}) /\ Worker \in Threads /\ {} \in SUBSET Tickers
      BY <1>6 DEF ChainEntrySignals, Threads
    <2>2. SameSubmitters
      BY <2>1, StartEntryKeepsSubmitters
    <2>3. QED
      BY <2>1, <2>2, QuietStep DEF StartEntrySignals, dbVars
  <1>7. CASE Startup \/ NewDay \/ UNCHANGED vars
    <2>1. UNCHANGED <<caller, queue, job, inflight, key, last>>
      BY <1>7 DEF Startup, NewDay, vars, dbVars, memVars
    <2>2. QED
      BY <2>1, QuietStep DEF SameSubmitters
  <1>8. QED
    BY <1>1, <1>2, <1>3, <1>4, <1>5, <1>6, <1>7, QuietStep

\* The insert: a row no job was using takes a key no pass was holding.
LEMMA TakeKeyStep ==
  ASSUME IInv, NEW p \in Threads, TakeKey(p)
  PROVE  SubmitterHasRow' /\ NoWedgedKey' /\ JobHoldsKey' /\ OnePlace'
  <1> USE DEF IInv, JobInv
  <1> DEFINE k == CallerKey(p)
             i == last + 1
  <1>1. k \in Keys /\ i \in Ids /\ i # 0
    <2>1. k \in Keys
      BY CallerKeyIsAKey
    <2>2. last \in 0 .. MaxRows /\ last < MaxRows
      BY DEF TakeKey, TypeOK
    <2>3. QED
      BY <2>1, <2>2, BoundsAreNat DEF Ids
  <1>2. /\ caller[p].at = "lock" /\ inflight[k] = 0
        /\ last' = i
        /\ key' = [key EXCEPT ![i] = k]
        /\ inflight' = [inflight EXCEPT ![k] = i]
        /\ caller' = [caller EXCEPT ![p].at = "submit", ![p].id = i]
        /\ UNCHANGED <<queue, job>>
    BY DEF TakeKey, Busy
  <1> HIDE DEF k
  <1>3. /\ caller'[p].at = "submit" /\ caller'[p].id = i
        /\ \A q \in Threads : q # p => caller'[q] = caller[q]
    BY <1>2 DEF TypeOK, CallerState
  <1>4. ~HasJob(i)
    BY <1>1 DEF JobHoldsKey, TypeOK
  <1>5. /\ \A j : Submitting(j)' <=> (Submitting(j) \/ j = i)
        /\ \A j : Queued(j)' <=> Queued(j)
    BY <1>2, <1>3 DEF Submitting, Queued
  <1>6. \A j : HasJob(j)' <=> (HasJob(j) \/ j = i)
    BY <1>2, <1>5 DEF HasJob
  <1>7. SubmitterHasRow'
    BY <1>1, <1>3 DEF SubmitterHasRow
  <1>8. NoWedgedKey'
    <2>1. ASSUME NEW l \in Keys, inflight'[l] # 0
          PROVE  (key[inflight[l]] = l /\ HasJob(inflight[l]))'
      <3>1. CASE l = k
        BY <1>1, <1>2, <1>6, <3>1 DEF TypeOK
      <3>2. CASE l # k
        <4>1. inflight'[l] = inflight[l] /\ key[inflight[l]] = l /\ HasJob(inflight[l])
          BY <1>1, <1>2, <2>1, <3>2 DEF NoWedgedKey, TypeOK
        <4>2. inflight[l] # i
          BY <1>4, <4>1
        <4>3. inflight[l] \in Ids
          BY <2>1, <4>1, BoundsAreNat DEF TypeOK, Ids
        <4>4. QED
          BY <1>1, <1>2, <1>6, <4>1, <4>2, <4>3 DEF TypeOK
      <3>3. QED
        BY <3>1, <3>2
    <2>2. QED
      BY <2>1 DEF NoWedgedKey
  <1>9. JobHoldsKey'
    <2>1. ASSUME NEW j \in Ids, HasJob(j)'
          PROVE  j <= last' /\ inflight'[key'[j]] = j
      <3>1. CASE j = i
        BY <1>1, <1>2, <3>1 DEF TypeOK
      <3>2. CASE j # i
        <4>1. j <= last /\ inflight[key[j]] = j /\ key'[j] = key[j] /\ key[j] \in Keys
          BY <1>2, <1>6, <2>1, <3>2 DEF JobHoldsKey, TypeOK
        <4>2. j # 0
          BY DEF Ids
        <4>3. key[j] # k
          BY <1>2, <4>1, <4>2
        <4>4. QED
          BY <1>1, <1>2, <4>1, <4>3 DEF TypeOK, Ids
      <3>3. QED
        BY <3>1, <3>2
    <2>2. QED
      BY <2>1 DEF JobHoldsKey
  <1>10. OnePlace'
    <2>1. \A q, r \in Threads :
            caller'[q].at = "submit" /\ caller'[r].at = "submit" /\ caller'[q].id = caller'[r].id
              => q = r
      <3>1. \A q \in Threads : caller[q].at = "submit" => caller[q].id # i
        BY <1>4 DEF HasJob, Submitting
      <3>2. QED
        BY <1>3, <3>1 DEF OnePlace
    <2>2. \A j \in Ids : /\ Queued(j)' => job' # j /\ ~Submitting(j)'
                         /\ Submitting(j)' => job' # j
      BY <1>2, <1>4, <1>5 DEF OnePlace, HasJob
    <2>3. QED
      BY <1>2, <2>1, <2>2 DEF OnePlace
  <1>11. QED
    BY <1>7, <1>8, <1>9, <1>10

\* The hand-over: the row leaves its thread for the end of the queue.
LEMMA SubmitStep ==
  ASSUME IInv, NEW p \in Threads, Submit(p)
  PROVE  SubmitterHasRow' /\ NoWedgedKey' /\ JobHoldsKey' /\ OnePlace'
  <1> USE DEF IInv, JobInv
  <1> DEFINE i == caller[p].id
  <1>1. /\ caller[p].at = "submit"
        /\ queue' = Append(queue, i)
        /\ caller' = [caller EXCEPT ![p] = AfterKey(p)]
        /\ UNCHANGED <<job, inflight, key, last>>
    BY DEF Submit, dbVars
  <1>2. i \in Ids
    BY <1>1, BoundsAreNat DEF SubmitterHasRow, TypeOK, CallerState, Ids
  <1> HIDE DEF i
  <1>3. /\ caller'[p].at # "submit"
        /\ \A q \in Threads : q # p => caller'[q] = caller[q]
    BY <1>1, AfterKeyIsACaller DEF TypeOK
  <1>4. /\ Len(queue') = Len(queue) + 1
        /\ Len(queue) \in Nat
        /\ queue'[Len(queue) + 1] = i
        /\ \A n \in 1 .. Len(queue) : queue'[n] = queue[n]
    BY <1>1, <1>2 DEF TypeOK
  <1>5. Submitting(i) /\ ~Queued(i) /\ job # i
    BY <1>1, <1>2 DEF Submitting, OnePlace, i
  <1>6. \A j : Queued(j)' <=> (Queued(j) \/ j = i)
    BY <1>4 DEF Queued
  <1>7. \A j : Submitting(j)' <=> (Submitting(j) /\ j # i)
    <2>1. \A q \in Threads : q # p /\ caller[q].at = "submit" => caller[q].id # i
      BY <1>1 DEF OnePlace, i
    <2>2. QED
      BY <1>3, <2>1 DEF Submitting, i
  <1>8. \A j : HasJob(j)' <=> HasJob(j)
    BY <1>1, <1>5, <1>6, <1>7 DEF HasJob
  <1>9. SubmitterHasRow'
    BY <1>3 DEF SubmitterHasRow
  <1>10. NoWedgedKey' /\ JobHoldsKey'
    BY <1>1, <1>8 DEF NoWedgedKey, JobHoldsKey
  <1>11. OnePlace'
    <2>1. \A q, r \in Threads :
            caller'[q].at = "submit" /\ caller'[r].at = "submit" /\ caller'[q].id = caller'[r].id
              => q = r
      BY <1>3 DEF OnePlace
    <2>2. \A m, n \in 1 .. Len(queue') : queue'[m] = queue'[n] => m = n
      <3>1. \A n \in 1 .. Len(queue) : queue[n] # i
        BY <1>5 DEF Queued
      <3>2. QED
        BY <1>4, <3>1 DEF OnePlace
    <2>3. \A j \in Ids : /\ Queued(j)' => job' # j /\ ~Submitting(j)'
                         /\ Submitting(j)' => job' # j
      BY <1>1, <1>5, <1>6, <1>7 DEF OnePlace
    <2>4. QED
      BY <2>1, <2>2, <2>3 DEF OnePlace
  <1>12. QED
    BY <1>9, <1>10, <1>11

\* The worker takes the pass that waited longest.
LEMMA DequeueStep ==
  ASSUME IInv, Dequeue
  PROVE  SubmitterHasRow' /\ NoWedgedKey' /\ JobHoldsKey' /\ OnePlace'
  <1> USE DEF IInv, JobInv
  <1> DEFINE i == Head(queue)
  <1>1. /\ queue # <<>> /\ job = 0
        /\ job' = i /\ queue' = Tail(queue)
        /\ UNCHANGED <<caller, inflight, key, last>>
    BY DEF Dequeue, dbVars, WorkerHasJob
  <1>2. /\ Len(queue) \in Nat \ {0}
        /\ Len(queue') = Len(queue) - 1
        /\ queue[1] = i /\ i \in Ids
        /\ \A n \in 1 .. Len(queue') : queue'[n] = queue[n + 1]
    BY <1>1 DEF TypeOK
  <1> HIDE DEF i
  <1>3. i # 0
    BY <1>2 DEF Ids
  <1>4. \A j : Queued(j) <=> (Queued(j)' \/ j = i)
    <2>1. ASSUME NEW j, NEW n \in 1 .. Len(queue), queue[n] = j, j # i
          PROVE  Queued(j)'
      <3>1. n - 1 \in 1 .. Len(queue')
        BY <1>2, <2>1
      <3>2. queue'[n - 1] = j
        BY <1>2, <2>1, <3>1
      <3>3. QED
        BY <3>1, <3>2 DEF Queued
    <2>2. \A j : Queued(j)' => Queued(j)
      BY <1>2 DEF Queued
    <2>3. Queued(i)
      BY <1>2 DEF Queued
    <2>4. QED
      BY <2>1, <2>2, <2>3 DEF Queued
  <1>5. \A j : Queued(j)' => j # i
    <2>1. ASSUME NEW n \in 1 .. Len(queue')
          PROVE  queue'[n] # i
      <3>1. n + 1 \in 1 .. Len(queue) /\ 1 \in 1 .. Len(queue) /\ n + 1 # 1
        BY <1>2
      <3>2. queue[n + 1] # queue[1]
        BY <3>1 DEF OnePlace
      <3>3. QED
        BY <1>2, <3>2
    <2>2. QED
      BY <2>1 DEF Queued
  <1>6. \A j : Submitting(j)' <=> Submitting(j)
    BY <1>1 DEF Submitting
  <1>7. \A j \in Ids : HasJob(j)' <=> HasJob(j)
    BY <1>1, <1>4, <1>6 DEF HasJob, Ids
  <1>8. SubmitterHasRow'
    BY <1>1 DEF SubmitterHasRow
  <1>9. NoWedgedKey'
    <2>1. \A k \in Keys : inflight[k] # 0 => inflight[k] \in Ids
      BY BoundsAreNat DEF TypeOK, Ids
    <2>2. QED
      BY <1>1, <1>7, <2>1 DEF NoWedgedKey
  <1>10. JobHoldsKey'
    BY <1>1, <1>7 DEF JobHoldsKey
  <1>11. OnePlace'
    <2>1. \A m, n \in 1 .. Len(queue') : queue'[m] = queue'[n] => m = n
      <3>1. \A n \in 1 .. Len(queue') : n + 1 \in 1 .. Len(queue)
        BY <1>2
      <3>2. \A m, n \in 1 .. Len(queue') : m + 1 = n + 1 => m = n
        BY <1>2
      <3>3. QED
        BY <1>2, <3>1, <3>2 DEF OnePlace
    <2>2. Queued(i) /\ ~Submitting(i)
      BY <1>2, <1>4 DEF OnePlace
    <2>3. \A j \in Ids : /\ Queued(j)' => job' # j /\ ~Submitting(j)'
                         /\ Submitting(j)' => job' # j
      <3>1. \A j \in Ids : Queued(j)' => j # i /\ ~Submitting(j)
        BY <1>4, <1>5 DEF OnePlace
      <3>2. QED
        BY <1>1, <1>6, <2>2, <3>1
    <2>4. QED
      BY <1>1, <2>1, <2>3 DEF OnePlace
  <1>12. QED
    BY <1>8, <1>9, <1>10, <1>11

\* The pop: only the worker's own key comes free, and its pass leaves with it.
LEMMA ReleaseStep ==
  ASSUME IInv, Release
  PROVE  SubmitterHasRow' /\ NoWedgedKey' /\ JobHoldsKey' /\ OnePlace'
  <1> USE DEF IInv, JobInv
  <1>1. /\ at \in {"release", "unwind"}
        /\ job' = 0
        /\ inflight' = [inflight EXCEPT ![key[job]] = 0]
        /\ UNCHANGED <<caller, queue, key, last>>
    BY DEF Release, Popped, dbVars
  <1>2. job \in Ids
    BY <1>1, JobIsARow
  <1>3. key[job] \in Keys /\ inflight[key[job]] = job
    BY <1>2 DEF HasJob, JobHoldsKey, TypeOK
  <1>4. \A j : (Submitting(j)' <=> Submitting(j)) /\ (Queued(j)' <=> Queued(j))
    BY <1>1 DEF Submitting, Queued
  <1>5. \A j \in Ids : HasJob(j)' <=> (HasJob(j) /\ j # job)
    BY <1>1, <1>2, <1>4 DEF HasJob, OnePlace, Ids
  <1>6. SubmitterHasRow'
    BY <1>1 DEF SubmitterHasRow
  <1>7. NoWedgedKey'
    <2>1. ASSUME NEW k \in Keys, inflight'[k] # 0
          PROVE  (key[inflight[k]] = k /\ HasJob(inflight[k]))'
      <3>1. k # key[job] /\ inflight'[k] = inflight[k]
        BY <1>1, <1>3, <2>1 DEF TypeOK
      <3>2. key[inflight[k]] = k /\ HasJob(inflight[k]) /\ inflight[k] \in Ids
        BY <2>1, <3>1, BoundsAreNat DEF NoWedgedKey, TypeOK, Ids
      <3>3. QED
        BY <1>1, <1>5, <3>1, <3>2
    <2>2. QED
      BY <2>1 DEF NoWedgedKey
  <1>8. JobHoldsKey'
    <2>1. ASSUME NEW j \in Ids, HasJob(j)'
          PROVE  j <= last' /\ inflight'[key'[j]] = j
      <3>1. j # job /\ j <= last /\ inflight[key[j]] = j /\ key[j] \in Keys
        BY <1>5, <2>1 DEF JobHoldsKey, TypeOK
      <3>2. key[j] # key[job]
        BY <1>3, <3>1
      <3>3. QED
        BY <1>1, <1>3, <3>1, <3>2 DEF TypeOK
    <2>2. QED
      BY <2>1 DEF JobHoldsKey
  <1>9. OnePlace'
    BY <1>1, <1>4 DEF OnePlace, Ids
  <1>10. QED
    BY <1>6, <1>7, <1>8, <1>9

\* The process dies: no thread, no queue, no key.
LEMMA CrashStep ==
  ASSUME IInv, Crash
  PROVE  SubmitterHasRow' /\ NoWedgedKey' /\ JobHoldsKey' /\ OnePlace'
  <1>1. /\ \A p \in Threads : caller'[p].at = "idle"
        /\ \A k \in Keys : inflight'[k] = 0
        /\ queue' = <<>> /\ job' = 0
    BY DEF Crash, Resting
  <1>2. \A i \in Ids : ~Submitting(i)' /\ ~Queued(i)' /\ ~HasJob(i)'
    BY <1>1 DEF Submitting, Queued, HasJob, Ids
  <1>3. OnePlace'
    BY <1>1, <1>2 DEF OnePlace
  <1>4. QED
    BY <1>1, <1>2, <1>3 DEF SubmitterHasRow, NoWedgedKey, JobHoldsKey

\* The invariant holds when the app is first started,
LEMMA InitIsInv == Init => IInv
  <1> SUFFICES ASSUME Init PROVE IInv
    OBVIOUS
  <1>1. TypeOK
    BY InitIsTyped
  <1>2. \A i : ~Submitting(i) /\ ~Queued(i)
    BY DEF Init, Submitting, Queued, Resting
  <1>3. NoWedgedKey /\ JobHoldsKey /\ SubmitterHasRow /\ WorkerHasJob
    BY <1>2 DEF Init, NoWedgedKey, JobHoldsKey, SubmitterHasRow, WorkerHasJob, HasJob, Ids, Resting
  <1>4. OnePlace
    BY <1>2 DEF Init, OnePlace, Resting
  <1>5. QED
    BY <1>1, <1>3, <1>4 DEF IInv, JobInv

\* every step keeps it,
LEMMA NextKeepsInv == ASSUME IInv, [Next]_vars PROVE IInv'
  <1>1. TypeOK' /\ WorkerHasJob'
    BY NextIsTyped DEF IInv, JobInv
  <1>2. SubmitterHasRow' /\ NoWedgedKey' /\ JobHoldsKey' /\ OnePlace'
    BY QuietSteps, TakeKeyStep, SubmitStep, DequeueStep, ReleaseStep, CrashStep
    DEF Next, RequestStep, WorkerStep
  <1>3. QED
    BY <1>1, <1>2 DEF IInv, JobInv

\* and with it two passes never share a key.
LEMMA InvImpliesOnePass == IInv => OnePassPerKey
  BY DEF IInv, JobInv, OnePassPerKey, OnePlace, JobHoldsKey

\* So it always holds.
LEMMA SpecKeepsInv == Spec => []IInv
  BY InitIsInv, NextKeepsInv, PTL DEF Spec

\* Every variable of the service keeps its type (the tables' columns, the
\* _inflight map, the executor's queue, the threads' positions).
THEOREM TypeCorrect == Spec => []TypeOK
  <1>1. IInv => TypeOK
    BY DEF IInv
  <1>2. QED
    BY <1>1, SpecKeepsInv, PTL

\* Whatever the threads interleave and wherever the process dies or the
\* database raises, no key in _inflight is left without a job to pop it.
THEOREM KeysAreNeverWedged == Spec => []NoWedgedKey
  <1>1. IInv => NoWedgedKey
    BY DEF IInv, JobInv
  <1>2. QED
    BY <1>1, SpecKeepsInv, PTL

\* Deduplication: never two passes under one key, never one pass twice.
THEOREM KeysAreExclusive == Spec => []OnePassPerKey
  BY InvImpliesOnePass, SpecKeepsInv, PTL

-----------------------------------------------------------------------------
(* Rows. A row's status tells where its pass stands, so no step writes the  *)
(* status of a pass that already ended.                                     *)

\* Steps that touch neither a row nor a job.
LEMMA QuietRows ==
  ASSUME IInv, RowInv, SameSubmitters, UNCHANGED <<status, key, last, queue, at, job>>,
         \/ up /\ up'
         \/ UNCHANGED <<up, caller>>
  PROVE  RowInv'
  <1>1. \A i : (Submitting(i)' <=> Submitting(i)) /\ (Queued(i)' <=> Queued(i))
    BY DEF SameSubmitters, Submitting, Queued
  <1>2. QED
    BY <1>1 DEF RowInv

\* Requests leave rows as far as their passes have come,
LEMMA RequestKeepsRows ==
  ASSUME IInv, RowInv, NEW p \in Threads, RequestStep(p)
  PROVE  RowInv'
  <1> USE DEF IInv, JobInv
  <1>1. CASE AlreadyRunning(p) \/ GiveUp(p)
    <2>1. Resting \in CallerState /\ Resting.at # "submit"
      BY RestingIsACaller DEF Resting
    <2>2. SameSubmitters
      BY <1>1, <2>1, AfterKeyIsACaller, OffSubmit DEF AlreadyRunning, GiveUp
    <2>3. QED
      BY <1>1, <2>2, QuietRows DEF AlreadyRunning, GiveUp, dbVars
  <1>2. CASE TakeKey(p)
    <2> DEFINE i == last + 1
    <2>0. /\ last \in 0 .. MaxRows /\ last < MaxRows
      BY <1>2 DEF TakeKey, TypeOK
    <2>inIds. i \in Ids /\ last \in Nat
      BY <2>0, BoundsAreNat DEF Ids
    <2>1. /\ up' = up /\ up
          /\ i \in Ids /\ last \in 0 .. MaxRows
          /\ last' = i
          /\ status' = [status EXCEPT ![i] = "pending"]
          /\ key' = [key EXCEPT ![i] = CallerKey(p)]
          /\ caller' = [caller EXCEPT ![p].at = "submit", ![p].id = i]
          /\ UNCHANGED <<queue, at, job>>
      BY <1>2, <2>0, <2>inIds DEF TakeKey
    <2>2. /\ caller'[p].at = "submit" /\ caller'[p].id = i
          /\ \A q \in Threads : q # p => caller'[q] = caller[q]
      BY <2>1 DEF TypeOK, CallerState
    <2>3. job # i
      BY <2>1 DEF HasJob, JobHoldsKey
    <2>4. \A j \in Ids : (Queued(j) \/ Submitting(j))' => Queued(j) \/ Submitting(j) \/ j = i
      BY <2>1, <2>2 DEF Queued, Submitting
    <2>5. \A j \in Ids : j # i => status'[j] = status[j] /\ key'[j] = key[j]
      BY <2>1 DEF TypeOK
    <2>6. status'[i] = "pending"
      BY <2>1 DEF TypeOK
    <2>7. \A j \in Ids : j > last' => status'[j] = "none"
      <3>1. \A j \in Ids : j > last' => j > last /\ j # i
        BY <2>1, <2>inIds, BoundsAreNat DEF Ids
      <3>2. QED
        BY <3>1, <2>5 DEF RowInv
    <2>8. \A j \in Ids : (Queued(j) \/ Submitting(j))' => status'[j] = "pending"
      BY <2>4, <2>5, <2>6 DEF RowInv
    <2>9. at \notin {"idle", "chain"} => status'[job] = status[job] /\ key'[job] = key[job]
      BY <2>3, <2>5, JobIsARow
    <2>10. QED
      BY <2>1, <2>7, <2>8, <2>9 DEF RowInv
  <1>3. CASE Submit(p)
    <2>1. /\ up' = up /\ up
          /\ queue' = Append(queue, caller[p].id)
          /\ caller' = [caller EXCEPT ![p] = AfterKey(p)]
          /\ caller[p].at = "submit"
          /\ UNCHANGED <<status, key, last, at, job>>
      BY <1>3 DEF Submit, dbVars
    <2>2. caller[p].id \in Ids
      BY <2>1, BoundsAreNat DEF SubmitterHasRow, TypeOK, CallerState, Ids
    <2>3. \A j : Queued(j)' => Queued(j) \/ Submitting(j)
      <3>1. /\ Len(queue') = Len(queue) + 1
            /\ Len(queue) \in Nat
            /\ queue'[Len(queue) + 1] = caller[p].id
            /\ \A n \in 1 .. Len(queue) : queue'[n] = queue[n]
        BY <2>1, <2>2 DEF TypeOK
      <3>2. QED
        BY <2>1, <3>1 DEF Queued, Submitting
    <2>4. \A j : Submitting(j)' => Submitting(j)
      BY <2>1, AfterKeyIsACaller DEF Submitting, TypeOK
    <2>5. QED
      BY <2>1, <2>3, <2>4 DEF RowInv
  <1>4. QED
    BY <1>1, <1>2, <1>3 DEF RequestStep

\* The worker writes only its own pass's row.
LEMMA WorkerKeepsRows ==
  ASSUME IInv, RowInv, WorkerStep
  PROVE  RowInv'
  <1> USE DEF IInv, JobInv
  <1>1. CASE Dequeue
    <2>1. /\ up /\ up' = up
          /\ queue # <<>> /\ job' = Head(queue) /\ queue' = Tail(queue) /\ at' = "begin"
          /\ UNCHANGED <<caller, status, key, last>>
      BY <1>1 DEF Dequeue, dbVars
    <2>2. /\ Len(queue) \in Nat \ {0}
          /\ Len(queue') = Len(queue) - 1
          /\ queue[1] = job' /\ job' \in Ids
          /\ \A n \in 1 .. Len(queue') : queue'[n] = queue[n + 1]
      BY <2>1 DEF TypeOK
    <2>3. Queued(job')
      BY <2>2 DEF Queued
    <2>4. \A j : Queued(j)' => Queued(j)
      BY <2>2 DEF Queued
    <2>5. \A j : Submitting(j)' <=> Submitting(j)
      BY <2>1 DEF Submitting
    <2>6. QED
      BY <2>1, <2>2, <2>3, <2>4, <2>5 DEF RowInv
  <1>2. CASE ChainEntrySignals
    <2>1. StartEntrySignals(Worker, {}) /\ Worker \in Threads /\ {} \in SUBSET Tickers
      BY <1>2 DEF ChainEntrySignals, Threads
    <2>2. SameSubmitters
      BY <2>1, StartEntryKeepsSubmitters
    <2>3. \A i : (Submitting(i)' <=> Submitting(i)) /\ (Queued(i)' <=> Queued(i))
      BY <2>1, <2>2 DEF SameSubmitters, Submitting, Queued, StartEntrySignals
    <2>4. QED
      BY <1>2, <2>1, <2>3 DEF RowInv, ChainEntrySignals, StartEntrySignals, dbVars
  <1>3. CASE Release
    <2>1. \A i : (Submitting(i)' <=> Submitting(i)) /\ (Queued(i)' <=> Queued(i))
      BY <1>3 DEF Submitting, Queued, Release
    <2>2. QED
      BY <1>3, <2>1 DEF RowInv, Release, dbVars
  <1>4. CASE \/ Begin \/ Turn \/ GraphError \/ PauseForApproval
             \/ \E result \in {"ok", "invalid"} : Persist(result)
             \/ PersistSignals \/ Fail
    <2>1. /\ up /\ up' = up /\ at \notin {"idle", "chain"}
          /\ UNCHANGED <<caller, queue, job, key, last>>
      BY <1>4 DEF Begin, Turn, GraphError, PauseForApproval, Persist, PersistSignals, Fail, dbVars
    <2>2. job \in Ids
      BY <2>1, JobIsARow
    <2>3. \A j \in Ids : j # job => status'[j] = status[j]
      BY <1>4, <2>2
      DEF Begin, Turn, GraphError, PauseForApproval, Persist, PersistSignals, Fail, dbVars, TypeOK
    <2>4. \A i \in Ids : Submitting(i)' \/ Queued(i)' => (Submitting(i) \/ Queued(i)) /\ i # job
      BY <2>1 DEF Submitting, Queued, OnePlace
    <2>5. job <= last
      BY <2>2 DEF HasJob, JobHoldsKey
    <2>6. /\ \A i \in Ids : i > last' => status'[i] = "none"
          /\ \A i \in Ids : (Queued(i) \/ Submitting(i))' => status'[i] = "pending"
          /\ up'
      <3>1. \A i \in Ids : i > last => i # job
        BY <2>2, <2>5 DEF TypeOK, Ids
      <3>2. QED
        BY <2>1, <2>3, <2>4, <3>1 DEF RowInv
    <2>7. /\ at' = "begin" => status'[job] = "pending"
          /\ at' = "turns" => status'[job] = "running"
          /\ at' = "capped" => status'[job] = "running"
          /\ at' = "error" => status'[job] \in Live \/ key[job] \notin Reports
          /\ at' = "signals" => status'[job] \in Terminal /\ key[job] \notin Reports
      <3>1. CASE Begin
        BY <2>2, <3>1 DEF Begin, RowInv, TypeOK, Live
      <3>2. CASE Turn \/ GraphError \/ PauseForApproval
        BY <2>2, <3>2 DEF Turn, GraphError, PauseForApproval, RowInv, dbVars, Live
      <3>3. ASSUME NEW result \in {"ok", "invalid"}, Persist(result)
            PROVE  /\ at' = "begin" => status'[job] = "pending"
                   /\ at' = "turns" => status'[job] = "running"
                   /\ at' = "capped" => status'[job] = "running"
                   /\ at' = "error" => status'[job] \in Live \/ key[job] \notin Reports
                   /\ at' = "signals" => status'[job] \in Terminal /\ key[job] \notin Reports
        BY <2>2, <3>3 DEF Persist, RowInv, TypeOK, Live, Terminal
      <3>4. CASE PersistSignals
        BY <3>4 DEF PersistSignals, RowInv, dbVars
      <3>5. CASE Fail
        BY <3>5 DEF Fail
      <3>6. QED
        BY <1>4, <3>1, <3>2, <3>3, <3>4, <3>5
    <2>8. QED
      BY <2>1, <2>6, <2>7 DEF RowInv
  <1>5. QED
    BY <1>1, <1>2, <1>3, <1>4 DEF WorkerStep

\* and so does every step.
LEMMA NextKeepsRows == ASSUME IInv, RowInv, [Next]_vars PROVE RowInv'
  <1> USE DEF IInv, JobInv
  <1>1. ASSUME NEW p \in Requests, NEW k \in Reports, StartAnalysis(p, k)
        PROVE  RowInv'
    <2>1. SameSubmitters
      BY <1>1 DEF StartAnalysis, SameSubmitters, AtLock, TypeOK, Threads
    <2>2. QED
      BY <1>1, <2>1, QuietRows DEF StartAnalysis, dbVars
  <1>2. ASSUME NEW p \in Requests, NEW only \in SUBSET Tickers, RequestEntrySignals(p, only)
        PROVE  RowInv'
    <2>1. StartEntrySignals(p, only) /\ p \in Threads
      BY <1>2 DEF RequestEntrySignals, Threads
    <2>2. SameSubmitters
      BY <2>1, StartEntryKeepsSubmitters
    <2>3. up /\ up' /\ UNCHANGED <<status, key, last, queue, at, job>>
      BY <1>2, <2>1 DEF StartEntrySignals, RequestEntrySignals, dbVars
    <2>4. QED
      BY <2>2, <2>3, QuietRows
  <1>3. CASE \/ \E t \in Tickers, s \in {"live", "closed"} : EditWatch(t, s)
             \/ NewDay \/ UNCHANGED vars
    <2>1. UNCHANGED <<up, caller, status, key, last, queue, at, job>>
      BY <1>3 DEF EditWatch, NewDay, vars, dbVars, memVars
    <2>2. QED
      BY <2>1, QuietRows DEF SameSubmitters
  <1>4. CASE Crash
    <2>1. \A i : ~Submitting(i)' /\ ~Queued(i)'
      BY <1>4 DEF Crash, Submitting, Queued, Resting
    <2>2. QED
      BY <1>4, <2>1 DEF Crash, RowInv, Resting, dbVars
  <1>5. CASE Startup
    <2>1. \A i : ~Submitting(i)' /\ ~Queued(i)'
      BY <1>5 DEF Startup, RowInv, Submitting, Queued, memVars
    <2>2. \A i \in Ids : i > last => status'[i] = "none"
      BY <1>5 DEF Startup, RowInv, Reaped, Live, TypeOK
    <2>3. at' \in {"idle", "chain"}
      BY <1>5 DEF Startup, RowInv, WorkerHasJob, memVars
    <2>4. QED
      BY <1>5, <2>1, <2>2, <2>3 DEF Startup, RowInv, memVars
  <1>6. QED
    BY <1>1, <1>2, <1>3, <1>4, <1>5, RequestKeepsRows, WorkerKeepsRows DEF Next

\* The rows always are as far as their passes have come.
LEMMA SpecKeepsRows == Spec => [](IInv /\ RowInv)
  <1>1. Init => RowInv
    BY DEF Init, RowInv, Submitting, Queued, Resting
  <1>2. QED
    BY <1>1, InitIsInv, NextKeepsInv, NextKeepsRows, PTL DEF Spec

\* A step rewrites a finished row only when the running entry pass fails to store its signals.
LEMMA FinishedRowsStep ==
  ASSUME IInv, RowInv, Next, NEW i \in Ids, status[i] \in Terminal
  PROVE  \/ status'[i] = status[i]
         \/ i = job /\ key[i] \notin Reports /\ status'[i] = "error"
  <1> USE DEF IInv, JobInv
  <1>1. ASSUME NEW p \in Threads, RequestStep(p)
        PROVE  status'[i] = status[i]
    <2>1. CASE TakeKey(p)
      <3>1. last \in 0 .. MaxRows /\ last < MaxRows
        BY <2>1 DEF TakeKey, TypeOK
      <3>2. last + 1 \in Ids /\ last + 1 > last
        BY <3>1, BoundsAreNat DEF Ids
      <3>3. i # last + 1
        BY <3>2 DEF RowInv, Terminal
      <3>4. QED
        BY <2>1, <3>3 DEF TakeKey, TypeOK
    <2>2. QED
      BY <1>1, <2>1 DEF RequestStep, AlreadyRunning, GiveUp, Submit, dbVars
  <1>2. CASE \/ Dequeue \/ Turn \/ GraphError \/ PauseForApproval \/ PersistSignals
             \/ Release \/ ChainEntrySignals
    BY <1>2 DEF Dequeue, Turn, GraphError, PauseForApproval, PersistSignals, Release,
                ChainEntrySignals, StartEntrySignals, dbVars
  <1>3. CASE Begin
    <2>1. i # job
      BY <1>3 DEF Begin, RowInv, Terminal
    <2>2. QED
      BY <1>3, <2>1 DEF Begin, TypeOK
  <1>4. ASSUME NEW result \in {"ok", "invalid"}, Persist(result)
        PROVE  status'[i] = status[i]
    <2>1. i # job
      BY <1>4 DEF Persist, RowInv, Terminal
    <2>2. QED
      BY <1>4, <2>1 DEF Persist, TypeOK
  <1>5. CASE Fail
    <2>1. at \in {"capped", "error"} /\ (i = job => at = "error" /\ key[job] \notin Reports)
      BY <1>5 DEF Fail, RowInv, Terminal, Live
    <2>2. status' = status \/ status' = [status EXCEPT ![job] = at]
      BY <1>5 DEF Fail
    <2>3. QED
      BY <2>1, <2>2 DEF TypeOK
  <1>6. CASE Startup
    BY <1>6 DEF Startup, Reaped, Live, Terminal
  <1>7. CASE \/ \E p \in Requests, k \in Reports : StartAnalysis(p, k)
             \/ \E p \in Requests, only \in SUBSET Tickers : RequestEntrySignals(p, only)
             \/ \E t \in Tickers, s \in {"live", "closed"} : EditWatch(t, s)
             \/ Crash \/ NewDay
    BY <1>7 DEF StartAnalysis, RequestEntrySignals, StartEntrySignals, EditWatch, Crash,
                NewDay, dbVars
  <1>8. QED
    BY <1>1, <1>2, <1>3, <1>4, <1>5, <1>6, <1>7 DEF Next, WorkerStep

\* A finished row is never reopened or rewritten, whatever crashes, restarts
\* or fails, except an entry pass whose signals could not be stored.
THEOREM FinishedRowsStay == Spec => FinishedStaysFinished
  <1>1. IInv /\ RowInv /\ [Next]_vars
          => [\A i \in Ids : status[i] \in Terminal =>
                \/ status'[i] = status[i]
                \/ i = job /\ key[i] \notin Reports /\ status'[i] = "error"]_vars
    BY FinishedRowsStep
  <1>2. QED
    BY <1>1, SpecKeepsRows, PTL DEF Spec, FinishedStaysFinished

-----------------------------------------------------------------------------
(* Without database errors and approval pauses: nothing is stuck, and the   *)
(* service does what PassLedger promises.                                   *)

LEMMA NothingRaises == ASSUME TypeOK, NoInterference PROVE ~Raises
  BY DEF TypeOK, NoInterference, Raises

\* Undisturbed, the worker ends every pass it takes up,
LEMMA CleanWorker ==
  ASSUME IInv, RowInv, CleanInv, NoInterference, WorkerStep
  PROVE  CleanInv'
  <1> USE DEF IInv, JobInv
  <1>0. ~Raises
    BY NothingRaises
  <1>1. CASE Dequeue
    BY <1>1 DEF Dequeue, CleanInv, dbVars
  <1>2. CASE ChainEntrySignals
    BY <1>2 DEF ChainEntrySignals, StartEntrySignals, CleanInv, dbVars
  <1>3. CASE Release
    <2>1. job \in Ids /\ status[job] \in Terminal
      BY <1>3, JobIsARow DEF Release, CleanInv
    <2>2. \A i \in Ids : status[i] \in Live => inflight[key[i]] = i /\ i # job
      BY <1>3, <2>1 DEF Release, CleanInv, Live, Terminal
    <2>3. inflight[key[job]] = job
      BY <2>1 DEF JobHoldsKey, HasJob
    <2>4. \A i \in Ids : status[i] \in Live => key[i] # key[job]
      BY <2>2, <2>3
    <2>5. \A i \in Ids : status[i] \in Live => inflight'[key[i]] = i
      BY <1>3, <2>2, <2>4 DEF Release, Popped, TypeOK
    <2>6. QED
      BY <1>3, <2>5 DEF Release, CleanInv, dbVars
  <1>4. CASE \/ Begin \/ Turn \/ GraphError \/ PauseForApproval
             \/ \E result \in {"ok", "invalid"} : Persist(result)
             \/ PersistSignals \/ Fail
    <2>1. /\ up /\ up' = up /\ at \notin {"idle", "chain"}
          /\ UNCHANGED <<inflight, job, key>>
      BY <1>4 DEF Begin, Turn, GraphError, PauseForApproval, Persist, PersistSignals, Fail, dbVars
    <2>2. job \in Ids /\ inflight[key[job]] = job
      BY <2>1, JobIsARow DEF JobHoldsKey, HasJob
    <2>3. \A i \in Ids : i # job => status'[i] = status[i]
      BY <1>4, <2>2
      DEF Begin, Turn, GraphError, PauseForApproval, Persist, PersistSignals, Fail, dbVars, TypeOK
    <2>4. \A i \in Ids : status'[i] \in Live => inflight'[key'[i]] = i
      BY <2>1, <2>2, <2>3 DEF CleanInv
    <2>5. /\ at' # "unwind"
          /\ at' = "error" => status'[job] = "running"
          /\ at' = "release" => status'[job] \in Terminal
      <3>1. CASE Begin
        BY <1>0, <2>2, <3>1 DEF Begin, TypeOK
      <3>2. CASE Turn \/ GraphError
        BY <3>2 DEF Turn, GraphError, RowInv, dbVars
      <3>3. CASE PauseForApproval
        BY <3>3 DEF PauseForApproval, NoInterference
      <3>4. CASE \E result \in {"ok", "invalid"} : Persist(result)
        BY <1>0, <2>2, <3>4 DEF Persist, TypeOK, Terminal
      <3>5. CASE PersistSignals
        BY <1>0, <3>5 DEF PersistSignals, RowInv, dbVars
      <3>6. CASE Fail
        BY <1>0, <2>2, <3>6 DEF Fail, TypeOK, Terminal
      <3>7. QED
        BY <1>4, <3>1, <3>2, <3>3, <3>4, <3>5, <3>6
    <2>6. QED
      BY <2>1, <2>4, <2>5 DEF CleanInv
  <1>5. QED
    BY <1>1, <1>2, <1>3, <1>4 DEF WorkerStep

\* and no step leaves a live row without a job.
LEMMA NextKeepsClean ==
  ASSUME IInv, RowInv, CleanInv, NoInterference, [Next]_vars
  PROVE  CleanInv'
  <1> USE DEF IInv, JobInv
  <1>1. ASSUME NEW p \in Threads, TakeKey(p)
        PROVE  CleanInv'
    <2>1. last \in 0 .. MaxRows /\ last < MaxRows
      BY <1>1 DEF TakeKey, TypeOK
    <2>2. last + 1 \in Ids /\ last + 1 > last
      BY <2>1, BoundsAreNat DEF Ids
    <2>3. CallerKey(p) \in Keys /\ inflight[CallerKey(p)] = 0
      BY <1>1, CallerKeyIsAKey DEF TakeKey, Busy
    <2>4. job # last + 1
      BY <2>1, <2>2 DEF HasJob, JobHoldsKey
    <2>5. /\ key' = [key EXCEPT ![last + 1] = CallerKey(p)]
          /\ inflight' = [inflight EXCEPT ![CallerKey(p)] = last + 1]
          /\ status' = [status EXCEPT ![last + 1] = "pending"]
          /\ UNCHANGED <<up, at, job>> /\ up
      BY <1>1 DEF TakeKey
    <2> HIDE DEF CallerKey
    <2>6. ASSUME NEW i \in Ids, status'[i] \in Live
          PROVE  inflight'[key'[i]] = i
      <3>1. CASE i = last + 1
        BY <2>2, <2>3, <2>5, <3>1 DEF TypeOK
      <3>2. CASE i # last + 1
        <4>1. inflight[key[i]] = i /\ i # 0 /\ key'[i] = key[i]
          BY <2>5, <2>6, <3>2 DEF CleanInv, TypeOK, Ids
        <4>2. key[i] # CallerKey(p)
          BY <2>3, <4>1
        <4>3. QED
          BY <2>5, <4>1, <4>2 DEF TypeOK
      <3>3. QED
        BY <3>1, <3>2
    <2>7. status'[job] = status[job]
      BY <2>4, <2>5 DEF TypeOK
    <2>8. QED
      BY <2>5, <2>6, <2>7 DEF CleanInv
  <1>2. CASE \/ \E p \in Requests, k \in Reports : StartAnalysis(p, k)
             \/ \E p \in Requests, only \in SUBSET Tickers : RequestEntrySignals(p, only)
             \/ \E p \in Threads : AlreadyRunning(p) \/ GiveUp(p) \/ Submit(p)
             \/ \E t \in Tickers, s \in {"live", "closed"} : EditWatch(t, s)
             \/ NewDay \/ UNCHANGED vars
    <2>1. UNCHANGED <<up, status, key, inflight, at, job>>
      BY <1>2 DEF StartAnalysis, RequestEntrySignals, StartEntrySignals, AlreadyRunning,
                  GiveUp, Submit, EditWatch, NewDay, vars, dbVars, memVars
    <2>2. QED
      BY <2>1 DEF CleanInv
  <1>3. CASE Crash
    BY <1>3 DEF Crash, CleanInv
  <1>4. CASE Startup
    <2>1. ~Raises
      BY NothingRaises
    <2>2. \A i \in Ids : status'[i] \notin Live
      BY <1>4, <2>1 DEF Startup, Reaped, Live
    <2>3. at' \in {"idle", "chain"}
      BY <1>4 DEF Startup, RowInv, WorkerHasJob, memVars
    <2>4. QED
      BY <2>2, <2>3 DEF CleanInv
  <1>5. QED
    BY <1>1, <1>2, <1>3, <1>4, CleanWorker DEF Next, RequestStep

\* So undisturbed no live row is ever without one.
LEMMA SpecKeepsClean == ASSUME NoInterference PROVE Spec => [](IInv /\ RowInv /\ CleanInv)
  <1>1. Init => CleanInv
    BY DEF Init, CleanInv, Live
  <1>2. IInv /\ RowInv /\ CleanInv /\ [Next]_vars => CleanInv'
    BY NextKeepsClean
  <1>3. QED
    BY <1>1, <1>2, SpecKeepsRows, PTL DEF Spec

\* "The row must never stay pending": as long as the app serves, a pending or
\* running row has a job, unless a database error or an approval pause
\* interfered.
THEOREM NothingIsStuck == ASSUME NoInterference PROVE Spec => []LiveRowHasJob
  <1>1. IInv /\ CleanInv => LiveRowHasJob
    <2> SUFFICES ASSUME IInv, CleanInv, up, NEW i \in Ids, status[i] \in Live
                 PROVE  HasJob(i)
      BY DEF LiveRowHasJob
    <2>1. inflight[key[i]] = i /\ i # 0 /\ key[i] \in Keys
      BY DEF CleanInv, IInv, TypeOK, Ids
    <2>2. QED
      BY <2>1 DEF IInv, JobInv, NoWedgedKey
  <1>2. QED
    BY <1>1, SpecKeepsClean, PTL

\* The map of a changed row is the changed map.
LEMMA StageOfOneRow ==
  ASSUME TypeOK, NEW i \in Ids, NEW s, status' = [status EXCEPT ![i] = s]
  PROVE  [j \in Ids |-> StageOf(status'[j])]
           = [[j \in Ids |-> StageOf(status[j])] EXCEPT ![i] = StageOf(s)]
  BY DEF TypeOK

\* The stages of the ledger that the statuses stand for.
LEMMA StagesOf ==
  /\ StageOf("none") = "absent"
  /\ StageOf("pending") = "accepted"
  /\ StageOf("running") = "started"
  /\ \A s \in Terminal : StageOf(s) = "ended"
  BY DEF StageOf, Terminal

\* A row inserted under the lock is a pass accepted,
LEMMA AcceptStep ==
  ASSUME IInv, RowInv, NEW p \in Threads, TakeKey(p)
  PROVE  Ledger!LedgerNext
  <1> USE DEF IInv, JobInv
  <1> DEFINE i == last + 1
             k == CallerKey(p)
  <1>1. last \in 0 .. MaxRows /\ last < MaxRows
    BY DEF TakeKey, TypeOK
  <1>2. i \in Ids /\ i > last
    BY <1>1, BoundsAreNat DEF Ids
  <1>3. status[i] = "none"
    BY <1>2 DEF RowInv
  <1>4. k \in Keys /\ inflight[k] = 0
    BY CallerKeyIsAKey DEF TakeKey, Busy
  <1>5. /\ up /\ up' = up
        /\ status' = [status EXCEPT ![i] = "pending"]
        /\ inflight' = [inflight EXCEPT ![k] = i]
    BY DEF TakeKey
  <1> HIDE DEF i, k
  <1>6. [j \in Ids |-> StageOf(status'[j])]
          = [[j \in Ids |-> StageOf(status[j])] EXCEPT ![i] = "accepted"]
    BY <1>2, <1>5, StageOfOneRow, StagesOf
  <1>7. Ledger!Accept(k, i)
    BY <1>2, <1>3, <1>4, <1>5, <1>6, StagesOf DEF Ledger!Accept
  <1>8. QED
    BY <1>2, <1>4, <1>7 DEF Ledger!LedgerNext

\* The worker moves its pass one stage on.
LEMMA AdvanceStep ==
  ASSUME IInv, RowInv, NEW s \in {"running"} \cup Terminal, at \notin {"idle", "chain"},
         up, UNCHANGED <<up, inflight>>,
         status' = [status EXCEPT ![job] = s],
         IF s = "running" THEN status[job] = "pending" ELSE status[job] = "running"
  PROVE  Ledger!LedgerNext
  <1> USE DEF IInv, JobInv
  <1>1. job \in Ids /\ inflight[key[job]] = job /\ key[job] \in Keys
    BY JobIsARow DEF JobHoldsKey, HasJob, TypeOK
  <1>2. [j \in Ids |-> StageOf(status'[j])]
          = [[j \in Ids |-> StageOf(status[j])] EXCEPT ![job] = StageOf(s)]
    BY <1>1, StageOfOneRow
  <1>3. /\ StageOf(s) \in {"absent", "accepted", "started", "ended"}
        /\ <<StageOf(status[job]), StageOf(s)>>
              \in {<<"accepted", "started">>, <<"accepted", "ended">>, <<"started", "ended">>}
    BY StagesOf
  <1>4. Ledger!Advance(key[job], job, StageOf(s))
    BY <1>1, <1>2, <1>3 DEF Ledger!Advance
  <1>5. QED
    BY <1>1, <1>3, <1>4 DEF Ledger!LedgerNext, Ledger!Stages

\* a key popped is a pass freed,
LEMMA FreeStep ==
  ASSUME IInv, CleanInv, Release
  PROVE  Ledger!LedgerNext
  <1> USE DEF IInv, JobInv
  <1>1. job \in Ids /\ status[job] \in Terminal
    BY JobIsARow DEF Release, CleanInv
  <1>2. inflight[key[job]] = job /\ job # 0 /\ key[job] \in Keys
    BY <1>1 DEF JobHoldsKey, HasJob, TypeOK, Ids
  <1>3. /\ up /\ up' = up /\ status' = status
        /\ inflight' = [inflight EXCEPT ![key[job]] = 0]
    BY DEF Release, Popped, dbVars
  <1>4. Ledger!Free(key[job])
    BY <1>1, <1>2, <1>3, StagesOf DEF Ledger!Free
  <1>5. QED
    BY <1>2, <1>4 DEF Ledger!LedgerNext

\* a restart that reaps is the ledger's resumption,
LEMMA ResumeStep ==
  ASSUME IInv, NoInterference, Startup
  PROVE  Ledger!LedgerNext
  <1> USE DEF IInv
  <1>1. /\ ~up /\ up' /\ inflight' = inflight
        /\ status' = [i \in Ids |-> Reaped(status[i])]
    BY NothingRaises DEF Startup, memVars
  <1>2. ASSUME NEW i \in Ids
        PROVE  StageOf(Reaped(status[i]))
                 = IF StageOf(status[i]) \in {"accepted", "started"} THEN "ended"
                   ELSE StageOf(status[i])
    <2>1. status[i] \in {"none"} \cup Live \cup Terminal
      BY DEF TypeOK
    <2>2. QED
      BY <2>1, StagesOf DEF Reaped, Live, Terminal
  <1>3. [i \in Ids |-> StageOf(status'[i])]
          = [i \in Ids |-> IF [j \in Ids |-> StageOf(status[j])][i] \in {"accepted", "started"}
                           THEN "ended" ELSE [j \in Ids |-> StageOf(status[j])][i]]
    BY <1>1, <1>2
  <1>4. Ledger!Resume
    BY <1>1, <1>3 DEF Ledger!Resume, Ledger!Open
  <1>5. QED
    BY <1>4 DEF Ledger!LedgerNext

\* and every step is one of the ledger or a stutter.
LEMMA LedgerStep ==
  ASSUME IInv, RowInv, CleanInv, NoInterference, [Next]_vars
  PROVE  [Ledger!LedgerNext]_(Ledger!ledgerVars)
  <1> USE DEF IInv, JobInv
  <1>0. ~Raises
    BY NothingRaises
  <1>1. ASSUME UNCHANGED <<up, status, inflight>>
        PROVE  UNCHANGED Ledger!ledgerVars
    BY <1>1 DEF Ledger!ledgerVars
  <1>2. CASE \/ \E p \in Requests, k \in Reports : StartAnalysis(p, k)
             \/ \E p \in Requests, only \in SUBSET Tickers : RequestEntrySignals(p, only)
             \/ \E p \in Threads : AlreadyRunning(p) \/ GiveUp(p) \/ Submit(p)
             \/ \E t \in Tickers, s \in {"live", "closed"} : EditWatch(t, s)
             \/ NewDay \/ UNCHANGED vars
    <2>1. UNCHANGED <<up, status, inflight>>
      BY <1>2 DEF StartAnalysis, RequestEntrySignals, StartEntrySignals, AlreadyRunning,
                  GiveUp, Submit, EditWatch, NewDay, vars, dbVars, memVars
    <2>2. QED
      BY <1>1, <2>1
  <1>3. CASE \/ Dequeue \/ Turn \/ GraphError \/ PauseForApproval
             \/ PersistSignals \/ ChainEntrySignals
    <2>1. UNCHANGED <<up, status, inflight>>
      BY <1>3 DEF Dequeue, Turn, GraphError, PauseForApproval, PersistSignals,
                  ChainEntrySignals, StartEntrySignals, dbVars
    <2>2. QED
      BY <1>1, <2>1
  <1>4. CASE Begin
    BY <1>0, <1>4, AdvanceStep DEF Begin, RowInv
  <1>5. ASSUME NEW result \in {"ok", "invalid"}, Persist(result)
        PROVE  Ledger!LedgerNext
    BY <1>0, <1>5, AdvanceStep DEF Persist, RowInv, Terminal
  <1>6. CASE Fail
    BY <1>0, <1>6, AdvanceStep DEF Fail, RowInv, CleanInv, Terminal
  <1>7. CASE Release
    BY <1>7, FreeStep
  <1>8. CASE Crash
    BY <1>8 DEF Crash, dbVars, Ledger!Stop, Ledger!LedgerNext
  <1>9. CASE Startup
    BY <1>9, ResumeStep
  <1>10. ASSUME NEW p \in Threads, TakeKey(p)
         PROVE  Ledger!LedgerNext
    BY <1>10, AcceptStep
  <1>11. QED
    BY <1>2, <1>3, <1>4, <1>5, <1>6, <1>7, <1>8, <1>9, <1>10
    DEF Next, RequestStep, WorkerStep

\* Refinement: without database errors and approval pauses the service is an
\* implementation of PassLedger, whatever the threads interleave and wherever
\* the process dies.
THEOREM ServiceImplementsLedger == ASSUME NoInterference PROVE Spec => ImplementsLedger
  <1>1. Init => Ledger!LedgerInit
    BY StagesOf DEF Init, Ledger!LedgerInit
  <1>2. IInv /\ RowInv /\ CleanInv /\ [Next]_vars
          => [Ledger!LedgerNext]_(Ledger!ledgerVars)
    BY LedgerStep
  <1>3. QED
    BY <1>1, <1>2, SpecKeepsClean, PTL DEF Spec, ImplementsLedger, Ledger!LedgerSpec

-----------------------------------------------------------------------------
(* The grounding of a draft *)

(* The critic's marks are monotone, operator by operator. *)

LEMMA MarksOnlyStrike ==
  ASSUME NEW d, NEW e, NEW marks
  PROVE  Stands(d, e, marks) \subseteq Stands(d, e, {})
  BY DEF Stands, Taken, Struck

\* Marks leave fewer items and sentences, and strip more.
LEMMA MarksOnlyDrop ==
  ASSUME NEW d, NEW e, NEW marks
  PROVE  /\ KeptItems(d, e, marks) \subseteq KeptItems(d, e, {})
         /\ Kept(d, e, marks) \subseteq Kept(d, e, {})
         /\ Stripped(d, e, {}) \subseteq Stripped(d, e, marks)
<1>1. Stands(d, e, marks) \subseteq Stands(d, e, {})
  BY MarksOnlyStrike
<1>2. \A i : Supports(d, e, i, marks) \subseteq Supports(d, e, i, {})
  BY <1>1 DEF Supports
<1>3. KeptItems(d, e, marks) \subseteq KeptItems(d, e, {})
  BY <1>2 DEF KeptItems
<1> QED
  BY <1>1, <1>3 DEF Kept, Stripped

\* Fewer kept sentences cite less, so fewer numbers are supported.
LEMMA MarksOnlyFlag ==
  ASSUME NEW d, NEW e, NEW marks
  PROVE  BadZones(d, e, {}) \cap KeptItems(d, e, marks) \subseteq BadZones(d, e, marks)
<1>1. \A i : Supports(d, e, i, marks) \subseteq Supports(d, e, i, {})
  BY MarksOnlyStrike DEF Supports
<1>2. \A i : ZoneCites(d, e, i, marks) \subseteq ZoneCites(d, e, i, {})
  BY <1>1 DEF ZoneCites
<1>3. \A i, t : LevelsFor(e, t, ZoneCites(d, e, i, marks))
                  \subseteq LevelsFor(e, t, ZoneCites(d, e, i, {}))
  BY <1>2 DEF LevelsFor
<1>4. \A v, i : Unsupported(v, d, e, i, {}) => Unsupported(v, d, e, i, marks)
  BY <1>3 DEF Unsupported, Grounded
<1> QED
  BY <1>4 DEF BadZones

-----------------------------------------------------------------------------
(* A draft has finitely many sentences. *)

LEMMA FinitelyManyPlaces ==
  ASSUME NEW d \in Draft
  PROVE  IsFiniteSet(Examined(d))
<1>1. PICK n \in 0 .. MaxMarket : d.market \in [1 .. n -> Claim]
  BY DEF Draft, SeqUpTo
<1>2. PICK m \in 0 .. MaxItems : d.items \in [1 .. m -> Item]
  BY DEF Draft, SeqUpTo
<1>3. n \in Int /\ m \in Int
  BY GroundingAssumption
<1>4. IsFiniteSet({<<"market", i, 0>> : i \in DOMAIN d.market})
  <2>1. IsFiniteSet(1 .. n)
    BY <1>3, FS_Interval
  <2>2. DOMAIN d.market = 1 .. n
    BY <1>1
  <2> DEFINE f == [i \in 1 .. n |-> <<"market", i, 0>>]
  <2>3. f \in Surjection(1 .. n, {<<"market", i, 0>> : i \in DOMAIN d.market})
    BY <2>2 DEF Surjection
  <2> QED
    BY <2>1, <2>3, FS_Surjection
<1>5. IsFiniteSet(OnList(d))
  <2>1. IsFiniteSet(1 .. m)
    BY <1>3, FS_Interval
  <2>2. OnList(d) \subseteq 1 .. m
    BY <1>2 DEF OnList
  <2> QED
    BY <2>1, <2>2, FS_Subset
<1>6. \A i \in OnList(d) : IsFiniteSet(RationaleOf(d, i) \cup {InvalidationOf(i)})
  <2> TAKE i \in OnList(d)
  <2>0. d.items[i].rationale \in SeqUpTo(Claim, MaxRationale)
    BY <1>2 DEF OnList, Item
  <2>1. PICK k \in 0 .. MaxRationale : d.items[i].rationale \in [1 .. k -> Claim]
    BY <2>0 DEF SeqUpTo
  <2>2. IsFiniteSet(1 .. k)
    BY GroundingAssumption, FS_Interval
  <2> DEFINE f == [j \in 1 .. k |-> <<"rationale", i, j>>]
  <2>3. f \in Surjection(1 .. k, RationaleOf(d, i))
    BY <2>1 DEF Surjection, RationaleOf
  <2>4. IsFiniteSet(RationaleOf(d, i))
    BY <2>2, <2>3, FS_Surjection
  <2> QED
    BY <2>4, FS_Singleton, FS_Union
<1>7. IsFiniteSet(UNION {RationaleOf(d, i) \cup {InvalidationOf(i)} : i \in OnList(d)})
  <2> DEFINE S == {RationaleOf(d, i) \cup {InvalidationOf(i)} : i \in OnList(d)}
  <2> DEFINE f == [i \in OnList(d) |-> RationaleOf(d, i) \cup {InvalidationOf(i)}]
  <2>1. f \in Surjection(OnList(d), S)
    BY DEF Surjection
  <2>2. IsFiniteSet(S)
    BY <1>5, <2>1, FS_Surjection
  <2>3. \A x \in S : IsFiniteSet(x)
    BY <1>6
  <2> HIDE DEF S
  <2>4. IsFiniteSet(UNION S)
    BY <2>2, <2>3, FS_UNION
  <2> QED
    BY <2>4 DEF S
<1> QED
  BY <1>4, <1>7, FS_Union DEF Examined

\* Marks never lower the count of what was stripped.
LEMMA MarksOnlyCount ==
  ASSUME NEW d \in Draft, NEW e, NEW marks
  PROVE  Validated(d, e, marks).stripped >= Validated(d, e, {}).stripped
<1>1. IsFiniteSet(Stripped(d, e, marks))
  BY FinitelyManyPlaces, FS_Subset DEF Stripped
<1>2. /\ Cardinality(Stripped(d, e, {})) <= Cardinality(Stripped(d, e, marks))
  BY <1>1, MarksOnlyDrop, FS_Subset
<1>3. Cardinality(Stripped(d, e, {})) \in Nat /\ Cardinality(Stripped(d, e, marks)) \in Nat
  BY <1>1, MarksOnlyDrop, FS_Subset, FS_CardinalityType
<1> QED
  BY <1>2, <1>3 DEF Validated
-----------------------------------------------------------------------------
(* The invariant: what is clean was validated as a whole, and every level that
   an item tagged with a ticker holds was shown for that ticker. *)

ShownForTicker ==
  \A id \in DOMAIN pool : Tag(id) \in Ticker => \A v \in pool[id] : <<Tag(id), v>> \in shown

\* The inductive invariant: the analysis is the validated draft, and levels were shown.
GroundingSound ==
  /\ step \in {"gather", "critique", "done"}
  /\ draft \in Draft \cup {NoDraft}
  /\ step # "gather" => draft \in Draft
  /\ step = "done" => clean = Validated(draft, pool, strikes)
  /\ step # "done" => clean = Nothing
  /\ ShownForTicker

\* It holds after the baseline,
LEMMA InitGrounding == GroundingInit => GroundingSound
<1> SUFFICES ASSUME GroundingInit PROVE GroundingSound
  OBVIOUS
<1>1. ShownForTicker
  <2> SUFFICES ASSUME NEW t \in Ticker PROVE \A v \in Latest(t, 1) : <<t, v>> \in shown
    BY DEF GroundingInit, ShownForTicker, ScoresId, Tag
  <2> QED
    BY DEF GroundingInit
<1> QED
  BY <1>1 DEF GroundingInit, GroundingSound

\* every step keeps it,
LEMMA NextGrounding == GroundingSound /\ [GroundingNext]_groundingVars => GroundingSound'
<1> SUFFICES ASSUME GroundingSound, [GroundingNext]_groundingVars PROVE GroundingSound'
  OBVIOUS
<1> USE DEF GroundingSound
<1>1. ASSUME NEW t \in Ticker, NEW span \in DOMAIN Closes[t], PriceWindow(t, span)
      PROVE  GroundingSound'
  <2>1. ShownForTicker'
    <3> SUFFICES ASSUME NEW id \in DOMAIN pool', Tag(id) \in Ticker, NEW v \in pool'[id]
                 PROVE  <<Tag(id), v>> \in shown'
      BY DEF ShownForTicker
    <3>1. CASE id = PricesId(t)
      <4>1. v \in Latest(t, span) /\ Tag(id) = t
        BY <1>1, <3>1 DEF PriceWindow, Put, PricesId, Tag
      <4> QED
        BY <1>1, <4>1 DEF PriceWindow
    <3>2. CASE id # PricesId(t)
      <4>1. id \in DOMAIN pool /\ v \in pool[id]
        BY <1>1, <3>2 DEF PriceWindow, Put
      <4> QED
        BY <1>1, <4>1 DEF PriceWindow, ShownForTicker
    <3> QED
      BY <3>1, <3>2
  <2> QED
    BY <1>1, <2>1 DEF PriceWindow
<1>2. ASSUME NEW v \in CalcValue, Calculate(v) PROVE GroundingSound'
  <2>1. ShownForTicker'
    <3> SUFFICES ASSUME NEW id \in DOMAIN pool', Tag(id) \in Ticker, NEW w \in pool'[id]
                 PROVE  <<Tag(id), w>> \in shown'
      BY DEF ShownForTicker
    <3>1. id # CalcId(v)
      BY GroundingAssumption DEF CalcId, Tag
    <3>2. id \in DOMAIN pool /\ w \in pool[id]
      BY <1>2, <3>1 DEF Calculate, Put
    <3> QED
      BY <1>2, <3>2 DEF Calculate, ShownForTicker
  <2> QED
    BY <1>2, <2>1 DEF Calculate
<1>3. ASSUME NEW d \in Draft, WriteDraft(d) PROVE GroundingSound'
  BY <1>3 DEF WriteDraft, ShownForTicker
<1>4. ASSUME NEW marks, Critique(marks) PROVE GroundingSound'
  BY <1>4 DEF Critique, ShownForTicker
<1>5. CASE UNCHANGED groundingVars
  BY <1>5 DEF groundingVars, ShownForTicker
<1> QED
  BY <1>1, <1>2, <1>3, <1>4, <1>5 DEF GroundingNext

\* and so it always holds.
LEMMA Invariance == GroundingSpec => []GroundingSound
  BY InitGrounding, NextGrounding, PTL DEF GroundingSpec

-----------------------------------------------------------------------------

\* The critic can make an analysis smaller and never better: what it leaves was
\* kept by code alone (graph.py:314, evidence.py:115-129).
THEOREM CriticIsMonotone == GroundingSpec => []CriticOnlyRemoves
<1>1. GroundingSound => CriticOnlyRemoves
  <2> SUFFICES ASSUME GroundingSound, step = "done"
               PROVE  /\ clean.kept \subseteq Validated(draft, pool, {}).kept
                      /\ clean.items \subseteq Validated(draft, pool, {}).items
                      /\ Validated(draft, pool, {}).badZones \cap clean.items
                           \subseteq clean.badZones
                      /\ clean.stripped >= Validated(draft, pool, {}).stripped
    BY DEF CriticOnlyRemoves
  <2>1. clean = Validated(draft, pool, strikes) /\ draft \in Draft
    BY DEF GroundingSound
  <2>2. clean.stripped >= Validated(draft, pool, {}).stripped
    BY <2>1, MarksOnlyCount
  <2> QED
    BY <2>1, <2>2, MarksOnlyDrop, MarksOnlyFlag DEF Validated
<1> QED
  BY <1>1, Invariance, PTL

\* No sentence is kept in the words that the critic marked, except an
\* invalidation written with its label (evidence.py:120, 145, 158).
THEOREM MarksAreHeeded == GroundingSpec => []MarkedIsGone
<1>1. GroundingSound => MarkedIsGone
  <2> SUFFICES ASSUME GroundingSound, NEW p \in clean.kept, Written(At(draft, p)) \in strikes
               PROVE  p[1] = "invalidation" /\ At(draft, p).prefixed
    BY DEF MarkedIsGone
  <2>1. clean = Validated(draft, pool, strikes)
    BY DEF GroundingSound, Nothing
  <2>2. p \in Stands(draft, pool, strikes)
    BY <2>1 DEF Validated, Kept
  <2>3. ~Struck(draft, p, strikes)
    BY <2>2 DEF Stands, Taken
  <2>4. p[1] = "invalidation"
    BY <2>3 DEF Struck, Compared
  <2>5. At(draft, p).prefixed # FALSE
    BY <2>3, <2>4 DEF Struck, Compared, Written
  <2>6. At(draft, p) \in Claim
    <3>1. draft \in Draft /\ p \in Examined(draft)
      BY <2>2 DEF GroundingSound, Nothing, Stands
    <3>2. PICK i \in OnList(draft) : p = InvalidationOf(i)
      BY <2>4, <3>1 DEF Examined, RationaleOf
    <3>3. draft.items \in SeqUpTo(Item, MaxItems) /\ i \in DOMAIN draft.items
      BY <3>1, <3>2 DEF Draft, OnList
    <3>4. draft.items[i] \in Item
      BY <3>3 DEF SeqUpTo
    <3> QED
      BY <2>4, <3>2, <3>4 DEF At, InvalidationOf, Item
  <2> QED
    BY <2>4, <2>5, <2>6, GroundingAssumption
<1> QED
  BY <1>1, Invariance, PTL

\* A zone or stop that is not flagged has a price under every number, for all
\* windows the model asked for and in whatever order (evidence.py:53-68, 162-170).
THEOREM ZonesAreGrounded == GroundingSpec => []ZoneRestsOnEvidence
<1>1. GroundingSound => ZoneRestsOnEvidence
  <2> DEFINE Rests(i, v) ==
        \/ v = 0
        \/ \E s \in shown : s[1] = draft.items[i].ticker /\ Near(v, s[2])
        \/ \E p \in clean.kept \cap RationaleOf(draft, i) :
             \E id \in Cites(draft, pool, p) : Grounded(v, pool[id])
  <2> SUFFICES ASSUME GroundingSound, NEW i \in clean.items, NEW v,
                      ~Unsupported(v, draft, pool, i, strikes),
                      clean = Validated(draft, pool, strikes)
               PROVE  Rests(i, v)
    BY DEF GroundingSound, Nothing, Validated, ZoneRestsOnEvidence, BadZones, BadStops
  <2> SUFFICES ASSUME v # 0 PROVE Rests(i, v)
    OBVIOUS
  <2> DEFINE t == draft.items[i].ticker
  <2>1. PICK level \in LevelsFor(pool, t, ZoneCites(draft, pool, i, strikes)) : Near(v, level)
    BY DEF Unsupported, Grounded
  <2>2. PICK id \in DOMAIN pool :
          /\ level \in pool[id]
          /\ id \in ZoneCites(draft, pool, i, strikes) \/ Tag(id) = t
    BY <2>1 DEF LevelsFor
  <2>3. i \in KeptItems(draft, pool, strikes)
    BY DEF Validated
  <2>4. CASE Tag(id) = t
    <3>1. t \in Ticker
      BY <2>3, GroundingAssumption DEF KeptItems, OnList
    <3>2. <<t, level>> \in shown
      BY <2>2, <2>4, <3>1 DEF GroundingSound, ShownForTicker
    <3> QED
      BY <2>1, <3>2
  <2>5. CASE id \in ZoneCites(draft, pool, i, strikes)
    <3>1. PICK p \in Supports(draft, pool, i, strikes) : id \in Cites(draft, pool, p)
      BY <2>5 DEF ZoneCites
    <3>2. p \in RationaleOf(draft, i) /\ p \in Stands(draft, pool, strikes)
      BY <3>1 DEF Supports
    <3>3. p \in Kept(draft, pool, strikes)
      BY <2>3, <3>2 DEF Kept, RationaleOf
    <3>4. p \in clean.kept
      BY <3>3 DEF Validated
    <3> QED
      BY <2>1, <2>2, <3>1, <3>2, <3>4 DEF Grounded
  <2> QED
    BY <2>2, <2>4, <2>5
<1> QED
  BY <1>1, Invariance, PTL

\* What is lost with its item: of each dropped item at most the invalidation.
Lost(d, e, marks) == Stands(d, e, marks) \ Kept(d, e, marks)

\* A place that is lost is the invalidation of an item without support.
LEMMA LostPlaces ==
  ASSUME NEW d \in Draft, NEW e, NEW marks, NEW p \in Lost(d, e, marks)
  PROVE  \E i \in OnList(d) : p = InvalidationOf(i) /\ Supports(d, e, i, marks) = {}
<1>1. p \in Examined(d) /\ p \in Stands(d, e, marks) /\ p[1] # "market" /\ p[2] \notin KeptItems(d, e, marks)
  BY DEF Lost, Stands, Kept
<1>2. PICK i \in OnList(d) : p \in RationaleOf(d, i) \/ p = InvalidationOf(i)
  BY <1>1 DEF Examined
<1>3. p[2] = i
  BY <1>2 DEF RationaleOf, InvalidationOf
<1>4. Supports(d, e, i, marks) = {}
  BY <1>1, <1>3 DEF KeptItems
<1> QED
  BY <1>1, <1>2, <1>4 DEF Supports

\* No more is lost than was stripped: each dropped item has a stripped sentence.
LEMMA LostIsFew ==
  ASSUME NEW d \in Draft, NEW e, NEW marks,
         \A i \in DOMAIN d.items : d.items[i].rationale # <<>>
  PROVE  /\ IsFiniteSet(Lost(d, e, marks)) /\ IsFiniteSet(Stripped(d, e, marks))
         /\ Cardinality(Lost(d, e, marks)) <= Cardinality(Stripped(d, e, marks))
<1> DEFINE L == Lost(d, e, marks)
           S == Stripped(d, e, marks)
           first == [p \in L |-> <<"rationale", p[2], 1>>]
<1>1. IsFiniteSet(S)
  BY FinitelyManyPlaces, FS_Subset DEF Stripped
<1>2. \A p \in L : first[p] \in S
  <2> SUFFICES ASSUME NEW p \in L PROVE <<"rationale", p[2], 1>> \in S
    OBVIOUS
  <2>1. PICK i \in OnList(d) : p = InvalidationOf(i) /\ Supports(d, e, i, marks) = {}
    BY LostPlaces
  <2>2. p[2] = i
    BY <2>1 DEF InvalidationOf
  <2>3. 1 \in DOMAIN d.items[i].rationale
    <3>1. i \in DOMAIN d.items /\ d.items \in SeqUpTo(Item, MaxItems)
      BY DEF OnList, Draft
    <3>2. d.items[i] \in Item
      BY <3>1 DEF SeqUpTo
    <3>3. d.items[i].rationale \in SeqUpTo(Claim, MaxRationale) /\ d.items[i].rationale # <<>>
      BY <3>1, <3>2 DEF Item
    <3>4. PICK k \in 0 .. MaxRationale : d.items[i].rationale \in [1 .. k -> Claim]
      BY <3>3 DEF SeqUpTo
    <3>5. k # 0
      BY <3>3, <3>4
    <3> QED
      BY <3>4, <3>5
  <2>4. <<"rationale", i, 1>> \in RationaleOf(d, i)
    BY <2>3 DEF RationaleOf
  <2>5. <<"rationale", i, 1>> \in Examined(d)
    BY <2>4 DEF Examined
  <2>6. <<"rationale", i, 1>> \notin Stands(d, e, marks)
    BY <2>1, <2>4 DEF Supports
  <2> QED
    BY <2>2, <2>5, <2>6 DEF Stripped
<1>3. \A p, q \in L : first[p] = first[q] => p = q
  <2> SUFFICES ASSUME NEW p \in L, NEW q \in L, <<"rationale", p[2], 1>> = <<"rationale", q[2], 1>>
               PROVE  p = q
    OBVIOUS
  <2>1. p[2] = q[2]
    OBVIOUS
  <2>2. p = InvalidationOf(p[2]) /\ q = InvalidationOf(q[2])
    BY LostPlaces DEF InvalidationOf
  <2> QED
    BY <2>1, <2>2
<1>4. first \in Injection(L, S)
  <2>1. first \in [L -> S]
    BY <1>2
  <2>2. DOMAIN first = L
    OBVIOUS
  <2> HIDE DEF first, L, S
  <2> QED
    BY <2>1, <2>2, <1>3 DEF Injection, IsInjective
<1> HIDE DEF first, L, S
<1>5. IsFiniteSet(L) /\ Cardinality(L) <= Cardinality(S)
  BY <1>1, <1>4, FS_Injection
<1> QED
  BY <1>1, <1>5 DEF L, S

\* An analysis that may be accepted holds a third of the sentences that were examined,
\* although an item that is dropped takes its invalidation with it (graph.py:317-319).
THEOREM AThirdIsKept == GroundingSpec => []OkKeepsAThird
<1>1. GroundingSound => OkKeepsAThird
  <2> SUFFICES ASSUME GroundingSound, step = "done", WithinThird(clean),
                      \A i \in DOMAIN draft.items : draft.items[i].rationale # <<>>
               PROVE  3 * Cardinality(clean.kept) >= clean.claims
    BY DEF OkKeepsAThird
  <2>1. clean = Validated(draft, pool, strikes) /\ draft \in Draft
    BY DEF GroundingSound
  <2> DEFINE K == Kept(draft, pool, strikes)
             L == Lost(draft, pool, strikes)
             S == Stripped(draft, pool, strikes)
             E == Examined(draft)
  <2>2. clean.kept = K /\ clean.claims = Cardinality(E) /\ clean.stripped = Cardinality(S)
    BY <2>1 DEF Validated
  <2>3. IsFiniteSet(L) /\ IsFiniteSet(S) /\ Cardinality(L) <= Cardinality(S)
    BY <2>1, LostIsFew
  <2>4. E = (K \cup L) \cup S /\ K \subseteq E /\ L \subseteq E /\ S \subseteq E
    BY DEF Lost, Stripped, Kept, Stands
  <2>5. IsFiniteSet(E)
    BY <2>1, FinitelyManyPlaces
  <2> HIDE DEF K, L, S, E
  <2>6. IsFiniteSet(K) /\ IsFiniteSet(K \cup L) /\ IsFiniteSet(K \cap L) /\ IsFiniteSet((K \cup L) \cap S)
    BY <2>4, <2>5, FS_Subset
  <2>7. /\ Cardinality(K \cup L) = Cardinality(K) + Cardinality(L) - Cardinality(K \cap L)
        /\ Cardinality(E) = Cardinality(K \cup L) + Cardinality(S) - Cardinality((K \cup L) \cap S)
    BY <2>3, <2>4, <2>6, FS_Union
  <2>8. /\ Cardinality(K) \in Nat /\ Cardinality(L) \in Nat /\ Cardinality(S) \in Nat
        /\ Cardinality(K \cap L) \in Nat /\ Cardinality((K \cup L) \cap S) \in Nat
    BY <2>3, <2>6, FS_CardinalityType
  <2>9. 3 * Cardinality(S) <= Cardinality(E)
    BY <2>2 DEF WithinThird
  <2> QED
    BY <2>2, <2>3, <2>7, <2>8, <2>9
<1> QED
  BY <1>1, Invariance, PTL
=============================================================================

--------------------------- MODULE AnalystService ---------------------------
(***************************************************************************)
(* The analyst service (app/stockintel/analyst/service.py): request        *)
(* threads queue passes, one worker thread runs them, and the analyses      *)
(* table, the _inflight map and the executor's queue must agree through     *)
(* failures and restarts.                                                   *)
(*                                                                          *)
(* A pass is a row id. Costs are counted in model turns: one turn costs 1.  *)
(* The pass graph is abstracted to its turns and its way out; the module    *)
(* AnalystGraph has its control flow.                                       *)
(***************************************************************************)
EXTENDS Integers, Sequences, FiniteSets

CONSTANTS Reports,    \* keys "as_of:mode:experiment:model" of report passes
          Chains,     \* those that hand off to the entry pass (daily, production)
          Pausing,    \* those that stop for approval (deep, analyst_hitl on)
          Tickers,    \* entry watch tickers, numbered in ORDER BY ticker order
          Held,       \* tickers with an open position
          Batch,      \* entry_signal_batch after its clamp
          Requests,   \* request threads
          Worker,     \* the executor's single thread
          Cap,        \* analyst_daily_cap_usd in turns; 0 means no cap
          MaxRows,    \* bound: analyses rows ever inserted
          MaxTurns,   \* bound: turns of one pass
          MaxFaults,  \* bound: database errors
          MaxCrashes, \* bound: process deaths
          MaxDays     \* bound: midnights (ET)

ASSUME ServiceAssumption ==
  /\ Chains \subseteq Reports
  /\ Pausing \subseteq Reports
  /\ Tickers \subseteq Nat
  /\ Held \subseteq Tickers
  /\ Batch \in Nat \ {0}
  /\ Worker \notin Requests
  /\ {Cap, MaxRows, MaxTurns, MaxFaults, MaxCrashes, MaxDays} \subseteq Nat
  /\ \A k \in SUBSET Tickers : k \notin Reports

EntryKeys == SUBSET Tickers   \* "entry:" + the tickers of one batch
Keys == Reports \cup EntryKeys
Ids == 1 .. MaxRows
Threads == Requests \cup {Worker}

Live == {"pending", "running"}
Terminal == {"ok", "invalid", "capped", "error"}

VARIABLES
  up,        \* the process serves requests
  \* the database
  last,      \* id of the newest analyses row
  status,    \* analyses.status, "none" before the insert
  key,       \* the key each row was queued under
  cost,      \* analyses.cost_usd
  today,     \* first row id of the current ET day
  recorded,  \* sum of cost_usd over today's rows: what spent_today() reads
  watch,     \* entry_watch: no row, a live row, or an entered/dropped one
  \* process memory
  inflight,  \* _inflight, 0 for an absent key
  queue,     \* the executor's work queue
  caller,    \* where each thread stands in start_analysis / start_entry_signals
  at,        \* where the worker stands in _run / _run_entry
  job,       \* the pass the worker runs, 0 when none
  spent,     \* spent_before, bound into each submitted job
  \* history and bounds
  burned,    \* what the provider was really paid for each pass
  faults, crashes, days

dbVars == <<last, status, key, cost, today, recorded>>
memVars == <<inflight, queue, caller, at, job, spent>>
boundVars == <<faults, crashes, days>>
vars == <<up, dbVars, watch, memVars, burned, boundVars>>

WorkerPoints == {"idle", "begin", "turns", "signals", "capped", "error",
                 "release", "unwind", "chain"}

CallerState ==
  [at: {"idle", "lock", "submit"}, kind: {"report", "entry"}, key: Keys,
   rest: SUBSET Tickers, spent: Int, id: 0 .. MaxRows]

Resting == [at |-> "idle", kind |-> "entry", key |-> {}, rest |-> {},
            spent |-> 0, id |-> 0]

\* A request past its checks, about to take _lock with the spend it read.
AtLock(kind, k, rest, s) ==
  [at |-> "lock", kind |-> kind, key |-> k, rest |-> rest, spent |-> s, id |-> 0]

TypeOK ==
  /\ up \in BOOLEAN
  /\ last \in 0 .. MaxRows
  /\ status \in [Ids -> {"none"} \cup Live \cup Terminal]
  /\ key \in [Ids -> Keys]
  /\ cost \in [Ids -> Nat]
  /\ today \in Nat
  /\ recorded \in Int
  /\ watch \in [Tickers -> {"none", "live", "closed"}]
  /\ inflight \in [Keys -> 0 .. MaxRows]
  /\ queue \in Seq(Ids)
  /\ caller \in [Threads -> CallerState]
  /\ at \in WorkerPoints
  /\ job \in 0 .. MaxRows
  /\ spent \in [Ids -> Int]
  /\ burned \in [Ids -> Nat]
  /\ faults \in 0 .. MaxFaults
  /\ crashes \in 0 .. MaxCrashes
  /\ days \in 0 .. MaxDays

Init ==
  /\ up = TRUE
  /\ last = 0
  /\ status = [i \in Ids |-> "none"]
  /\ key = [i \in Ids |-> {}]
  /\ cost = [i \in Ids |-> 0]
  /\ today = 1
  /\ recorded = 0
  /\ watch = [t \in Tickers |-> "none"]
  /\ inflight = [k \in Keys |-> 0]
  /\ queue = <<>>
  /\ caller = [p \in Threads |-> Resting]
  /\ at = "idle"
  /\ job = 0
  /\ spent = [i \in Ids |-> 0]
  /\ burned = [i \in Ids |-> 0]
  /\ faults = 0
  /\ crashes = 0
  /\ days = 0

-----------------------------------------------------------------------------
(* Requests *)

CapReached(s) == Cap > 0 /\ s >= Cap

\* start_analysis up to the lock: the report exists, and today's recorded
\* spend, read once here, is below the cap.
StartAnalysis(p, k) ==
  /\ up
  /\ caller[p].at = "idle"
  /\ ~CapReached(recorded)
  /\ caller' = [caller EXCEPT ![p] = AtLock("report", k, {}, recorded)]
  /\ UNCHANGED <<up, dbVars, watch, inflight, queue, at, job, spent, burned, boundVars>>

\* ensure_holding_rows: every open position has an entry row from now on.
Enrolled == [t \in Tickers |->
               IF t \in Held /\ watch[t] = "none" THEN "live" ELSE watch[t]]

\* start_entry_signals up to its batch loop. only = {} is tickers=None, the
\* call that enrols holdings first, whatever becomes of the request.
StartEntrySignals(p, only) ==
  LET rows == IF only = {} THEN Enrolled ELSE watch
      syms == {t \in Tickers : rows[t] = "live" /\ (only = {} \/ t \in only)}
  IN /\ caller[p].at = "idle"
     /\ watch' = rows
     /\ caller' = IF syms = {} \/ CapReached(recorded) THEN caller
                  ELSE [caller EXCEPT ![p] = AtLock("entry", {}, syms, recorded)]
     /\ UNCHANGED <<up, dbVars, inflight, queue, job, spent, burned, boundVars>>

RequestEntrySignals(p, only) ==
  /\ up
  /\ StartEntrySignals(p, only)
  /\ UNCHANGED at

\* syms[i:i + batch]: the next Batch tickers in order.
NextChunk(rest) ==
  {t \in rest : Cardinality({u \in rest : u <= t}) <= Batch}

CallerKey(p) == IF caller[p].kind = "report" THEN caller[p].key
                ELSE NextChunk(caller[p].rest)

\* The batch loop moves on; a report request, or the last batch, returns.
AfterKey(p) ==
  LET rest == caller[p].rest \ NextChunk(caller[p].rest)
  IN IF caller[p].kind = "report" \/ rest = {} THEN Resting
     ELSE AtLock("entry", {}, rest, caller[p].spent)

\* key in _inflight. Mutant: the look-up is skipped.
NeverHeld(k) == FALSE
Busy(k) == inflight[k] # 0

\* Under _lock, the key is held: answer with the pass that is in flight.
AlreadyRunning(p) ==
  /\ up
  /\ caller[p].at = "lock"
  /\ Busy(CallerKey(p))
  /\ caller' = [caller EXCEPT ![p] = AfterKey(p)]
  /\ UNCHANGED <<up, dbVars, watch, inflight, queue, at, job, spent, burned, boundVars>>

\* Under _lock, the key is free: insert the pending row and take the key.
TakeKey(p) ==
  LET k == CallerKey(p)
      i == last + 1
  IN /\ up
     /\ caller[p].at = "lock"
     /\ ~Busy(k)
     /\ last < MaxRows
     /\ last' = i
     /\ status' = [status EXCEPT ![i] = "pending"]
     /\ key' = [key EXCEPT ![i] = k]
     /\ inflight' = [inflight EXCEPT ![k] = i]
     /\ caller' = [caller EXCEPT ![p].at = "submit", ![p].id = i]
     /\ UNCHANGED <<up, cost, today, recorded, watch, queue, at, job, spent, burned,
                    boundVars>>

\* The model is unavailable (503) or the insert raises: the request ends
\* there, batches already queued stay queued. Also the bound on rows.
GiveUp(p) ==
  /\ up
  /\ caller[p].at = "lock"
  /\ ~Busy(CallerKey(p))
  /\ caller' = [caller EXCEPT ![p] = Resting]
  /\ UNCHANGED <<up, dbVars, watch, inflight, queue, at, job, spent, burned, boundVars>>

\* Outside the lock: hand the job, with the spend read earlier, to the executor.
Submit(p) ==
  /\ up
  /\ caller[p].at = "submit"
  /\ queue' = Append(queue, caller[p].id)
  /\ spent' = [spent EXCEPT ![caller[p].id] = caller[p].spent]
  /\ caller' = [caller EXCEPT ![p] = AfterKey(p)]
  /\ UNCHANGED <<up, dbVars, watch, inflight, at, job, burned, boundVars>>

\* A user adds, re-opens, enters or drops an entry row (api.py).
EditWatch(t, s) ==
  /\ up
  /\ watch[t] # s
  /\ s = "closed" => watch[t] = "live"
  /\ watch' = [watch EXCEPT ![t] = s]
  /\ UNCHANGED <<up, dbVars, memVars, burned, boundVars>>

-----------------------------------------------------------------------------
(* The worker *)

Dequeue ==
  /\ up
  /\ at = "idle"
  /\ caller[Worker].at = "idle"
  /\ queue # <<>>
  /\ job' = Head(queue)
  /\ queue' = Tail(queue)
  /\ at' = "begin"
  /\ UNCHANGED <<up, dbVars, watch, inflight, caller, spent, burned, boundVars>>

\* A worker step that writes the database commits, or raises.
Commits == UNCHANGED faults
Raises == faults < MaxFaults /\ faults' = faults + 1

Begin ==
  /\ up
  /\ at = "begin"
  /\ \/ /\ Commits
        /\ status' = [status EXCEPT ![job] = "running"]
        /\ at' = "turns"
     \/ /\ Raises
        /\ at' = "error"
        /\ UNCHANGED status
  /\ UNCHANGED <<up, last, key, cost, today, recorded, watch, inflight, queue, caller,
                 job, spent, burned, crashes, days>>

\* One paid model call. on_turn adds it to the spend the job was queued with;
\* over the cap it raises, and only the critic's retry loop swallows that.
Turn ==
  /\ up
  /\ at = "turns"
  /\ burned[job] < MaxTurns
  /\ burned' = [burned EXCEPT ![job] = @ + 1]
  /\ \/ at' = IF CapReached(spent[job] + burned[job] + 1) THEN "capped" ELSE "turns"
     \/ at' = "turns"
  /\ UNCHANGED <<up, dbVars, watch, inflight, queue, caller, job, spent, boundVars>>

\* The graph raises anything else: an unknown model, a provider error, ...
GraphError ==
  /\ up
  /\ at = "turns"
  /\ at' = "error"
  /\ UNCHANGED <<up, dbVars, watch, inflight, queue, caller, job, spent, burned, boundVars>>

\* interrupt() with no checkpointer: invoke returns, nothing was persisted.
PauseForApproval ==
  /\ up
  /\ at = "turns"
  /\ key[job] \in Pausing
  /\ at' = "release"
  /\ UNCHANGED <<up, dbVars, watch, inflight, queue, caller, job, spent, burned, boundVars>>

\* _persist: status, cost and sources in one transaction. An entry pass
\* writes its signals in a second one.
Persist(result) ==
  /\ up
  /\ at = "turns"
  /\ key[job] \notin Pausing
  /\ \/ /\ Commits
        /\ status' = [status EXCEPT ![job] = result]
        /\ cost' = [cost EXCEPT ![job] = burned[job]]
        /\ recorded' = IF job >= today THEN recorded + burned[job] - cost[job] ELSE recorded
        /\ at' = IF key[job] \notin Reports THEN "signals" ELSE "release"
     \/ /\ Raises
        /\ at' = "error"
        /\ UNCHANGED <<status, cost, recorded>>
  /\ UNCHANGED <<up, last, key, today, watch, inflight, queue, caller, job, spent,
                 burned, crashes, days>>

\* _persist_entry's second transaction: signals, zones and status moves.
\* None of them takes a ticker on or off the live list.
PersistSignals ==
  /\ up
  /\ at = "signals"
  /\ \/ Commits /\ at' = "release"
     \/ Raises /\ at' = "error"
  /\ UNCHANGED <<up, dbVars, watch, inflight, queue, caller, job, spent, burned,
                 crashes, days>>

\* _fail: status and error text only. If it raises too, the exception leaves
\* through the finally clause.
Fail ==
  /\ up
  /\ at \in {"capped", "error"}
  /\ \/ /\ Commits
        /\ status' = [status EXCEPT ![job] = at]
        /\ at' = "release"
     \/ /\ Raises
        /\ at' = "unwind"
        /\ UNCHANGED status
  /\ UNCHANGED <<up, last, key, cost, today, recorded, watch, inflight, queue, caller,
                 job, spent, burned, crashes, days>>

\* _inflight.pop(key). Mutant: the pop is not in a finally clause.
PoppedOnReturnOnly == IF at = "release" THEN [inflight EXCEPT ![key[job]] = 0] ELSE inflight
Popped == [inflight EXCEPT ![key[job]] = 0]

\* finally: pop the key. A production daily pass then hands off.
Release ==
  /\ up
  /\ at \in {"release", "unwind"}
  /\ inflight' = Popped
  /\ at' = IF at = "release" /\ key[job] \in Chains THEN "chain" ELSE "idle"
  /\ job' = 0
  /\ UNCHANGED <<up, dbVars, watch, queue, caller, spent, burned, boundVars>>

\* start_entry_signals(actor="auto") on the worker's own thread.
ChainEntrySignals ==
  /\ up
  /\ at = "chain"
  /\ at' = "idle"
  /\ StartEntrySignals(Worker, {})

-----------------------------------------------------------------------------
(* The process and the clock *)

\* The process dies: every thread, the queue and _inflight go with it.
Crash ==
  /\ up
  /\ crashes < MaxCrashes
  /\ crashes' = crashes + 1
  /\ up' = FALSE
  /\ inflight' = [k \in Keys |-> 0]
  /\ queue' = <<>>
  /\ caller' = [p \in Threads |-> Resting]
  /\ at' = "idle"
  /\ job' = 0
  /\ UNCHANGED <<dbVars, watch, spent, burned, faults, days>>

\* reap_orphans, one row. Mutants: a status the reader does not know, the WHERE
\* clause dropped, or written for running rows only.
ReapedAsInterrupted(s) == IF s \in Live THEN "interrupted" ELSE s
ReapedAll(s) == IF s = "none" THEN s ELSE "error"
ReapedRunning(s) == IF s = "running" THEN "error" ELSE s
Reaped(s) == IF s \in Live THEN "error" ELSE s

\* lifespan: reap_orphans before the first request. A database error there
\* is logged and the app serves anyway.
Startup ==
  /\ ~up
  /\ up' = TRUE
  /\ \/ /\ Commits
        /\ status' = [i \in Ids |-> Reaped(status[i])]
     \/ Raises /\ UNCHANGED status
  /\ UNCHANGED <<last, key, cost, today, recorded, watch, memVars, burned, crashes, days>>

\* Midnight in New York: spent_today() starts over with the next row.
NewDay ==
  /\ days < MaxDays
  /\ days' = days + 1
  /\ today' = last + 1
  /\ recorded' = 0
  /\ UNCHANGED <<up, last, status, key, cost, watch, memVars, burned, faults, crashes>>

-----------------------------------------------------------------------------
RequestStep(p) == AlreadyRunning(p) \/ TakeKey(p) \/ GiveUp(p) \/ Submit(p)

WorkerStep ==
  \/ Dequeue \/ Begin \/ Turn \/ GraphError \/ PauseForApproval
  \/ \E result \in {"ok", "invalid"} : Persist(result)
  \/ PersistSignals \/ Fail \/ Release \/ ChainEntrySignals

Next ==
  \/ \E p \in Requests, k \in Reports : StartAnalysis(p, k)
  \/ \E p \in Requests, only \in SUBSET Tickers : RequestEntrySignals(p, only)
  \/ \E p \in Threads : RequestStep(p)
  \/ \E t \in Tickers, s \in {"live", "closed"} : EditWatch(t, s)
  \/ WorkerStep
  \/ Crash
  \/ Startup
  \/ NewDay

\* Threads are scheduled and a container restarts; nobody has to make a
\* request, and nothing says the process or the database ever fails.
Fairness ==
  /\ WF_vars(WorkerStep)
  /\ WF_vars(Startup)
  /\ \A p \in Threads : WF_vars(RequestStep(p))

Spec == Init /\ [][Next]_vars
FairSpec == Spec /\ Fairness
-----------------------------------------------------------------------------
(* Correctness *)

Submitting(i) == \E p \in Threads : caller[p].at = "submit" /\ caller[p].id = i
Queued(i) == \E n \in 1 .. Len(queue) : queue[n] = i
HasJob(i) == Submitting(i) \/ Queued(i) \/ job = i

\* A key in _inflight always belongs to a pass that is still being handed
\* over, queued or run, so that some later step pops it: a key left behind
\* would answer "already running" to every request until a restart.
NoWedgedKey ==
  \A k \in Keys : inflight[k] # 0 => key[inflight[k]] = k /\ HasJob(inflight[k])

\* Two passes under one key never wait or run together, and no pass is in
\* two places, whatever the requests, the chained hand-off and the worker
\* interleave (the read of _inflight, the insert and the submit are apart).
OnePassPerKey ==
  /\ \A i, j \in Ids : HasJob(i) /\ HasJob(j) /\ key[i] = key[j] => i = j
  /\ \A m, n \in 1 .. Len(queue) : queue[m] = queue[n] => m = n
  /\ \A i \in Ids : Queued(i) => job # i /\ ~Submitting(i)

\* Without a database error or an approval pause, a row that says pending or
\* running is a pass that still has its job: nothing is stuck in the table
\* while the app serves ("the row must never stay pending").
LiveRowHasJob ==
  up => \A i \in Ids : status[i] \in Live => HasJob(i)

\* A finished row is final: neither a restart's reaper nor another pass
\* reopens or rewrites it. The one exception the code makes is an entry pass
\* whose signals failed to store after its row was written.
FinishedStaysFinished ==
  [][\A i \in Ids : status[i] \in Terminal =>
        \/ status'[i] = status[i]
        \/ i = job /\ key[i] \notin Reports /\ status'[i] = "error"]_vars

\* Every pass that was accepted ends, also when the process dies under it.
EveryPassEnds ==
  \A i \in Ids : status[i] \in Live ~> status[i] \in Terminal

\* docs/ANALYST.md: "when the cap is reached the analyst stops for the day".
\* No model is paid once the recorded spend of the day has reached the cap.
CapStopsTheDay ==
  [][burned' # burned => ~CapReached(recorded)]_vars

\* The service as the ledger sees it.
StageOf(s) == CASE s = "none" -> "absent"
                [] s = "pending" -> "accepted"
                [] s = "running" -> "started"
                [] s \in Terminal -> "ended"

Ledger == INSTANCE PassLedger WITH
            PassIds <- Ids, PassKeys <- Keys,
            serving <- up, holder <- inflight,
            stage <- [i \in Ids |-> StageOf(status[i])]

\* AnalystService implements PassLedger when no database error and no
\* approval pause interferes.
ImplementsLedger == Ledger!LedgerSpec
=============================================================================

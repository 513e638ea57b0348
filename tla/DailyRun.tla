------------------------------ MODULE DailyRun ------------------------------
(* The daily pipeline (workflows/daily.json) with the backfill of a new ticker *)
(* and the health check that reads what they left (app/stockintel/health.py).  *)
(*                                                                             *)
(* A run is an n8n execution and its row in `runs`: one action per node that   *)
(* reads or writes the database.  Cron and the Run now button start runs       *)
(* beside each other, an execution may die at any node, n8n ends one after 30  *)
(* minutes, and nobody closes the row it leaves.                               *)
(*                                                                             *)
(* Days are weekdays.  A phase is the time between two edges of the day, 18:00 *)
(* ET, when its session counts as done, and 06:45 ET, when its brief is due:   *)
(* phase 2d is the morning and day of d, phase 2d + 1 its evening and night,   *)
(* the 06:00 cron of the next weekday included.                                *)
EXTENDS Integers, Sequences, FiniteSetsExt

CONSTANTS Tickers,      \* symbols a user watches
          Spy,          \* the benchmark symbol health.py goes by
          MaxDay,       \* bound: the last weekday
          MaxManual,    \* bound: presses of Run now
          MaxFaults,    \* bound: missed crons and executions that die
          Brief         \* what the node Build brief may do: {"throws"} as exported
                        \* (daily.json:256), {"stores"} once its script compiles

Days == 1..MaxDay

ASSUME DailyAssumption ==
  /\ MaxDay \in Nat /\ MaxManual \in Nat /\ MaxFaults \in Nat
  /\ MaxDay > 0
  /\ Spy \notin Tickers
  /\ Brief \subseteq {"stores", "throws"}

VARIABLES sessions,  \* the weekdays that are sessions of the exchange
          time,      \* the phase
          due,       \* this night's cron has not fired yet
          manual,    \* presses of Run now
          faults,    \* missed crons and dead executions
          lost,      \* the nights whose cron was missed, or whose run never got to its brief
          active,    \* watched tickers
          filling,   \* tickers whose backfill is under way
          runs,      \* the rows of kind daily in order of started_at, with their executions
          priced,    \* prices_daily: the symbols priced at a day
          scores,    \* scores_daily: the days with rows
          reports,   \* reports: the days with a brief
          analysed   \* days whose brief has an analysis that is ok or under way
vars == <<sessions, time, due, manual, faults, lost, active, filling, runs, priced, scores, reports, analysed>>
clock == <<sessions, time, due, manual>>
tables == <<priced, scores, reports, analysed>>

None == 0
LastDone == (time - 1) \div 2
IsLastSession(s) == /\ s \in sessions /\ s <= LastDone
                    /\ \A u \in sessions : u <= LastDone => u <= s

Init ==
  /\ sessions \in {S \in SUBSET Days : 1 \in S}
  /\ time = 3 /\ due = TRUE /\ manual = 0 /\ faults = 0 /\ lost = {}
  /\ active \in SUBSET Tickers /\ filling = {}
  /\ runs = <<>>
  /\ priced = [d \in Days |-> {}]
  /\ scores = {} /\ reports = {} /\ analysed = {}

-----------------------------------------------------------------------------
(* One run *)

\* "Start run + watchlist": the row and the list of tickers in one statement.
StartRun(night) ==
  runs' = Append(runs, [status |-> "running", started |-> time, asOf |-> None, at |-> "context",
                        night |-> night, tickers |-> active, issues |-> FALSE, rows |-> {}, missing |-> {}])

\* What is left of a run when its execution is over: the row, and the day of its brief.
Over(run) == [run EXCEPT !.at = "ended", !.night = None, !.tickers = {}, !.issues = FALSE,
                         !.rows = {}, !.missing = {}]

Cron == /\ due /\ due' = FALSE
        /\ StartRun(LastDone)
        /\ UNCHANGED <<sessions, time, manual, faults, lost, active, filling, tables>>

RunNow == /\ manual < MaxManual /\ manual' = manual + 1
          /\ StartRun(None)
          /\ UNCHANGED <<sessions, time, due, faults, lost, active, filling, tables>>

\* The execution of run r is through with its node `from` and becomes `run`.
Moves(r, from, run) ==
  /\ runs[r].at = from
  /\ runs' = [runs EXCEPT ![r] = run]
  /\ UNCHANGED <<clock, faults, lost, active, filling>>

\* "Alpaca calendar" and "Build context": the session the run is about, by weekday if the call fails.
BuildContext(r) == \E calendar \in BOOLEAN, day \in Days :
  /\ IF calendar THEN IsLastSession(day) ELSE day = LastDone
  /\ Moves(r, "context", [runs[r] EXCEPT !.at = "collect", !.asOf = day, !.issues = ~calendar])
  /\ UNCHANGED tables

\* Of each session up to `day` the bars that the provider returns for some of the symbols, or none.
Upsert(day, symbols) == \E bars \in [{d \in sessions : d <= day} -> SUBSET symbols] :
  priced' = [d \in Days |-> IF d \in DOMAIN bars THEN priced[d] \union bars[d] ELSE priced[d]]

\* Mutant: the collectors' nodes do not continue on an error.
CollectOrDie(r) ==
  /\ \/ /\ Moves(r, "collect", [runs[r] EXCEPT !.at = "load"])
        /\ Upsert(runs[r].asOf, runs[r].tickers \union {Spy})
     \/ /\ Moves(r, "collect", Over(runs[r]))
        /\ UNCHANGED priced
  /\ UNCHANGED <<scores, reports, analysed>>

\* The six collectors in their sequence, of which Collect-Prices stores what this module follows;
\* the failure of any is an issue, and may leave prices out.
Collect(r) ==
  /\ \E failed \in BOOLEAN :
        Moves(r, "collect", [runs[r] EXCEPT !.at = "load", !.issues = @ \/ failed])
  /\ Upsert(runs[r].asOf, runs[r].tickers \union {Spy})
  /\ UNCHANGED <<scores, reports, analysed>>

\* "Load snapshot" and "Score": a row per ticker that is active now.
LoadSnapshot(r) ==
  /\ Moves(r, "load", [runs[r] EXCEPT !.at = "scores", !.rows = active,
                                      !.missing = active \ priced[runs[r].asOf]])
  /\ UNCHANGED tables

UpsertScores(r) ==
  /\ \/ /\ Moves(r, "scores", [runs[r] EXCEPT !.at = "store"])
        /\ scores' = IF runs[r].rows = {} THEN scores ELSE scores \union {runs[r].asOf}
     \/ /\ Moves(r, "scores", [runs[r] EXCEPT !.at = "store", !.issues = TRUE])
        /\ UNCHANGED scores
  /\ UNCHANGED <<priced, reports, analysed>>

\* Mutant: only the prices decide.
StatusByPrices(run) == IF run.rows = run.missing THEN "failed" ELSE IF run.missing # {} THEN "degraded" ELSE "ok"

\* "Build brief": what the run is called.
Status(run) == IF run.rows = run.missing THEN "failed"
               ELSE IF run.issues \/ run.missing # {} THEN "degraded" ELSE "ok"

\* The night of a run that stores no brief is lost.
Loses(r) == lost' = lost \union ({runs[r].night} \ {None})

\* The script of "Build brief" is not JavaScript: the node has no onError, and the execution is over.
BriefThrows(r) ==
  /\ runs[r].at = "store" /\ "throws" \in Brief
  /\ Loses(r)
  /\ runs' = [runs EXCEPT ![r] = Over(@)]
  /\ UNCHANGED <<clock, faults, active, filling, tables>>

\* "Store report + finish run": brief and row in one transaction.
Store(r) ==
  /\ "stores" \in Brief
  /\ Moves(r, "store", [Over(runs[r]) EXCEPT !.at = "analyze", !.status = Status(runs[r]), !.started = None])
  /\ reports' = reports \union {runs[r].asOf}
  /\ UNCHANGED <<priced, scores, analysed>>

\* "Analyze brief": the call is lost or refused, or a pass is under way now if none was.
Analyze(r) ==
  /\ Moves(r, "analyze", [runs[r] EXCEPT !.at = "ended"])
  /\ analysed' \in {analysed, analysed \union {runs[r].asOf}}
  /\ UNCHANGED <<priced, scores, reports>>

Node(r) == \/ BuildContext(r) \/ Collect(r) \/ LoadSnapshot(r) \/ UpsertScores(r)
           \/ BriefThrows(r) \/ Store(r) \/ Analyze(r)

-----------------------------------------------------------------------------
(* What happens around the runs *)

Fault == /\ faults < MaxFaults
         /\ faults' = faults + 1

\* An error of a node without continueRegularOutput, or the end of the n8n process.
Dies(r) == /\ runs[r].at # "ended" /\ Fault /\ Loses(r)
           /\ runs' = [runs EXCEPT ![r] = Over(@)]
           /\ UNCHANGED <<clock, active, filling, tables>>

\* A row is 30 minutes old; executionTimeout ends an execution of that age.
HalfHour(r) == /\ runs[r].started # None
               /\ IF runs[r].at = "ended" THEN UNCHANGED <<faults, lost>> ELSE Fault /\ Loses(r)
               /\ runs' = [runs EXCEPT ![r] = [Over(@) EXCEPT !.started = None]]
               /\ UNCHANGED <<clock, active, filling, tables>>

MissCron == /\ due /\ due' = FALSE /\ Fault
            /\ lost' = lost \union {LastDone}
            /\ UNCHANGED <<sessions, time, manual, active, filling, runs, tables>>

\* No row of a phase before this one is younger than 30 minutes at the next edge.
Tick == /\ time < 2 * MaxDay + 2 /\ ~due
        /\ \A r \in DOMAIN runs : runs[r].started \in {None, time}
        /\ time' = time + 1
        /\ due' = (time' % 2 = 1)
        /\ UNCHANGED <<sessions, manual, faults, lost, active, filling, runs, tables>>

AddTicker(t) == /\ t \notin active
                /\ active' = active \union {t}
                /\ filling' = IF \E d \in Days : t \in priced[d] THEN filling ELSE filling \union {t}
                /\ UNCHANGED <<clock, faults, lost, runs, tables>>

\* The backfill takes bars up to the day before, whatever the hour, or fails.
Backfill(t) == /\ t \in filling /\ filling' = filling \ {t}
               /\ \E day \in {LastDone, time \div 2 - 1} : Upsert(day, {t})
               /\ UNCHANGED <<clock, faults, lost, active, runs, scores, reports, analysed>>

\* A pass of the analyst ends with nothing usable, and none before it was ok.
AnalysisFails(d) == /\ d \in analysed /\ analysed' = analysed \ {d}
                    /\ UNCHANGED <<clock, faults, lost, active, filling, runs, priced, scores, reports>>

Next == \/ Cron \/ MissCron \/ RunNow \/ Tick
        \/ \E r \in DOMAIN runs : Node(r) \/ Dies(r) \/ HalfHour(r)
        \/ \E t \in Tickers : AddTicker(t) \/ Backfill(t)
        \/ \E d \in Days : AnalysisFails(d)

-----------------------------------------------------------------------------
(* The health check *)

\* The newest session whose brief is due, by the calendar or by weekdays.
Expected(calendar) == Max({s \in IF calendar THEN sessions ELSE Days : s <= time \div 2 - 1} \union {None})

Newest(days) == Max(days \union {None})
PricesMax == Newest({d \in Days : Spy \in priced[d]})
ScoresMax == Newest(scores)
ReportMax == Newest(reports)
Last == runs[Len(runs)]

Errors(exp) ==
  \/ \E newest \in {PricesMax, ScoresMax, ReportMax} : newest = None \/ newest < exp
  \/ runs # <<>> /\ \/ Last.status = "running" /\ Last.started = None
                    \/ Last.status = "failed"
\* Mutant: the newest run's own verdict is not looked at.
WarningsOfData(exp) ==
  \/ ~(active \subseteq priced[PricesMax])
  \/ ReportMax \notin analysed

Warnings(exp) ==
  \/ ~(active \subseteq priced[PricesMax])
  \/ runs # <<>> /\ Last.status = "degraded"
  \/ ReportMax \notin analysed

Health(calendar) ==
  LET exp == Expected(calendar)
  IN  IF exp = None THEN "ok"
      ELSE IF Errors(exp) THEN "error" ELSE IF Warnings(exp) THEN "warn" ELSE "ok"

-----------------------------------------------------------------------------
Spec == Init /\ [][Next]_vars

\* A row and its execution.  The phase it started in is kept while the row is running and young.
Run == [status : {"running", "ok", "degraded", "failed"}, started : Nat, asOf : Days \union {None},
        night : Days \union {None}, at : {"context", "collect", "load", "scores", "store", "analyze", "ended"},
        tickers : SUBSET Tickers, issues : BOOLEAN, rows : SUBSET Tickers, missing : SUBSET Tickers]

TypeOK ==
  /\ sessions \subseteq Days
  /\ time \in 3..(2 * MaxDay + 2) /\ due \in BOOLEAN
  /\ manual \in 0..MaxManual /\ faults \in 0..MaxFaults /\ lost \subseteq Days
  /\ active \in SUBSET Tickers /\ filling \in SUBSET Tickers
  /\ runs \in Seq(Run)
  /\ priced \in [Days -> SUBSET (Tickers \union {Spy})]
  /\ scores \subseteq Days /\ reports \subseteq Days /\ analysed \subseteq Days

(* A run is called ok only if it is about a session, its scores are stored and *)
(* each ticker of its brief has a price, whatever collectors and calendar did, *)
(* and whoever else added tickers or ran beside it.                            *)
OkRunIsWhole == [][\A r \in DOMAIN runs :
  runs[r].status # "ok" /\ runs'[r].status = "ok" =>
    LET day == runs[r].asOf
    IN  /\ day \in sessions /\ day \in scores
        /\ runs[r].rows # {} /\ runs[r].rows \subseteq priced[day]]_vars

(* When health says ok with a real calendar, no watched ticker is without a    *)
(* price since the session that is due; and that session or a later one has    *)
(* its brief and its scores, or the newest run is still under way.  Health     *)
(* reads the newest dates of three tables that different runs wrote, and the   *)
(* newest run's row.                                                           *)
HealthIsHonest ==
  LET exp == Expected(TRUE)
  IN  exp # None /\ Health(TRUE) = "ok" =>
        /\ \A t \in active \union {Spy} : \E d \in Days : d >= exp /\ t \in priced[d]
        /\ \/ \E d \in sessions : d >= exp /\ d \in reports /\ d \in scores
           \/ Last.status = "running"

(* A session has its own brief by 18:00 of the day whose morning should bring  *)
(* it, unless that night's cron was missed or that night's run ended before    *)
(* its brief, as every run does while Build brief throws: failing collectors,  *)
(* a failing calendar, other runs beside it and faults of other nights cost it *)
(* nothing.                                                                    *)
SessionLands == \A s \in sessions : time >= 2 * s + 3 => s \in lost \/ s \in reports
=============================================================================

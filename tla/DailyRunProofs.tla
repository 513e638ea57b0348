--------------------------- MODULE DailyRunProofs ---------------------------
(***************************************************************************)
(* Theorems about DailyRun, for any calendar, any number of tickers and     *)
(* runs, and any number of faults.                                          *)
(***************************************************************************)
EXTENDS DailyRun, SequenceTheorems, WellFoundedInduction, TLAPS

\* What the execution of run r knows at its node, of tables that other runs write too.
Working == {"collect", "load", "scores", "store"}
KnowsDay(r) == /\ runs[r].at \in Working \union {"analyze"} => runs[r].asOf \in Days
               /\ runs[r].at \in Working /\ ~runs[r].issues => runs[r].asOf \in sessions
KnowsPrices(r) == runs[r].at \in {"scores", "store"} =>
                    runs[r].rows \ runs[r].missing \subseteq priced[runs[r].asOf]
KnowsScores(r) == runs[r].at = "store" /\ ~runs[r].issues /\ runs[r].rows # {} =>
                    runs[r].asOf \in scores
Knows(r) == KnowsDay(r) /\ KnowsPrices(r) /\ KnowsScores(r)
IInv == TypeOK /\ \A r \in DOMAIN runs : Knows(r)

\* A step that leaves the runs alone keeps what they know if prices and scores stay.
Kept == /\ sessions' = sessions
        /\ \A d \in Days : priced[d] \subseteq priced'[d]
        /\ scores \subseteq scores'

\* What the table of runs holds are runs.
LEMMA RunsAreRuns ==
  ASSUME TypeOK, NEW r \in DOMAIN runs
  PROVE  runs[r] \in Run
BY DEF TypeOK

\* Half of a phase, rounded down.
LEMMA HalfTime ==
  ASSUME NEW t \in Nat, t >= 1
  PROVE  /\ (t - 1) \div 2 \in Nat
         /\ t = 2 * ((t - 1) \div 2) + 1 \/ t = 2 * ((t - 1) \div 2) + 2
OBVIOUS

\* The day that was done last, in any phase.
LEMMA DayDone ==
  ASSUME TypeOK
  PROVE  /\ LastDone \in Days /\ LastDone \in Nat /\ time \in Nat /\ time >= 3
         /\ time = 2 * LastDone + 1 \/ time = 2 * LastDone + 2
<1>1. time \in Nat /\ time >= 3 /\ MaxDay \in Nat /\ time <= 2 * MaxDay + 2
  BY DailyAssumption DEF TypeOK
<1>2. LastDone \in Nat /\ (time = 2 * LastDone + 1 \/ time = 2 * LastDone + 2)
  <2>1. time >= 1
    BY <1>1
  <2> QED
    BY <1>1, <2>1, HalfTime, Zenon DEF LastDone
<1> QED
  BY <1>1, <1>2 DEF Days

\* A run that is over keeps its status and its day.
LEMMA OverIsRun ==
  ASSUME NEW run \in Run
  PROVE  /\ Over(run) \in Run /\ Over(run).at = "ended"
         /\ Over(run).status = run.status /\ Over(run).asOf = run.asOf
BY DEF Over, Run

\* Who stays at a node knows what it knew.
LEMMA StillKnows ==
  ASSUME IInv, Kept, NEW r \in DOMAIN runs, r \in DOMAIN runs', runs'[r] = runs[r]
  PROVE  Knows(r)'
<1> USE DEF None
<1>1. Knows(r) /\ runs[r] \in Run
  BY RunsAreRuns DEF IInv
<1>2. KnowsDay(r)'
  BY <1>1 DEF Knows, KnowsDay, Kept
<1>3. KnowsPrices(r)'
  <2>1. runs[r].at \in {"scores", "store"} => runs[r].asOf \in Days
    BY <1>1 DEF Knows, KnowsDay, Working
  <2> QED
    BY <1>1, <2>1 DEF Knows, KnowsPrices, Kept
<1>4. KnowsScores(r)'
  <2>1. runs[r].at = "store" => runs[r].asOf \in Days
    BY <1>1 DEF Knows, KnowsDay, Working
  <2> QED
    BY <1>1, <2>1 DEF Knows, KnowsScores, Kept
<1> QED
  BY <1>2, <1>3, <1>4 DEF Knows

\* One execution moves: the others stay, and it knows what its step says.
LEMMA OneMoves ==
  ASSUME IInv, Kept, NEW r \in DOMAIN runs, NEW run \in Run,
         runs' = [runs EXCEPT ![r] = run], Knows(r)'
  PROVE  runs' \in Seq(Run) /\ \A q \in DOMAIN runs' : Knows(q)'
<1>1. runs' \in Seq(Run) /\ DOMAIN runs' = DOMAIN runs
  BY ExceptSeq DEF IInv, TypeOK
<1>2. ASSUME NEW q \in DOMAIN runs', q # r PROVE Knows(q)'
  BY <1>1, <1>2, StillKnows
<1> QED
  BY <1>1, <1>2

\* A run that is over knows nothing but its day.
LEMMA OverKnows ==
  ASSUME NEW r, \/ runs'[r].at \in {"context", "ended"}
                \/ runs'[r].at = "analyze" /\ runs'[r].asOf \in Days
  PROVE  Knows(r)'
BY DEF Knows, KnowsDay, KnowsPrices, KnowsScores, Working

\* A step of no execution: rows are added at most, and what runs know is kept.
LEMMA NoneMoves ==
  ASSUME IInv, Kept, runs' = runs
  PROVE  runs' \in Seq(Run) /\ \A q \in DOMAIN runs' : Knows(q)'
BY StillKnows DEF IInv, TypeOK

\* An upsert of prices takes none away.
LEMMA UpsertGrows ==
  ASSUME TypeOK, NEW day, NEW symbols \in SUBSET (Tickers \union {Spy}), Upsert(day, symbols)
  PROVE  /\ priced' \in [Days -> SUBSET (Tickers \union {Spy})]
         /\ \A d \in Days : priced[d] \subseteq priced'[d]
<1>1. PICK bars \in [{d \in sessions : d <= day} -> SUBSET symbols] :
        priced' = [d \in Days |-> IF d \in DOMAIN bars THEN priced[d] \union bars[d] ELSE priced[d]]
  BY DEF Upsert
<1> QED
  BY <1>1 DEF TypeOK

\* The inductive invariant holds at first.
LEMMA InitIInv == Init => IInv
<1> SUFFICES ASSUME Init PROVE IInv
  OBVIOUS
<1>1. runs \in Seq(Run) /\ DOMAIN runs = {}
  BY DEF Init
<1>2. sessions \subseteq Days /\ time \in 3..(2 * MaxDay + 2) /\ due \in BOOLEAN
  BY DailyAssumption DEF Init
<1>3. manual \in 0..MaxManual /\ faults \in 0..MaxFaults
  BY DailyAssumption DEF Init
<1>4. /\ active \in SUBSET Tickers /\ filling \in SUBSET Tickers
      /\ priced \in [Days -> SUBSET (Tickers \union {Spy})]
      /\ scores \subseteq Days /\ reports \subseteq Days /\ analysed \subseteq Days /\ lost \subseteq Days
  BY DEF Init
<1> QED
  BY <1>1, <1>2, <1>3, <1>4 DEF IInv, TypeOK

\* A new run knows nothing yet, the others keep what they know.
LEMMA StartIInv ==
  ASSUME IInv, NEW night \in Days \union {None}, StartRun(night), UNCHANGED <<sessions, priced, scores>>
  PROVE  runs' \in Seq(Run) /\ \A q \in DOMAIN runs' : Knows(q)'
<1> DEFINE new == [status |-> "running", started |-> time, asOf |-> None, at |-> "context",
                   night |-> night, tickers |-> active, issues |-> FALSE, rows |-> {}, missing |-> {}]
<1>1. new \in Run
  BY DEF Run, IInv, TypeOK
<1>2. runs' = Append(runs, new)
  BY DEF StartRun
<1> HIDE DEF new
<1>3. /\ runs' \in Seq(Run) /\ Len(runs') = Len(runs) + 1
      /\ \A q \in 1..Len(runs) : runs'[q] = runs[q]
      /\ runs'[Len(runs) + 1] = new
  BY <1>1, <1>2, AppendProperties DEF IInv, TypeOK
<1>4. Kept
  BY DEF Kept
<1>5. ASSUME NEW q \in DOMAIN runs' PROVE Knows(q)'
  <2>1. CASE q \in DOMAIN runs
    <3>1. q \in 1..Len(runs) /\ runs'[q] = runs[q]
      BY <1>3, <2>1 DEF IInv, TypeOK
    <3> QED
      BY <1>4, <2>1, <3>1, StillKnows
  <2>2. CASE q = Len(runs) + 1
    BY <1>3, <2>2, OverKnows DEF new
  <2> QED
    BY <1>3, <2>1, <2>2 DEF IInv, TypeOK
<1> QED
  BY <1>3, <1>5

\* Fixing the session to analyse keeps it,
LEMMA BuildContextIInv ==
  ASSUME IInv, NEW r \in DOMAIN runs, BuildContext(r)
  PROVE  IInv'
<1>1. PICK calendar \in BOOLEAN, day \in Days :
        /\ IF calendar THEN IsLastSession(day) ELSE day = LastDone
        /\ Moves(r, "context", [runs[r] EXCEPT !.at = "collect", !.asOf = day, !.issues = ~calendar])
        /\ UNCHANGED tables
  BY DEF BuildContext
<1> DEFINE run == [runs[r] EXCEPT !.at = "collect", !.asOf = day, !.issues = ~calendar]
<1>2. runs[r] \in Run
  BY RunsAreRuns DEF IInv
<1>3. run \in Run /\ run.at = "collect" /\ run.asOf = day /\ run.issues = ~calendar
  BY <1>2 DEF Run
<1>4. runs' = [runs EXCEPT ![r] = run] /\ UNCHANGED <<clock, faults, lost, active, filling, tables>>
  BY <1>1 DEF Moves
<1> HIDE DEF run
<1>5. Kept
  BY <1>4 DEF Kept, clock, tables
<1>6. runs'[r] = run
  BY <1>4 DEF IInv, TypeOK
<1>7. Knows(r)'
  BY <1>1, <1>3, <1>4, <1>6 DEF Knows, KnowsDay, KnowsPrices, KnowsScores, Working, IsLastSession, clock
<1>8. runs' \in Seq(Run) /\ \A q \in DOMAIN runs' : Knows(q)'
  BY <1>3, <1>4, <1>5, <1>7, OneMoves
<1> QED
  BY <1>4, <1>8 DEF IInv, TypeOK, clock, tables

\* collecting prices,
LEMMA CollectIInv ==
  ASSUME IInv, NEW r \in DOMAIN runs, Collect(r)
  PROVE  IInv'
<1>1. PICK late \in BOOLEAN :
        /\ Moves(r, "collect", [runs[r] EXCEPT !.at = "load", !.issues = late])
        /\ runs[r].issues => late
        /\ Upsert(runs[r].asOf, runs[r].tickers \union {Spy})
        /\ UNCHANGED <<scores, reports, analysed>>
  <2>1. runs[r] \in Run
    BY RunsAreRuns DEF IInv
  <2> QED
    BY <2>1 DEF Collect, Moves, Run
<1> DEFINE run == [runs[r] EXCEPT !.at = "load", !.issues = late]
<1>2. runs[r] \in Run
  BY RunsAreRuns DEF IInv
<1>3. run \in Run /\ run.at = "load" /\ run.asOf = runs[r].asOf /\ run.issues = late
  BY <1>2 DEF Run
<1>4. runs' = [runs EXCEPT ![r] = run] /\ runs[r].at = "collect" /\ UNCHANGED <<clock, faults, lost, active, filling>>
  BY <1>1 DEF Moves
<1> HIDE DEF run
<1>5. /\ priced' \in [Days -> SUBSET (Tickers \union {Spy})]
      /\ \A d \in Days : priced[d] \subseteq priced'[d]
  <2>1. runs[r].tickers \subseteq Tickers
    BY <1>2 DEF Run
  <2> QED
    BY <1>1, <2>1, UpsertGrows DEF IInv, TypeOK
<1>6. Kept
  BY <1>1, <1>4, <1>5 DEF Kept, clock
<1>7. runs'[r] = run
  BY <1>4 DEF IInv, TypeOK
<1>8. Knows(r)'
  BY <1>1, <1>3, <1>4, <1>7 DEF IInv, Knows, KnowsDay, KnowsPrices, KnowsScores, Working, clock
<1>9. runs' \in Seq(Run) /\ \A q \in DOMAIN runs' : Knows(q)'
  BY <1>3, <1>4, <1>6, <1>8, OneMoves
<1> QED
  BY <1>1, <1>4, <1>5, <1>9 DEF IInv, TypeOK, clock

\* reading the snapshot back,
LEMMA LoadSnapshotIInv ==
  ASSUME IInv, NEW r \in DOMAIN runs, LoadSnapshot(r)
  PROVE  IInv'
<1> DEFINE run == [runs[r] EXCEPT !.at = "scores", !.rows = active,
                                  !.missing = active \ priced[runs[r].asOf]]
<1>1. runs[r] \in Run /\ runs[r].at = "load"
  BY RunsAreRuns DEF IInv, LoadSnapshot, Moves
<1>2. /\ run \in Run /\ run.at = "scores" /\ run.asOf = runs[r].asOf /\ run.issues = runs[r].issues
      /\ run.rows = active /\ run.missing = active \ priced[runs[r].asOf]
  BY <1>1 DEF Run, IInv, TypeOK
<1>3. runs' = [runs EXCEPT ![r] = run] /\ UNCHANGED <<clock, faults, lost, active, filling, tables>>
  BY DEF LoadSnapshot, Moves
<1> HIDE DEF run
<1>4. Kept
  BY <1>3 DEF Kept, clock, tables
<1>5. runs'[r] = run
  BY <1>3 DEF IInv, TypeOK
<1>6. Knows(r)'
  BY <1>1, <1>2, <1>3, <1>5 DEF IInv, Knows, KnowsDay, KnowsPrices, KnowsScores, Working, clock, tables
<1>7. runs' \in Seq(Run) /\ \A q \in DOMAIN runs' : Knows(q)'
  BY <1>2, <1>3, <1>4, <1>6, OneMoves
<1> QED
  BY <1>3, <1>7 DEF IInv, TypeOK, clock, tables

\* storing the scores,
LEMMA UpsertScoresIInv ==
  ASSUME IInv, NEW r \in DOMAIN runs, UpsertScores(r)
  PROVE  IInv'
<1>1. runs[r] \in Run /\ runs[r].at = "scores" /\ runs[r].asOf \in Days
  BY RunsAreRuns DEF IInv, UpsertScores, Moves, Knows, KnowsDay, Working
<1>2. scores \subseteq Days
  BY DEF IInv, TypeOK
<1>3. PICK bad \in BOOLEAN :
        /\ runs' = [runs EXCEPT ![r] = [runs[r] EXCEPT !.at = "store", !.issues = bad]]
        /\ runs[r].issues => bad
        /\ scores' \subseteq Days /\ scores \subseteq scores'
        /\ ~bad /\ runs[r].rows # {} => runs[r].asOf \in scores'
  <2>1. CASE /\ Moves(r, "scores", [runs[r] EXCEPT !.at = "store"])
             /\ scores' = IF runs[r].rows = {} THEN scores ELSE scores \union {runs[r].asOf}
    <3>1. [runs[r] EXCEPT !.at = "store"] = [runs[r] EXCEPT !.at = "store", !.issues = runs[r].issues]
      BY <1>1 DEF Run
    <3>2. runs' = [runs EXCEPT ![r] = [runs[r] EXCEPT !.at = "store", !.issues = runs[r].issues]]
      BY <2>1, <3>1 DEF Moves
    <3>3. scores' \subseteq Days /\ scores \subseteq scores'
      BY <1>1, <1>2, <2>1
    <3>4. runs[r].rows # {} => runs[r].asOf \in scores'
      BY <1>1, <1>2, <2>1
    <3> QED
      BY <1>1, <3>2, <3>3, <3>4 DEF Run
  <2>2. CASE /\ Moves(r, "scores", [runs[r] EXCEPT !.at = "store", !.issues = TRUE])
             /\ UNCHANGED scores
    BY <1>2, <2>2 DEF Moves
  <2> QED
    BY <2>1, <2>2 DEF UpsertScores
<1> DEFINE run == [runs[r] EXCEPT !.at = "store", !.issues = bad]
<1>4. /\ run \in Run /\ run.at = "store" /\ run.asOf = runs[r].asOf /\ run.issues = bad
      /\ run.rows = runs[r].rows /\ run.missing = runs[r].missing
  BY <1>1 DEF Run
<1>5. UNCHANGED <<clock, faults, lost, active, filling, priced, reports, analysed>>
  BY DEF UpsertScores, Moves
<1>6. runs' = [runs EXCEPT ![r] = run]
  BY <1>3
<1> HIDE DEF run
<1>7. Kept
  BY <1>3, <1>5 DEF Kept, clock
<1>8. runs'[r] = run
  BY <1>6 DEF IInv, TypeOK
<1>9. Knows(r)'
  BY <1>1, <1>3, <1>4, <1>5, <1>8 DEF IInv, Knows, KnowsDay, KnowsPrices, KnowsScores, Working, clock
<1>10. runs' \in Seq(Run) /\ \A q \in DOMAIN runs' : Knows(q)'
  BY <1>4, <1>6, <1>7, <1>9, OneMoves
<1> QED
  BY <1>3, <1>5, <1>10 DEF IInv, TypeOK, clock

OverAt(run) == \/ run.at = "ended"
               \/ run.at = "analyze" /\ run.asOf \in Days

\* A run that leaves its work: stored, told to the analyst, dead or out of time.
LEMMA LeavesIInv ==
  ASSUME IInv, Kept, NEW r \in DOMAIN runs, NEW run \in Run,
         OverAt(run), runs' = [runs EXCEPT ![r] = run]
  PROVE  runs' \in Seq(Run) /\ \A q \in DOMAIN runs' : Knows(q)'
<1>1. runs'[r] = run
  BY DEF IInv, TypeOK
<1>2. Knows(r)'
  BY <1>1, OverKnows DEF OverAt
<1> QED
  BY <1>2, OneMoves

\* storing the report and closing the run,
LEMMA StoreIInv ==
  ASSUME IInv, NEW r \in DOMAIN runs, Store(r)
  PROVE  IInv'
<1> DEFINE run == [Over(runs[r]) EXCEPT !.at = "analyze", !.status = Status(runs[r]), !.started = None]
<1>1. runs[r] \in Run /\ runs[r].at = "store" /\ runs[r].asOf \in Days
  BY RunsAreRuns DEF IInv, Store, Moves, Knows, KnowsDay, Working
<1>2. Status(runs[r]) \in {"ok", "degraded", "failed"}
  BY DEF Status
<1>3. run \in Run /\ OverAt(run)
  <2>1. Over(runs[r]) \in Run /\ Over(runs[r]).asOf = runs[r].asOf
    BY <1>1, OverIsRun
  <2> QED
    BY <1>1, <1>2, <2>1 DEF Run, None, OverAt
<1>4. runs' = [runs EXCEPT ![r] = run] /\ UNCHANGED <<clock, faults, lost, active, filling, priced, scores, analysed>>
  BY DEF Store, Moves
<1>5. reports' \subseteq Days
  BY <1>1 DEF Store, IInv, TypeOK
<1> HIDE DEF run
<1>6. Kept
  BY <1>4 DEF Kept, clock
<1>7. runs' \in Seq(Run) /\ \A q \in DOMAIN runs' : Knows(q)'
  BY <1>3, <1>4, <1>6, LeavesIInv
<1> QED
  BY <1>4, <1>5, <1>7 DEF IInv, TypeOK, clock

\* and starting the analysis;
LEMMA AnalyzeIInv ==
  ASSUME IInv, NEW r \in DOMAIN runs, Analyze(r)
  PROVE  IInv'
<1> DEFINE run == [runs[r] EXCEPT !.at = "ended"]
<1>1. run \in Run /\ run.at = "ended"
  BY RunsAreRuns DEF IInv, Run
<1>2. runs' = [runs EXCEPT ![r] = run] /\ UNCHANGED <<clock, faults, lost, active, filling, priced, scores, reports>>
  BY DEF Analyze, Moves
<1>3. runs[r].asOf \in Days
  BY DEF IInv, Analyze, Moves, Knows, KnowsDay
<1>4. analysed' \subseteq Days
  BY <1>3 DEF Analyze, IInv, TypeOK
<1> HIDE DEF run
<1>over. OverAt(run)
  BY <1>1 DEF OverAt
<1>5. Kept
  BY <1>2 DEF Kept, clock
<1>6. runs' \in Seq(Run) /\ \A q \in DOMAIN runs' : Knows(q)'
  BY <1>1, <1>2, <1>5, <1>over, LeavesIInv
<1> QED
  BY <1>2, <1>4, <1>6 DEF IInv, TypeOK, clock

\* A night that is lost is the night of a run.
LEMMA LosesDays ==
  ASSUME TypeOK, NEW r \in DOMAIN runs, Loses(r)
  PROVE  lost' \subseteq Days
<1>1. runs[r].night \in Days \union {None}
  BY RunsAreRuns DEF Run
<1> QED
  BY <1>1 DEF Loses, TypeOK

\* so do a script that throws and a node that fails,
LEMMA DiesIInv ==
  ASSUME IInv, NEW r \in DOMAIN runs, BriefThrows(r) \/ Dies(r)
  PROVE  IInv'
<1> DEFINE run == Over(runs[r])
<1>1. run \in Run /\ run.at = "ended"
  BY RunsAreRuns, OverIsRun DEF IInv
<1>2. /\ runs' = [runs EXCEPT ![r] = run] /\ UNCHANGED <<clock, active, filling, tables>>
      /\ faults' \in 0..MaxFaults /\ lost' \subseteq Days
  <2>1. lost' \subseteq Days
    BY LosesDays DEF BriefThrows, Dies, IInv
  <2> QED
    BY <2>1, DailyAssumption DEF BriefThrows, Dies, Fault, IInv, TypeOK
<1> HIDE DEF run
<1>over. OverAt(run)
  BY <1>1 DEF OverAt
<1>3. Kept
  BY <1>2 DEF Kept, clock, tables
<1>4. runs' \in Seq(Run) /\ \A q \in DOMAIN runs' : Knows(q)'
  BY <1>1, <1>2, <1>3, <1>over, LeavesIInv
<1> QED
  BY <1>2, <1>4 DEF IInv, TypeOK, clock, tables

\* The 30 minutes end the execution and leave the row as it was.
LEMMA HalfHourIInv ==
  ASSUME IInv, NEW r \in DOMAIN runs, HalfHour(r)
  PROVE  IInv'
<1> DEFINE run == [Over(runs[r]) EXCEPT !.started = None]
<1>1. run \in Run /\ run.at = "ended"
  <2>1. Over(runs[r]) \in Run /\ Over(runs[r]).at = "ended"
    BY RunsAreRuns, OverIsRun DEF IInv
  <2> QED
    BY <2>1 DEF Run, None
<1>2. /\ runs' = [runs EXCEPT ![r] = run] /\ UNCHANGED <<clock, active, filling, tables>>
      /\ faults' \in 0..MaxFaults /\ lost' \subseteq Days
  <2>1. lost' \subseteq Days
    BY LosesDays DEF HalfHour, IInv, TypeOK
  <2> QED
    BY <2>1, DailyAssumption DEF HalfHour, Fault, IInv, TypeOK
<1> HIDE DEF run
<1>over. OverAt(run)
  BY <1>1 DEF OverAt
<1>3. Kept
  BY <1>2 DEF Kept, clock, tables
<1>4. runs' \in Seq(Run) /\ \A q \in DOMAIN runs' : Knows(q)'
  BY <1>1, <1>2, <1>3, <1>over, LeavesIInv
<1> QED
  BY <1>2, <1>4 DEF IInv, TypeOK, clock, tables

\* a backfill of one ticker,
LEMMA BackfillIInv ==
  ASSUME IInv, NEW t \in Tickers, Backfill(t)
  PROVE  IInv'
<1>1. /\ priced' \in [Days -> SUBSET (Tickers \union {Spy})]
      /\ \A d \in Days : priced[d] \subseteq priced'[d]
  BY UpsertGrows DEF Backfill, IInv, TypeOK
<1>2. UNCHANGED <<clock, faults, lost, active, runs, scores, reports, analysed>> /\ filling' \subseteq Tickers
  BY DEF Backfill, IInv, TypeOK
<1>3. Kept
  BY <1>1, <1>2 DEF Kept, clock
<1>4. runs' \in Seq(Run) /\ \A q \in DOMAIN runs' : Knows(q)'
  BY <1>2, <1>3, NoneMoves
<1> QED
  BY <1>1, <1>2, <1>4 DEF IInv, TypeOK, clock

\* The steps that touch neither prices nor scores nor an execution.
LEMMA QuietIInv ==
  ASSUME IInv, UNCHANGED <<sessions, runs, priced, scores, reports>>,
         time' \in 3..(2 * MaxDay + 2), due' \in BOOLEAN, manual' \in 0..MaxManual,
         faults' \in 0..MaxFaults, lost' \subseteq Days, active' \in SUBSET Tickers, filling' \in SUBSET Tickers, analysed' \subseteq Days
  PROVE  IInv'
<1>1. Kept
  BY DEF Kept
<1>2. runs' \in Seq(Run) /\ \A q \in DOMAIN runs' : Knows(q)'
  BY <1>1, NoneMoves
<1> QED
  BY <1>2 DEF IInv, TypeOK

\* and every step.
LEMMA NextIInv == IInv /\ [Next]_vars => IInv'
<1> SUFFICES ASSUME IInv, [Next]_vars PROVE IInv'
  OBVIOUS
<1>1. ASSUME Cron PROVE IInv'
  <2>1. /\ StartRun(LastDone) /\ due' = FALSE
        /\ UNCHANGED <<sessions, time, manual, faults, lost, active, filling, tables>>
    BY <1>1 DEF Cron
  <2>2. runs' \in Seq(Run) /\ \A q \in DOMAIN runs' : Knows(q)'
    <3>1. LastDone \in Days \union {None}
      BY DayDone DEF IInv
    <3> QED
      BY <2>1, <3>1, StartIInv DEF tables
  <2> QED
    BY <2>1, <2>2 DEF IInv, TypeOK, tables
<1>2. ASSUME RunNow PROVE IInv'
  <2>1. /\ StartRun(None) /\ UNCHANGED <<sessions, time, due, faults, lost, active, filling, tables>>
        /\ manual' \in 0..MaxManual
    BY <1>2, DailyAssumption DEF RunNow, IInv, TypeOK
  <2>2. runs' \in Seq(Run) /\ \A q \in DOMAIN runs' : Knows(q)'
    BY <2>1, StartIInv DEF tables
  <2> QED
    BY <2>1, <2>2 DEF IInv, TypeOK, tables
<1>3. ASSUME MissCron PROVE IInv'
  <2>1. faults' \in 0..MaxFaults /\ lost' \subseteq Days
    BY <1>3, DailyAssumption, DayDone DEF MissCron, Fault, IInv, TypeOK
  <2> QED
    BY <1>3, <2>1, QuietIInv DEF MissCron, IInv, TypeOK, tables
<1>4. ASSUME Tick PROVE IInv'
  <2>1. time' \in 3..(2 * MaxDay + 2) /\ due' \in BOOLEAN
    BY <1>4, DailyAssumption DEF Tick, IInv, TypeOK
  <2> QED
    BY <1>4, <2>1, QuietIInv DEF Tick, IInv, TypeOK, tables
<1>5. ASSUME NEW r \in DOMAIN runs, Node(r) \/ Dies(r) \/ HalfHour(r) PROVE IInv'
  BY <1>5, BuildContextIInv, CollectIInv, LoadSnapshotIInv, UpsertScoresIInv, StoreIInv, AnalyzeIInv,
     DiesIInv, HalfHourIInv DEF Node
<1>6. ASSUME NEW t \in Tickers, AddTicker(t) PROVE IInv'
  <2>1. active' \in SUBSET Tickers /\ filling' \in SUBSET Tickers
    BY <1>6 DEF AddTicker, IInv, TypeOK
  <2> QED
    BY <1>6, <2>1, QuietIInv DEF AddTicker, IInv, TypeOK, clock, tables
<1>7. ASSUME NEW d \in Days, AnalysisFails(d) PROVE IInv'
  BY <1>7, QuietIInv DEF AnalysisFails, IInv, TypeOK, clock
<1>8. CASE UNCHANGED vars
  BY <1>8, QuietIInv DEF vars, IInv, TypeOK
<1> QED
  BY <1>1, <1>2, <1>3, <1>4, <1>5, <1>6, <1>7, <1>8, BackfillIInv DEF Next

\* Every table, row and execution of the pipeline keeps its type.
THEOREM TypeCorrect == Spec => []TypeOK
<1>1. IInv => TypeOK
  BY DEF IInv
<1> QED
  BY <1>1, InitIInv, NextIInv, PTL DEF Spec

\* Only a run that knows a session, prices for all its rows and scores closes as ok:
\* no failed collector, no failed calendar and no other run beside it is lost on the way.
LEMMA OkStep ==
  ASSUME IInv, Next, NEW r \in DOMAIN runs, runs[r].status # "ok", runs'[r].status = "ok"
  PROVE  LET day == runs[r].asOf
         IN  /\ day \in sessions /\ day \in scores
             /\ runs[r].rows # {} /\ runs[r].rows \subseteq priced[day]
<1>1. Store(r)
  <2>1. runs \in Seq(Run) /\ \A q \in DOMAIN runs : runs[q] \in Run
    BY DEF IInv, TypeOK
  <2>2. ASSUME NEW night, StartRun(night) PROVE FALSE
    <3>1. runs'[r] = runs[r]
      BY <2>1, <2>2 DEF StartRun
    <3> QED
      BY <3>1
  <2>3. ASSUME UNCHANGED runs PROVE FALSE
    BY <2>3
  <2>4. ASSUME NEW q \in DOMAIN runs, NEW run, runs' = [runs EXCEPT ![q] = run], run.status = runs[q].status
        PROVE  FALSE
    BY <2>1, <2>4
  <2>5. ASSUME NEW q \in DOMAIN runs, BriefThrows(q) \/ Dies(q) \/ HalfHour(q) PROVE FALSE
    <3>1. Over(runs[q]) \in Run /\ Over(runs[q]).status = runs[q].status
      BY <2>1, OverIsRun
    <3>2. [Over(runs[q]) EXCEPT !.started = None].status = runs[q].status
      BY <3>1 DEF Run
    <3>3. CASE BriefThrows(q) \/ Dies(q)
      BY <2>4, <3>1, <3>3 DEF BriefThrows, Dies
    <3>4. CASE HalfHour(q)
      BY <2>4, <3>2, <3>4 DEF HalfHour
    <3> QED
      BY <2>5, <3>3, <3>4
  <2>6. ASSUME NEW q \in DOMAIN runs, Node(q) PROVE Store(q)
    <3>1. runs[q] \in Run
      BY <2>1
    <3>2. ~BuildContext(q)
      BY <2>4, <3>1 DEF BuildContext, Moves, Run
    <3>3. ~Collect(q)
      BY <2>4, <3>1 DEF Collect, Moves, Run
    <3>4. ~LoadSnapshot(q)
      BY <2>4, <3>1 DEF LoadSnapshot, Moves, Run
    <3>5. ~UpsertScores(q)
      BY <2>4, <3>1 DEF UpsertScores, Moves, Run
    <3>6. ~Analyze(q)
      BY <2>4, <3>1 DEF Analyze, Moves, Run
    <3> QED
      BY <2>5, <2>6, <3>2, <3>3, <3>4, <3>5, <3>6 DEF Node
  <2>7. ASSUME NEW q \in DOMAIN runs, Store(q) PROVE q = r
    BY <2>1, <2>7 DEF Store, Moves
  <2> QED
    BY <2>2, <2>3, <2>5, <2>6, <2>7
       DEF Next, Cron, MissCron, RunNow, Tick, AddTicker, Backfill, AnalysisFails
<1>2. runs[r] \in Run /\ runs[r].at = "store" /\ Knows(r)
  BY <1>1, RunsAreRuns DEF IInv, Store, Moves
<1>3. Status(runs[r]) = "ok"
  <2>1. Over(runs[r]) \in Run
    BY <1>2, OverIsRun
  <2>2. [Over(runs[r]) EXCEPT !.at = "analyze", !.status = Status(runs[r]), !.started = None].status = Status(runs[r])
    BY <2>1 DEF Run
  <2>3. runs'[r] = [Over(runs[r]) EXCEPT !.at = "analyze", !.status = Status(runs[r]), !.started = None]
    BY <1>1 DEF Store, Moves, IInv, TypeOK
  <2> QED
    BY <2>2, <2>3
<1>4. ~runs[r].issues /\ runs[r].missing = {} /\ runs[r].rows # {}
  BY <1>2, <1>3 DEF Status, Run
<1> QED
  BY <1>2, <1>4 DEF Knows, KnowsDay, KnowsPrices, KnowsScores, Working

\* A run that calls itself ok is whole.
THEOREM OkRunsAreWhole == Spec => OkRunIsWhole
<1>1. ASSUME IInv, [Next]_vars, NEW r \in DOMAIN runs, runs[r].status # "ok", runs'[r].status = "ok"
      PROVE  LET day == runs[r].asOf
             IN  /\ day \in sessions /\ day \in scores
                 /\ runs[r].rows # {} /\ runs[r].rows \subseteq priced[day]
  <2>1. Next
    BY <1>1 DEF vars
  <2> QED
    BY <1>1, <2>1, OkStep
<1>2. IInv /\ [Next]_vars =>
        [\A r \in DOMAIN runs :
           runs[r].status # "ok" /\ runs'[r].status = "ok" =>
             LET day == runs[r].asOf
             IN  /\ day \in sessions /\ day \in scores
                 /\ runs[r].rows # {} /\ runs[r].rows \subseteq priced[day]]_vars
  BY <1>1
<1> QED
  BY <1>2, InitIInv, NextIInv, PTL DEF Spec, OkRunIsWhole
-----------------------------------------------------------------------------
\* Steps as rows see them.

\* What a step may make of a row: it goes on, takes its day, is stored, or is over.
GoesOn(r) ==
  /\ runs'[r].status = runs[r].status /\ runs'[r].started = runs[r].started
  /\ runs'[r].asOf = runs[r].asOf
  /\ runs[r].at \in Working \cup {"analyze"} /\ runs'[r].at \in Working \cup {"ended"}
  /\ (runs'[r].at = "ended" <=> runs[r].at = "analyze")
  /\ runs[r].issues => runs'[r].issues
  /\ runs'[r].night = runs[r].night
TakesDay(r) ==
  /\ runs'[r].status = runs[r].status /\ runs'[r].started = runs[r].started
  /\ runs[r].at = "context" /\ runs'[r].at = "collect"
  /\ runs'[r].asOf \in Days
  /\ IF runs'[r].issues THEN runs'[r].asOf = LastDone ELSE IsLastSession(runs'[r].asOf)
  /\ runs'[r].night = runs[r].night
IsStored(r) ==
  /\ runs[r].at = "store" /\ runs'[r].at = "analyze" /\ runs'[r].started = None
  /\ runs'[r].asOf = runs[r].asOf /\ runs'[r].status = Status(runs[r])
  /\ reports' = reports \union {runs[r].asOf}
IsOver(r) ==
  /\ runs'[r].at = "ended" /\ runs'[r].started \in {None, runs[r].started}
  /\ runs'[r].status = runs[r].status /\ runs'[r].asOf = runs[r].asOf
  /\ runs[r].at # "ended" /\ runs[r].night # None => runs[r].night \in lost'

RowSteps == \A r \in DOMAIN runs :
  r \in DOMAIN runs' /\ (runs'[r] = runs[r] \/ GoesOn(r) \/ TakesDay(r) \/ IsStored(r) \/ IsOver(r))

\* New rows come last and know nothing.
NewRows == \A r \in DOMAIN runs' \ DOMAIN runs :
  /\ r = Len(runs) + 1 /\ runs'[r].status = "running" /\ runs'[r].started = time
  /\ runs'[r].at = "context" /\ runs'[r].asOf = None


\* The tables grow by what runs at work on a day store for it.
TableSteps ==
  /\ sessions' = sessions /\ lost \subseteq lost'
  /\ \A d \in Days :
       \/ d \in scores' <=> d \in scores
       \/ d \in scores' /\ \E r \in DOMAIN runs : runs[r].at = "scores" /\ runs[r].asOf = d
  /\ \A d \in Days :
       \/ d \in reports' <=> d \in reports
       \/ d \in reports' /\ \E r \in DOMAIN runs : runs[r].at = "store" /\ runs[r].asOf = d
  /\ \/ Tick
     \/ time' = time /\ (due' = due \/ Cron \/ MissCron)

\* One row becomes another, the rest stay.
LEMMA OneRow ==
  ASSUME IInv, NEW r \in DOMAIN runs, NEW run, runs' = [runs EXCEPT ![r] = run]
  PROVE  DOMAIN runs' = DOMAIN runs /\ runs'[r] = run /\ \A q \in DOMAIN runs : q # r => runs'[q] = runs[q]
BY DEF IInv, TypeOK

\* Each node, and each end, is one of the steps of a row.
LEMMA ExecutionSteps ==
  ASSUME IInv, NEW r \in DOMAIN runs, Node(r) \/ Dies(r) \/ HalfHour(r)
  PROVE  DOMAIN runs' = DOMAIN runs /\ RowSteps /\ TableSteps
<1>0. runs[r] \in Run /\ Knows(r)
  BY RunsAreRuns DEF IInv
<1>over. ASSUME NEW run, run = Over(runs[r]) \/ run = [Over(runs[r]) EXCEPT !.started = None]
         PROVE  /\ run.at = "ended" /\ run.started \in {None, runs[r].started}
                /\ run.status = runs[r].status /\ run.asOf = runs[r].asOf
  BY <1>0, <1>over DEF Over, Run
<1>1. CASE BuildContext(r)
  <2>1. PICK calendar \in BOOLEAN, day \in Days :
          /\ IF calendar THEN IsLastSession(day) ELSE day = LastDone
          /\ Moves(r, "context", [runs[r] EXCEPT !.at = "collect", !.asOf = day, !.issues = ~calendar])
          /\ UNCHANGED tables
    BY <1>1 DEF BuildContext
  <2> DEFINE run == [runs[r] EXCEPT !.at = "collect", !.asOf = day, !.issues = ~calendar]
  <2>2. /\ run.at = "collect" /\ run.asOf = day /\ run.issues = ~calendar
        /\ run.status = runs[r].status /\ run.started = runs[r].started /\ run.night = runs[r].night
    BY <1>0 DEF Run
  <2>3. /\ runs[r].at = "context" /\ runs' = [runs EXCEPT ![r] = run]
        /\ UNCHANGED <<clock, faults, lost, active, filling, tables>>
    BY <2>1 DEF Moves
  <2> HIDE DEF run
  <2>4. /\ DOMAIN runs' = DOMAIN runs /\ runs'[r] = run
        /\ \A q \in DOMAIN runs : q # r => runs'[q] = runs[q]
    BY <2>3, OneRow
  <2>5. TakesDay(r)
    BY <2>1, <2>2, <2>3, <2>4 DEF TakesDay
  <2> QED
    BY <2>3, <2>4, <2>5 DEF RowSteps, TableSteps, clock, tables
<1>2. CASE Collect(r)
  <2>1. PICK late \in BOOLEAN :
          /\ Moves(r, "collect", [runs[r] EXCEPT !.at = "load", !.issues = late])
          /\ runs[r].issues => late
          /\ UNCHANGED <<scores, reports>>
    BY <1>0, <1>2 DEF Collect, Moves, Run
  <2> DEFINE run == [runs[r] EXCEPT !.at = "load", !.issues = late]
  <2>2. /\ run.at = "load" /\ run.asOf = runs[r].asOf /\ run.status = runs[r].status
        /\ run.started = runs[r].started /\ run.issues = late /\ run.night = runs[r].night
    BY <1>0 DEF Run
  <2>3. /\ runs[r].at = "collect" /\ runs' = [runs EXCEPT ![r] = run]
        /\ UNCHANGED <<clock, faults, lost, active, filling, scores, reports>>
    BY <2>1 DEF Moves
  <2> HIDE DEF run
  <2>5. /\ DOMAIN runs' = DOMAIN runs /\ runs'[r] = run
        /\ \A q \in DOMAIN runs : q # r => runs'[q] = runs[q]
    BY <2>3, OneRow
  <2>6. GoesOn(r)
    BY <2>1, <2>2, <2>3, <2>5 DEF GoesOn, Working
  <2> QED
    BY <2>3, <2>5, <2>6 DEF RowSteps, TableSteps, clock
<1>3. CASE LoadSnapshot(r)
  <2> DEFINE run == [runs[r] EXCEPT !.at = "scores", !.rows = active,
                                    !.missing = active \ priced[runs[r].asOf]]
  <2>1. /\ run.at = "scores" /\ run.asOf = runs[r].asOf /\ run.status = runs[r].status
        /\ run.started = runs[r].started /\ run.issues = runs[r].issues /\ run.night = runs[r].night
    BY <1>0 DEF Run
  <2>2. /\ runs[r].at = "load" /\ runs' = [runs EXCEPT ![r] = run]
        /\ UNCHANGED <<clock, faults, lost, active, filling, tables>>
    BY <1>3 DEF LoadSnapshot, Moves
  <2> HIDE DEF run
  <2>3. /\ DOMAIN runs' = DOMAIN runs /\ runs'[r] = run
        /\ \A q \in DOMAIN runs : q # r => runs'[q] = runs[q]
    BY <2>2, OneRow
  <2>4. GoesOn(r)
    BY <2>1, <2>2, <2>3 DEF GoesOn, Working
  <2> QED
    BY <2>2, <2>3, <2>4 DEF RowSteps, TableSteps, clock, tables
<1>4. CASE UpsertScores(r)
  <2>1. PICK run :
          /\ runs[r].at = "scores" /\ runs' = [runs EXCEPT ![r] = run]
          /\ run.at = "store" /\ run.asOf = runs[r].asOf
          /\ run.status = runs[r].status /\ run.started = runs[r].started
          /\ runs[r].issues => run.issues
          /\ run.night = runs[r].night
          /\ UNCHANGED <<clock, faults, lost, active, filling, priced, reports>>
    <3>1. CASE Moves(r, "scores", [runs[r] EXCEPT !.at = "store"])
      BY <1>0, <1>4, <3>1 DEF Run, UpsertScores, Moves
    <3>2. CASE Moves(r, "scores", [runs[r] EXCEPT !.at = "store", !.issues = TRUE])
      BY <1>0, <1>4, <3>2 DEF Run, UpsertScores, Moves
    <3> QED
      BY <1>4, <3>1, <3>2 DEF UpsertScores
  <2>2. \A d \in Days : (d \in scores' <=> d \in scores) \/ (d \in scores' /\ runs[r].asOf = d)
    BY <1>0, <1>4 DEF UpsertScores
  <2>3. /\ DOMAIN runs' = DOMAIN runs /\ runs'[r] = run
        /\ \A q \in DOMAIN runs : q # r => runs'[q] = runs[q]
    BY <2>1, OneRow
  <2>4. GoesOn(r)
    BY <2>1, <2>3 DEF GoesOn, Working
  <2> QED
    BY <2>1, <2>2, <2>3, <2>4 DEF RowSteps, TableSteps, clock
<1>5. CASE Store(r)
  <2> DEFINE run == [Over(runs[r]) EXCEPT !.at = "analyze", !.status = Status(runs[r]), !.started = None]
  <2>1. /\ run.at = "analyze" /\ run.asOf = runs[r].asOf /\ run.status = Status(runs[r])
        /\ run.started = None
    BY <1>0 DEF Run, Over
  <2>2. /\ runs[r].at = "store" /\ runs' = [runs EXCEPT ![r] = run]
        /\ reports' = reports \union {runs[r].asOf}
        /\ UNCHANGED <<clock, faults, lost, active, filling, priced, scores>>
    BY <1>5 DEF Store, Moves
  <2> HIDE DEF run
  <2>3. /\ DOMAIN runs' = DOMAIN runs /\ runs'[r] = run
        /\ \A q \in DOMAIN runs : q # r => runs'[q] = runs[q]
    BY <2>2, OneRow
  <2>4. IsStored(r)
    BY <2>1, <2>2, <2>3 DEF IsStored
  <2>5. \A d \in Days : (d \in reports' <=> d \in reports) \/ (d \in reports' /\ runs[r].asOf = d)
    BY <1>0, <2>2
  <2> QED
    BY <2>2, <2>3, <2>4, <2>5 DEF RowSteps, TableSteps, clock
<1>6. CASE Analyze(r)
  <2> DEFINE run == [runs[r] EXCEPT !.at = "ended"]
  <2>1. /\ run.at = "ended" /\ run.asOf = runs[r].asOf /\ run.status = runs[r].status
        /\ run.started = runs[r].started /\ run.issues = runs[r].issues /\ run.night = runs[r].night
    BY <1>0 DEF Run
  <2>2. /\ runs[r].at = "analyze" /\ runs' = [runs EXCEPT ![r] = run]
        /\ UNCHANGED <<clock, faults, lost, active, filling, priced, scores, reports>>
    BY <1>6 DEF Analyze, Moves
  <2> HIDE DEF run
  <2>3. /\ DOMAIN runs' = DOMAIN runs /\ runs'[r] = run
        /\ \A q \in DOMAIN runs : q # r => runs'[q] = runs[q]
    BY <2>2, OneRow
  <2>4. GoesOn(r)
    BY <2>1, <2>2, <2>3 DEF GoesOn
  <2> QED
    BY <2>2, <2>3, <2>4 DEF RowSteps, TableSteps, clock
<1>7. CASE BriefThrows(r) \/ Dies(r)
  <2>1. /\ runs' = [runs EXCEPT ![r] = Over(runs[r])] /\ Loses(r)
        /\ UNCHANGED <<clock, active, filling, tables>>
    BY <1>7 DEF BriefThrows, Dies
  <2>2. /\ DOMAIN runs' = DOMAIN runs /\ runs'[r] = Over(runs[r])
        /\ \A q \in DOMAIN runs : q # r => runs'[q] = runs[q]
    BY <2>1, OneRow
  <2>3. IsOver(r)
    BY <2>1, <2>2, <1>over DEF IsOver, Loses
  <2> QED
    BY <2>1, <2>2, <2>3 DEF RowSteps, TableSteps, Loses, clock, tables
<1>8. CASE HalfHour(r)
  <2>1. /\ runs' = [runs EXCEPT ![r] = [Over(runs[r]) EXCEPT !.started = None]]
        /\ IF runs[r].at = "ended" THEN lost' = lost ELSE Loses(r)
        /\ UNCHANGED <<clock, active, filling, tables>>
    BY <1>8 DEF HalfHour
  <2>2. /\ DOMAIN runs' = DOMAIN runs /\ runs'[r] = [Over(runs[r]) EXCEPT !.started = None]
        /\ \A q \in DOMAIN runs : q # r => runs'[q] = runs[q]
    BY <2>1, OneRow
  <2>3. IsOver(r)
    BY <2>1, <2>2, <1>over DEF IsOver, Loses
  <2> QED
    BY <2>1, <2>2, <2>3 DEF RowSteps, TableSteps, Loses, clock, tables
<1> QED
  BY <1>1, <1>2, <1>3, <1>4, <1>5, <1>6, <1>7, <1>8 DEF Node

\* A step that leaves rows, scores and briefs alone.
LEMMA OtherSteps ==
  ASSUME IInv, UNCHANGED <<sessions, runs, scores, reports>>, lost \subseteq lost',
         Tick \/ (time' = time /\ (due' = due \/ MissCron))
  PROVE  RowSteps /\ NewRows /\ TableSteps
BY DEF RowSteps, NewRows, TableSteps

\* A run that starts.
LEMMA StartSteps ==
  ASSUME IInv, NEW night \in Days \union {None}, StartRun(night),
         UNCHANGED <<sessions, time, lost, tables>>, due' = due \/ Cron
  PROVE  RowSteps /\ NewRows /\ TableSteps
<1> DEFINE new == [status |-> "running", started |-> time, asOf |-> None, at |-> "context",
                   night |-> night, tickers |-> active, issues |-> FALSE, rows |-> {}, missing |-> {}]
<1>1. new \in Run /\ runs \in Seq(Run)
  BY DEF Run, IInv, TypeOK
<1>2. runs' = Append(runs, new)
  BY DEF StartRun
<1>3. /\ new.status = "running" /\ new.started = time /\ new.at = "context" /\ new.asOf = None
  OBVIOUS
<1> HIDE DEF new
<1>4. /\ runs' \in Seq(Run) /\ Len(runs') = Len(runs) + 1
      /\ \A q \in 1..Len(runs) : runs'[q] = runs[q]
      /\ runs'[Len(runs) + 1] = new
  BY <1>1, <1>2, AppendProperties
<1>5. DOMAIN runs = 1..Len(runs) /\ DOMAIN runs' = 1..(Len(runs) + 1) /\ Len(runs) \in Nat
  BY <1>1, <1>4
<1>6. RowSteps
  BY <1>4, <1>5 DEF RowSteps
<1>7. NewRows
  <2>1. \A r \in DOMAIN runs' \ DOMAIN runs : r = Len(runs) + 1
    BY <1>5
  <2> QED
    BY <1>3, <1>4, <2>1 DEF NewRows
<1> QED
  BY <1>6, <1>7 DEF TableSteps, tables

\* Every step is a step of rows and tables.
LEMMA EveryStep ==
  ASSUME IInv, [Next]_vars
  PROVE  RowSteps /\ NewRows /\ TableSteps
<1>1. CASE Cron
  <2>1. LastDone \in Days \union {None}
    BY DayDone DEF IInv
  <2> QED
    BY <1>1, <2>1, StartSteps DEF Cron
<1>2. CASE RunNow
  BY <1>2, StartSteps DEF RunNow
<1>3. CASE MissCron
  BY <1>3, OtherSteps DEF MissCron, Fault, tables
<1>4. CASE Tick
  BY <1>4, OtherSteps DEF Tick, tables
<1>5. ASSUME NEW r \in DOMAIN runs, Node(r) \/ Dies(r) \/ HalfHour(r)
      PROVE  RowSteps /\ NewRows /\ TableSteps
  BY <1>5, ExecutionSteps DEF NewRows
<1>6. ASSUME NEW t \in Tickers, AddTicker(t) PROVE RowSteps /\ NewRows /\ TableSteps
  BY <1>6, OtherSteps DEF AddTicker, clock, tables
<1>7. ASSUME NEW t \in Tickers, Backfill(t) PROVE RowSteps /\ NewRows /\ TableSteps
  BY <1>7, OtherSteps DEF Backfill, clock
<1>8. ASSUME NEW d \in Days, AnalysisFails(d) PROVE RowSteps /\ NewRows /\ TableSteps
  BY <1>8, OtherSteps DEF AnalysisFails, clock
<1>9. CASE UNCHANGED vars
  BY <1>9, OtherSteps DEF vars
<1> QED
  BY <1>1, <1>2, <1>3, <1>4, <1>5, <1>6, <1>7, <1>8, <1>9 DEF Next

-----------------------------------------------------------------------------
\* What rows say of their age and their day.

Alive == {"context"} \union Working
Ages == /\ time >= 3
        /\ \A r \in DOMAIN runs :
             /\ runs[r].started # None => runs[r].started \in {time - 1, time}
             /\ runs[r].at \in Alive => runs[r].started # None /\ runs[r].status = "running"
             /\ runs[r].at = "context" => runs[r].asOf = None
             /\ runs[r].asOf <= LastDone

\* The halves of a phase and of the next.
LEMMA NextHalf ==
  ASSUME NEW t \in Nat, NEW k \in Nat, NEW l \in Nat,
         t = 2 * k + 1 \/ t = 2 * k + 2, t + 1 = 2 * l + 1 \/ t + 1 = 2 * l + 2
  PROVE  /\ t = 2 * k + 1 => l = k /\ (t + 1) % 2 # 1
         /\ t = 2 * k + 2 => l = k + 1 /\ (t + 1) % 2 = 1
<1>1. CASE t = 2 * k + 1
  BY <1>1
<1>2. CASE t = 2 * k + 2
  BY <1>2
<1> QED
  BY <1>1, <1>2

\* A row of the new state is new or comes from a row.
LEMMA RowsCome ==
  ASSUME IInv, RowSteps, NewRows, NEW r \in DOMAIN runs'
  PROVE  \/ /\ r \in DOMAIN runs
            /\ runs'[r] = runs[r] \/ GoesOn(r) \/ TakesDay(r) \/ IsStored(r) \/ IsOver(r)
         \/ /\ r \notin DOMAIN runs /\ r = Len(runs) + 1 /\ runs'[r].status = "running"
            /\ runs'[r].started = time /\ runs'[r].at = "context" /\ runs'[r].asOf = None
BY DEF RowSteps, NewRows

\* What holds of every row in each state, of types.
LEMMA RowTypes ==
  ASSUME TypeOK, NEW r \in DOMAIN runs
  PROVE  /\ r \in Nat /\ r >= 1 /\ r <= Len(runs) /\ runs[r].asOf \in Nat
         /\ runs[r].asOf # None => runs[r].asOf \in Days
         /\ runs[r].started \in Nat
<1>1. runs[r] \in Run /\ runs \in Seq(Run) /\ Days \subseteq Nat
  BY RunsAreRuns DEF TypeOK, Days
<1>2. r \in 1..Len(runs) /\ Len(runs) \in Nat
  BY <1>1
<1>3. runs[r].asOf \in Days \union {None} /\ runs[r].started \in Nat
  BY <1>1 DEF Run
<1>4. None \in Nat
  BY DEF None
<1>5. runs[r].asOf \in Nat /\ (runs[r].asOf # None => runs[r].asOf \in Days)
  BY <1>1, <1>3, <1>4
<1> QED
  BY <1>2, <1>3, <1>5

\* It is true before the first run.
LEMMA InitAges == Init => Ages
BY DEF Init, Ages

\* The clock stands or goes on by a phase, and with every other phase a day is done.
LEMMA ClockSteps ==
  ASSUME TypeOK, time >= 3, TableSteps
  PROVE  /\ LastDone' \in Nat
         /\ \/ time' = time /\ LastDone' = LastDone
            \/ Tick /\ time' = time + 1 /\ time = 2 * LastDone + 1 /\ LastDone' = LastDone /\ ~due'
            \/ Tick /\ time' = time + 1 /\ time = 2 * LastDone + 2 /\ LastDone' = LastDone + 1 /\ due'
<1>1. time \in Nat /\ LastDone \in Nat /\ (time = 2 * LastDone + 1 \/ time = 2 * LastDone + 2)
  BY DayDone
<1>2. CASE time' = time
  BY <1>1, <1>2, Zenon DEF LastDone
<1>3. CASE Tick
  <2>1. time' = time + 1 /\ due' = (time' % 2 = 1)
    BY <1>3 DEF Tick
  <2>2. time + 1 \in Nat /\ time + 1 >= 1
    BY <1>1
  <2>3. LastDone' \in Nat /\ (time + 1 = 2 * LastDone' + 1 \/ time + 1 = 2 * LastDone' + 2)
    BY <2>1, <2>2, HalfTime, Zenon DEF LastDone
  <2>4. /\ time = 2 * LastDone + 1 => LastDone' = LastDone /\ (time + 1) % 2 # 1
        /\ time = 2 * LastDone + 2 => LastDone' = LastDone + 1 /\ (time + 1) % 2 = 1
    BY <1>1, <2>3, NextHalf, Zenon
  <2> QED
    BY <1>1, <1>3, <2>1, <2>3, <2>4, Zenon
<1> QED
  BY <1>2, <1>3 DEF TableSteps

\* A run keeps its age and its day from step to step.
LEMMA NextAges ==
  ASSUME IInv, IInv', Ages, RowSteps, NewRows, TableSteps
  PROVE  Ages'
<1>a. TypeOK /\ time >= 3
  BY DEF IInv, Ages
<1>b. time \in Nat /\ LastDone \in Nat
  BY <1>a, DayDone
<1>1. time \in Nat /\ time' \in {time, time + 1} /\ time >= 3 /\ time' >= 3
  BY <1>a, <1>b, ClockSteps
<1>2. LastDone \in Nat /\ LastDone' \in Nat /\ LastDone <= LastDone'
  BY <1>a, <1>b, ClockSteps
<1>3. ASSUME NEW r \in DOMAIN runs'
      PROVE  /\ runs'[r].started # None => runs'[r].started \in {time' - 1, time'}
             /\ runs'[r].at \in Alive => runs'[r].started # None /\ runs'[r].status = "running"
             /\ runs'[r].at = "context" => runs'[r].asOf = None
             /\ runs'[r].asOf <= LastDone'
  <2>1. CASE r \notin DOMAIN runs
    <3>1. runs'[r].status = "running" /\ runs'[r].started = time /\ runs'[r].at = "context" /\ runs'[r].asOf = None
      BY <2>1, <1>3, RowsCome
    <3>2. time' = time
      BY <2>1, <1>3 DEF TableSteps, Tick
    <3> QED
      BY <3>1, <3>2, <1>1, <1>2 DEF None
  <2>2. CASE r \in DOMAIN runs
    <3>1. /\ runs[r].started # None => runs[r].started \in {time - 1, time}
          /\ runs[r].at \in Alive => runs[r].started # None /\ runs[r].status = "running"
          /\ runs[r].at = "context" => runs[r].asOf = None
          /\ runs[r].asOf <= LastDone
      BY <2>2 DEF Ages
    <3>2. runs[r].asOf \in Nat
      BY <2>2, RowTypes DEF IInv
    <3>9. runs'[r].asOf \in Nat
      <4>1. runs'[r] \in Run
        BY <1>3 DEF IInv, TypeOK
      <4> QED
        BY <4>1, DailyAssumption DEF Run, Days, None
    <3>3. runs[r].started # None => runs[r].started \in {time' - 1, time'}
      <4>1. CASE Tick
        BY <4>1, <2>2, <1>1 DEF Tick
      <4>2. CASE time' = time
        BY <4>2, <3>1
      <4> QED
        BY <4>1, <4>2 DEF TableSteps
    <3>4. CASE runs'[r] = runs[r]
      BY <3>1, <3>2, <3>3, <3>4, <1>2
    <3>5. CASE GoesOn(r)
      BY <3>1, <3>2, <3>3, <3>5, <1>2 DEF GoesOn, Alive, Working
    <3>6. CASE TakesDay(r)
      <4>1. runs'[r].asOf <= LastDone
        BY <3>6, <3>9, <1>2 DEF TakesDay, IsLastSession
      <4> QED
        BY <3>1, <3>2, <3>9, <3>3, <3>6, <4>1, <1>2 DEF TakesDay, Alive, Working
    <3>7. CASE IsStored(r)
      BY <3>1, <3>2, <3>3, <3>7, <1>2 DEF IsStored, Alive, Working
    <3>8. CASE IsOver(r)
      BY <3>1, <3>2, <3>3, <3>8, <1>2 DEF IsOver, Alive, Working
    <3> QED
      BY <3>4, <3>5, <3>6, <3>7, <3>8, <2>2 DEF RowSteps
  <2> QED
    BY <2>1, <2>2
<1> QED
  BY <1>1, <1>3 DEF Ages

-----------------------------------------------------------------------------
\* A session has its own brief the day after, or its night was lost.

\* The run that the cron of night s started, on its way to a brief of s.
Carrier(r, s) == /\ runs[r].at \in Alive
                 /\ runs[r].night = s /\ runs[r].started = 2 * s + 1
                 /\ runs[r].at # "context" => runs[r].asOf = s
OnItsWay(s) == time >= 2 * s + 1 => \/ s \in lost
                                    \/ s \in reports
                                    \/ due /\ LastDone = s
                                    \/ \E r \in DOMAIN runs : Carrier(r, s)
Nights == /\ due => time = 2 * LastDone + 1
          /\ \A s \in sessions : OnItsWay(s)
LandInv == IInv /\ Ages /\ Nights

\* On the first evening every session is ahead, or its run is due.
LEMMA InitNights == Init => Nights
<1> SUFFICES ASSUME Init PROVE Nights
  OBVIOUS
<1>1. time = 3 /\ due /\ LastDone = 1
  BY DEF Init, LastDone
<1>2. ASSUME NEW s \in sessions PROVE OnItsWay(s)
  <2>1. s \in Nat /\ s >= 1
    BY <1>2, DailyAssumption DEF Init, Days
  <2> QED
    BY <1>1, <2>1 DEF OnItsWay
<1> QED
  BY <1>1, <1>2 DEF Nights

\* The cron's run has its night.
LEMMA CronCarries ==
  ASSUME IInv, StartRun(LastDone)
  PROVE  \E r \in DOMAIN runs' : /\ runs'[r].at = "context" /\ runs'[r].started = time
                                 /\ runs'[r].night = LastDone
<1> DEFINE new == [status |-> "running", started |-> time, asOf |-> None, at |-> "context",
                   night |-> LastDone, tickers |-> active, issues |-> FALSE, rows |-> {}, missing |-> {}]
<1>1. runs \in Seq(Run) /\ Len(runs) \in Nat
  BY DEF IInv, TypeOK
<1>2. new \in Run
  BY DayDone DEF Run, IInv, TypeOK
<1>3. runs' = Append(runs, new)
  BY DEF StartRun
<1>4. new.at = "context" /\ new.started = time /\ new.night = LastDone
  OBVIOUS
<1> HIDE DEF new
<1>5. Len(runs') = Len(runs) + 1 /\ DOMAIN runs' = 1..Len(runs') /\ runs'[Len(runs) + 1] = new
  BY <1>1, <1>2, <1>3, AppendProperties
<1> QED
  BY <1>1, <1>4, <1>5

\* A carrier goes on, or its end loses the night, or it has stored the brief.
LEMMA CarrierGoesOn ==
  ASSUME LandInv, RowSteps, NEW s \in sessions, NEW r \in DOMAIN runs, Carrier(r, s)
  PROVE  (r \in DOMAIN runs' /\ Carrier(r, s)') \/ s \in lost' \/ s \in reports'
<1>1. r \in DOMAIN runs' /\ (runs'[r] = runs[r] \/ GoesOn(r) \/ TakesDay(r) \/ IsStored(r) \/ IsOver(r))
  BY DEF RowSteps
<1>2. IInv /\ Ages /\ TypeOK /\ s \in Days /\ s \in Nat /\ s >= 1
  BY DEF LandInv, IInv, TypeOK, Days
<1>3. CASE runs'[r] = runs[r]
  BY <1>1, <1>3 DEF Carrier
<1>4. CASE GoesOn(r)
  BY <1>1, <1>4 DEF Carrier, GoesOn, Alive, Working
<1>5. CASE TakesDay(r)
  <2>1. runs[r].started \in {time - 1, time}
    <3>1. runs[r].started # None
      BY <1>2 DEF Carrier, None
    <3> QED
      BY <1>2, <3>1 DEF Ages
  <2>2. LastDone = s
    <3>1. LastDone \in Nat /\ time \in Nat /\ (time = 2 * LastDone + 1 \/ time = 2 * LastDone + 2)
      BY <1>2, DayDone
    <3> QED
      BY <1>2, <2>1, <3>1 DEF Carrier
  <2>3. runs'[r].asOf = s
    <3>1. runs'[r].asOf \in Nat
      BY <1>5 DEF TakesDay, Days
    <3> QED
      BY <1>2, <1>5, <2>2, <3>1 DEF TakesDay, IsLastSession
  <2> QED
    BY <1>1, <1>5, <2>3 DEF Carrier, TakesDay, Alive, Working
<1>6. CASE IsStored(r)
  BY <1>6 DEF IsStored, Carrier
<1>7. CASE IsOver(r)
  BY <1>2, <1>7 DEF IsOver, Carrier, Alive, Working, None
<1> QED
  BY <1>1, <1>3, <1>4, <1>5, <1>6, <1>7

\* A night is lost, has brought its brief or leaves it on its way.
LEMMA NextNights ==
  ASSUME LandInv, Next \/ UNCHANGED vars, RowSteps, TableSteps
  PROVE  Nights'
<1>1. IInv /\ Ages /\ Nights /\ TypeOK /\ time >= 3
  BY DEF LandInv, IInv, Ages
<1>2. time \in Nat /\ LastDone \in Nat /\ (time = 2 * LastDone + 1 \/ time = 2 * LastDone + 2)
  BY <1>1, DayDone
<1>3. \/ time' = time /\ LastDone' = LastDone
      \/ Tick /\ time' = time + 1 /\ time = 2 * LastDone + 1 /\ LastDone' = LastDone /\ ~due'
      \/ Tick /\ time' = time + 1 /\ time = 2 * LastDone + 2 /\ LastDone' = LastDone + 1 /\ due'
  BY <1>1, ClockSteps
<1>4. time' = time => (due' = due \/ Cron \/ MissCron)
  <2>1. time' = time => ~Tick
    BY <1>2 DEF Tick
  <2> QED
    BY <2>1 DEF TableSteps
<1>5. due' => time' = 2 * LastDone' + 1
  <2>1. CASE time' = time /\ LastDone' = LastDone
    <3>1. due' => due
      BY <1>4, <2>1, Zenon DEF Cron, MissCron
    <3> QED
      BY <1>1, <2>1, <3>1 DEF Nights
  <2> QED
    BY <1>2, <1>3, <2>1
<1>6. ASSUME NEW s \in sessions, time' >= 2 * s + 1
      PROVE  s \in lost' \/ s \in reports' \/ (due' /\ LastDone' = s) \/ \E r \in DOMAIN runs' : Carrier(r, s)'
  <2>1. s \in Nat /\ s \in Days /\ OnItsWay(s)
    BY <1>1 DEF TypeOK, Days, Nights
  <2>2. lost \subseteq lost' /\ (s \in reports => s \in reports')
    BY <2>1 DEF TableSteps
  <2>3. CASE time >= 2 * s + 1
    <3>1. CASE due /\ LastDone = s
      <4>1. time = 2 * s + 1 /\ ~Tick
        BY <1>1, <3>1 DEF Nights, Tick
      <4>2. time' = time /\ LastDone' = LastDone /\ (due' = due \/ Cron \/ MissCron)
        BY <1>3, <1>4, <4>1
      <4>3. CASE Cron
        <5>1. PICK r \in DOMAIN runs' : /\ runs'[r].at = "context" /\ runs'[r].started = time
                                        /\ runs'[r].night = LastDone
          BY <1>1, <4>3, CronCarries DEF Cron
        <5>2. Carrier(r, s)'
          BY <3>1, <4>1, <5>1 DEF Carrier, Alive
        <5> QED
          BY <5>2
      <4>4. CASE MissCron
        BY <3>1, <4>4 DEF MissCron
      <4> QED
        BY <3>1, <4>2, <4>3, <4>4, Zenon
    <3>2. CASE \E r \in DOMAIN runs : Carrier(r, s)
      BY <3>2, CarrierGoesOn
    <3> QED
      BY <2>1, <2>2, <2>3, <3>1, <3>2 DEF OnItsWay
  <2>4. CASE ~(time >= 2 * s + 1)
    <3>1. due' /\ LastDone' = s
      BY <1>2, <1>3, <1>6, <2>1, <2>4
    <3> QED
      BY <3>1
  <2> QED
    BY <2>3, <2>4
<1>7. sessions' = sessions
  BY DEF TableSteps
<1> QED
  BY <1>5, <1>6, <1>7 DEF Nights, OnItsWay

\* A session has its own brief the day after, unless its night's cron was missed or its night's run
\* ended before the brief: whichever collectors fail, whichever runs overlap, whatever other nights lost.
THEOREM SessionsLand == Spec => []SessionLands
<1>1. Init => LandInv
  BY InitIInv, InitAges, InitNights DEF LandInv
<1>2. LandInv /\ [Next]_vars => LandInv'
  <2> SUFFICES ASSUME LandInv, [Next]_vars PROVE LandInv'
    OBVIOUS
  <2>1. IInv /\ Ages /\ IInv'
    BY NextIInv DEF LandInv
  <2>2. RowSteps /\ NewRows /\ TableSteps
    BY <2>1, EveryStep
  <2>3. Ages'
    BY <2>1, <2>2, NextAges
  <2> QED
    BY <2>1, <2>2, <2>3, NextNights DEF LandInv
<1>3. LandInv => SessionLands
  <2> SUFFICES ASSUME LandInv, NEW s \in sessions, time >= 2 * s + 3, s \notin lost, s \notin reports
               PROVE  FALSE
    BY DEF SessionLands
  <2>1. TypeOK /\ Ages /\ Nights /\ s \in Nat /\ time \in Nat
    <3>1. TypeOK /\ sessions \subseteq Days
      BY DEF LandInv, IInv, TypeOK
    <3> QED
      BY <3>1, DayDone DEF LandInv, Days
  <2>2. ~(due /\ LastDone = s)
    BY <2>1 DEF Nights
  <2>3. ASSUME NEW r \in DOMAIN runs, Carrier(r, s) PROVE FALSE
    <3>1. runs[r].started = 2 * s + 1 /\ runs[r].started # None
      BY <2>1, <2>3 DEF Carrier, None
    <3>2. runs[r].started \in {time - 1, time}
      BY <2>1, <3>1 DEF Ages
    <3> QED
      BY <2>1, <3>1, <3>2
  <2>4. OnItsWay(s) /\ time >= 2 * s + 1
    BY <2>1 DEF Nights
  <2> QED
    BY <2>2, <2>3, <2>4 DEF OnItsWay
<1> QED
  BY <1>1, <1>2, <1>3, PTL DEF Spec

-----------------------------------------------------------------------------
\* What an ok of the health check says.

\* A run that may yet be ok, or is: the calendar told it its day.
Sure(r) == runs[r].status = "ok" \/ (runs[r].at \in Working /\ ~runs[r].issues)

\* Brief and scores of a day are of a run about it, and those of an ok run are stored.
Signed == /\ \A d \in Days : d \in scores \/ d \in reports =>
               \E r \in DOMAIN runs : runs[r].asOf = d
          /\ \A r \in DOMAIN runs : runs[r].status = "ok" =>
               /\ runs[r].asOf \in sessions
               /\ runs[r].asOf \in scores /\ runs[r].asOf \in reports

\* An earlier run that is still young started before the session a later run was about was over,
\* and so is about no later a session.
Ordered == \A r \in DOMAIN runs, q \in DOMAIN runs, s \in sessions :
             q < r /\ Sure(r) /\ s > runs[r].asOf =>
               /\ runs[q].started # None => 2 * s >= runs[q].started
               /\ runs[q].asOf <= s
HealthInv == IInv /\ Ages /\ Signed /\ Ordered

\* What health relies on holds of empty tables.
LEMMA InitHealth == Init => Signed /\ Ordered
<1> SUFFICES ASSUME Init PROVE Signed /\ Ordered
  OBVIOUS
<1>1. DOMAIN runs = {} /\ sessions \subseteq Days
  BY DEF Init
<1> QED
  BY <1>1 DEF Init, Signed, Ordered

\* A sure row was sure, or takes its day now from the calendar.
LEMMA WasSure ==
  ASSUME IInv, Ages, NEW r \in DOMAIN runs,
         runs'[r] = runs[r] \/ GoesOn(r) \/ TakesDay(r) \/ IsStored(r) \/ IsOver(r), Sure(r)'
  PROVE  \/ Sure(r) /\ runs'[r].asOf = runs[r].asOf
         \/ TakesDay(r) /\ IsLastSession(runs'[r].asOf)
<1>1. runs[r] \in Run
  BY RunsAreRuns DEF IInv
<1>2. CASE runs'[r] = runs[r]
  BY <1>2 DEF Sure
<1>3. CASE GoesOn(r)
  BY <1>3 DEF Sure, GoesOn, Working
<1>4. CASE TakesDay(r)
  <2>1. runs[r].status = "running"
    BY <1>4 DEF TakesDay, Ages, Alive
  <2> QED
    BY <1>4, <2>1 DEF TakesDay, Sure
<1>5. CASE IsStored(r)
  <2>1. Status(runs[r]) = "ok"
    BY <1>5 DEF IsStored, Sure, Working
  <2>2. ~runs[r].issues
    BY <2>1, <1>1 DEF Status
  <2> QED
    BY <1>5, <2>2 DEF IsStored, Sure, Working
<1>6. CASE IsOver(r)
  BY <1>6 DEF IsOver, Sure, Working
<1> QED
  BY <1>2, <1>3, <1>4, <1>5, <1>6

\* Scores and reports stay with a run about their day, and an ok run's stay stored.
LEMMA NextSigned ==
  ASSUME IInv, IInv', Ages, Signed, Next, RowSteps, NewRows, TableSteps
  PROVE  Signed'
<1>0. sessions' = sessions /\ sessions \subseteq Days /\ TypeOK
  BY DEF TableSteps, IInv, TypeOK
<1>1. ASSUME NEW r \in DOMAIN runs, NEW d \in Days, runs[r].asOf = d
      PROVE  r \in DOMAIN runs' /\ runs'[r].asOf = d
  <2>1. d # None
    BY DEF Days, None
  <2>2. ~TakesDay(r)
    BY <1>1, <2>1 DEF TakesDay, Ages
  <2> QED
    BY <1>1, <2>2 DEF RowSteps, GoesOn, IsStored, IsOver
<1>2. ASSUME NEW d \in Days, d \in scores' \/ d \in reports'
      PROVE  \E r \in DOMAIN runs' : runs'[r].asOf = d
  <2>1. PICK r \in DOMAIN runs : runs[r].asOf = d
    BY <1>2 DEF TableSteps, Signed
  <2> QED
    BY <1>1, <2>1
<1>3. ASSUME NEW r \in DOMAIN runs', runs'[r].status = "ok"
      PROVE  /\ runs'[r].asOf \in sessions
             /\ runs'[r].asOf \in scores' /\ runs'[r].asOf \in reports'
  <2>1. r \in DOMAIN runs
    BY <1>3 DEF NewRows
  <2>2. CASE runs[r].status = "ok"
    <3>1. /\ runs[r].asOf \in sessions
          /\ runs[r].asOf \in scores /\ runs[r].asOf \in reports
      BY <2>1, <2>2 DEF Signed
    <3>2. runs'[r].asOf = runs[r].asOf /\ runs[r].asOf \in Days
      BY <1>0, <1>1, <2>1, <3>1
    <3> QED
      BY <3>1, <3>2 DEF TableSteps
  <2>3. CASE runs[r].status # "ok"
    <3>1. runs[r].asOf \in sessions /\ runs[r].asOf \in scores
      BY <1>3, <2>1, <2>3, OkStep
    <3>2. IsStored(r)
      BY <1>3, <2>1, <2>3 DEF RowSteps, GoesOn, TakesDay, IsOver
    <3>3. runs[r].asOf \in reports' /\ runs'[r].asOf = runs[r].asOf
      BY <3>2 DEF IsStored
    <3> QED
      BY <1>0, <3>1, <3>3 DEF TableSteps
  <2> QED
    BY <2>2, <2>3
<1> QED
  BY <1>0, <1>2, <1>3 DEF Signed

\* Earlier runs stay about no later a session.
LEMMA NextOrdered ==
  ASSUME IInv, IInv', Ages, Ages', Ordered, RowSteps, NewRows, TableSteps
  PROVE  Ordered'
<1>0. sessions' = sessions /\ sessions \subseteq Nat /\ TypeOK /\ time >= 3
  BY DEF TableSteps, IInv, TypeOK, Days, Ages
<1>1. time \in Nat /\ LastDone \in Nat /\ (time = 2 * LastDone + 1 \/ time = 2 * LastDone + 2)
  BY <1>0, DayDone
<1> SUFFICES ASSUME NEW r \in DOMAIN runs', NEW q \in DOMAIN runs', NEW s \in sessions,
                    q < r, Sure(r)', s > runs'[r].asOf
             PROVE  /\ runs'[q].started # None => 2 * s >= runs'[q].started
                    /\ runs'[q].asOf <= s
  BY <1>0 DEF Ordered
<1>2. r \in DOMAIN runs
  BY DEF NewRows, Sure, Working
<1>3. q \in DOMAIN runs
  <2>1. r \in Nat /\ r <= Len(runs) /\ Len(runs) \in Nat
    BY <1>0, <1>2, RowTypes DEF TypeOK
  <2> QED
    BY <2>1 DEF NewRows
<1>4. /\ runs'[r] = runs[r] \/ GoesOn(r) \/ TakesDay(r) \/ IsStored(r) \/ IsOver(r)
      /\ runs'[q] = runs[q] \/ GoesOn(q) \/ TakesDay(q) \/ IsStored(q) \/ IsOver(q)
  BY <1>2, <1>3 DEF RowSteps
<1>5. /\ s \in Nat /\ runs[q].asOf \in Nat /\ runs[q].started \in Nat
      /\ runs[q].asOf <= LastDone /\ runs[q].started <= time
      /\ runs[q].started # None => runs[q].started >= time - 1
  <2>1. s \in Nat /\ runs[q].asOf \in Nat /\ runs[q].started \in Nat
    BY <1>0, <1>3, RowTypes
  <2> QED
    BY <1>1, <1>3, <2>1 DEF Ages, None
<1>6. runs'[q].started \in {None, runs[q].started}
  BY <1>4 DEF GoesOn, TakesDay, IsStored, IsOver
<1>7. runs'[q].asOf = runs[q].asOf \/ TakesDay(q)
  BY <1>4 DEF GoesOn, IsStored, IsOver
<1>8. CASE TakesDay(r) /\ IsLastSession(runs'[r].asOf)
  <2>1. s > LastDone
    <3>1. runs'[r].asOf \in Nat
      BY <1>8, <1>0 DEF IsLastSession
    <3> QED
      BY <3>1, <1>0, <1>1, <1>5, <1>8 DEF IsLastSession
  <2>2. r # q
    <3>1. r \in Nat
      BY <1>0, <1>2, RowTypes
    <3> QED
      BY <3>1
  <2>3. runs'[q].asOf <= LastDone
    <3>1. CASE TakesDay(q)
      BY <1>1, <3>1 DEF TakesDay, IsLastSession
    <3> QED
      BY <3>1, <1>5, <1>7
  <2>4. runs'[q].asOf \in Nat
    <3>1. CASE TakesDay(q)
      BY <3>1 DEF TakesDay, Days
    <3> QED
      BY <3>1, <1>5, <1>7
  <2> QED
    BY <1>1, <1>5, <1>6, <2>1, <2>3, <2>4 DEF None
<1>9. CASE Sure(r) /\ runs'[r].asOf = runs[r].asOf
  <2>1. /\ runs[q].started # None => 2 * s >= runs[q].started
        /\ runs[q].asOf <= s
    BY <1>2, <1>3, <1>9 DEF Ordered
  <2>2. CASE TakesDay(q)
    <3>1. runs[q].started # None
      BY <1>3, <2>2 DEF TakesDay, Ages, Alive
    <3>2. LastDone <= s
      BY <1>1, <1>5, <2>1, <3>1
    <3>3. runs'[q].asOf \in Nat /\ runs'[q].asOf <= LastDone
      BY <2>2, <1>1 DEF TakesDay, IsLastSession, Days
    <3> QED
      BY <1>1, <1>5, <1>6, <2>1, <3>2, <3>3
  <2> QED
    BY <1>6, <1>7, <2>1, <2>2
<1> QED
  BY <1>2, <1>4, <1>8, <1>9, WasSure

\* The newest of some days.
LEMMA MaxOfDays ==
  ASSUME NEW N \in Nat, NEW S \in SUBSET (0..N), S # {}
  PROVE  Max(S) \in S /\ \A x \in S : x <= Max(S)
<1> DEFINE T == {N - x : x \in S}
<1>1. T \subseteq Nat
  <2>1. ASSUME NEW x \in S PROVE N - x \in Nat
    <3>1. x \in 0..N
      OBVIOUS
    <3> QED
      BY <3>1
  <2> QED
    BY <2>1
<1>2. T # {}
  OBVIOUS
<1>3. PICK least \in T : \A y \in T : ~(<<y, least>> \in OpToRel(<, Nat))
  <2> HIDE DEF T
  <2> QED
    BY <1>1, <1>2, NatLessThanWellFounded, WFMin, Zenon
<1>4. \A y \in T : ~(y < least)
  <2> HIDE DEF T
  <2>1. \A y \in T : y \in Nat /\ least \in Nat
    BY <1>1
  <2> QED
    BY <2>1, <1>3, Zenon DEF OpToRel
<1>5. PICK x \in S : least = N - x
  OBVIOUS
<1>6. \A y \in S : ~(N - y < N - x) /\ y \in 0..N /\ x \in 0..N
  BY <1>4, <1>5
<1>7. \A y \in S : x >= y
  BY <1>6
<1> HIDE DEF T
<1> QED
  BY <1>7 DEF Max

\* The newest day of a set is its greatest, none of an empty one.
LEMMA NewestOfDays ==
  ASSUME NEW S \in SUBSET Days
  PROVE  /\ Newest(S) \in Nat /\ Newest(S) \in S \union {None}
         /\ \A x \in S : x <= Newest(S)
<1>1. MaxDay \in Nat /\ S \union {None} \in SUBSET (0..MaxDay) /\ S \union {None} # {}
  BY DailyAssumption DEF Days, None
<1>2. Newest(S) \in S \union {None} /\ \A x \in S \union {None} : x <= Newest(S)
  BY <1>1, MaxOfDays, Zenon DEF Newest
<1> QED
  BY <1>1, <1>2

\* Where these hold, an ok of health is honest.
LEMMA HealthHolds ==
  ASSUME HealthInv
  PROVE  HealthIsHonest
<1> DEFINE exp == Expected(TRUE)
<1> SUFFICES ASSUME exp # None, Health(TRUE) = "ok"
             PROVE  /\ \A t \in active \union {Spy} : \E d \in Days : d >= exp /\ t \in priced[d]
                    /\ \/ \E d \in sessions : d >= exp /\ d \in reports /\ d \in scores
                       \/ Last.status = "running"
  BY DEF HealthIsHonest
<1>1. ~Errors(exp) /\ ~Warnings(exp)
  BY DEF Health
<1>2. exp \in sessions
  <2> DEFINE S == {s \in sessions : s <= time \div 2 - 1}
  <2>1. S \in SUBSET Days
    BY DEF HealthInv, IInv, TypeOK
  <2>2. exp = Newest(S)
    BY DEF Expected, Newest
  <2> HIDE DEF S
  <2>3. exp \in S \union {None}
    BY <2>1, <2>2, NewestOfDays
  <2> QED
    BY <2>3 DEF S
<1> HIDE DEF exp
<1>3. exp \in Nat /\ exp \in Days /\ sessions \subseteq Days /\ sessions \subseteq Nat
  BY <1>2 DEF HealthInv, IInv, TypeOK, Days
<1>4. /\ PricesMax # None /\ PricesMax >= exp /\ ScoresMax # None /\ ScoresMax >= exp
      /\ ReportMax # None /\ ReportMax >= exp
  <2>1. \A newest \in {PricesMax, ScoresMax, ReportMax} : newest # None /\ ~(newest < exp)
    BY <1>1 DEF Errors
  <2>2. PricesMax \in Nat /\ ScoresMax \in Nat /\ ReportMax \in Nat
    BY NewestOfDays DEF PricesMax, ScoresMax, ReportMax, HealthInv, IInv, TypeOK
  <2> QED
    BY <1>3, <2>1, <2>2
<1>5. \A t \in active \union {Spy} : \E d \in Days : d >= exp /\ t \in priced[d]
  <2>1. PricesMax \in Days /\ Spy \in priced[PricesMax]
    <3>1. PricesMax \in {d \in Days : Spy \in priced[d]} \union {None}
      BY NewestOfDays DEF PricesMax
    <3> QED
      BY <3>1, <1>4
  <2>2. active \subseteq priced[PricesMax]
    BY <1>1 DEF Warnings
  <2> QED
    BY <1>4, <2>1, <2>2
<1>6. /\ ScoresMax \in Days /\ ScoresMax \in scores
      /\ ReportMax \in Days /\ ReportMax \in reports
  <2>1. /\ ScoresMax \in scores \union {None}
        /\ ReportMax \in reports \union {None}
    BY NewestOfDays DEF ScoresMax, ReportMax, HealthInv, IInv, TypeOK
  <2>2. scores \subseteq Days /\ reports \subseteq Days
    BY DEF HealthInv, IInv, TypeOK
  <2> QED
    BY <2>1, <2>2, <1>4
<1>7. /\ \E r \in DOMAIN runs : runs[r].asOf = ScoresMax
      /\ \E r \in DOMAIN runs : runs[r].asOf = ReportMax
  BY <1>6 DEF HealthInv, Signed
<1>8. /\ runs \in Seq(Run) /\ Len(runs) \in DOMAIN runs /\ Len(runs) \in Nat /\ TypeOK
      /\ runs # <<>>
  <2>1. runs \in Seq(Run) /\ TypeOK
    BY DEF HealthInv, IInv, TypeOK
  <2>2. PICK r \in DOMAIN runs : TRUE
    BY <1>7
  <2>3. r \in 1..Len(runs) /\ Len(runs) \in Nat
    BY <2>1
  <2> QED
    BY <2>1, <2>3
<1>9. Last \in Run /\ Last.status \in {"running", "ok"}
  <2>1. Last \in Run
    BY <1>8, RunsAreRuns DEF Last
  <2>2. Last.status # "failed" /\ Last.status # "degraded"
    BY <1>1, <1>8 DEF Errors, Warnings
  <2> QED
    BY <2>1, <2>2 DEF Run
<1>10. CASE Last.status = "ok"
  <2> DEFINE day == Last.asOf
  <2>1. day \in sessions /\ day \in scores /\ day \in reports
    BY <1>8, <1>10 DEF HealthInv, Signed, Last
  <2>2. day \in Nat
    BY <2>1, <1>3
  <2>3. CASE day >= exp
    BY <1>5, <2>1, <2>3
  <2>4. CASE day < exp
    <3>1. \A q \in DOMAIN runs : runs[q].asOf <= exp
      <4>1. ASSUME NEW q \in DOMAIN runs, q # Len(runs) PROVE runs[q].asOf <= exp
        <5>1. q < Len(runs)
          BY <4>1, <1>8, RowTypes
        <5>2. Sure(Len(runs)) /\ exp > runs[Len(runs)].asOf
          BY <1>10, <2>2, <2>4, <1>3 DEF Sure, Last
        <5> QED
          BY <1>2, <1>8, <5>1, <5>2 DEF HealthInv, Ordered
      <4>2. runs[Len(runs)].asOf <= exp
        BY <2>2, <2>4, <1>3 DEF Last
      <4> QED
        BY <4>1, <4>2
    <3>2. ScoresMax <= exp /\ ReportMax <= exp
      BY <1>7, <3>1
    <3>3. ScoresMax = exp /\ ReportMax = exp
      BY <1>3, <1>4, <1>6, <3>2 DEF Days
    <3>4. exp \in sessions /\ exp >= exp /\ exp \in reports /\ exp \in scores
      BY <1>2, <1>3, <1>6, <3>3
    <3> QED
      BY <1>5, <3>4
  <2> HIDE DEF day
  <2>5. day >= exp \/ day < exp
    BY <1>3, <2>2
  <2> QED
    BY <2>3, <2>4, <2>5, Zenon
<1> QED
  BY <1>5, <1>9, <1>10

\* An ok of the health check is true: the session that is due is priced for every watched ticker,
\* and it or a later one is briefed and scored, or the newest run is under way.
THEOREM HealthIsTrue == Spec => []HealthIsHonest
<1>1. Init => HealthInv
  BY InitIInv, InitAges, InitHealth DEF HealthInv
<1>2. HealthInv /\ [Next]_vars => HealthInv'
  <2> SUFFICES ASSUME HealthInv, [Next]_vars PROVE HealthInv'
    OBVIOUS
  <2>1. IInv /\ Ages /\ Signed /\ Ordered /\ IInv'
    BY NextIInv DEF HealthInv
  <2>2. CASE Next
    <3>1. RowSteps /\ NewRows /\ TableSteps
      BY <2>1, EveryStep
    <3>2. Ages'
      BY <2>1, <3>1, NextAges
    <3> QED
      BY <2>1, <2>2, <3>1, <3>2, NextSigned, NextOrdered DEF HealthInv
  <2>3. CASE UNCHANGED vars
    BY <2>1, <2>3 DEF HealthInv, vars, Ages, LastDone, Signed, Ordered, Sure
  <2> QED
    BY <2>2, <2>3
<1> QED
  BY <1>1, <1>2, HealthHolds, PTL DEF Spec
=============================================================================

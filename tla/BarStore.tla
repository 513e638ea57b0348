------------------------------ MODULE BarStore ------------------------------
(***************************************************************************)
(* intraday.bar_versions and its two writers: the recorder's poll loop      *)
(* (intraday/recorder.py) and the gap repair workflow                       *)
(* (workflows/intraday-gap-repair.json). The provider publishes the bars of *)
(* each minute late and revises them; the recorder moves a cursor over what *)
(* it saw, dies and starts again; repair runs look for what is missing.     *)
(*                                                                           *)
(* A bar is named by its symbol and the minute it ends at, the open being   *)
(* minute 0; its payload is its revision, 0 where there is no bar.          *)
(*                                                                           *)
(* RecorderLease is the other half of the recorder and shares no variable   *)
(* with this one; names are distinct, so that a module may extend both.      *)
(***************************************************************************)
EXTENDS Integers, FiniteSets, FiniteSetsExt

CONSTANTS Symbols,
          Runs,         \* repair executions that can be under way at once
          Warmup,       \* warmup_minutes
          Lag,          \* minutes after its end a bar may appear
          MaxRev,       \* bound: revisions of a bar
          SessionEnd,   \* close + 30 minutes
          MaxNow,       \* bound: the last minute
          WindowLength, \* minutes in a due_window
          MaxFails      \* bound: repair executions that fail

Minutes == 1 .. MaxNow
Windows == 0 .. MaxNow \div WindowLength
Bars == [Symbols -> [Minutes -> 0 .. MaxRev]]
NoBars == [s \in Symbols |-> [m \in Minutes |-> 0]]

ASSUME BarAssumption ==
  /\ {Warmup, Lag, MaxNow, MaxFails} \subseteq Nat
  /\ {MaxRev, WindowLength} \subseteq Nat \ {0}
  /\ SessionEnd \in Minutes

VARIABLES now,     \* minutes since the open
          feed,    \* the provider's bars
          store,   \* bar_versions: the revision stored
          rec,     \* the recorder: where it stands, its cursor and answer
          run,     \* the repair executions
          leased,  \* the due_windows whose ingestion_jobs row is leased
          fails

barVars == <<now, feed, store, rec, run, leased, fails>>

Down == [pc |-> "down", since |-> 0, start |-> 0, got |-> NoBars]
Off == [pc |-> "off", syms |-> {}, from |-> 0, to |-> 0, window |-> 0, got |-> NoBars]

Recording == [pc: {"down", "poll", "write"}, since: - Warmup .. MaxNow,
              start: - Warmup - 1 .. MaxNow, got: Bars]
Execution == [pc: {"off", "claim", "fetch", "insert"}, syms: SUBSET Symbols,
              from: 0 .. MaxNow, to: 0 .. MaxNow, window: Windows, got: Bars]

BarTypeOK ==
  /\ now \in 0 .. MaxNow
  /\ feed \in Bars
  /\ store \in Bars
  /\ rec \in Recording /\ rec.start >= rec.since - 1
  /\ run \in [Runs -> Execution]
  /\ leased \subseteq Windows
  /\ fails \in 0 .. MaxFails

BarInit ==
  /\ now = 0 /\ fails = 0
  /\ feed = NoBars
  /\ store = NoBars
  /\ rec = Down
  /\ run = [r \in Runs |-> Off]
  /\ leased = {}

-----------------------------------------------------------------------------
(* The provider and the clock *)

Publish(s, m) ==
  /\ feed[s][m] = 0
  /\ now \in m .. m + Lag
  /\ feed' = [feed EXCEPT ![s][m] = 1]
  /\ UNCHANGED <<now, store, rec, run, leased, fails>>

Revise(s, m) ==
  /\ feed[s][m] \in 1 .. MaxRev - 1
  /\ feed' = [feed EXCEPT ![s][m] = @ + 1]
  /\ UNCHANGED <<now, store, rec, run, leased, fails>>

ClockTicks ==
  /\ now < MaxNow
  /\ now' = now + 1
  /\ UNCHANGED <<feed, store, rec, run, leased, fails>>

\* What the provider answers for symbols and bar ends.
Answer(syms, ends) ==
  [s \in Symbols |-> [m \in Minutes |-> IF s \in syms /\ m \in ends THEN feed[s][m] ELSE 0]]

\* INSERT ... ON CONFLICT DO NOTHING on (symbol, bar_end, interval, version),
\* version being 1 in every insert.
Inserted(got) ==
  [s \in Symbols |-> [m \in Minutes |-> IF store[s][m] = 0 THEN got[s][m] ELSE store[s][m]]]

-----------------------------------------------------------------------------
(* The recorder. since is history: the first minute this process asked for. *)

RecorderStart ==
  /\ rec.pc = "down"
  /\ rec' = [Down EXCEPT !.pc = "poll", !.since = now - Warmup, !.start = now - Warmup]
  /\ UNCHANGED <<now, feed, store, run, leased, fails>>

\* The bars that began at start or later.
FetchBars ==
  /\ rec.pc = "poll"
  /\ rec' = [rec EXCEPT !.pc = "write", !.got = Answer(Symbols, rec.start + 1 .. MaxNow)]
  /\ UNCHANGED <<now, feed, store, run, leased, fails>>

Got == {m \in Minutes : \E s \in Symbols : rec.got[s][m] > 0}

\* The next start: two minutes before the last end of any symbol, if there was
\* a bar. Mutant: an overlap of one minute.
ShortOverlap == IF Got = {} THEN rec.start ELSE Max(Got) - 1
NextStart == IF Got = {} THEN rec.start ELSE Max(Got) - 2

\* The insert and the cursor; the quotes of the poll are not modelled. A poll
\* whose request fails ("a dead feed degrades the recorder") changes nothing.
WriteBars ==
  /\ rec.pc = "write"
  /\ store' = Inserted(rec.got)
  /\ rec' = [rec EXCEPT !.pc = "poll", !.start = NextStart, !.got = NoBars]
  /\ UNCHANGED <<now, feed, run, leased, fails>>

\* Killed, or a database error, which the loop does not survive.
RecorderDies ==
  /\ rec.pc # "down"
  /\ rec' = Down
  /\ UNCHANGED <<now, feed, store, run, leased, fails>>

-----------------------------------------------------------------------------
(* Gap repair *)

\* The expected minutes: up to two minutes ago.
Grid == 1 .. Min({SessionEnd, now}) - 2
Missing(s) == {m \in Grid : store[s][m] = 0}

\* Find gaps and Plan repair: one window over the gaps of all symbols.
PlanRepair(r) ==
  LET syms == {s \in Symbols : Missing(s) # {}}
      gaps == UNION {Missing(s) : s \in syms}
  IN /\ run[r].pc = "off"
     /\ syms # {}
     /\ run' = [run EXCEPT ![r] = [Off EXCEPT !.pc = "claim", !.syms = syms, !.from = Min(gaps),
                                     !.to = Max(gaps), !.window = now \div WindowLength]]
     /\ UNCHANGED <<now, feed, store, rec, leased, fails>>

\* The row of the due_window is free, or its lease ran out.
ClaimRepair(r) ==
  /\ run[r].pc = "claim"
  /\ \/ /\ run[r].window \notin leased
        /\ leased' = leased \cup {run[r].window}
        /\ run' = [run EXCEPT ![r].pc = "fetch"]
     \/ /\ run[r].window \in leased
        /\ run' = [run EXCEPT ![r] = Off]
        /\ UNCHANGED leased
  /\ UNCHANGED <<now, feed, store, rec, fails>>

\* from and to are ends of bars, the request is for begins: from - 1 to to.
\* Mutant: the start is not widened.
NarrowEnds(r) == run[r].from + 1 .. run[r].to + 1
RepairEnds(r) == run[r].from .. run[r].to + 1

FetchGaps(r) ==
  /\ run[r].pc = "fetch"
  /\ run' = [run EXCEPT ![r].pc = "insert", ![r].got = Answer(run[r].syms, RepairEnds(r))]
  /\ UNCHANGED <<now, feed, store, rec, leased, fails>>

\* Insert missing + close job: the job is closed by its id and keeps its lease.
InsertMissing(r) ==
  /\ run[r].pc = "insert"
  /\ store' = Inserted(run[r].got)
  /\ run' = [run EXCEPT ![r] = Off]
  /\ UNCHANGED <<now, feed, rec, leased, fails>>

\* Nothing releases the lease of an execution that failed.
RepairFails(r) ==
  /\ run[r].pc # "off"
  /\ fails < MaxFails
  /\ fails' = fails + 1
  /\ run' = [run EXCEPT ![r] = Off]
  /\ UNCHANGED <<now, feed, store, rec, leased>>

\* 240 seconds went by.
LeaseExpires(w) ==
  /\ w \in leased
  /\ leased' = leased \ {w}
  /\ UNCHANGED <<now, feed, store, rec, run, fails>>

-----------------------------------------------------------------------------
Recorder == RecorderStart \/ FetchBars \/ WriteBars \/ RecorderDies
Repair(r) == PlanRepair(r) \/ ClaimRepair(r) \/ FetchGaps(r) \/ InsertMissing(r)

BarNext ==
  \/ \E s \in Symbols, m \in Minutes : Publish(s, m) \/ Revise(s, m)
  \/ ClockTicks
  \/ Recorder
  \/ \E r \in Runs : Repair(r) \/ RepairFails(r)
  \/ \E w \in Windows : LeaseExpires(w)

BarSpec == BarInit /\ [][BarNext]_barVars

\* The repair is triggered every five minutes and its steps run; the recorder
\* may be down for the whole session.
FairBarSpec ==
  /\ BarSpec
  /\ WF_barVars(ClockTicks)
  /\ \A r \in Runs : WF_barVars(Repair(r))
  /\ \A w \in Windows : WF_barVars(LeaseExpires(w))

-----------------------------------------------------------------------------
(* Correctness *)

\* The overlap is for late bars: a recorder that is up has stored every
\* published bar its cursor has left behind, though one cursor serves all
\* symbols. It holds while no bar is later than a minute.
OverlapCovers ==
  rec.pc # "down" =>
    \A s \in Symbols, m \in Minutes :
      rec.since < m /\ m <= rec.start /\ feed[s][m] > 0 => store[s][m] > 0

\* A session's bar that the provider has is stored in the end, with the
\* recorder dead and repairs failing, racing and losing their lease.
GapsGetFilled ==
  \A s \in Symbols, m \in 1 .. SessionEnd - 2 : feed[s][m] > 0 ~> store[s][m] > 0
=============================================================================

# Formal verification of Stock Intel

TLA+ models of Stock Intel's own logic, checked by TLC on small instances and, for
the parts named below, proved with TLAPS for every value of the constants. Every
definition is translated from the source; `PROJECT.json` says which lines each one
stands for, lists the runs, the mutants that show each property can fail, the
hazards the properties are for, and the places where the code does something other
than its documentation says.

    tlc -workers 2 -config service.cfg MCAnalystService.tla
    tlapm AnalystProofs.tla

## 1. Inventory

Stock Intel is an n8n instance, a Postgres database, a FastAPI application with an
LLM analyst, and an optional intraday recorder process. They interact through the
database: every component below reads rows that another one wrote a moment or a day
earlier, and none of them holds a transaction across two of its steps.

| Component | State it keeps | Operations | Talks to |
| --- | --- | --- | --- |
| Analyst service (`analyst/service.py`, `main.py`) | `analyses` rows; in memory the map `_inflight`, the executor's queue, the spend each job was queued with | `start_analysis`, `start_entry_signals`, `_run`, `_run_entry`, `_persist`, `_persist_entry`, `_fail`, `reap_orphans` | API handlers, n8n (HTTP), the graph (calls it on the worker), `entry_watch`, `entry_signals` |
| Analyst graph (`analyst/graph.py`) | the graph state of one pass: turns, cost, drafts, attempts | plan, gather and its tools, draft, critique, approval, persist | model providers, the tools, callbacks `on_turn` and `persist` into the service |
| Analyst tools (`analyst/tools.py`) | call counters | query templates, guarded SQL, calculator | database (read-only role) |
| Evidence and entry validation (`analyst/evidence.py`, `entry.py`) | none | grounding of claims, levels, proposed zones | graph, service |
| Entry watch (`api.py`, `entries.py`, `sql/008`-`010`) | `entry_watch`, `entry_watch_history`, `entry_signals` | add, patch, drop, accept a zone, the rule layer, rows for holdings | analyst service, positions |
| Watchlist and positions (`api.py`, `sql/003`) | `watchlist` (active, tags), `positions` and histories | add, patch and retire a ticker, open and close a position, the trigger that derives the tag `holding` | entry watch, pipelines |
| Intraday recorder (`intraday/`, `sql/011`) | its lease in `ingestion_jobs`; `bar_versions`, `source_events`; a cursor in memory | claim, renew, poll, write, exit | Alpaca, gap repair |
| Gap repair (`workflows/intraday-gap-repair.json`) | its jobs in `ingestion_jobs`; `bar_versions` | find gaps, claim a window, fetch, insert missing, close the job | Alpaca, the recorder's rows |
| Daily pipeline (`workflows/daily.json`, `collect-prices.json`, `backfill.json`) | `runs`, `reports`, `scores_daily`, `prices_daily` | start, pick the session, collect, score, store brief and verdict, ask for the analysis; backfill of a new ticker | providers, the app's HTTP API, the watchlist |
| Other workflows (`workflows/*.json`) | news, indicators, fundamentals, `sessions`, incidents | the other collectors, session preparation, intraday health, a nightly call of the entry pass | providers, the app's HTTP API |
| Providers, clients (`providers.py`, `finnhub.py`, `alpaca.py`, `openrouter.py`, `n8n.py`) | caches with a time to live | validate, list models, quotes, chat | external services |
| Health (`health.py`) | a calendar cache | evaluate freshness and the last run | database, Alpaca calendar |
| Migrations, bootstrap (`scripts/migrate.py`, `bootstrap.py`) | `schema_migrations`, provider registry and model references in `config` | apply what is new, refuse what changed, point the analyst's roles at `LLM_PROVIDER` | database; the Settings screen writes the same rows |
| Workflow deployment (`scripts/deploy_workflow.py`, `bootstrap.py`) | `n8n_workflows.json`, the ledger of ids; drafts and published versions on n8n | send a workflow behind the canvas gate, activate, read back; import all at their pinned ids and publish | n8n's API, whose editor writes the same workflows |
| Canvas (`scripts/canvas/zone_layout.py`, `layout_check.py`) | the stickies and positions in a workflow file | frame and arrange zones, judge the result | the gate of the deployment |
| Settings screen (`app/static/ui.html`) | a copy of registry and references as of its opening | add, remove, choose, save | `api.py`, `providers.py` |
| Database access, auth, config, the rest of the user interface, backtests, probes and one-shot queries | settings, a pool | thin | everything |

### What is hard here, and what correct means

* **Analyst service.** Request threads race for a key under a lock but hand the job
  over outside it; one worker thread pops keys and, after a daily pass, queues the
  entry pass itself; any database write can raise, the error handler's too; the
  process can die anywhere, and only the `status` column survives. Correct: a key
  is never left behind, two passes under one key never run, a finished row stays
  finished, every accepted pass ends, and the service is one abstract ledger of
  passes.
* **Analyst graph.** Three budgets, a critic with two retries and a fallback, one
  retried draft, exceptions swallowed in some places and not in others. Correct: a
  pass makes a bounded number of model calls and always leaves, what is stored as
  ok is grounded, an unchecked analysis says so.
* **Recorder lease.** Processes stall for longer than their lease, die and restart.
  Correct: a stalled process writes at most one late poll, nobody takes a live lease,
  a fenced writer exits, a dead owner does not lock the session for good.
* **Bars.** Bars arrive late and are revised, a cursor follows the newest bar of any
  symbol, repairs overlap and outlive their lease. Correct: a late bar is not
  skipped, gaps get filled.
* **Evidence.** Tool results replace one another while the model drafts; a draft
  passes the critic's marks, a citation check and a check of zones. Correct: a zone
  that may be written into a user's row rests on prices that were shown or on a
  sentence that survived; what is accepted keeps a third; marks only take away.
* **Daily pipeline and health.** Cron and button start runs beside each other, six
  collectors fail one by one, an execution dies at any node and leaves its row, the
  watchlist moves while a run is under way; health puts together dates that
  different runs wrote. Correct: a run called ok is whole, a session gets its brief
  unless its own night was lost, and health does not say ok when prices since the session
  that is due, its scores or its brief are wanting. At this commit every night is lost,
  for the script that builds the brief does not compile (section 5).
* **Setup.** Migrations are recorded after they ran, bootstrap writes four rows one by
  one, and both die in between; the Settings screen writes the same rows from what it
  read when it was opened. Correct: what is recorded is in force, a changed file stops
  everything, roles resolve to registered providers, an interrupted seeding is
  finished by the next.
* **Deployment and canvas.** A deploy is up to five calls to n8n, any of which may fail
  while its author only sees what is printed; a second deploy, a bootstrap or the editor
  may write the same workflow in between, and n8n runs another version than it shows.
  Generator and check measure one canvas with different tolerances. Correct: what a
  deploy verified is what runs, deploys do not multiply a workflow, a deploy that nobody
  disturbs passes its own read-back, and what is generated passes the gate.
* **Watchlist, positions, entry watch.** Handlers read, decide and then write in
  another statement; a trigger derives the tag from a position that is not committed yet;
  the analyst's pass writes rows that the user edits meanwhile. Correct: the tag comes
  back, user zones and hand-set states survive a pass, an add row enters below cost only.

## 2. Modules

Each MC module only extends its specification and defines the sets of its instances.

| Module | Models | State and actions |
| --- | --- | --- |
| `PassLedger` | what the service promises | passes are accepted, started, ended under keys that are held and freed; stop and resume |
| `AnalystService` | `analyst/service.py`, the reaper in `main.py` | `inflight` is `_inflight`, `queue` the executor's queue, `caller` the point each thread has reached in `start_analysis` or the batch loop, `at` and `job` the worker's place in `_run` and `_run_entry`, `spent` the spend bound into each job. Lock, insert and submit are separate steps, as are the two transactions of the entry pass |
| `PassRun` | one pass as the service sees it | calls, then exactly one way out |
| `AnalystGraph` | `analyst/graph.py` | `node` is the running node; one action per node, model call or tool call. A draft is its number of claims and how many the code strips |
| `RecorderLease` | lease in `intraday/db.py`, loop in `recorder.py` | one action per database call of the loop, a clock that runs leases down, midnight, deaths and starts |
| `BarStore` | the poll loop's rows and cursor, gap repair | the provider publishes late and revises; the recorder stamps, fetches and writes; repair executions plan, claim, fetch and insert |
| `Holdings` | watchlist row, position, tag | one action per statement of the handlers and of `seed_watchlist.py`; the PUT and the DELETE of a position are each a statement, whose trigger may lock the watchlist row, and a commit. `crashed` and `strayed` are history |
| `EntryWatch` | the `entry_watch` row, `proposed_zone`, `_persist_entry` | handlers check, then write; the pass reads, takes its caps by whatever discount is set, writes |
| `RuleSignal` | `rule_signal`, `zone_distance`, `add_zone_cap` | pure operators over one row; `EntryWatch` extends it, so that every reachable row is read at every price |
| `Canvas` | `zone_layout.py`, `layout_check.py` | operators on a canvas: `Frame`, `Levelled` and `Generated` make the stickies of a spec and move its nodes, `Errors` is what the check reports |
| `Deploy` | `deploy_workflow.py`, the import and activation of `bootstrap.py`, n8n as they use it | `server` is n8n's workflows with draft and live version, `ledger` the file of ids, `job` each run of the script, `boot` the bootstrap; one action per call. `file` is the canvas until it is first sent, judged by `Canvas` |
| `Grounding` | `levels_for`, `validate_draft`, `validate_signals`, the evidence of `tools.py`, draft and critique of `graph.py` | `pool` is the evidence by id, `shown` remembers what was shown, `clean` is the cleaned draft with its counts; one action per tool call, for the draft and for the critique |
| `Setup` | `migrate.py`, `bootstrap.py`, the effects of seven SQL files, models and providers of the Settings screen | `ledger` is `schema_migrations`, `config` registry and references, `at` the scripts' place, `page` and `form` the screen and its copy; one action per committed statement |
| `DailyRun` | `daily.json`, `collect-prices.json`, the backfill, `health.py` | a run is a row of `runs` with its execution; one action per node that reads or writes the database; `priced`, `scores`, `reports`, `analysed` are the tables health reads; `lost`, history, are the nights without a brief of their own; `Health` is `evaluate` over `gather` |

`AnalystService` abstracts the graph inside a pass to its turns and its way out;
`AnalystGraph` is shown to implement that abstraction (`PassRun`). `EntryWatch` and
`RuleSignal` are composed: the pass caps zones with `Cap`, and the rules judge the row
that handlers, pass and position changes made. `Deploy` composes the canvas gate with
the deploy behind it. Modules that are proved about together share a module of theorems,
so the definitions of the second have names of their own (`BarSpec`, `HoldingsNext`,
`groundingVars` and so on):

| Theorems | About |
| --- | --- |
| `AnalystProofs` | `AnalystService`, `Grounding` |
| `AnalystGraphProofs` | `AnalystGraph` |
| `IntradayProofs` | `RecorderLease`, `BarStore` |
| `TickerProofs` | `EntryWatch`, `Holdings` |
| `DailyRunProofs` | `DailyRun` |
| `SetupProofs` | `Setup` |
| `CanvasProofs` | `Canvas` |
| `DeployProofs` | `Deploy`, with `CanvasProofs` |

### Modelling decisions

* No statement in the watchlist, position and entry code relates two tickers, so
  `Holdings` and `EntryWatch` are about one. The batches of the entry pass, where
  tickers do meet, are in `AnalystService`.
* Postgres runs at READ COMMITTED: a statement sees what is committed when it
  starts, and an UPDATE waits for the lock of a row and looks at it again. A
  handler's read and its write are therefore two actions. The PUT and the DELETE of a
  position are split into statement and commit, because others see the position only
  after the commit but wait for the lock of the watchlist row, if the trigger took it, from
  the statement on. Where a transaction is one statement on one row nobody can tell the two
  apart, and it is one step.
* Costs are counted in model turns, each answered turn costing 1. Token counts and
  prices per token are data.
* A lease is what is left of it (`RecorderLease`) or may end at any moment
  (`BarStore`). The uuid of a process that is gone is `Departed`: it never recurs.
* A claim that returns no row ends the n8n execution, as n8n does with an empty item
  list. `Deploy` states what else of n8n the code relies on: a PUT to an active workflow
  publishes it, to activate brings back the version published last if there is one, an
  import leaves the workflow inactive, and the editor offers Publish for any draft, that of
  a copy no ledger names too.
* Of a stored bar's `available_at` only "before the bar's end?" is kept.
* `RuleSignal` works on whole prices; fractions are in parts of `Whole`. The discount is
  any that the Settings page lets pass, from 0 to a half (ui.html:2493), each read of it
  may find another, and the cap is rounded to the nearest price as entries.py:148 rounds
  to the nearest ten-thousandth. A tie goes up, where Python takes the even neighbour.
* `Grounding` has one list of items where a draft has three that are treated alike,
  one level to a sentence, and a name and the label "Invalidation:" for its text.
  Prices are whole numbers. Quotes and the age of evidence are left out.
* `Setup` has the files whose effects meet, one run of the scripts and one open page
  at a time. Files are edited between runs; a visit edits registry and roles once
  each. The flag `enabled` and the catalogs are left out, and with them the built-in
  menu that the screen shows when OpenRouter's catalog cannot be reached: so "claude" is not
  in the menu of the default provider, whose models are named vendor/model.
* `DailyRun` counts weekdays, and cuts them at 18:00 ET, when `Build context` takes a
  session for done, and 06:45 ET, when `due_at` asks for its brief. Any set of weekdays with
  the first may be the exchange's calendar. The collectors are one action, since only the
  prices are read again here; the provider returns a bar for any of the symbols at any of
  the sessions up to the day, as for a ticker that was halted or is newly listed, and is
  asked again by every run. What `Build brief` does is the constant `Brief`: it throws, as
  the exported script does, or it stores, as it will once the script compiles. A run is
  older than 30 minutes when health counts it as stuck and n8n's `executionTimeout` ends it:
  both are the step `HalfHour`. An analysis is usable, under way, or not; its passes are
  `AnalystService`. Retiring a ticker and the Telegram message are left out.
* `Deploy` follows the canvas of one file until it is first sent or imported: after
  that nothing writes it. Ledger and files are written whole. Credentials, tags on n8n
  and the wait for the containers are left out. Three parts of its state are history, for
  the properties alone: `touched`, that someone else wrote the workflow of a deploy,
  `overlapped`, that two deploys were under way at once, and `byHand`, the copies that were
  first published in the editor while the ledger named another or none.
* `Canvas` keeps pixels, since generator and check differ by pixels. A text is its
  length, in one paragraph; each zone lists a node and each node is listed once, as
  docs/CANVAS.md asks. Panels, colours, names and warnings are left out.
* The entry row's invalidation price and thesis have no protocol of their own and
  are left out of `EntryWatch`; `RuleSignal` has the invalidation price. Its history is
  written by a trigger in the transaction of each write and read by nobody who decides
  (section 5 has what its order can show), so it is left out too.

## 3. Runs

Each property has a mutant in `PROJECT.json`, a plausible slip in one
definition under which the same run finds it violated.

| Run | Properties | Instance |
| --- | --- | --- |
| `service` | `TypeOK`, `NoWedgedKey`, `OnePassPerKey`, `FinishedStaysFinished` | two request threads (symmetric), daily and deep passes, the chained entry pass of one ticker, two rows, one turn, one database error, one crash, one midnight, approval pauses |
| `service_ledger` | `LiveRowHasJob`, `ImplementsLedger`, `EveryPassEnds` | no errors and no pauses; one thread, two tickers in batches of one, three rows, one crash |
| `graph` | `BoundedEffort`, `OverrunIsBounded`, `OkIsGrounded`, `UncheckedIsSaid`, `ImplementsPassRun`, `EveryPassLeaves` | every setup, three turns, drafts of three claims, two tool calls per answer, a cap reached mid-pass |
| `grounding` | `ZoneRestsOnEvidence`, `OkKeepsAThird`, `CriticOnlyRemoves`, `MarkedIsGone` | two tickers, one of them a benchmark, a sentence on the market and an item with two sentences, an invalidation and a zone |
| `lease` | `AtMostOneLatePoll`, `LiveLeaseIsKept`, `FencedWriterExits`, `SessionOpensAgain` | three slots, a lease of two ticks, two days, four starts |
| `bars` | `OverlapCovers`, `GapsGetFilled` | one symbol, a recorder that restarts, two repair executions of which one fails, three minutes, bars a minute late and revised once |
| `holdings` | `MissingTagIsPending` | three handlers at once, each a request or the seeding script, deaths of the application |
| `entry` | `EntersSafely`, `UserWordStands`, `TakenZoneFires` | one request, the entry pass and the position over one row, prices to 3, a discount of 0 or of 30% at each read, every price for the rules |
| `setup` | `RecordedIsInForce`, `RolesResolve`, `ChangedStopsAll`, `SeedingFinishes` | two providers beside the default, two crashes, an edit of 004 or 010, one visit to the Settings screen |
| `daily` | `HealthIsHonest`, `SessionLands`, `OkRunIsWhole` | two weekdays with their crons, a press of Run now, one missed cron or dead execution, one ticker and the benchmark with any bars, a backfill, a brief that throws or stores |
| `deploy` | `DeployLands`, `OneLiveCopy`, `GeneratedPasses`, `VerifiedIsLive` | a workflow that calls another, two deployers (symmetric) with two runs, one bootstrap that may die, one act in the editor, Publish of any copy among them; four nodes in three zones laid at any of a few places, rows of at most three columns where the check says eight |
| `service_cap_day` | `CapStopsTheDay`, **violated** | three rows, a cap of two turns; the finding quotes docs/ANALYST.md:82-84 |

What they show, beyond the names: with `service`, that no interleaving of lock, insert,
submit, hand-off and restart leaves a key behind or runs one key twice; with
`service_ledger`, that a reader of the table sees an abstract ledger of passes; with
`graph`, that the pass `AnalystService` assumes is the one the graph makes; with `daily`,
that overlapping runs, failing collectors and the faults of other nights cost a session
nothing, and that health is not misled by runs that overtake each other; with `entry`, that
no sequence of edits, passes and position changes makes a row fire above the cost; with
`holdings`, which orders of PUT, DELETE, PATCH and upsert can leave a position without its
tag, and that no others do; with `deploy`, that the read-back, which compares no contents,
is still enough because of the activation before the PUT.

### Conditions the properties carry

`FinishedStaysFinished` admits the entry pass whose signals fail to store after its row was
closed. `LiveRowHasJob` and the ledger hold without database errors and pauses.
`OverlapCovers` holds for bars no more than a minute late. `RolesResolve` and
`SeedingFinishes` leave out scripts that run beside an open page and saves cut short.
`MissingTagIsPending` leaves out requests that died, and a position opened while a tag that
no position gave was there, typed into POST /watchlist or left by a DELETE, and committed
when another handler had taken it. `OkKeepsAThird` leaves out drafts with an item without a
sentence. `EntersSafely` speaks of the cost and kind the row has when it is judged, whatever
they were when it was written. `TakenZoneFires` asks that the cap the pass read is below the
cost the position has by then, which a discount of 0 never is, and of the invalidations
those not above the zone. `DeployLands` and `VerifiedIsLive` leave out deploys that someone
else disturbed, `OneLiveCopy` deploys that overlapped and copies that were first published
by hand against the ledger, and `GeneratedPasses` rows of too many columns and rows of the
generator that the check splits: then the check may call them too tight, and, from four
zones on, the gutters of one uneven, since the gaps it sees are no longer all between
neighbours. `HealthIsHonest` promises that each watched ticker has a price at the session
that is due or later, not at each session, and that a brief is there, not that it is the
best one written. `SessionLands` leaves out a session whose own night was lost: by a missed
cron, or because that night's run ended before it stored a brief. With `Brief = {"throws"}`
that is every night; the run has both values, so that it shows what else could cost a
session its brief.

### Bounds and why they suffice

Interference here needs at most two actors on the same row and one failure, so two or three
threads, slots, requests or repairs, one error and one crash reach every ordering the code
distinguishes: `service` has a request thread between lock and submit, another at the lock,
the worker in its hand-off and a restart after them; two rows let a key be taken, freed and
taken again. Three claims are the least for which "a third" may be lost. A lease of two
ticks separates renewed, half spent and expired; two of the three slots can be stale at
once. Three minutes with a warm-up and a lag of one are one more than the cursor's overlap.
In `daily` two weekdays give a holiday next to a session, a run that is overtaken by the
next cron and a night that comes after a lost one; the same properties hold with three weekdays
without Run now (3.6 million states), and in random behaviours of four weekdays, two tickers
and three faults. In `deploy` two runs are the least in which one works from another's
ledger entry or writes over it, with one import and one act by hand able to come between any
two calls; two ids beside the pinned one show a copy being doubled. Four nodes make two
zones in one row and a third below, or three rows. In `setup` two crashes are one inside the
migrations and one inside the seeding, or two in a row.

`MaxTurns`, `MaxRows`, `MaxCalls`, `MaxAsk`, `MaxClaims`, `MaxFaults`, `MaxCrashes`,
`MaxDays`, `MaxStarts`, `MaxNow`, `MaxRev`, `MaxFails`, `MaxPrice`, `MaxMarket`,
`MaxItems`, `MaxRationale`, `MaxEdits`, `MaxVisits`, `MaxDay`, `MaxManual`, `MaxCopies`,
`MaxDeploys` and `MaxBoots` are the
bounds; each is a CONSTANT and named as a bound where it is declared. Runs with a bound
on time, processes or rows stop when it is used up and say `CHECK_DEADLOCK FALSE`;
`holdings`, `entry`, `graph` and `setup` check deadlock.

### Fairness

`AnalystService`: threads of a live process are scheduled, and a container restarts
(`restart: unless-stopped`); nobody need make a request. `AnalystGraph`: the pass's
thread runs; the wall clock need not help, the turn budget must end the loop by
itself. `RecorderLease`: time passes and a running process is scheduled; starts and
deaths are unfair. `BarStore`: the repair's schedule fires again and again, its steps
run, leases expire; the recorder may be down all day, and failures are bounded by
`MaxFails`, since a repair that always fails fills nothing. `DailyRun` states its
progress without fairness: `SessionLands` says by when the brief must be there unless its
night was lost, and its clock does not leave a young execution behind,
because a step of the clock is most of a day and n8n ends an execution after 30 minutes.

## 4. Proofs

All theorems hold for every value of the constants that satisfies the module's named
assumption.

* **The service (`AnalystProofs`).** `TypeCorrect`, `KeysAreNeverWedged`, `KeysAreExclusive`,
  `FinishedRowsStay` from the inductive invariant `IInv`: `TypeOK` and, that the
  worker has a job exactly where its place in the code needs one, that a thread about
  to submit has its row, that the key of every pass with a job is held by that pass,
  and that no pass is in two places. None of the safety properties is inductive alone:
  `NoWedgedKey` needs to know that the popped key was the job's own, which is the
  converse statement `JobHoldsKey`. `NothingIsStuck` and `ServiceImplementsLedger`
  assume `NoInterference` (no database error, no approval pause), the condition under
  which the code keeps them: an error of the error handler's own write, and a pause,
  each leave a row live. The refinement proof maps each action to a ledger step or to a
  stutter, restarts included.
* **Holdings (`TickerProofs`).** `HoldingsTypeCorrect` and `TagComesBack` for any number of
  requests. `HoldingsInv` adds that only one PUT or DELETE of the position is open and that
  whoever is about to write the position has seen or made the watchlist row, which no
  statement deletes.
* **`AnalystGraphProofs`.** `EffortIsBounded`, `CapIsNearlyKept`, `StoredOkIsGrounded`,
  `GivesUpLoudly` and the safety part of the refinement, `GraphIsAPass`, for any budgets,
  any cap and drafts of any length. The inductive invariant says which nodes can follow
  which with which attempts left (`Shape`), how many calls have been spent by each node
  (`Effort`, one bound per node, from which the bound of a pass follows), by how much a
  turn can overrun the cap (`Spend`), and what the critic's verdict says of the draft at
  hand (`Verdicts`).
* **The lease (`IntradayProofs`).** `TypeCorrect`, `LatePollsAreFew` and `SessionIsKept` for
  any number of processes, any lease and any number of days: `Fences` says that a process
  that was late once has lost its row and does not poll again, `Unclaimed` that a row nobody
  claimed has no lease running.
* **Bars (`IntradayProofs`).** `NothingIsLeftBehind`, the property `OverlapCovers`, for any
  symbols, any warm-up, any number of minutes, repairs and failures. It assumes `Lag <= 1`:
  with bars two minutes late TLC finds it false. It needs four facts beside the types:
  nothing is published before it is over (`BarsAreOver`); an answer under way holds nothing
  from before its start and nothing that was not published (`AnswerIsPublished`); what it
  misses ends at most a minute before anything it holds (`AnswerMissesLateBars`); and the
  cursor stays two minutes behind the clock, or falls behind the first start by a minute,
  only for a bar that every later answer holds (`CursorIsBehind`). Even that the cursor
  keeps its type needs the last one.
* **The entry row (`TickerProofs`).** `TypeCorrect`, `UserWordIsKept`, `AddsOnlyBelowCost` (the
  property `EntersSafely`) and `TakenZonesFire` for any prices, costs, discounts from 0 to a
  half and number of requests. The last two rest on the arithmetic that makes `add_zone_cap`
  and `rule_signal` fit: rounded to the nearest, the cap of a position is a price from 1 to
  its cost (`CapFits`, `CapIsPrice`), and a price below the cost, inside a zone that is not
  under its invalidation, enters (`BelowCostEnters`).
* **`CanvasProofs`.** About the operators, for any nodes, zones and texts, wherever the
  nodes lie. `FrameHolds`: a frame has the height and the band that the check asks for and
  holds its nodes, although generator and check reckon the text by two formulas and the
  frame is widened after its band was measured. `GeneratedIsClean`: what the check finds in
  a generated canvas. What the generator writes is `Neat`: one top and one bottom to a row,
  a gutter between neighbours, one left edge, one gap between rows; from this follow that
  no two stickies overlap and that a node lies in its own one only. The check groups by
  other nodes' heights and another reach, so its rows are parts of the generator's; where
  it splits none they are the same zones, and level and even (`CheckedIsLevel`); where it
  splits one, two of its rows overlap in height and the gap is tight, so the check's
  `elif` never reports uneven ones (`SplitIsTight`). `GeneratesTheSame`: nodes move with
  their frames and along the grid, so the next time each frame begins where its sticky
  does (`FrameMoves`), the rows are found again (`RowsFoundAgain`), and neat zones stay
  where they are (`NeatStays`). Sorting, rows and chains of gaps are defined by recursive
  functions; what is needed of them is proved over the least element of a set
  (`CountingUp`), without an induction rule.
* **`DeployProofs`.** `TypeCorrect`, `VerifiedVersionRuns`, `DeploysLand` and
  `CopiesDoNotMultiply` for any number of deployers, workflows and copies. The first two
  need, per node of a run, whose the draft is and that the workflow is active while nobody
  touched it (`Own`, `Landing`); the third, that of the copies only the one in the ledger
  was ever published, but for those first published by hand against it (`Kept`, `Spread`,
  `LedgerKnows`), and that a run works from that ledger and replaces its copy only when the
  copy is gone (`OnItsWay`), which holds until two deploys overlap. `GeneratedCanvasPasses`
  is the property `GeneratedPasses`, from `CanvasProofs` and the invariant `FileKnown`: a
  file that the generator has laid is what it made of some places. It assumes that every
  zone lists a node, as the generator skips a zone without, and that nodes lie at whole
  pixels.
* **Evidence (`AnalystProofs`).** For any evidence, draft and marks: `CriticIsMonotone`,
  `ZonesAreGrounded`, and `MarksAreHeeded`, that what the critic marked is gone. The first
  compares two calls of `validate_draft` and rests on lemmas about each of its stages being
  monotone in the marks. The second needs, as the inductive `ShownForTicker`, that every
  level in the evidence of a ticker was shown for it, because later results replace the
  items a draft was written from. `AThirdIsKept` maps each invalidation that goes with a
  dropped item to a stripped sentence of that item, and so bounds what is lost by what is
  counted.
* **`DailyRunProofs`.** `TypeCorrect` and `OkRunsAreWhole` for any number of days,
  tickers, runs and faults. `OkRunIsWhole` speaks of the step that closes a run; the
  inductive invariant says what a run knows at each node before it (`KnowsDay`,
  `KnowsPrices`, `KnowsScores`): without an issue so far its day is a session, the rows
  it does not miss are priced, its scores stand. It survives the steps of others because
  prices and scores are only added, and a run is not removed from the list.
  `SessionsLand` adds `Nights`: from the evening of a session on, it has its brief, or its
  night is lost, or that night's cron is still due, or the run of that cron is under way
  with this very session (`Carrier`), which the clock does not leave behind (`Ages`).
  `HealthIsTrue` adds two facts. `Signed`: a stored day is the day of some
  run, and an ok run's day is stored. `Ordered`: when a run that may be called ok is about a day
  before a session, no run that started earlier is about a day after that session; so
  health, which looks at the newest row and the newest dates apart, is not misled by runs
  that overtake each other.
* **`SetupProofs`.** `SetupTypeCorrect`, `RecordedStaysInForce`, `ChangedFileStopsAll`,
  `ReferencesResolve` and `SeedingGetsDone`, each from one inductive invariant, `Sound`.
  Files are recorded in their order and the pass has left what is pending (`LedgerInOrder`);
  a recorded file, and the one that was applied and is about to be recorded, has done what
  it was for (`LedgerIsTrue`), which a crash between the two would break if applying it
  twice undid anything; references to the default provider are stored bare and read back
  whole (`Spelling`); scripts and page know what is stored as long as they never met
  (`Alone`); a seeding has dealt with the roles before its own and not touched the others
  (`RolesInTurn`); and whoever removed the default provider had given every role a model
  (`DefaultIsNeeded`). The last is needed because a role without a model resolves to the
  default provider. `SetupAssumption` asks that the models of the default provider do not
  include the bare name "claude" (section 2).

Only model-checked are the liveness properties `EveryPassEnds`, `EveryPassLeaves`,
`FencedWriterExits`, `SessionOpensAgain` and `GapsGetFilled`, since the prover has neither
fairness nor ENABLED within reach. `CapStopsTheDay` is violated. Every other property of a
run is a theorem. What the theorems do not say is what the modules leave out; and those
with a hypothesis (`NoInterference`, `Lag <= 1`) say nothing without it.

## 5. Not modelled, and disagreements

Text processing (SQL guard, calculator, prompts, brief layout) has no protocol to check.
HTTP clients are calls that answer or fail. Apart from the Settings screen the user
interface keeps no state of record. Backtests and probes read, and write nothing that a
component reads back. n8n's own execution engine is external. The collectors other than the
prices write tables that no modelled component reads back.

Where the code does something other than the text beside it, apart from the finding of
`service_cap_day`; the modules allow each of these behaviours, so their properties hold with them:

* Service: a pass that fails after paid turns records no cost; the error handler's own
  write can fail and leave a row live until a restart; the approval pause has no
  checkpoint to resume from.
* Graph: the critic's loop swallows the budget stop; template calls that raise are not
  counted; an answer that does not parse costs nothing on record. A critic's mark of an
  invalidation written with its label matches nothing.
* Lease: a claim may lower the token; a process that crossed midnight keeps
  yesterday's lease beside today's.
* Bars: `available_at` is stamped before the request that fetched the bar; no writer
  sets a version, so revisions are dropped; the unique key of quotes holds a NULL; a
  repair closes its job by id, not by owner.
* Holdings: a tag derived while a DELETE is open stays; POST /watchlist writes a typed
  `holding` (docs/WATCHLIST.md:48-50 says it cannot be typed in); with such a tag there, the
  trigger of a PUT leaves the watchlist row alone, a PATCH of the tags runs between the
  PUT's statement and its commit, and the position stays without its tag; a retired ticker
  can hold a position.
* Deployment: a run that dies between the POST and the ledger leaves a copy which the editor
  offers to publish, as deploy_workflow.py:178-180 asks of a draft, and the workflow then
  runs twice beside the copy of the next run; the guard against a sub-workflow that is not
  deployed yet (deploy_workflow.py:112) never fires, since the JSON carries a pinned id, and
  a reference to nothing is published; two deploys at once lose a ledger entry; a workflow
  that got a fresh id from a deploy is doubled by a later bootstrap, which imports at the
  pinned id (docs/UPGRADING.md:28-30 says re-importing is safe); `n8n_creds_sync.py` doubles
  a credential if it dies before it notes it.
* Canvas: a file without stickies passes the gate whose docstring calls it a refusal of
  undocumented canvases; generator and check disagree on what is one row (64 and 40
  pixels); docs/CANVAS.md:75 says the generator never moves a node, and it moves the
  nodes of each zone with its frame; the row gutter is 128 in the docs and 32 in the
  check; a node that no zone lists is not reported inside another zone's frame.
* Entry watch: the top of an add zone can be patched above the cost; a closed position
  leaves an add row; a fill meets a kind that changed; with a discount of 0, or one that
  rounding takes away, the cap is the cost, at which the rules never enter; an invalidation
  the row had before may lie above the zone a pass writes. The history is read in the order
  of `changed_at` (api.py:637), the start of the transaction, so the entry of a later write
  may be listed before that of an earlier one.
* Setup: two runs of the migrations are not kept apart; the Settings screen and
  bootstrap overwrite each other; a shipped model that the user picked on OpenRouter is
  stored as the migrations store theirs, and bootstrap replaces it although
  bootstrap.py:106 says a choice is left alone.
* Daily: the script of `Build brief` (workflows/daily.json:256) contains
  `tgLines.join('\n')` with one backslash in the JSON, which is a line break inside a quoted
  string to JavaScript: a syntax error. The node has no `onError`, so every execution ends
  there, before `Store report + finish run` and `Analyze brief`, although
  docs/NOTIFICATIONS.md:3 says "The brief always lands in the app" and
  docs/WORKFLOWS.md:51-54 that "the run still finishes". `BriefThrows` is that execution;
  its row stays `running`, and health calls it stuck. What the module says of stored briefs
  is of the same pipeline with the script mended. Further: nothing keeps two runs apart, so
  a slower, older run may replace a complete brief by a degraded one while health reads the
  newer row and says ok; the row of a dead execution stays `running` for ever; when the
  calendar call fails a weekday stands in for a session, so a holiday is scored
  (docs/WORKFLOWS.md says never), though that run is not called ok.

## 6. Plan

The order was: what costs money or loses user data first. Done: the service with its
ledger; the graph; lease; bars; holdings; entry watch with the rules; setup; evidence; the
daily pipeline with health; deployment and canvas; the proofs of section 4.

Left, in this order:

1. Session preparation and intraday health (`intraday-session-prep.json`,
   `intraday-health.json`): the manifest that docs/INTRADAY.md:36 calls frozen, parts of
   which a later run of the preparation rewrites; executions that overlap and open one
   incident twice.
2. Credentials in `Deploy`, the invalidation price in `EntryWatch`.

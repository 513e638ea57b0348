---------------------------- MODULE AnalystGraph ----------------------------
(***************************************************************************)
(* One pass through the analyst graph (app/stockintel/analyst/graph.py):    *)
(* plan, gather (a tool loop under budgets), draft, critique with a retry   *)
(* of the draft, approval, persist.                                         *)
(*                                                                          *)
(* Data are reduced to what the control flow looks at: a draft is its       *)
(* number of claims and how many of them the code strips; a model call      *)
(* that is answered costs 1.                                                *)
(***************************************************************************)
EXTENDS Integers

CONSTANTS Turns,       \* BUDGETS["turns"]
          TemplateCap, \* TEMPLATE_CALL_CAP
          SqlCap,      \* SQL_CALL_CAP
          Cap,         \* what the daily cap leaves this pass, if there is one
          MaxAsk,      \* bound: tool calls in one model response
          MaxClaims,   \* bound: claims of a draft
          MaxCalls     \* bound: model calls, above what a pass can make

ASSUME GraphAssumption ==
  /\ {Turns, TemplateCap, SqlCap, MaxAsk, MaxClaims, MaxCalls} \subseteq Nat
  /\ Cap \in Nat \ {0}

VARIABLES
  setup,     \* what profile, config and models make of this pass
  node,      \* the node that runs, or the way out
  late,      \* gather's wall clock budget is spent
  turns,     \* stats["turns"]
  cost,      \* stats["cost_usd"]
  calls,     \* model calls really made
  asked,     \* tool calls of the last response still to run
  templates, \* template_calls
  sql,       \* tools.calls["db_sql"]
  status, stopped,                \* state["status"], state["capped"]
  attempt, draft, analysis,       \* state[...]
  try, strikes, failure, issue,   \* critique's loop: attempt, unsupported, last_err, critic_issue
  stored     \* the payload handed to effects["persist"]

budgetVars == <<turns, cost, calls>>
toolVars == <<asked, templates, sql>>
draftVars == <<attempt, draft, analysis>>
criticVars == <<try, strikes, failure, issue>>
vars == <<setup, node, late, budgetVars, toolVars, status, stopped, draftVars, criticVars, stored>>

Nodes == {"baseline", "plan", "gather", "tools", "draft", "critique", "hitl", "persist"}
Out == {"end", "paused", "capped", "failed"}

Setups == [notes: BOOLEAN, critic: BOOLEAN, fallback: BOOLEAN, hitl: BOOLEAN,
           capped: BOOLEAN]
Drafts == [claims: 0 .. MaxClaims, bad: 0 .. MaxClaims]
NoDraft == [claims |-> -1, bad |-> -1]
Nothing == "none"
Issues == {"none", "fell back", "unavailable"}

TypeOK ==
  /\ setup \in Setups
  /\ node \in Nodes \cup Out
  /\ late \in BOOLEAN
  /\ {turns, cost, calls, templates, sql} \subseteq Nat
  /\ asked \in 0 .. MaxAsk
  /\ status \in {"running", "capped", "ok", "invalid"}
  /\ stopped \in BOOLEAN
  /\ attempt \in 0 .. 2
  /\ draft \in Drafts \cup {NoDraft}
  /\ analysis \in BOOLEAN
  /\ try \in 0 .. 3
  /\ strikes \in 0 .. MaxClaims
  /\ failure \in BOOLEAN
  /\ issue \in Issues
  /\ stored \in {Nothing, "ok", "invalid"}

\* The entry profile has no plan notes; approval is asked in deep mode only.
Init ==
  /\ setup \in {s \in Setups : s.hitl => s.notes}
  /\ node = "baseline"
  /\ late = FALSE
  /\ turns = 0 /\ cost = 0 /\ calls = 0
  /\ asked = 0 /\ templates = 0 /\ sql = 0
  /\ status = "running" /\ stopped = FALSE
  /\ attempt = 0 /\ draft = NoDraft /\ analysis = FALSE
  /\ try = 0 /\ strikes = 0 /\ failure = FALSE /\ issue = "none"
  /\ stored = Nothing

-----------------------------------------------------------------------------
(* Model calls *)

\* A call is answered, or fails: no answer, or one that does not parse.
Answers == {"parsed", "failed"}

Call == calls < MaxCalls /\ calls' = calls + 1

\* _add_usage. A call that failed brings zero tokens and no cost.
\* Mutant: the response's turn is not counted.
TurnsUncounted == turns
TurnsAfter == turns + 1
CostAfter(answer) == IF answer = "parsed" THEN cost + 1 ELSE cost

\* on_turn raises BudgetExceeded. Mutant: only above the cap.
PastCap(answer) == setup.capped /\ CostAfter(answer) > Cap
OverCap(answer) == setup.capped /\ CostAfter(answer) >= Cap

CountTurn(answer) == turns' = TurnsAfter /\ cost' = CostAfter(answer)

\* Mutant: one turn too many.
TurnsLeftOver == turns <= Turns
TurnsLeft == turns < Turns
MayTurn == TurnsLeft /\ ~late

\* An exception that leaves the graph: a database or provider error.
Break ==
  /\ node \in {"baseline", "gather", "persist"}
  /\ node' = "failed"
  /\ IF node = "gather" THEN MayTurn /\ Call ELSE UNCHANGED calls
  /\ UNCHANGED <<setup, late, turns, cost, toolVars, status, stopped, draftVars, criticVars, stored>>

Baseline ==
  /\ node = "baseline"
  /\ node' = "plan"
  /\ UNCHANGED <<setup, late, budgetVars, toolVars, status, stopped, draftVars, criticVars, stored>>

\* The research list is built by code; the notes call may fail without harm.
Plan ==
  /\ node = "plan"
  /\ \/ /\ ~setup.notes
        /\ node' = "gather"
        /\ UNCHANGED budgetVars
     \/ /\ setup.notes
        /\ \E a \in Answers :
             /\ Call
             /\ CountTurn(a)
             /\ node' = IF OverCap(a) THEN "capped" ELSE "gather"
  /\ UNCHANGED <<setup, late, toolVars, status, stopped, draftVars, criticVars, stored>>

-----------------------------------------------------------------------------
(* The tool loop *)

WallClockRunsOut ==
  /\ node \in {"gather", "tools"}
  /\ ~late
  /\ late' = TRUE
  /\ UNCHANGED <<setup, node, budgetVars, toolVars, status, stopped, draftVars, criticVars,
                 stored>>

\* The turn budget is spent, or the wall clock is.
GatherStops ==
  /\ node = "gather"
  /\ ~MayTurn
  /\ status' = "capped"
  /\ stopped' = TRUE
  /\ node' = "draft"
  /\ UNCHANGED <<setup, late, budgetVars, toolVars, draftVars, criticVars, stored>>

GatherTurn ==
  /\ node = "gather"
  /\ MayTurn
  /\ Call
  /\ CountTurn("parsed")
  /\ \/ OverCap("parsed") /\ node' = "capped" /\ UNCHANGED asked
     \/ /\ ~OverCap("parsed")
        /\ asked' \in 0 .. MaxAsk
        /\ node' = IF asked' = 0 THEN "draft" ELSE "tools"
  /\ UNCHANGED <<setup, late, templates, sql, status, stopped, draftVars, criticVars, stored>>

SqlLeft == sql < SqlCap

\* One tool call of the response: a template counts against its cap when it
\* succeeds, a raw query as soon as it is made; the rest is answered in text.
ToolCall ==
  /\ node = "tools"
  /\ asked' = asked - 1
  /\ node' = IF asked = 1 THEN "gather" ELSE "tools"
  /\ \/ /\ templates < TemplateCap
        /\ templates' = templates + 1
        /\ UNCHANGED sql
     \/ /\ SqlLeft
        /\ sql' = sql + 1
        /\ UNCHANGED templates
     \/ UNCHANGED <<templates, sql>>   \* calc, a spent budget, a template that raises
  /\ UNCHANGED <<setup, late, budgetVars, status, stopped, draftVars, criticVars, stored>>

-----------------------------------------------------------------------------
(* Draft and critique *)

\* The critique starts over with every draft.
Draft ==
  /\ node = "draft"
  /\ attempt' = attempt + 1
  /\ \E a \in Answers :
       /\ Call
       /\ CountTurn(a)
       /\ node' = IF OverCap(a) THEN "capped" ELSE "critique"
       /\ draft' \in IF a = "parsed" THEN {d \in Drafts : d.bad <= d.claims} ELSE {NoDraft}
  /\ try' = 0 /\ strikes' = 0 /\ failure' = FALSE /\ issue' = "none"
  /\ UNCHANGED <<setup, late, toolVars, status, stopped, analysis, stored>>

\* (critic, critic, critic_fallback)[i] is a model.
Critic(i) == IF i < 2 THEN setup.critic ELSE setup.fallback

CritiqueOpen == setup.critic /\ draft # NoDraft /\ try < 3 /\ (try > 0 => failure)

\* One attempt of the critic loop. The try block holds the turn check too, so
\* a spent budget is one more failed attempt, made after its strikes arrived.
CriticCall ==
  /\ node = "critique"
  /\ CritiqueOpen
  /\ Critic(try)
  /\ try' = try + 1
  /\ \E a \in Answers :
       /\ Call
       /\ IF a = "parsed"
          THEN /\ CountTurn(a)
               /\ strikes' \in 0 .. (draft.claims - draft.bad)
               /\ failure' = OverCap(a)
               /\ issue' = IF try = 2 /\ ~OverCap(a) THEN "fell back" ELSE "none"
          ELSE /\ failure' = TRUE
               /\ UNCHANGED <<turns, cost, strikes, issue>>
  /\ UNCHANGED <<setup, late, node, toolVars, status, stopped, draftVars, stored>>

\* Mutant: the code's checks alone, without the critic's strikes.
StrippedByCode == draft.bad
Stripped == draft.bad + strikes

\* ratio <= 1/3; a draft without claims counts as fully stripped.
WithinRatio == draft.claims > 0 /\ 3 * Stripped <= draft.claims

\* The loop is over: say so when nothing was checked, judge, and send the draft
\* back at most once. Mutant: a missing fallback is not reported.
IssueAfterFallbackOnly == IF failure /\ setup.fallback THEN "unavailable" ELSE issue
IssueAfter == IF failure THEN "unavailable" ELSE issue

Retry(found) == ~found /\ attempt < 2

Critique ==
  /\ node = "critique"
  /\ ~CritiqueOpen \/ ~Critic(try)
  /\ LET found == draft # NoDraft /\ (WithinRatio \/ attempt >= 2)
     IN /\ analysis' = found
        /\ status' = IF found THEN (IF WithinRatio THEN "ok" ELSE "invalid") ELSE status
        /\ node' = IF Retry(found) THEN "draft" ELSE "hitl"
  /\ issue' = IssueAfter
  /\ UNCHANGED <<setup, late, budgetVars, toolVars, stopped, attempt, draft, try, strikes, failure, stored>>

-----------------------------------------------------------------------------
(* Approval and persist *)

\* interrupt() ends the run: the service passes no checkpointer to resume from.
\* Mutant: hitl_enabled is not asked.
AlwaysAsks == TRUE
Asks == setup.hitl

Hitl ==
  /\ node = "hitl"
  /\ node' = IF Asks THEN "paused" ELSE "persist"
  /\ UNCHANGED <<setup, late, budgetVars, toolVars, status, stopped, draftVars, criticVars, stored>>

\* The status that is stored. Without an analysis two attempts were made.
Verdict ==
  CASE ~analysis -> "invalid"
    [] analysis /\ status \in {"running", "capped"} -> "ok"
    [] OTHER -> status

Persist ==
  /\ node = "persist"
  /\ stored' = Verdict
  /\ node' = "end"
  /\ UNCHANGED <<setup, late, budgetVars, toolVars, status, stopped, draftVars, criticVars>>

Done == node \in Out /\ UNCHANGED vars

PassStep ==
  \/ Baseline \/ Plan \/ GatherStops \/ GatherTurn \/ ToolCall
  \/ Draft \/ CriticCall \/ Critique \/ Hitl \/ Persist \/ Break

Next == PassStep \/ WallClockRunsOut \/ Done

\* The pass runs on one thread, which is scheduled until it returns; the wall
\* clock need not help it.
Spec == Init /\ [][Next]_vars
FairSpec == Spec /\ WF_vars(PassStep)
-----------------------------------------------------------------------------
(* Correctness *)

\* Whatever the models answer, a pass makes a bounded number of model calls:
\* the turn budget, two drafts, and three critic calls for each of them; and
\* SQL_CALL_CAP raw queries at most, rejected ones included.
BoundedEffort ==
  /\ calls <= (IF Turns = 0 THEN 1 ELSE Turns) + 2 + 6
  /\ sql <= SqlCap

\* docs/ANALYST.md promises that a pass stops at the cap (graph.py:221, the hook
\* that raises). The critic's loop swallows the stop, so the promise is weaker:
\* the other two calls of that loop may still be paid, and the draft after them.
OverrunIsBounded == setup.capped => cost <= Cap + 3

\* What is stored as ok lost at most a third of its claims to the code's checks
\* and the critic together, and was not empty.
OkIsGrounded ==
  stored = "ok" => analysis /\ draft.claims > 0 /\ 3 * (draft.bad + strikes) <= draft.claims

\* "Give up loudly": a stored analysis whose critic never came through says so.
UncheckedIsSaid ==
  stored # Nothing /\ analysis /\ setup.critic /\ failure => issue = "unavailable"

\* Every pass comes to a way out.
EveryPassLeaves == <>(node \in Out)

Run == INSTANCE PassRun WITH
         exit <- IF node = "end" THEN stored ELSE IF node \in Out THEN node ELSE "none",
         mayPause <- setup.hitl

\* The pass as AnalystService abstracts it.
ImplementsPassRun == Run!RunSpec
=============================================================================

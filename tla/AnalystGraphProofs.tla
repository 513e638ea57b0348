------------------------- MODULE AnalystGraphProofs -------------------------
(***************************************************************************)
(* Theorems about one pass through the graph, for every budget, cap and     *)
(* number of claims, whatever the models answer.                            *)
(***************************************************************************)
EXTENDS AnalystGraph, TLAPS

\* Where the pass is and what it has by then.
Shape ==
  /\ node \in {"baseline", "plan", "gather", "tools"} => attempt = 0
  /\ node = "tools" => asked > 0
  /\ node = "draft" => attempt < 2
  /\ node \in {"critique", "hitl", "persist", "end"} => attempt > 0
  /\ draft # NoDraft => draft.bad <= draft.claims
  /\ calls >= attempt

\* The calls that are paid by the turn budget: the notes take a turn even of none.
Gathered == IF Turns = 0 THEN 1 ELSE Turns

\* Each draft brings itself and at most three critics.
Effort ==
  /\ sql <= SqlCap
  /\ node \in {"baseline", "plan"} => turns = 0 /\ calls = 0
  /\ node \in {"gather", "tools"} => calls = turns /\ turns <= Gathered
  /\ node = "draft" => calls <= Gathered + 4 * attempt
  /\ node = "critique" => calls <= Gathered + 4 * attempt - 3 + try
  /\ calls <= Gathered + 8

\* A stop at the cap is final but in the critic's loop.
Spend ==
  setup.capped =>
    /\ node \in {"baseline", "plan", "gather", "tools"} => cost < Cap
    /\ node = "draft" => cost < Cap + 3
    /\ node = "critique" => cost < Cap + try
    /\ cost <= Cap + 3

\* From the judgement on, status and issue say what was found.
Verdicts ==
  /\ node \in {"baseline", "plan", "gather", "tools", "draft", "critique"} =>
       status \in {"running", "capped"}
  /\ node \in {"hitl", "persist", "end"} =>
       /\ analysis => /\ status \in {"ok", "invalid"}
                      /\ status = "ok" => draft \in Drafts /\ WithinRatio
       /\ failure => issue = "unavailable"
  /\ stored # Nothing => node = "end"
  /\ node = "end" => stored # Nothing
  /\ stored = "ok" => analysis /\ status = "ok"
  /\ node \in {"persist", "end"} => ~setup.hitl

\* The type invariant, one variable at a time.
Counted ==
  /\ turns \in Nat /\ cost \in Nat /\ calls \in Nat
  /\ templates \in Nat /\ sql \in Nat /\ asked \in 0 .. MaxAsk
  /\ attempt \in 0 .. 2 /\ try \in 0 .. 3 /\ strikes \in 0 .. MaxClaims

Flagged ==
  /\ setup \in Setups /\ node \in Nodes \cup Out /\ late \in BOOLEAN
  /\ status \in {"running", "capped", "ok", "invalid"} /\ stopped \in BOOLEAN
  /\ draft \in Drafts \cup {NoDraft} /\ analysis \in BOOLEAN /\ failure \in BOOLEAN
  /\ issue \in Issues /\ stored \in {Nothing, "ok", "invalid"}

Typed == Counted /\ Flagged

\* The two forms of the type invariant agree, before a step and after it.
LEMMA TypeParts == (TypeOK <=> Typed) /\ (TypeOK' <=> Typed')
BY DEF TypeOK, Typed, Counted, Flagged

\* The budgets are numbers, and the cap leaves something.
LEMMA Budgets ==
  /\ Turns \in Nat /\ TemplateCap \in Nat /\ SqlCap \in Nat
  /\ MaxAsk \in Nat /\ MaxClaims \in Nat /\ MaxCalls \in Nat
  /\ Cap \in Nat /\ Cap > 0
BY GraphAssumption

\* An answer that is counted costs at most 1, and below the cap it leaves some.
LEMMA AnswerParts ==
  ASSUME Typed, NEW a \in Answers, CountTurn(a)
  PROVE  /\ turns' = turns + 1 /\ (cost' = cost \/ cost' = cost + 1)
         /\ setup.capped /\ ~OverCap(a) => cost' < Cap
<1>1. turns \in Nat /\ cost \in Nat
  BY DEF Typed, Counted, Flagged
<1>2. turns' = turns + 1 /\ cost' = CostAfter(a)
  BY DEF CountTurn, TurnsAfter
<1>3. CostAfter(a) = cost \/ CostAfter(a) = cost + 1
  BY DEF CostAfter
<1>4. setup.capped /\ ~OverCap(a) => ~(CostAfter(a) >= Cap)
  BY DEF OverCap
<1> QED
  BY <1>1, <1>2, <1>3, <1>4, Budgets

\* What planning may change.
LEMMA PlanParts ==
  ASSUME Typed, Plan
  PROVE  /\ node = "plan" /\ node' \in {"gather", "capped"}
         /\ \/ UNCHANGED <<turns, cost, calls>> /\ node' = "gather"
            \/ /\ turns' = turns + 1 /\ calls' = calls + 1 /\ (cost' = cost \/ cost' = cost + 1)
               /\ setup.capped /\ node' = "gather" => cost' < Cap
         /\ UNCHANGED <<setup, late, asked, templates, sql, status, stopped, attempt, draft,
                        analysis, try, strikes, failure, issue, stored>>
<1>1. /\ node = "plan"
      /\ UNCHANGED <<setup, late, asked, templates, sql, status, stopped, attempt, draft,
                     analysis, try, strikes, failure, issue, stored>>
  BY DEF Plan, toolVars, draftVars, criticVars
<1>2. CASE ~setup.notes
  BY <1>1, <1>2 DEF Plan, budgetVars
<1>3. CASE setup.notes
  <2>1. PICK a \in Answers :
          Call /\ CountTurn(a) /\ node' = IF OverCap(a) THEN "capped" ELSE "gather"
    BY <1>3 DEF Plan
  <2>2. calls' = calls + 1
    BY <2>1 DEF Call
  <2> QED
    BY <1>1, <2>1, <2>2, AnswerParts
<1> QED
  BY <1>2, <1>3

\* What a turn of the tool loop may change.
LEMMA GatherParts ==
  ASSUME Typed, GatherTurn
  PROVE  /\ node = "gather" /\ node' \in {"draft", "tools", "capped"} /\ turns < Turns
         /\ turns' = turns + 1 /\ calls' = calls + 1 /\ (cost' = cost \/ cost' = cost + 1)
         /\ setup.capped /\ node' # "capped" => cost' < Cap
         /\ asked' \in 0 .. MaxAsk /\ (node' = "tools" => asked' # 0)
         /\ UNCHANGED <<setup, late, templates, sql, status, stopped, attempt, draft,
                        analysis, try, strikes, failure, issue, stored>>
<1>1. /\ node = "gather" /\ turns < Turns /\ calls' = calls + 1
      /\ UNCHANGED <<setup, late, templates, sql, status, stopped, attempt, draft,
                     analysis, try, strikes, failure, issue, stored>>
  BY DEF GatherTurn, MayTurn, TurnsLeft, Call, draftVars, criticVars
<1>2. "parsed" \in Answers /\ CountTurn("parsed")
  BY DEF GatherTurn, Answers
<1>3. /\ asked' \in 0 .. MaxAsk /\ (node' = "tools" => asked' # 0)
      /\ node' \in {"draft", "tools", "capped"}
      /\ node' # "capped" => ~OverCap("parsed")
  <2>1. asked \in 0 .. MaxAsk
    BY DEF Typed, Counted
  <2> QED
    BY <2>1 DEF GatherTurn
<1> QED
  BY <1>1, <1>2, <1>3, AnswerParts

\* What drafting may change.
LEMMA DraftParts ==
  ASSUME Typed, Draft
  PROVE  /\ node = "draft" /\ node' \in {"critique", "capped"}
         /\ turns' = turns + 1 /\ calls' = calls + 1 /\ (cost' = cost \/ cost' = cost + 1)
         /\ setup.capped /\ node' = "critique" => cost' < Cap
         /\ attempt' = attempt + 1 /\ draft' \in Drafts \cup {NoDraft}
         /\ draft' # NoDraft => draft'.bad <= draft'.claims
         /\ try' = 0 /\ strikes' = 0 /\ failure' = FALSE /\ issue' = "none"
         /\ UNCHANGED <<setup, late, asked, templates, sql, status, stopped, analysis, stored>>
<1>1. /\ node = "draft" /\ attempt' = attempt + 1
      /\ try' = 0 /\ strikes' = 0 /\ failure' = FALSE /\ issue' = "none"
      /\ UNCHANGED <<setup, late, asked, templates, sql, status, stopped, analysis, stored>>
  BY DEF Draft, toolVars
<1>2. PICK a \in Answers :
        /\ Call
        /\ CountTurn(a)
        /\ node' = IF OverCap(a) THEN "capped" ELSE "critique"
        /\ draft' \in IF a = "parsed" THEN {d \in Drafts : d.bad <= d.claims} ELSE {NoDraft}
  BY DEF Draft
<1>3. calls' = calls + 1
  BY <1>2 DEF Call
<1>4. draft' \in Drafts \cup {NoDraft} /\ (draft' # NoDraft => draft'.bad <= draft'.claims)
  BY <1>2
<1>5. node' \in {"critique", "capped"} /\ (node' = "critique" => ~OverCap(a))
  BY <1>2
<1> QED
  BY <1>1, <1>2, <1>3, <1>4, <1>5, AnswerParts

\* What an attempt of the critic may change.
LEMMA CriticParts ==
  ASSUME Typed, CriticCall
  PROVE  /\ node = "critique" /\ node' = node
         /\ try < 3 /\ try' = try + 1 /\ calls' = calls + 1
         /\ (turns' = turns \/ turns' = turns + 1) /\ (cost' = cost \/ cost' = cost + 1)
         /\ strikes' \in 0 .. MaxClaims /\ failure' \in BOOLEAN /\ issue' \in Issues
         /\ UNCHANGED <<setup, late, asked, templates, sql, status, stopped, attempt, draft,
                        analysis, stored>>
<1>1. /\ draft \in Drafts /\ try < 3 /\ strikes \in 0 .. MaxClaims
      /\ issue \in Issues /\ turns \in Nat /\ cost \in Nat
  BY DEF Typed, Counted, Flagged, CriticCall, CritiqueOpen
<1>2. /\ node = "critique" /\ node' = node
      /\ try' = try + 1 /\ calls' = calls + 1
      /\ UNCHANGED <<setup, late, asked, templates, sql, status, stopped, attempt, draft,
                     analysis, stored>>
  BY DEF CriticCall, Call, toolVars, draftVars
<1>3. PICK a \in Answers :
        IF a = "parsed"
        THEN /\ CountTurn(a)
             /\ strikes' \in 0 .. (draft.claims - draft.bad)
             /\ failure' = OverCap(a)
             /\ issue' = IF try = 2 /\ ~OverCap(a) THEN "fell back" ELSE "none"
        ELSE /\ failure' = TRUE
             /\ UNCHANGED <<turns, cost, strikes, issue>>
  BY DEF CriticCall
<1>4. CASE a = "parsed"
  <2>1. turns' = turns + 1 /\ cost' = cost + 1
    BY <1>3, <1>4 DEF CountTurn, TurnsAfter, CostAfter
  <2>2. strikes' \in 0 .. MaxClaims
    <3>1. draft.claims \in 0 .. MaxClaims /\ draft.bad \in 0 .. MaxClaims
      BY <1>1 DEF Drafts
    <3>2. strikes' \in 0 .. (draft.claims - draft.bad)
      BY <1>3, <1>4
    <3> QED
      BY <3>1, <3>2, Budgets
  <2>3. failure' \in BOOLEAN
    BY <1>3, <1>4 DEF OverCap
  <2>4. issue' \in Issues
    BY <1>3, <1>4 DEF Issues
  <2> QED
    BY <1>1, <1>2, <2>1, <2>2, <2>3, <2>4
<1>5. CASE a # "parsed"
  BY <1>1, <1>2, <1>3, <1>5
<1> QED
  BY <1>4, <1>5

\* Every step keeps the types.
LEMMA TypeStep ==
  ASSUME Typed, Shape, [Next]_vars
  PROVE  Typed'
<1>0. Counted /\ Flagged
  BY DEF Typed
<1> USE <1>0, Budgets DEF Counted, budgetVars, toolVars, draftVars, criticVars
<1>1. CASE Baseline
  <2>1. Counted'
    BY <1>1 DEF Baseline
  <2>2. Flagged'
    BY <1>1 DEF Baseline, Flagged, Nodes, Out, Nothing, Issues
  <2> QED
    BY <2>1, <2>2 DEF Typed
<1>2. CASE Plan
  <2>1. Counted'
    <3>1. turns' \in Nat /\ cost' \in Nat /\ calls' \in Nat
      BY <1>2, PlanParts
    <3>2. templates' \in Nat /\ sql' \in Nat /\ asked' \in 0 .. MaxAsk
      BY <1>2, PlanParts
    <3>3. attempt' \in 0 .. 2 /\ try' \in 0 .. 3 /\ strikes' \in 0 .. MaxClaims
      BY <1>2, PlanParts
    <3> QED
      BY <3>1, <3>2, <3>3
  <2>2. Flagged'
    BY <1>2, PlanParts DEF Flagged, Nodes, Out, Nothing, Issues
  <2> QED
    BY <2>1, <2>2 DEF Typed
<1>3. CASE GatherStops
  <2>1. Counted'
    BY <1>3 DEF GatherStops, MayTurn, TurnsLeft
  <2>2. Flagged'
    BY <1>3 DEF GatherStops, MayTurn, TurnsLeft, Flagged, Nodes, Out, Nothing, Issues
  <2> QED
    BY <2>1, <2>2 DEF Typed
<1>4. CASE GatherTurn
  <2>1. Counted'
    <3>1. turns' \in Nat /\ cost' \in Nat /\ calls' \in Nat
      BY <1>4, GatherParts
    <3>2. templates' \in Nat /\ sql' \in Nat /\ asked' \in 0 .. MaxAsk
      BY <1>4, GatherParts
    <3>3. attempt' \in 0 .. 2 /\ try' \in 0 .. 3 /\ strikes' \in 0 .. MaxClaims
      BY <1>4, GatherParts
    <3> QED
      BY <3>1, <3>2, <3>3
  <2>2. Flagged'
    BY <1>4, GatherParts DEF Flagged, Nodes, Out, Nothing, Issues
  <2> QED
    BY <2>1, <2>2 DEF Typed
<1>5. CASE ToolCall
  <2>1. Counted'
    <3>1. turns' \in Nat /\ cost' \in Nat /\ calls' \in Nat
      BY <1>5 DEF ToolCall, SqlLeft, Shape
    <3>2. templates' \in Nat /\ sql' \in Nat /\ asked' \in 0 .. MaxAsk
      BY <1>5 DEF ToolCall, SqlLeft, Shape
    <3>3. attempt' \in 0 .. 2 /\ try' \in 0 .. 3 /\ strikes' \in 0 .. MaxClaims
      BY <1>5 DEF ToolCall, SqlLeft, Shape
    <3> QED
      BY <3>1, <3>2, <3>3
  <2>2. Flagged'
    BY <1>5 DEF ToolCall, SqlLeft, Shape, Flagged, Nodes, Out, Nothing, Issues
  <2> QED
    BY <2>1, <2>2 DEF Typed
<1>6. CASE Draft
  <2>1. /\ node = "draft" /\ node' \in {"critique", "capped"}
        /\ turns' = turns + 1 /\ calls' = calls + 1 /\ (cost' = cost \/ cost' = cost + 1)
        /\ attempt' = attempt + 1 /\ draft' \in Drafts \cup {NoDraft}
        /\ try' = 0 /\ strikes' = 0 /\ failure' = FALSE /\ issue' = "none"
        /\ UNCHANGED <<setup, late, asked, templates, sql, status, stopped, analysis, stored>>
    BY <1>6, DraftParts
  <2>2. Counted'
    <3>1. turns' \in Nat /\ cost' \in Nat /\ calls' \in Nat
      BY <2>1
    <3>2. templates' \in Nat /\ sql' \in Nat /\ asked' \in 0 .. MaxAsk
      BY <2>1
    <3>3. attempt' \in 0 .. 2 /\ try' \in 0 .. 3 /\ strikes' \in 0 .. MaxClaims
      BY <2>1 DEF Shape
    <3> QED
      BY <3>1, <3>2, <3>3
  <2>3. Flagged'
    BY <2>1 DEF Flagged, Nodes, Out, Nothing, Issues
  <2> QED
    BY <2>2, <2>3 DEF Typed
<1>7. CASE CriticCall
  <2>1. Counted'
    <3>1. turns' \in Nat /\ cost' \in Nat /\ calls' \in Nat
      BY <1>7, CriticParts
    <3>2. templates' \in Nat /\ sql' \in Nat /\ asked' \in 0 .. MaxAsk
      BY <1>7, CriticParts
    <3>3. attempt' \in 0 .. 2 /\ try' \in 0 .. 3 /\ strikes' \in 0 .. MaxClaims
      BY <1>7, CriticParts
    <3> QED
      BY <3>1, <3>2, <3>3
  <2>2. Flagged'
    BY <1>7, CriticParts DEF Flagged, Nodes, Out, Nothing, Issues
  <2> QED
    BY <2>1, <2>2 DEF Typed
<1>8. CASE Critique
  <2>1. Counted'
    BY <1>8 DEF Critique, WithinRatio, Stripped, IssueAfter, Retry
  <2>2. Flagged'
    BY <1>8 DEF Critique, WithinRatio, Stripped, IssueAfter, Retry, Flagged, Nodes, Out, Nothing, Issues
  <2> QED
    BY <2>1, <2>2 DEF Typed
<1>9. CASE Hitl
  <2>1. Counted'
    BY <1>9 DEF Hitl, Asks
  <2>2. Flagged'
    BY <1>9 DEF Hitl, Asks, Flagged, Nodes, Out, Nothing, Issues
  <2> QED
    BY <2>1, <2>2 DEF Typed
<1>10. CASE Persist
  <2>1. Counted'
    BY <1>10 DEF Persist, Verdict
  <2>2. Flagged'
    BY <1>10 DEF Persist, Verdict, Flagged, Nodes, Out, Nothing, Issues
  <2> QED
    BY <2>1, <2>2 DEF Typed
<1>11. CASE Break
  <2>1. Counted'
    <3>1. turns' \in Nat /\ cost' \in Nat /\ calls' \in Nat
      BY <1>11 DEF Break, MayTurn, TurnsLeft, Call
    <3>2. templates' \in Nat /\ sql' \in Nat /\ asked' \in 0 .. MaxAsk
      BY <1>11 DEF Break, MayTurn, TurnsLeft, Call
    <3>3. attempt' \in 0 .. 2 /\ try' \in 0 .. 3 /\ strikes' \in 0 .. MaxClaims
      BY <1>11 DEF Break, MayTurn, TurnsLeft, Call
    <3> QED
      BY <3>1, <3>2, <3>3
  <2>2. Flagged'
    BY <1>11 DEF Break, MayTurn, TurnsLeft, Call, Flagged, Nodes, Out, Nothing, Issues
  <2> QED
    BY <2>1, <2>2 DEF Typed
<1>12. CASE WallClockRunsOut
  <2>1. Counted'
    BY <1>12 DEF WallClockRunsOut
  <2>2. Flagged'
    BY <1>12 DEF WallClockRunsOut, Flagged, Nodes, Out, Nothing, Issues
  <2> QED
    BY <2>1, <2>2 DEF Typed
<1>13. CASE Done \/ UNCHANGED vars
  BY <1>13 DEF Done, vars, Flagged, Typed
<1> QED
  BY <1>1, <1>2, <1>3, <1>4, <1>5, <1>6, <1>7, <1>8, <1>9, <1>10, <1>11, <1>12, <1>13 DEF Next, PassStep

\* Every step keeps the shape.
LEMMA ShapeStep ==
  ASSUME Typed, Shape, [Next]_vars
  PROVE  Shape'
<1> USE Budgets DEF Typed, Counted, Flagged, Shape, vars, budgetVars, toolVars, draftVars, criticVars, Drafts, NoDraft
<1>1. CASE Baseline
  BY <1>1 DEF Baseline
<1>2. CASE Plan
  BY <1>2, PlanParts
<1>3. CASE GatherStops
  BY <1>3 DEF GatherStops, MayTurn, TurnsLeft
<1>4. CASE GatherTurn
  BY <1>4, GatherParts
<1>5. CASE ToolCall
  BY <1>5 DEF ToolCall, SqlLeft
<1>6. CASE Draft
  <2>1. /\ node = "draft" /\ node' \in {"critique", "capped"}
        /\ calls' = calls + 1 /\ attempt' = attempt + 1
        /\ draft' # NoDraft => draft'.bad <= draft'.claims
    BY <1>6, DraftParts
  <2> QED
    BY <2>1
<1>7. CASE CriticCall
  BY <1>7, CriticParts
<1>8. CASE Critique
  BY <1>8 DEF Critique, WithinRatio, Stripped, IssueAfter, Retry
<1>9. CASE Hitl
  BY <1>9 DEF Hitl, Asks
<1>10. CASE Persist
  BY <1>10 DEF Persist, Verdict
<1>11. CASE Break
  BY <1>11 DEF Break, MayTurn, TurnsLeft, Call
<1>12. CASE WallClockRunsOut
  BY <1>12 DEF WallClockRunsOut
<1>13. CASE Done \/ UNCHANGED vars
  BY <1>13 DEF Done
<1> QED
  BY <1>1, <1>2, <1>3, <1>4, <1>5, <1>6, <1>7, <1>8, <1>9, <1>10, <1>11, <1>12, <1>13 DEF Next, PassStep

\* Every step keeps the account of the calls.
LEMMA EffortStep ==
  ASSUME Typed, Shape, Effort, [Next]_vars
  PROVE  Effort'
<1> USE Budgets DEF Typed, Counted, Flagged, Shape, Effort, Gathered, vars, budgetVars, toolVars, draftVars, criticVars
<1>1. CASE Baseline
  BY <1>1 DEF Baseline
<1>2. CASE Plan
  BY <1>2, PlanParts
<1>3. CASE GatherStops
  BY <1>3 DEF GatherStops, MayTurn, TurnsLeft
<1>4. CASE GatherTurn
  BY <1>4, GatherParts
<1>5. CASE ToolCall
  BY <1>5 DEF ToolCall, SqlLeft
<1>6. CASE Draft
  <2>1. /\ node = "draft" /\ node' \in {"critique", "capped"}
        /\ calls' = calls + 1 /\ attempt' = attempt + 1 /\ try' = 0
        /\ sql' = sql
    BY <1>6, DraftParts
  <2> QED
    BY <2>1
<1>7. CASE CriticCall
  BY <1>7, CriticParts
<1>8. CASE Critique
  BY <1>8 DEF Critique, WithinRatio, Stripped, IssueAfter, Retry
<1>9. CASE Hitl
  BY <1>9 DEF Hitl, Asks
<1>10. CASE Persist
  BY <1>10 DEF Persist, Verdict
<1>11. CASE Break
  BY <1>11 DEF Break, MayTurn, TurnsLeft, Call
<1>12. CASE WallClockRunsOut
  BY <1>12 DEF WallClockRunsOut
<1>13. CASE Done \/ UNCHANGED vars
  BY <1>13 DEF Done
<1> QED
  BY <1>1, <1>2, <1>3, <1>4, <1>5, <1>6, <1>7, <1>8, <1>9, <1>10, <1>11, <1>12, <1>13 DEF Next, PassStep

\* Every step keeps the account of the money.
LEMMA SpendStep ==
  ASSUME Typed, Shape, Spend, [Next]_vars
  PROVE  Spend'
<1> USE Budgets DEF Typed, Counted, Flagged, Shape, Spend, vars, budgetVars, toolVars, draftVars, criticVars
<1>1. CASE Baseline
  BY <1>1 DEF Baseline
<1>2. CASE Plan
  BY <1>2, PlanParts
<1>3. CASE GatherStops
  BY <1>3 DEF GatherStops, MayTurn, TurnsLeft
<1>4. CASE GatherTurn
  BY <1>4, GatherParts
<1>5. CASE ToolCall
  BY <1>5 DEF ToolCall, SqlLeft
<1>6. CASE Draft
  <2>1. /\ node = "draft" /\ node' \in {"critique", "capped"}
        /\ setup.capped /\ node' = "critique" => cost' < Cap
        /\ (cost' = cost \/ cost' = cost + 1) /\ try' = 0
        /\ setup' = setup
    BY <1>6, DraftParts
  <2> QED
    BY <2>1
<1>7. CASE CriticCall
  BY <1>7, CriticParts
<1>8. CASE Critique
  BY <1>8 DEF Critique, WithinRatio, Stripped, IssueAfter, Retry
<1>9. CASE Hitl
  BY <1>9 DEF Hitl, Asks
<1>10. CASE Persist
  BY <1>10 DEF Persist, Verdict
<1>11. CASE Break
  BY <1>11 DEF Break, MayTurn, TurnsLeft, Call
<1>12. CASE WallClockRunsOut
  BY <1>12 DEF WallClockRunsOut
<1>13. CASE Done \/ UNCHANGED vars
  BY <1>13 DEF Done
<1> QED
  BY <1>1, <1>2, <1>3, <1>4, <1>5, <1>6, <1>7, <1>8, <1>9, <1>10, <1>11, <1>12, <1>13 DEF Next, PassStep

\* Every step keeps what status and issue say.
LEMMA VerdictStep ==
  ASSUME Typed, Shape, Verdicts, [Next]_vars
  PROVE  Verdicts'
<1> USE GraphAssumption DEF Typed, Counted, Flagged, Shape, Verdicts, WithinRatio, Stripped, vars, budgetVars, toolVars, draftVars, criticVars, Nothing, Drafts, NoDraft
<1>1. CASE Baseline
  BY <1>1 DEF Baseline
<1>2. CASE Plan
  BY <1>2 DEF Plan, Call, CountTurn, TurnsAfter, CostAfter, OverCap, Answers
<1>3. CASE GatherStops
  BY <1>3 DEF GatherStops, MayTurn, TurnsLeft
<1>4. CASE GatherTurn
  BY <1>4 DEF GatherTurn, MayTurn, TurnsLeft, Call, CountTurn, TurnsAfter, CostAfter, OverCap
<1>5. CASE ToolCall
  BY <1>5 DEF ToolCall, SqlLeft
<1>6. CASE Draft
  BY <1>6 DEF Draft, Call, CountTurn, TurnsAfter, CostAfter, OverCap, Answers
<1>7. CASE CriticCall
  BY <1>7 DEF CriticCall, CritiqueOpen, Critic, Call, CountTurn, TurnsAfter, CostAfter, OverCap, Answers
<1>8. CASE Critique
  BY <1>8 DEF Critique, WithinRatio, Stripped, IssueAfter, Retry
<1>9. CASE Hitl
  BY <1>9 DEF Hitl, Asks
<1>10. CASE Persist
  BY <1>10 DEF Persist, Verdict
<1>11. CASE Break
  BY <1>11 DEF Break, MayTurn, TurnsLeft, Call
<1>12. CASE WallClockRunsOut
  BY <1>12 DEF WallClockRunsOut
<1>13. CASE Done \/ UNCHANGED vars
  BY <1>13 DEF Done
<1> QED
  BY <1>1, <1>2, <1>3, <1>4, <1>5, <1>6, <1>7, <1>8, <1>9, <1>10, <1>11, <1>12, <1>13 DEF Next, PassStep

\* A pass starts in the invariant.
LEMMA Start == Init => Typed /\ Shape /\ Effort /\ Spend /\ Verdicts
<1> SUFFICES ASSUME Init PROVE Typed /\ Shape /\ Effort /\ Spend /\ Verdicts
  OBVIOUS
<1> USE Budgets DEF Init
<1>1. Counted
  BY DEF Counted
<1>2. Flagged
  BY DEF Flagged, Nodes, Out, Issues, Nothing
<1>3. Shape
  BY DEF Shape
<1>4. Effort
  BY DEF Effort, Gathered
<1>5. Spend
  BY DEF Spend
<1>6. Verdicts
  BY DEF Verdicts, Nothing
<1> QED
  BY <1>1, <1>2, <1>3, <1>4, <1>5, <1>6 DEF Typed

\* Where a pass is, what it has spent and what it says hold of every pass.
LEMMA Invariant == Spec => [](Typed /\ Shape /\ Effort /\ Spend /\ Verdicts)
<1>1. Typed /\ Shape /\ Effort /\ Spend /\ Verdicts /\ [Next]_vars
        => (Typed /\ Shape /\ Effort /\ Spend /\ Verdicts)'
  BY TypeStep, ShapeStep, EffortStep, SpendStep, VerdictStep
<1> QED
  BY Start, <1>1, PTL DEF Spec

\* Every variable keeps its type.
THEOREM TypeCorrect == Spec => []TypeOK
BY Invariant, TypeParts, PTL

\* The model calls of a pass, whatever is answered: the turns of gather, two
\* drafts, and three critics for each of them; and the raw queries.
THEOREM EffortIsBounded == Spec => []BoundedEffort
<1>1. Effort => BoundedEffort
  <2> SUFFICES ASSUME Effort PROVE BoundedEffort
    OBVIOUS
  <2>1. calls <= Gathered + 8 /\ sql <= SqlCap
    BY DEF Effort
  <2> QED
    BY <2>1, Budgets DEF BoundedEffort, Gathered
<1> QED
  BY Invariant, <1>1, PTL

\* A pass under the daily cap exceeds it by three calls at most: the critic's
\* loop, which swallows the stop, may finish, and one more draft is written.
THEOREM CapIsNearlyKept == Spec => []OverrunIsBounded
<1>1. Spend => OverrunIsBounded
  BY DEF Spend, OverrunIsBounded
<1> QED
  BY Invariant, <1>1, PTL

\* What is stored as ok kept two thirds of its claims.
THEOREM StoredOkIsGrounded == Spec => []OkIsGrounded
<1>1. Typed /\ Verdicts => OkIsGrounded
  <2> SUFFICES ASSUME Typed, Verdicts, stored = "ok" PROVE OkIsGrounded
    BY DEF OkIsGrounded
  <2>1. analysis /\ WithinRatio
    BY DEF Verdicts, Nothing
  <2> QED
    BY <2>1 DEF OkIsGrounded, WithinRatio, Stripped
<1> QED
  BY Invariant, <1>1, PTL

\* A stored analysis whose critic never came through says so.
THEOREM GivesUpLoudly == Spec => []UncheckedIsSaid
<1>1. Verdicts => UncheckedIsSaid
  BY DEF Verdicts, UncheckedIsSaid, Nothing
<1> QED
  BY Invariant, <1>1, PTL

\* Every step of the graph is a step of the pass that the service knows, or none.
LEMMA StepsMap ==
  ASSUME Typed, Shape, Verdicts, [Next]_vars
  PROVE  [Run!RunNext]_Run!runVars
<1> USE DEF Out, Run!runVars, Nothing
<1>0. /\ node \in Nodes \cup Out /\ setup.hitl \in BOOLEAN /\ calls \in Nat
      /\ stored \in {Nothing, "ok", "invalid"} /\ status \in {"running", "capped", "ok", "invalid"}
  BY DEF Typed, Counted, Flagged, Setups
<1>1. CASE Baseline
  BY <1>1 DEF Baseline, budgetVars
<1>2. CASE Plan
  BY <1>2, PlanParts DEF Run!RunNext, Run!Call
<1>3. CASE GatherStops
  BY <1>3 DEF GatherStops, budgetVars
<1>4. CASE GatherTurn
  BY <1>4, GatherParts DEF Run!RunNext, Run!Call
<1>5. CASE ToolCall
  BY <1>5 DEF ToolCall, budgetVars
<1>6. CASE Draft
  BY <1>6, DraftParts DEF Run!RunNext, Run!Call
<1>7. CASE CriticCall
  BY <1>7, CriticParts DEF Run!RunNext, Run!Call
<1>8. CASE Critique
  BY <1>8 DEF Critique, budgetVars
<1>9. CASE Hitl
  <2>1. calls > 0
    BY <1>0, <1>9 DEF Hitl, Shape, Typed, Counted
  <2> QED
    BY <1>0, <1>9, <2>1 DEF Hitl, Asks, budgetVars, Run!RunNext, Run!Leave
<1>10. CASE Persist
  <2>1. node = "persist" /\ calls > 0 /\ ~setup.hitl
    BY <1>0, <1>10 DEF Persist, Shape, Verdicts, Typed, Counted
  <2>2. Verdict \in {"ok", "invalid"}
    BY <1>0 DEF Verdict
  <2>3. stored' \in {"ok", "invalid"} /\ node' = "end" /\ UNCHANGED <<calls, setup>>
    BY <1>10, <2>2 DEF Persist, budgetVars
  <2> QED
    BY <2>1, <2>3 DEF Run!RunNext, Run!Leave
<1>11. CASE Break
  BY <1>11 DEF Break, Call, Run!RunNext, Run!Call, Run!Break
<1>12. CASE WallClockRunsOut
  BY <1>12 DEF WallClockRunsOut, budgetVars
<1>13. CASE Done \/ UNCHANGED vars
  BY <1>13 DEF Done, vars, budgetVars
<1> QED
  BY <1>1, <1>2, <1>3, <1>4, <1>5, <1>6, <1>7, <1>8, <1>9, <1>10, <1>11, <1>12, <1>13 DEF Next, PassStep

\* The graph implements the pass that the service's model takes for one: it pays
\* per call and leaves once, by an exit that its setup allows.
THEOREM GraphIsAPass == Spec => ImplementsPassRun
<1>1. Init => Run!RunInit
  BY DEF Init, Run!RunInit, Out, Nothing, Setups
<1> QED
  BY <1>1, StepsMap, Invariant, PTL DEF Spec, ImplementsPassRun, Run!RunSpec
=============================================================================

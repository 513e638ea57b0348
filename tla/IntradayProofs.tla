--------------------------- MODULE IntradayProofs ---------------------------
(***************************************************************************)
(* Theorems about the intraday recorder. Its lease, for any number of slots, *)
(* sessions and starts and any length of the lease; and the bars it stores   *)
(* beside the gap repair, for any symbols, repairs, warmup and revisions.    *)
(***************************************************************************)
EXTENDS RecorderLease, BarStore, TLAPS, WellFoundedInduction
-----------------------------------------------------------------------------
(* The lease *)

\* A process that was late has lost its row, and does not get it back: it asks
\* for a row only once, before it was ever late.
Fences ==
  \A s \in Slots :
    /\ late[s] \in {0, 1}
    /\ pc[s] \in {"claim", "poll"} => late[s] = 0
    /\ pc[s] = "renew" /\ late[s] = 1 => MyRow(s).owner # s

\* A row that nobody claimed has no lease running.
Unclaimed == \A d \in Days : row[d].owner = Nobody => row[d].left = 0

\* Every variable keeps its type.
LEMMA TypeStep ==
  ASSUME TypeOK, [Next]_vars
  PROVE  TypeOK'
<1> USE LeaseAssumption DEF TypeOK, Points
<1>1. ASSUME NEW s \in Slots, Start(s) PROVE TypeOK'
  BY <1>1 DEF Start
<1>2. ASSUME NEW s \in Slots, Claim(s) PROVE TypeOK'
  <2>1. mine[s].day \in Days /\ mine[s].token \in 0 .. MaxStarts
    OBVIOUS
  <2>2. [owner |-> s, token |-> mine[s].token, left |-> Lease] \in Row
    BY <2>1 DEF Row
  <2> QED
    BY <1>2, <2>1, <2>2 DEF Claim
<1>3. ASSUME NEW s \in Slots, Renew(s) PROVE TypeOK'
  <2>1. mine[s].day \in Days /\ row[mine[s].day] \in Row
    OBVIOUS
  <2>2. \A r \in Row : [r EXCEPT !.left = Lease] \in Row
    BY DEF Row
  <2>3. row' = [row EXCEPT ![mine[s].day] = [row[mine[s].day] EXCEPT !.left = Lease]]
    BY <1>3 DEF Renew, Renewed
  <2> QED
    BY <1>3, <2>1, <2>2, <2>3 DEF Renew
<1>4. ASSUME NEW s \in Slots, Fenced(s) PROVE TypeOK'
  BY <1>4 DEF Fenced
<1>5. ASSUME NEW s \in Slots, Poll(s) PROVE TypeOK'
  BY <1>5 DEF Poll
<1>6. ASSUME NEW s \in Slots, Die(s) PROVE TypeOK'
  <2>1. \A d \in Days : [row[d] EXCEPT !.owner = Departed] \in Row
    BY DEF Row
  <2>2. Vacated(s) \in [Days -> Row]
    BY <2>1 DEF Vacated
  <2> QED
    BY <1>6, <2>2 DEF Die
<1>7. CASE Tick
  <2>1. \A d \in Days : [row[d] EXCEPT !.left = IF @ > 0 THEN @ - 1 ELSE 0] \in Row
    BY DEF Row
  <2> QED
    BY <1>7, <2>1 DEF Tick
<1>8. CASE Midnight
  BY <1>8 DEF Midnight, Days
<1>9. CASE UNCHANGED vars
  BY <1>9 DEF vars
<1> QED
  BY <1>1, <1>2, <1>3, <1>4, <1>5, <1>6, <1>7, <1>8, <1>9 DEF Next, Step

\* A process that lost its row is late once at most.
LEMMA FencesStep ==
  ASSUME TypeOK, Fences, [Next]_vars
  PROVE  Fences'
<1> USE LeaseAssumption DEF TypeOK, Fences, MyRow
<1>1. ASSUME NEW s \in Slots, Start(s) PROVE Fences'
  BY <1>1 DEF Start
<1>2. ASSUME NEW s \in Slots, Claim(s) PROVE Fences'
  BY <1>2 DEF Claim
<1>3. ASSUME NEW s \in Slots, Renew(s) PROVE Fences'
  <2>1. \A d \in Days : row'[d].owner = row[d].owner
    BY <1>3 DEF Renew, Row
  <2>2. \A t \in Slots : mine[t].day \in Days
    OBVIOUS
  <2> QED
    BY <1>3, <2>1, <2>2 DEF Renew, Renewable
<1>4. ASSUME NEW s \in Slots, Fenced(s) PROVE Fences'
  BY <1>4 DEF Fenced
<1>5. ASSUME NEW s \in Slots, Poll(s) PROVE Fences'
  BY <1>5 DEF Poll
<1>6. ASSUME NEW s \in Slots, Die(s) PROVE Fences'
  <2>1. \A d \in Days : row'[d].owner \in {row[d].owner, Departed}
    BY <1>6 DEF Die, Vacated, Row
  <2>2. \A t \in Slots : mine[t].day \in Days /\ Departed # t
    OBVIOUS
  <2> QED
    BY <1>6, <2>1, <2>2 DEF Die
<1>7. CASE Tick
  <2>1. \A d \in Days : row'[d].owner = row[d].owner
    BY <1>7 DEF Tick, Row
  <2>2. \A t \in Slots : mine[t].day \in Days
    OBVIOUS
  <2> QED
    BY <1>7, <2>1, <2>2 DEF Tick
<1>8. CASE Midnight
  BY <1>8 DEF Midnight
<1>9. CASE UNCHANGED vars
  BY <1>9 DEF vars
<1> QED
  BY <1>1, <1>2, <1>3, <1>4, <1>5, <1>6, <1>7, <1>8, <1>9 DEF Next, Step

\* A row gets an owner with its lease.
LEMMA UnclaimedStep ==
  ASSUME TypeOK, Unclaimed, [Next]_vars
  PROVE  Unclaimed'
<1> USE LeaseAssumption DEF TypeOK, Unclaimed, MyRow, Row
<1>1. ASSUME NEW s \in Slots, Start(s) PROVE Unclaimed'
  BY <1>1 DEF Start
<1>2. ASSUME NEW s \in Slots, Claim(s) PROVE Unclaimed'
  <2>1. CASE row' = row
    BY <2>1
  <2>2. CASE row' = [row EXCEPT ![mine[s].day] =
                       [owner |-> s, token |-> mine[s].token, left |-> Lease]]
    <3>1. s # Nobody
      OBVIOUS
    <3>2. \A d \in Days : row'[d] = row[d] \/ row'[d].owner = s
      BY <2>2
    <3> QED
      BY <3>1, <3>2
  <2> QED
    BY <1>2, <2>1, <2>2 DEF Claim
<1>3. ASSUME NEW s \in Slots, Renew(s) PROVE Unclaimed'
  <2>1. row[mine[s].day].owner = s /\ s # Nobody
    BY <1>3 DEF Renew, Renewable
  <2> QED
    BY <1>3, <2>1 DEF Renew
<1>4. ASSUME NEW s \in Slots, Fenced(s) PROVE Unclaimed'
  BY <1>4 DEF Fenced
<1>5. ASSUME NEW s \in Slots, Poll(s) PROVE Unclaimed'
  BY <1>5 DEF Poll
<1>6. ASSUME NEW s \in Slots, Die(s) PROVE Unclaimed'
  BY <1>6 DEF Die, Vacated
<1>7. CASE Tick
  BY <1>7 DEF Tick
<1>8. CASE Midnight
  BY <1>8 DEF Midnight
<1>9. CASE UNCHANGED vars
  BY <1>9 DEF vars
<1> QED
  BY <1>1, <1>2, <1>3, <1>4, <1>5, <1>6, <1>7, <1>8, <1>9 DEF Next, Step

\* Types, fences and unclaimed rows hold in every state.
LEMMA Invariant == Spec => [](TypeOK /\ Fences /\ Unclaimed)
<1>1. Init => TypeOK /\ Fences /\ Unclaimed
  <2> SUFFICES ASSUME Init PROVE TypeOK /\ Fences /\ Unclaimed
    OBVIOUS
  <2> USE LeaseAssumption DEF Init
  <2>1. [owner |-> Nobody, token |-> 0, left |-> 0] \in Row
    BY DEF Row
  <2>2. TypeOK
    BY <2>1 DEF TypeOK, Days, Points
  <2> QED
    BY <2>2 DEF Fences, Unclaimed
<1>2. TypeOK /\ Fences /\ Unclaimed /\ [Next]_vars => (TypeOK /\ Fences /\ Unclaimed)'
  BY TypeStep, FencesStep, UnclaimedStep
<1> QED
  BY <1>1, <1>2, PTL DEF Spec

\* Every variable keeps its type.
THEOREM TypeCorrect == Spec => []TypeOK
BY Invariant, PTL

\* However many processes are started, stall and die, a process that lost its
\* session writes one more poll at most.
THEOREM LatePollsAreFew == Spec => []AtMostOneLatePoll
<1>1. Fences => AtMostOneLatePoll
  <2>1. \A n \in {0, 1} : n <= 1
    OBVIOUS
  <2> QED
    BY <2>1 DEF Fences, AtMostOneLatePoll
<1> QED
  BY Invariant, <1>1, PTL

\* For any length of the lease: a session whose lease is running changes hands
\* only because its process ended.
THEOREM SessionIsKept == Spec => LiveLeaseIsKept
<1> DEFINE Kept == \A d \in Days : row[d].left > 0 /\ row'[d].owner # row[d].owner =>
                     row'[d].owner = Departed
<1>1. TypeOK /\ Unclaimed /\ [Next]_vars => [Kept]_vars
  <2> SUFFICES ASSUME TypeOK, Unclaimed, [Next]_vars PROVE Kept
    OBVIOUS
  <2> USE DEF TypeOK, Unclaimed, MyRow, Row
  <2>1. ASSUME NEW s \in Slots, Start(s) \/ Fenced(s) \/ Poll(s) PROVE Kept
    BY <2>1 DEF Start, Fenced, Poll
  <2>2. ASSUME NEW s \in Slots, Claim(s) PROVE Kept
    BY <2>2 DEF Claim, Claimable
  <2>3. ASSUME NEW s \in Slots, Renew(s) PROVE Kept
    BY <2>3 DEF Renew
  <2>4. ASSUME NEW s \in Slots, Die(s) PROVE Kept
    BY <2>4 DEF Die, Vacated
  <2>5. CASE Tick
    BY <2>5 DEF Tick
  <2>6. CASE Midnight \/ UNCHANGED vars
    BY <2>6 DEF Midnight, vars
  <2> QED
    BY <2>1, <2>2, <2>3, <2>4, <2>5, <2>6 DEF Next, Step
<1> QED
  BY Invariant, <1>1, PTL DEF Spec, LiveLeaseIsKept

-----------------------------------------------------------------------------
(* Bars *)

\* The provider publishes a bar when it is over.
BarsAreOver == \A s \in Symbols, m \in Minutes : feed[s][m] > 0 => m <= now

\* An answer under way holds nothing from before its start and nothing the
\* provider does not have.
AnswerIsPublished ==
  rec.pc = "write" =>
    \A s \in Symbols, m \in Minutes : rec.got[s][m] > 0 => m > rec.start /\ feed[s][m] > 0

\* What it misses ends no more than a minute before anything it holds.
AnswerMissesLateBars ==
  rec.pc = "write" =>
    \A s \in Symbols, m \in Minutes :
      m > rec.start /\ feed[s][m] > 0 /\ rec.got[s][m] = 0 => \A g \in Got : m >= g - 1

\* A cursor that moved is two minutes behind the clock. It falls behind the
\* first start only by a minute, and for a bar that every later answer holds.
CursorIsBehind ==
  rec.pc # "down" =>
    /\ rec.start <= rec.since \/ rec.start <= now - 2
    /\ rec.start < rec.since =>
         \E s \in Symbols : \E m \in Minutes :
           m = rec.since + 1 /\ feed[s][m] > 0 /\ (rec.pc = "write" => rec.got[s][m] > 0)

BarTyped == BarTypeOK /\ BarsAreOver

\* The greatest and the least of some minutes.
LEMMA LeastIsLeast ==
  ASSUME NEW S \in SUBSET Nat, S # {}
  PROVE  Min(S) \in S /\ \A x \in S : x >= Min(S)
<1>1. PICK least \in S : \A y \in S : ~(<<y, least>> \in OpToRel(<, Nat))
  BY NatLessThanWellFounded, WFMin, Zenon
<1>2. \A y \in S : ~(y < least)
  <2>1. \A y \in S : y \in Nat /\ least \in Nat
    OBVIOUS
  <2> QED
    BY <2>1, <1>1, Zenon DEF OpToRel
<1>3. \A y \in S : least <= y
  BY <1>2
<1> QED
  BY <1>3 DEF Min

\* A set of numbers up to a bound has a greatest.
LEMMA GreatestIsGreatest ==
  ASSUME NEW N \in Nat, NEW S \in SUBSET (0 .. N), S # {}
  PROVE  Max(S) \in S /\ \A x \in S : x <= Max(S)
<1> DEFINE T == {N - x : x \in S}
<1>1. T \in SUBSET Nat
  <2>1. ASSUME NEW x \in S PROVE N - x \in Nat
    <3>1. x \in 0 .. N
      OBVIOUS
    <3> QED
      BY <3>1
  <2> QED
    BY <2>1
<1>2. T # {}
  OBVIOUS
<1>3. Min(T) \in T /\ \A y \in T : y >= Min(T)
  <2> HIDE DEF T
  <2> QED
    BY <1>1, <1>2, LeastIsLeast
<1>4. PICK x \in S : Min(T) = N - x
  BY <1>3
<1>5. \A y \in S : N - y >= N - x /\ y \in 0 .. N /\ x \in 0 .. N
  BY <1>3, <1>4
<1>6. \A y \in S : y <= x
  BY <1>5
<1> HIDE DEF T
<1> QED
  BY <1>6 DEF Max

\* Whatever is asked and whatever was stored, answers and inserts are bars.
LEMMA AnswersAreBars ==
  ASSUME BarTypeOK, NEW syms, NEW ends
  PROVE  Answer(syms, ends) \in Bars
BY BarAssumption DEF BarTypeOK, Bars, Answer

\* What is inserted is kept as bars.
LEMMA InsertsAreBars ==
  ASSUME BarTypeOK, NEW got \in Bars
  PROVE  Inserted(got) \in Bars
BY DEF BarTypeOK, Bars, Inserted

\* Gaps are minutes.
LEMMA GapsAreMinutes ==
  ASSUME BarTypeOK, NEW s \in Symbols
  PROVE  Missing(s) \subseteq Minutes
<1>1. {SessionEnd, now} \in SUBSET Nat /\ {SessionEnd, now} # {}
  BY BarAssumption DEF BarTypeOK, Minutes
<1>2. Min({SessionEnd, now}) \in 0 .. MaxNow
  <2>1. Min({SessionEnd, now}) \in {SessionEnd, now}
    BY <1>1, LeastIsLeast
  <2> QED
    BY <2>1, BarAssumption DEF BarTypeOK, Minutes
<1> QED
  BY <1>2, BarAssumption DEF Missing, Grid, Minutes

\* The window of a minute.
LEMMA WindowOfNow ==
  ASSUME BarTypeOK
  PROVE  now \div WindowLength \in Windows
<1>1. \A W \in Nat \ {0}, a, b \in Nat : a <= b => a \div W <= b \div W /\ a \div W \in Nat /\ b \div W \in Nat
  OBVIOUS
<1> QED
  BY <1>1, BarAssumption DEF BarTypeOK, Windows

\* Every variable of the bars keeps its type; the cursor needs CursorIsBehind.
LEMMA BarTypeStep ==
  ASSUME BarTyped, AnswerIsPublished, CursorIsBehind, [BarNext]_barVars
  PROVE  BarTypeOK'
<1> USE BarAssumption DEF BarTypeOK, BarTyped
<1>1. ASSUME NEW s \in Symbols, NEW m \in Minutes, Publish(s, m) \/ Revise(s, m) PROVE BarTypeOK'
  <2>1. feed' \in Bars
    BY <1>1 DEF Publish, Revise, Bars
  <2> QED
    BY <1>1, <2>1 DEF Publish, Revise
<1>2. CASE ClockTicks
  BY <1>2 DEF ClockTicks
<1>3. NoBars \in Bars
  BY DEF NoBars, Bars
<1>4. CASE RecorderStart
  <2>1. rec' = [pc |-> "poll", since |-> now - Warmup, start |-> now - Warmup, got |-> NoBars]
    BY <1>4 DEF RecorderStart, Down
  <2>2. rec' \in Recording /\ rec'.start >= rec'.since - 1
    BY <2>1, <1>3 DEF Recording
  <2> QED
    BY <1>4, <2>2 DEF RecorderStart
<1>5. CASE FetchBars
  <2>1. \A got \in Bars : [rec EXCEPT !.pc = "write", !.got = got] \in Recording
    BY DEF Recording
  <2>2. rec' \in Recording /\ rec'.start = rec.start /\ rec'.since = rec.since
    BY <1>5, <2>1, AnswersAreBars DEF FetchBars, Recording
  <2> QED
    BY <1>5, <2>2 DEF FetchBars
<1>6. CASE WriteBars
  <2>1. store' \in Bars
    BY <1>6, InsertsAreBars DEF WriteBars, Recording
  <2>2. NextStart \in - Warmup - 1 .. MaxNow /\ NextStart >= rec.since - 1
    <3>1. CASE Got = {}
      BY <3>1 DEF NextStart, Recording
    <3>2. CASE Got # {}
      <4>1. Got \in SUBSET (0 .. MaxNow)
        BY DEF Got, Minutes
      <4>2. Max(Got) \in Got /\ \A g \in Got : g <= Max(Got)
        BY <3>2, <4>1, GreatestIsGreatest
      <4>3. Max(Got) > rec.start
        BY <1>6, <4>2 DEF WriteBars, AnswerIsPublished, Got
      <4>4. rec.start < rec.since => rec.since + 1 \in Got
        BY <1>6 DEF WriteBars, CursorIsBehind, Got
      <4>5. rec.start < rec.since => rec.since + 1 <= Max(Got)
        BY <4>2, <4>4
      <4>6. NextStart = Max(Got) - 2
        BY <3>2 DEF NextStart
      <4>7. /\ rec.start \in Int /\ rec.since \in - Warmup .. MaxNow
            /\ rec.start >= rec.since - 1
        BY DEF Recording
      <4>8. Max(Got) \in 0 .. MaxNow
        BY <4>1, <4>2
      <4> QED
        BY <4>3, <4>5, <4>6, <4>7, <4>8
    <3> QED
      BY <3>1, <3>2
  <2>3. rec' \in Recording /\ rec'.start = NextStart /\ rec'.since = rec.since
    BY <1>6, <2>2, <1>3 DEF WriteBars, Recording
  <2> QED
    BY <1>6, <2>1, <2>2, <2>3 DEF WriteBars
<1>7. CASE RecorderDies
  BY <1>7, <1>3 DEF RecorderDies, Down, Recording
<1>8. Off \in Execution
  BY <1>3 DEF Off, Execution, Windows
<1>9. ASSUME NEW r \in Runs, PlanRepair(r) PROVE BarTypeOK'
  <2> DEFINE syms == {s \in Symbols : Missing(s) # {}}
             gaps == UNION {Missing(s) : s \in syms}
  <2>1. syms # {} /\ run' = [run EXCEPT ![r] = [Off EXCEPT !.pc = "claim", !.syms = syms,
           !.from = Min(gaps), !.to = Max(gaps), !.window = now \div WindowLength]]
    BY <1>9 DEF PlanRepair
  <2>2. gaps \in SUBSET (0 .. MaxNow) /\ gaps \in SUBSET Nat /\ gaps # {}
    BY <2>1, GapsAreMinutes DEF Minutes
  <2>3. Min(gaps) \in 0 .. MaxNow /\ Max(gaps) \in 0 .. MaxNow
    <3> HIDE DEF gaps
    <3> QED
      BY <2>2, LeastIsLeast, GreatestIsGreatest
  <2>4. run'[r] \in Execution
    <3>1. syms \subseteq Symbols
      OBVIOUS
    <3> HIDE DEF syms, gaps
    <3> QED
      BY <2>1, <2>3, <3>1, <1>3, WindowOfNow DEF Off, Execution
  <2>5. run' = [run EXCEPT ![r] = run'[r]]
    <3> HIDE DEF syms, gaps
    <3> QED
      BY <2>1
  <2> QED
    BY <1>9, <2>4, <2>5 DEF PlanRepair
<1>10. ASSUME NEW r \in Runs, ClaimRepair(r) PROVE BarTypeOK'
  BY <1>10, <1>8 DEF ClaimRepair, Execution
<1>11. ASSUME NEW r \in Runs, FetchGaps(r) PROVE BarTypeOK'
  <2>1. \A got \in Bars : [run[r] EXCEPT !.pc = "insert", !.got = got] \in Execution
    BY DEF Execution
  <2>2. Answer(run[r].syms, RepairEnds(r)) \in Bars
    BY AnswersAreBars
  <2> QED
    BY <1>11, <2>1, <2>2 DEF FetchGaps
<1>12. ASSUME NEW r \in Runs, InsertMissing(r) PROVE BarTypeOK'
  BY <1>12, <1>8, InsertsAreBars DEF InsertMissing, Execution
<1>13. ASSUME NEW r \in Runs, RepairFails(r) PROVE BarTypeOK'
  BY <1>13, <1>8 DEF RepairFails
<1>14. ASSUME NEW w \in Windows, LeaseExpires(w) PROVE BarTypeOK'
  BY <1>14 DEF LeaseExpires
<1>15. CASE UNCHANGED barVars
  BY <1>15 DEF barVars
<1> QED
  BY <1>1, <1>2, <1>4, <1>5, <1>6, <1>7, <1>9, <1>10, <1>11, <1>12, <1>13, <1>14, <1>15
     DEF BarNext, Recorder, Repair

\* Published bars are not withdrawn, and the clock does not go back.
LEMMA BarsAreOverStep ==
  ASSUME BarTyped, [BarNext]_barVars
  PROVE  BarsAreOver' /\ \A s \in Symbols, m \in Minutes : feed[s][m] > 0 => feed'[s][m] > 0
<1> USE BarAssumption DEF BarTyped, BarTypeOK, BarsAreOver
<1>1. ASSUME NEW s \in Symbols, NEW m \in Minutes, Publish(s, m) \/ Revise(s, m)
      PROVE  /\ now' = now /\ m <= now
             /\ \A t \in Symbols, n \in Minutes :
                  /\ feed[t][n] > 0 => feed'[t][n] > 0
                  /\ feed'[t][n] > 0 => feed[t][n] > 0 \/ n = m
  <2>1. m <= now
    BY <1>1 DEF Publish, Revise, Minutes
  <2>2. now' = now
    BY <1>1 DEF Publish, Revise
  <2>3. /\ feed' = [feed EXCEPT ![s] = [feed[s] EXCEPT ![m] = feed'[s][m]]]
        /\ feed'[s][m] > 0
    BY <1>1 DEF Publish, Revise, Bars
  <2> QED
    BY <2>1, <2>2, <2>3 DEF Bars
<1>2. CASE ClockTicks
  BY <1>2 DEF ClockTicks, Minutes
<1>3. CASE UNCHANGED <<now, feed>>
  BY <1>3
<1>4. CASE \E s \in Symbols, m \in Minutes : Publish(s, m) \/ Revise(s, m)
  <2>1. PICK s \in Symbols, m \in Minutes : Publish(s, m) \/ Revise(s, m)
    BY <1>4
  <2> QED
    BY <2>1, <1>1
<1>5. \/ \E s \in Symbols, m \in Minutes : Publish(s, m) \/ Revise(s, m)
      \/ ClockTicks
      \/ UNCHANGED <<now, feed>>
  <2>1. CASE Recorder
    BY <2>1 DEF Recorder, RecorderStart, FetchBars, WriteBars, RecorderDies
  <2>2. ASSUME NEW r \in Runs, Repair(r) \/ RepairFails(r)
        PROVE  UNCHANGED <<now, feed>>
    <3>1. CASE PlanRepair(r)
      BY <3>1 DEF PlanRepair
    <3>2. CASE ClaimRepair(r)
      BY <3>2 DEF ClaimRepair
    <3>3. CASE FetchGaps(r) \/ InsertMissing(r) \/ RepairFails(r)
      BY <3>3 DEF FetchGaps, InsertMissing, RepairFails
    <3> QED
      BY <2>2, <3>1, <3>2, <3>3 DEF Repair
  <2>3. (\E w \in Windows : LeaseExpires(w)) => UNCHANGED <<now, feed>>
    BY DEF LeaseExpires
  <2> QED
    BY <2>1, <2>2, <2>3 DEF BarNext, barVars
<1> QED
  BY <1>2, <1>3, <1>4, <1>5

\* Only a fetch leaves an answer to be written.
LEMMA NewRecording ==
  ASSUME BarTypeOK, RecorderStart \/ WriteBars \/ RecorderDies
  PROVE  rec'.pc # "write"
<1>1. CASE RecorderStart
  BY <1>1 DEF RecorderStart, Down
<1>2. CASE WriteBars
  BY <1>2 DEF WriteBars, BarTypeOK, Recording
<1>3. CASE RecorderDies
  BY <1>3 DEF RecorderDies, Down
<1> QED
  BY <1>1, <1>2, <1>3

\* The step of the answer, however late bars are.
LEMMA PublishedStep ==
  ASSUME BarTyped, AnswerIsPublished, [BarNext]_barVars
  PROVE  AnswerIsPublished'
<1> USE BarAssumption DEF BarTyped, BarTypeOK
<1>1. \A s \in Symbols, m \in Minutes : feed[s][m] > 0 => feed'[s][m] > 0
  BY BarsAreOverStep
<1>2. CASE FetchBars
  <2>1. \A s \in Symbols, m \in Minutes :
          rec'.got[s][m] = IF m > rec.start THEN feed[s][m] ELSE 0
    BY <1>2 DEF FetchBars, Answer, Recording, Minutes
  <2>2. rec'.start = rec.start /\ feed' = feed
    BY <1>2 DEF FetchBars, Recording
  <2> QED
    BY <2>1, <2>2 DEF AnswerIsPublished, Bars
<1>3. CASE RecorderStart \/ WriteBars \/ RecorderDies
  BY <1>3, NewRecording DEF AnswerIsPublished
<1>4. CASE UNCHANGED rec
  BY <1>1, <1>4 DEF AnswerIsPublished
<1> QED
  BY <1>2, <1>3, <1>4 DEF BarNext, Recorder, ClockTicks, Publish, Revise,
     Repair, PlanRepair, ClaimRepair, FetchGaps, InsertMissing, RepairFails, LeaseExpires, barVars

\* The step of the recorder's answer. A bar that comes while an answer is under
\* way ends, at Lag one, no more than a minute before the clock.
LEMMA AnswerStep ==
  ASSUME Lag <= 1, BarTyped, AnswerIsPublished, AnswerMissesLateBars, [BarNext]_barVars
  PROVE  AnswerMissesLateBars'
<1> USE BarAssumption DEF BarTyped, BarTypeOK, BarsAreOver
<1>1. ASSUME NEW s \in Symbols, NEW m \in Minutes, Publish(s, m) PROVE AnswerMissesLateBars'
  <2>1. /\ UNCHANGED <<rec, now>> /\ m >= now - 1
        /\ feed' = [feed EXCEPT ![s] = [feed[s] EXCEPT ![m] = 1]]
    BY <1>1 DEF Publish, Minutes
  <2>2. Got' = Got
    BY <2>1 DEF Got
  <2>3. ASSUME rec.pc = "write" PROVE \A g \in Got : g \in Nat /\ g <= now
    BY <2>3 DEF AnswerIsPublished, Got, Minutes
  <2>4. ASSUME rec.pc = "write" PROVE \A g \in Got : m >= g - 1
    BY <2>1, <2>3, <2>4 DEF Minutes
  <2>5. \A t \in Symbols, n \in Minutes : feed'[t][n] = IF t = s /\ n = m THEN 1 ELSE feed[t][n]
    BY <2>1 DEF Bars
  <2> QED
    BY <2>1, <2>2, <2>4, <2>5 DEF AnswerMissesLateBars
<1>2. ASSUME NEW s \in Symbols, NEW m \in Minutes, Revise(s, m) PROVE AnswerMissesLateBars'
  <2>1. UNCHANGED rec /\ Got' = Got
    BY <1>2 DEF Revise, Got
  <2>2. \A t \in Symbols, n \in Minutes : feed'[t][n] > 0 <=> feed[t][n] > 0
    BY <1>2 DEF Revise, Bars
  <2> QED
    BY <2>1, <2>2 DEF AnswerMissesLateBars
<1>3. CASE FetchBars
  <2>1. \A s \in Symbols, m \in Minutes :
          rec'.got[s][m] = IF m > rec.start THEN feed[s][m] ELSE 0
    BY <1>3 DEF FetchBars, Answer, Recording, Minutes
  <2>2. rec'.start = rec.start /\ feed' = feed
    BY <1>3 DEF FetchBars, Recording
  <2> QED
    BY <2>1, <2>2 DEF AnswerMissesLateBars, Bars
<1>4. CASE RecorderStart \/ WriteBars \/ RecorderDies
  BY <1>4, NewRecording DEF AnswerMissesLateBars
<1>5. CASE UNCHANGED <<feed, rec>>
  BY <1>5 DEF AnswerMissesLateBars, Got
<1> QED
  BY <1>1, <1>2, <1>3, <1>4, <1>5 DEF BarNext, Recorder, ClockTicks,
     Repair, PlanRepair, ClaimRepair, FetchGaps, InsertMissing, RepairFails, LeaseExpires, barVars

\* The step of the cursor.
LEMMA CursorStep ==
  ASSUME BarTyped, AnswerIsPublished, CursorIsBehind, [BarNext]_barVars
  PROVE  CursorIsBehind'
<1> USE BarAssumption DEF BarTyped, BarTypeOK
<1>1. /\ \A s \in Symbols, m \in Minutes : feed[s][m] > 0 => feed'[s][m] > 0
      /\ BarsAreOver /\ BarTypeOK'
  BY BarTypeStep, BarsAreOverStep
<1>2. CASE UNCHANGED rec
  <2>1. now' = now \/ now' = now + 1
    BY DEF BarNext, Recorder, ClockTicks, Publish, Revise, RecorderStart, FetchBars, WriteBars,
       RecorderDies, Repair, PlanRepair, ClaimRepair, FetchGaps, InsertMissing, RepairFails,
       LeaseExpires, barVars
  <2>3. now \in Nat /\ rec.start \in Int
    BY DEF Recording
  <2>2. rec.start <= now - 2 => rec.start <= now' - 2
    BY <2>1, <2>3
  <2> QED
    BY <1>1, <1>2, <2>2 DEF CursorIsBehind
<1>3. CASE RecorderStart
  <2>1. rec'.start = rec'.since /\ rec'.start \in Int
    BY <1>3 DEF RecorderStart, Down
  <2> QED
    BY <2>1 DEF CursorIsBehind
<1>4. CASE FetchBars
  <2>1. rec.pc = "poll" /\ UNCHANGED <<now, feed>> /\ rec'.start = rec.start /\ rec'.since = rec.since
    BY <1>4 DEF FetchBars, Recording
  <2>2. \A s \in Symbols, m \in Minutes : m > rec.start => rec'.got[s][m] = feed[s][m]
    BY <1>4 DEF FetchBars, Answer, Recording, Minutes
  <2>3. rec.start \in Int /\ rec.since \in Int
    BY DEF Recording
  <2>4. rec.start < rec.since => rec.since + 1 > rec.start
    BY <2>3
  <2> QED
    BY <2>1, <2>2, <2>4 DEF CursorIsBehind
<1>5. CASE WriteBars
  <2>1. /\ rec.pc = "write" /\ UNCHANGED <<now, feed>> /\ rec'.pc = "poll"
        /\ rec'.start = NextStart /\ rec'.since = rec.since
    BY <1>5 DEF WriteBars, Recording
  <2>2. CASE Got = {}
    BY <2>1, <2>2 DEF CursorIsBehind, NextStart
  <2>3. CASE Got # {}
    <3>1. Got \in SUBSET (0 .. MaxNow)
      BY DEF Got, Minutes
    <3>2. Max(Got) \in Got /\ \A g \in Got : g <= Max(Got)
      BY <2>3, <3>1, GreatestIsGreatest
    <3>3. PICK s \in Symbols : rec.got[s][Max(Got)] > 0 /\ Max(Got) \in Minutes
      BY <3>2 DEF Got
    <3>4. feed[s][Max(Got)] > 0 /\ Max(Got) > rec.start /\ Max(Got) <= now
      BY <2>1, <3>3, <1>1 DEF AnswerIsPublished, BarsAreOver
    <3>5. /\ rec'.start = Max(Got) - 2 /\ rec'.start \in Int /\ rec.since \in Int /\ rec.start \in Int
          /\ rec'.start >= rec.since - 1 /\ Max(Got) \in Int
      BY <2>1, <2>3, <3>3, <1>1 DEF NextStart, Recording, Minutes
    <3>6. rec'.start < rec.since => Max(Got) = rec.since + 1
      BY <3>5
    <3>7. rec'.start <= now - 2
      BY <3>4, <3>5
    <3> QED
      BY <2>1, <3>3, <3>4, <3>6, <3>7 DEF CursorIsBehind
  <2> QED
    BY <2>2, <2>3
<1>6. CASE RecorderDies
  BY <1>6 DEF RecorderDies, Down, CursorIsBehind
<1> QED
  BY <1>2, <1>3, <1>4, <1>5, <1>6 DEF BarNext, Recorder, ClockTicks, Publish, Revise,
     Repair, PlanRepair, ClaimRepair, FetchGaps, InsertMissing, RepairFails, LeaseExpires, barVars

\* What is stored stays stored as it is, and a stored answer is stored.
LEMMA InsertsKeep ==
  ASSUME BarTyped, [BarNext]_barVars
  PROVE  \A s \in Symbols, m \in Minutes : store[s][m] > 0 => store'[s][m] = store[s][m]
<1>1. ASSUME NEW got
      PROVE  \A s \in Symbols, m \in Minutes : store[s][m] > 0 => Inserted(got)[s][m] = store[s][m]
  BY DEF Inserted, BarTyped, BarTypeOK, Bars
<1>2. store' = store \/ \E got : store' = Inserted(got)
  BY DEF BarNext, Recorder, ClockTicks, Publish, Revise, RecorderStart, FetchBars, WriteBars,
     RecorderDies, Repair, PlanRepair, ClaimRepair, FetchGaps, InsertMissing, RepairFails,
     LeaseExpires, barVars
<1> QED
  BY <1>1, <1>2

\* The step of the cover: what is written lies before the next cursor.
LEMMA CoverStep ==
  ASSUME Lag <= 1, BarTyped, AnswerMissesLateBars, CursorIsBehind, OverlapCovers, [BarNext]_barVars
  PROVE  OverlapCovers'
<1> USE BarAssumption DEF BarTyped, BarTypeOK
<1>1. \A s \in Symbols, m \in Minutes : store[s][m] > 0 => store'[s][m] > 0
  BY InsertsKeep
<1>2. rec.start \in Int /\ rec.since \in Int
  BY DEF Recording
<1>3. ASSUME NEW s \in Symbols, NEW m \in Minutes, Publish(s, m) PROVE OverlapCovers'
  <2>1. /\ UNCHANGED rec /\ m >= now - 1
        /\ feed' = [feed EXCEPT ![s] = [feed[s] EXCEPT ![m] = 1]]
    BY <1>3 DEF Publish, Minutes
  <2>2. rec.pc # "down" => ~(rec.since < m /\ m <= rec.start)
    BY <1>2, <2>1 DEF CursorIsBehind, Minutes
  <2>3. \A t \in Symbols, n \in Minutes : feed'[t][n] = IF t = s /\ n = m THEN 1 ELSE feed[t][n]
    BY <2>1 DEF Bars
  <2> QED
    BY <1>1, <2>1, <2>2, <2>3 DEF OverlapCovers
<1>4. ASSUME NEW s \in Symbols, NEW m \in Minutes, Revise(s, m) PROVE OverlapCovers'
  <2>1. UNCHANGED rec /\ \A t \in Symbols, n \in Minutes : feed'[t][n] > 0 => feed[t][n] > 0
    BY <1>4 DEF Revise, Bars
  <2> QED
    BY <1>1, <2>1 DEF OverlapCovers
<1>5. CASE RecorderStart
  <2>1. rec'.start = rec'.since /\ rec'.start \in Int
    BY <1>5 DEF RecorderStart, Down
  <2> QED
    BY <2>1 DEF OverlapCovers, Minutes
<1>6. CASE FetchBars
  <2>1. rec.pc = "poll" /\ feed' = feed /\ rec'.start = rec.start /\ rec'.since = rec.since
    BY <1>6 DEF FetchBars, Recording
  <2> QED
    BY <1>1, <2>1 DEF OverlapCovers
<1>7. CASE WriteBars
  <2>1. /\ rec.pc = "write" /\ feed' = feed /\ rec'.start = NextStart /\ rec'.since = rec.since
        /\ store' = Inserted(rec.got)
    BY <1>7 DEF WriteBars, Recording
  <2>2. ASSUME NEW s \in Symbols, NEW m \in Minutes,
               rec.since < m, m <= NextStart, feed[s][m] > 0
        PROVE  store'[s][m] > 0
    <3>1. CASE m <= rec.start
      BY <1>1, <2>1, <2>2, <3>1 DEF OverlapCovers
    <3>2. CASE rec.got[s][m] > 0
      BY <2>1, <3>2 DEF Inserted, Bars, Recording
    <3>3. ASSUME m > rec.start, ~(rec.got[s][m] > 0) PROVE FALSE
      <4>1. Got # {}
        BY <2>2, <3>3, <1>2 DEF NextStart, Minutes
      <4>2. Got \in SUBSET (0 .. MaxNow)
        BY DEF Got, Minutes
      <4>3. Max(Got) \in Got /\ Max(Got) \in Int
        <5>1. Max(Got) \in Got
          BY <4>1, <4>2, GreatestIsGreatest
        <5>2. Max(Got) \in 0 .. MaxNow
          BY <5>1, <4>2
        <5> QED
          BY <5>1, <5>2
      <4>4. rec.got[s][m] = 0
        BY <3>3 DEF Bars, Recording
      <4>5. m >= Max(Got) - 1
        BY <2>1, <2>2, <3>3, <4>3, <4>4 DEF AnswerMissesLateBars
      <4> QED
        BY <2>2, <4>1, <4>3, <4>5 DEF NextStart, Minutes
    <3> QED
      BY <3>1, <3>2, <3>3, <1>2 DEF Minutes
  <2> QED
    BY <2>1, <2>2 DEF OverlapCovers
<1>8. CASE RecorderDies
  BY <1>8 DEF RecorderDies, Down, OverlapCovers
<1>9. CASE UNCHANGED <<feed, rec>>
  BY <1>1, <1>9 DEF OverlapCovers
<1> QED
  BY <1>3, <1>4, <1>5, <1>6, <1>7, <1>8, <1>9 DEF BarNext, Recorder, ClockTicks,
     Repair, PlanRepair, ClaimRepair, FetchGaps, InsertMissing, RepairFails, LeaseExpires, barVars

\* No bar is stored or published at first.
LEMMA BarInitially ==
  ASSUME BarInit
  PROVE  /\ BarTyped /\ AnswerIsPublished /\ AnswerMissesLateBars
         /\ CursorIsBehind /\ OverlapCovers
<1> USE BarAssumption DEF BarInit
<1>1. NoBars \in Bars
  BY DEF NoBars, Bars
<1>2. Down \in Recording /\ Down.pc = "down" /\ Down.start >= Down.since - 1
  BY <1>1 DEF Down, Recording
<1>3. Off \in Execution
  BY <1>1 DEF Off, Execution, Windows
<1>4. BarTypeOK
  BY <1>1, <1>2, <1>3 DEF BarTypeOK
<1>5. BarsAreOver
  BY DEF BarsAreOver, NoBars
<1> QED
  BY <1>2, <1>4, <1>5 DEF BarTyped, AnswerIsPublished, AnswerMissesLateBars, CursorIsBehind, OverlapCovers


\* What holds however late bars are.
LEMMA BarInvariant == BarSpec => [](BarTyped /\ AnswerIsPublished /\ CursorIsBehind)
<1>1. BarInit => BarTyped /\ AnswerIsPublished /\ CursorIsBehind
  BY BarInitially
<1>2. BarTyped /\ AnswerIsPublished /\ CursorIsBehind /\ [BarNext]_barVars
        => (BarTyped /\ AnswerIsPublished /\ CursorIsBehind)'
  BY BarTypeStep, BarsAreOverStep, PublishedStep, CursorStep DEF BarTyped
<1> QED
  BY <1>1, <1>2, PTL DEF BarSpec

\* Every variable of the bars keeps its type, the cursor included: it never
\* falls more than a minute behind the first start, however late bars are.
THEOREM BarTypeCorrect == BarSpec => []BarTypeOK
<1>1. BarTyped => BarTypeOK
  BY DEF BarTyped
<1> QED
  BY BarInvariant, <1>1, PTL

\* For any warmup and any symbols: while no bar is later than a minute, a
\* recorder that is up has stored every published bar behind its cursor.
THEOREM NothingIsLeftBehind ==
  ASSUME Lag <= 1
  PROVE  BarSpec => []OverlapCovers
<1>1. BarInit => AnswerMissesLateBars /\ OverlapCovers
  BY BarInitially
<1>2. BarTyped /\ AnswerIsPublished /\ CursorIsBehind /\ AnswerMissesLateBars /\ OverlapCovers
        /\ [BarNext]_barVars => (AnswerMissesLateBars /\ OverlapCovers)'
  BY AnswerStep, CoverStep
<1> QED
  BY BarInvariant, <1>1, <1>2, PTL DEF BarSpec
=============================================================================

------------------------------ MODULE Grounding ------------------------------
(***************************************************************************)
(* What code keeps of a draft (app/stockintel/analyst/evidence.py and        *)
(* entry.py, over the evidence that tools.py collects): citations must exist, *)
(* numbers must lie near a level of the evidence, and what the critic marks   *)
(* is taken out.                                                             *)
(*                                                                         *)
(* A text is a name and whether it starts with "Invalidation:"; prices are    *)
(* whole numbers, 0 where a draft names none. The critic's calls, the retry   *)
(* and the verdict are in AnalystGraph.                                      *)
(***************************************************************************)
EXTENDS Integers, Sequences, FiniteSets

CONSTANTS Ticker,    \* tickers with stored prices
          Watched,   \* those on the watchlist; the others are benchmarks
          Closes,    \* per ticker, its closes, newest first
          Claim,     \* the sentences a draft may hold
          Zone,      \* the zones it may name, with the stop below: [low, high, stop]
          CalcValue, \* the results a calculation may have
          NoTicker,
          MaxMarket, MaxItems, MaxRationale  \* bounds: sentences and items

ASSUME GroundingAssumption ==
  /\ Watched \subseteq Ticker
  /\ NoTicker \notin Ticker
  /\ Closes \in [Ticker -> Seq(Nat \ {0})]
  /\ \A t \in Ticker : Closes[t] # <<>>
  /\ CalcValue \subseteq Nat
  /\ \A z \in Zone : z.low \in Nat /\ z.high \in Nat /\ z.stop \in Nat
  /\ \A c \in Claim : c.prefixed \in BOOLEAN /\ c.level \in Nat
  /\ {MaxMarket, MaxItems, MaxRationale} \subseteq Nat

VARIABLES pool,   \* evidence: the levels in each item's payload
          shown,  \* history: levels of items tagged with a ticker, as the tools returned them
          draft,  \* [market, items]
          strikes,\* texts the critic marked
          clean,  \* what validate_draft returns
          step    \* "gather", "critique", "done"

groundingVars == <<pool, shown, draft, strikes, clean, step>>

-----------------------------------------------------------------------------
(* Evidence *)

\* The item a template returns for a ticker has one id per pass, whatever its
\* arguments. Calculations are numbered; here they go by their result.
ScoresId(t) == <<"scores", t>>
PricesId(t) == <<"prices", t>>
CalcId(v) == <<"calc", v>>
Tag(id) == IF id[1] = "calc" THEN NoTicker ELSE id[2]

Latest(t, days) == {Closes[t][i] : i \in 1 .. days}

\* tools.run and the merge into the evidence: a later item replaces one of the same id.
Put(id, levels) ==
  [i \in DOMAIN pool \cup {id} |-> IF i = id THEN levels ELSE pool[i]]

-----------------------------------------------------------------------------
(* levels_for, grounded *)

LevelsFor(e, t, cites) ==
  UNION {e[id] : id \in {i \in DOMAIN e : i \in cites \/ Tag(i) = t}}

Distance(v, level) == IF v > level THEN v - level ELSE level - v

\* Within LEVEL_TOLERANCE, 15 percent of the level.
Near(v, level) == level > 0 /\ 100 * Distance(v, level) <= 15 * level
Grounded(v, levels) == \E level \in levels : Near(v, level)

-----------------------------------------------------------------------------
(* A draft's claims, by place: where a sentence stands *)

SeqUpTo(S, n) == UNION {[1 .. k -> S] : k \in 0 .. n}
Item == [ticker : Ticker, rationale : SeqUpTo(Claim, MaxRationale), invalidation : Claim,
         zone : Zone]
Draft == [market : SeqUpTo(Claim, MaxMarket), items : SeqUpTo(Item, MaxItems)]
NoDraft == [market |-> <<>>, items |-> <<>>]

RationaleOf(d, i) == {<<"rationale", i, j>> : j \in DOMAIN d.items[i].rationale}
InvalidationOf(i) == <<"invalidation", i, 0>>

\* The places that take() looks at: items of tickers off the list are dropped unread.
OnList(d) == {i \in DOMAIN d.items : d.items[i].ticker \in Watched}
Examined(d) ==
  {<<"market", i, 0>> : i \in DOMAIN d.market}
    \cup UNION {RationaleOf(d, i) \cup {InvalidationOf(i)} : i \in OnList(d)}

At(d, p) ==
  CASE p[1] = "market" -> d.market[p[2]]
    [] p[1] = "rationale" -> d.items[p[2]].rationale[p[3]]
    [] p[1] = "invalidation" -> d.items[p[2]].invalidation
About(d, p) == IF p[1] = "market" THEN NoTicker ELSE d.items[p[2]].ticker

\* strip_invalidation_prefix, for invalidations only and before the critic's
\* marks are looked up.
Written(c) == <<c.prefixed, c.text>>
\* Mutant: for every sentence.
ComparedBare(d, p) == <<FALSE, At(d, p).text>>
Compared(d, p) ==
  IF p[1] = "invalidation" THEN <<FALSE, At(d, p).text>> ELSE Written(At(d, p))

-----------------------------------------------------------------------------
(* validate_draft, validate_signals *)

Cites(d, e, p) == At(d, p).cites \cap DOMAIN e

Struck(d, p, marks) == Compared(d, p) \in marks

\* Mutant: what the critic left standing is not checked by code.
TrustsCritic(d, e, p, marks) ==
  IF marks = {} THEN Cites(d, e, p) # {} ELSE ~Struck(d, p, marks)
Taken(d, e, p, marks) == ~Struck(d, p, marks) /\ Cites(d, e, p) # {}

Stands(d, e, marks) == {p \in Examined(d) : Taken(d, e, p, marks)}

\* Mutant: what the critic marked is not counted as stripped.
StrippedByCode(d, e, marks) == {p \in Examined(d) : Cites(d, e, p) = {}}
Stripped(d, e, marks) == Examined(d) \ Stands(d, e, marks)

\* Without one supported sentence an item is dropped, its invalidation with it.
Supports(d, e, i, marks) == RationaleOf(d, i) \cap Stands(d, e, marks)
KeptItems(d, e, marks) == {i \in OnList(d) : Supports(d, e, i, marks) # {}}
Kept(d, e, marks) ==
  {p \in Stands(d, e, marks) : p[1] # "market" => p[2] \in KeptItems(d, e, marks)}

\* Claims whose number no level supports are kept and flagged.
Flagged(d, e, marks) ==
  {p \in Stands(d, e, marks) :
     /\ At(d, p).level # 0
     /\ ~Grounded(At(d, p).level, LevelsFor(e, About(d, p), Cites(d, e, p)))}

\* A zone rests on the citations of the sentences that were kept for its item.
\* Mutant: on those of all its sentences.
ZoneCitesAll(d, e, i, marks) == UNION {Cites(d, e, p) : p \in RationaleOf(d, i)}
ZoneCites(d, e, i, marks) == UNION {Cites(d, e, p) : p \in Supports(d, e, i, marks)}
Unsupported(v, d, e, i, marks) ==
  v # 0 /\ ~Grounded(v, LevelsFor(e, d.items[i].ticker, ZoneCites(d, e, i, marks)))
BadZones(d, e, marks) ==
  {i \in KeptItems(d, e, marks) : \/ Unsupported(d.items[i].zone.low, d, e, i, marks)
                                 \/ Unsupported(d.items[i].zone.high, d, e, i, marks)}
BadStops(d, e, marks) ==
  {i \in KeptItems(d, e, marks) : Unsupported(d.items[i].zone.stop, d, e, i, marks)}

Validated(d, e, marks) ==
  [kept |-> Kept(d, e, marks), items |-> KeptItems(d, e, marks),
   flagged |-> Flagged(d, e, marks), badZones |-> BadZones(d, e, marks),
   badStops |-> BadStops(d, e, marks),
   claims |-> Cardinality(Examined(d)), stripped |-> Cardinality(Stripped(d, e, marks))]
Nothing == [kept |-> {}, items |-> {}, flagged |-> {}, badZones |-> {}, badStops |-> {},
            claims |-> 0, stripped |-> 0]

-----------------------------------------------------------------------------
(* A pass *)

\* baseline: the scores of every ticker carry its newest close.
GroundingInit ==
  /\ pool = [id \in {ScoresId(t) : t \in Ticker} |-> Latest(id[2], 1)]
  /\ shown = UNION {{t} \X Latest(t, 1) : t \in Ticker}
  /\ draft = NoDraft
  /\ strikes = {}
  /\ clean = Nothing
  /\ step = "gather"

\* price_window, as a prefetch or as a call of the model: days is the caller's.
PriceWindow(t, days) ==
  /\ step = "gather"
  /\ pool' = Put(PricesId(t), Latest(t, days))
  /\ shown' = shown \cup ({t} \X Latest(t, days))
  /\ UNCHANGED <<draft, strikes, clean, step>>

\* calc: the result is a level for whoever cites it.
Calculate(v) ==
  /\ step = "gather"
  /\ pool' = Put(CalcId(v), {v})
  /\ UNCHANGED <<shown, draft, strikes, clean, step>>

WriteDraft(d) ==
  /\ step = "gather"
  /\ draft' = d
  /\ step' = "critique"
  /\ UNCHANGED <<pool, shown, strikes, clean>>

Texts(d) == {Written(At(d, p)) : p \in Examined(d)}

\* The critic reads the draft as it was written and marks texts of it; code then
\* validates it. Marks of sentences that are not examined change nothing.
Critique(marks) ==
  /\ step = "critique"
  /\ strikes' = marks
  /\ clean' = Validated(draft, pool, marks)
  /\ step' = "done"
  /\ UNCHANGED <<pool, shown, draft>>

GroundingNext ==
  \/ \E t \in Ticker : \E days \in DOMAIN Closes[t] : PriceWindow(t, days)
  \/ \E v \in CalcValue : Calculate(v)
  \/ \E d \in Draft : WriteDraft(d)
  \/ \E marks \in SUBSET Texts(draft) : Critique(marks)

GroundingSpec == GroundingInit /\ [][GroundingNext]_groundingVars

-----------------------------------------------------------------------------
(* Properties *)

EvidenceIds == {ScoresId(t) : t \in Ticker} \cup {PricesId(t) : t \in Ticker}
         \cup {CalcId(v) : v \in CalcValue}

\* Evidence has known ids, and a report never strips more than it counted.
GroundingTypeOK ==
  /\ DOMAIN pool \subseteq EvidenceIds
  /\ \A t \in Ticker : ScoresId(t) \in DOMAIN pool
  /\ draft \in Draft \cup {NoDraft}
  /\ step \in {"gather", "critique", "done"}
  /\ clean.stripped \in 0 .. clean.claims
  /\ clean.items \subseteq OnList(draft)

\* A zone or stop that is kept unflagged, which the service may write into the
\* user's row, rests on prices: each of its numbers is near a level that a tool
\* showed for that ticker, or near one in an item that a kept sentence cites
\* (evidence.py:162-170, entry.py:68-80).
ZoneRestsOnEvidence ==
  \A i \in clean.items :
    LET zone == draft.items[i].zone
        Rests(v) ==
          \/ v = 0
          \/ \E s \in shown : s[1] = draft.items[i].ticker /\ Near(v, s[2])
          \/ \E p \in clean.kept \cap RationaleOf(draft, i) :
               \E id \in Cites(draft, pool, p) : Grounded(v, pool[id])
    IN /\ i \notin clean.badZones => Rests(zone.low) /\ Rests(zone.high)
       /\ i \notin clean.badStops => Rests(zone.stop)

WithinThird(report) == report.claims > 0 /\ 3 * report.stripped <= report.claims

\* An analysis that the graph accepts (graph.py:317-319) still holds a third of
\* the sentences that were examined, the ones lost with their item included, if
\* every item came with a sentence.
OkKeepsAThird ==
  (/\ step = "done"
   /\ WithinThird(clean)
   /\ \A i \in DOMAIN draft.items : draft.items[i].rationale # <<>>)
    => 3 * Cardinality(clean.kept) >= clean.claims

\* A mark of the critic only removes: nothing is kept that code alone would have
\* dropped, no zone is accepted that code alone would have flagged, and the
\* stripped share never falls (evidence.py:115-129).
CriticOnlyRemoves ==
  step = "done" =>
    LET alone == Validated(draft, pool, {}) IN
    /\ clean.kept \subseteq alone.kept
    /\ clean.items \subseteq alone.items
    /\ alone.badZones \cap clean.items \subseteq clean.badZones
    /\ clean.stripped >= alone.stripped

\* Nothing that the critic marked is kept, but for an invalidation that was
\* written with its label.
MarkedIsGone ==
  \A p \in clean.kept :
    Written(At(draft, p)) \in strikes => p[1] = "invalidation" /\ At(draft, p).prefixed
=============================================================================

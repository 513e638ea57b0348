---------------------------- MODULE MCGrounding ----------------------------
(***************************************************************************)
(* A watched ticker that fell from 30 to 20, a benchmark near 40. 23 is just   *)
(* within 15 percent of 20, 24 is not; 35 and 40 are near each other only.    *)
(***************************************************************************)
EXTENDS Grounding, TLC

CONSTANTS A, B

MCTicker == {A, B}
MCWatched == {A}
MCCloses == A :> <<20, 30>> @@ B :> <<40>>

\* A sentence about today's score; one that rests on the benchmark; an
\* invalidation with its label; an invented citation; one that rests on a sum.
Says(text, prefixed, cites, level) ==
  [text |-> text, prefixed |-> prefixed, cites |-> cites, level |-> level]
MCClaim == {
  Says("holds", FALSE, {ScoresId(A)}, 23),
  Says("leads", FALSE, {PricesId(B)}, 40),
  Says("holds", TRUE, {PricesId(A), CalcId(35)}, 24),
  Says("rumour", FALSE, {<<"news", A>>}, 0),
  Says("leads", FALSE, {CalcId(35)}, 35)}
MCZone == {[low |-> 0, high |-> 0, stop |-> 0],
           [low |-> 17, high |-> 23, stop |-> 50],
           [low |-> 35, high |-> 40, stop |-> 17]}
=============================================================================

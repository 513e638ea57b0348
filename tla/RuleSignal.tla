----------------------------- MODULE RuleSignal -----------------------------
(***************************************************************************)
(* The rule layer of the entry watch (app/stockintel/entries.py): pure       *)
(* functions over one row as the entries query joins it. Prices are whole     *)
(* numbers, 0 where the column is NULL; fractions count in parts of Whole.   *)
(***************************************************************************)
EXTENDS Integers

CONSTANTS Whole,    \* the parts of one
          NearPct   \* entry_near_pct

ASSUME RuleAssumption ==
  /\ Whole \in Nat \ {0}
  /\ NearPct \in Nat

JoinedRow == [price : Nat, low : Nat, high : Nat, invalidation : Nat, cost : Nat,
              kind : {"new", "add"}, risks : BOOLEAN, flags : BOOLEAN]
Signals == {"enter", "near", "wait", "avoid"}

-----------------------------------------------------------------------------
(* zone_distance *)

\* A zone with one end is that price.
Low(r) == IF r.low # 0 THEN r.low ELSE r.high
High(r) == IF r.high # 0 THEN r.high ELSE r.low
HasZone(r) == r.price > 0 /\ (r.low # 0 \/ r.high # 0)
InZone(r) == HasZone(r) /\ Low(r) <= r.price /\ r.price <= High(r)

\* The distance to the nearer end, as a fraction of the price.
Near(r) ==
  /\ HasZone(r)
  /\ Whole * (IF r.price > High(r) THEN r.price - High(r) ELSE Low(r) - r.price)
       <= NearPct * r.price

-----------------------------------------------------------------------------
(* rule_signal *)

BelowInvalidation(r) == r.invalidation # 0 /\ r.price < r.invalidation
RaisesAverage(r) == r.kind = "add" /\ r.cost > 0 /\ r.price >= r.cost

\* What the zone says once nothing forbids an entry.
ZoneSignal(r) ==
  IF InZone(r) THEN "enter"
  ELSE IF Near(r) \/ (~HasZone(r) /\ r.flags) THEN "near"
  ELSE "wait"

\* Mutant: the cost is asked for outside the zone only.
CostOutsideZone(r) ==
  IF r.price = 0 THEN "wait"
  ELSE IF BelowInvalidation(r) THEN "avoid"
  ELSE IF RaisesAverage(r) /\ ~InZone(r) THEN "wait"
  ELSE IF r.risks THEN IF InZone(r) THEN "avoid" ELSE "wait"
  ELSE ZoneSignal(r)
Signal(r) ==
  IF r.price = 0 THEN "wait"
  ELSE IF BelowInvalidation(r) THEN "avoid"
  ELSE IF RaisesAverage(r) THEN "wait"
  ELSE IF r.risks THEN IF InZone(r) THEN "avoid" ELSE "wait"
  ELSE ZoneSignal(r)

-----------------------------------------------------------------------------
\* entry_dca_min_discount, as the settings page clamps it (ui.html:2493).
DiscountOK(discount) == discount \in Nat /\ 2 * discount <= Whole

\* add_zone_cap: the cost less the discount, rounded to the nearest price, a tie up
\* (the floating point breaks it either way); 0 for a position without a cost.
Cap(cost, discount) ==
  IF cost > 0 THEN (2 * cost * (Whole - discount) + Whole) \div (2 * Whole) ELSE 0
=============================================================================

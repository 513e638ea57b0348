---------------------------- MODULE TickerProofs ----------------------------
(***************************************************************************)
(* Theorems about the rows of a ticker: its entry watch and the rules that   *)
(* judge it, for every setting and every set of prices and costs; its        *)
(* watchlist row and position. Both for any number of requests at once.      *)
(***************************************************************************)
EXTENDS EntryWatch, Holdings, TLAPS
-----------------------------------------------------------------------------
(* The entry watch *)

\* The rules in the order they are asked: a price at or above the cost of an
\* add row, and a risk, each keep the signal away from enter and near.
LEMMA SignalForbids ==
  ASSUME NEW r \in JoinedRow
  PROVE  /\ Signal(r) \in Signals
         /\ r.kind = "add" /\ r.cost > 0 /\ Signal(r) \in {"enter", "near"} => r.price < r.cost
         /\ r.risks => Signal(r) \notin {"enter", "near"}
<1> USE DEF JoinedRow
<1>1. ZoneSignal(r) \in Signals
  BY DEF ZoneSignal, Signals
<1>2. Signal(r) \in Signals
  BY <1>1 DEF Signal, Signals
<1>3. ASSUME Signal(r) \in {"enter", "near"} PROVE ~RaisesAverage(r) /\ ~r.risks
  BY <1>3 DEF Signal
<1>4. ASSUME r.kind = "add", r.cost > 0, ~RaisesAverage(r) PROVE r.price < r.cost
  BY <1>4 DEF RaisesAverage
<1> QED
  BY <1>2, <1>3, <1>4

\* What a quotient is.
LEMMA Quotient ==
  ASSUME NEW x \in Nat, NEW d \in Nat \ {0}
  PROVE  x \div d \in Nat /\ d * (x \div d) <= x /\ x < d * (x \div d) + d
OBVIOUS

\* A factor that is not zero may be left out.
LEMMA Cancel ==
  ASSUME NEW d \in Nat \ {0}, NEW x \in Nat, NEW y \in Nat, d * x < d * y
  PROVE  x < y
OBVIOUS

\* The cap is a price, at most the cost, and not zero.
LEMMA CapFits ==
  ASSUME NEW cost \in Nat, cost > 0, NEW discount, DiscountOK(discount)
  PROVE  Cap(cost, discount) \in Nat /\ 0 < Cap(cost, discount) /\ Cap(cost, discount) <= cost
<1> DEFINE left == Whole - discount
           x == 2 * (cost * left) + Whole
           q == x \div (2 * Whole)
<1>1. Whole \in Nat /\ Whole > 0 /\ discount \in Nat /\ 2 * discount <= Whole
  BY RuleAssumption DEF DiscountOK
<1>2. left \in Nat /\ left <= Whole /\ Whole <= 2 * left
  BY <1>1
<1>3. /\ cost * left \in Nat /\ cost * left <= cost * Whole /\ left <= cost * left
      /\ cost * Whole \in Nat
  <2> HIDE DEF left
  <2> QED
    BY <1>1, <1>2
<1> HIDE DEF left
<1>4. x \in Nat /\ 2 * Whole <= x /\ x < (2 * Whole) * (cost + 1)
  BY <1>1, <1>2, <1>3
<1>5. 2 * Whole \in Nat \ {0}
  BY <1>1
<1> HIDE DEF x
<1>6. q \in Nat /\ (2 * Whole) * q <= x /\ x < (2 * Whole) * q + 2 * Whole
  BY <1>4, <1>5, Quotient
<1> HIDE DEF q
<1>7. (2 * Whole) * q \in Nat /\ (2 * Whole) * (cost + 1) \in Nat
  BY <1>1, <1>6
<1>8. (2 * Whole) * q < (2 * Whole) * (cost + 1)
  BY <1>4, <1>6, <1>7
<1>9. q < cost + 1
  BY <1>5, <1>6, <1>8, Cancel
<1>10. q # 0
  <2>1. q = 0 => (2 * Whole) * q = 0
    BY <1>1
  <2> QED
    BY <1>1, <1>4, <1>6, <1>7, <2>1
<1>11. Cap(cost, discount) = q
  BY <1>1 DEF Cap, q, x, left
<1> QED
  BY <1>6, <1>9, <1>10, <1>11

\* Whether or not the position is held, its cap is a price a zone can have.
LEMMA CapIsPrice ==
  ASSUME NEW a \in Costs \cup {NotHeld}, NEW discount \in Discounts
  PROVE  a \in Int /\ Cap(a, discount) \in Price
<1>1. a \in Nat \/ a = -1
  BY EntryAssumption DEF NotHeld
<1>2. a \in Nat => a <= MaxPrice
  BY EntryAssumption DEF NotHeld
<1>3. CASE a \in Nat /\ a > 0
  BY <1>2, <1>3, CapFits, EntryAssumption DEF Price
<1>4. CASE ~(a \in Nat /\ a > 0)
  BY <1>1, <1>4, EntryAssumption DEF Cap, Price
<1> QED
  BY <1>1, <1>3, <1>4

-----------------------------------------------------------------------------
(* One statement *)

\* The CHECK keeps a zone in order, whatever a statement would write.
LEMMA WriteKeeps ==
  ASSUME NEW new \in Row, Write(new), row \in Row, Ordered(row.zone)
  PROVE  row' \in Row /\ Ordered(row.zone)' /\ (row' = new \/ row' = row)
BY DEF Write, Ordered

\* A request's fields.
Requests == [pc : {"idle", "add", "patch", "accept"}, zone : Zone,
             status : Statuses \cup {"keep"}, source : {"user", "keep"},
             low : BOOLEAN, high : BOOLEAN, kind : {"new", "add"}]
Passes == [pc : {"idle", "ran", "capped"}, empty : BOOLEAN, cap : Price]

\* What a step has to keep of the row and of the rest.
RowOK == row \in Row /\ Ordered(row.zone)
RestOK == /\ avg \in Costs \cup {NotHeld} /\ sig \in Suggestions \cup {NoZone}
          /\ pass \in Passes /\ client \in [Clients -> Requests]

\* The invariant in two parts: the row, and the rest.
LEMMA Split == TypeOK <=> RowOK /\ RestOK
BY DEF TypeOK, RowOK, RestOK, Ordered, Requests, Passes

\* And after a step.
LEMMA SplitNext == TypeOK' <=> RowOK' /\ RestOK'
BY DEF TypeOK, RowOK, RestOK, Ordered, Requests, Passes

\* Zones typed or suggested are zones.
LEMMA SmallZones == UserZone \subseteq Zone /\ Suggestions \subseteq Zone /\ NoZone \in Zone
<1>1. Typed \subseteq Price /\ Suggested \subseteq Price /\ 0 \in Price
  BY EntryAssumption DEF Price
<1>2. UserZone \subseteq Zone
  BY <1>1 DEF UserZone, Zone
<1>3. Suggestions \subseteq Zone
  BY <1>1 DEF Suggestions, Zone
<1>4. NoZone \in Zone
  BY <1>1 DEF NoZone, Zone
<1> QED
  BY <1>2, <1>3, <1>4

\* The invariant holds of an empty watchlist.
LEMMA InitTypeOK == Init => TypeOK
<1> SUFFICES ASSUME Init PROVE TypeOK
  OBVIOUS
<1>1. NoRow \in Row
  BY SmallZones DEF NoRow, Row, Statuses
<1>2. RowOK
  BY <1>1 DEF Init, RowOK, Ordered, NoRow, NoZone
<1>3. NoPass \in Passes /\ Idle \in Requests
  BY SmallZones, EntryAssumption DEF NoPass, Passes, Idle, Requests, Price
<1>4. RestOK
  BY <1>3 DEF Init, RestOK
<1> QED
  BY <1>2, <1>4, Split

-----------------------------------------------------------------------------
(* One lemma per group of actions *)

LEMMA PositionKeeps ==
  ASSUME TypeOK, (\E a \in Costs : PutPosition(a)) \/ ClosePosition \/ EnsureHoldingRow
  PROVE  TypeOK'
<1>1. RowOK /\ RestOK
  BY Split
<1>2. ASSUME NEW a \in Costs, PutPosition(a) PROVE TypeOK'
  BY <1>1, <1>2, SplitNext DEF PutPosition, RowOK, RestOK, Ordered
<1>3. CASE ClosePosition
  BY <1>1, <1>3, SplitNext DEF ClosePosition, RowOK, RestOK, Ordered
<1>4. CASE EnsureHoldingRow
  <2>1. PICK new \in Row : Write(new)
    <3>1. [NoRow EXCEPT !.present = TRUE, !.kind = "add"] \in Row
      BY SmallZones DEF NoRow, Row, Statuses
    <3>2. [row EXCEPT !.kind = "add"] \in Row
      BY <1>1 DEF RowOK, Row
    <3> QED
      BY <1>4, <3>1, <3>2 DEF EnsureHoldingRow
  <2>2. RowOK'
    BY <1>1, <2>1, WriteKeeps DEF RowOK
  <2>3. RestOK'
    BY <1>1, <1>4 DEF EnsureHoldingRow, RestOK
  <2> QED
    BY <2>2, <2>3, SplitNext
<1> QED
  BY <1>2, <1>3, <1>4

\* A step that only starts or ends a request.
LEMMA RequestMoves ==
  ASSUME TypeOK, NEW c \in Clients, NEW l \in Requests,
         client' = [client EXCEPT ![c] = l], UNCHANGED <<avg, sig, pass>>
  PROVE  RestOK'
BY Split DEF RestOK

\* The reads of the handlers keep it,
LEMMA ChecksKeep ==
  ASSUME TypeOK, NEW c \in Clients, AddCheck(c) \/ PatchCheck(c) \/ AcceptCheck(c)
  PROVE  TypeOK'
<1>1. RowOK /\ RestOK
  BY Split
<1>2. /\ \A discount \in Discounts : Cap(avg, discount) \in Price
      /\ Idle \in Requests
  BY <1>1, CapIsPrice, SmallZones DEF RestOK, Idle, Requests
<1>3. CASE AddCheck(c)
  <2>1. PICK z \in UserZone, discount \in Discounts : AddCheck(c)!(z, discount)
    BY <1>3 DEF AddCheck
  <2> DEFINE cap == Cap(avg, discount)
             high == IF cap > 0 /\ z.high > cap THEN cap ELSE z.high
             l == [Idle EXCEPT !.pc = "add", !.zone = [low |-> z.low, high |-> high],
                     !.kind = IF Held THEN "add" ELSE "new"]
  <2>2. [low |-> z.low, high |-> high] \in Zone
    BY <1>2, SmallZones DEF Zone
  <2>3. l \in Requests
    BY <1>2, <2>2 DEF Requests
  <2>4. client' = [client EXCEPT ![c] = l] /\ UNCHANGED <<row, avg, sig, pass>>
    BY <2>1 DEF Acts
  <2>5. RestOK'
    BY <2>3, <2>4, RequestMoves
  <2>6. RowOK'
    BY <1>1, <2>4 DEF RowOK, Ordered
  <2> QED
    BY <2>5, <2>6, SplitNext
<1>4. CASE PatchCheck(c)
  <2>1. PICK z \in UserZone, low \in BOOLEAN, high \in BOOLEAN, s \in Statuses \cup {"keep"},
             discount \in Discounts : PatchCheck(c)!(z, low, high, s, discount)
    BY <1>4 DEF PatchCheck
  <2> DEFINE l == [Idle EXCEPT !.pc = "patch", !.zone = z, !.low = low, !.high = high, !.status = s,
                     !.source = IF low \/ high THEN "user" ELSE "keep"]
             m == [l EXCEPT !.status = "watching", !.zone = NoZone,
                     !.low = TRUE, !.high = TRUE, !.source = "user"]
  <2>2. l \in Requests
    BY <1>2, SmallZones DEF Requests
  <2>3. m \in Requests
    BY <2>2, SmallZones DEF Requests, Statuses
  <2> HIDE DEF l, m
  <2>4. UNCHANGED <<row, avg, sig, pass>>
    BY <2>1
  <2>5. client' = [client EXCEPT ![c] = l] \/ client' = [client EXCEPT ![c] = m]
    BY <2>1 DEF Acts, l, m
  <2>6. RestOK'
    BY <2>2, <2>3, <2>4, <2>5, RequestMoves
  <2>7. RowOK'
    BY <1>1, <2>4 DEF RowOK, Ordered
  <2> QED
    BY <2>6, <2>7, SplitNext
<1>5. CASE AcceptCheck(c)
  <2>0. PICK discount \in Discounts : AcceptCheck(c)!(discount)
    BY <1>5 DEF AcceptCheck
  <2> DEFINE cap == IF row.present /\ row.kind = "add" THEN Cap(avg, discount) ELSE 0
             high == IF cap > 0 /\ sig.high > cap THEN cap ELSE sig.high
             l == [Idle EXCEPT !.pc = "accept", !.zone = [low |-> sig.low, high |-> high]]
  <2>1. cap \in Price /\ sig \in Zone
    BY <1>1, <1>2, SmallZones, EntryAssumption DEF RestOK, Price
  <2>2. [low |-> sig.low, high |-> high] \in Zone
    BY <2>1 DEF Zone
  <2>3. l \in Requests
    BY <1>2, <2>2 DEF Requests
  <2>4. client' = [client EXCEPT ![c] = l] /\ UNCHANGED <<row, avg, sig, pass>>
    BY <2>0 DEF Acts
  <2>5. RestOK'
    BY <2>3, <2>4, RequestMoves
  <2>6. RowOK'
    BY <1>1, <2>4 DEF RowOK, Ordered
  <2> QED
    BY <2>5, <2>6, SplitNext
<1> QED
  BY <1>3, <1>4, <1>5

\* and so do their writes.
LEMMA WritesKeep ==
  ASSUME TypeOK, NEW c \in Clients, AddWrite(c) \/ PatchWrite(c) \/ AcceptWrite(c) \/ Drop(c)
  PROVE  TypeOK'
<1>1. RowOK /\ RestOK
  BY Split
<1>2. client[c] \in Requests /\ Idle \in Requests
  BY <1>1, SmallZones DEF RestOK, Idle, Requests
<1>3. RowOK'
  <2>1. CASE AddWrite(c)
    <3> DEFINE new == [present |-> TRUE, zone |-> client[c].zone, status |-> "watching",
                       source |-> "user", kind |-> client[c].kind]
    <3>1. new \in Row
      BY <1>2 DEF Requests, Row, Statuses
    <3>2. Write(new)
      BY <2>1 DEF AddWrite
    <3> HIDE DEF new
    <3> QED
      BY <1>1, <3>1, <3>2, WriteKeeps DEF RowOK
  <2>2. CASE PatchWrite(c)
    <3> DEFINE l == client[c]
               new == [row EXCEPT !.zone = Patched(l, row.zone),
                         !.status = IF l.status = "keep" THEN row.status ELSE l.status,
                         !.source = IF l.source = "keep" THEN row.source ELSE l.source]
    <3>1. Patched(l, row.zone) \in Zone
      BY <1>1, <1>2 DEF Patched, Zone, Requests, RowOK, Row
    <3>2. new \in Row
      BY <1>1, <1>2, <3>1 DEF Requests, RowOK, Row
    <3>3. Write(new)
      BY <2>2, <1>1 DEF PatchWrite, RowOK, Row
    <3> HIDE DEF new
    <3> QED
      BY <1>1, <3>2, <3>3, WriteKeeps DEF RowOK
  <2>3. CASE AcceptWrite(c)
    <3>1. CASE row.present
      <4> DEFINE new == [row EXCEPT !.zone = client[c].zone, !.source = "analyst"]
      <4>1. new \in Row
        BY <1>1, <1>2 DEF Requests, RowOK, Row
      <4>2. Write(new)
        BY <2>3, <3>1 DEF AcceptWrite
      <4> HIDE DEF new
      <4> QED
        BY <1>1, <4>1, <4>2, WriteKeeps DEF RowOK
    <3>2. CASE ~row.present
      BY <1>1, <2>3, <3>2 DEF AcceptWrite, RowOK, Ordered
    <3> QED
      BY <3>1, <3>2
  <2>4. CASE Drop(c)
    <3> DEFINE new == [row EXCEPT !.status = "dropped"]
    <3>1. new \in Row
      BY <1>1 DEF RowOK, Row, Statuses
    <3>2. Write(new)
      BY <2>4 DEF Drop
    <3> HIDE DEF new
    <3> QED
      BY <1>1, <3>1, <3>2, WriteKeeps DEF RowOK
  <2> QED
    BY <2>1, <2>2, <2>3, <2>4
<1>4. RestOK'
  <2>1. CASE Drop(c)
    BY <1>1, <2>1 DEF Drop, RestOK
  <2>2. CASE ~Drop(c)
    BY <1>2, <2>2, RequestMoves DEF AddWrite, PatchWrite, AcceptWrite, Done
  <2> QED
    BY <2>1, <2>2
<1> QED
  BY <1>3, <1>4, SplitNext

-----------------------------------------------------------------------------
(* The entry pass *)

\* What proposed_zone lets through is a zone in order, below the cap it read.
LEMMA ProposedFits ==
  ASSUME TypeOK, NEW z \in Suggestions \cup {NoZone}
  PROVE  /\ Proposed(z) \in Zone
         /\ Proposed(z) # NoZone /\ pass.cap > 0 =>
              /\ 0 < Proposed(z).low /\ Proposed(z).low <= Proposed(z).high
              /\ Proposed(z).high <= pass.cap
<1>1. z \in Zone /\ NoZone \in Zone /\ pass.cap \in Price
  BY SmallZones DEF TypeOK
<1>2. z # NoZone => z.low > 0
  <2>1. z # NoZone => z.low \in Suggested
    BY DEF Suggestions
  <2>2. \A n \in Suggested : n > 0
    BY EntryAssumption
  <2> QED
    BY <2>1, <2>2
<1>3. z.low \in Int /\ z.high \in Int /\ pass.cap \in Int
  BY <1>1, EntryAssumption DEF Zone, Price
<1>4. CASE ~pass.empty \/ z.low > z.high \/ (pass.cap > 0 /\ z.low >= pass.cap)
  BY <1>1, <1>4 DEF Proposed
<1>5. CASE ~(~pass.empty \/ z.low > z.high \/ (pass.cap > 0 /\ z.low >= pass.cap))
  <2>1. Proposed(z) = [z EXCEPT !.high = IF pass.cap > 0 /\ z.high > pass.cap THEN pass.cap ELSE z.high]
    BY <1>1, <1>5 DEF Proposed, Zone
  <2>2. /\ Proposed(z) \in Zone
        /\ Proposed(z).low = z.low
        /\ Proposed(z).high = IF pass.cap > 0 /\ z.high > pass.cap THEN pass.cap ELSE z.high
    BY <1>1, <2>1 DEF Zone
  <2>3. z = NoZone /\ pass.cap > 0 => Proposed(z) = NoZone
    <3>1. z = NoZone => z.low = 0 /\ z.high = 0
      BY DEF NoZone
    <3>2. z = NoZone /\ pass.cap > 0 => Proposed(z) = [NoZone EXCEPT !.high = 0]
      BY <1>3, <2>1, <3>1
    <3>3. [NoZone EXCEPT !.high = 0] = NoZone
      BY DEF NoZone
    <3> QED
      BY <3>2, <3>3
  <2> QED
    BY <1>2, <1>3, <1>5, <2>2, <2>3
<1> QED
  BY <1>4, <1>5

\* The pass ends with one write of the row at most, of its own zone.
LEMMA PassWritesOne ==
  ASSUME TypeOK, PassWrites
  PROVE  /\ pass.pc = "capped" /\ pass' = NoPass /\ sig' \in Suggestions \cup {NoZone}
         /\ UNCHANGED <<avg, client>>
         /\ \E new \in Row, z \in Suggestions \cup {NoZone} :
              /\ Write(new)
              /\ new.present = row.present /\ new.kind = row.kind
              /\ row.status \in {"entered", "dropped"} \/ new.status \in {"entered", "dropped"}
                   => new.status = row.status
              /\ \/ new.zone = row.zone
                 \/ row.zone = NoZone /\ Proposed(z) # NoZone /\ new.zone = Proposed(z)
<1>1. PICK s \in {"enter", "wait"}, z \in Suggestions \cup {NoZone}, clean \in BOOLEAN :
        PassWrites!(s, z, clean)
  BY DEF PassWrites
<1> DEFINE fills == clean /\ Proposed(z) # NoZone /\ StillEmpty
           moved == [row EXCEPT !.status = Moved(s)]
           filled == [moved EXCEPT !.zone = Proposed(z), !.source = "analyst"]
<1>2. row \in Row /\ Proposed(z) \in Zone
  BY ProposedFits DEF TypeOK
<1>3. Moved(s) \in Statuses
  BY <1>2 DEF Moved, Row, Statuses
<1>4. row.status \in {"entered", "dropped"} \/ Moved(s) \in {"entered", "dropped"} => Moved(s) = row.status
  BY DEF Moved
<1>5. moved \in Row /\ moved.zone = row.zone /\ moved.status = Moved(s)
      /\ moved.present = row.present /\ moved.kind = row.kind
  BY <1>2, <1>3 DEF Row
<1> HIDE DEF moved
<1>6. filled \in Row /\ filled.zone = Proposed(z) /\ filled.status = Moved(s)
      /\ filled.present = row.present /\ filled.kind = row.kind
  BY <1>2, <1>5 DEF Row
<1> HIDE DEF filled
<1>7. Write(IF fills THEN filled ELSE moved)
  BY <1>1 DEF filled, moved
<1>8. CASE fills
  BY <1>1, <1>4, <1>6, <1>7, <1>8 DEF StillEmpty
<1>9. CASE ~fills
  BY <1>1, <1>4, <1>5, <1>7, <1>9
<1> QED
  BY <1>8, <1>9

\* A pass commits in one action only.
LEMMA CommitIsPassWrites ==
  ASSUME Next, PassCommits
  PROVE  PassWrites
<1> USE DEF PassCommits
<1>1. ASSUME NEW a \in Costs, PutPosition(a) PROVE FALSE
  BY <1>1 DEF PutPosition
<1>2. CASE ClosePosition
  BY <1>2 DEF ClosePosition
<1>3. CASE EnsureHoldingRow
  BY <1>3 DEF EnsureHoldingRow
<1>4. ASSUME NEW c \in Clients, Request(c) PROVE FALSE
  <2>1. pass' = pass
    <3>1. CASE AddCheck(c) BY <3>1 DEF AddCheck
    <3>2. CASE AddWrite(c) BY <3>2 DEF AddWrite
    <3>3. CASE PatchCheck(c) BY <3>3 DEF PatchCheck
    <3>4. CASE PatchWrite(c) BY <3>4 DEF PatchWrite
    <3>5. CASE AcceptCheck(c) BY <3>5 DEF AcceptCheck
    <3>6. CASE AcceptWrite(c) BY <3>6 DEF AcceptWrite
    <3>7. CASE Drop(c) BY <3>7 DEF Drop
    <3> QED BY <1>4, <3>1, <3>2, <3>3, <3>4, <3>5, <3>6, <3>7 DEF Request
  <2> QED
    BY <2>1
<1>5. CASE PassReads
  BY <1>5 DEF PassReads
<1>6. CASE PassCaps
  BY <1>6 DEF PassCaps
<1> QED
  BY <1>1, <1>2, <1>3, <1>4, <1>5, <1>6 DEF Next, EntryPass

\* The entry pass keeps the invariant,
LEMMA PassKeeps == ASSUME TypeOK, EntryPass PROVE TypeOK'
<1>1. RowOK /\ RestOK
  BY Split
<1>2. CASE PassReads
  BY <1>1, <1>2, SplitNext, EntryAssumption
     DEF PassReads, RowOK, RestOK, Ordered, Passes, Price
<1>3. CASE PassCaps
  <2>1. 0 \in Price /\ \A discount \in Discounts : Cap(avg, discount) \in Price
    BY <1>1, CapIsPrice, EntryAssumption DEF RestOK, Price
  <2>2. pass' \in Passes
    BY <1>1, <1>3, <2>1 DEF PassCaps, RestOK, Passes
  <2> QED
    BY <1>1, <1>3, <2>2, SplitNext DEF PassCaps, RowOK, RestOK, Ordered
<1>4. CASE PassWrites
  <2>1. RowOK'
    BY <1>1, <1>4, PassWritesOne, WriteKeeps DEF RowOK
  <2>2. NoPass \in Passes
    BY EntryAssumption DEF NoPass, Passes, Price
  <2> QED
    BY <1>1, <1>4, <2>1, <2>2, PassWritesOne, SplitNext DEF RestOK
<1> QED
  BY <1>2, <1>3, <1>4 DEF EntryPass

\* and so does every step.
LEMMA NextTypeOK == TypeOK /\ [Next]_vars => TypeOK'
<1> SUFFICES ASSUME TypeOK, [Next]_vars PROVE TypeOK'
  OBVIOUS
<1>1. CASE (\E a \in Costs : PutPosition(a)) \/ ClosePosition \/ EnsureHoldingRow
  BY <1>1, PositionKeeps
<1>2. ASSUME NEW c \in Clients, Request(c) PROVE TypeOK'
  BY <1>2, ChecksKeep, WritesKeep DEF Request
<1>3. CASE EntryPass
  BY <1>3, PassKeeps
<1>4. CASE UNCHANGED vars
  BY <1>4 DEF vars, TypeOK, Row, Statuses
<1> QED
  BY <1>1, <1>2, <1>3, <1>4 DEF Next

-----------------------------------------------------------------------------
\* Rows, requests and the pass keep their types, zones their order (TypeOK).
THEOREM TypeCorrect == Spec => []TypeOK
BY InitTypeOK, NextTypeOK, PTL DEF Spec

\* For every threshold and discount a row with a risk flag never enters or
\* comes near, and an add row only below its cost (EntersSafely).
THEOREM AddsOnlyBelowCost == Spec => []EntersSafely
<1>1. TypeOK => EntersSafely
  <2> SUFFICES ASSUME TypeOK, NEW price \in Price, NEW invalidation \in Price,
                      NEW flags \in BOOLEAN, NEW risks \in BOOLEAN
               PROVE  Signal(Joined(row, avg, price, invalidation, flags, risks)) \in {"enter", "near"} =>
                        ~risks /\ (row.kind = "add" /\ avg > 0 => price < avg)
    BY DEF EntersSafely
  <2> DEFINE r == Joined(row, avg, price, invalidation, flags, risks)
  <2>1. row \in Row /\ avg \in Int
    <3>1. row \in Row /\ avg \in Costs \cup {NotHeld}
      BY DEF TypeOK
    <3>2. Costs \subseteq Int /\ NotHeld \in Int
      BY EntryAssumption DEF NotHeld
    <3> QED
      BY <3>1, <3>2
  <2>2. /\ r \in JoinedRow /\ r.risks = risks /\ r.kind = row.kind /\ r.price = price
        /\ avg > 0 => r.cost = avg
    BY <2>1, EntryAssumption DEF Joined, JoinedRow, Row, Zone, Price
  <2> HIDE DEF r
  <2>3. Signal(r) \in {"enter", "near"} => ~risks /\ (row.kind = "add" /\ avg > 0 => price < avg)
    BY <2>2, SignalForbids
  <2> QED
    BY <2>3 DEF r
<1> QED
  BY <1>1, InitTypeOK, NextTypeOK, PTL DEF Spec

\* Whoever edits the row while a pass runs, the pass neither writes over a zone
\* nor moves a state set by hand (UserWordStands).
THEOREM UserWordIsKept == Spec => UserWordStands
<1> DEFINE Kept == PassCommits =>
             /\ row.zone # NoZone => row'.zone = row.zone
             /\ row.status \in {"entered", "dropped"} \/ row'.status \in {"entered", "dropped"}
                  => row'.status = row.status
<1>1. TypeOK /\ [Next]_vars => [Kept]_vars
  <2> SUFFICES ASSUME TypeOK, Next, PassCommits PROVE Kept
    BY DEF vars
  <2>1. PassWrites
    BY CommitIsPassWrites
  <2>2. PICK new \in Row :
          /\ Write(new)
          /\ row.status \in {"entered", "dropped"} \/ new.status \in {"entered", "dropped"}
               => new.status = row.status
          /\ new.zone = row.zone \/ row.zone = NoZone
    BY <2>1, PassWritesOne
  <2>3. row' = new \/ row' = row
    BY <2>2 DEF Write
  <2> QED
    BY <2>2, <2>3
<1> QED
  BY <1>1, InitTypeOK, NextTypeOK, PTL DEF Spec, UserWordStands

-----------------------------------------------------------------------------
\* A price of a zone below the cost is neither too low for the zone nor too high
\* for the average.
LEMMA BelowCostEnters ==
  ASSUME NEW r \in JoinedRow, r.kind = "add", r.cost > 0, ~r.risks, r.invalidation <= r.low,
         0 < r.low, r.low <= r.price, r.price <= r.high, r.high < r.cost
  PROVE  Signal(r) = "enter"
<1> USE DEF JoinedRow
<1>1. r.price # 0 /\ ~BelowInvalidation(r)
  BY DEF BelowInvalidation
<1>2. ~RaisesAverage(r)
  BY DEF RaisesAverage
<1>3. InZone(r)
  BY DEF InZone, HasZone, Low, High
<1> QED
  BY <1>1, <1>2, <1>3 DEF Signal, ZoneSignal

\* The clip of proposed_zone and the cost check of rule_signal fit, whatever the
\* discount was when the cap was read: every price in a zone the analyst gave an
\* add row enters while the cap is below the cost (TakenZoneFires).
THEOREM TakenZonesFire == Spec => TakenZoneFires
<1> DEFINE Fires == PassCommits /\ row'.zone # row.zone /\ row.kind = "add" /\ pass.cap > 0 =>
             /\ row'.zone.high <= pass.cap
             /\ pass.cap < avg =>
                  \A price \in row'.zone.low .. row'.zone.high,
                     invalidation \in 0 .. row'.zone.low :
                    Signal(Joined(row', avg, price, invalidation, FALSE, FALSE)) = "enter"
<1>1. TypeOK /\ [Next]_vars => [Fires]_vars
  <2> SUFFICES ASSUME TypeOK, Next, PassCommits, row'.zone # row.zone, row.kind = "add", pass.cap > 0
               PROVE  /\ row'.zone.high <= pass.cap
                      /\ pass.cap < avg =>
                           \A price \in row'.zone.low .. row'.zone.high,
                              invalidation \in 0 .. row'.zone.low :
                             Signal(Joined(row', avg, price, invalidation, FALSE, FALSE)) = "enter"
    BY DEF vars
  <2>1. PassWrites
    BY CommitIsPassWrites
  <2>2. PICK new \in Row, z \in Suggestions \cup {NoZone} :
          /\ Write(new) /\ new.kind = row.kind
          /\ new.zone = row.zone \/ (Proposed(z) # NoZone /\ new.zone = Proposed(z))
    BY <2>1, PassWritesOne
  <2>3. row' = new /\ row' \in Row
    BY <2>2 DEF Write
  <2>4. row'.zone = Proposed(z) /\ Proposed(z) # NoZone /\ row'.kind = "add"
    BY <2>2, <2>3
  <2>5. 0 < row'.zone.low /\ row'.zone.low <= row'.zone.high /\ row'.zone.high <= pass.cap
    BY <2>4, ProposedFits
  <2>6. ASSUME pass.cap < avg, NEW price \in row'.zone.low .. row'.zone.high,
               NEW invalidation \in 0 .. row'.zone.low
        PROVE  Signal(Joined(row', avg, price, invalidation, FALSE, FALSE)) = "enter"
    <3> DEFINE r == Joined(row', avg, price, invalidation, FALSE, FALSE)
    <3>1. pass.cap \in Nat /\ avg \in Int
      BY EntryAssumption DEF TypeOK, Price, NotHeld
    <3>2. avg \in Nat /\ avg > 0
      BY <2>6, <3>1
    <3>3. /\ row'.zone.low \in Nat /\ row'.zone.high \in Nat
          /\ price \in Nat /\ invalidation \in Nat
      BY <2>3, EntryAssumption DEF Row, Zone, Price
    <3>4. /\ r \in JoinedRow /\ r.kind = "add" /\ r.cost = avg /\ ~r.risks
          /\ r.invalidation = invalidation
          /\ r.low = row'.zone.low /\ r.high = row'.zone.high /\ r.price = price
      BY <2>4, <3>2, <3>3 DEF Joined, JoinedRow
    <3> HIDE DEF r
    <3>5. Signal(r) = "enter"
      BY <2>5, <2>6, <3>1, <3>2, <3>3, <3>4, BelowCostEnters
    <3> QED
      BY <3>5 DEF r
  <2> QED
    BY <2>5, <2>6
<1> QED
  BY <1>1, InitTypeOK, NextTypeOK, PTL DEF Spec, TakenZoneFires

-----------------------------------------------------------------------------
(* The watchlist row and the position *)

\* HoldingsTypeOK is inductive with: at most one request is at its commit, and who is
\* about to write a position has seen or made the watchlist row.
Commits == {"put_commit", "close_commit"}
OneCommit == \A c, d \in Handlers : pc[c] \in Commits /\ pc[d] \in Commits => c = d
RowForPut ==
  \A c \in Handlers : pc[c] \in {"put", "put_rederive", "put_commit"} => watch.known
HoldingsInv == HoldingsTypeOK /\ OneCommit /\ RowForPut

\* The invariant of the handlers holds before any request,
LEMMA HoldingsInitially == HoldingsInit => HoldingsInv
<1> SUFFICES ASSUME HoldingsInit PROVE HoldingsInv
  OBVIOUS
<1> USE DEF HoldingsInit, Points
<1>1. pc \in [Handlers -> Points]
  OBVIOUS
<1>2. \A c \in Handlers : pc[c] = "idle"
  OBVIOUS
<1>3. watch \in [known : BOOLEAN, active : BOOLEAN, holding : BOOLEAN]
  OBVIOUS
<1> QED
  BY <1>1, <1>2, <1>3 DEF HoldingsInv, HoldingsTypeOK, OneCommit, RowForPut, NoTx, Commits

\* and every step keeps it.
LEMMA HoldingsStep == HoldingsInv /\ [HoldingsNext]_holdingVars => HoldingsInv'
<1> SUFFICES ASSUME HoldingsInv, [HoldingsNext]_holdingVars PROVE HoldingsInv'
  OBVIOUS
<1> USE DEF HoldingsInv, HoldingsTypeOK, OneCommit, RowForPut, Commits, Points, Goes, Unlocked,
            Upserted, NoTx
<1>1. ASSUME NEW c \in Handlers, AddTicker(c), UNCHANGED crashed PROVE HoldingsInv'
  BY <1>1 DEF AddTicker
<1>2. ASSUME NEW c \in Handlers, Activate(c), UNCHANGED crashed PROVE HoldingsInv'
  BY <1>2 DEF Activate
<1>3. ASSUME NEW c \in Handlers, Rederive(c), UNCHANGED crashed PROVE HoldingsInv'
  BY <1>3 DEF Rederive, Rederived
<1>4. ASSUME NEW c \in Handlers, PatchTags(c), UNCHANGED crashed PROVE HoldingsInv'
  BY <1>4 DEF PatchTags
<1>5. ASSUME NEW c \in Handlers, RetireCheck(c), UNCHANGED crashed PROVE HoldingsInv'
  BY <1>5 DEF RetireCheck
<1>6. ASSUME NEW c \in Handlers, Retire(c), UNCHANGED crashed PROVE HoldingsInv'
  <2>1. pc[c] = "retire" /\ pc' = [pc EXCEPT ![c] = pc'[c]] /\ pc'[c] \in {"idle", "rederive"}
    BY <1>6 DEF Retire
  <2>2. \/ watch' = [watch EXCEPT !.active = FALSE]
        \/ watch' = [watch EXCEPT !.active = FALSE, !.holding = FALSE]
        \/ watch' = watch
    BY <1>6 DEF Retire
  <2>3. watch' \in [known : BOOLEAN, active : BOOLEAN, holding : BOOLEAN] /\ watch'.known = watch.known
    BY <2>2
  <2>4. UNCHANGED <<held, tx, strayed>>
    BY <1>6 DEF Retire
  <2> QED
    BY <1>6, <2>1, <2>3, <2>4
<1>7. ASSUME NEW c \in Handlers, PutCheck(c), UNCHANGED crashed PROVE HoldingsInv'
  BY <1>7 DEF PutCheck, OnList
<1>8. ASSUME NEW c \in Handlers, PutAdd(c), UNCHANGED crashed PROVE HoldingsInv'
  BY <1>8 DEF PutAdd
<1>9. ASSUME NEW c \in Handlers, Put(c), UNCHANGED crashed PROVE HoldingsInv'
  BY <1>9 DEF Put
<1>10. ASSUME NEW c \in Handlers, CloseDelete(c), UNCHANGED crashed PROVE HoldingsInv'
  BY <1>10 DEF CloseDelete
<1>11. ASSUME NEW c \in Handlers, CloseCommit(c), UNCHANGED crashed PROVE HoldingsInv'
  BY <1>11 DEF CloseCommit
<1>12. ASSUME NEW c \in Handlers, Seed(c), UNCHANGED crashed PROVE HoldingsInv'
  BY <1>12 DEF Seed, SeededTag
<1>13. ASSUME NEW c \in Handlers, RetireMissing(c), UNCHANGED crashed PROVE HoldingsInv'
  BY <1>13 DEF RetireMissing
<1>14. ASSUME NEW c \in Handlers, PutCommit(c), UNCHANGED crashed PROVE HoldingsInv'
  BY <1>14 DEF PutCommit
<1>15. ASSUME NEW c \in Handlers, RetireMissingLooks(c), UNCHANGED crashed PROVE HoldingsInv'
  BY <1>15 DEF RetireMissingLooks
<1>16. CASE Crash
  <2>1. /\ pc' \in [Handlers -> Points]
        /\ \A c \in Handlers : pc'[c] = "idle"
    BY <1>16 DEF Crash
  <2> QED
    BY <1>16, <2>1 DEF Crash
<1>17. CASE UNCHANGED holdingVars
  BY <1>17 DEF holdingVars
<1> QED
  BY <1>1, <1>2, <1>3, <1>4, <1>5, <1>6, <1>7, <1>8, <1>9, <1>10, <1>11, <1>12, <1>13, <1>14, <1>15,
     <1>16, <1>17 DEF HoldingsNext, Handled

\* Handlers never leave a position without its watchlist row, and whoever is at
\* the commit of a PUT or a DELETE holds the position's only transaction (HoldingsTypeOK).
THEOREM HoldingsTypeCorrect == HoldingsSpec => []HoldingsTypeOK
<1>1. HoldingsInv => HoldingsTypeOK
  BY DEF HoldingsInv
<1> QED
  BY <1>1, HoldingsInitially, HoldingsStep, PTL DEF HoldingsSpec

-----------------------------------------------------------------------------
\* MissingTagIsPending needs no more than the types: whoever takes the tag from
\* a position is about to derive it again, and deriving restores it.
LEMMA NextPending == HoldingsInv /\ MissingTagIsPending /\ [HoldingsNext]_holdingVars => MissingTagIsPending'
<1> SUFFICES ASSUME HoldingsInv, MissingTagIsPending, [HoldingsNext]_holdingVars PROVE MissingTagIsPending'
  OBVIOUS
<1> USE DEF HoldingsInv, HoldingsTypeOK, MissingTagIsPending, Goes, Upserted
<1>1. ASSUME NEW c \in Handlers, AddTicker(c), UNCHANGED crashed PROVE MissingTagIsPending'
  BY <1>1 DEF AddTicker
<1>2. ASSUME NEW c \in Handlers, Activate(c), UNCHANGED crashed PROVE MissingTagIsPending'
  BY <1>2 DEF Activate
<1>3. ASSUME NEW c \in Handlers, Rederive(c), UNCHANGED crashed PROVE MissingTagIsPending'
  BY <1>3 DEF Rederive, Rederived
<1>4. ASSUME NEW c \in Handlers, PatchTags(c), UNCHANGED crashed PROVE MissingTagIsPending'
  BY <1>4 DEF PatchTags
<1>5. ASSUME NEW c \in Handlers, RetireCheck(c), UNCHANGED crashed PROVE MissingTagIsPending'
  BY <1>5 DEF RetireCheck
<1>6. ASSUME NEW c \in Handlers, Retire(c), UNCHANGED crashed PROVE MissingTagIsPending'
  BY <1>6 DEF Retire
<1>7. ASSUME NEW c \in Handlers, PutCheck(c), UNCHANGED crashed PROVE MissingTagIsPending'
  BY <1>7 DEF PutCheck
<1>8. ASSUME NEW c \in Handlers, PutAdd(c), UNCHANGED crashed PROVE MissingTagIsPending'
  BY <1>8 DEF PutAdd
<1>9. ASSUME NEW c \in Handlers, Put(c), UNCHANGED crashed PROVE MissingTagIsPending'
  BY <1>9 DEF Put
<1>10. ASSUME NEW c \in Handlers, CloseDelete(c), UNCHANGED crashed PROVE MissingTagIsPending'
  BY <1>10 DEF CloseDelete
<1>11. ASSUME NEW c \in Handlers, CloseCommit(c), UNCHANGED crashed PROVE MissingTagIsPending'
  BY <1>11 DEF CloseCommit
<1>12. ASSUME NEW c \in Handlers, Seed(c), UNCHANGED crashed PROVE MissingTagIsPending'
  BY <1>12 DEF Seed, SeededTag
<1>13. ASSUME NEW c \in Handlers, RetireMissing(c), UNCHANGED crashed PROVE MissingTagIsPending'
  BY <1>13 DEF RetireMissing
<1>14. ASSUME NEW c \in Handlers, PutCommit(c), UNCHANGED crashed PROVE MissingTagIsPending'
  BY <1>14 DEF PutCommit
<1>15. ASSUME NEW c \in Handlers, RetireMissingLooks(c), UNCHANGED crashed PROVE MissingTagIsPending'
  BY <1>15 DEF RetireMissingLooks
<1>16. CASE Crash
  BY <1>16 DEF Crash
<1>17. CASE UNCHANGED holdingVars
  BY <1>17 DEF holdingVars
<1> QED
  BY <1>1, <1>2, <1>3, <1>4, <1>5, <1>6, <1>7, <1>8, <1>9, <1>10, <1>11, <1>12, <1>13, <1>14, <1>15,
     <1>16, <1>17 DEF HoldingsNext, Handled

\* Without crashes, however many requests race, a position without its tag has
\* a request about to put it back, unless it was opened under a tag of no position
\* that was then taken (MissingTagIsPending).
THEOREM TagComesBack == HoldingsSpec => []MissingTagIsPending
<1>1. HoldingsInit => MissingTagIsPending
  BY DEF HoldingsInit, MissingTagIsPending
<1> QED
  BY <1>1, HoldingsInitially, HoldingsStep, NextPending, PTL DEF HoldingsSpec
=============================================================================

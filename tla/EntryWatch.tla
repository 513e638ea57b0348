----------------------------- MODULE EntryWatch -----------------------------
(***************************************************************************)
(* The entry_watch row of a ticker: its zone, status and kind, under edits  *)
(* through the API (app/stockintel/api.py), the analyst's entry pass        *)
(* (app/stockintel/analyst/service.py, entry.py) and changes of the          *)
(* position. No statement here relates two tickers. Handlers read, then      *)
(* write in a transaction of their own; the discount of the cap is a setting *)
(* that may change between any two reads of it.                              *)
(*                                                                           *)
(* The rules that judge the row, and the cap of an add zone, are RuleSignal. *)
(* Of the row's columns the invalidation price and the thesis are left out,   *)
(* and so is its history, which a trigger writes and no handler decides on.   *)
(***************************************************************************)
EXTENDS RuleSignal

CONSTANTS Clients,   \* requests under way at once
          MaxPrice,  \* bound: prices of zones
          Typed,     \* bound: prices a user types, 0 to leave or clear one
          Suggested, \* bound: prices a model suggests
          Costs,     \* bound: average costs, 0 when NULL
          Discounts  \* bound: values of entry_dca_min_discount

ASSUME EntryAssumption ==
  /\ MaxPrice \in Nat \ {0}
  /\ Typed \subseteq 0 .. MaxPrice
  /\ Suggested \subseteq 1 .. MaxPrice
  /\ Costs \subseteq 0 .. MaxPrice
  /\ \A discount \in Discounts : DiscountOK(discount)

VARIABLES row,      \* entry_watch
          avg,      \* the position: average cost, 0 when NULL, or NotHeld
          sig,      \* suggested_zone of the latest entry_signals row
          pass,     \* the entry pass
          client    \* the requests

vars == <<row, avg, sig, pass, client>>

NotHeld == -1
Price == 0 .. MaxPrice
Zone == [low : Price, high : Price]
UserZone == [low : Typed, high : Typed]
NoZone == [low |-> 0, high |-> 0]
Statuses == {"watching", "triggered", "entered", "dropped"}
Row == [present : BOOLEAN, zone : Zone, status : Statuses,
        source : {"user", "analyst"}, kind : {"new", "add"}]
NoRow == [present |-> FALSE, zone |-> NoZone, status |-> "watching",
          source |-> "user", kind |-> "new"]

\* entry_watch_zone, the CHECK constraint, and _check_zone.
Ordered(z) == z.low = 0 \/ z.high = 0 \/ z.low <= z.high

Held == avg # NotHeld

\* A model's zone comes with both ends, in any order.
Suggestions == [low : Suggested, high : Suggested]

Idle == [pc |-> "idle", zone |-> NoZone, status |-> "keep", source |-> "keep",
         low |-> FALSE, high |-> FALSE, kind |-> "new"]
NoPass == [pc |-> "idle", empty |-> FALSE, cap |-> 0]

TypeOK ==
  /\ row \in Row
  /\ row.zone.low = 0 \/ row.zone.high = 0 \/ row.zone.low <= row.zone.high
  /\ avg \in Costs \cup {NotHeld}
  /\ sig \in Suggestions \cup {NoZone}
  /\ pass \in [pc : {"idle", "ran", "capped"}, empty : BOOLEAN, cap : Price]
  /\ client \in [Clients -> [pc : {"idle", "add", "patch", "accept"}, zone : Zone,
                             status : Statuses \cup {"keep"}, source : {"user", "keep"},
                             low : BOOLEAN, high : BOOLEAN, kind : {"new", "add"}]]

Init ==
  /\ row = NoRow
  /\ avg = NotHeld /\ sig = NoZone
  /\ pass = NoPass
  /\ client = [c \in Clients |-> Idle]

-----------------------------------------------------------------------------
\* One statement that writes the row, and its CHECK: a violated one is an error
\* and changes nothing.
Write(new) == IF Ordered(new.zone) THEN row' = new ELSE UNCHANGED row

-----------------------------------------------------------------------------
(* The position and its rows *)

PutPosition(a) ==
  /\ avg' = a
  /\ UNCHANGED <<row, sig, pass, client>>

ClosePosition ==
  /\ Held
  /\ avg' = NotHeld
  /\ UNCHANGED <<row, sig, pass, client>>

\* ensure_holding_rows, on every GET /entries and before a pass, unless the
\* config switches it off.
EnsureHoldingRow ==
  /\ Held
  /\ \/ ~row.present /\ Write([NoRow EXCEPT !.present = TRUE, !.kind = "add"])
     \/ row.present /\ row.kind = "new" /\ Write([row EXCEPT !.kind = "add"])
  /\ UNCHANGED <<avg, sig, pass, client>>

-----------------------------------------------------------------------------
(* Requests *)

Acts(c, l) == client[c].pc = "idle" /\ client' = [client EXCEPT ![c] = l]
Done(c) == client' = [client EXCEPT ![c] = Idle]

\* add_entry up to its transaction: refused if the zone is out of order or its
\* bottom not below the cap, clipped if only the top is.
AddCheck(c) ==
  \E z \in UserZone, discount \in Discounts :
    LET cap == Cap(avg, discount)
        high == IF cap > 0 /\ z.high > cap THEN cap ELSE z.high
    IN /\ Ordered(z)
       /\ cap > 0 /\ z.low > 0 => z.low < cap
       /\ Acts(c, [Idle EXCEPT !.pc = "add", !.zone = [low |-> z.low, high |-> high],
                     !.kind = IF Held THEN "add" ELSE "new"])
       /\ UNCHANGED <<row, avg, sig, pass>>

\* The upsert: a row that is there, dropped or entered, is watched again.
AddWrite(c) ==
  /\ client[c].pc = "add"
  /\ Write([present |-> TRUE, zone |-> client[c].zone, status |-> "watching",
            source |-> "user", kind |-> client[c].kind])
  /\ Done(c)
  /\ UNCHANGED <<avg, sig, pass>>

\* What a patch would make of zone r: low and high say which ends it names.
Patched(l, z) == [low |-> IF l.low THEN l.zone.low ELSE z.low,
                  high |-> IF l.high THEN l.zone.high ELSE z.high]

\* patch_entry up to its transaction, on the row it read.
PatchCheck(c) ==
  \E z \in UserZone, low, high \in BOOLEAN, s \in Statuses \cup {"keep"}, discount \in Discounts :
    LET cap == Cap(avg, discount)
        l == [Idle EXCEPT !.pc = "patch", !.zone = z, !.low = low, !.high = high, !.status = s,
                !.source = IF low \/ high THEN "user" ELSE "keep"]
        fill == row.kind = "add" /\ s = "entered"
    IN /\ row.present /\ (low \/ high \/ s # "keep")
       /\ (~low => z.low = 0) /\ (~high => z.high = 0)
       /\ Ordered(Patched(l, row.zone))
       /\ row.kind = "add" /\ z.low > 0 /\ cap > 0 => z.low < cap
       /\ Acts(c, IF fill THEN [l EXCEPT !.status = "watching", !.zone = NoZone,
                                  !.low = TRUE, !.high = TRUE, !.source = "user"]
                          ELSE l)
       /\ UNCHANGED <<row, avg, sig, pass>>

PatchWrite(c) ==
  LET l == client[c]
  IN /\ l.pc = "patch"
     /\ Write([row EXCEPT !.zone = Patched(l, @),
                 !.status = IF l.status = "keep" THEN @ ELSE l.status,
                 !.source = IF l.source = "keep" THEN @ ELSE l.source])
     /\ Done(c)
     /\ UNCHANGED <<avg, sig, pass>>

Drop(c) ==
  /\ client[c].pc = "idle"
  /\ row.present
  /\ Write([row EXCEPT !.status = "dropped"])
  /\ UNCHANGED <<avg, sig, pass, client>>

\* accept_zone up to its transaction: the zone suggested last, clipped.
AcceptCheck(c) ==
  \E discount \in Discounts :
    LET cap == IF row.present /\ row.kind = "add" THEN Cap(avg, discount) ELSE 0
        high == IF cap > 0 /\ sig.high > cap THEN cap ELSE sig.high
    IN /\ sig # NoZone
       /\ cap > 0 => sig.low < cap
       /\ Acts(c, [Idle EXCEPT !.pc = "accept", !.zone = [low |-> sig.low, high |-> high]])
       /\ UNCHANGED <<row, avg, sig, pass>>

AcceptWrite(c) ==
  /\ client[c].pc = "accept"
  /\ IF row.present
     THEN Write([row EXCEPT !.zone = client[c].zone, !.source = "analyst"])
     ELSE UNCHANGED row
  /\ Done(c)
  /\ UNCHANGED <<avg, sig, pass>>

-----------------------------------------------------------------------------
(* The entry pass *)

\* The pass reads the live rows; its evidence is what it saw then.
PassReads ==
  /\ pass.pc = "idle"
  /\ row.present /\ row.status \in {"watching", "triggered"}
  /\ pass' = [pc |-> "ran", empty |-> row.zone = NoZone, cap |-> 0]
  /\ UNCHANGED <<row, avg, sig, client>>

\* add_zone_caps, before the transaction that writes the signals.
PassCaps ==
  /\ pass.pc = "ran"
  /\ \E discount \in Discounts :
       pass' = [pass EXCEPT !.pc = "capped",
                  !.cap = IF row.kind = "add" THEN Cap(avg, discount) ELSE 0]
  /\ UNCHANGED <<row, avg, sig, client>>

\* proposed_zone: the suggestion for a row that had no zone, refused out of
\* order or above the cap, clipped to it. Mutant: not clipped.
Unclipped(z) == IF pass.empty THEN z ELSE NoZone
Proposed(z) ==
  IF ~pass.empty \/ z.low > z.high \/ (pass.cap > 0 /\ z.low >= pass.cap) THEN NoZone
  ELSE [z EXCEPT !.high = IF pass.cap > 0 /\ @ > pass.cap THEN pass.cap ELSE @]

\* The WHERE of the zone's UPDATE. Mutant: the evidence is trusted.
Trusts == TRUE
StillEmpty == row.zone = NoZone

\* The WHERE of the status's UPDATE.
Moved(s) == IF s = "enter" /\ row.status = "watching" THEN "triggered"
            ELSE IF s # "enter" /\ row.status = "triggered" THEN "watching"
            ELSE row.status

\* The signal, the zone of a clean pass and the status, in one transaction.
PassWrites ==
  \E s \in {"enter", "wait"}, z \in Suggestions \cup {NoZone}, clean \in BOOLEAN :
    LET fills == clean /\ Proposed(z) # NoZone /\ StillEmpty
        moved == [row EXCEPT !.status = Moved(s)]
    IN /\ pass.pc = "capped"
       /\ sig' = z
       /\ Write(IF fills THEN [moved EXCEPT !.zone = Proposed(z), !.source = "analyst"] ELSE moved)
       /\ pass' = NoPass
       /\ UNCHANGED <<avg, client>>

-----------------------------------------------------------------------------
Request(c) ==
  \/ AddCheck(c) \/ AddWrite(c)
  \/ PatchCheck(c) \/ PatchWrite(c)
  \/ AcceptCheck(c) \/ AcceptWrite(c)
  \/ Drop(c)

EntryPass == PassReads \/ PassCaps \/ PassWrites

Next ==
  \/ \E a \in Costs : PutPosition(a)
  \/ ClosePosition
  \/ EnsureHoldingRow
  \/ \E c \in Clients : Request(c)
  \/ EntryPass

Spec == Init /\ [][Next]_vars

-----------------------------------------------------------------------------
(* Correctness *)

PassCommits == pass.pc = "capped" /\ pass'.pc = "idle"

\* service.py: "A user zone is never touched" and "entered/dropped are hand-set":
\* a pass that saw no zone does not write over one that was set while it ran,
\* and neither revives a row nor fills it, though it was live when it began.
UserWordStands ==
  [][PassCommits =>
       /\ row.zone # NoZone => row'.zone = row.zone
       /\ row.status \in {"entered", "dropped"} \/ row'.status \in {"entered", "dropped"}
            => row'.status = row.status]_vars

\* The row as _entries_payload joins it: the day's price, invalidation, flags
\* and risks are anything.
Joined(r, cost, price, invalidation, flags, risks) ==
  [price |-> price, low |-> r.zone.low, high |-> r.zone.high, invalidation |-> invalidation,
   cost |-> IF cost > 0 THEN cost ELSE 0, kind |-> r.kind, risks |-> risks, flags |-> flags]

\* entries.py: "price at or above avg_cost can never be enter or near, adding
\* would not lower the average", whoever wrote the row's zone and whatever it
\* says by now; nor can a ticker with a risk flag be, even inside its zone.
EntersSafely ==
  row.present =>
    \A price, invalidation \in Price, flags, risks \in BOOLEAN :
      Signal(Joined(row, avg, price, invalidation, flags, risks)) \in {"enter", "near"} =>
        /\ ~risks
        /\ row.kind = "add" /\ avg > 0 => price < avg

\* The zone the pass gives an add row tops out at the cap it read, and if that is
\* below the cost the position has by then, the rules let the user enter at each
\* price of the zone: the clipping of the one (entry.py:108) and the cost check of
\* the other (entries.py:92) leave none in it that could never fire. A discount of
\* 0 makes the cap the cost, at which nothing fires. The invalidation the pass
\* proposes is below its zone (entry.py:113); one the row had before is kept and may
\* not be.
TakenZoneFires ==
  [][PassCommits /\ row'.zone # row.zone /\ row.kind = "add" /\ pass.cap > 0 =>
       /\ row'.zone.high <= pass.cap
       /\ pass.cap < avg =>
            \A price \in row'.zone.low .. row'.zone.high, invalidation \in 0 .. row'.zone.low :
              Signal(Joined(row', avg, price, invalidation, FALSE, FALSE)) = "enter"]_vars
=============================================================================

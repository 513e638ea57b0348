------------------------------- MODULE Canvas -------------------------------
(***************************************************************************)
(* The canvas of a workflow file: scripts/canvas/zone_layout.py frames the    *)
(* nodes of each zone of a spec with a sticky and moves the zones into rows,  *)
(* scripts/canvas/layout_check.py judges the result and gates every deploy.   *)
(*                                                                           *)
(* Lengths are pixels. Panels, colours and the check's warnings are left out; *)
(* a text is its length, in one paragraph; every zone lists a node and every  *)
(* node is listed once, as docs/CANVAS.md asks.                               *)
(***************************************************************************)
EXTENDS SequencesExt, Integers

CONSTANTS Nodes,
          Zones,    \* 1 .. n, in the order of the spec
          ZoneOf,   \* the zone that lists each node
          Text,     \* characters of each zone's body, 0 without one
          MaxCols   \* MAX_ROW_COLS

ASSUME CanvasAssumption ==
  /\ Nodes # {} /\ IsFiniteSet(Nodes) /\ Zones \subseteq Nat
  /\ ZoneOf \in [Nodes -> Zones] /\ Zones = {ZoneOf[n] : n \in Nodes}
  /\ Text \in [Zones -> Nat]
  /\ MaxCols \in Nat

Grid == 16
NodeSize == 100
Label == 40
Title == 40        \* H1_PX
Line == 22
Pad == 64          \* PAD_X, PAD_BOTTOM
TitleBand == 96    \* PAD_TOP_TITLE_ONLY
BandGap == 40
MinWidth == 304
Gutter == 16
RowGutter == 48
RowReach == 64     \* what the generator takes for one row
RowTol == 40       \* what the check takes for one row
MinRowGutter == 32

Up(v) == ((v + Grid - 1) \div Grid) * Grid
Down(v) == (v \div Grid) * Grid
Larger(a, b) == IF a > b THEN a ELSE b

\* Lines of a body, at 9.5 px a character.
Lines(z, width) ==
  LET chars == Larger(8, (2 * (width - 32)) \div 19)
  IN (Text[z] + chars - 1) \div chars

\* The domain of a measure, ascending by it; equal ones in their own order.
Precedes(by, a, b) == by[a] < by[b] \/ (by[a] = by[b] /\ a < b)
Sorted(by) ==
  CHOOSE s \in [1 .. Cardinality(DOMAIN by) -> DOMAIN by] :
    \A i, j \in DOMAIN s : i < j => Precedes(by, s[i], s[j])

\* A zone joins the row whose first zone is within reach.
Rows(y, reach) ==
  LET order == Sorted(y)
      Joined(rows, z) ==
        IF rows # <<>> /\ y[z] - y[Head(Last(rows))] <= reach
        THEN [rows EXCEPT ![Len(rows)] = Append(@, z)]
        ELSE Append(rows, <<z>>)
      rows[k \in 0 .. Len(order)] == IF k = 0 THEN <<>> ELSE Joined(rows[k - 1], order[k])
  IN rows[Len(order)]

RowLeft(box, row) == Min({box[z].x : z \in ToSet(row)})
RowTop(box, row) == Min({box[z].y : z \in ToSet(row)})
RowBottom(box, row) == Max({box[z].y + box[z].h : z \in ToSet(row)})
LeftToRight(box, row) ==
  LET order == Sorted([i \in DOMAIN row |-> box[row[i]].x])
  IN [i \in DOMAIN row |-> row[order[i]]]

-----------------------------------------------------------------------------
(* zone_layout.py *)

\* text_height and BAND_GAP. Mutant: the text is measured without its padding.
TightBand(z, width) ==
  IF Text[z] = 0 THEN TitleBand ELSE Larger(TitleBand, Title + Lines(z, width) * Line)
Band(z, width) ==
  IF Text[z] = 0 THEN TitleBand
  ELSE Larger(TitleBand, Title + Lines(z, width) * Line + 16 + BandGap)

\* A zone's frame around its nodes as they are laid.
Listed(z) == {n \in Nodes : ZoneOf[n] = z}
NodeTop(at, z) == Min({at[n].y : n \in Listed(z)})
Frame(at, z) ==
  LET xs == {at[n].x : n \in Listed(z)}
      right == Max(xs) + NodeSize
      x == Down(Min(xs) - Pad)
      y == Down(NodeTop(at, z) - Band(z, Larger(MinWidth, Up(right - Min(xs) + 2 * Pad))))
  IN [x |-> x, y |-> y, w |-> Larger(MinWidth, Up(right + Pad - x)),
      h |-> Up(Max({at[n].y : n \in Listed(z)}) + NodeSize + Label + Pad - y)]

\* Where things begin that are laid one after another with a gap.
Chain(first, sizes, gap) ==
  LET at[i \in DOMAIN sizes] == IF i = 1 THEN first ELSE at[i - 1] + sizes[i - 1] + gap
  IN at

\* A row with its tops and bottoms level and its zones a gutter apart.
Levelled(frames, row) ==
  LET top == RowTop(frames, row)
      order == LeftToRight(frames, row)
      x == Chain(frames[order[1]].x, [i \in DOMAIN row |-> frames[order[i]].w], Gutter)
  IN [z \in ToSet(row) |->
        [x |-> x[CHOOSE i \in DOMAIN row : order[i] = z], y |-> top,
         w |-> frames[z].w, h |-> Up(RowBottom(frames, row) - top)]]

\* All rows, stacked and flush left.
RowOf(rows, z) == CHOOSE r \in DOMAIN rows : z \in ToSet(rows[r])
Stacked(rows, level) ==
  LET left == Min({RowLeft(level[r], rows[r]) : r \in DOMAIN rows})
      First(r) == level[r][rows[r][1]]
      order == Sorted([r \in DOMAIN rows |-> First(r).y])
      top == Chain(First(order[1]).y, [k \in DOMAIN rows |-> First(order[k]).h], RowGutter)
  IN [z \in Zones |->
        LET r == RowOf(rows, z)
        IN [level[r][z] EXCEPT !.x = @ + left - RowLeft(level[r], rows[r]),
                               !.y = top[CHOOSE k \in DOMAIN rows : order[k] = r]]]

\* Nodes ride with their zone's moves; that a row was levelled only stretches the zone.
Generated(at) ==
  LET frames == [z \in Zones |-> Frame(at, z)]
      rows == Rows([z \in Zones |-> NodeTop(at, z)], RowReach)
      level == [r \in DOMAIN rows |-> Levelled(frames, rows[r])]
      stickies == Stacked(rows, level)
  IN [laid |-> FALSE, sent |-> FALSE, stickies |-> stickies,
      at |-> [n \in Nodes |->
        LET z == ZoneOf[n]
        IN [x |-> at[n].x + stickies[z].x - frames[z].x,
            y |-> at[n].y + stickies[z].y - level[RowOf(rows, z)][z].y]]]

-----------------------------------------------------------------------------
(* layout_check.py *)

NodeBox(p) == [x |-> p.x, y |-> p.y, w |-> NodeSize, h |-> NodeSize]
Overlap(a, b) ==
  a.x + a.w > b.x /\ b.x + b.w > a.x /\ a.y + a.h > b.y /\ b.y + b.h > a.y
Inside(a, b) ==
  a.x >= b.x /\ a.y >= b.y /\ a.x + a.w <= b.x + b.w /\ a.y + a.h <= b.y + b.h

\* est_height and band_height of the generator's text: title, blank line, body.
TextHeight(z, width) ==
  Title + 32 + (IF Text[z] = 0 THEN 0 ELSE (1 + Lines(z, width)) * Line)
TextBand(z, width) == IF Text[z] = 0 THEN Title + 16 ELSE TextHeight(z, width) - 8

\* round(x / GRID), halves to the even one.
Column(x) ==
  LET q == x \div Grid  r == x % Grid
  IN IF r < 8 \/ (r = 8 /\ q % 2 = 0) THEN q ELSE q + 1

\* The nodes a sticky overlaps are its members, and make it a zone.
Has(canvas, z) == {n \in Nodes : Overlap(canvas.stickies[z], NodeBox(canvas.at[n]))}
Gaps(box, row) ==
  LET order == LeftToRight(box, row)
  IN {box[order[i]].x - box[order[i - 1]].x - box[order[i - 1]].w : i \in DOMAIN row \ {1}}
RowGaps(box, rows) ==
  LET order == Sorted([r \in DOMAIN rows |-> RowTop(box, rows[r])])
  IN {RowTop(box, rows[order[k]]) - RowBottom(box, rows[order[k - 1]]) : k \in DOMAIN rows \ {1}}

Errors(canvas) ==
  LET box == canvas.stickies
      at == canvas.at
      zones == {z \in DOMAIN box : Has(canvas, z) # {}}
      rows == Rows([z \in zones |-> Min({at[n].y : n \in Has(canvas, z)})], RowTol)
      rowGaps == RowGaps(box, rows)
  IN {e \in {"overlap", "truncation", "header", "clipped", "orphan", "row", "overflow", "tight",
             "uneven"} :
       CASE e = "overlap" -> \E y, z \in DOMAIN box :
                               /\ y # z /\ Overlap(box[y], box[z])
                               /\ ~Inside(box[y], box[z]) /\ ~Inside(box[z], box[y])
         [] e = "truncation" -> \E z \in DOMAIN box : box[z].h < TextHeight(z, box[z].w)
         [] e = "header" -> \E z \in zones : \E n \in Has(canvas, z) :
                              at[n].y < box[z].y + TextBand(z, box[z].w)
         [] e = "clipped" -> \E z \in zones : \E n \in Has(canvas, z) : ~Inside(NodeBox(at[n]), box[z])
         [] e = "orphan" -> zones # {} /\ \E n \in Nodes : \A z \in zones : n \notin Has(canvas, z)
         [] e = "row" -> \E r \in DOMAIN rows :
                           \/ Cardinality({box[z].y : z \in ToSet(rows[r])}) > 1
                           \/ Cardinality({box[z].y + box[z].h : z \in ToSet(rows[r])}) > 1
                           \/ Cardinality(Gaps(box, rows[r])) > 1
         [] e = "overflow" -> \E r \in DOMAIN rows :
              Cardinality({Column(at[n].x) : n \in UNION {Has(canvas, z) : z \in ToSet(rows[r])}}) > MaxCols
         [] e = "tight" -> \E g \in rowGaps : g < MinRowGutter
         [] e = "uneven" -> (\A g \in rowGaps : g >= MinRowGutter) /\ Cardinality(rowGaps) > 1}

\* Two zones the generator takes for one row and the check for two.
SplitRow(at) ==
  \E y, z \in Zones : NodeTop(at, z) - NodeTop(at, y) \in RowTol + 1 .. RowReach
=============================================================================

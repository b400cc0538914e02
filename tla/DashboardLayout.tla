-------------------------- MODULE DashboardLayout --------------------------
(***************************************************************************)
(* The layout of the dashboard: an ordered list of cards, each with a      *)
(* width (dashboardLayout.ts).  A stored layout is None, Later (written by *)
(* a later release) or the sequence of its blocks, of which an identifier  *)
(* may be unknown or repeated and a width refused.                         *)
(***************************************************************************)
EXTENDS Integers, Sequences, SequencesExt

CONSTANTS
    None,      \* nobody saved a layout
    Later,     \* a layout of another version
    Registry   \* the cards, in their default order: <<[id, width, widths, arrivesHidden, hiddenByDefault]>>

BlockIds == {Registry[i].id : i \in DOMAIN Registry}
blockSpec(id) == Registry[CHOOSE i \in DOMAIN Registry : Registry[i].id = id]

(* The registry's order and widths, less the cards it keeps hidden.        *)
defaultLayout ==
    [i \in DOMAIN Registry |->
        [id |-> Registry[i].id, width |-> Registry[i].width, hidden |-> Registry[i].hiddenByDefault]]

storedBlocks(saved) == IF saved = Later THEN None ELSE saved

(* Every block of a card the registry knows.                               *)
KeptAll(blocks) == SelectSeq(blocks, LAMBDA block : block.id \in BlockIds)

(* What is kept of the blocks: the first of each card the registry knows.  *)
Kept(blocks) ==
    LET first(i) == /\ blocks[i].id \in BlockIds
                    /\ \A j \in 1..(i - 1) : blocks[j].id # blocks[i].id
        drawable(block) ==
            LET spec == blockSpec(block.id)
            IN [block EXCEPT !.width = IF @ \in spec.widths THEN @ ELSE spec.width]
        order == SelectSeq([i \in DOMAIN blocks |-> i], first)
    IN [i \in DOMAIN order |-> drawable(blocks[order[i]])]

(* The stored layout made drawable; a card it lacks is appended.           *)
normalizeLayout(saved) ==
    LET blocks == storedBlocks(saved)
        placements == Kept(blocks)
        missing == SelectSeq(defaultLayout,
                       LAMBDA one : \A i \in DOMAIN placements : placements[i].id # one.id)
    IN IF blocks = None THEN defaultLayout
       ELSE placements \o [i \in DOMAIN missing |->
                [missing[i] EXCEPT !.hidden = blockSpec(missing[i].id).arrivesHidden]]

(* The cards that arrived after the layout was saved, and are not in it.   *)
newBlocks(saved) ==
    LET blocks == storedBlocks(saved)
    IN IF blocks = None THEN {}
       ELSE {id \in BlockIds : /\ blockSpec(id).arrivesHidden
                               /\ \A i \in DOMAIN blocks : blocks[i].id # id}

(* Done has something to write.                                            *)
mustWrite(draft, saved) == draft # normalizeLayout(saved) \/ newBlocks(saved) # {}

-----------------------------------------------------------------------------
(* The grid.                                                               *)

Visible(placements) == SelectSeq(placements, LAMBDA one : ~one.hidden)
IdsOf(placements) == [i \in DOMAIN placements |-> placements[i].id]
tracksPerRow(columns) == IF columns = 3 THEN 3 ELSE 2

(* Up to perRow halves that follow each other are a row, a full card is one. *)
rowsOf(visible, perRow) ==
    LET place(rows, one) ==
            IF /\ one.width = "half" /\ rows # <<>>
               /\ Last(rows)[1].width = "half" /\ Len(Last(rows)) < perRow
            THEN Front(rows) \o <<Append(Last(rows), one)>>
            ELSE Append(rows, <<one>>)
    IN FoldLeft(place, <<>>, visible)

Block(one, span, width, orphan) ==
    [kind |-> "block", id |-> one.id, span |-> span, width |-> width, orphan |-> orphan]
Free(count) == [i \in 1..count |-> [kind |-> "free"]]

(* A row as cells: a card alone takes the row when it accepts the width.   *)
RowCells(row, perRow) ==
    LET one == row[1]
    IN IF Len(row) > 1
       THEN [i \in DOMAIN row |-> Block(row[i], 1, "half", FALSE)] \o Free(perRow - Len(row))
       ELSE IF one.width = "full" THEN <<Block(one, 2, "full", FALSE)>>
       ELSE IF "full" \in blockSpec(one.id).widths THEN <<Block(one, 2, "full", TRUE)>>
       ELSE <<Block(one, 1, "half", FALSE)>> \o Free(perRow - 1)

(* The grid, cell by cell, in reading order.                               *)
resolveLayout(placements, states, editing, columns) ==
    LET shown == SelectSeq(placements,
                     LAMBDA one : ~one.hidden /\ (editing \/ states[one.id] # "nothing"))
        perRow == tracksPerRow(columns)
        cells == [i \in DOMAIN rowsOf(shown, perRow) |-> RowCells(rowsOf(shown, perRow)[i], perRow)]
    IN IF columns = 1 THEN [i \in DOMAIN shown |-> Block(shown[i], 2, "half", FALSE)]
       ELSE FlattenSeq(cells)

-----------------------------------------------------------------------------
(* The moves.  None when nothing would change.                             *)

Swapped(s, a, b) == [s EXCEPT ![a] = s[b], ![b] = s[a]]

(* The visible cards in their new order, the hidden ones in their slots.   *)
inSlots(placements, order) ==
    LET rank(i) == Len(Visible(SubSeq(placements, 1, i)))
    IN [i \in DOMAIN placements |-> IF placements[i].hidden THEN placements[i] ELSE order[rank(i)]]

(* The nearest half of a side of a card.                                   *)
NearestHalf(visible, at, step) ==
    LET halves == {i \in DOMAIN visible : visible[i].width = "half" /\ (i - at) * step > 0}
    IN IF halves = {} THEN 0
       ELSE CHOOSE i \in halves : \A j \in halves : (i - at) * step <= (j - at) * step

(* Up and down, by row for a full card, from half to half for another.     *)
moveBlock(placements, id, direction, columns) ==
    LET visible == Visible(placements)
        at == SelectInSeq(visible, LAMBDA one : one.id = id)
        rows == rowsOf(visible, tracksPerRow(columns))
        from == SelectInSeq(rows, LAMBDA row : \E i \in DOMAIN row : row[i].id = id)
        to == IF visible[at].width = "full" THEN from + direction
              ELSE NearestHalf(visible, at, direction)
    IN IF at = 0 THEN None
       ELSE IF visible[at].width = "full"
       THEN IF to \notin DOMAIN rows THEN None
            ELSE inSlots(placements, FlattenSeq(Swapped(rows, from, to)))
       ELSE IF to = 0 THEN None ELSE inSlots(placements, Swapped(visible, at, to))

(* A full card goes between two rows: the rows are those it was dragged from. *)
RowDropped(visible, at, target, side, columns) ==
    LET rows == rowsOf(visible, tracksPerRow(columns))
        holds(place) == SelectInSeq(rows, LAMBDA row : Contains(row, visible[place]))
        rest == RemoveAt(rows, holds(at))
        over == SelectInSeq(rest, LAMBDA row : Contains(row, visible[target]))
    IN FlattenSeq(InsertAt(rest, IF side = "before" THEN over ELSE over + 1, rows[holds(at)]))

(* A card dragged onto another, by the rule of the menu.                   *)
dropBlock(placements, activeId, overId, side, columns) ==
    LET visible == Visible(placements)
        at == SelectInSeq(visible, LAMBDA one : one.id = activeId)
        over == SelectInSeq(visible, LAMBDA one : one.id = overId)
        target == IF visible[over].width = "half" THEN over
                  ELSE NearestHalf(visible, over, IF side = "before" THEN -1 ELSE 1)
        order == IF visible[at].width = "full" THEN RowDropped(visible, at, over, side, columns)
                 ELSE Swapped(visible, at, target)
    IN IF at = 0 \/ over = 0 \/ at = over THEN None
       ELSE IF visible[at].width = "half" /\ target \in {0, at} THEN None
       ELSE IF order = visible THEN None ELSE inSlots(placements, order)

withWidth(placements, id, width) ==
    [i \in DOMAIN placements |->
        IF placements[i].id = id THEN [placements[i] EXCEPT !.width = width] ELSE placements[i]]
(* A hidden card keeps its slot.                                           *)
withHidden(placements, id, hidden) ==
    [i \in DOMAIN placements |->
        IF placements[i].id = id THEN [placements[i] EXCEPT !.hidden = hidden] ELSE placements[i]]
=============================================================================

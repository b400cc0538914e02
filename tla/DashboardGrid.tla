--------------------------- MODULE DashboardGrid ---------------------------
(***************************************************************************)
(* The grid of the dashboard and its edit session (DashboardGrid.tsx): the *)
(* draft and what is spent by an edit, the drag and its preview, the save  *)
(* and its refusal, over a layout other tabs write.  A session is lost     *)
(* with the page; its request is not.  Where the focus goes and what is    *)
(* announced are not modelled.                                             *)
(***************************************************************************)
EXTENDS Integers, Sequences, TLC

CONSTANTS
    None,      \* nothing: no draft, no drag, no layout saved
    Unread,    \* the layout was never read
    Later,     \* a layout of another version
    Registry,  \* the cards
    Layouts,   \* the layouts another tab saves, and the first one
    States,    \* what the cards may render: functions from the cards to states
    Columns,   \* the tracks the window may have
    MaxEdits, MaxDrags, MaxSaves, MaxReads, MaxResizes  \* bounds of an instance

VARIABLES
    stored,      \* the layout the server holds
    layout,      \* the layout of the cache, Unread
    layoutRead,  \* none, asked, answered, or failed: asked once, never read
    draft,       \* the layout being arranged, None when reading
    toDelete,    \* the draft is the default, and Done forgets the layout
    confirming,  \* the reset asks to be confirmed
    drag,        \* [start, shown, frozen, columns, active], None
    columns,     \* the tracks of the window
    states,      \* what the cards render
    saving,      \* the write in flight, <<the layout, None to forget it>>, or None
    saveFailed,  \* the last save was refused
    orphan,      \* the save of a session that was left, None
    crossed,     \* the draft was edited while it was being saved
    edits, drags, saves, reads, resizes

vars == <<stored, layout, layoutRead, draft, toDelete, confirming, drag, columns, states,
    saving, saveFailed, orphan, crossed, edits, drags, saves, reads, resizes>>
pageVars == <<draft, toDelete, confirming, drag, saveFailed, crossed>>
bounds == <<edits, drags, saves, reads, resizes>>

INSTANCE DashboardLayout

-----------------------------------------------------------------------------
(* What the screen shows.                                                  *)

editing == draft # None
unread == layout = Unread
saved == IF unread THEN None ELSE layout
placements == IF drag # None THEN drag.shown ELSE IF editing THEN draft ELSE normalizeLayout(saved)
fresh == IF unread THEN {} ELSE newBlocks(saved)
drawn == ~unread \/ layoutRead.is = "failed"  \* the layout is no longer pending
(* The cards the page may ask a read for.                                  *)
shown == IF unread THEN {} ELSE {placements[i].id : i \in {j \in DOMAIN placements : ~placements[j].hidden}}
resolved == resolveLayout(placements, states, editing, columns)
blocks == SelectSeq(resolved, LAMBDA cell : cell.kind = "block")
frozenAs(cell) == [span |-> cell.span, width |-> cell.width]

(* While a drag lasts the cards keep the spans it began with, and the free *)
(* halves go: the grid leaves its own gaps.                                *)
cells ==
    IF drag = None THEN resolved
    ELSE [i \in DOMAIN blocks |->
             IF blocks[i].id \in DOMAIN drag.frozen THEN drag.frozen[blocks[i].id] @@ blocks[i]
             ELSE blocks[i]]
atDefault == editing /\ draft = defaultLayout
draggable == editing /\ columns > 1 /\ saving = None

-----------------------------------------------------------------------------
(* The session.                                                            *)

enter ==
    /\ drawn /\ ~editing /\ ~unread
    /\ draft' = normalizeLayout(saved) /\ toDelete' = FALSE /\ saveFailed' = FALSE
    /\ crossed' = FALSE
    /\ UNCHANGED <<stored, layout, layoutRead, confirming, drag, columns, states, saving, orphan, bounds>>

Left ==
    /\ draft' = None /\ confirming' = FALSE /\ toDelete' = FALSE /\ saveFailed' = FALSE
    /\ crossed' = FALSE

Cancel ==
    /\ editing /\ saving = None /\ drag = None
    /\ Left
    /\ UNCHANGED <<stored, layout, layoutRead, drag, columns, states, saving, orphan, bounds>>

(* The default is still to be written when it is edited.                   *)
editKept(next) ==
    /\ draft' = next /\ UNCHANGED toDelete
    /\ crossed' = (crossed \/ saving # None)

(* An edit ends the reset: what is saved is the draft again.               *)
edit(next) ==
    /\ draft' = next /\ toDelete' = FALSE
    /\ crossed' = (crossed \/ saving # None)

(* The menus and the hidden cards stay alive while a save is in flight.    *)
CardEdited(next) ==
    /\ drag = None /\ edits < MaxEdits
    /\ edit(next) /\ edits' = edits + 1
    /\ UNCHANGED <<stored, layout, layoutRead, confirming, drag, columns, states, saving,
                   saveFailed, orphan, drags, saves, reads, resizes>>

(* What the menu of a card offers.                                         *)
CardMenu(id) ==
    [moves |-> {direction \in {-1, 1} : moveBlock(placements, id, direction, columns) # None},
     widths |-> IF columns > 1 /\ blockSpec(id).widths = {"half", "full"}
                THEN {"half", "full"} ELSE {}]

Cards == {placements[i].id : i \in {j \in DOMAIN placements : ~placements[j].hidden}}
onMove == editing /\ \E id \in Cards : \E direction \in CardMenu(id).moves :
    CardEdited(moveBlock(placements, id, direction, columns))
onWidth == editing /\ \E id \in Cards : \E width \in CardMenu(id).widths :
    CardEdited(withWidth(placements, id, width))
onHide == editing /\ \E id \in Cards : CardEdited(withHidden(placements, id, TRUE))
onShow == editing /\ \E id \in BlockIds \ Cards : CardEdited(withHidden(placements, id, FALSE))

AskReset ==
    /\ editing /\ ~atDefault /\ saving = None /\ drag = None /\ ~confirming
    /\ confirming' = TRUE
    /\ UNCHANGED <<stored, layout, layoutRead, draft, toDelete, drag, columns, states, saving,
                   saveFailed, orphan, crossed, bounds>>
KeepLayout ==
    /\ confirming /\ drag = None /\ confirming' = FALSE
    /\ UNCHANGED <<stored, layout, layoutRead, draft, toDelete, drag, columns, states, saving,
                   saveFailed, orphan, crossed, bounds>>
ConfirmReset ==
    /\ confirming /\ drag = None
    /\ draft' = defaultLayout /\ toDelete' = TRUE /\ confirming' = FALSE
    /\ crossed' = (crossed \/ saving # None)
    /\ UNCHANGED <<stored, layout, layoutRead, drag, columns, states, saving, saveFailed, orphan, bounds>>

(* Done, and the retry of a refusal.                                       *)
done ==
    /\ editing /\ saving = None /\ drag = None
    /\ IF toDelete \/ mustWrite(draft, saved)
       THEN /\ saves < MaxSaves /\ saves' = saves + 1
            /\ saving' = <<IF toDelete THEN None ELSE draft>>
            /\ saveFailed' = FALSE /\ crossed' = FALSE
            /\ UNCHANGED <<draft, toDelete, confirming>>
       ELSE Left /\ UNCHANGED <<saving, saves>>
    /\ UNCHANGED <<stored, layout, layoutRead, drag, columns, states, orphan, edits, drags, reads, resizes>>

SaveLands ==
    /\ saving # None
    /\ stored' = saving[1] /\ layout' = saving[1]
    /\ saving' = None /\ Left
    /\ UNCHANGED <<layoutRead, drag, columns, states, orphan, bounds>>
(* Refused, lost on its way, or stored and its answer lost.                *)
SaveRefused ==
    /\ saving # None
    /\ saving' = None /\ saveFailed' = TRUE
    /\ stored' \in {stored, saving[1]}
    /\ UNCHANGED <<layout, layoutRead, draft, toDelete, confirming, drag, columns, states,
                   orphan, crossed, bounds>>

(* The page is left with the session on it: the draft goes, the save goes on. *)
LeavePage ==
    /\ editing /\ orphan = None
    /\ Left /\ drag' = None
    /\ orphan' = saving /\ saving' = None
    /\ UNCHANGED <<stored, layout, layoutRead, columns, states, bounds>>
(* Nobody is left to hear that it was refused, or lost.                    *)
OrphanLands ==
    /\ orphan # None
    /\ orphan' = None
    /\ \/ stored' = orphan[1] /\ layout' = orphan[1]
       \/ stored' \in {stored, orphan[1]} /\ UNCHANGED layout
    /\ UNCHANGED <<layoutRead, draft, toDelete, confirming, drag, columns, states, saving,
                   saveFailed, crossed, bounds>>

-----------------------------------------------------------------------------
(* The drag: a preview that is one drop away from where it began.          *)

onDragStart ==
    /\ draggable /\ drag = None /\ drags < MaxDrags
    /\ \E id \in Cards :
           drag' = [start |-> draft, shown |-> draft, columns |-> columns, active |-> id,
               frozen |-> [card \in Cards |->
                   frozenAs(blocks[SelectInSeq(blocks, LAMBDA cell : cell.id = card)])]]
    /\ drags' = drags + 1
    /\ UNCHANGED <<stored, layout, layoutRead, draft, toDelete, confirming, columns, states,
                   saving, saveFailed, orphan, crossed, edits, saves, reads, resizes>>

(* The card standing where the dragged one began is the way back.          *)
outcomeOf(over) ==
    LET order == IdsOf(Visible(drag.shown))
        place(id) == SelectInSeq(order, LAMBDA one : one = id)
        home == place(over) = SelectInSeq(IdsOf(Visible(drag.start)), LAMBDA one : one = drag.active)
        side == IF place(over) < place(drag.active) THEN "before" ELSE "after"
        next == dropBlock(drag.start, drag.active, over, side, drag.columns)
    IN IF home \/ next = None THEN drag.start ELSE next

onDragOver ==
    /\ drag # None
    /\ \E over \in Cards \ {drag.active} :
           /\ outcomeOf(over) # drag.shown
           /\ drag' = [drag EXCEPT !.shown = outcomeOf(over)]
    /\ UNCHANGED <<stored, layout, layoutRead, draft, toDelete, confirming, columns, states,
                   saving, saveFailed, orphan, crossed, bounds>>

(* Dropped, or given up; a window that changed its tracks drops nothing.   *)
onDragEnd(canceled) ==
    /\ drag # None /\ drag' = None
    /\ IF ~draggable \/ drag.columns # columns \/ canceled \/ drag.shown = drag.start
       THEN UNCHANGED <<draft, toDelete, crossed>>
       ELSE edit(drag.shown)
    /\ UNCHANGED <<stored, layout, layoutRead, confirming, columns, states, saving, saveFailed,
                   orphan, bounds>>

-----------------------------------------------------------------------------
(* Around the session.                                                     *)

Resize ==
    /\ resizes < MaxResizes /\ resizes' = resizes + 1
    /\ columns' \in Columns \ {columns}
    /\ UNCHANGED <<stored, layout, layoutRead, draft, toDelete, confirming, drag, states, saving,
                   saveFailed, orphan, crossed, edits, drags, saves, reads>>

(* The read of the layout, asked again as the page comes back; it lands    *)
(* with what the server held when it answered, over what was saved since   *)
(* too, and a failure leaves what was read.                                *)
AskRead ==
    /\ layoutRead.is \in {"none", "failed"} /\ reads < MaxReads /\ reads' = reads + 1
    /\ layoutRead' = [is |-> "asked"]
    /\ UNCHANGED <<stored, layout, pageVars, columns, states, saving, orphan, edits, drags, saves, resizes>>
ReadAnswered ==
    /\ layoutRead.is = "asked"
    /\ layoutRead' = [is |-> "answered", what |-> stored]
    /\ UNCHANGED <<stored, layout, pageVars, columns, states, saving, orphan, bounds>>
ReadLands ==
    /\ layoutRead.is = "answered"
    /\ layout' = layoutRead.what /\ layoutRead' = [is |-> "none"]
    /\ UNCHANGED <<stored, pageVars, columns, states, saving, orphan, bounds>>
ReadFails ==
    /\ layoutRead.is \in {"asked", "answered"}
    /\ layoutRead' = [is |-> IF unread THEN "failed" ELSE "none"]
    /\ UNCHANGED <<stored, layout, pageVars, columns, states, saving, orphan, bounds>>

SavedElsewhere ==
    /\ stored' \in Layouts \ {stored} /\ saves < MaxSaves /\ saves' = saves + 1
    /\ UNCHANGED <<layout, layoutRead, pageVars, columns, states, saving, orphan, edits, drags, reads, resizes>>

Init ==
    /\ stored \in Layouts /\ layout = Unread /\ layoutRead = [is |-> "asked"]
    /\ draft = None /\ toDelete = FALSE /\ confirming = FALSE /\ drag = None
    /\ columns \in Columns /\ states \in States
    /\ saving = None /\ saveFailed = FALSE /\ orphan = None /\ crossed = FALSE
    /\ edits = 0 /\ drags = 0 /\ saves = 0 /\ reads = 0 /\ resizes = 0

Next ==
    \/ enter \/ Cancel \/ onMove \/ onWidth \/ onHide \/ onShow
    \/ AskReset \/ KeepLayout \/ ConfirmReset \/ done
    \/ SaveLands \/ SaveRefused \/ LeavePage \/ OrphanLands
    \/ onDragStart \/ onDragOver \/ onDragEnd(TRUE) \/ onDragEnd(FALSE)
    \/ Resize \/ AskRead \/ ReadAnswered \/ ReadLands \/ ReadFails \/ SavedElsewhere

Spec == Init /\ [][Next]_vars

-----------------------------------------------------------------------------
(* Whatever was stored, dragged or hidden, the layout drawn holds every    *)
(* card once at a width it accepts, and the grid draws the shown ones in   *)
(* their order: in rows that are filled, and under a drag at the spans it  *)
(* began with (normalizeLayout, resolveLayout, cells).                     *)
Filled(drawnCells, perRow) ==
    LET step(at, cell) ==
            IF at = -1 \/ (cell.kind = "block" /\ cell.span = 2 /\ at # 0) THEN -1
            ELSE IF cell.kind = "block" /\ cell.span = 2 THEN 0
            ELSE (at + 1) % perRow
    IN FoldLeft(step, 0, drawnCells) = 0
CardsAreDrawnOnce ==
    LET ofBlocks == SelectSeq(cells, LAMBDA cell : cell.kind = "block")
        told == SelectSeq(Visible(placements), LAMBDA one : editing \/ states[one.id] # "nothing")
    IN /\ Len(placements) = Len(Registry) /\ BlockIds = {placements[i].id : i \in DOMAIN placements}
       /\ \A i \in DOMAIN placements : placements[i].width \in blockSpec(placements[i].id).widths
       /\ IdsOf(ofBlocks) = IdsOf(told)
       /\ drag = None => columns = 1 \/ Filled(cells, tracksPerRow(columns))
       /\ drag # None => \A i \in DOMAIN ofBlocks :
              ofBlocks[i].id \in DOMAIN drag.frozen
              /\ drag.frozen[ofBlocks[i].id] = frozenAs(ofBlocks[i])

(* The draft is drawn from what it is saved as (normalizeLayout).          *)
DraftIsKept == editing => normalizeLayout(draft) = draft

(* A save that ends the session leaves the server, and the cache, with the *)
(* layout on screen, a reset followed by an edit included; a draft edited  *)
(* while it was being saved is set apart (edit, done, onSuccess).          *)
SavedIsDrawn ==
    [][saving # None /\ saving' = None /\ ~editing' /\ orphan' = orphan /\ ~crossed
       => normalizeLayout(stored') = draft /\ layout' = stored']_vars

(* "A save in flight ends the session: nothing more can land in the draft  *)
(* it is writing" (DashboardGrid.tsx:264).                                 *)
DraftIsSpent == ~crossed

(* A full card moved, or dropped, goes past whole rows: no row of halves   *)
(* is left with a card in its middle; and no hidden card leaves its slot   *)
(* (moveBlock, dropBlock, inSlots).                                        *)
OfWidth(layoutOf, width) == SelectSeq(Visible(layoutOf), LAMBDA one : one.width = width)
Together(row, order) ==
    LET at == SelectInSeq(order, LAMBDA one : one = row[1])
    IN \A i \in DOMAIN row : at + i - 1 <= Len(order) /\ order[at + i - 1] = row[i]
RowsMoveWhole ==
    [][editing /\ editing' /\ ~toDelete'
       /\ {draft[i] : i \in DOMAIN draft} = {draft'[i] : i \in DOMAIN draft'} =>
        /\ \A i \in DOMAIN draft : draft[i].hidden => draft'[i] = draft[i]
        /\ OfWidth(draft, "half") = OfWidth(draft', "half") =>
               LET rows == rowsOf(Visible(draft), tracksPerRow(columns))
               IN \A i \in DOMAIN rows : Together(rows[i], Visible(draft'))]_vars
=============================================================================

----------------------------- MODULE LedgerPage -----------------------------
(***************************************************************************)
(* The ledger page (pages/DataPage.tsx over features/data/components):     *)
(* the address and the reduction it carries, the table revealed PAGE rows  *)
(* at a time, the ticked rows, the sheet of a row, and the two removals.   *)
(*                                                                         *)
(* The page draws the rows it has read; the store moves under it, from     *)
(* other tabs.  A removal in flight outlives the box that asked for it:    *)
(* closing the box only stops the page from reading the answer's state.    *)
(***************************************************************************)
EXTENDS LedgerRules

CONSTANTS
    Shut, Creating, \* the sheet that is closed, the sheet of a new row
    Ids,        \* the keys of the store
    Contents,   \* what the rows hold, in the order they are written
    PAGE,       \* rows revealed at a time, 40 in the code
    Queries,    \* what a reader types in the search
    Addresses,  \* the reductions the palette sends
    Bounds,     \* what a reader types in the two date fields
    Reissue,    \* whether a key is given again before this tab reads the ledger
    MaxRows,    \* bound: rows ever written
    MaxAsks,    \* bound: times the form is asked for
    MaxRemovals \* bound: removals in flight

VARIABLES
    store,     \* the rows the server holds, by key
    born,      \* rows written so far; names a row beyond its key
    freed,     \* the keys freed since this tab read the ledger
    events,    \* the rows read, None until they are
    address,   \* the reduction of the address, None where it has none
    arming,    \* where the gesture of the palette is: address, state or None
    focus,     \* the reduction delivered by the address
    filters,   \* the reduction in force
    budget,    \* rows drawn
    rowSelection, \* the ticked keys
    editing,   \* the sheet: Shut, Creating, or the row it is open on
    removing,  \* the row a removal is asked for
    bulk,      \* whether the box of the bulk removal is open
    removals,  \* removals in flight, of a row or of the selection
    refusals,  \* the refusals the two boxes read
    tickedByHand, \* the rows the reader ticked (history)
    asks       \* times the form was asked for, and opened (history)

vars == <<store, born, freed, events, address, arming, focus, filters, budget,
          rowSelection, editing, removing, bulk, removals, refusals, tickedByHand, asks>>

serverVars == <<store, born, freed>>
boxVars == <<removing, bulk, removals, refusals>>
reductionVars == <<address, focus, filters, budget>>
tickVars == <<rowSelection, tickedByHand>>
sheetVars == <<arming, editing, asks>>

Rows == [id : Ids, born : 1 .. MaxRows]

(* A row as the page reads it.                                             *)
Read(row) ==
    [field \in DOMAIN row \cup DOMAIN Contents[row.born] |->
        IF field \in DOMAIN row THEN row[field] ELSE Contents[row.born][field]]
InStore == {store[id] : id \in Ids} \ {None}
StoreRows ==
    LET stored == {id \in Ids : store[id] # None}
    IN InPlace([id \in stored |-> Read(store[id])],
               [id \in stored |->
                   Cardinality({other \in stored : store[other].born <= store[id].born})])

all == IF events = None THEN <<>> ELSE byDateDescending(events)
shown == filterEvents(all, filters)
page == reveal(shown, budget)

(* A mutant: the ticked rows a reduction hides are removed with the others.*)
selectedHidden == {r \in Ids : r \in rowSelection}

(* The ticked rows the reduction still shows: what the removal is about.   *)
selected == Ticked(shown, rowSelection)

-----------------------------------------------------------------------------
(* The reduction and its address *)

(* Adjusted during the render: a reduction that moved starts its reveal    *)
(* over.                                                                   *)
Reduce(next) ==
    /\ filters' = next
    /\ budget' = PAGE

(* A mutant: the address goes on describing a reduction that was lifted.   *)
reduceUnreleased(next) ==
    /\ Reduce(next)
    /\ focus' = None /\ address' = address

(* Every reduction made by hand: the address stops describing the table.   *)
reduce(next) ==
    /\ Reduce(next)
    /\ focus' = None /\ address' = None

ByHand(next) ==
    /\ events # None /\ all # <<>>
    /\ reduce(next)
    /\ UNCHANGED <<serverVars, events, sheetVars, tickVars, boxVars>>

LedgerSearch == \E query \in Queries \ {filters.query} : ByHand([filters EXCEPT !.query = query])

PressType == \E f \in typeFacets(all, filters) : ByHand([filters EXCEPT !.type = f.value])

(* The account menu: the ledger's accounts, and the one in force.          *)
named == accountsNamed(all) \cup ({filters.account} \ {None})
PressAccount ==
    /\ Cardinality(named) > 1 \/ filters.account # None
    /\ \E f \in accountFacets(all, filters, named) : ByHand([filters EXCEPT !.account = f.value])

PressYear ==
    \E f \in yearFacets(all, filters) :
        ByHand(Period(IF f.value = None THEN EveryDay ELSE yearBounds(f.value), filters))

(* The pressed month again goes back up to its year.                       *)
PressMonth ==
    \E f \in monthFacets(all, filters) :
        /\ f.count > 0
        /\ ByHand(Period(IF f.active THEN yearBounds(rangeYear(filters))
                         ELSE monthBounds(rangeYear(filters), f.value), filters))

TypeBound ==
    \E typed \in Bounds :
        \/ ByHand([filters EXCEPT !.since = parseDay(typed)])
        \/ ByHand([filters EXCEPT !.until = parseDay(typed)])

(* One pastille per dimension in force, each clearing itself.              *)
Cleared(axis) ==
    IF axis \in {"since", "until"} THEN Period(EveryDay, filters)
    ELSE [filters EXCEPT ![axis] = NO_FILTERS[axis]]
LedgerChips == \E axis \in selectionParams(filters) : ByHand(Cleared(axis))

ResetReduction == reduces(filters) /\ ByHand(NO_FILTERS)

(* The sentence that names a delivered reduction, with its way out.        *)
delivered == focus # None /\ filters = focus /\ None \notin {filters.type, filters.account}
UndoDelivered == delivered /\ ByHand(NO_FILTERS)

(* A navigation to a reduced ledger, from the palette or a notice.         *)
Arrive(reduction) ==
    /\ address # reduction
    /\ address' = reduction /\ focus' = reduction
    /\ Reduce(reduction)
    /\ UNCHANGED <<serverVars, events, sheetVars, tickVars, boxVars>>

(* The next rows: in memory, nothing is fetched.                           *)
more ==
    /\ events # None /\ shown # <<>> /\ ~page.atEnd
    /\ budget' = budget + PAGE
    /\ UNCHANGED <<serverVars, events, address, focus, filters, sheetVars, tickVars, boxVars>>

-----------------------------------------------------------------------------
(* The ticked rows *)

Tick(ids, on) ==
    /\ rowSelection' = IF on THEN rowSelection \cup ids ELSE rowSelection \ ids
    /\ tickedByHand' = IF on
           THEN tickedByHand \cup {shown[i].born : i \in {j \in DOMAIN shown : shown[j].id \in ids}}
           ELSE tickedByHand
    /\ UNCHANGED <<serverVars, events, reductionVars, sheetVars, boxVars>>

(* The box of a drawn row.                                                 *)
TickRow ==
    \E i \in DOMAIN page.rows :
        /\ isEditable(page.rows[i])
        /\ Tick({page.rows[i].id}, page.rows[i].id \notin rowSelection)

(* The head box: every row the reduction retains, drawn or not.            *)
TickAll ==
    LET editable == {shown[i].id : i \in DOMAIN shown} \ {None} IN
    /\ editable # {}
    /\ Tick(editable, selectionState(shown, rowSelection) # "all")

clearSelection == rowSelection' = {}
Deselect ==
    /\ selected # {} /\ clearSelection
    /\ UNCHANGED <<serverVars, events, reductionVars, sheetVars, tickedByHand, boxVars>>

-----------------------------------------------------------------------------
(* The sheet *)

Edit ==
    \E i \in DOMAIN page.rows :
        /\ isEditable(page.rows[i]) /\ editing = Shut /\ removing = None /\ ~bulk
        /\ editing' = page.rows[i]
        /\ UNCHANGED <<serverVars, events, reductionVars, arming, asks, tickVars, boxVars>>

Asked == [asks EXCEPT !.asked = @ + 1]
Opened(a) == [a EXCEPT !.opened = @ + 1]

Compose ==
    /\ events # None /\ editing = Shut /\ asks.asked < MaxAsks
    /\ editing' = Creating /\ asks' = Opened(Asked)
    /\ UNCHANGED <<serverVars, events, reductionVars, arming, tickVars, boxVars>>

(* The palette's own action: the address arms the form.                    *)
Arm ==
    /\ arming = None /\ asks.asked < MaxAsks
    /\ arming' = "address" /\ asks' = Asked
    /\ UNCHANGED <<serverVars, events, reductionVars, editing, tickVars, boxVars>>

(* The arming leaves the address for the page's state.                     *)
SpendAddress ==
    /\ arming = "address" /\ arming' = "state"
    /\ UNCHANGED <<serverVars, events, reductionVars, editing, asks, tickVars, boxVars>>

(* And the table spends it where it opens the form.                        *)
Composed ==
    /\ arming = "state" /\ arming' = None
    /\ editing' = Creating /\ asks' = Opened(asks)
    /\ UNCHANGED <<serverVars, events, reductionVars, tickVars, boxVars>>

CloseSheet ==
    /\ editing # Shut /\ removing = None
    /\ editing' = Shut
    /\ UNCHANGED <<serverVars, events, reductionVars, arming, asks, tickVars, boxVars>>

-----------------------------------------------------------------------------
(* The removal of one row *)

AskRemoval ==
    /\ editing \notin {Shut, Creating} /\ removing = None
    /\ removing' = editing
    /\ UNCHANGED <<serverVars, events, reductionVars, sheetVars, tickVars, bulk, removals, refusals>>

Unread(flights, kind) == {IF f.kind = kind THEN [f EXCEPT !.read = FALSE] ELSE f : f \in flights}
Pending(kind) == \E f \in removals : f.kind = kind /\ f.read

(* mutation.reset(): the refusal is forgotten, the flight no longer read.  *)
Reset(kind) ==
    /\ refusals' = [refusals EXCEPT ![kind] = None]
    /\ removals' = Unread(removals, kind)

Send(kind, ids, rows) ==
    /\ Cardinality(removals) < MaxRemovals
    /\ removals' = Unread(removals, kind) \cup
                   {[kind |-> kind, ids |-> ids, rows |-> rows, read |-> TRUE]}
    /\ refusals' = [refusals EXCEPT ![kind] = None]

RemoveRow ==
    /\ removing # None /\ ~Pending("row")
    /\ Send("row", {removing.id}, {removing.born})
    /\ UNCHANGED <<serverVars, events, reductionVars, sheetVars, tickVars, removing, bulk>>

CloseRowBox ==
    /\ removing # None /\ removing' = None
    /\ Reset("row")
    /\ UNCHANGED <<serverVars, events, reductionVars, sheetVars, tickVars, bulk>>

(* The removal of the ticked rows *)

OpenBulk ==
    /\ selected # {} /\ ~bulk /\ editing = Shut
    /\ bulk' = TRUE /\ Reset("rows")
    /\ UNCHANGED <<serverVars, events, reductionVars, sheetVars, tickVars, removing>>

(* What is sent is what is selected; rows keeps what the reader saw ticked.*)
RemoveSelected ==
    /\ bulk /\ ~Pending("rows") /\ selected # {}
    /\ Send("rows", selected,
            {shown[i].born : i \in {j \in DOMAIN shown : shown[j].id \in rowSelection}})
    /\ UNCHANGED <<serverVars, events, reductionVars, sheetVars, tickVars, removing, bulk>>

CloseBulk ==
    /\ bulk /\ bulk' = FALSE /\ Reset("rows")
    /\ UNCHANGED <<serverVars, events, reductionVars, sheetVars, tickVars, removing>>

-----------------------------------------------------------------------------
(* What the server answers *)

Frees(ids) ==
    /\ store' = [id \in Ids |-> IF id \in ids THEN None ELSE store[id]]
    /\ freed' = freed \cup {id \in ids : store[id] # None}
    /\ UNCHANGED born

(* A key that is gone is skipped by the bulk and refused to the row.       *)
BulkLands ==
    \E f \in removals :
        /\ f.kind = "rows"
        /\ Frees(f.ids)
        /\ bulk' = FALSE /\ clearSelection
        /\ removals' = removals \ {f}
        /\ UNCHANGED <<events, reductionVars, sheetVars, tickedByHand, removing, refusals>>

RowLands ==
    \E f \in removals :
        /\ f.kind = "row" /\ \A id \in f.ids : store[id] # None
        /\ Frees(f.ids)
        /\ removing' = None /\ editing' = Shut
        /\ removals' = removals \ {f}
        /\ UNCHANGED <<events, reductionVars, arming, asks, tickVars, bulk, refusals>>

RemovalRefused ==
    \E f \in removals :
        /\ removals' = removals \ {f}
        /\ refusals' = IF f.read THEN [refusals EXCEPT ![f.kind] = f.rows] ELSE refusals
        /\ UNCHANGED <<serverVars, events, reductionVars, sheetVars, tickVars, removing, bulk>>

(* An id the ledger no longer holds leaves the selection with the re-read. *)
Held(ids, rows) == {id \in ids : \E i \in DOMAIN rows : rows[i].id = id}

EventsRead ==
    /\ events # StoreRows
    /\ events' = StoreRows /\ freed' = {}
    /\ rowSelection' = Held(rowSelection, StoreRows)
    /\ UNCHANGED <<store, born, reductionVars, sheetVars, tickedByHand, boxVars>>

(* Elsewhere: a row is written, in another tab or by an import, or removed.*)
(* A key is given again after a restart only, which no request outlives.   *)
WrittenElsewhere ==
    /\ born < MaxRows
    /\ \E id \in {i \in Ids : store[i] = None} :
        /\ Reissue \/ id \notin freed
        /\ \A f \in removals : id \notin f.ids
        /\ store' = [store EXCEPT ![id] = [id |-> id, born |-> born + 1]]
    /\ born' = born + 1
    /\ UNCHANGED <<freed, events, reductionVars, sheetVars, tickVars, boxVars>>

RemovedElsewhere ==
    /\ \E id \in Ids : store[id] # None /\ Frees({id})
    /\ UNCHANGED <<events, reductionVars, sheetVars, tickVars, boxVars>>

-----------------------------------------------------------------------------
Init ==
    /\ store = [id \in Ids |-> None] /\ born = 0 /\ freed = {}
    /\ events = None
    /\ address = None /\ focus = None /\ filters = NO_FILTERS /\ budget = PAGE
    /\ rowSelection = {} /\ tickedByHand = {}
    /\ arming = None /\ editing = Shut /\ asks = [asked |-> 0, opened |-> 0]
    /\ removing = None /\ bulk = FALSE /\ removals = {}
    /\ refusals = [row |-> None, rows |-> None]

(* While a box or the sheet is open what is behind it takes no gesture.    *)
Behind ==
    /\ editing = Shut /\ removing = None /\ ~bulk
    /\ \/ LedgerSearch \/ PressType \/ PressAccount \/ PressYear \/ PressMonth
       \/ TypeBound \/ LedgerChips \/ ResetReduction \/ UndoDelivered
       \/ more \/ TickRow \/ TickAll \/ Deselect
       \/ Edit \/ Compose \/ OpenBulk

Next ==
    \/ Behind
    \/ \E reduction \in Addresses : Arrive(reduction)
    \/ Arm
    \/ SpendAddress
    \/ Composed
    \/ CloseSheet
    \/ AskRemoval
    \/ RemoveRow
    \/ CloseRowBox
    \/ RemoveSelected
    \/ CloseBulk
    \/ BulkLands
    \/ RowLands
    \/ RemovalRefused
    \/ EventsRead
    \/ WrittenElsewhere
    \/ RemovedElsewhere

Spec == Init /\ [][Next]_vars

-----------------------------------------------------------------------------
(* What must hold *)

TypeOK ==
    /\ store \in [Ids -> Rows \cup {None}]
    /\ rowSelection \subseteq Ids /\ freed \subseteq Ids
    /\ arming \in {None, "address", "state"}
    /\ bulk \in BOOLEAN
    /\ DOMAIN refusals = {"row", "rows"}
    /\ \A day \in {filters.since, filters.until} \ {None} :
           day % 100 <= LastDay(Year(day), Month(day))

(* A reduction the address carries is the one in force: a reload never     *)
(* brings back one the reader lifted.                                      *)
AddressIsTable == address # None => filters = address

(* A new row never arrives ticked: a ticked row is one the reader ticked.  *)
NewRowUnticked ==
    \A i \in DOMAIN all : all[i].id \in rowSelection => all[i].born \in tickedByHand

(* The bulk removal takes the rows the reader saw ticked and no other.     *)
BulkTakes ==
    \A f \in removals \ removals' : f.kind = "rows" /\ store' # store =>
        {r.born : r \in InStore \ {store'[id] : id \in Ids}} \subseteq f.rows

BulkTakesTheTicked == [][BulkTakes]_vars

(* A gesture is spent once: the form opens at most as often as it is asked *)
(* for, whatever the address and the page's state still hold.              *)
FormOpensOnce == asks.opened <= asks.asked

(* A refusal in the box of a row is about that row.                        *)
RefusalIsOfItsBox ==
    refusals.row # None /\ removing # None => removing.born \in refusals.row

(* The end of the reduction is said only when its last row is drawn.       *)
EndIsDrawn == page.atEnd => page.rows = shown
=============================================================================

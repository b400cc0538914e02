----------------------------- MODULE SharesPage -----------------------------
(***************************************************************************)
(* The shares page (pages/SharesPage.tsx) and the sheet of a security      *)
(* (ShareSheet.tsx, PriceChart.tsx): the positions and the counters of     *)
(* failures as they were last read, the lens on the anomalies, the groups, *)
(* the order, the reduction to an account, the sheet with its window and   *)
(* the days selected in it.                                                *)
(*                                                                         *)
(* Portfolios are the answers the server may hold: positions, failures,    *)
(* events of the ledger, and whether the reporting currency is answered.   *)
(***************************************************************************)
EXTENDS ShareFigures

CONSTANTS
    Portfolios,     \* the portfolios, functions of Names
    Names,
    Columns,        \* the columns the reader orders on
    Accounts,       \* the accounts a link reduces to
    Symbols,        \* the symbols whose sheet is opened
    Series,         \* the closes the chart draws, by window
    MaxMoves,       \* bound on the portfolios the server goes through
    MaxFailures     \* bound on the reads that fail

VARIABLES
    served,         \* the portfolio the server holds
    positions,      \* the read of the positions: its data and its error
    runtime,        \* the read of the counters of failures
    answered,       \* is the currency answered, None while the settings are unread
    onlyAnomalies, sort, grouped,
    account, symbol,        \* the address
    window, selectedDays,   \* of the sheet
    selectedOn,     \* the security and the window the days were selected on
    moves, failed   \* bounded counters

vars == <<served, positions, runtime, answered, onlyAnomalies, sort, grouped, account, symbol, window,
          selectedDays, selectedOn, moves, failed>>
pageVars == <<onlyAnomalies, sort, grouped, account, symbol, window, selectedDays, selectedOn>>

-----------------------------------------------------------------------------
(* What the page computes from its reads. *)
Unread == [data |-> None, error |-> FALSE]
isSuccess(read) == read.data # None /\ ~read.error

Answer(read) == Portfolios[read.data]
failures == IF runtime.data = None THEN <<>> ELSE Answer(runtime).failures
OfAccount(own, id) == SelectSeq(own, LAMBDA p : id \in {None, p.account})
reduced ==
    IF positions.data = None THEN <<>> ELSE OfAccount(Answer(positions).positions, account)
rows == buildShareRows(reduced, failures)

Repairable(line) == ~isClosed(line) /\ isAnomalous(line)
accountCount == Len(Distinct(Column(reduced, "account")))
showGroup == isSuccess(runtime) /\ accountCount >= 2
showAnomalies == isSuccess(runtime) /\ SelectSeq(rows, Repairable) # <<>>

(* The lines the table shows, the positions behind them, and its blocks. *)
shown(lines) == IF onlyAnomalies THEN SelectSeq(lines, Repairable) ELSE lines
PositionsOf(lines, own) == SelectSeq(own, LAMBDA p : p.symbol \in ToSet(Column(lines, "symbol")))
groups(lines, own) ==
    IF grouped THEN accountGroups(own, failures, sort)
    ELSE <<[account |-> None, rows |-> lines, positions |-> own]>>

(* What stands where the table would: a failed read that holds an answer is *)
(* no failure (lib/status.ts, readConditions).                              *)
screen ==
    IF answered = FALSE THEN "noCurrency"
    ELSE IF positions.data = None THEN IF positions.error THEN "unreadable" ELSE "nothing"
    ELSE IF rows = <<>> THEN IF account # None THEN "reducedEmpty" ELSE "empty"
    ELSE "table"

(* The security of the sheet, None while no line of the page has its symbol. *)
sheet ==
    IF answered # FALSE /\ \E p \in ToSet(reduced) : p.symbol = symbol THEN symbol ELSE None
markers == eventMarkers(Answer(positions).events, sheet, Series[window])

Init ==
    /\ served \in Names
    /\ positions = Unread /\ runtime = Unread
    /\ answered = None
    /\ onlyAnomalies = FALSE /\ grouped = FALSE
    /\ sort = [column |-> "value", direction |-> "desc"]
    /\ account = None /\ symbol = None
    /\ window = "1Y" /\ selectedDays = {} /\ selectedOn = None
    /\ moves = 0 /\ failed = 0

-----------------------------------------------------------------------------
(* The reads. *)

(* The server moves on: quotes, rates, a ledger written elsewhere. *)
ServerMoves ==
    /\ moves < MaxMoves
    /\ moves' = moves + 1
    /\ served' \in Names \ {served}
    /\ UNCHANGED <<positions, runtime, answered, failed, pageVars>>

(* The selection is let go when the security of the sheet changes. *)
SelectionFollows ==
    IF sheet' = sheet
    THEN UNCHANGED <<selectedDays, selectedOn>>
    ELSE selectedDays' = {} /\ selectedOn' = None

Answered(read) == read' = [data |-> served, error |-> FALSE]
Refused(read) ==
    /\ failed < MaxFailures
    /\ failed' = failed + 1
    /\ read' = [read EXCEPT !.error = TRUE]

PositionsLand ==
    /\ \/ Answered(positions) /\ UNCHANGED failed
       \/ Refused(positions)
    /\ UNCHANGED <<served, moves, runtime, answered, onlyAnomalies, sort, grouped, account, symbol,
                   window>>
    /\ SelectionFollows

RuntimeLands ==
    /\ \/ Answered(runtime) /\ UNCHANGED failed
       \/ Refused(runtime)
    /\ UNCHANGED <<served, moves, positions, answered, pageVars>>

(* Without a currency the page leaves its place to the sentence that says so, *)
(* and the sheet forgets its window.                                       *)
SettingsLand ==
    /\ answered' = Portfolios[served].answered
    /\ window' = IF answered' = FALSE THEN "1Y" ELSE window
    /\ UNCHANGED <<served, moves, positions, runtime, failed, onlyAnomalies, sort, grouped, account,
                   symbol>>
    /\ SelectionFollows

-----------------------------------------------------------------------------
(* The gestures of the page. *)
reads == <<served, positions, runtime, answered, moves, failed>>

PressLens ==
    /\ screen = "table" /\ showAnomalies
    /\ onlyAnomalies' = ~onlyAnomalies
    /\ UNCHANGED <<reads, sort, grouped, account, symbol, window, selectedDays, selectedOn>>

PressGroup ==
    /\ screen = "table" /\ showGroup
    /\ grouped' = ~grouped
    /\ UNCHANGED <<reads, onlyAnomalies, sort, account, symbol, window, selectedDays, selectedOn>>

OnSort(column) ==
    /\ screen = "table"
    /\ sort' = nextSort(sort, column)
    /\ UNCHANGED <<reads, onlyAnomalies, grouped, account, symbol, window, selectedDays, selectedOn>>

(* A link reduces the page to an account, or lifts the reduction; either    *)
(* leaves no symbol in the address.                                         *)
Reduce(to) ==
    /\ to # account
    /\ account' = to /\ symbol' = None
    /\ UNCHANGED <<reads, onlyAnomalies, sort, grouped, window>>
    /\ SelectionFollows

(* A line of the page, the palette or a link opens a sheet; it may name a  *)
(* symbol no line has.                                                     *)
Select(to) ==
    /\ to # symbol
    /\ symbol' = to
    /\ UNCHANGED <<reads, onlyAnomalies, sort, grouped, account, window>>
    /\ SelectionFollows

-----------------------------------------------------------------------------
(* The gestures of the sheet. *)
SelectDays(days) ==
    /\ selectedDays' = days
    /\ selectedOn' = IF days = {} THEN None ELSE <<sheet, window>>
    /\ UNCHANGED <<reads, onlyAnomalies, sort, grouped, account, symbol, window>>

(* A line of the list: the one day already selected is let go. *)
toggle ==
    /\ sheet # None
    /\ \E day \in ToSet(Known(Column(shareEvents(Answer(positions).events, sheet), "date"))) :
           SelectDays(IF selectedDays = {day} THEN {} ELSE {day})

(* A marker: it selects the days it holds, or lets the selection go. *)
PressMarker ==
    /\ sheet # None
    /\ \E marker \in markers :
           SelectDays(IF marker.days \cap selectedDays # {} THEN {} ELSE marker.days)

(* Mutant: the selection outlives the window it was made in. *)
onWindowChangeKept ==
    /\ sheet # None
    /\ window' \in DOMAIN Series
    /\ UNCHANGED <<reads, onlyAnomalies, sort, grouped, account, symbol, selectedDays, selectedOn>>

onWindowChange ==
    /\ sheet # None
    /\ window' \in DOMAIN Series
    /\ selectedDays' = {} /\ selectedOn' = None
    /\ UNCHANGED <<reads, onlyAnomalies, sort, grouped, account, symbol>>

Next ==
    \/ ServerMoves \/ PositionsLand \/ RuntimeLands \/ SettingsLand
    \/ PressLens \/ PressGroup \/ \E column \in Columns : OnSort(column)
    \/ \E to \in Accounts \cup {None} : Reduce(to)
    \/ \E to \in Symbols \cup {None} : Select(to)
    \/ toggle \/ PressMarker \/ onWindowChange

Spec == Init /\ [][Next]_vars

-----------------------------------------------------------------------------
(* The total row is of the lines on screen: its valuation and its gain are  *)
(* known together, differ by what the lines cost, and what is said of a     *)
(* missing one is true of a line (shares.ts, valuationTotal; gain.ts).      *)
TotalIsOfTheLines(lines, valuation, gain) ==
    /\ valuation.known = gain.known
    /\ valuation.known => valuation.value - Sum(Column(lines, "cost")) = gain.value
    /\ \A sum \in {valuation, gain} : sum.known \/ \E line \in ToSet(lines) : absenceCase(line) = sum.because

(* The groups part the lines shown: of each line nothing is lost or counted *)
(* twice, and the heads of the groups add up (shares.ts, accountGroups).    *)
GroupsPartTheLines(lines, parts, total, heads) ==
    /\ \A line \in ToSet(lines) : \A field \in {"quantity", "cost", "realised", "dividends"} :
           Sum(Column(SelectSeq(parts, LAMBDA r : r.symbol = line.symbol), field)) = line[field]
    /\ total.known = (\A i \in DOMAIN heads : heads[i].known)
    /\ total.known => Sum(Column(heads, "value")) = total.value
GroupsAgree(lines, blocks) ==
    GroupsPartTheLines(lines, FlattenSeq(Column(blocks, "rows")), valuationTotal(lines),
                       [i \in DOMAIN blocks |-> valuationTotal(blocks[i].rows)])

(* The slices divide what the lines on screen are worth, each held line in *)
(* one slice or named as unplaced (shares.ts, allocation).                  *)
AllocationDivides(lines, split) ==
    /\ split.total = placedValue(lines)
    /\ Len(split.slices) <= ALLOCATION_SLICES
    /\ Sum(Column(split.slices, "count")) + Len(split.unplaced) = Len(SelectSeq(lines, LAMBDA r : ~isClosed(r)))
    /\ (split.unplaced = <<>>) = valuationTotal(lines).known
    /\ \A scope \in {AllocationScope(split.slices)} :
           IF scope = None THEN \A slice \in ToSet(split.slices) : slice.count = 1
           ELSE scope.placed + Len(split.unplaced) = Len(SelectSeq(lines, LAMBDA r : ~isClosed(r)))

(* The lines are those of the page in another order, and one with nothing  *)
(* to compare comes after all that have (shares.ts, sortRows).              *)
AbsencesNeverRise(lines) ==
    /\ Len(lines) + Len(SelectSeq(rows, isClosed)) = Len(rows)
    /\ ToSet(lines) = {r \in ToSet(rows) : ~isClosed(r)}
    /\ \A i, j \in DOMAIN lines :
           i < j /\ sortKey(lines[i], sort.column) = None => sortKey(lines[j], sort.column) = None

(* The sheet says of a security what its line says: its gain in three      *)
(* terms, its accounts one by one (shares.ts, accountBreakdown).            *)
SheetIsTheLine(line, total, lines) ==
    /\ total.known = (marketValue(line) # None)
    /\ total.known => total.value = marketValue(line) - line.cost + line.realised + line.dividends
    /\ lines # <<>> => /\ Sum(Column(lines, "cost")) = line.cost
                        /\ total.known => placedValue(lines) = marketValue(line)

(* Every event of the security inside the span of the chart is counted by  *)
(* one marker, and no two markers stand on one point (eventMarkers).        *)
MarkersCountOnce(dates, stops, drawn) ==
    drawn # {} =>
        /\ FoldSet(LAMBDA m, sum : m.count + sum, 0, drawn) = Len(SelectSeq(dates, LAMBDA d : Inside(d, stops)))
        /\ \A one, two \in drawn : one # two => one.rank # two.rank /\ one.days \cap two.days = {}

(* A cell reads as a figure where there is one, and a line marked as to be  *)
(* repaired says so in its price (absence.ts against shares.ts).           *)
CellsAreFigures(line, cells) ==
    /\ cells.price[1] = "figure" => cells.price[2] # None
    /\ \A cell \in {cells.valuation, cells.unrealised} : (cell[1] = "figure") = (cell[2] # None)
    /\ isAnomalous(line) => cells.price[1] = "noQuote"

(* The total row adds up the lines of the table and the sums of the folded *)
(* ones, and draws no figure it does not have (gain.ts, termRendering).    *)
TotalRowAddsUp(live, closed, totals) ==
    /\ totals.terms.realised = Sum(Column(live, "realised")) + closed.realised
    /\ totals.terms.dividends = Sum(Column(live, "dividends")) + closed.dividends
    /\ \A cell \in TotalRow(totals) : cell[1] = "figure" => cell[2] # None

TotalsAgree(lines, totals) ==
    /\ TotalRowAddsUp(SelectSeq(lines, LAMBDA r : ~isClosed(r)), ClosedShares(closedRows(rows)), totals)
    /\ TotalIsOfTheLines(lines, totals.valuation, totals.terms.unrealised)
FiguresAgree ==
    screen = "table" =>
        \A live \in {heldRows(rows, sort)} : \A lines \in {shown(live) \o closedRows(rows)} :
            /\ AbsencesNeverRise(live)
            /\ \A line \in ToSet(lines) : CellsAreFigures(line, ShareLine(line))
            /\ TotalsAgree(lines, sharesTotals(PositionsOf(lines, reduced), lines))
            /\ GroupsAgree(shown(live), groups(shown(live), PositionsOf(shown(live), reduced)))
            /\ AllocationDivides(lines, allocation(lines))
            /\ sheet # None =>
                   /\ SheetIsTheLine(RowOf(reduced, sheet, failures),
                          gainTotal(securityTerms(SelectSeq(reduced, LAMBDA p : p.symbol = sheet))),
                          accountBreakdown(reduced, sheet, failures))
                   /\ MarkersCountOnce(Column(shareEvents(Answer(positions).events, sheet), "date"),
                                       StopsOf(Series[window]), markers)

(* The days selected are of the security and the window on screen: none is *)
(* carried to another sheet (ShareSheet.tsx, selectedDays).                 *)
SelectionIsOfTheSheet ==
    selectedDays # {} => sheet # None /\ selectedOn = <<sheet, window>>

(* A table cut to its anomalies says so by the button that cuts it, pressed *)
(* (SharesPage.tsx:193).                                                    *)
LensNamesItself == screen = "table" /\ onlyAnomalies => showAnomalies
=============================================================================

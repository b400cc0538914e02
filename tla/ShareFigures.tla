---------------------------- MODULE ShareFigures ----------------------------
(***************************************************************************)
(* The arithmetic of the shares page (lib/absence.ts, lib/gain.ts,         *)
(* features/shares/lib/shares.ts): what a line is worth or why that is not *)
(* known, the totals and the reason one is missing, the order of the       *)
(* lines, their groups, the slices of the allocation, the markers of the   *)
(* chart.                                                                  *)
(*                                                                         *)
(* Names, symbols and accounts are naturals in the order of their text;    *)
(* amounts are integers; an absent value is None.  An instant is counted   *)
(* in HALF days.                                                           *)
(***************************************************************************)
EXTENDS Integers, Sequences, FiniteSets, SequencesExt

CONSTANTS None, ALLOCATION_SLICES, MERGE_GAP_PERCENT

Sum(numbers) == FoldLeft(LAMBDA sum, n : sum + n, 0, numbers)
Column(s, field) == [i \in DOMAIN s |-> s[i][field]]
Known(values) == SelectSeq(values, LAMBDA v : v # None)
FirstOr(s, default) == IF s = <<>> THEN default ELSE Head(s)
FirstKnown(values) == FirstOr(Known(values), None)
Distinct(s) == FoldLeft(LAMBDA seen, x : IF Contains(seen, x) THEN seen ELSE Append(seen, x), <<>>, s)

-----------------------------------------------------------------------------
(* lib/absence.ts.  A line carries quantity, price, converted, terminal and *)
(* failures; a price is a value in a currency, which nothing may name.      *)
isQuoted(price) == price # None /\ price.currency # None

absenceCase(line) ==
    IF line.quantity = 0 THEN "nothingToCompute"
    ELSE IF isQuoted(line.price)
         THEN IF line.converted = None THEN "awaitingRate" ELSE "quoted"
         ELSE IF ~line.terminal THEN "rebuilding"
              ELSE IF line.failures > 0 THEN "noQuote" ELSE "carriedAtCost"

(* How the three cells read: a figure, a dash, or the name of what is missing. *)
Cells(price, valuation, gain) == [price |-> price, valuation |-> valuation, unrealised |-> gain]

RenderingsOf(which, named) ==
    CASE which = "carriedAtCost" -> Cells("dash", "figure", "figure")
      [] which = "awaitingRate" -> Cells("figure", "awaitingRate", "awaitingRate")
      [] which = "nothingToCompute" -> Cells("dash", "figure", "dash")
      [] which = "noQuote" -> Cells("noQuote", "figure", "figure")
      [] which = "rebuilding" -> Cells(named, named, named)
      [] which = "quoted" -> Cells("figure", "figure", "figure")
positionRenderings(line) ==
    RenderingsOf(absenceCase(line), IF line.failures > 0 THEN "noQuote" ELSE "rebuilding")

-----------------------------------------------------------------------------
(* lib/gain.ts: the terms of the positions, a sum or the reason of its absence. *)
Figure(value) == [known |-> TRUE, value |-> value, because |-> "known"]
Missing(reason) == [known |-> FALSE, value |-> 0, because |-> reason]

CaseOf(position) == absenceCase([failures |-> 0] @@ position)

GainOf(position) ==
    IF CaseOf(position) = "quoted" THEN position.converted * position.quantity - position.cost ELSE 0

(* positionTerms and securityTerms: no transfer fee belongs to a security. *)
Waiting(positions) ==
    SelectSeq([i \in DOMAIN positions |-> CaseOf(positions[i])],
              LAMBDA which : which \in {"awaitingRate", "rebuilding"})
UnlessMissing(reasons, numbers) ==
    IF reasons # <<>> THEN Missing(Head(reasons)) ELSE Figure(Sum(numbers))

securityTerms(positions) ==
    [unrealised |-> UnlessMissing(Waiting(positions), [i \in DOMAIN positions |-> GainOf(positions[i])]),
     realised |-> Sum(Column(positions, "realised")),
     dividends |-> Sum(Column(positions, "dividends")),
     holdsPosition |-> \E i \in DOMAIN positions : positions[i].quantity # 0,
     transferFees |-> 0]

gainTotal(terms) ==
    IF ~terms.unrealised.known THEN terms.unrealised
    ELSE IF terms.transferFees = None THEN Missing("unboundedFees")
    ELSE Figure(terms.unrealised.value + terms.realised + terms.dividends + terms.transferFees)

sumRendering(sum) ==
    IF sum.known THEN "figure" ELSE IF sum.because = "unboundedFees" THEN "dash" ELSE sum.because

termRendering(terms, term) ==
    IF term = "unrealised"
    THEN IF ~terms.holdsPosition /\ terms.unrealised.known THEN "dash" ELSE sumRendering(terms.unrealised)
    ELSE IF terms[term] = None THEN "dash" ELSE "figure"

-----------------------------------------------------------------------------
(* shares.ts: the lines of the page, one for each symbol: its positions are *)
(* named, those of them that hold some are its holders.                     *)
Latest(days) == FoldLeft(LAMBDA a, b : IF a = None \/ b > a THEN b ELSE a, None, days)

ShareRow(symbol, named, holders, failures) ==
    [symbol |-> symbol,
     name |-> FirstKnown(Column(named, "name")),
     quantity |-> Sum(Column(named, "quantity")),
     cost |-> Sum(Column(named, "cost")),
     realised |-> Sum(Column(named, "realised")),
     dividends |-> Sum(Column(named, "dividends")),
     price |-> FirstKnown(Column(named, "price")),
     converted |-> FirstKnown(Column(named, "converted")),
     accounts |-> Distinct(Column(IF holders # <<>> THEN holders ELSE named, "account")),
     closedAt |-> Latest(Known(Column(named, "closedAt"))),
     terminal |-> Head(named).terminal,
     failures |-> IF symbol \in DOMAIN failures THEN failures[symbol] ELSE 0]

RowOf(positions, symbol, failures) ==
    ShareRow(symbol,
             SelectSeq(positions, LAMBDA p : p.symbol = symbol),
             SelectSeq(positions, LAMBDA p : p.symbol = symbol /\ p.quantity # 0), failures)
RowsOf(positions, symbols, failures) ==
    [i \in DOMAIN symbols |-> RowOf(positions, symbols[i], failures)]
buildShareRows(positions, failures) ==
    RowsOf(positions, Distinct(Column(positions, "symbol")), failures)

isClosed(row) == row.quantity = 0
isAnomalous(row) == absenceCase(row) = "noQuote"

(* Mutant: a line whose currency has no rate is carried at its cost. *)
ValueInAtCost(row, which) ==
    IF which = "quoted" THEN row.converted * row.quantity
    ELSE IF which = "nothingToCompute" THEN 0 ELSE row.cost

(* The counter of failures names an absence and never changes a sum. *)
ValueIn(row, which) ==
    CASE which = "nothingToCompute" -> 0
      [] which \in {"carriedAtCost", "noQuote"} -> row.cost
      [] which = "quoted" -> row.converted * row.quantity
      [] OTHER -> None
marketValue(row) == ValueIn(row, absenceCase(row))

GainOver(value, cost) == IF value = None THEN None ELSE value - cost
unrealised(row) == IF isClosed(row) THEN None ELSE GainOver(marketValue(row), row.cost)

(* What a column orders on: a ratio, the text of the accounts, or None. *)
Amount(n) == IF n = None THEN None ELSE <<n, 1>>
sortKey(row, column) ==
    CASE column = "symbol" -> Amount(IF row.name # None THEN row.name ELSE row.symbol)
      [] column = "price" -> IF isQuoted(row.price) THEN Amount(row.price.value) ELSE None
      [] column = "avgCost" -> IF isClosed(row) THEN None ELSE <<row.cost, row.quantity>>
      [] column = "value" -> Amount(marketValue(row))
      [] column = "unrealised" -> Amount(unrealised(row))
      [] column = "account" -> row.accounts
      [] OTHER -> Amount(row[column])

Less(column, left, right) ==
    IF column # "account" THEN left[1] * right[2] < right[1] * left[2]
    ELSE \/ IsStrictPrefix(left, right)
         \/ \E i \in DOMAIN left \cap DOMAIN right :
                left[i] < right[i] /\ \A j \in 1..i - 1 : left[j] = right[j]

(* A line with nothing to compare goes last in both directions. *)
RowBefore(a, b, left, right, sort) ==
    IF left = None \/ right = None
    THEN IF left = right THEN a.symbol < b.symbol ELSE right = None
    ELSE IF Less(sort.column, left, right) THEN sort.direction = "asc"
         ELSE IF Less(sort.column, right, left) THEN sort.direction = "desc"
         ELSE a.symbol < b.symbol
sortRows(rows, sort) ==
    SortSeq(rows, LAMBDA a, b : RowBefore(a, b, sortKey(a, sort.column), sortKey(b, sort.column), sort))

(* Pressing the column in force turns it round; another takes its first direction. *)
nextSort(current, column) ==
    [column |-> column,
     direction |-> IF current.column = column
                   THEN IF current.direction = "asc" THEN "desc" ELSE "asc"
                   ELSE IF column \in {"symbol", "account"} THEN "asc" ELSE "desc"]

heldRows(rows, sort) == sortRows(SelectSeq(rows, LAMBDA r : ~isClosed(r)), sort)

(* The lines sold out, the last closed first, those without a day last. *)
closedRows(rows) ==
    SortSeq(SelectSeq(rows, isClosed), LAMBDA a, b :
        IF a.closedAt = b.closedAt THEN a.symbol < b.symbol
        ELSE b.closedAt = None \/ (a.closedAt # None /\ a.closedAt > b.closedAt))

(* One block for each account that a position names, in the order of the accounts. *)
Group(account, own, failures, sort) ==
    [account |-> account, positions |-> own, rows |-> sortRows(buildShareRows(own, failures), sort)]
GroupsOf(positions, accounts, failures, sort) ==
    [i \in DOMAIN accounts |->
        Group(accounts[i], SelectSeq(positions, LAMBDA p : p.account = accounts[i]), failures, sort)]
accountGroups(positions, failures, sort) ==
    GroupsOf(positions, SortSeq(Distinct(Column(positions, "account")), <), failures, sort)

(* A line of a security for each of its accounts, none where it has but one. *)
BreakdownOf(own, accounts, symbol, failures) ==
    IF Len(accounts) < 2 THEN <<>>
    ELSE [i \in DOMAIN accounts |->
            [RowOf(SelectSeq(own, LAMBDA p : p.account = accounts[i]), symbol, failures)
             EXCEPT !.accounts = <<accounts[i]>>]]
SecurityBreakdown(own, symbol, failures) ==
    BreakdownOf(own, Distinct(Column(own, "account")), symbol, failures)
accountBreakdown(positions, symbol, failures) ==
    SecurityBreakdown(SelectSeq(positions, LAMBDA p : p.symbol = symbol), symbol, failures)

-----------------------------------------------------------------------------
(* The totals and the allocation. *)
Valueless(rows) ==
    SelectSeq([i \in DOMAIN rows |-> absenceCase(rows[i])],
              LAMBDA which : which \in {"awaitingRate", "rebuilding"})
valuationTotal(rows) ==
    UnlessMissing(Valueless(rows), [i \in DOMAIN rows |-> marketValue(rows[i])])

sharesTotals(positions, rows) == [valuation |-> valuationTotal(rows), terms |-> securityTerms(positions)]

(* Past ALLOCATION_SLICES lines, the smallest are one slice that counts them. *)
FoldOf(rest) == [symbol |-> None, value |-> Sum(Column(rest, "value")), count |-> Len(rest)]
Folded(sorted) ==
    IF Len(sorted) <= ALLOCATION_SLICES THEN sorted
    ELSE Append(SubSeq(sorted, 1, ALLOCATION_SLICES - 1),
                FoldOf(SubSeq(sorted, ALLOCATION_SLICES, Len(sorted))))
foldSlices(placed) ==
    Folded(SortSeq(placed, LAMBDA a, b :
        IF a.value = b.value THEN a.symbol < b.symbol ELSE a.value > b.value))

Slice(row, value) == [symbol |-> row.symbol, value |-> value, count |-> 1]
SlicesOf(rows) == [i \in DOMAIN rows |-> Slice(rows[i], marketValue(rows[i]))]
Split(slices, unplaced) ==
    [slices |-> slices, total |-> Sum(Column(slices, "value")), unplaced |-> Column(unplaced, "symbol")]
allocation(rows) ==
    Split(foldSlices(SelectSeq(SlicesOf(SelectSeq(rows, LAMBDA r : ~isClosed(r))),
                               LAMBDA slice : slice.value # None)),
          SelectSeq(rows, LAMBDA r : ~isClosed(r) /\ marketValue(r) = None))

placedValue(rows) == Sum(Known([i \in DOMAIN rows |-> marketValue(rows[i])]))

(* How the weight of a line reads: as its valuation, or a dash under a whole of nothing. *)
WeightIn(valuation, whole) == IF valuation # "figure" \/ whole > 0 THEN valuation ELSE "dash"
weightRendering(row, whole) == WeightIn(positionRenderings(row).valuation, whole)

-----------------------------------------------------------------------------
(* What is drawn: how a cell reads, and its amount where it is a figure.   *)
termAmount(terms, term) ==
    IF term # "unrealised" THEN terms[term]
    ELSE IF terms.unrealised.known THEN terms.unrealised.value ELSE None
KnownValue(sum) == IF sum.known THEN sum.value ELSE None

LineIn(row, cells) ==
    [price |-> <<cells.price, IF row.price = None THEN None ELSE row.price.value>>,
     valuation |-> <<cells.valuation, marketValue(row)>>,
     unrealised |-> <<cells.unrealised, unrealised(row)>>]
ShareLine(row) == LineIn(row, positionRenderings(row))

TotalRow(totals) ==
    {<<sumRendering(totals.valuation), KnownValue(totals.valuation)>>}
    \cup {<<termRendering(totals.terms, term), termAmount(totals.terms, term)>> :
              term \in {"unrealised", "realised", "dividends"}}

(* The lines sold out are folded under a line of their own sums.           *)
ClosedShares(rows) ==
    [realised |-> Sum(Column(rows, "realised")), dividends |-> Sum(Column(rows, "dividends"))]

(* How many lines the allocation divides, and how many its last slice folds. *)
foldedCount(slices) ==
    FoldLeft(LAMBDA count, slice : IF slice.symbol = None THEN slice.count ELSE count, 0, slices)
AllocationScope(slices) ==
    IF foldedCount(slices) = 0 THEN None
    ELSE [placed |-> Len(slices) - 1 + foldedCount(slices), top |-> Len(slices) - 1]

-----------------------------------------------------------------------------
(* The markers of the chart.  A point is the instant of a close, None where *)
(* it does not parse; a stop is one that does and its rank.                 *)
HALF == 2

shareEvents(events, symbol) == SelectSeq(events, LAMBDA e : e.symbol = symbol)

(* The first stop nearest to a day: none is nearer than one inside the day. *)
Distance(at, start) ==
    IF at < start THEN start - at ELSE IF at < start + HALF THEN 0 ELSE at - (start + HALF)
nearestStop(stops, start) ==
    FoldLeft(LAMBDA best, s : IF Distance(s.at, start) < Distance(best.at, start) THEN s ELSE best,
             Head(stops), stops)

StopsOf(points) ==
    SelectSeq([i \in DOMAIN points |-> [index |-> i - 1, at |-> points[i]]], LAMBDA s : s.at # None)

(* The days with an event of the security inside the span of the stops, with *)
(* how many and where.                                                      *)
Inside(date, stops) ==
    /\ date # None
    /\ \E s \in ToSet(stops) : (date + 1) * HALF > s.at
    /\ \E s \in ToSet(stops) : date * HALF <= s.at
DaysOf(dates, stops) == SortSeq(Distinct(SelectSeq(dates, LAMBDA d : Inside(d, stops))), <)
MarkedDays(dates, days, stops) ==
    [i \in DOMAIN days |->
        [day |-> days[i], rank |-> nearestStop(stops, days[i] * HALF).index,
         count |-> Len(SelectSeq(dates, LAMBDA d : d = days[i]))]]

(* A day closer to the first one of a marker than the gap joins that marker. *)
Joins(clusters, d, steps) ==
    clusters # <<>> /\ (d.rank - Head(Last(clusters)).rank) * 100 < MERGE_GAP_PERCENT * steps
Clusters(marked, steps) ==
    FoldLeft(LAMBDA clusters, d :
                 IF Joins(clusters, d, steps)
                 THEN [clusters EXCEPT ![Len(clusters)] = Append(@, d)] ELSE Append(clusters, <<d>>),
             <<>>, marked)
Marker(cluster) ==
    [days |-> ToSet(Column(cluster, "day")), rank |-> Head(cluster).rank,
     count |-> Sum(Column(cluster, "count"))]

MarkersAt(dates, stops, steps) ==
    IF Cardinality(ToSet(Column(stops, "at"))) < 2 THEN {}
    ELSE {Marker(c) : c \in ToSet(Clusters(MarkedDays(dates, DaysOf(dates, stops), stops), steps))}
eventMarkers(events, symbol, points) ==
    MarkersAt(Column(shareEvents(events, symbol), "date"), StopsOf(points), Len(points) - 1)
=============================================================================

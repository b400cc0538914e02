---------------------------- MODULE LedgerRules ----------------------------
(***************************************************************************)
(* The ledger's own rules, pure (features/data/lib/ledger.ts): what a type *)
(* asks for, the identity of a row, the reduction and its address, the     *)
(* facets with their counts, the reveal, and the titles a form suggests.   *)
(*                                                                         *)
(* A text is a sequence of letters, Blank the empty one; the capital of a  *)
(* letter is the letter plus 10.  A day is the number YYYYMMDD: it sorts   *)
(* as the ISO spelling does.  What was not given is None.                  *)
(***************************************************************************)
EXTENDS Integers, SequencesExt

CONSTANTS
    EventTypes,  \* the event types of the instance, six in the code
    None         \* null

Trades == {"BUY", "SELL"}
Moves == {"DEPOSIT", "WITHDRAWAL"}

Blank == <<>>
Space == 0
fold(text) == [i \in DOMAIN text |-> text[i] % 10]

FIELDS(type) ==
    [security |-> type \notin Moves,
     quantity |-> type \in Trades \cup {"GRANT"},
     unitPrice |-> IF type \in Trades THEN "required"
                   ELSE IF type = "GRANT" THEN "optional" ELSE "none",
     fee |-> type # "GRANT",
     amount |-> type \in Moves \cup {"DIVIDEND"}]

(* The cash that entered (+) or left (-) the account, fees in; None for a  *)
(* grant and for a row missing a figure.                                   *)
cashFlow(e) ==
    LET fee == IF e.fee = None THEN 0 ELSE e.fee
        missing == IF e.event_type \in Trades THEN None \in {e.quantity, e.unit_price}
                   ELSE e.amount = None
    IN IF e.event_type = "GRANT" \/ missing THEN None
       ELSE CASE e.event_type = "BUY"        -> -(e.quantity * e.unit_price + fee)
              [] e.event_type = "SELL"       -> e.quantity * e.unit_price - fee
              [] e.event_type = "WITHDRAWAL" -> -(e.amount + fee)
              [] OTHER                       -> e.amount - fee

-----------------------------------------------------------------------------
(* The identity of a row *)

Given(text) == IF text \in {None, Blank} THEN None ELSE text

identityOf(e) ==
    [ticker |-> Given(e.symbol),
     name |-> IF Given(e.symbol) = None THEN None ELSE Given(e.name),
     label |-> Given(e.notes)]

nameOf(e) ==
    LET identity == identityOf(e) IN
    IF identity.name # None THEN identity.name
    ELSE IF identity.ticker # None THEN identity.ticker ELSE identity.label

Default == <<4>>
accountOf(e) == IF e.account = Blank THEN Default ELSE e.account

accountsNamed(rows) == {accountOf(rows[i]) : i \in DOMAIN rows}

isEditable(e) == e.id # None

(* What a row's figure cell says: its amount, or the quantity of a grant.  *)
EventFigure(e) ==
    IF cashFlow(e) # None THEN [kind |-> "amount", value |-> cashFlow(e)]
    ELSE IF e.quantity = None THEN [kind |-> "absent", value |-> None]
    ELSE [kind |-> "quantity", value |-> e.quantity]

-----------------------------------------------------------------------------
(* Titles *)

Includes(text, needle) ==
    \E i \in 0 .. (Len(text) - Len(needle)) : SubSeq(text, i + 1, i + Len(needle)) = needle

matchesQuery(query, texts) ==
    query = Blank \/ \E text \in texts \ {None} : Includes(fold(text), fold(query))

startsWithQuery(query, texts) ==
    query = Blank \/ \E text \in texts \ {None} : IsPrefix(fold(query), fold(text))

DayOf(e) == IF e.date = None THEN 0 ELSE e.date

(* Every title the ledger names, with the most recent name it was given:   *)
(* the first of the rows of one day keeps it.                              *)
Names(rows, symbol, name) ==
    \E i \in DOMAIN rows :
        /\ rows[i].symbol = symbol /\ rows[i].name = name /\ Given(name) # None
        /\ \A j \in DOMAIN rows : rows[j].symbol = symbol /\ Given(rows[j].name) # None =>
               \/ DayOf(rows[j]) < DayOf(rows[i])
               \/ DayOf(rows[j]) = DayOf(rows[i]) /\ i <= j

titlesNamed(rows) ==
    LET symbols == {rows[i].symbol : i \in DOMAIN rows} \ {None, Blank}
        named(symbol) == {name \in {rows[i].name : i \in DOMAIN rows} :
                              Names(rows, symbol, name)}
    IN {[symbol |-> symbol,
         name |-> IF named(symbol) = {} THEN None ELSE CHOOSE n \in named(symbol) : TRUE]
            : symbol \in symbols}

(* The titles a query names: those that start with it, then the others.    *)
titlesFor(titles, query) ==
    LET matching == {t \in titles : matchesQuery(query, {t.symbol, t.name})}
        starting == {t \in matching : startsWithQuery(query, {t.symbol, t.name})}
    IN <<starting, matching \ starting>>

-----------------------------------------------------------------------------
(* The reduction *)

NO_FILTERS ==
    [query |-> Blank, type |-> None, account |-> None, symbols |-> None,
     since |-> None, until |-> None]

OrNothing(text) == IF text = None THEN <<>> ELSE text

haystack(e) ==
    fold(OrNothing(e.symbol) \o <<Space>> \o OrNothing(identityOf(e).name)
         \o <<Space>> \o OrNothing(e.notes) \o <<Space>> \o accountOf(e))

Within(e, filters) ==
    filters.since # None \/ filters.until # None =>
        /\ e.date # None
        /\ filters.since # None => e.date >= filters.since
        /\ filters.until # None => e.date <= filters.until

Retained(e, filters) ==
    /\ Within(e, filters)
    /\ filters.type \in {None, e.event_type}
    /\ filters.account \in {None, accountOf(e)}
    /\ filters.symbols # None => Given(e.symbol) \in filters.symbols
    /\ Includes(haystack(e), fold(filters.query))

(* Rows listed by their places, no two of which are one.                   *)
InPlace(rows, place) ==
    [k \in Range(place) |-> rows[CHOOSE i \in DOMAIN place : place[i] = k]]

filterEvents(rows, filters) ==
    LET kept == {i \in DOMAIN rows : Retained(rows[i], filters)}
    IN InPlace(rows, [i \in kept |-> Cardinality({j \in kept : j <= i})])

(* Whether a member of the reduction reduces anything.                     *)
selectionParams(filters) ==
    {axis \in DOMAIN filters :
        /\ filters[axis] # None
        /\ axis = "query" => filters.query # Blank
        /\ axis = "symbols" => filters.symbols # {}}

reduces(filters) == selectionParams(filters) # {}

(* The address of a reduction, and the reduction of an address: one that   *)
(* reduces nothing has none.                                               *)
ledgerSearchOf(filters) == [axis \in selectionParams(filters) |-> filters[axis]]

filtersFromSearch(search) ==
    IF DOMAIN search = {} THEN None ELSE search @@ NO_FILTERS

-----------------------------------------------------------------------------
(* Days *)

Year(day) == day \div 10000
Month(day) == (day \div 100) % 100
Leap(year) == year % 4 = 0 /\ (year % 100 # 0 \/ year % 400 = 0)
LastDay(year, month) ==
    IF month = 2 THEN (IF Leap(year) THEN 29 ELSE 28)
    ELSE IF month \in {4, 6, 9, 11} THEN 30 ELSE 31

(* A mutant: a day is taken as it is spelled.                              *)
parseDayLoose(day) == IF day \in Nat THEN day ELSE None

(* A day of the calendar, or None.                                         *)
parseDay(day) ==
    IF /\ day \in Nat /\ Month(day) \in 1 .. 12
       /\ day % 100 \in 1 .. LastDay(Year(day), Month(day))
    THEN day ELSE None

(* A number, or None for a text that is not one.                           *)
parseDecimal(typed) == IF typed \in Int THEN typed ELSE None

yearBounds(year) == [since |-> year * 10000 + 101, until |-> year * 10000 + 1231]

monthBounds(year, month) ==
    [since |-> year * 10000 + month * 100 + 1,
     until |-> year * 10000 + month * 100 + LastDay(year, month)]

yearsNamed(rows) == {Year(rows[i].date) : i \in {j \in DOMAIN rows : rows[j].date # None}}

(* The year the months are drawn for.                                      *)
rangeYear(filters) ==
    IF None \in {filters.since, filters.until} THEN None
    ELSE IF Year(filters.since) = Year(filters.until) THEN Year(filters.since) ELSE None

-----------------------------------------------------------------------------
(* Facets: what pressing one puts in force, and how many rows that leaves  *)

Period(bounds, filters) == bounds @@ filters
EveryDay == [since |-> None, until |-> None]

Facet(rows, value, filters, active) ==
    [value |-> value, count |-> Len(filterEvents(rows, filters)), active |-> active]

typeFacets(rows, filters) ==
    {Facet(rows, type, [filters EXCEPT !.type = type], filters.type = type)
        : type \in EventTypes \cup {None}}

accountFacets(rows, filters, accounts) ==
    {Facet(rows, account, [filters EXCEPT !.account = account], filters.account = account)
        : account \in accounts \cup {None}}

yearFacets(rows, filters) ==
    {Facet(rows, None, Period(EveryDay, filters),
           filters.since = None /\ filters.until = None)} \cup
    {Facet(rows, year, Period(yearBounds(year), filters),
           /\ None \notin {filters.since, filters.until}
           /\ filters.since >= yearBounds(year).since
           /\ filters.until <= yearBounds(year).until)
        : year \in yearsNamed(rows)}

monthFacets(rows, filters) ==
    LET year == rangeYear(filters) IN
    IF year = None THEN {}
    ELSE {Facet(rows, month, Period(monthBounds(year, month), filters),
                filters.since = monthBounds(year, month).since
                /\ filters.until = monthBounds(year, month).until)
             : month \in 1 .. 12}

-----------------------------------------------------------------------------
(* Order and reveal *)

(* Date descending, stable: the rows of one day keep the store's order.    *)
byDateDescending(rows) ==
    LET NotAfter(i, j) == \/ DayOf(rows[i]) > DayOf(rows[j])
                          \/ DayOf(rows[i]) = DayOf(rows[j]) /\ i <= j
    IN InPlace(rows, [j \in DOMAIN rows |-> Cardinality({i \in DOMAIN rows : NotAfter(i, j)})])

reveal(rows, upTo) ==
    LET shown == IF upTo < Len(rows) THEN upTo ELSE Len(rows) IN
    [rows |-> [i \in {j \in DOMAIN rows : j <= upTo} |-> rows[i]], shown |-> shown, total |-> Len(rows),
     atEnd |-> shown >= Len(rows)]

(* The head checkbox, read off the editable rows of the reduction only.    *)
Ticked(rows, rowSelection) ==
    {rows[i].id : i \in DOMAIN rows} \cap rowSelection

selectionState(rows, rowSelection) ==
    LET editable == {rows[i].id : i \in DOMAIN rows} \ {None}
        ticked == Ticked(rows, rowSelection)
    IN IF ticked = {} THEN "none" ELSE IF ticked = editable THEN "all" ELSE "some"
=============================================================================

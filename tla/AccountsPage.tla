---------------------------- MODULE AccountsPage ----------------------------
(***************************************************************************)
(* The accounts page (pages/AccountsPage.tsx, AccountsBar.tsx,             *)
(* AccountDetail.tsx): its reads, each as it last answered or refused, the *)
(* account in the address, the bar over the accounts and the blocks of the *)
(* one that is open.  What the panel writes is AccountPanel's.             *)
(*                                                                         *)
(* Payloads are the answers the server may hold: accounts, whether any is  *)
(* declared, positions, events, the curve of each account, the runtime,    *)
(* and whether the reporting currency is answered.                         *)
(***************************************************************************)
EXTENDS AccountFigures

CONSTANTS
    Declined,        \* what stands for a block whose read refused
    Payloads,       \* the payloads, functions of Names
    Names,
    Ids,            \* the accounts a link or an address names
    TODAY,          \* the browser's day
    MaxMoves,       \* bound on the payloads the server goes through
    MaxFailures     \* bound on the reads that fail

VARIABLES
    served,         \* the payload the server holds
    accounts, positions, ledger, runtime,   \* the reads: their data and their error
    histories,      \* the reads of the curves, one for each account
    answered,       \* is the currency answered, None while the settings are unread
    account,        \* the account in the address, None without one
    moves, failed   \* bounded counters

vars == <<served, accounts, positions, ledger, runtime, histories, answered, account, moves, failed>>

-----------------------------------------------------------------------------
(* What the page computes from its reads. *)
Unread == [data |-> None, error |-> FALSE]
Answer(read) == Payloads[read.data]
Unreadable(read) == read.error /\ read.data = None

declared == IF accounts.data = None THEN <<>> ELSE Answer(accounts).accounts
rows == buildAccountRows(declared)
OpenedAmong(own) == chooseAccount(own, account)
opened == OpenedAmong(rows)

events == IF ledger.data = None THEN None ELSE Answer(ledger).events
observed == IF runtime.data = None THEN None ELSE Answer(runtime).runtime
offer ==
    reassignmentOf(IF accounts.data = None THEN None ELSE Answer(accounts),
                   IF events = None THEN 0 ELSE Unassigned(events))

(* Nothing declared and nothing recorded: unknown until the ledger is read, *)
(* and a refused ledger is said by the detail.                             *)
untouched ==
    IF \E a \in ToSet(declared) : ~isSeededOnly(a) THEN FALSE
    ELSE IF events # None THEN events = <<>>
    ELSE IF ledger.error THEN FALSE ELSE None

screen ==
    IF answered = FALSE THEN "noCurrency"
    ELSE IF Unreadable(accounts) THEN "unreadable"
    ELSE IF accounts.data = None THEN "nothing"
    ELSE IF opened = None THEN "empty"
    ELSE IF untouched = None THEN "nothing"
    ELSE IF untouched THEN "empty" ELSE "detail"

(* The bar: an amount for each row of today, the shares of them all or none. *)
Readings(own) == [i \in DOMAIN own |-> accountReading(own[i], observed, TODAY)]
Shares(readings, weights) ==
    [i \in DOMAIN weights |-> IF \A j \in DOMAIN readings : readings[j] = "valued" THEN weights[i] ELSE None]
Chips(own, readings, shares) ==
    [i \in DOMAIN own |->
        [id |-> own[i].id, share |-> shares[i],
         worth |-> IF readings[i] = "valued" THEN accountWorth(own[i]) ELSE None]]
ChipsOf(own, readings) == Chips(own, readings, Shares(readings, accountWeights(own)))
AccountsBar(own) == ChipsOf(own, Readings(own))

-----------------------------------------------------------------------------
(* The detail of an account.  A block whose read is in flight is None, one  *)
(* whose read refused says so.                                              *)
held(row) == IF positions.data = None THEN None ELSE accountPositions(Answer(positions).positions, row.id)
points(id) == IF histories[id].data = None THEN None ELSE Answer(histories[id]).points[id]

Block(read, block) == IF read.data # None THEN block ELSE IF read.error THEN Declined ELSE None

(* An account with nothing in it is claimed empty once its positions are read. *)
Rebuilding == IF observed = None THEN None ELSE observed.rebuilding
Bare(row, own) == degradedReason(row, Rebuilding) = "empty" /\ own = <<>>

Hero(row, own, reading) ==
    [bare |-> own # None /\ Bare(row, own), reason |-> degradedReason(row, Rebuilding),
     value |-> IF reading = "valued" THEN row.total ELSE None,
     cash |-> IF reading = "valued" THEN row.cash ELSE None,
     unpriced |-> IF reading = "partial" /\ own # None THEN UnpricedNames(own) ELSE <<>>]

(* The fees are left out at zero alone, and with a row that is not of today. *)
Fees(row, reading) ==
    IF reading # "valued" \/ row.fees = 0 THEN None
    ELSE [amount |-> row.fees, ratio |-> onContributed(row.fees, row.contributed)]
FiguresRow(row, own, reading) ==
    [dividends |-> termAmount([securityTerms(own) EXCEPT !.transferFees = row.fees], "dividends"),
     ratio |-> IF reading # "valued" THEN None
               ELSE onContributed(securityTerms(own).dividends, row.contributed),
     fees |-> Fees(row, reading),
     tax |-> IF reading = "valued" THEN row.tax ELSE None]

(* The lines that are held, with the share each is of what they are worth. *)
Line(row, whole) ==
    [symbol |-> row.symbol, value |-> marketValue(row), unrealised |-> unrealised(row),
     share |-> IF marketValue(row) = None \/ whole <= 0 THEN None ELSE Ratio(marketValue(row), whole),
     weight |-> weightRendering(row, whole)]
LinesOf(lines, whole) == [i \in DOMAIN lines |-> Line(lines[i], whole)]
LinesAmong(lines) == LinesOf(lines, placedValue(lines))
Holdings(own) ==
    LinesAmong(heldRows(buildShareRows(own, <<>>), [column |-> "value", direction |-> "desc"]))

DetailOf(row, own, reading) ==
    [head |-> Hero(row, own, reading),
     curve |-> Block(histories[row.id], IF points(row.id) = None THEN None ELSE valueSeries(points(row.id))),
     figures |-> IF own # None /\ Bare(row, own) THEN None
                 ELSE Block(positions, IF own = None THEN None ELSE FiguresRow(row, own, reading)),
     lines |-> IF own = None THEN None ELSE Holdings(own),
     link |-> IF own = None THEN 0 ELSE distinctSymbols(own),
     payers |-> IF own = None THEN None ELSE dividendPayers(own),
     last |-> Block(ledger, IF events = None THEN None ELSE accountEvents(events, row.id)),
     reassignment |-> IF isDefaultAccount(row.id) THEN offer ELSE NO_OFFER]
AccountDetail(row) == DetailOf(row, held(row), accountReading(row, observed, TODAY))

Init ==
    /\ served \in Names
    /\ accounts = Unread /\ positions = Unread /\ ledger = Unread /\ runtime = Unread
    /\ histories = [id \in Ids |-> Unread]
    /\ answered = None /\ account = None
    /\ moves = 0 /\ failed = 0

-----------------------------------------------------------------------------
(* The reads. *)
ServerMoves ==
    /\ moves < MaxMoves
    /\ moves' = moves + 1
    /\ served' \in Names \ {served}
    /\ UNCHANGED <<accounts, positions, ledger, runtime, histories, answered, account, failed>>

Lands(read) ==
    \/ read' = [data |-> served, error |-> FALSE] /\ UNCHANGED failed
    \/ /\ failed < MaxFailures
       /\ failed' = failed + 1
       /\ read' = [read EXCEPT !.error = TRUE]

(* An address that names no account is rewritten to the one that is shown. *)
Rewritten(asked, shown) == IF asked = None \/ shown = None THEN asked ELSE shown.id
AddressFollows(asked) ==
    account' = IF accounts'.data = None THEN asked
               ELSE Rewritten(asked, chooseAccount(Payloads[accounts'.data].accounts, asked))

AccountsLand ==
    /\ Lands(accounts)
    /\ AddressFollows(account)
    /\ UNCHANGED <<served, moves, positions, ledger, runtime, histories, answered>>

OtherReadLands ==
    /\ \/ Lands(positions) /\ UNCHANGED <<ledger, runtime, histories>>
       \/ Lands(ledger) /\ UNCHANGED <<positions, runtime, histories>>
       \/ Lands(runtime) /\ UNCHANGED <<positions, ledger, histories>>
    /\ UNCHANGED <<served, moves, accounts, answered, account>>

(* One read of a curve for the account that is open, kept under its name.  *)
HistoryLands ==
    /\ opened # None
    /\ histories' = [histories EXCEPT ![opened.id] = [data |-> served, error |-> FALSE]]
    /\ UNCHANGED <<served, moves, accounts, positions, ledger, runtime, answered, account, failed>>

SettingsLand ==
    /\ answered' = Payloads[served].answered
    /\ UNCHANGED <<served, moves, accounts, positions, ledger, runtime, histories, account, failed>>

-----------------------------------------------------------------------------
(* The gestures.  A chip, the offer of the bar or a link of another page    *)
(* goes to an account; the address may name one that is gone.              *)
Go(to) ==
    /\ to # account
    /\ UNCHANGED <<served, moves, accounts, positions, ledger, runtime, histories, answered, failed>>
    /\ AddressFollows(to)

Next ==
    \/ ServerMoves \/ AccountsLand \/ OtherReadLands \/ HistoryLands \/ SettingsLand
    \/ \E to \in Ids \cup {None} : Go(to)

Spec == Init /\ [][Next]_vars

-----------------------------------------------------------------------------
(* The address names the account that is shown (AccountsPage.tsx, #1409).  *)
AddressNamesShown == account # None /\ opened # None => account = opened.id

(* The shares of the bar are those of one whole, all of them or none, and   *)
(* the allocation of the dashboard divides the same (accounts.ts).          *)
BarIsOneWhole(own, chips) ==
    LET shown == SelectSeq(chips, LAMBDA c : c.share # None)
    IN shown # <<>> =>
          /\ \A i \in DOMAIN own : own[i].as_of = None \/ accountReading(own[i], observed, TODAY) = "valued"
          /\ Sum([i \in DOMAIN shown |-> shown[i].share[1]]) = shown[1].share[2]
          /\ \A c \in ToSet(shown) : c.share[1] = c.worth /\ c.share[1] \in 0..c.share[2]
          /\ accountAllocation(own).total = shown[1].share[2]

(* The payers close the dividends of the figures above them, and the lines  *)
(* divide what they are worth: a weight is a figure where there is a share, *)
(* and only there (AccountDetail.tsx, dividendPayers, weightRendering).      *)
DetailAgrees(detail) ==
    /\ detail.figures \notin {None, Declined} =>
           Sum(Column(detail.payers, "amount")) = detail.figures.dividends
    /\ detail.lines # None =>
           /\ Len(detail.lines) <= detail.link
           /\ \A line \in ToSet(detail.lines) : (line.weight = "figure") = (line.share # None)
           /\ \A line \in ToSet(detail.lines) : line.share # None =>
                  Sum(Known(Column(detail.lines, "value"))) = line.share[2]

(* No event of the account that is left out is later than one that is shown. *)
LastAreTheLatest(last, own) ==
    /\ Len(last) = (IF Len(own) < LAST_EVENTS THEN Len(own) ELSE LAST_EVENTS)
    /\ \A i \in DOMAIN last : ~\E e \in ToSet(own) \ ToSet(last) : Later(e.date, last[i].date)
    /\ \A i, j \in DOMAIN last : i < j => ~Later(last[j].date, last[i].date)

AccountPageHolds ==
    screen = "detail" =>
        /\ AddressNamesShown
        /\ \A own \in {rows} : BarIsOneWhole(own, AccountsBar(own))
        /\ \A detail \in {AccountDetail(opened)} :
               /\ DetailAgrees(detail)
               /\ detail.last \notin {None, Declined} =>
                      LastAreTheLatest(detail.last,
                                       SelectSeq(events, LAMBDA e : accountOf(e) = opened.id))
=============================================================================

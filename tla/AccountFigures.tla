--------------------------- MODULE AccountFigures ---------------------------
(***************************************************************************)
(* The arithmetic of the accounts page (features/accounts/lib/accounts.ts, *)
(* and of lib/dashboard.ts what it reads): the rows, what an account is    *)
(* worth and weighs, whether its row is a value of today, the account the  *)
(* address chooses, its positions, payers, curve and last events, what may *)
(* be removed and what may be reassigned.                                  *)
(*                                                                         *)
(* The members of a row are written together or not at all: the money is   *)
(* None without a cash ledger, the day is None where no pass wrote it.     *)
(***************************************************************************)
EXTENDS ShareFigures

CONSTANTS DEFAULT_ACCOUNT_ID, LAST_EVENTS

Ratio(part, whole) == <<part, whole>>
isDefaultAccount(id) == id = DEFAULT_ACCOUNT_ID
accountOf(event) == IF event.account = None THEN DEFAULT_ACCOUNT_ID ELSE event.account

(* The label of the seeded row is None until somebody names it; another    *)
(* account without one wears its id.                                       *)
declaredLabel(account) ==
    IF account.label # None \/ isDefaultAccount(account.id) THEN account.label ELSE account.id
isSeededOnly(account) == isDefaultAccount(account.id) /\ declaredLabel(account) = None

-----------------------------------------------------------------------------
(* The rows.  Without a total there is no cash to state either: a balance  *)
(* with no transfer recorded is what was invested, with a minus sign.      *)
buildAccountRows(accounts) ==
    [i \in DOMAIN accounts |->
        [accounts[i] EXCEPT !.cash = IF accounts[i].total = None THEN None ELSE @]]

degradedReason(row, rebuilding) ==
    IF row.as_of = None THEN IF rebuilding = FALSE THEN "empty" ELSE "rebuilding"
    ELSE IF row.total = None THEN "withoutCashLedger" ELSE None

onContributed(amount, contributed) ==
    IF amount = None \/ contributed = None \/ contributed <= 0 THEN None
    ELSE Ratio(amount, contributed)

accountWorth(row) == IF row.total # None THEN row.total ELSE row.holdings

(* A share of a whole is of non-negative parts, and a whole of nothing has none. *)
Whole(rows) ==
    Sum(SelectSeq(Known([i \in DOMAIN rows |-> accountWorth(rows[i])]), LAMBDA worth : worth > 0))
WeightOver(worth, whole) ==
    IF worth = None \/ worth < 0 \/ whole <= 0 THEN None ELSE Ratio(worth, whole)
accountWeights(rows) ==
    [i \in DOMAIN rows |-> WeightOver(accountWorth(rows[i]), Whole(rows))]

WeightedRows(rows, weights) ==
    [i \in DOMAIN rows |-> IF weights[i] = None THEN None ELSE Slice([symbol |-> rows[i].id], accountWorth(rows[i]))]
accountAllocation(rows) == Split(foldSlices(Known(WeightedRows(rows, accountWeights(rows)))), <<>>)

(* Is a row of today?  The day is the server's, the browser's own until it *)
(* has answered, and a row no pass wrote is not in question.               *)
heroReading(day, runtime, now) ==
    IF day >= (IF runtime = None THEN now ELSE runtime.now) THEN "valued"
    ELSE IF runtime = None THEN "pending"
    ELSE IF runtime.rebuilding THEN "partial" ELSE "valued"
accountReading(row, runtime, now) ==
    IF row.as_of = None THEN "valued" ELSE heroReading(row.as_of, runtime, now)

(* The account the address names, the first declared where it names none;  *)
(* an id is of one account.                                                *)
chooseAccount(rows, requested) ==
    LET named == {i \in DOMAIN rows : rows[i].id = requested}
    IN IF named # {} THEN rows[CHOOSE i \in named : TRUE] ELSE FirstOr(rows, None)

-----------------------------------------------------------------------------
(* What the detail lists. *)
accountPositions(positions, account) == SelectSeq(positions, LAMBDA p : p.account = account)
distinctSymbols(positions) == Cardinality(ToSet(Column(positions, "symbol")))

(* The newest first, those of one day as the store gave them, those without one last. *)
Later(date, other) == date # None /\ (other = None \/ date > other)
Undisturbed(events, i) ==
    Cardinality({j \in DOMAIN events :
        Later(events[j].date, events[i].date) \/ (events[j].date = events[i].date /\ j < i)})
byDateDescending(events) ==
    [rank \in DOMAIN events |->
        events[CHOOSE i \in DOMAIN events : Undisturbed(events, i) = rank - 1]]
FirstOf(events) == SubSeq(events, 1, IF Len(events) < LAST_EVENTS THEN Len(events) ELSE LAST_EVENTS)
accountEvents(events, account) ==
    FirstOf(byDateDescending(SelectSeq(events, LAMBDA e : accountOf(e) = account)))

(* Each security that paid, sold out or not, and what it paid.             *)
Payer(symbol, paid) ==
    [symbol |-> symbol, name |-> FirstKnown(Column(paid, "name")),
     closed |-> \A i \in DOMAIN paid : paid[i].quantity = 0,
     amount |-> Sum(Column(paid, "dividends"))]
PayersOf(paid, symbols) ==
    [i \in DOMAIN symbols |-> Payer(symbols[i], SelectSeq(paid, LAMBDA p : p.symbol = symbols[i]))]
Ordered(payers) ==
    SortSeq(payers, LAMBDA a, b :
        IF a.amount = b.amount THEN a.symbol < b.symbol ELSE a.amount > b.amount)
Paid(paid) == Ordered(PayersOf(paid, Distinct(Column(paid, "symbol"))))
dividendPayers(positions) == Paid(SelectSeq(positions, LAMBDA p : p.dividends > 0))

(* The days with a value, and what was paid in by then.                    *)
valueSeries(points) == SelectSeq(points, LAMBDA p : p.t # None /\ p.value # None)

(* The held lines a rebuild or a rate is waited for, by the name they wear. *)
NameOf(position) == IF position.name # None THEN position.name ELSE position.symbol
unpricedLines(positions) ==
    SortSeq(Distinct([i \in DOMAIN positions |-> NameOf(positions[i])]), <)
UnpricedNames(positions) ==
    unpricedLines(SelectSeq(positions, LAMBDA p : CaseOf(p) \in {"rebuilding", "awaitingRate"}))

-----------------------------------------------------------------------------
(* The declaration: what stands against a removal, and what is offered for  *)
(* the events nobody assigned.  An answer lists the accounts and says       *)
(* whether any was declared.                                               *)
removalOf(account, events) ==
    IF isDefaultAccount(account.id) THEN "seeded"
    ELSE IF events > 0 THEN "namedByEvents" ELSE "offered"

Unassigned(events) == Len(SelectSeq(events, LAMBDA e : isDefaultAccount(accountOf(e))))
Offer(kind, count, targets) == [kind |-> kind, count |-> count, targets |-> targets]
NO_OFFER == Offer("none", 0, <<>>)
Standing(count, targets) == IF targets = <<>> THEN NO_OFFER ELSE Offer("standing", count, targets)

reassignmentOf(payload, count) ==
    IF payload = None \/ count = 0 THEN NO_OFFER
    ELSE IF \E a \in ToSet(payload.accounts) : isDefaultAccount(a.id) /\ ~isSeededOnly(a) THEN NO_OFFER
    ELSE IF ~payload.declared THEN Offer("firstDeclaration", count, <<>>)
    ELSE Standing(count, SelectSeq(Column(payload.accounts, "id"), LAMBDA id : ~isDefaultAccount(id)))
=============================================================================

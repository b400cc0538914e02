----------------------------- MODULE EventForm -----------------------------
(***************************************************************************)
(* The form of an event (features/data/components/EventForm.tsx): a type   *)
(* first, then the fields of that type; a price suggested for a grant; a   *)
(* ticker that the ledger names, that the reader picked, or confirmed.     *)
(*                                                                         *)
(* What is typed is kept as typed, parsed on submit.  A request in flight  *)
(* outlives the sheet: its callbacks run on whatever row is open then.     *)
(***************************************************************************)
EXTENDS LedgerRules

CONSTANTS
    Shut,         \* the sheet is closed
    Empty,        \* a field of figures, or the day, with nothing in it
    Unpriced,   \* the price has been asked for and not answered
    Stored,       \* the rows the sheet can be opened on
    Titles,       \* the titles the ledger names
    Lines(_),     \* what Yahoo answers about a text
    Tickers,      \* what a reader types as a ticker
    Typed,        \* what a reader types, by field
    CloseOf(_, _), \* symbol and day -> the known close, None if there is none
    AccountStates, \* the states the account field reaches, five in the code
    MaxWrites     \* bound: requests in flight

VARIABLES
    row,        \* the row the sheet is open on, None for a new one, or Shut
    type,       \* the type chosen, None until it is
    draft,      \* what was typed, by field
    errors,     \* what is said of a field, None where nothing is
    offered,    \* what the suggestion last put in the price
    suggested,  \* the suggestion the last render saw: Unpriced, None, a close
    prices,     \* the closes answered, by question; absent until they are
    titles,     \* the ledger's titles, None until it answered
    asked,      \* what the ticker held when the reader last paused
    picked,     \* the Yahoo line picked
    confirmed,  \* the free ticker the reader agreed to
    choice,     \* the state of the account field
    writes,     \* requests in flight
    writeError  \* the refusal the form reads

vars == <<row, type, draft, errors, offered, suggested, prices, titles, asked,
          picked, confirmed, choice, writes, writeError>>

Fields == {"date", "account", "symbol", "quantity", "unitPrice", "fee", "amount"}
EMPTY == [f \in Fields |-> IF f \in {"account", "symbol"} THEN Blank ELSE Empty]
NoErrors == [f \in Fields |-> None]

Text(value) == IF value = None THEN Empty ELSE value

draftOf(e) ==
    [date |-> Text(e.date), account |-> accountOf(e), symbol |-> IF e.symbol = None THEN Blank ELSE e.symbol,
     quantity |-> Text(e.quantity), unitPrice |-> Text(e.unit_price),
     fee |-> Text(e.fee), amount |-> Text(e.amount)]

read(d, field, present) == IF present /\ d[field] # Empty THEN parseDecimal(d[field]) ELSE None

-----------------------------------------------------------------------------
(* The suggestion of a grant's price *)

(* The question: a ticker and a day, asked of a grant only.                *)
Question(ty, d) ==
    IF /\ ty # None /\ FIELDS(ty).unitPrice = "optional"
       /\ d.symbol # Blank /\ d.date # Empty /\ parseDay(d.date) # None
    THEN <<d.symbol, d.date>> ELSE None

(* A mutant: a figure the reader typed is replaced too.                    *)
OfferOver(d, close, put) == [d EXCEPT !.unitPrice = Text(close)]

(* What the suggestion put there is its own to replace, no other figure.   *)
Replaceable(d, put) == d.unitPrice \in {Empty, put}
Offer(d, close, put) ==
    IF Replaceable(d, put) THEN [d EXCEPT !.unitPrice = Text(close)] ELSE d

(* The answers once a question is asked: it waits for its own.             *)
Asks(question, answers) ==
    IF question = None THEN answers
    ELSE [q \in DOMAIN answers \cup {question} |->
              IF q \in DOMAIN answers THEN answers[q] ELSE Unpriced]

(* A render over the next type, draft and answers, put being what the      *)
(* suggestion last put there: the price is asked for, and offered when the *)
(* suggestion moved and is known.                                          *)
Renders(ty, d, answers, put) ==
    LET question == Question(ty, d)
        known == Asks(question, answers)
        next == IF question = None THEN Unpriced ELSE known[question]
        offers == next # suggested /\ next # Unpriced
    IN /\ suggested' = next /\ prices' = known
       /\ type' = ty
       /\ draft' = IF offers THEN Offer(d, next, put) ELSE d
       /\ offered' = IF offers /\ Replaceable(d, put) THEN Text(next) ELSE put

suggesting == suggested \notin {Unpriced, None} /\ draft.unitPrice = suggested

-----------------------------------------------------------------------------
(* The ticker *)

typed == draft.symbol

searching ==
    /\ row # Shut /\ type # None /\ FIELDS(type).security
    /\ titles # None /\ Len(typed) >= 2 /\ Len(asked) >= 2

ledgerNames(symbol) ==
    titles # None /\ \E t \in titles : fold(t.symbol) = fold(symbol)

(* The line of the ledger the save folds the ticker into.                  *)
collision ==
    IF typed = Blank \/ titles = None THEN {}
    ELSE {t.symbol : t \in {x \in titles : x.symbol # typed /\ fold(x.symbol) = fold(typed)}}

yahooLines == IF searching THEN {l \in Lines(asked) : ~ledgerNames(l.symbol)} ELSE {}
suggestions == IF titles = None THEN {} ELSE UNION Range(titlesFor(titles, typed))

(* "Use what was typed", the line of last resort.                          *)
creating == titles # None /\ typed # Blank /\ suggestions = {} /\ yahooLines = {}

Picked == picked # None /\ picked.symbol = typed

(* A ticker nobody has confirmed.                                          *)
free ==
    /\ FIELDS(type).security /\ typed # Blank /\ titles # None
    /\ ~ledgerNames(typed) /\ ~Picked

gated == free /\ (errors.symbol = "unknown" \/ confirmed = typed)
didYouMean ==
    IF titles = None THEN {} ELSE {t \in titles : startsWithQuery(typed, {t.symbol})}

(* The cash the event will move, on every render.                          *)
cash ==
    IF type = None THEN None
    ELSE LET has == FIELDS(type) IN
         cashFlow([event_type |-> type,
                   quantity |-> read(draft, "quantity", has.quantity),
                   unit_price |-> read(draft, "unitPrice", has.unitPrice # "none"),
                   fee |-> read(draft, "fee", has.fee),
                   amount |-> read(draft, "amount", has.amount)])

blocked == choice \in {"pending", "failed"}
pending == \E w \in writes : w.read
Unread == {[w EXCEPT !.read = FALSE] : w \in writes}

-----------------------------------------------------------------------------
(* What the reader does *)

keepReads == UNCHANGED <<titles, choice>>
keepWrites == UNCHANGED <<writes, writeError>>

(* Every way in forgets the gesture before it.                             *)
Open(e) ==
    /\ row = Shut /\ row' = e
    /\ errors' = NoErrors
    /\ writes' = Unread /\ writeError' = FALSE
    /\ IF e = None THEN Renders(None, EMPTY, prices, Empty)
       ELSE Renders(e.event_type, draftOf(e), prices, Empty)
    /\ picked' = None /\ confirmed' = None
    /\ UNCHANGED asked /\ keepReads

setType(candidate) ==
    /\ row # Shut /\ candidate # type
    /\ Renders(candidate, draft, prices, offered)
    /\ UNCHANGED <<row, errors, asked, picked, confirmed>> /\ keepReads /\ keepWrites

set(field, value) ==
    /\ Renders(type, [draft EXCEPT ![field] = value], prices, offered)
    /\ errors' = [errors EXCEPT ![field] = None]

Drawn(field) ==
    /\ row # Shut /\ type # None
    /\ LET has == FIELDS(type) IN
       /\ field = "symbol" => has.security
       /\ field = "quantity" => has.quantity
       /\ field = "unitPrice" => has.unitPrice # "none"
       /\ field = "fee" => has.fee
       /\ field = "amount" => has.amount
       /\ field = "account" => choice = "choose"

Type(field, value) ==
    /\ Drawn(field) /\ value # draft[field]
    /\ set(field, value)
    /\ UNCHANGED <<row, asked, picked, confirmed>> /\ keepReads /\ keepWrites

(* Typing a ticker, or choosing a line of the list, forgets what was said  *)
(* of the one before.                                                      *)
TypeTicker(symbol) ==
    /\ Drawn("symbol") /\ symbol # typed
    /\ set("symbol", symbol)
    /\ confirmed' = None /\ picked' = None
    /\ UNCHANGED <<row, asked>> /\ keepReads /\ keepWrites

Choose(line) ==
    /\ Drawn("symbol") /\ ~creating
    /\ line \in suggestions \cup yahooLines
    /\ set("symbol", line.symbol)
    /\ confirmed' = None
    /\ picked' = IF line \in yahooLines THEN line ELSE None
    /\ UNCHANGED <<row, asked>> /\ keepReads /\ keepWrites

TakeMeant ==
    /\ Drawn("symbol") /\ gated /\ errors.symbol = "unknown"
    /\ \E t \in didYouMean : set("symbol", t.symbol)
    /\ picked' = None /\ confirmed' = None
    /\ UNCHANGED <<row, asked>> /\ keepReads /\ keepWrites

Confirm ==
    /\ Drawn("symbol") /\ gated
    /\ confirmed' = IF confirmed = typed THEN None ELSE typed
    /\ errors' = [errors EXCEPT !.symbol = IF confirmed = typed THEN "unknown" ELSE None]
    /\ UNCHANGED <<row, type, draft, offered, suggested, prices, asked, picked>>
    /\ keepReads /\ keepWrites

Pause ==
    /\ row # Shut /\ asked # typed /\ asked' = typed
    /\ UNCHANGED <<row, type, draft, errors, offered, suggested, prices, picked, confirmed>>
    /\ keepReads /\ keepWrites

(* One field, required or optional, or one this type does not have.        *)
number(field, required, present) ==
    IF ~present THEN None
    ELSE IF draft[field] = Empty THEN (IF required THEN "required" ELSE None)
    ELSE IF parseDecimal(draft[field]) = None THEN "invalid" ELSE None

NotPositive(field, present) ==
    LET value == read(draft, field, present) IN value # None /\ value <= 0

AccountError ==
    CASE choice \in {"pending", "failed"} -> choice
      [] choice = "choose" /\ draft.account = Blank -> "required"
      [] OTHER -> None

SymbolError ==
    IF FIELDS(type).security /\ typed = Blank THEN "required"
    ELSE IF free /\ confirmed # typed THEN "unknown" ELSE None

FeeError ==
    LET fee == read(draft, "fee", FIELDS(type).fee)
        amount == read(draft, "amount", FIELDS(type).amount) IN
    IF number("fee", FALSE, FIELDS(type).fee) # None THEN "invalid"
    ELSE IF fee # None /\ fee < 0 THEN "negative"
    ELSE IF type = "DIVIDEND" /\ fee # None /\ amount # None /\ amount > 0 /\ fee > amount
         THEN "overAmount" ELSE None

(* What is found on the fields.                                            *)
Figure(field, required, present, above) ==
    LET said == number(field, required, present) IN
    IF said = None /\ above /\ NotPositive(field, present) THEN "positive" ELSE said

found ==
    LET has == FIELDS(type) IN
    [date |-> IF draft.date = Empty THEN "unreadable"
              ELSE IF parseDay(draft.date) = None THEN "unreadable" ELSE None,
     account |-> AccountError,
     symbol |-> SymbolError,
     quantity |-> Figure("quantity", TRUE, has.quantity, TRUE),
     unitPrice |-> Figure("unitPrice", has.unitPrice = "required",
                          has.unitPrice # "none", has.unitPrice = "required"),
     fee |-> FeeError,
     amount |-> Figure("amount", TRUE, has.amount, TRUE)]

(* A mutant: the row's name is kept whatever its ticker has become.        *)
nameSentKept ==
    IF ~FIELDS(type).security THEN None
    ELSE IF Picked THEN picked.name
    ELSE IF row # None THEN row.name ELSE None

(* The name sent: of the line picked, else of the row while its ticker is. *)
nameSent ==
    IF ~FIELDS(type).security THEN None
    ELSE IF Picked THEN picked.name
    ELSE IF row # None /\ row.symbol # None /\ fold(row.symbol) = fold(typed) THEN row.name
    ELSE None

body ==
    LET has == FIELDS(type) IN
    [date |-> draft.date, event_type |-> type,
     account |-> IF choice = "unassigned" THEN Blank
                 ELSE IF choice = "single" THEN Default ELSE draft.account,
     symbol |-> IF has.security THEN typed ELSE None,
     name |-> nameSent,
     quantity |-> read(draft, "quantity", has.quantity),
     unit_price |-> read(draft, "unitPrice", has.unitPrice # "none"),
     fee |-> read(draft, "fee", has.fee),
     amount |-> read(draft, "amount", has.amount)]

(* Sent, unless something is found on a field.                             *)
submit ==
    /\ row # Shut /\ type # None /\ ~pending /\ ~blocked
    /\ errors' = found
    /\ IF found # NoErrors
       THEN keepWrites
       ELSE /\ Cardinality(writes) < MaxWrites
            /\ writes' = Unread \cup {[row |-> row, body |-> body, read |-> TRUE]}
            /\ writeError' = FALSE
    /\ UNCHANGED <<row, type, draft, offered, suggested, prices, asked, picked, confirmed>>
    /\ keepReads

close ==
    /\ row # Shut
    /\ row' = Shut
    /\ writes' = Unread /\ writeError' = FALSE
    /\ UNCHANGED <<type, draft, errors, offered, suggested, prices, asked, picked, confirmed>>
    /\ keepReads

-----------------------------------------------------------------------------
(* What is answered *)

PriceAnswered ==
    \E question \in DOMAIN prices :
        /\ prices[question] = Unpriced
        /\ Renders(type, draft, [prices EXCEPT ![question] = CloseOf(question[1], question[2])],
                   offered)
        /\ UNCHANGED <<row, errors, asked, picked, confirmed>> /\ keepReads /\ keepWrites

TitlesRead ==
    /\ titles = None /\ titles' = Titles
    /\ UNCHANGED <<row, type, draft, errors, offered, suggested, prices, asked, picked,
                   confirmed, choice, writes, writeError>>

AccountsRead ==
    /\ choice \in {"pending", "failed"}
    /\ choice' \in AccountStates \ {"pending", choice}
    /\ UNCHANGED <<row, type, draft, errors, offered, suggested, prices, asked, picked,
                   confirmed, titles, writes, writeError>>

WriteLands ==
    \E w \in writes :
        /\ writes' = writes \ {w} /\ row' = Shut
        /\ UNCHANGED <<type, draft, errors, offered, suggested, prices, asked, picked,
                       confirmed, titles, choice, writeError>>

(* A refusal names a field of the form, or none.                           *)
WriteRefused ==
    \E w \in writes, field \in {"symbol", None} :
        /\ writes' = writes \ {w}
        /\ errors' = IF field = None THEN errors
                     ELSE [NoErrors EXCEPT ![field] = "refused"]
        /\ writeError' = (w.read \/ writeError)
        /\ UNCHANGED <<row, type, draft, offered, suggested, prices, asked, picked, confirmed,
                       titles, choice>>

Init ==
    /\ row = Shut /\ type = None /\ draft = EMPTY /\ errors = NoErrors
    /\ offered = Empty /\ suggested = Unpriced /\ prices = <<>>
    /\ titles = None /\ asked = Blank /\ picked = None /\ confirmed = None
    /\ choice = "pending" /\ writes = {} /\ writeError = FALSE

Next ==
    \/ \E e \in Stored \cup {None} : Open(e)
    \/ \E candidate \in EventTypes : setType(candidate)
    \/ \E field \in Fields \ {"symbol"} : \E value \in Typed[field] : Type(field, value)
    \/ \E symbol \in Tickers : TypeTicker(symbol)
    \/ \E line \in suggestions \cup yahooLines : Choose(line)
    \/ TakeMeant
    \/ Confirm
    \/ Pause
    \/ submit
    \/ close
    \/ PriceAnswered
    \/ TitlesRead
    \/ AccountsRead
    \/ WriteLands
    \/ WriteRefused

Spec == Init /\ [][Next]_vars

-----------------------------------------------------------------------------
(* What must hold *)

TypeOK ==
    /\ type \in EventTypes \cup {None}
    /\ DOMAIN draft = Fields /\ DOMAIN errors = Fields
    /\ choice \in AccountStates
    /\ Cardinality(writes) <= MaxWrites

Sends(P(_)) == \A w \in writes' \ writes : w.read => P(w.body)

(* A request holds the fields of its type and no other: what was typed     *)
(* before the type was changed never travels.                              *)
FitsItsType(b) ==
    LET has == FIELDS(b.event_type) IN
    /\ (b.symbol # None) = has.security
    /\ (b.quantity # None) = has.quantity
    /\ has.unitPrice = "required" => b.unit_price # None
    /\ has.unitPrice = "none" => b.unit_price = None
    /\ b.fee # None => has.fee
    /\ (b.amount # None) = has.amount
SentIsOfItsType == [][Sends(FitsItsType)]_vars

(* A free ticker is stopped until it is confirmed: what is sent is named   *)
(* by the ledger read, picked among Yahoo's lines, or agreed to.           *)
Agreed(b) ==
    b.symbol # None /\ titles # None =>
        \/ \E t \in titles : fold(t.symbol) = fold(b.symbol)
        \/ confirmed = b.symbol
        \/ picked # None /\ picked.symbol = b.symbol
FreeTickerIsConfirmed == [][Sends(Agreed)]_vars

(* The name that travels is the ticker's: of the line picked under that    *)
(* ticker, or of the row that had it.                                      *)
NamesItsTicker(b) ==
    b.name # None =>
        \/ \E e \in Stored : e.name = b.name /\ fold(e.symbol) = fold(b.symbol)
        \/ \E text \in Tickers : [symbol |-> b.symbol, name |-> b.name] \in Lines(text)
NameIsOfItsTicker == [][Sends(NamesItsTicker)]_vars

(* The sentence of the cash is of the event that is sent, to the cent.     *)
SaidBefore(b) == cash = cashFlow(b)
CashIsBooked == [][Sends(SaidBefore)]_vars

(* A figure the reader typed is never replaced by a suggestion.            *)
TypedPriceIsKept ==
    [][\A price \in Typed["unitPrice"] :
           draft.unitPrice = price /\ row' = row /\ prices' # prices => draft'.unitPrice = price]_vars

(* A purchase's price is the reader's: no close stands in for it.          *)
TypedByHand(b) == b.event_type \in Trades => b.unit_price \in Typed["unitPrice"]
PurchasePriceIsTyped == [][Sends(TypedByHand)]_vars
=============================================================================

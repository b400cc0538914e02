--------------------------- MODULE MCDataScreens ---------------------------
(***************************************************************************)
(* The screens of the data page: the ledger in four instances, two rows    *)
(* under a reduction and under removals, one row under the date fields and *)
(* under the form with a removal; the form in three, over a price, over a  *)
(* ticker and over a fee; the import window in five, over one file of two, *)
(* over the two at once, over one written twice, over a proposal and from  *)
(* one proposal to another; and the shares page, its table and its sheet.  *)
(* A behaviour is about the one chosen at the start.                       *)
(***************************************************************************)
EXTENDS Integers, Sequences, FiniteSets, TLC

CONSTANTS None, Shut, Creating, Empty, Unpriced, n1, g1, Surfaces, MaxFlights

VARIABLES
    surface,
    store, born, freed, events, address, arming, focus, filters, budget,
    rowSelection, editing, removing, bulk, removals, refusals, tickedByHand, asks,
    row, type, draft, errors, offered, suggested, prices, titles, asked, picked,
    confirmed, choice, writes, writeError,
    held, answer, standing, previews, previewError, writings, written, failedWrite, imports,
    id, given, edits, reading, reads, readError, merges, mergeError, fates,
    window, declared, base, dismissed,
    served, positions, runtime, answered, onlyAnomalies, order, grouped, reducedTo, opened, span,
    selectedDays, selectedOn, moves, unread

ledgerVars == <<store, born, freed, events, address, arming, focus, filters, budget,
    rowSelection, editing, removing, bulk, removals, refusals, tickedByHand, asks>>
formVars == <<row, type, draft, errors, offered, suggested, prices, titles, asked, picked,
    confirmed, choice, writes, writeError>>
importVars == <<held, answer, standing, previews, previewError, writings, written, failedWrite,
    imports, id, given, edits, reading, reads, readError, merges, mergeError, fates,
    window, declared, base, dismissed>>
shareVars == <<served, positions, runtime, answered, onlyAnomalies, order, grouped, reducedTo,
    opened, span, selectedDays, selectedOn, moves, unread>>

(* The ledger *)
Buy(day, notes) ==
    [date |-> day, event_type |-> "BUY", account |-> <<>>, symbol |-> <<1>>, name |-> <<2>>,
     notes |-> notes, quantity |-> 1, unit_price |-> 5, fee |-> None, amount |-> None]
Deposit(day) ==
    [date |-> day, event_type |-> "DEPOSIT", account |-> <<3>>, symbol |-> None, name |-> None,
     notes |-> <<1>>, quantity |-> None, unit_price |-> None, fee |-> 1, amount |-> 2]
NO_FILTERS ==
    [query |-> <<>>, type |-> None, account |-> None, symbols |-> None,
     since |-> None, until |-> None]

Reducing == INSTANCE LedgerPage WITH
    EventTypes <- {"BUY", "DEPOSIT"}, Ids <- {1, 2}, PAGE <- 1,
    Contents <- <<Buy(20240229, None), Deposit(20230101)>>,
    Queries <- {<<>>, <<12>>},
    Addresses <- {[NO_FILTERS EXCEPT !.type = "BUY", !.account = <<4>>]},
    Bounds <- {}, Reissue <- FALSE, MaxRows <- 2, MaxAsks <- 0, MaxRemovals <- 0

Bounding == INSTANCE LedgerPage WITH
    EventTypes <- {"BUY"}, Ids <- {1, 2}, PAGE <- 1,
    Contents <- <<Buy(20240229, None)>>,
    Queries <- {<<>>, <<12>>},
    Addresses <- {[NO_FILTERS EXCEPT !.type = "BUY", !.account = <<4>>]},
    Bounds <- {20230229}, Reissue <- FALSE, MaxRows <- 1, MaxAsks <- 0, MaxRemovals <- 0

Removing == INSTANCE LedgerPage WITH
    EventTypes <- {"BUY"}, Ids <- {1, 2}, PAGE <- 1,
    Contents <- <<Buy(None, None), Buy(None, <<3>>)>>,
    Queries <- {<<>>, <<13>>}, Addresses <- {}, Bounds <- {},
    Reissue <- FALSE, MaxRows <- 2, MaxAsks <- 0, MaxRemovals <- 1

Composing == INSTANCE LedgerPage WITH
    EventTypes <- {"BUY"}, Ids <- {1, 2}, PAGE <- 1,
    Contents <- <<Buy(None, None), Buy(None, <<3>>)>>,
    Queries <- {<<>>, <<13>>}, Addresses <- {}, Bounds <- {},
    Reissue <- FALSE, MaxRows <- 1, MaxAsks <- 1, MaxRemovals <- 1

(* The form *)
Grant == [id |-> 1, event_type |-> "GRANT", date |-> 20240229, account |-> <<4>>,
    symbol |-> <<1>>, name |-> <<2>>, notes |-> None, quantity |-> 1, unit_price |-> None,
    fee |-> None, amount |-> None]
Dividend == [Grant EXCEPT !.event_type = "DIVIDEND", !.quantity = None, !.amount = 2]
Yahoo(text) == IF text = <<1, 3>> THEN {[symbol |-> <<3>>, name |-> <<5>>]} ELSE {}
NoLines(text) == {}
Close(symbol, day) == IF symbol = <<1>> THEN 9 ELSE None
Title == [symbol |-> <<1>>, name |-> <<2>>]
Given(accounts) ==
    [date |-> {20240229}, account |-> accounts, quantity |-> {},
     unitPrice |-> {7}, fee |-> {}, amount |-> {2}]

Pricing == INSTANCE EventForm WITH
    EventTypes <- {"GRANT", "BUY"}, Stored <- {Grant}, Titles <- {Title},
    Lines <- NoLines, Tickers <- {<<1>>, <<3>>}, Typed <- Given({}),
    CloseOf <- Close, AccountStates <- {"pending", "single"}, MaxWrites <- 1

Naming == INSTANCE EventForm WITH
    EventTypes <- {"DIVIDEND", "WITHDRAWAL"}, Stored <- {Dividend}, Titles <- {Title},
    Lines <- Yahoo, Tickers <- {<<11>>, <<1, 3>>}, Typed <- Given({<<6>>}),
    CloseOf <- Close, AccountStates <- {"pending", "failed", "unassigned", "choose"},
    MaxWrites <- 1

(* A dividend that carried a fee and is made a grant, which carries none.  *)
Charging == INSTANCE EventForm WITH
    EventTypes <- {"DIVIDEND", "GRANT"}, Stored <- {[Dividend EXCEPT !.fee = 1]},
    Titles <- {Title}, Lines <- NoLines, Tickers <- {<<1>>},
    Typed <- [date |-> {}, account |-> {}, quantity |-> {1}, unitPrice |-> {}, fee |-> {1},
              amount |-> {}],
    CloseOf <- Close, AccountStates <- {"pending", "single"}, MaxWrites <- 1

(* The import window.  The first file names no account and declares its    *)
(* currency; the second names tr, has a foreign line and, once tr goes to  *)
(* the seeded account, a line of the ledger and one of the first file.     *)
Answers == INSTANCE ImportAnswers WITH
    Labels <- {"blank", "tr"}, Blank <- "blank", Default <- "default"

FilesCensus(files, correspondence) ==
    LET second == \E i \in DOMAIN files : files[i] = "f2"
        same == "tr" \in DOMAIN correspondence.mapping
                /\ correspondence.mapping["tr"] = "default"
    IN [names |-> IF second THEN {"tr"} ELSE {},
        rows |-> IF second /\ same
                 THEN {Answers!DuplicateRow(1, 1, 0), Answers!HeldRow(1)} ELSE {},
        foreign |-> IF second THEN {"usd"} ELSE {},
        adopting |-> ~second, fresh |-> IF second /\ same THEN 0 ELSE 1,
        statement |-> None]

(* The proposal is a statement with a line to name and a gap, and repeats  *)
(* a line.                                                                 *)
ProposalCensus(proposal, edited) ==
    [names |-> {}, foreign |-> {}, adopting |-> FALSE, fresh |-> 1,
     rows |-> {Answers!DuplicateRow(0, 0, 0)},
     statement |-> [unresolved |-> {n1} \ edited.symbols, gaps |-> {g1},
                    unpriced |-> {g1} \ edited.prices]]

RowsCensus(proposal, edited) == [ProposalCensus(proposal, edited) EXCEPT !.statement = None]

Importing == INSTANCE ImportPreview WITH
    Labels <- {"blank", "tr"}, Blank <- "blank", Default <- "default",
    Batches <- {<<"f1">>, <<"f2">>}, MaxWrites <- 1,
    Proposals <- {}, Lines <- {n1}, Gaps <- {g1}, MaxReads <- 0, MaxMerges <- 0,
    writeError <- failedWrite

Dropping == INSTANCE ImportPreview WITH
    Labels <- {"blank", "tr"}, Blank <- "blank", Default <- "default",
    Batches <- {<<"f1">>, <<"f2">>, <<"f1", "f2">>}, MaxWrites <- 0,
    Proposals <- {}, Lines <- {n1}, Gaps <- {g1}, MaxReads <- 0, MaxMerges <- 0,
    writeError <- failedWrite

Repeating == INSTANCE ImportPreview WITH
    Labels <- {"blank"}, Blank <- "blank", Default <- "default",
    Batches <- {<<"f1">>, <<"f1", "f1">>}, MaxWrites <- 2, MaxFlights <- 1,
    Proposals <- {}, Lines <- {n1}, Gaps <- {g1}, MaxReads <- 0, MaxMerges <- 0,
    writeError <- failedWrite

Proposing == INSTANCE ImportPreview WITH
    Labels <- {"blank", "tr"}, Blank <- "blank", Default <- "default",
    Batches <- {}, MaxWrites <- 0, MaxFlights <- 0,
    Proposals <- {"p1"}, Lines <- {n1}, Gaps <- {g1}, MaxReads <- 1, MaxMerges <- 1,
    writeError <- failedWrite

Leaving == INSTANCE ImportPreview WITH
    Labels <- {"blank"}, Blank <- "blank", Default <- "default",
    Batches <- {}, MaxWrites <- 0, MaxFlights <- 0, ProposalCensus <- RowsCensus,
    Proposals <- {"p1", "p2"}, Lines <- {}, Gaps <- {}, MaxReads <- 2, MaxMerges <- 0,
    writeError <- failedWrite

(* The shares.  A position has what the ledger says of it and a market: its *)
(* price, the price converted, and whether the absence of one is final.    *)
Price(value, currency) == [value |-> value, currency |-> currency]
Quoted(value) == <<Price(value, "EUR"), value, TRUE>>
Waiting(value) == <<Price(value, "USD"), None, TRUE>>
Nameless == <<Price(7, None), None, TRUE>>
Silent == <<None, None, TRUE>>
Rebuilt == <<None, None, FALSE>>
Holding(account, symbol, name, quantity, cost, realised, closedAt, market) ==
    [account |-> account, symbol |-> symbol, name |-> name, quantity |-> quantity,
     cost |-> cost, realised |-> realised, dividends |-> 1, closedAt |-> closedAt,
     price |-> market[1], converted |-> market[2], terminal |-> market[3]]

On(symbol, date) == [symbol |-> symbol, date |-> date]
Bookings == <<On(1, 1), On(1, 1), On(2, 3), On(1, 2), On(1, None), On(1, 6), On(1, 9)>>
Portfolio(holdings, failures) ==
    [positions |-> holdings, failures |-> failures, events |-> Bookings, answered |-> TRUE]

Held == [priced |-> Portfolio(
             <<Holding(2, 1, None, 1, 12, 0, None, Quoted(10)),
               Holding(1, 2, 9, 3, 9, 0, None, Silent),
               Holding(1, 1, 8, 2, 15, 4, None, Quoted(10)),
               Holding(2, 3, 7, 0, 0, 5, 4, Silent),
               Holding(1, 4, 5, 1, 6, 0, None, Nameless)>>, (2 :> 3) @@ (1 :> 0)),
         repaired |-> Portfolio(
             <<Holding(2, 1, None, 0, 0, 3, 5, Quoted(11)),
               Holding(1, 2, 9, 3, 9, 0, None, Quoted(2)),
               Holding(1, 1, 8, 2, 15, 4, None, Quoted(11)),
               Holding(2, 3, 7, 0, 0, 5, None, Silent),
               Holding(1, 5, 4, 0, 0, 6, 2, Silent)>>, <<>>),
         waiting |-> Portfolio(
             <<Holding(1, 2, 9, 3, 9, 0, None, Rebuilt),
               Holding(2, 1, None, 1, 12, 0, None, Waiting(10)),
               Holding(1, 1, 8, 2, 15, 4, None, Waiting(10)),
               Holding(2, 4, 5, 1, 6, 0, None, Silent)>>, (2 :> 1) @@ (4 :> 2)),
         unset |-> [Portfolio(<<>>, <<>>) EXCEPT !.answered = FALSE]]

Reading == INSTANCE SharesPage WITH
    ALLOCATION_SLICES <- 2, MERGE_GAP_PERCENT <- 30, Portfolios <- Held, Names <- DOMAIN Held,
    Columns <- {"value", "account", "avgCost"}, Accounts <- {1}, Symbols <- {},
    Series <- ("1Y" :> <<>>), MaxMoves <- 1, MaxFailures <- 1,
    sort <- order, account <- reducedTo, symbol <- opened, window <- span, failed <- unread

Inspecting == INSTANCE SharesPage WITH
    ALLOCATION_SLICES <- 2, MERGE_GAP_PERCENT <- 30, Portfolios <- Held,
    Names <- {"priced", "repaired"}, Columns <- {}, Accounts <- {2}, Symbols <- {1, 2, 6},
    Series <- ("1Y" :> <<3, 4, None, 6, 7, 14, 19>>) @@ ("1M" :> <<2, 3, 5, 5, 8, 14>>),
    MaxMoves <- 1, MaxFailures <- 0,
    sort <- order, account <- reducedTo, symbol <- opened, window <- span, failed <- unread

-----------------------------------------------------------------------------
Init ==
    /\ surface \in Surfaces
    /\ Reducing!Init /\ Pricing!Init
    /\ CASE surface = "dropping" -> Dropping!Init
         [] surface = "repeating" -> Repeating!Init
         [] surface = "proposing" -> Proposing!Init
         [] surface = "leaving" -> Leaving!Init
         [] OTHER -> Importing!Init
    /\ (surface \in {"importing", "dropping", "repeating", "proposing", "leaving"} \/ base)
    /\ Inspecting!Init /\ (surface \in {"reading", "inspecting"} \/ served = "priced")

Next ==
    /\ UNCHANGED surface
    /\ \/ surface = "reducing" /\ UNCHANGED <<formVars, importVars, shareVars>> /\ Reducing!Next
       \/ surface = "bounding" /\ UNCHANGED <<formVars, importVars, shareVars>> /\ Bounding!Next
       \/ surface = "removing" /\ UNCHANGED <<formVars, importVars, shareVars>> /\ Removing!Next
       \/ surface = "composing" /\ UNCHANGED <<formVars, importVars, shareVars>> /\ Composing!Next
       \/ surface = "pricing" /\ UNCHANGED <<ledgerVars, importVars, shareVars>> /\ Pricing!Next
       \/ surface = "naming" /\ UNCHANGED <<ledgerVars, importVars, shareVars>> /\ Naming!Next
       \/ surface = "charging" /\ UNCHANGED <<ledgerVars, importVars, shareVars>> /\ Charging!Next
       \/ surface = "importing" /\ UNCHANGED <<ledgerVars, formVars, shareVars>> /\ Importing!Next
       \/ surface = "dropping" /\ UNCHANGED <<ledgerVars, formVars, shareVars>> /\ Dropping!Next
       \/ surface = "repeating" /\ UNCHANGED <<ledgerVars, formVars, shareVars>> /\ Repeating!Next
       \/ surface = "proposing" /\ UNCHANGED <<ledgerVars, formVars, shareVars>> /\ Proposing!Next
       \/ surface = "leaving" /\ UNCHANGED <<ledgerVars, formVars, shareVars>> /\ Leaving!Next
       \/ surface = "reading" /\ UNCHANGED <<ledgerVars, formVars, importVars>> /\ Reading!Next
       \/ surface = "inspecting" /\ UNCHANGED <<ledgerVars, formVars, importVars>> /\ Inspecting!Next

Spec == Init /\ [][Next]_<<surface, ledgerVars, formVars, importVars, shareVars>>

-----------------------------------------------------------------------------
(* The properties of the screens.  A formula of the ledger, or of the form, *)
(* reads the same in its instances: it is taken from one.                   *)

(* The variables keep their types; a bound in force is a calendar day.     *)
TypeOK ==
    /\ Removing!TypeOK
    /\ surface = "pricing" => Pricing!TypeOK
    /\ surface = "naming" => Naming!TypeOK
    /\ surface = "charging" => Charging!TypeOK
    /\ surface = "importing" => Importing!TypeOK
    /\ surface = "dropping" => Dropping!TypeOK
    /\ surface = "repeating" => Repeating!TypeOK
    /\ surface = "proposing" => Proposing!TypeOK
    /\ surface = "leaving" => Leaving!TypeOK

(* The page shows what it was asked for: a reduction the address carries is *)
(* the one in force and one gesture opens the form once (DataPage.tsx), and *)
(* the end is said when the last row is drawn (Ledger.tsx, tail).           *)
PageIsAsAsked ==
    /\ Removing!AddressIsTable
    /\ Removing!FormOpensOnce
    /\ Removing!EndIsDrawn

(* A removal is of what is seen: a new row never arrives ticked (Ledger.tsx, *)
(* held), and the bulk removal takes the rows seen ticked (BulkDelete.tsx).  *)
RemovalIsOfTheSeen ==
    /\ []Removing!NewRowUnticked
    /\ Removing!BulkTakesTheTicked

(* A request holds the fields of its type alone, the cash said under the    *)
(* form is the cash of what is sent, a ticker nobody named is agreed to     *)
(* first, and the name sent is of the ticker sent (EventForm.tsx, submit).  *)
SentIsAsSaid ==
    /\ Pricing!SentIsOfItsType
    /\ Pricing!CashIsBooked
    /\ Naming!FreeTickerIsConfirmed
    /\ Naming!NameIsOfItsTicker

(* A suggestion leaves a typed price alone (EventForm.tsx, the effect).    *)
TypedPriceIsKept == Pricing!TypedPriceIsKept

(* The enabled button sends what the server accepted, a grey one says why   *)
(* (ImportPreview.tsx, the footer), and the reading of a proposal that was  *)
(* left is not shown over another (proposalImport.ts, latest.current).      *)
ButtonIsJudged ==
    /\ surface # "leaving" => Importing!ButtonIsJudged /\ Importing!DisabledSaysWhy
    /\ Leaving!ReadingIsOfItsProposal

(* What is ticked is what is sent (ImportPreview.tsx, forgetAnswers).      *)
ScreenIsSent == Importing!ScreenIsSent

(* Every import whose window stayed open says its sentence                 *)
(* (UploadZone.tsx, UploadReceipt).                                        *)
EveryImportSays == Importing!EveryImportSays

(* The figures of the shares page are of one another: its totals of its     *)
(* lines, its groups, its slices, its sheet (shares.ts, gain.ts).           *)
FiguresAgree ==
    /\ surface = "reading" => Reading!FiguresAgree
    /\ surface = "inspecting" => Inspecting!FiguresAgree

(* The days selected are of the sheet on screen (ShareSheet.tsx).          *)
SelectionIsOfTheSheet == Inspecting!SelectionIsOfTheSheet

(* The forecast on screen is of the files in hand (UploadZone.tsx:382).    *)
ForecastIsOfHeld == Importing!ForecastIsOfHeld

(* No close stands in for a purchase's price (EventForm.tsx:334).          *)
PurchasePriceIsTyped == Pricing!PurchasePriceIsTyped
=============================================================================

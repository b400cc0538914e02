-------------------------- MODULE MCAccountScreens --------------------------
(***************************************************************************)
(* The screens of the accounts: the accounts page over what it reads, its  *)
(* panel in three instances, over a first declaration, a correction and a  *)
(* removal, and the taxation models of the settings.  A behaviour is about *)
(* the one chosen at the start.                                            *)
(***************************************************************************)
EXTENDS Integers, Sequences, FiniteSets, TLC

CONSTANTS None, Shut, Creating, Declined, Absent, Surfaces

VARIABLES
    surface,
    answering, roster, inside, ledger, runs, histories, settled, chosen, turns, unread,
    labels, facts, models, booked, list, entered, catalogue, panel, form, reassign, taxationModel,
    modelEditing, modelError, formError, removeError, flights, touched, news, inserted, unheard,
    sent, elsewhere, lost,
    shelf, carried, shown, carriers, registry, sheet, editor, sheetError, imported, leaving,
    leaveError, replacing, storeError, calls, keys, called, missed

viewVars == <<answering, roster, inside, ledger, runs, histories, settled, chosen, turns, unread>>
panelVars == <<labels, facts, models, booked, list, entered, catalogue, panel, form, reassign,
    taxationModel, modelEditing, modelError, formError, removeError, flights, touched, news,
    inserted, unheard, sent, elsewhere, lost>>
sectionVars == <<shelf, carried, shown, carriers, registry, sheet, editor, sheetError, imported,
    leaving, leaveError, replacing, storeError, calls, keys, called, missed>>

(* A position has what the ledger says of it and a market: its *)
(* price, the price converted, and whether the absence of one is final.    *)
Price(value, currency) == [value |-> value, currency |-> currency]
Quoted(value) == <<Price(value, "EUR"), value, TRUE>>
Waiting(value) == <<Price(value, "USD"), None, TRUE>>
Nameless == <<Price(7, None), None, TRUE>>
Silent == <<None, None, TRUE>>
Rebuilt == <<None, None, FALSE>>
Holding(account, symbol, name, quantity, cost, realised, closedAt, market) ==
    [account |-> account, symbol |-> symbol, name |-> name, quantity |-> quantity,
     cost |-> cost, realised |-> realised, dividends |-> 1, closedAt |-> closedAt,
     price |-> market[1], converted |-> market[2], terminal |-> market[3]]

(* The accounts: the answers the page reads, and its bar over two of them. *)
AccountRow(number, label, asOf, total, cash, fees) ==
    [id |-> number, label |-> label, as_of |-> asOf, total |-> total,
     holdings |-> IF total = None THEN None ELSE total - cash, cash |-> cash,
     contributed |-> IF total = None THEN None ELSE 20, fees |-> fees, tax |-> 3]
In(owner, date) == [account |-> owner, date |-> date]
AccountsAnswer(isDeclared, own, positionsHeld, entries, rebuilding) ==
    [declared |-> isDeclared, accounts |-> own, positions |-> positionsHeld, events |-> entries,
     points |-> [i \in 0..1 |-> <<[t |-> 1, value |-> None], [t |-> 2, value |-> 4]>>],
     runtime |-> [now |-> 9, rebuilding |-> rebuilding], answered |-> TRUE]
AccountAnswers ==
    [fresh |-> AccountsAnswer(FALSE, <<AccountRow(0, None, None, None, None, None)>>, <<>>, <<>>, FALSE),
     declared |-> AccountsAnswer(TRUE,
         <<AccountRow(1, 8, 9, 30, 10, -1), AccountRow(2, None, 9, -5, -15, 0),
           AccountRow(0, None, 9, None, -6, None)>>,
         <<Holding(1, 1, 5, 2, 8, 0, None, Quoted(10)), Holding(1, 2, None, 0, 0, 0, None, Quoted(1)),
           Holding(0, 1, 5, 1, 6, 0, None, Rebuilt), Holding(2, 3, None, 1, 4, 0, None, Quoted(10))>>,
         <<In(1, 3), In(None, 5), In(1, None), In(2, 2), In(1, 4)>>, FALSE),
     rebuilding |-> AccountsAnswer(TRUE,
         <<AccountRow(1, 8, 7, 12, 10, None), AccountRow(2, None, 9, 4, 4, 0)>>,
         <<Holding(1, 1, 5, 2, 8, 0, None, Rebuilt), Holding(1, 2, None, 0, 0, 0, None, Quoted(1)),
           Holding(1, 4, 6, 1, 0, 0, None, Quoted(2))>>,
         <<In(1, 3), In(1, 4), In(1, 9)>>, TRUE),
     unset |-> [AccountsAnswer(TRUE, <<>>, <<>>, <<>>, FALSE) EXCEPT !.answered = FALSE]]

Viewing == INSTANCE AccountsPage WITH
    ALLOCATION_SLICES <- 2, MERGE_GAP_PERCENT <- 30, DEFAULT_ACCOUNT_ID <- 0, LAST_EVENTS <- 2,
    Payloads <- AccountAnswers, Names <- DOMAIN AccountAnswers, Ids <- 0..1, TODAY <- 9,
    MaxMoves <- 1, MaxFailures <- 1,
    served <- answering, accounts <- roster, account <- chosen, positions <- inside,
    runtime <- runs, answered <- settled, moves <- turns, failed <- unread

(* The panel: the first declaration, with a model of its own; the correction *)
(* of an account that carries one; the removal of another.                 *)
Rung(bound, rate) == [upper_bound |-> bound, rate |-> rate]
Model(name, kind, parameters) == [name |-> name, kind |-> kind, parameters |-> parameters]
Aged(basis, levy) ==
    [rate_before |-> 4, rate_after |-> 2, threshold_years |-> 1, age_basis |-> basis, social_rate |-> levy]
Opening == Model(1, "aged_flat_realised", Aged("opening", 0))
TypedModel ==
    [name |-> 1, kind |-> Opening.kind, fields |-> Opening.parameters, brackets |-> <<Rung(None, None)>>]
Account(label, model) == [label |-> label, model |-> model]
Seeded == 0 :> Account(None, None)

Declaring == INSTANCE AccountPanel WITH
    ALLOCATION_SLICES <- 2, MERGE_GAP_PERCENT <- 30, DEFAULT_ACCOUNT_ID <- 0, LAST_EVENTS <- 2,
    FULL <- 10, GRAIN <- 2, MAX_THRESHOLD_YEARS <- 2, CALENDAR_END <- 4, New <- Creating,
    Ids <- 0..1, Opened <- {}, Labels <- {}, Days <- {}, Drafts <- {TypedModel},
    Stored <- Seeded, Catalogue <- <<>>, FIRST_PAYMENT <- 3,
    MaxAsks <- 2, MaxNews <- 1, MaxElsewhere <- 0, MaxLost <- 1,
    ledger <- entered, editing <- panel, draft <- form, writeError <- formError, asks <- sent, born <- inserted

Correcting == INSTANCE AccountPanel WITH
    ALLOCATION_SLICES <- 2, MERGE_GAP_PERCENT <- 30, DEFAULT_ACCOUNT_ID <- 0, LAST_EVENTS <- 2,
    FULL <- 10, GRAIN <- 2, MAX_THRESHOLD_YEARS <- 2, CALENDAR_END <- 4, New <- Creating,
    Ids <- 0..2, Opened <- {1}, Labels <- {4}, Days <- {}, Drafts <- {},
    Stored <- (1 :> Account(6, 1)) @@ (2 :> Account(5, 1)) @@ Seeded, Catalogue <- <<Opening>>,
    FIRST_PAYMENT <- 3, MaxAsks <- 1, MaxNews <- 0, MaxElsewhere <- 1, MaxLost <- 0,
    ledger <- entered, editing <- panel, draft <- form, writeError <- formError, asks <- sent, born <- inserted

Closing == INSTANCE AccountPanel WITH
    ALLOCATION_SLICES <- 2, MERGE_GAP_PERCENT <- 30, DEFAULT_ACCOUNT_ID <- 0, LAST_EVENTS <- 2,
    FULL <- 10, GRAIN <- 2, MAX_THRESHOLD_YEARS <- 2, CALENDAR_END <- 4, New <- Creating,
    Ids <- 0..2, Opened <- {2}, Labels <- {}, Days <- {7}, Drafts <- {},
    Stored <- (1 :> Account(6, 1)) @@ (2 :> Account(5, 1)) @@ Seeded, Catalogue <- <<Opening>>,
    FIRST_PAYMENT <- 3, MaxAsks <- 1, MaxNews <- 0, MaxElsewhere <- 0, MaxLost <- 1,
    ledger <- entered, editing <- panel, draft <- form, writeError <- formError, asks <- sent, born <- inserted

(* The taxation models: a ladder that is stored, and two wrappers, one of  *)
(* which the server would refuse.                                          *)
Facts(opened_on, first_payment) == [opened_on |-> opened_on, first_payment |-> first_payment]
Modelling == INSTANCE TaxationSection WITH
    FULL <- 10, GRAIN <- 2, MAX_THRESHOLD_YEARS <- 2, CALENDAR_END <- 4, New <- Creating,
    ModelIds <- 1..3,
    Items <- {Model(1, "aged_flat_realised", Aged("first_payment", 2)),
              Model(3, "withholding_income", [rate |-> 12])},
    Catalogue <- <<Model(1, "bracketed_realised",
                         [brackets |-> <<Rung(1, 0), Rung(3, 4), Rung(None, 6)>>])>>,
    TypedNames <- {None},
    Typed <- [kind |-> {"none"}, rate |-> {8}, bound |-> {4}, years |-> {2}, age_basis |-> {"opening"}],
    Accounts <- {Facts(None, 1), Facts(2, 1)}, Gains <- {-1, 4}, Today <- {1},
    MaxTyped <- 1, MaxAsks <- 2, MaxLost <- 1,
    models <- shelf, catalogue <- shown, editing <- sheet, writeError <- sheetError,
    removing <- leaving, removeError <- leaveError, flights <- calls, asks <- called, lost <- missed

-----------------------------------------------------------------------------
Init ==
    /\ surface \in Surfaces
    /\ Viewing!Init /\ (surface = "viewing" \/ answering = "fresh")
    /\ IF surface \in {"correcting", "closing"} THEN Correcting!Init ELSE Declaring!Init
    /\ Modelling!Init

Next ==
    /\ UNCHANGED surface
    /\ \/ surface = "viewing" /\ UNCHANGED <<panelVars, sectionVars>> /\ Viewing!Next
       \/ surface = "declaring" /\ UNCHANGED <<viewVars, sectionVars>> /\ Declaring!Next
       \/ surface = "correcting" /\ UNCHANGED <<viewVars, sectionVars>> /\ Correcting!Next
       \/ surface = "closing" /\ UNCHANGED <<viewVars, sectionVars>> /\ Closing!Next
       \/ surface = "modelling" /\ UNCHANGED <<viewVars, panelVars>> /\ Modelling!Next

Spec == Init /\ [][Next]_<<surface, viewVars, panelVars, sectionVars>>

-----------------------------------------------------------------------------
(* The accounts and the models they carry hold together: on the page, in   *)
(* the store, in the panel (accounts.ts, AccountDetail.tsx, accounts.py,   *)
(* taxation.py, taxation_projection.py).                                   *)
AccountsHold ==
    /\ surface = "viewing" => Viewing!AccountPageHolds
    /\ Declaring!NothingDangles /\ Declaring!RefusalIsOfItsPanel
    /\ surface = "declaring" => Declaring!NoModelTwice
    /\ surface = "modelling" => Modelling!ModelsHold

(* A write of the panel is of what its reader asked for: a rename leaves    *)
(* the model alone, and the first declaration takes the events nobody       *)
(* assigned (AccountForm.tsx, submit).                                     *)
AccountWritesKeep == Correcting!RenameKeeps /\ Declaring!ClaimsUnassigned
=============================================================================

---------------------------- MODULE AccountPanel ----------------------------
(***************************************************************************)
(* The declaration of the accounts (AccountForm.tsx, TaxationModelField.tsx, *)
(* api/accounts.py, application/accounts.py, reassignment.py): the panel   *)
(* that declares, renames and removes an account and writes the taxation   *)
(* model it carries, over the store that answers it.                       *)
(*                                                                         *)
(* One panel serves every account: what was asked from it answers when it  *)
(* may be open on another.  Reads lag the store; events are counted by the *)
(* account they name, those that name none under the seeded one.           *)
(***************************************************************************)
EXTENDS AccountFigures

CONSTANTS
    FULL, GRAIN, MAX_THRESHOLD_YEARS, CALENDAR_END,
    Shut, New, Absent,      \* no panel, a declaration, a member left out of a request
    Declined,                \* the answer of a request that is refused
    Ids, Labels, Days,      \* what is typed; the seeded account is of Ids
    Drafts,                 \* the models that are typed
    Opened,                 \* the accounts that are opened
    Stored, Catalogue,      \* the accounts stored at first, with what they carry, and the models
    FIRST_PAYMENT,          \* the day of the first event of an account
    MaxAsks, MaxNews, MaxElsewhere, MaxLost \* bounds

Tax == INSTANCE TaxationModels

VARIABLES
    labels, facts, models, booked,          \* the store
    list, ledger, catalogue,                \* the reads, None while in flight
    editing, draft, reassign, taxationModel, modelEditing, modelError, writeError, removeError,
    flights,                                \* what was asked and has not answered
    touched,        \* did the reader move the model or the box; did an older answer land
    news, born, unheard, asks, elsewhere, lost  \* counters: the models asked for, stored, and stored unheard of

store == <<labels, facts, models, booked>>
reads == <<list, ledger, catalogue>>
panel == <<editing, draft, reassign, taxationModel, modelEditing, modelError, writeError, removeError,
           touched>>
counters == <<news, born, unheard, asks, elsewhere, lost>>
vars == <<store, reads, panel, flights, counters>>

-----------------------------------------------------------------------------
(* The store and what it answers. *)
Accounts == DOMAIN labels
Declared == Accounts # {DEFAULT_ACCOUNT_ID}
Served == IF Declared /\ booked[DEFAULT_ACCOUNT_ID] = 0 THEN Accounts \ {DEFAULT_ACCOUNT_ID} ELSE Accounts

AccountRecord(id) ==
    [id |-> id, label |-> labels[id], model |-> facts[id].model, opened_on |-> facts[id].opened,
     first_payment |-> IF booked[id] > 0 THEN FIRST_PAYMENT ELSE None]
accounts_payload ==
    [declared |-> Declared,
     accounts |-> [i \in 1..Cardinality(Served) |-> AccountRecord(SetToSortSeq(Served, >)[i])]]

NoFact == [model |-> None, opened |-> None]
validates(body) == body.name # None /\ Tax!validates(body.kind, body.parameters)

-----------------------------------------------------------------------------
(* The panel. *)
EMPTY == [id |-> None, label |-> None, openedOn |-> None]
Account == editing \notin {Shut, New}
PanelOf(e) == IF e \in {Shut, New} THEN e ELSE e.id

offer == IF ledger = None THEN None ELSE reassignmentOf(list, ledger[DEFAULT_ACCOUNT_ID])
offered == editing = New /\ offer # None /\ offer.kind = "firstDeclaration"
waiting == editing = New /\ offer = None
removal == IF ~Account \/ ledger = None THEN None ELSE removalOf(editing, ledger[editing.id])

selected == IF catalogue # None /\ taxationModel \in DOMAIN catalogue THEN catalogue[taxationModel] ELSE None
AgeBasis ==
    IF modelEditing # None THEN Tax!Member(modelEditing.draft.fields, "age_basis")
    ELSE IF selected = None THEN None ELSE Tax!Member(selected.parameters, "age_basis")
ageMatters == AgeBasis = "opening"

Pending(kind) == \E f \in flights : f.kind = kind /\ f.mine

Untouched == [model |-> FALSE, box |-> FALSE, crossed |-> FALSE]
Reset(account) ==
    /\ editing' = account
    /\ reassign' = TRUE
    /\ taxationModel' = IF account \in {Shut, New} THEN None ELSE account.model
    /\ modelEditing' = None /\ modelError' = FALSE
    /\ writeError' = None /\ removeError' = None
    /\ touched' = Untouched
    /\ draft' = IF account \in {Shut, New} THEN EMPTY
                ELSE [id |-> account.id, label |-> declaredLabel(account),
                      openedOn |-> IF account.opened_on # None THEN account.opened_on
                                   ELSE account.first_payment]

Init ==
    /\ labels = [id \in DOMAIN Stored |-> Stored[id].label]
    /\ facts = [id \in DOMAIN Stored |-> [model |-> Stored[id].model, opened |-> None]]
    /\ models = Catalogue
    /\ booked = [id \in Ids |-> IF id = DEFAULT_ACCOUNT_ID THEN 1 ELSE 0]
    /\ list = None /\ ledger = None /\ catalogue = None
    /\ editing = Shut /\ draft = EMPTY /\ reassign = TRUE /\ taxationModel = None
    /\ modelEditing = None /\ modelError = FALSE /\ writeError = None /\ removeError = None
    /\ flights = {} /\ touched = Untouched
    /\ news = 0 /\ born = 0 /\ unheard = 0 /\ asks = 0 /\ elsewhere = 0 /\ lost = 0

(* The reads land, the first time or after a write. *)
ReadsLand ==
    /\ \/ list' = accounts_payload /\ UNCHANGED <<ledger, catalogue>>
       \/ ledger' = booked /\ UNCHANGED <<list, catalogue>>
       \/ catalogue' = models /\ UNCHANGED <<list, ledger>>
    /\ UNCHANGED <<store, panel, flights, counters>>

(* Other tabs record an event, and make an account carry a model.          *)
Disturbed == {[f EXCEPT !.known = FALSE] : f \in flights}
Elsewhere ==
    /\ elsewhere < MaxElsewhere
    /\ elsewhere' = elsewhere + 1
    /\ \/ \E id \in Accounts : booked' = [booked EXCEPT ![id] = 1] /\ UNCHANGED facts
       \/ \E id \in Accounts, m \in DOMAIN models \cup {None} :
              facts' = [facts EXCEPT ![id].model = m] /\ UNCHANGED booked
    /\ flights' = Disturbed
    /\ UNCHANGED <<labels, models, reads, panel, news, born, unheard, asks, lost>>

-----------------------------------------------------------------------------
(* The panel opens, and everything in it starts again: what was asked       *)
(* before is no longer its own.                                            *)
Opens(account) ==
    /\ Reset(account)
    /\ flights' = {[f EXCEPT !.mine = FALSE] : f \in flights}
    /\ UNCHANGED <<store, reads, counters>>

(* From the bar, the empty page, or the palette before anything is read.   *)
Declare == editing = Shut /\ Opens(New)
OpenAccount == editing = Shut /\ list # None /\ \E a \in ToSet(list.accounts) : a.id \in Opened /\ Opens(a)

onClose == Reset(Shut) /\ UNCHANGED <<store, reads, flights, counters>>
Close == editing # Shut /\ onClose

idle == <<store, reads, flights, editing, modelError, writeError, removeError>>
Set ==
    /\ editing # Shut
    /\ \/ \E id \in Ids \ {DEFAULT_ACCOUNT_ID} : editing = New /\ draft' = [draft EXCEPT !.id = id]
       \/ \E label \in Labels : draft' = [draft EXCEPT !.label = label]
       \/ \E day \in Days : ageMatters /\ draft' = [draft EXCEPT !.openedOn = day]
    /\ UNCHANGED <<idle, reassign, taxationModel, modelEditing, touched, counters>>

Untick ==
    /\ offered
    /\ reassign' = ~reassign
    /\ touched' = [touched EXCEPT !.box = TRUE]
    /\ UNCHANGED <<idle, draft, taxationModel, modelEditing, counters>>

(* The select: a model, none, or a new one, which keeps the value under it. *)
Choose(m) ==
    /\ editing # Shut /\ catalogue # None
    /\ modelEditing' = None /\ taxationModel' = m
    /\ touched' = [touched EXCEPT !.model = Account]
    /\ flights' = {[f EXCEPT !.mine = @ /\ f.kind # "drop"] : f \in flights}
    /\ UNCHANGED <<store, reads, editing, modelError, writeError, removeError, draft, reassign, counters>>

Proposed == IF catalogue = None THEN {} ELSE DOMAIN catalogue
ChooseNew ==
    /\ editing # Shut /\ catalogue # None
    /\ news < MaxNews
    /\ news' = news + 1
    /\ modelEditing' = [mode |-> "new", draft |-> Tax!draftOf(None)]
    /\ touched' = [touched EXCEPT !.model = Account]
    /\ flights' = {[f EXCEPT !.mine = @ /\ f.kind # "drop"] : f \in flights}
    /\ UNCHANGED <<store, reads, editing, modelError, writeError, removeError, draft, reassign,
                   taxationModel, born, unheard, asks, elsewhere, lost>>

Edit ==
    /\ editing # Shut /\ modelEditing = None /\ selected # None
    /\ modelEditing' = [mode |-> "edit", draft |-> Tax!draftOf(selected)]
    /\ touched' = [touched EXCEPT !.model = Account]
    /\ UNCHANGED <<idle, draft, reassign, taxationModel, counters>>
Retype ==
    /\ editing # Shut /\ modelEditing # None
    /\ \E d \in Drafts : modelEditing' = [modelEditing EXCEPT !.draft = d]
    /\ UNCHANGED <<idle, draft, reassign, taxationModel, touched, counters>>
Revert ==
    /\ editing # Shut /\ modelEditing # None
    /\ modelEditing' = None
    /\ UNCHANGED <<idle, draft, reassign, taxationModel, touched, counters>>

-----------------------------------------------------------------------------
(* What is asked. *)
Flight(kind, request) ==
    [kind |-> kind, request |-> request, of |-> PanelOf(editing), mine |-> TRUE, answer |-> None,
     touched |-> touched, known |-> list = accounts_payload /\ ledger = booked]
Asks(flight) ==
    /\ asks < MaxAsks
    /\ asks' = asks + 1
    /\ flights' = flights \cup {flight}

RemoveModel ==
    /\ editing # Shut /\ modelEditing = None /\ selected # None /\ ~Pending("drop")
    /\ Asks(Flight("drop", [modelId |-> taxationModel, clears |-> TRUE]))
    /\ touched' = [touched EXCEPT !.model = Account]
    /\ UNCHANGED <<store, reads, editing, draft, reassign, taxationModel, modelEditing, modelError,
                   writeError, removeError, news, born, unheard, elsewhere, lost>>

RemoveAccount ==
    /\ removal = "offered" /\ ~Pending("remove")
    /\ Asks(Flight("remove", [id |-> editing.id]))
    /\ removeError' = None
    /\ UNCHANGED <<store, reads, editing, draft, reassign, taxationModel, modelEditing, modelError,
                   writeError, touched, news, born, unheard, elsewhere, lost>>

(* The block of the seeded account, which the page shows of its own.       *)
Reassign ==
    /\ editing = Shut /\ offer # None /\ offer.kind = "standing" /\ ~Pending("reassign")
    /\ \E id \in ToSet(offer.targets) : Asks(Flight("reassign", [id |-> id]))
    /\ UNCHANGED <<store, reads, panel, news, born, unheard, elsewhere, lost>>

(* A correction left as it was writes nothing.  The day is sent where it was *)
(* asked for and moved; a blank label keeps the name, or falls back to the id. *)
ModelBody ==
    IF modelEditing = None
       \/ (modelEditing.mode = "edit" /\ selected # None /\ modelEditing.draft = Tax!draftOf(selected))
    THEN None ELSE modelEditing
Opening ==
    IF ageMatters /\ draft.openedOn # (IF Account THEN editing.opened_on ELSE None)
    THEN draft.openedOn ELSE Absent

LabelSent == IF editing = New /\ draft.label = None THEN draft.id ELSE draft.label

submit ==
    /\ editing # Shut /\ ~Pending("write") /\ ~waiting
    /\ editing = New => draft.id # None
    /\ Asks(Flight("write",
           [id |-> draft.id, label |-> LabelSent, model |-> ModelBody, modelId |-> taxationModel,
            base |-> IF Account THEN editing.model ELSE None, opening |-> Opening,
            reassign |-> offered /\ reassign]))
    /\ modelError' = FALSE /\ writeError' = None
    /\ UNCHANGED <<store, reads, editing, draft, reassign, taxationModel, modelEditing, removeError,
                   touched, news, born, unheard, elsewhere, lost>>

-----------------------------------------------------------------------------
(* What is done.  A write of the panel is its model first, then its account. *)
Done == 0
Answers(f, answer) == flights' = (Disturbed \ {[f EXCEPT !.known = FALSE]}) \cup {[f EXCEPT !.answer = answer]}

Goes(f) == flights' = flights \ {f}
(* An account's own request is said where it failed, and only there.       *)
Fails(f) ==
    /\ writeError' = IF f.mine /\ f.kind = "write" THEN f.of ELSE writeError
    /\ removeError' = IF f.mine /\ f.kind = "remove" THEN f.of ELSE removeError

Inserted(rows, id, row) == [x \in DOMAIN rows \cup {id} |-> IF x = id THEN row ELSE rows[x]]

create_taxation_model(f, body, fresh) ==
    /\ models' = Inserted(models, fresh, body)
    /\ born' = born + 1
    /\ Answers(f, fresh)
update_taxation_model(f, body, m) ==
    /\ models' = [models EXCEPT ![m] = body]
    /\ Answers(f, m)
    /\ UNCHANGED born

Corrects(f) == f.request.model.mode = "edit" /\ f.request.modelId # None
(* An id is given once: those of the first models, then one for each made. *)
FreshModel == Len(Catalogue) + born + 1
(* A blank name keeps the one that is there. *)
Named(f, body) ==
    IF Corrects(f) /\ body.name = None THEN [body EXCEPT !.name = models[f.request.modelId].name] ELSE body
WriteModel(f, body) ==
    /\ f.kind = "write" /\ f.answer = None /\ f.request.model # None
    /\ IF (Corrects(f) /\ f.request.modelId \notin DOMAIN models) \/ ~validates(Named(f, body))
       THEN Answers(f, Declined) /\ UNCHANGED <<models, born>>
       ELSE IF Corrects(f) THEN update_taxation_model(f, Named(f, body), f.request.modelId)
       ELSE create_taxation_model(f, body, FreshModel)
    /\ UNCHANGED <<labels, facts, booked, reads, panel, news, unheard, asks, elsewhere, lost>>

(* Mutant: a model still carried is removed.                               *)
delete_carried_model(f) ==
    /\ f.kind = "drop" /\ f.answer = None
    /\ IF f.request.modelId \notin DOMAIN models
       THEN Answers(f, Declined) /\ UNCHANGED models
       ELSE /\ models' = [m \in DOMAIN models \ {f.request.modelId} |-> models[m]]
            /\ Answers(f, Done)
    /\ UNCHANGED <<labels, facts, booked, reads, panel, counters>>

delete_taxation_model(f) ==
    /\ f.kind = "drop" /\ f.answer = None
    /\ IF f.request.modelId \notin DOMAIN models \/ \E id \in Accounts : facts[id].model = f.request.modelId
       THEN Answers(f, Declined) /\ UNCHANGED models
       ELSE /\ models' = [m \in DOMAIN models \ {f.request.modelId} |-> models[m]]
            /\ Answers(f, Done)
    /\ UNCHANGED <<labels, facts, booked, reads, panel, counters>>

(* One transaction: the account, the model it carries, its day, and the     *)
(* events nobody assigned where that was asked.                            *)
Given(member, kept) == IF member = Absent THEN kept ELSE member
reassign_unassigned(id) ==
    booked' = IF labels[DEFAULT_ACCOUNT_ID] # None THEN booked
              ELSE [booked EXCEPT ![id] = IF @ + booked[DEFAULT_ACCOUNT_ID] > 0 THEN 1 ELSE 0,
                                  ![DEFAULT_ACCOUNT_ID] = 0]
reassign_events(f) ==
    /\ f.kind = "reassign" /\ f.answer = None
    /\ IF f.request.id \notin Accounts
       THEN Answers(f, Declined) /\ UNCHANGED booked
       ELSE reassign_unassigned(f.request.id) /\ Answers(f, Done)
    /\ UNCHANGED <<labels, facts, models, reads, panel, counters>>

create_account(f, body) ==
    /\ f.of = New
    /\ IF body.id \in Accounts \/ (body.modelId # None /\ body.modelId \notin DOMAIN models)
       THEN Answers(f, Declined) /\ UNCHANGED <<labels, facts, booked>>
       ELSE /\ labels' = Inserted(labels, body.id, body.label)
            /\ facts' = Inserted(facts, body.id,
                            [model |-> body.modelId, opened |-> Given(body.opening, None)])
            /\ IF body.reassign THEN reassign_unassigned(body.id) ELSE UNCHANGED booked
            /\ Answers(f, Done)

(* Mutant: the model the panel read is sent again.                         *)
carried_sent(body, kept) == body.modelId
(* An absent model is left alone, None detaches it.                        *)
carried(body, kept) == IF body.modelId = body.base THEN kept ELSE body.modelId

update_account(f, body) ==
    /\ f.of # New
    /\ IF f.of \notin Accounts
          \/ (body.modelId \notin {None, body.base} /\ body.modelId \notin DOMAIN models)
       THEN Answers(f, Declined) /\ UNCHANGED <<labels, facts>>
       ELSE /\ labels' = [labels EXCEPT ![f.of] = IF body.label = None THEN @ ELSE body.label]
            /\ facts' = [facts EXCEPT ![f.of] =
                            [model |-> carried(body, @.model), opened |-> Given(body.opening, @.opened)]]
            /\ Answers(f, Done)
    /\ UNCHANGED booked
WriteAccount(f, body) ==
    /\ f.kind = "write" /\ f.answer = None /\ body.model = None
    /\ create_account(f, body) \/ update_account(f, body)
    /\ UNCHANGED <<models, reads, panel, counters>>

(* The facts of an account go with it, as does the model it carried.       *)
Kept(id) == id \notin Accounts \/ id = DEFAULT_ACCOUNT_ID \/ booked[id] > 0
delete_account(f) ==
    /\ f.kind = "remove" /\ f.answer = None
    /\ IF Kept(f.request.id)
       THEN Answers(f, Declined) /\ UNCHANGED <<labels, facts>>
       ELSE /\ facts' = [id \in Accounts \ {f.request.id} |-> facts[id]]
            /\ labels' = [id \in Accounts \ {f.request.id} |-> labels[id]]
            /\ Answers(f, Done)
    /\ UNCHANGED <<models, booked, reads, panel, counters>>

(* The process stops between the statements of a removal, each committed.  *)
delete_stops(f) ==
    /\ f.kind = "remove" /\ f.answer = None /\ ~Kept(f.request.id)
    /\ lost < MaxLost
    /\ lost' = lost + 1
    /\ facts' = [facts EXCEPT ![f.request.id] = NoFact]
    /\ Goes(f) /\ Fails(f)
    /\ UNCHANGED <<labels, models, booked, reads, editing, draft, reassign, taxationModel, modelEditing,
                   modelError, touched, news, born, unheard, asks, elsewhere>>

(* The answer of a request is lost, done or not: its panel reads a failure. *)
Lost(f) ==
    /\ lost < MaxLost
    /\ lost' = lost + 1
    /\ flights' = flights \ {f}
    /\ unheard' = unheard + IF f.kind = "write" /\ f.request.model # None THEN 1 ELSE 0
    /\ IF f.kind = "write" /\ f.request.model # None
       THEN modelError' = (editing # Shut) /\ UNCHANGED <<writeError, removeError>>
       ELSE Fails(f) /\ UNCHANGED modelError
    /\ UNCHANGED <<store, reads, editing, draft, reassign, taxationModel, modelEditing, touched,
                   news, born, asks, elsewhere>>

-----------------------------------------------------------------------------
(* What is answered.  The panel that hears of it is the one that is open.  *)
Crosses(f) == touched' = [touched EXCEPT !.crossed = @ \/ (Account /\ ~(f.mine /\ PanelOf(editing) = f.of))]

(* The model under the panel moves by itself: the removal that the panel    *)
(* follows is let go, and no longer clears what has taken its place.       *)
Loose(g) ==
    IF g.kind = "drop" /\ g.mine
    THEN [g EXCEPT !.mine = FALSE, !.request = [@ EXCEPT !.clears = FALSE]] ELSE g
LetGo(f) == {Loose(g) : g \in flights \ {f}}

(* Once written, the model is corrected by a retry, never added again.     *)
ModelWritten(f) == [mode |-> "edit", draft |-> f.request.model.draft]
ModelLands(f) ==
    /\ f.kind = "write" /\ f.answer # None /\ f.request.model # None
    /\ IF f.answer = Declined
       THEN /\ Goes(f)
            /\ modelError' = (editing # Shut)
            /\ UNCHANGED <<taxationModel, modelEditing>>
       ELSE /\ flights' = (IF editing = Shut \/ f.answer = taxationModel THEN flights \ {f} ELSE LetGo(f))
                \cup {[f EXCEPT !.answer = None, !.request = [@ EXCEPT !.model = None, !.modelId = f.answer]]}
            /\ IF editing = Shut THEN UNCHANGED <<taxationModel, modelEditing>>
               ELSE taxationModel' = f.answer /\ modelEditing' = ModelWritten(f)
            /\ UNCHANGED modelError
    /\ IF editing = Shut THEN UNCHANGED touched ELSE Crosses(f)
    /\ UNCHANGED <<store, reads, editing, draft, reassign, writeError, removeError, counters>>

(* A write done or an account gone shuts the panel.                        *)
AccountLands(f) ==
    /\ f.answer # None /\ (f.kind = "remove" \/ (f.kind = "write" /\ f.request.model = None))
    /\ Goes(f)
    /\ IF f.answer # Declined THEN Reset(Shut)
       ELSE /\ Fails(f)
            /\ UNCHANGED <<editing, draft, reassign, taxationModel, modelEditing, modelError, touched>>
    /\ UNCHANGED <<store, reads, counters>>

ReassignmentLands(f) ==
    /\ f.kind = "reassign" /\ f.answer # None
    /\ Goes(f)
    /\ UNCHANGED <<store, reads, panel, counters>>

(* A model gone is no longer the one the panel holds.                      *)
DropLands(f) ==
    /\ f.kind = "drop" /\ f.answer # None
    /\ IF f.answer = Declined \/ editing = Shut
       THEN Goes(f) /\ UNCHANGED <<taxationModel, modelEditing, touched>>
       ELSE /\ IF f.request.clears /\ taxationModel # None
               THEN taxationModel' = None /\ flights' = LetGo(f)
               ELSE Goes(f) /\ UNCHANGED taxationModel
            /\ modelEditing' = None /\ Crosses(f)
    /\ UNCHANGED <<store, reads, editing, draft, reassign, modelError, writeError, removeError, counters>>

Next ==
    \/ ReadsLand \/ Elsewhere
    \/ Declare \/ OpenAccount \/ Close \/ Set \/ Untick \/ Edit \/ Retype \/ Revert \/ ChooseNew
    \/ Choose(None) \/ \E m \in Proposed : Choose(m)
    \/ RemoveModel \/ RemoveAccount \/ Reassign \/ submit
    \/ \E f \in flights :
           \/ f.kind = "write" /\ f.request.model # None /\ WriteModel(f, Tax!bodyOf(f.request.model.draft))
           \/ f.kind = "write" /\ WriteAccount(f, f.request)
           \/ delete_taxation_model(f) \/ delete_account(f) \/ delete_stops(f) \/ reassign_events(f)
           \/ Lost(f)
           \/ ModelLands(f) \/ AccountLands(f) \/ DropLands(f) \/ ReassignmentLands(f)

Spec == Init /\ [][Next]_vars

-----------------------------------------------------------------------------
(* Nothing names what is gone: an event its account, a fact its account and *)
(* its model (accounts.py, delete_account, delete_model).                  *)
NothingDangles ==
    /\ DOMAIN facts = Accounts
    /\ \A id \in Accounts : facts[id].model \in DOMAIN models \cup {None}
    /\ \A id \in Ids : booked[id] > 0 => id \in Accounts

(* A model is written once for each time a new one is asked for, however    *)
(* often the account is refused (AccountForm.tsx, #1290).                  *)
NoModelTwice == born <= news + unheard

(* A refusal in the panel is about the account of the panel (AccountForm.tsx, *)
(* the effect).                                                            *)
RefusalIsOfItsPanel ==
    editing # Shut => {writeError, removeError} \subseteq {None, PanelOf(editing)}

(* A rename stays a rename: what the reader left alone in the panel is left  *)
(* alone in the store, whoever moved it since (AccountForm.tsx, submit).    *)
RenameKeeps ==
    [][\A f \in flights :
         f.kind = "write" /\ f.of # New /\ WriteAccount(f, f.request) =>
             /\ ~f.touched.model /\ ~f.touched.crossed =>
                    \A id \in Accounts : facts'[id].model = facts[id].model
             /\ booked' = booked]_vars

(* The first declaration takes the events nobody assigned, unless its reader *)
(* unticks it or something moves meanwhile (AccountForm.tsx, #725).         *)
ClaimsUnassigned ==
    [][\A f \in flights :
         f.kind = "write" /\ f.of = New /\ f.known /\ ~Declared /\ labels[DEFAULT_ACCOUNT_ID] = None
             /\ ~f.touched.box /\ WriteAccount(f, f.request) /\ f.request.id \in DOMAIN labels' =>
                    booked'[DEFAULT_ACCOUNT_ID] = 0]_vars
=============================================================================

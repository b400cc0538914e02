------------------------- MODULE AccountPanelProofs -------------------------
(***************************************************************************)
(* What holds of the accounts and of their panel for every set of accounts *)
(* and models, and any number of panels, requests and lost answers; and of *)
(* the pages of the accounts and of the shares over any answers; and of    *)
(* the taxation models, whatever their rates.                              *)
(***************************************************************************)
EXTENDS AccountPanel, FiniteSetTheorems, TLAPS

(* The seeded account is stored, and what is stored carries what is.       *)
SeedIsStored ==
    /\ DEFAULT_ACCOUNT_ID \in DOMAIN Stored /\ DEFAULT_ACCOUNT_ID \in Ids
    /\ \A id \in DOMAIN Stored : Stored[id].model \in DOMAIN Catalogue \cup {None}

-----------------------------------------------------------------------------
(* The store.  Facts are of accounts, and a count of events is of one.     *)
StoreInv ==
    /\ DEFAULT_ACCOUNT_ID \in Accounts /\ DOMAIN facts = Accounts
    /\ \A id \in Accounts :
          /\ facts[id] = [model |-> facts[id].model, opened |-> facts[id].opened]
          /\ facts[id].model \in DOMAIN models \cup {None}
    /\ booked \in [Ids -> {0, 1}]
    /\ \A id \in Ids : booked[id] = 1 => id \in Accounts

LEMMA StoreStart == ASSUME Init, SeedIsStored PROVE StoreInv
BY DEF Init, SeedIsStored, StoreInv, Accounts

LEMMA StoreStands == ASSUME StoreInv, UNCHANGED store PROVE StoreInv'
BY DEF StoreInv, store, Accounts

(* The events nobody assigned go to an account there is.                   *)
LEMMA Reassigned ==
    ASSUME StoreInv, NEW id, reassign_unassigned(id)
    PROVE  /\ booked' \in [Ids -> {0, 1}]
           /\ \A i \in Ids : booked'[i] = 1 => booked[i] = 1 \/ i = id
<1>1. CASE labels[DEFAULT_ACCOUNT_ID] # None
  BY <1>1 DEF reassign_unassigned, StoreInv
<1>2. CASE labels[DEFAULT_ACCOUNT_ID] = None
  BY <1>2 DEF reassign_unassigned, StoreInv
<1> QED
  BY <1>1, <1>2

LEMMA ElsewhereStore == ASSUME StoreInv, Elsewhere PROVE StoreInv'
<1>1. CASE UNCHANGED facts
  BY <1>1 DEF Elsewhere, StoreInv, Accounts
<1>2. CASE UNCHANGED booked
  BY <1>2 DEF Elsewhere, StoreInv, Accounts
<1> QED
  BY <1>1, <1>2 DEF Elsewhere

LEMMA ModelsStore ==
    ASSUME StoreInv, NEW f \in flights, NEW body, WriteModel(f, body) \/ delete_taxation_model(f)
    PROVE  StoreInv'
<1>1. UNCHANGED <<labels, facts, booked>>
  BY DEF WriteModel, delete_taxation_model
<1>2. ASSUME DOMAIN models \subseteq DOMAIN models' PROVE StoreInv'
  BY <1>1, <1>2 DEF StoreInv, Accounts
<1>3. CASE WriteModel(f, body)
  <2>1. UNCHANGED models \/ (\E b, m : models' = [models EXCEPT ![m] = b])
        \/ (\E b, m : models' = Inserted(models, m, b))
    BY <1>3 DEF WriteModel, create_taxation_model, update_taxation_model
  <2> QED
    BY <2>1, <1>2 DEF Inserted
<1>4. CASE delete_taxation_model(f)
  BY <1>1, <1>2, <1>4 DEF delete_taxation_model, StoreInv, Accounts
<1> QED
  BY <1>3, <1>4

LEMMA AccountsStore ==
    ASSUME StoreInv, NEW f \in flights, NEW body, WriteAccount(f, body)
    PROVE  StoreInv'
<1>1. UNCHANGED models
  BY DEF WriteAccount
<1>2. CASE create_account(f, body)
  <2>1. CASE UNCHANGED <<labels, facts, booked>>
    BY <1>1, <2>1, StoreStands DEF store
  <2>2. CASE /\ body.id \notin Accounts
             /\ body.modelId = None \/ body.modelId \in DOMAIN models
             /\ labels' = Inserted(labels, body.id, body.label)
             /\ facts' = Inserted(facts, body.id,
                            [model |-> body.modelId, opened |-> Given(body.opening, None)])
             /\ IF body.reassign THEN reassign_unassigned(body.id) ELSE UNCHANGED booked
    <3>1. DOMAIN labels' = {body.id} \cup DOMAIN labels /\ DOMAIN facts' = {body.id} \cup DOMAIN facts
      BY <2>2 DEF Inserted
    <3>2. /\ facts'[body.id] = [model |-> body.modelId, opened |-> Given(body.opening, None)]
          /\ \A x \in DOMAIN facts \ {body.id} : facts'[x] = facts[x]
      BY <2>2 DEF Inserted
    <3>3. /\ booked' \in [Ids -> {0, 1}]
          /\ \A i \in Ids : booked'[i] = 1 => booked[i] = 1 \/ i = body.id
      BY <2>2, Reassigned DEF StoreInv
    <3> QED
      BY <1>1, <2>2, <3>1, <3>2, <3>3 DEF StoreInv, Accounts
  <2> QED
    BY <1>2, <2>1, <2>2 DEF create_account
<1>3. CASE update_account(f, body)
  <2>1. CASE UNCHANGED <<labels, facts>>
    BY <1>1, <1>3, <2>1, StoreStands DEF store, update_account
  <2>2. CASE /\ f.of \in Accounts
             /\ body.modelId \in {None, body.base} \/ body.modelId \in DOMAIN models
             /\ labels' = [labels EXCEPT ![f.of] = IF body.label = None THEN @ ELSE body.label]
             /\ facts' = [facts EXCEPT ![f.of] =
                    [model |-> carried(body, @.model), opened |-> Given(body.opening, @.opened)]]
    <3>1. carried(body, facts[f.of].model) \in DOMAIN models \cup {None}
      BY <2>2 DEF carried, StoreInv
    <3> QED
      BY <1>1, <1>3, <2>2, <3>1 DEF StoreInv, Accounts, update_account
  <2> QED
    BY <1>3, <2>1, <2>2 DEF update_account
<1> QED
  BY <1>2, <1>3 DEF WriteAccount

LEMMA RemovalStore ==
    ASSUME StoreInv, NEW f \in flights,
           delete_account(f) \/ delete_stops(f) \/ reassign_events(f)
    PROVE  StoreInv'
<1>1. CASE delete_account(f)
  <2>1. CASE Kept(f.request.id)
    BY <1>1, <2>1, StoreStands DEF delete_account, store
  <2>2. CASE ~Kept(f.request.id)
    BY <1>1, <2>2 DEF delete_account, Kept, StoreInv, Accounts
  <2> QED
    BY <2>1, <2>2
<1>2. CASE delete_stops(f)
  BY <1>2 DEF delete_stops, Kept, NoFact, StoreInv, Accounts
<1>3. CASE reassign_events(f)
  <2>1. CASE UNCHANGED booked
    BY <1>3, <2>1, StoreStands DEF reassign_events, store
  <2>2. CASE f.request.id \in Accounts /\ reassign_unassigned(f.request.id)
    <3>1. /\ booked' \in [Ids -> {0, 1}]
          /\ \A i \in Ids : booked'[i] = 1 => booked[i] = 1 \/ i = f.request.id
      BY <2>2, Reassigned
    <3> QED
      BY <1>3, <2>2, <3>1 DEF reassign_events, StoreInv, Accounts
  <2> QED
    BY <1>3, <2>1, <2>2 DEF reassign_events
<1> QED
  BY <1>1, <1>2, <1>3

LEMMA StoreStep == ASSUME StoreInv, [Next]_vars PROVE StoreInv'
<1>1. ASSUME NEW f \in flights,
             \/ f.kind = "write" /\ f.request.model # None /\ WriteModel(f, Tax!bodyOf(f.request.model.draft))
             \/ f.kind = "write" /\ WriteAccount(f, f.request)
             \/ delete_taxation_model(f) \/ delete_account(f) \/ delete_stops(f) \/ reassign_events(f)
      PROVE  StoreInv'
  BY <1>1, ModelsStore, AccountsStore, RemovalStore
<1>2. ASSUME NEW f \in flights,
             Lost(f) \/ ModelLands(f) \/ AccountLands(f) \/ DropLands(f) \/ ReassignmentLands(f)
      PROVE  StoreInv'
  BY <1>2, StoreStands DEF Lost, ModelLands, AccountLands, DropLands, ReassignmentLands
<1>3. CASE ReadsLand \/ Declare \/ OpenAccount \/ Close \/ Set \/ Untick
  BY <1>3, StoreStands DEF ReadsLand, Declare, OpenAccount, Opens, Close, onClose, Set, Untick, idle
<1>4. CASE \/ Edit \/ Retype \/ Revert \/ ChooseNew \/ Choose(None) \/ (\E m \in Proposed : Choose(m))
  BY <1>4, StoreStands DEF Edit, Retype, Revert, ChooseNew, Choose, idle
<1>5. CASE RemoveModel \/ RemoveAccount \/ Reassign \/ submit \/ UNCHANGED vars
  BY <1>5, StoreStands DEF RemoveModel, RemoveAccount, Reassign, submit, vars
<1> QED
  BY <1>1, <1>2, <1>3, <1>4, <1>5, ElsewhereStore DEF Next

(* Whatever tabs, panels and refusals cross, no event names an account that *)
(* is gone, no fact an account or a model: the checks of a removal are made *)
(* where it is done (accounts.py, delete_account, delete_model).           *)
THEOREM NothingEverDangles == ASSUME SeedIsStored PROVE Spec => []NothingDangles
<1>1. StoreInv => NothingDangles
  BY DEF StoreInv, NothingDangles
<1> QED
  BY <1>1, StoreStart, StoreStep, PTL DEF Spec

-----------------------------------------------------------------------------
(* What was asked.  A request is followed to its answer: what it asks for,  *)
(* from which panel, and what its reader had touched do not move, but that  *)
(* a write whose model is made is now the write of its account.            *)
IsFlight(f) ==
    /\ f = [kind |-> f.kind, request |-> f.request, of |-> f.of, mine |-> f.mine,
            answer |-> f.answer, touched |-> f.touched, known |-> f.known]
    /\ f.mine \in BOOLEAN /\ f.known \in BOOLEAN
    /\ f.kind = "write" =>
         f.request = [id |-> f.request.id, label |-> f.request.label, model |-> f.request.model,
                      modelId |-> f.request.modelId, base |-> f.request.base,
                      opening |-> f.request.opening, reassign |-> f.request.reassign]
FlightsInv == \A f \in flights : IsFlight(f)

ModelMade(f, g) ==
    /\ f.kind = "write" /\ f.request.model # None /\ f.answer \notin {None, Declined}
    /\ g.request = [f.request EXCEPT !.model = None, !.modelId = f.answer] /\ g.answer = None
Follows(f, g) ==
    /\ IsFlight(g)
    /\ g.kind = f.kind /\ g.of = f.of /\ g.touched = f.touched
    /\ (g.mine => f.mine) /\ (g.known => f.known)
    /\ \/ (f.kind = "write" => g.request = f.request) /\ (g.answer = f.answer \/ f.answer = None)
       \/ ModelMade(f, g)
AllLater == \A g \in flights' : \E f \in flights : Follows(f, g)

LEMMA SameLater == ASSUME FlightsInv, flights' \subseteq flights PROVE AllLater
BY DEF FlightsInv, AllLater, Follows

LEMMA DisturbedLater ==
    ASSUME FlightsInv, NEW g \in Disturbed
    PROVE  \E f \in flights : Follows(f, g)
<1>1. PICK f \in flights : g = [f EXCEPT !.known = FALSE]
  BY DEF Disturbed
<1>2. IsFlight(f)
  BY DEF FlightsInv
<1>3. /\ g = [kind |-> f.kind, request |-> f.request, of |-> f.of, mine |-> f.mine,
              answer |-> f.answer, touched |-> f.touched, known |-> FALSE]
      /\ IsFlight(g)
  BY <1>1, <1>2 DEF IsFlight
<1>4. Follows(f, g)
  BY <1>2, <1>3 DEF Follows
<1> QED
  BY <1>4

LEMMA AnswersLater ==
    ASSUME FlightsInv, NEW f \in flights, f.answer = None, NEW answer, Answers(f, answer)
    PROVE  AllLater
<1> DEFINE answered == [f EXCEPT !.answer = answer]
<1>3. IsFlight(f)
  BY DEF FlightsInv
<1>4. /\ answered = [kind |-> f.kind, request |-> f.request, of |-> f.of, mine |-> f.mine,
                     answer |-> answer, touched |-> f.touched, known |-> f.known]
      /\ IsFlight(answered)
  BY <1>3 DEF IsFlight
<1>1. Follows(f, answered)
  BY <1>3, <1>4 DEF Follows
<1>2. ASSUME NEW g \in flights' PROVE g \in Disturbed \/ g = answered
  BY DEF Answers
<1> QED
  BY <1>1, <1>2, DisturbedLater DEF AllLater

(* What is disowned: everything, or what removes a model.                   *)
LEMMA DisownedLater ==
    ASSUME FlightsInv,
           \/ flights' = {[f EXCEPT !.mine = FALSE] : f \in flights}
           \/ flights' = {[f EXCEPT !.mine = @ /\ f.kind # "drop"] : f \in flights}
    PROVE  AllLater
<1>1. ASSUME NEW f \in flights, NEW mine \in BOOLEAN, mine => f.mine
      PROVE  Follows(f, [f EXCEPT !.mine = mine])
  <2> DEFINE g == [f EXCEPT !.mine = mine]
  <2>1. IsFlight(f)
    BY DEF FlightsInv
  <2>2. /\ g = [kind |-> f.kind, request |-> f.request, of |-> f.of, mine |-> mine,
                answer |-> f.answer, touched |-> f.touched, known |-> f.known]
        /\ IsFlight(g)
    BY <2>1 DEF IsFlight
  <2>3. Follows(f, g)
    BY <1>1, <2>1, <2>2 DEF Follows
  <2> QED
    BY <2>3
<1>2. ASSUME NEW f \in flights
      PROVE  /\ Follows(f, [f EXCEPT !.mine = FALSE])
             /\ Follows(f, [f EXCEPT !.mine = @ /\ f.kind # "drop"])
  <2>1. f.mine \in BOOLEAN
    BY <1>2 DEF FlightsInv, IsFlight
  <2>2. (f.mine /\ f.kind # "drop") \in BOOLEAN
    OBVIOUS
  <2> QED
    BY <1>1, <1>2, <2>1, <2>2
<1>3. ASSUME NEW g \in flights'
      PROVE  \E f \in flights : g = [f EXCEPT !.mine = FALSE] \/ g = [f EXCEPT !.mine = @ /\ f.kind # "drop"]
  <2>1. CASE flights' = {[f EXCEPT !.mine = FALSE] : f \in flights}
    BY <2>1, Zenon
  <2>2. CASE flights' = {[f EXCEPT !.mine = @ /\ f.kind # "drop"] : f \in flights}
    BY <2>2, Zenon
  <2> QED
    BY <2>1, <2>2
<1>4. ASSUME NEW g \in flights' PROVE \E f \in flights : Follows(f, g)
  <2>1. PICK f \in flights : g = [f EXCEPT !.mine = FALSE] \/ g = [f EXCEPT !.mine = @ /\ f.kind # "drop"]
    BY <1>3, <1>4
  <2>2. /\ Follows(f, [f EXCEPT !.mine = FALSE])
        /\ Follows(f, [f EXCEPT !.mine = @ /\ f.kind # "drop"])
    BY <1>2
  <2>3. Follows(f, g)
    BY <2>1, <2>2, Zenon
  <2> QED
    BY <2>3
<1> QED
  BY <1>4 DEF AllLater

LEMMA LooseFollows == ASSUME FlightsInv, NEW f \in flights PROVE Follows(f, Loose(f))
<1>1. IsFlight(f)
  BY DEF FlightsInv
<1>2. CASE f.kind = "drop" /\ f.mine
  <2>1. PICK request : request = [f.request EXCEPT !.clears = FALSE]
    OBVIOUS
  <2>2. PICK g : g = [f EXCEPT !.mine = FALSE, !.request = request]
    OBVIOUS
  <2>3. Loose(f) = g
    BY <1>2, <2>1, <2>2, Zenon DEF Loose
  <2>4. g = [kind |-> f.kind, request |-> request, of |-> f.of, mine |-> FALSE,
             answer |-> f.answer, touched |-> f.touched, known |-> f.known]
    BY <1>1, <2>2 DEF IsFlight
  <2>5. Follows(f, g)
    BY <1>1, <1>2, <2>4 DEF IsFlight, Follows
  <2> QED
    BY <2>3, <2>5
<1>3. CASE ~(f.kind = "drop" /\ f.mine)
  BY <1>1, <1>3 DEF Loose, Follows
<1> QED
  BY <1>2, <1>3

LEMMA LetGoLater ==
    ASSUME FlightsInv, NEW f \in flights, NEW g \in LetGo(f)
    PROVE  \E h \in flights : Follows(h, g)
BY LooseFollows DEF LetGo

LEMMA ModelLandsLater == ASSUME FlightsInv, NEW f \in flights, ModelLands(f) PROVE AllLater
<1>1. CASE f.answer = Declined
  BY <1>1, SameLater DEF ModelLands, Goes
<1>2. CASE f.answer # Declined
  <2>8. PICK body : body = [f.request EXCEPT !.model = None, !.modelId = f.answer]
    OBVIOUS
  <2>9. PICK account :
            account = [f EXCEPT !.answer = None, !.request = [@ EXCEPT !.model = None, !.modelId = f.answer]]
    OBVIOUS
  <2>1. /\ f.kind = "write" /\ f.answer # None /\ f.request.model # None
        /\ \/ flights' = (flights \ {f}) \cup {account}
           \/ flights' = LetGo(f) \cup {account}
    BY <1>2, <2>9, Zenon DEF ModelLands
  <2>2. IsFlight(f)
    BY DEF FlightsInv
  <2>6. account = [kind |-> f.kind, request |-> body, of |-> f.of, mine |-> f.mine,
                   answer |-> None, touched |-> f.touched, known |-> f.known]
    <3>1. account = [f EXCEPT !.answer = None, !.request = body]
      BY <2>8, <2>9, Zenon
    <3> QED
      BY <2>2, <3>1 DEF IsFlight
  <2>7. body = [id |-> body.id, label |-> body.label, model |-> body.model, modelId |-> body.modelId,
                base |-> body.base, opening |-> body.opening, reassign |-> body.reassign]
    BY <2>1, <2>2, <2>8 DEF IsFlight
  <2>3. /\ account.kind = f.kind /\ account.of = f.of /\ account.touched = f.touched
        /\ account.mine = f.mine /\ account.known = f.known /\ account.answer = None
        /\ account.request = body
        /\ IsFlight(account)
    BY <2>6, <2>7, <2>2 DEF IsFlight
  <2>4. Follows(f, account)
    BY <1>2, <2>1, <2>3, <2>8 DEF Follows, ModelMade
  <2>5. \A g \in flights : Follows(g, g)
    BY DEF FlightsInv, Follows
  <2> QED
    BY <2>1, <2>4, <2>5, LetGoLater DEF AllLater
<1> QED
  BY <1>1, <1>2

Asking == RemoveModel \/ RemoveAccount \/ Reassign \/ submit

LEMMA FlightsMove == ASSUME FlightsInv, [Next]_vars PROVE AllLater \/ Asking
<1>1. ASSUME NEW f \in flights,
             \/ f.kind = "write" /\ f.request.model # None /\ WriteModel(f, Tax!bodyOf(f.request.model.draft))
             \/ f.kind = "write" /\ WriteAccount(f, f.request)
             \/ delete_taxation_model(f) \/ delete_account(f) \/ reassign_events(f)
      PROVE  AllLater
  <2>1. f.answer = None /\ \E answer : Answers(f, answer)
    BY <1>1 DEF WriteModel, create_taxation_model, update_taxation_model, WriteAccount, create_account,
       update_account, delete_taxation_model, delete_account, reassign_events
  <2> QED
    BY <2>1, AnswersLater
<1>2. ASSUME NEW f \in flights,
             \/ delete_stops(f) \/ Lost(f) \/ AccountLands(f) \/ DropLands(f) \/ ReassignmentLands(f)
      PROVE  AllLater
  BY <1>2, SameLater, LetGoLater DEF delete_stops, Lost, AccountLands, DropLands, ReassignmentLands, Goes, AllLater
<1>3. CASE Elsewhere
  BY <1>3, DisturbedLater DEF Elsewhere, AllLater
<1>4. CASE ReadsLand \/ Close \/ Set \/ Untick \/ Edit \/ Retype \/ Revert \/ UNCHANGED vars
  BY <1>4, SameLater DEF ReadsLand, Close, onClose, Set, Untick, Edit, Retype, Revert, idle, vars
<1>5. CASE Declare \/ OpenAccount
  BY <1>5, DisownedLater DEF Declare, OpenAccount, Opens
<1>6. CASE ChooseNew \/ Choose(None) \/ (\E m \in Proposed : Choose(m))
  BY <1>6, DisownedLater DEF ChooseNew, Choose
<1> QED
  BY <1>1, <1>2, <1>3, <1>4, <1>5, <1>6, ModelLandsLater DEF Next, Asking

(* What the panel asks for is of the panel, and is added to the rest.       *)
IsAsked(f) ==
    /\ IsFlight(f)
    /\ f.of = PanelOf(editing) /\ f.mine /\ f.answer = None /\ f.touched = touched
    /\ f.known = (list = accounts_payload /\ ledger = booked)
LEMMA FlightAsked ==
    ASSUME NEW kind, NEW request,
           kind = "write" => request = [id |-> request.id, label |-> request.label,
               model |-> request.model, modelId |-> request.modelId, base |-> request.base,
               opening |-> request.opening, reassign |-> request.reassign]
    PROVE  IsAsked(Flight(kind, request)) /\ Flight(kind, request).kind = kind
           /\ Flight(kind, request).request = request
BY DEF IsAsked, IsFlight, Flight

IsWrite(request) ==
    request = [id |-> draft.id, label |-> LabelSent, model |-> ModelBody, modelId |-> taxationModel,
               base |-> IF Account THEN editing.model ELSE None, opening |-> Opening,
               reassign |-> offered /\ reassign]
LEMMA AskingAdds ==
    ASSUME Asking
    PROVE  \E f : /\ IsAsked(f) /\ flights' = flights \cup {f}
                  /\ f.kind = "write" => submit /\ IsWrite(f.request)
                  /\ f.kind = "drop" => RemoveModel
<1>1. ASSUME NEW request PROVE IsAsked(Flight("drop", request)) /\ Flight("drop", request).kind = "drop"
  BY FlightAsked
<1>2. ASSUME NEW request PROVE IsAsked(Flight("remove", request)) /\ Flight("remove", request).kind = "remove"
  BY FlightAsked
<1>3. ASSUME NEW request PROVE IsAsked(Flight("reassign", request)) /\ Flight("reassign", request).kind = "reassign"
  BY FlightAsked
<1>4. CASE RemoveModel
  BY <1>1, <1>4 DEF RemoveModel, Asks
<1>5. CASE RemoveAccount
  BY <1>2, <1>5 DEF RemoveAccount, Asks
<1>6. CASE Reassign
  BY <1>3, <1>6 DEF Reassign, Asks
<1>7. CASE submit
  <2> DEFINE body == [id |-> draft.id, label |-> LabelSent, model |-> ModelBody, modelId |-> taxationModel,
            base |-> IF Account THEN editing.model ELSE None, opening |-> Opening,
            reassign |-> offered /\ reassign]
  <2> HIDE DEF body
  <2>1. body = [id |-> body.id, label |-> body.label,
               model |-> body.model, modelId |-> body.modelId, base |-> body.base,
               opening |-> body.opening, reassign |-> body.reassign]
    BY DEF body
  <2>2. flights' = flights \cup {Flight("write", body)}
    BY <1>7 DEF submit, Asks, body
  <2>3. IsAsked(Flight("write", body)) /\ Flight("write", body).kind = "write"
        /\ Flight("write", body).request = body
    BY <2>1, FlightAsked
  <2>4. IsWrite(body)
    BY DEF body, IsWrite
  <2> QED
    BY <1>7, <2>2, <2>3, <2>4
<1> QED
  BY <1>4, <1>5, <1>6, <1>7 DEF Asking

LEMMA FlightsStep == ASSUME FlightsInv, [Next]_vars PROVE FlightsInv'
<1>1. ASSUME AllLater PROVE FlightsInv'
  BY <1>1 DEF AllLater, FlightsInv, Follows
<1>2. ASSUME Asking PROVE FlightsInv'
  BY <1>2, AskingAdds DEF FlightsInv, IsAsked
<1> QED
  BY <1>1, <1>2, FlightsMove

-----------------------------------------------------------------------------
(* The panel.  What is its own was asked from it.                          *)
OwnInv == \A f \in flights : f.mine /\ editing # Shut => f.of = PanelOf(editing)
PanelInv == RefusalIsOfItsPanel /\ OwnInv

LEMMA Disowned ==
    ASSUME FlightsInv, Declare \/ OpenAccount
    PROVE  \A g \in flights' : ~g.mine
<1>1. ASSUME NEW g \in flights' PROVE ~g.mine
  <2>1. PICK f \in flights : g = [f EXCEPT !.mine = FALSE]
    BY <1>1 DEF Declare, OpenAccount, Opens
  <2>2. IsFlight(f)
    BY DEF FlightsInv
  <2> QED
    BY <2>1, <2>2 DEF IsFlight
<1> QED
  BY <1>1

(* A panel stays, shuts, or opens anew. *)
Starts == (\E account : Reset(account)) /\ \A g \in flights' : ~g.mine
Shuts == Reset(Shut)
Stays == UNCHANGED editing
LEMMA PanelMoves == ASSUME FlightsInv, [Next]_vars PROVE Stays \/ Shuts \/ Starts
<1>1. ASSUME NEW f \in flights, NEW body,
             \/ WriteModel(f, body) \/ WriteAccount(f, body)
             \/ delete_taxation_model(f) \/ delete_account(f) \/ delete_stops(f) \/ reassign_events(f)
             \/ Lost(f) \/ ModelLands(f) \/ DropLands(f) \/ ReassignmentLands(f)
      PROVE  Stays
  BY <1>1 DEF WriteModel, WriteAccount, delete_taxation_model, delete_account, delete_stops,
     reassign_events, Lost, ModelLands, DropLands, ReassignmentLands, Stays, panel
<1>2. ASSUME NEW f \in flights, AccountLands(f) PROVE Stays \/ Shuts
  BY <1>2 DEF AccountLands, Stays, Shuts
<1>3. CASE Declare \/ OpenAccount
  BY <1>3, Disowned DEF Declare, OpenAccount, Opens, Starts
<1>4. CASE Close
  BY <1>4 DEF Close, onClose, Shuts
<1>5. CASE ReadsLand \/ Elsewhere \/ Set \/ Untick \/ Edit \/ Retype \/ Revert \/ ChooseNew
  BY <1>5 DEF ReadsLand, Elsewhere, Set, Untick, Edit, Retype, Revert, ChooseNew, idle, panel, Stays
<1>6. CASE \/ Choose(None) \/ (\E m \in Proposed : Choose(m)) \/ Asking \/ UNCHANGED vars
  BY <1>6 DEF Choose, Asking, RemoveModel, RemoveAccount, Reassign, submit, vars, panel, Stays
<1> QED
  BY <1>1, <1>2, <1>3, <1>4, <1>5, <1>6 DEF Next, Asking

LEMMA OwnStep == ASSUME FlightsInv, OwnInv, [Next]_vars PROVE OwnInv'
<1>1. CASE Starts \/ Shuts
  BY <1>1 DEF Starts, Shuts, Reset, OwnInv
<1>2. CASE Stays
  <2>1. ASSUME AllLater PROVE OwnInv'
    BY <1>2, <2>1 DEF AllLater, Follows, OwnInv, Stays, PanelOf
  <2>2. ASSUME Asking PROVE OwnInv'
    BY <1>2, <2>2, AskingAdds DEF IsAsked, OwnInv, Stays, PanelOf
  <2> QED
    BY <2>1, <2>2, FlightsMove
<1> QED
  BY <1>1, <1>2, PanelMoves

LEMMA RefusalStep ==
    ASSUME FlightsInv, PanelInv, [Next]_vars
    PROVE  RefusalIsOfItsPanel'
<1>1. ASSUME UNCHANGED <<editing, writeError, removeError>> PROVE RefusalIsOfItsPanel'
  BY <1>1 DEF PanelInv, RefusalIsOfItsPanel, PanelOf
<1>2. ASSUME NEW account, Reset(account) PROVE RefusalIsOfItsPanel'
  BY <1>2 DEF Reset, RefusalIsOfItsPanel
<1>3. ASSUME NEW f \in flights, Fails(f), UNCHANGED editing PROVE RefusalIsOfItsPanel'
  BY <1>3 DEF Fails, PanelInv, OwnInv, RefusalIsOfItsPanel, PanelOf
<1>4. ASSUME NEW f \in flights, NEW body,
             \/ WriteModel(f, body) \/ WriteAccount(f, body)
             \/ delete_taxation_model(f) \/ delete_account(f) \/ reassign_events(f)
             \/ ModelLands(f) \/ DropLands(f) \/ ReassignmentLands(f)
      PROVE  RefusalIsOfItsPanel'
  BY <1>1, <1>4 DEF WriteModel, WriteAccount, delete_taxation_model, delete_account,
     reassign_events, ModelLands, DropLands, ReassignmentLands, panel
<1>5. ASSUME NEW f \in flights, delete_stops(f) \/ Lost(f) \/ AccountLands(f)
      PROVE  RefusalIsOfItsPanel'
  BY <1>1, <1>2, <1>3, <1>5 DEF delete_stops, Lost, AccountLands
<1>6. CASE Declare \/ OpenAccount \/ Close
  BY <1>2, <1>6 DEF Declare, OpenAccount, Opens, Close, onClose
<1>7. CASE \/ ReadsLand \/ Elsewhere \/ Set \/ Untick \/ Edit \/ Retype \/ Revert \/ ChooseNew
           \/ Choose(None) \/ (\E m \in Proposed : Choose(m))
  BY <1>1, <1>7 DEF ReadsLand, Elsewhere, Set, Untick, Edit, Retype, Revert, ChooseNew, Choose, idle, panel
<1>8. CASE RemoveModel \/ Reassign \/ UNCHANGED vars
  BY <1>1, <1>8 DEF RemoveModel, Reassign, vars, panel
<1>9. CASE RemoveAccount \/ submit
  BY <1>9 DEF RemoveAccount, submit, PanelInv, RefusalIsOfItsPanel, PanelOf
<1> QED
  BY <1>4, <1>5, <1>6, <1>7, <1>8, <1>9 DEF Next

(* One panel serves every account, and what was asked from it may answer   *)
(* when it is open on another: a refusal it shows is of its own account     *)
(* (AccountForm.tsx, the effect that starts it again).                     *)
THEOREM RefusalsAreOfTheirPanel == Spec => []RefusalIsOfItsPanel
<1>1. Init => FlightsInv /\ PanelInv
  BY DEF Init, FlightsInv, PanelInv, OwnInv, RefusalIsOfItsPanel
<1>2. FlightsInv /\ PanelInv /\ [Next]_vars => (FlightsInv /\ PanelInv)'
  BY FlightsStep, OwnStep, RefusalStep DEF PanelInv
<1> QED
  BY <1>1, <1>2, PTL DEF Spec, PanelInv

-----------------------------------------------------------------------------
(* A panel whose model nobody moved holds the model of its account, and    *)
(* asks for no other.                                                      *)
IsTouched ==
    /\ touched = [model |-> touched.model, box |-> touched.box, crossed |-> touched.crossed]
    /\ touched.model \in BOOLEAN /\ touched.box \in BOOLEAN /\ touched.crossed \in BOOLEAN
Left == Account /\ ~touched.model /\ ~touched.crossed
LeftHolds == Left => taxationModel = editing.model /\ modelEditing = None
LeftAsks ==
    \A f \in flights : Left /\ f.mine =>
        f.kind # "drop" /\ (f.kind = "write" => f.request.model = None)
LeftInv == IsTouched /\ LeftHolds /\ LeftAsks
RenameInv ==
    \A f \in flights : f.kind = "write" /\ f.of # New /\ ~f.touched.model /\ ~f.touched.crossed =>
        f.request.model = None /\ f.request.modelId = f.request.base

(* What is touched stays so while the panel does. *)
LeftBefore == IsTouched' /\ (Left' => Left)
LEMMA TouchedSame == ASSUME IsTouched, UNCHANGED <<touched, editing>> PROVE LeftBefore
BY DEF IsTouched, LeftBefore, Left, Account
LEMMA ModelTouched ==
    ASSUME IsTouched, UNCHANGED editing, touched' = [touched EXCEPT !.model = Account]
    PROVE  LeftBefore /\ ~Left'
<1>1. Account \in BOOLEAN
  BY DEF Account
<1> QED
  BY <1>1 DEF IsTouched, LeftBefore, Left, Account
LEMMA BoxTouched ==
    ASSUME IsTouched, UNCHANGED editing, touched' = [touched EXCEPT !.box = TRUE]
    PROVE  LeftBefore
BY DEF IsTouched, LeftBefore, Left, Account
LEMMA CrossesTouched ==
    ASSUME IsTouched, UNCHANGED editing, NEW f, Crosses(f)
    PROVE  LeftBefore /\ (Left' => f.mine)
<1>1. PICK crossed : crossed = (touched.crossed \/ (Account /\ ~(f.mine /\ PanelOf(editing) = f.of)))
  OBVIOUS
<1>2. touched' = [touched EXCEPT !.crossed = crossed]
  BY <1>1 DEF Crosses
<1>3. crossed \in BOOLEAN /\ (~crossed => ~touched.crossed /\ (Account => f.mine))
  BY <1>1
<1> QED
  BY <1>2, <1>3 DEF IsTouched, LeftBefore, Left, Account

LEMMA TouchedStep == ASSUME IsTouched, FlightsInv, [Next]_vars PROVE IsTouched' /\ (Stays => LeftBefore \/ Starts \/ Shuts)
<1>1. ASSUME NEW account, Reset(account) PROVE IsTouched'
  BY <1>1 DEF Reset, Untouched, IsTouched
<1>2. ASSUME NEW f \in flights, NEW body,
             \/ WriteModel(f, body) \/ WriteAccount(f, body)
             \/ delete_taxation_model(f) \/ delete_account(f) \/ delete_stops(f) \/ reassign_events(f)
             \/ Lost(f) \/ ReassignmentLands(f)
      PROVE  LeftBefore
  BY <1>2, TouchedSame DEF WriteModel, WriteAccount, delete_taxation_model, delete_account, delete_stops,
     reassign_events, Lost, ReassignmentLands, panel
<1>3. ASSUME NEW f \in flights, ModelLands(f) \/ DropLands(f) PROVE LeftBefore
  BY <1>3, TouchedSame, CrossesTouched DEF ModelLands, DropLands
<1>4. ASSUME NEW f \in flights, AccountLands(f) PROVE LeftBefore \/ Shuts
  BY <1>4, TouchedSame DEF AccountLands, Shuts
<1>5. ASSUME Declare \/ OpenAccount \/ Close PROVE Starts \/ Shuts
  BY <1>5, Disowned DEF Declare, OpenAccount, Opens, Starts, Close, onClose, Shuts
<1>6. ASSUME ReadsLand \/ Elsewhere \/ Set \/ Untick \/ Retype \/ Revert PROVE LeftBefore
  BY <1>6, TouchedSame, BoxTouched DEF ReadsLand, Elsewhere, Set, Untick, Retype, Revert, idle, panel
<1>7. ASSUME Edit \/ ChooseNew \/ Choose(None) \/ (\E m \in Proposed : Choose(m)) \/ RemoveModel
      PROVE  LeftBefore
  BY <1>7, ModelTouched DEF Edit, ChooseNew, Choose, idle, RemoveModel
<1>8. ASSUME RemoveAccount \/ Reassign \/ submit \/ UNCHANGED vars PROVE LeftBefore
  BY <1>8, TouchedSame DEF RemoveAccount, Reassign, submit, vars, panel
<1>9. LeftBefore \/ Starts \/ Shuts
  BY <1>2, <1>3, <1>4, <1>5, <1>6, <1>7, <1>8 DEF Next
<1> QED
  BY <1>1, <1>9 DEF Starts, Shuts, LeftBefore

LEMMA LeftHoldsStep ==
    ASSUME FlightsInv, OwnInv, LeftInv, [Next]_vars
    PROVE  LeftHolds'
<1>1. ASSUME NEW account, Reset(account) PROVE LeftHolds'
  BY <1>1 DEF Reset, LeftHolds, Left, Account
<1>2. ASSUME LeftBefore, UNCHANGED <<editing, taxationModel, modelEditing>> PROVE LeftHolds'
  BY <1>2 DEF LeftBefore, LeftInv, LeftHolds
<1>3. ASSUME UNCHANGED <<touched, editing, taxationModel, modelEditing>> PROVE LeftHolds'
  BY <1>2, <1>3, TouchedSame DEF LeftInv
<1>4. ASSUME NEW f \in flights, NEW body,
             \/ WriteModel(f, body) \/ WriteAccount(f, body)
             \/ delete_taxation_model(f) \/ delete_account(f) \/ delete_stops(f) \/ reassign_events(f)
             \/ Lost(f) \/ AccountLands(f) \/ ReassignmentLands(f)
      PROVE  LeftHolds'
  BY <1>1, <1>3, <1>4 DEF WriteModel, WriteAccount, delete_taxation_model, delete_account, delete_stops,
     reassign_events, Lost, AccountLands, ReassignmentLands, panel
<1>5. ASSUME NEW f \in flights, ModelLands(f) \/ DropLands(f) PROVE LeftHolds'
  <2>1. LeftBefore /\ UNCHANGED editing
    BY <1>5, TouchedSame, CrossesTouched DEF ModelLands, DropLands, LeftInv
  <2>2. CASE UNCHANGED <<taxationModel, modelEditing>>
    BY <1>2, <2>1, <2>2
  <2>3. CASE Crosses(f) /\ (f.kind = "drop" \/ (f.kind = "write" /\ f.request.model # None))
    <3>2. Left' => Left /\ f.mine
      BY <2>1, <2>3, CrossesTouched DEF LeftBefore, LeftInv
    <3> QED
      BY <2>3, <3>2 DEF LeftHolds, LeftInv, LeftAsks
  <2> QED
    BY <1>5, <2>2, <2>3 DEF ModelLands, DropLands
<1>6. CASE Declare \/ OpenAccount \/ Close
  BY <1>1, <1>6 DEF Declare, OpenAccount, Opens, Close, onClose
<1>7. CASE ReadsLand \/ Elsewhere \/ Set \/ Untick
  BY <1>2, <1>7, TouchedSame, BoxTouched DEF ReadsLand, Elsewhere, Set, Untick, idle, panel, LeftInv
<1>8. CASE Retype \/ Revert
  BY <1>8, TouchedSame DEF Retype, Revert, idle, LeftBefore, LeftInv, LeftHolds
<1>9. CASE Edit \/ ChooseNew \/ Choose(None) \/ (\E m \in Proposed : Choose(m)) \/ RemoveModel
  <2>1. touched' = [touched EXCEPT !.model = Account] /\ UNCHANGED editing
    BY <1>9 DEF Edit, ChooseNew, Choose, idle, RemoveModel
  <2> QED
    BY <2>1, ModelTouched DEF LeftHolds, LeftInv
<1>10. CASE RemoveAccount \/ Reassign \/ submit \/ UNCHANGED vars
  BY <1>3, <1>10 DEF RemoveAccount, Reassign, submit, vars, panel
<1> QED
  BY <1>4, <1>5, <1>6, <1>7, <1>8, <1>9, <1>10 DEF Next

LEMMA LeftAsksStep ==
    ASSUME FlightsInv, LeftInv, [Next]_vars
    PROVE  LeftAsks'
<1>1. CASE Starts \/ Shuts
  BY <1>1 DEF Starts, Shuts, Reset, LeftAsks, Left, Account
<1>2. CASE LeftBefore
  <2>1. ASSUME AllLater PROVE LeftAsks'
    <3>1. ASSUME NEW g \in flights', Left', g.mine
          PROVE  g.kind # "drop" /\ (g.kind = "write" => g.request.model = None)
      <4>1. PICK f \in flights : Follows(f, g)
        BY <2>1, <3>1 DEF AllLater
      <4>2. f.kind # "drop" /\ (f.kind = "write" => f.request.model = None)
        BY <1>2, <3>1, <4>1 DEF Follows, LeftBefore, LeftInv, LeftAsks
      <4> QED
        BY <4>1, <4>2 DEF Follows, ModelMade
    <3> QED
      BY <3>1 DEF LeftAsks
  <2>2. ASSUME Asking PROVE LeftAsks'
    <3>1. PICK f : /\ IsAsked(f) /\ flights' = flights \cup {f}
                   /\ f.kind = "write" => submit /\ IsWrite(f.request)
                   /\ f.kind = "drop" => RemoveModel
      BY <2>2, AskingAdds
    <3>2. ASSUME Left' PROVE f.kind # "drop"
      <4>1. ~RemoveModel
        BY <3>2, ModelTouched DEF RemoveModel, LeftInv
      <4> QED
        BY <3>1, <4>1
    <3>3. ASSUME Left', f.kind = "write" PROVE f.request.model = None
      BY <1>2, <3>1, <3>3 DEF LeftBefore, LeftInv, LeftHolds, IsWrite, ModelBody
    <3> QED
      BY <1>2, <3>1, <3>2, <3>3 DEF LeftBefore, LeftInv, LeftAsks
  <2> QED
    BY <2>1, <2>2, FlightsMove
<1> QED
  BY <1>1, <1>2, PanelMoves, TouchedStep DEF LeftInv

LEMMA RenameStep ==
    ASSUME FlightsInv, LeftInv, RenameInv, [Next]_vars
    PROVE  RenameInv'
<1>1. ASSUME AllLater PROVE RenameInv'
  <2>1. ASSUME NEW g \in flights', g.kind = "write", g.of # New, ~g.touched.model, ~g.touched.crossed
        PROVE  g.request.model = None /\ g.request.modelId = g.request.base
    <3>1. PICK f \in flights : Follows(f, g)
      BY <1>1, <2>1 DEF AllLater
    <3>2. f.request.model = None /\ f.request.modelId = f.request.base
      BY <2>1, <3>1 DEF Follows, RenameInv
    <3> QED
      BY <2>1, <3>1, <3>2 DEF Follows, ModelMade
  <2> QED
    BY <2>1 DEF RenameInv
<1>2. ASSUME Asking PROVE RenameInv'
  <2>1. PICK f : /\ IsAsked(f) /\ flights' = flights \cup {f}
                 /\ f.kind = "write" => submit /\ IsWrite(f.request)
                 /\ f.kind = "drop" => RemoveModel
    BY <1>2, AskingAdds
  <2>2. ASSUME f.kind = "write", f.of # New, ~f.touched.model, ~f.touched.crossed
        PROVE  f.request.model = None /\ f.request.modelId = f.request.base
    <3>1. Left
      BY <2>1, <2>2 DEF IsAsked, submit, PanelOf, Left, Account
    <3> QED
      BY <2>1, <2>2, <3>1 DEF LeftInv, LeftHolds, IsWrite, ModelBody, Left
  <2> QED
    BY <2>1, <2>2 DEF RenameInv
<1> QED
  BY <1>1, <1>2, FlightsMove

(* A rename stays a rename: what its reader left alone in the panel is left *)
(* alone in the store, whoever gave the account another model meanwhile, and *)
(* whatever other panels and answers did (AccountForm.tsx, submit;          *)
(* accounts.py, set_taxation_model).                                       *)
THEOREM RenamesKeep == ASSUME SeedIsStored PROVE Spec => RenameKeeps
<1> DEFINE Inv == StoreInv /\ FlightsInv /\ OwnInv /\ LeftInv /\ RenameInv
<1>1. Init => Inv
  <2>1. Init => FlightsInv /\ OwnInv /\ LeftAsks /\ RenameInv /\ LeftHolds
    BY DEF Init, FlightsInv, OwnInv, LeftHolds, LeftAsks, Left, Account, RenameInv
  <2>2. Init => IsTouched
    BY DEF Init, IsTouched, Untouched
  <2> QED
    BY <2>1, <2>2, StoreStart DEF LeftInv
<1>2. Inv /\ [Next]_vars => Inv'
  BY StoreStep, FlightsStep, OwnStep, TouchedStep, LeftHoldsStep, LeftAsksStep, RenameStep DEF LeftInv
<1> DEFINE Keeps == \A f \in flights :
         f.kind = "write" /\ f.of # New /\ WriteAccount(f, f.request) =>
             /\ ~f.touched.model /\ ~f.touched.crossed =>
                    \A id \in Accounts : facts'[id].model = facts[id].model
             /\ booked' = booked
<1>3. ASSUME Inv, NEW f \in flights, f.kind = "write", f.of # New, WriteAccount(f, f.request)
      PROVE  /\ booked' = booked
             /\ ~f.touched.model /\ ~f.touched.crossed =>
                    \A id \in Accounts : facts'[id].model = facts[id].model
  <2>1. update_account(f, f.request)
    BY <1>3 DEF WriteAccount, create_account
  <2>2. CASE ~f.touched.model /\ ~f.touched.crossed
    <3>1. f.request.modelId = f.request.base
      BY <1>3, <2>2 DEF RenameInv
    <3>2. \/ UNCHANGED facts
          \/ facts' = [facts EXCEPT ![f.of] = [model |-> facts[f.of].model,
                                              opened |-> Given(f.request.opening, facts[f.of].opened)]]
      BY <2>1, <3>1 DEF update_account, carried
    <3> QED
      BY <1>3, <2>1, <3>2 DEF StoreInv, update_account
  <2> QED
    BY <2>1, <2>2 DEF update_account
<1>4. Inv /\ [Next]_vars => [Keeps]_vars
  BY <1>3
<1> QED
  BY <1>1, <1>2, <1>4, PTL DEF Spec, RenameKeeps

-----------------------------------------------------------------------------
(* The first declaration.  It is sent with its box ticked, unless there was *)
(* nothing to take, and what has moved since is known to have.             *)
NamesAreApart ==
    /\ None # DEFAULT_ACCOUNT_ID /\ New \notin Opened
    /\ Declined # None /\ Done # None
    /\ \A declared, accounts : None # [declared |-> declared, accounts |-> accounts]

FormInv ==
    /\ draft = [id |-> draft.id, label |-> draft.label, openedOn |-> draft.openedOn]
    /\ reassign \in BOOLEAN
    /\ Account => editing.id \in Opened
    /\ editing = New => draft.id # DEFAULT_ACCOUNT_ID /\ (touched.box \/ reassign)
NamedInv == \A f \in flights : f.kind = "write" /\ f.of = New => f.request.id # DEFAULT_ACCOUNT_ID
Unmade(f) == f.kind = "write" /\ f.of = New /\ (f.answer = None \/ f.request.model # None)
ClaimInv ==
    ~Declared /\ labels[DEFAULT_ACCOUNT_ID] = None =>
        \A f \in flights : Unmade(f) /\ f.known /\ ~f.touched.box =>
            f.request.reassign \/ booked[DEFAULT_ACCOUNT_ID] = 0

LEMMA FormStep ==
    ASSUME FlightsInv, IsTouched, FormInv, NamesAreApart, [Next]_vars
    PROVE  FormInv'
<1>1. ASSUME NEW account, Reset(account), account \in {Shut, New} \/ account.id \in Opened PROVE FormInv'
  <2>1. CASE account \in {Shut, New}
    BY <1>1, <2>1 DEF Reset, EMPTY, FormInv, Account, NamesAreApart
  <2>2. CASE account \notin {Shut, New}
    BY <1>1, <2>2 DEF Reset, FormInv, Account
  <2> QED
    BY <2>1, <2>2
<1>2. ASSUME UNCHANGED <<editing, draft, reassign>>, touched.box => touched'.box PROVE FormInv'
  BY <1>2 DEF FormInv, Account
<1>3. ASSUME UNCHANGED <<editing, draft, reassign, touched>> PROVE FormInv'
  BY <1>2, <1>3
<1>4. ASSUME NEW f \in flights, NEW body,
             \/ WriteModel(f, body) \/ WriteAccount(f, body)
             \/ delete_taxation_model(f) \/ delete_account(f) \/ delete_stops(f) \/ reassign_events(f)
             \/ Lost(f) \/ AccountLands(f) \/ ReassignmentLands(f)
      PROVE  FormInv'
  BY <1>1, <1>3, <1>4 DEF WriteModel, WriteAccount, delete_taxation_model, delete_account, delete_stops,
     reassign_events, Lost, AccountLands, ReassignmentLands, panel
<1>5. ASSUME NEW f \in flights, ModelLands(f) \/ DropLands(f) PROVE FormInv'
  <2>1. UNCHANGED <<editing, draft, reassign>> /\ (Crosses(f) \/ UNCHANGED touched)
    BY <1>5 DEF ModelLands, DropLands
  <2>2. CASE Crosses(f)
    <3>1. PICK crossed : touched' = [touched EXCEPT !.crossed = crossed]
      BY <2>2 DEF Crosses
    <3> QED
      BY <1>2, <2>1, <3>1 DEF IsTouched
  <2> QED
    BY <1>3, <2>1, <2>2
<1>6. CASE Declare \/ Close
  BY <1>1, <1>6 DEF Declare, Opens, Close, onClose
<1>7. CASE OpenAccount
  BY <1>1, <1>7 DEF OpenAccount, Opens
<1>8. CASE Set
  <2>1. UNCHANGED <<editing, reassign, touched>>
    BY <1>8 DEF Set, idle
  <2>2. PICK id, label, day :
            /\ editing = New /\ id # draft.id => id # DEFAULT_ACCOUNT_ID
            /\ draft' = [id |-> id, label |-> label, openedOn |-> day]
    <3>1. CASE \E id \in Ids \ {DEFAULT_ACCOUNT_ID} : editing = New /\ draft' = [draft EXCEPT !.id = id]
      BY <3>1 DEF FormInv
    <3>2. CASE \E label \in Labels : draft' = [draft EXCEPT !.label = label]
      BY <3>2 DEF FormInv
    <3>3. CASE \E day \in Days : draft' = [draft EXCEPT !.openedOn = day]
      BY <3>3 DEF FormInv
    <3> QED
      BY <1>8, <3>1, <3>2, <3>3 DEF Set
  <2> QED
    BY <2>1, <2>2 DEF FormInv, Account
<1>9. CASE Untick
  <2>1. /\ UNCHANGED <<editing, draft>> /\ reassign' = ~reassign
        /\ touched' = [touched EXCEPT !.box = TRUE]
    BY <1>9 DEF Untick, idle
  <2>2. touched'.box = TRUE
    BY <2>1 DEF IsTouched
  <2> QED
    BY <2>1, <2>2 DEF FormInv, Account
<1>10. CASE ReadsLand \/ Elsewhere \/ Retype \/ Revert
  BY <1>3, <1>10 DEF ReadsLand, Elsewhere, Retype, Revert, idle, panel
<1>11. CASE Edit \/ ChooseNew \/ Choose(None) \/ (\E m \in Proposed : Choose(m)) \/ RemoveModel
  <2>1. touched' = [touched EXCEPT !.model = Account] /\ UNCHANGED <<editing, draft, reassign>>
    BY <1>11 DEF Edit, ChooseNew, Choose, idle, RemoveModel
  <2> QED
    BY <1>2, <2>1 DEF IsTouched
<1>12. CASE RemoveAccount \/ Reassign \/ submit \/ UNCHANGED vars
  BY <1>3, <1>12 DEF RemoveAccount, Reassign, submit, vars, panel
<1> QED
  BY <1>4, <1>5, <1>6, <1>7, <1>8, <1>9, <1>10, <1>11, <1>12 DEF Next

(* A request of the panel of a declaration. *)
LEMMA OfDeclaration ==
    ASSUME FormInv, NamesAreApart, submit, PanelOf(editing) = New
    PROVE  editing = New
BY DEF FormInv, NamesAreApart, submit, PanelOf, Account

LEMMA NamedStep ==
    ASSUME FlightsInv, FormInv, NamesAreApart, NamedInv, [Next]_vars
    PROVE  NamedInv'
<1>1. ASSUME AllLater PROVE NamedInv'
  <2>1. ASSUME NEW g \in flights', g.kind = "write", g.of = New PROVE g.request.id # DEFAULT_ACCOUNT_ID
    <3>1. PICK f \in flights : Follows(f, g)
      BY <1>1, <2>1 DEF AllLater
    <3>2. f.kind = "write" /\ f.request.id # DEFAULT_ACCOUNT_ID
      BY <2>1, <3>1 DEF Follows, NamedInv
    <3>3. CASE ModelMade(f, g)
      <4>1. IsFlight(f)
        BY DEF FlightsInv
      <4> QED
        BY <3>2, <3>3, <4>1 DEF ModelMade, IsFlight
    <3> QED
      BY <3>1, <3>2, <3>3 DEF Follows
  <2> QED
    BY <2>1 DEF NamedInv
<1>2. ASSUME Asking PROVE NamedInv'
  <2>1. PICK f : /\ IsAsked(f) /\ flights' = flights \cup {f}
                 /\ f.kind = "write" => submit /\ IsWrite(f.request)
                 /\ f.kind = "drop" => RemoveModel
    BY <1>2, AskingAdds
  <2>2. ASSUME f.kind = "write", f.of = New PROVE f.request.id # DEFAULT_ACCOUNT_ID
    BY <2>1, <2>2, OfDeclaration DEF IsAsked, IsWrite, FormInv
  <2> QED
    BY <2>1, <2>2 DEF NamedInv
<1> QED
  BY <1>1, <1>2, FlightsMove

(* The store moves under what is in flight, and that is known.             *)
LEMMA StoreMoves ==
    ASSUME FlightsInv, NamesAreApart, [Next]_vars
    PROVE  UNCHANGED <<labels, booked>> \/ (AllLater /\ \A g \in flights' : Unmade(g) => ~g.known)
<1>1. ASSUME NEW g \in Disturbed PROVE ~g.known
  <2>1. PICK f \in flights : g = [f EXCEPT !.known = FALSE]
    BY <1>1 DEF Disturbed
  <2>2. IsFlight(f)
    BY DEF FlightsInv
  <2> QED
    BY <2>1, <2>2 DEF IsFlight
<1>2. ASSUME NEW f \in flights, f.answer = None, Answers(f, Done), f.kind = "write" => f.request.model = None
      PROVE  AllLater /\ \A g \in flights' : Unmade(g) => ~g.known
  <2>1. PICK answered : answered = [f EXCEPT !.answer = Done]
    OBVIOUS
  <2>2. IsFlight(f)
    BY DEF FlightsInv
  <2>3. ~Unmade(answered)
    BY <1>2, <2>1, <2>2 DEF IsFlight, Unmade, NamesAreApart
  <2>4. \A g \in flights' : g \in Disturbed \/ g = answered
    BY <1>2, <2>1 DEF Answers
  <2> QED
    BY <1>1, <1>2, <2>3, <2>4, AnswersLater
<1>3. ASSUME NEW f \in flights, NEW body,
             \/ WriteModel(f, body) \/ delete_taxation_model(f) \/ delete_stops(f)
             \/ Lost(f) \/ ModelLands(f) \/ AccountLands(f) \/ DropLands(f) \/ ReassignmentLands(f)
      PROVE  UNCHANGED <<labels, booked>>
  BY <1>3 DEF WriteModel, delete_taxation_model, delete_stops, Lost, ModelLands, AccountLands, DropLands,
     ReassignmentLands, store
<1>4. ASSUME NEW f \in flights,
             \/ f.kind = "write" /\ WriteAccount(f, f.request)
             \/ delete_account(f) \/ reassign_events(f)
      PROVE  \/ UNCHANGED <<labels, booked>>
             \/ f.answer = None /\ Answers(f, Done) /\ (f.kind = "write" => f.request.model = None)
  BY <1>4 DEF WriteAccount, create_account, update_account, delete_account, reassign_events
<1>5. CASE Elsewhere
  BY <1>1, <1>5, DisturbedLater DEF Elsewhere, AllLater
<1>6. CASE ReadsLand \/ Declare \/ OpenAccount \/ Close \/ Set \/ Untick
  BY <1>6 DEF ReadsLand, Declare, OpenAccount, Opens, Close, onClose, Set, Untick, idle, store
<1>7. CASE Edit \/ Retype \/ Revert \/ ChooseNew \/ Choose(None) \/ (\E m \in Proposed : Choose(m))
  BY <1>7 DEF Edit, Retype, Revert, ChooseNew, Choose, idle, store
<1>8. CASE Asking \/ UNCHANGED vars
  BY <1>8 DEF Asking, RemoveModel, RemoveAccount, Reassign, submit, vars, store
<1> QED
  BY <1>2, <1>3, <1>4, <1>5, <1>6, <1>7, <1>8 DEF Next, Asking

(* A declaration asked for on what the server holds is offered the events   *)
(* nobody assigned.                                                        *)
LEMMA OfferedThen ==
    ASSUME NamesAreApart, StoreInv, SeedIsStored, submit, editing = New,
           list = accounts_payload, ledger = booked,
           ~Declared, labels[DEFAULT_ACCOUNT_ID] = None, booked[DEFAULT_ACCOUNT_ID] # 0
    PROVE  offered
<1>1. offer # None
  BY DEF submit, waiting
<1>2. offer = reassignmentOf(list, ledger[DEFAULT_ACCOUNT_ID])
  BY <1>1 DEF offer
<1>3. list # None /\ list.declared = Declared
  BY DEF accounts_payload, NamesAreApart
<1>4. ASSUME NEW a \in ToSet(list.accounts), isDefaultAccount(a.id) PROVE isSeededOnly(a)
  <2>1. \E id : a = AccountRecord(id)
    BY <1>4 DEF accounts_payload, ToSet
  <2>2. a.id = DEFAULT_ACCOUNT_ID /\ a.label = labels[a.id]
    BY <1>4, <2>1 DEF AccountRecord, isDefaultAccount
  <2> QED
    BY <2>2 DEF isSeededOnly, declaredLabel, isDefaultAccount
<1>5. offer = Offer("firstDeclaration", ledger[DEFAULT_ACCOUNT_ID], <<>>)
  BY <1>2, <1>3, <1>4 DEF reassignmentOf
<1>6. offer.kind = "firstDeclaration"
  BY <1>5 DEF Offer
<1> QED
  BY <1>1, <1>6 DEF offered

LEMMA ClaimStep ==
    ASSUME NamesAreApart, SeedIsStored, StoreInv, FlightsInv, FormInv, ClaimInv, [Next]_vars
    PROVE  ClaimInv'
<1>1. ASSUME AllLater, UNCHANGED <<labels, booked>> PROVE ClaimInv'
  <2>1. ASSUME NEW g \in flights', Unmade(g), g.known, ~g.touched.box, ~Declared,
               labels[DEFAULT_ACCOUNT_ID] = None
        PROVE  g.request.reassign \/ booked[DEFAULT_ACCOUNT_ID] = 0
    <3>1. PICK f \in flights : Follows(f, g)
      BY <1>1, <2>1 DEF AllLater
    <3>2. f.request.reassign \/ booked[DEFAULT_ACCOUNT_ID] = 0
      BY <2>1, <3>1 DEF Follows, ModelMade, ClaimInv, Unmade
    <3>3. CASE ModelMade(f, g)
      <4>1. IsFlight(f)
        BY DEF FlightsInv
      <4> QED
        BY <3>2, <3>3, <4>1 DEF ModelMade, IsFlight
    <3> QED
      BY <2>1, <3>1, <3>2, <3>3 DEF Follows, Unmade
  <2> QED
    BY <1>1, <2>1 DEF ClaimInv, Declared, Accounts, Unmade
<1>2. ASSUME Asking PROVE ClaimInv'
  <2>1. PICK f : /\ IsAsked(f) /\ flights' = flights \cup {f}
                 /\ f.kind = "write" => submit /\ IsWrite(f.request)
                 /\ f.kind = "drop" => RemoveModel
    BY <1>2, AskingAdds
  <2>2. UNCHANGED <<labels, booked>>
    BY <1>2 DEF Asking, RemoveModel, RemoveAccount, Reassign, submit, store
  <2>3. ASSUME Unmade(f), f.known, ~f.touched.box, ~Declared, labels[DEFAULT_ACCOUNT_ID] = None,
               booked[DEFAULT_ACCOUNT_ID] # 0
        PROVE  f.request.reassign
    <3>1. submit /\ editing = New
      BY <2>1, <2>3, OfDeclaration DEF Unmade, IsAsked
    <3>2. offered
      BY <2>1, <2>3, <3>1, OfferedThen DEF IsAsked
    <3>3. reassign
      BY <2>1, <2>3, <3>1 DEF FormInv, IsAsked
    <3>4. PICK claims \in BOOLEAN : claims = (offered /\ reassign)
      OBVIOUS
    <3>5. claims = TRUE
      BY <3>2, <3>3, <3>4
    <3>6. f.request.reassign = claims
      BY <2>1, <2>3, <3>4 DEF IsWrite, Unmade
    <3> QED
      BY <3>5, <3>6
  <2> QED
    BY <2>1, <2>2, <2>3 DEF ClaimInv, Declared, Accounts, Unmade
<1>3. ASSUME \A g \in flights' : Unmade(g) => ~g.known PROVE ClaimInv'
  BY <1>3 DEF ClaimInv, Unmade
<1> QED
  BY <1>1, <1>2, <1>3, FlightsMove, StoreMoves

(* The first declaration takes the events nobody assigned, unless its       *)
(* reader unticks it or something moves meanwhile: however the reads and    *)
(* the answers of other panels come, it is never sent without being offered *)
(* them (AccountForm.tsx, reassignmentOf; reassignment.py).                 *)
THEOREM DeclarationsClaim ==
    ASSUME SeedIsStored, NamesAreApart
    PROVE  Spec => ClaimsUnassigned
<1> DEFINE Inv == StoreInv /\ FlightsInv /\ IsTouched /\ FormInv /\ NamedInv /\ ClaimInv
<1>1. Init => Inv
  <2>1. Init => FlightsInv /\ NamedInv /\ ClaimInv
    BY DEF Init, FlightsInv, NamedInv, ClaimInv
  <2>2. Init => IsTouched
    BY DEF Init, IsTouched, Untouched
  <2>3. Init => FormInv
    BY DEF Init, FormInv, EMPTY, Account, NamesAreApart
  <2> QED
    BY <2>1, <2>2, <2>3, StoreStart
<1>2. Inv /\ [Next]_vars => Inv'
  BY StoreStep, FlightsStep, TouchedStep, FormStep, NamedStep, ClaimStep
<1> DEFINE Claims == \A f \in flights :
         f.kind = "write" /\ f.of = New /\ f.known /\ ~Declared /\ labels[DEFAULT_ACCOUNT_ID] = None
             /\ ~f.touched.box /\ WriteAccount(f, f.request) /\ f.request.id \in DOMAIN labels' =>
                    booked'[DEFAULT_ACCOUNT_ID] = 0
<1>3. ASSUME Inv, NEW f \in flights, f.kind = "write", f.of = New, f.known, ~Declared,
             labels[DEFAULT_ACCOUNT_ID] = None, ~f.touched.box, WriteAccount(f, f.request),
             f.request.id \in DOMAIN labels'
      PROVE  booked'[DEFAULT_ACCOUNT_ID] = 0
  <2>1. create_account(f, f.request) /\ f.answer = None
    BY <1>3 DEF WriteAccount, update_account
  <2>2. f.request.id # DEFAULT_ACCOUNT_ID /\ f.request.id \notin Accounts
    BY <1>3 DEF NamedInv, Declared
  <2>3. f.request.reassign \/ booked[DEFAULT_ACCOUNT_ID] = 0
    BY <1>3, <2>1 DEF ClaimInv, Unmade
  <2>4. IF f.request.reassign THEN reassign_unassigned(f.request.id) ELSE UNCHANGED booked
    BY <1>3, <2>1, <2>2 DEF create_account, Accounts
  <2>5. DEFAULT_ACCOUNT_ID \in DOMAIN booked
    BY <1>3 DEF StoreInv, SeedIsStored
  <2>6. ASSUME reassign_unassigned(f.request.id) PROVE booked'[DEFAULT_ACCOUNT_ID] = 0
    <3>1. PICK taken : booked' = [[booked EXCEPT ![f.request.id] = taken] EXCEPT ![DEFAULT_ACCOUNT_ID] = 0]
      BY <1>3, <2>6 DEF reassign_unassigned
    <3> QED
      BY <2>5, <3>1
  <2> QED
    BY <2>3, <2>4, <2>6
<1>4. Inv /\ [Next]_vars => [Claims]_vars
  BY <1>3
<1> QED
  BY <1>1, <1>2, <1>4, PTL DEF Spec, ClaimsUnassigned

-----------------------------------------------------------------------------
(* A model is made once for each time one is asked for.  What is asked for   *)
(* is a draft of the panel, then a request, then a model: at each moment it *)
(* is counted as one of them.                                              *)
NumbersAreApart ==
    /\ None \notin Nat /\ Declined \notin Nat /\ Declined # None
    /\ Len(Catalogue) \in Nat /\ DOMAIN Catalogue = 1 .. Len(Catalogue)

Makes(f) == f.kind = "write" /\ f.request.model # None /\ ~Corrects(f)
Owes(f) == Makes(f) /\ f.answer = None
Backs(f) == f.mine /\ Makes(f) /\ f.answer # Declined
OwedOf(asked) == {f \in asked : Owes(f)}
Owed == OwedOf(flights)
Backed == \E f \in flights : Backs(f)
Drafted == modelEditing # None /\ modelEditing.mode = "new"
Debt == IF Drafted /\ ~Backed THEN 1 ELSE 0

CountsInv == IsFiniteSet(flights) /\ news \in Nat /\ born \in Nat /\ unheard \in Nat
NumberedInv == DOMAIN models \subseteq Nat /\ (catalogue # None => DOMAIN catalogue \subseteq Nat)
EditorInv ==
    /\ modelEditing # None =>
          /\ modelEditing = [mode |-> modelEditing.mode, draft |-> modelEditing.draft]
          /\ modelEditing.mode \in {"new", "edit"}
          /\ modelEditing.mode = "edit" => taxationModel # None
    /\ editing = Shut => modelEditing = None
BudgetInv == born + Cardinality(Owed) + Debt <= news + unheard

LEMMA ImageCount ==
    ASSUME NEW S, IsFiniteSet(S), NEW from, NEW T, \A t \in T : \E s \in S : t = from[s]
    PROVE  /\ IsFiniteSet(T) /\ Cardinality(T) \in Nat /\ Cardinality(S) \in Nat
           /\ Cardinality(T) <= Cardinality(S)
<1> DEFINE image == {from[s] : s \in S}
           onto == [s \in S |-> from[s]]
<1>1. onto \in Surjection(S, image)
  BY DEF Surjection
<1>2. IsFiniteSet(image) /\ Cardinality(image) <= Cardinality(S)
  BY <1>1, FS_Surjection
<1>3. T \in SUBSET image
  OBVIOUS
<1>4. IsFiniteSet(T) /\ Cardinality(T) <= Cardinality(image)
  BY <1>2, <1>3, FS_Subset
<1>5. /\ Cardinality(T) \in Nat /\ Cardinality(S) \in Nat
      /\ Cardinality(image) \in Nat
  BY <1>2, <1>4, FS_CardinalityType
<1> QED
  BY <1>2, <1>4, <1>5

(* The requests that are out, none of them new, owe no more.                *)
Alike(f, g) == (Owes(g) => Owes(f)) /\ (Backs(f) => Backs(g))
LEMMA OwedSubset ==
    ASSUME CountsInv, flights' \subseteq flights
    PROVE  /\ IsFiniteSet(flights') /\ Cardinality(Owed') \in Nat /\ Cardinality(Owed) \in Nat
           /\ Cardinality(Owed') <= Cardinality(Owed)
<1>1. IsFiniteSet(flights') /\ IsFiniteSet(Owed)
  BY FS_Subset DEF CountsInv, Owed, OwedOf
<1>2. Owed' \in SUBSET Owed
  BY DEF Owed, OwedOf, Owes, Makes, Corrects
<1>3. IsFiniteSet(Owed') /\ Cardinality(Owed') <= Cardinality(Owed)
  BY <1>1, <1>2, FS_Subset
<1> QED
  BY <1>1, <1>3, FS_CardinalityType

LEMMA OwedMoved ==
    ASSUME CountsInv, NEW from,
           \A g \in flights' : \E f \in flights : g = from[f],
           \A f \in flights : Owes(from[f]) => Owes(f)
    PROVE  /\ IsFiniteSet(flights') /\ Cardinality(Owed') \in Nat /\ Cardinality(Owed) \in Nat
           /\ Cardinality(Owed') <= Cardinality(Owed)
<1>1. IsFiniteSet(flights) /\ IsFiniteSet(Owed)
  BY FS_Subset DEF CountsInv, Owed, OwedOf
<1>2. IsFiniteSet(flights')
  BY <1>1, ImageCount
<1>3. \A g \in Owed' : \E f \in Owed : g = from[f]
  BY DEF Owed, OwedOf, Owes, Makes, Corrects
<1> QED
  BY <1>1, <1>2, <1>3, ImageCount

LEMMA AlikeFlights ==
    ASSUME NEW f, NEW g, g.kind = f.kind, g.answer = f.answer, f.kind = "write" => g.request = f.request
    PROVE  /\ Makes(g) <=> Makes(f)
           /\ Owes(g) <=> Owes(f)
           /\ (f.mine => g.mine) => (Backs(f) => Backs(g))
BY DEF Makes, Owes, Backs, Corrects

Unknown(f) == [f EXCEPT !.known = FALSE]
LEMMA UnknownAlike ==
    ASSUME FlightsInv, NEW f \in flights
    PROVE  /\ Unknown(f).kind = f.kind /\ Unknown(f).request = f.request
           /\ Unknown(f).mine = f.mine /\ Unknown(f).answer = f.answer
           /\ Makes(Unknown(f)) <=> Makes(f)
           /\ Owes(Unknown(f)) <=> Owes(f)
           /\ Backs(Unknown(f)) <=> Backs(f)
<1>1. IsFlight(f)
  BY DEF FlightsInv
<1>2. /\ Unknown(f).kind = f.kind /\ Unknown(f).request = f.request
      /\ Unknown(f).mine = f.mine /\ Unknown(f).answer = f.answer
  BY <1>1 DEF IsFlight, Unknown
<1> QED
  BY <1>2 DEF Makes, Owes, Backs, Corrects

LEMMA OwedDisturbed ==
    ASSUME CountsInv, FlightsInv, flights' = Disturbed
    PROVE  /\ IsFiniteSet(flights') /\ Cardinality(Owed') \in Nat /\ Cardinality(Owed) \in Nat
           /\ Cardinality(Owed') <= Cardinality(Owed) /\ (Backed => Backed')
<1> DEFINE from == [f \in flights |-> Unknown(f)]
<1>1. \A f \in flights : from[f] = Unknown(f) /\ Unknown(f) \in flights'
  BY DEF Disturbed, Unknown
<1>2. \A g \in flights' : \E f \in flights : g = from[f]
  BY DEF Disturbed, Unknown
<1>3. \A f \in flights : Owes(from[f]) => Owes(f)
  BY <1>1, UnknownAlike
<1>4. Backed => \E g \in flights' : Backs(g)
  BY <1>1, UnknownAlike DEF Backed
<1> HIDE DEF from
<1> QED
  BY <1>2, <1>3, <1>4, OwedMoved DEF Backed, Backs, Makes, Corrects

(* A request that is answered is owed no longer, and its panel still counts *)
(* on it unless it was refused.                                            *)
LEMMA OwedAnswered ==
    ASSUME CountsInv, FlightsInv, NEW f \in flights, f.answer = None, NEW answer, Answers(f, answer),
           answer # None \/ ~Makes(f)
    PROVE  /\ IsFiniteSet(flights') /\ Cardinality(Owed') \in Nat /\ Cardinality(Owed) \in Nat
           /\ Cardinality(Owed') <= Cardinality(Owed) - (IF Makes(f) THEN 1 ELSE 0)
           /\ answer # Declined \/ ~Makes(f) => (Backed => Backed')
<1> DEFINE answered == [f EXCEPT !.answer = answer]
           from == [g \in flights |-> Unknown(g)]
           kept == {g \in flights' : g # answered}
<1>1. IsFlight(f)
  BY DEF FlightsInv
<1>2. /\ answered.kind = f.kind /\ answered.request = f.request
      /\ answered.mine = f.mine /\ answered.answer = answer
  BY <1>1 DEF IsFlight
<1>3. ~Owes(answered) /\ (Makes(answered) <=> Makes(f)) /\ Owes(f) = Makes(f)
  BY <1>2 DEF Owes, Makes, Corrects
<1>4. \A g \in flights : from[g] = Unknown(g)
  OBVIOUS
<1>5. flights' = (Disturbed \ {Unknown(f)}) \cup {answered}
  BY DEF Answers, Unknown
<1>6. \A g \in Disturbed : \E h \in flights : g = Unknown(h)
  BY DEF Disturbed, Unknown
<1>7. \A h \in flights : Unknown(h) \in Disturbed
  BY DEF Disturbed, Unknown
<1> HIDE DEF answered, from
<1>8. IsFiniteSet(flights) /\ IsFiniteSet(Owed) /\ IsFiniteSet(Owed \ {f})
  BY FS_Subset DEF CountsInv, Owed, OwedOf
<1>9. IsFiniteSet(Disturbed)
  BY <1>4, <1>6, <1>8, ImageCount
<1>10. IsFiniteSet(flights')
  <2>1. IsFiniteSet(Disturbed \cup {answered})
    BY <1>9, FS_AddElement
  <2> QED
    BY <1>5, <2>1, FS_Subset
<1>11. \A g \in Owed' : \E h \in Owed \ {f} : g = from[h]
  <2>1. ASSUME NEW g \in flights', Owes(g) PROVE \E h \in Owed \ {f} : g = from[h]
    <3>1. PICK h \in flights : g = Unknown(h) /\ h # f
      BY <1>3, <1>5, <1>6, <2>1
    <3> QED
      BY <1>4, <2>1, <3>1, UnknownAlike DEF Owed, OwedOf
  <2> QED
    BY <2>1 DEF Owed, OwedOf, Owes, Makes, Corrects
<1>12. Cardinality(Owed') \in Nat /\ Cardinality(Owed') <= Cardinality(Owed \ {f})
  BY <1>8, <1>11, ImageCount
<1>13. Cardinality(Owed) \in Nat /\ Cardinality(Owed \ {f}) = IF f \in Owed THEN Cardinality(Owed) - 1 ELSE Cardinality(Owed)
  BY <1>8, FS_RemoveElement, FS_CardinalityType
<1>14. f \in Owed <=> Makes(f)
  BY <1>3 DEF Owed, OwedOf
<1>15. ASSUME answer # Declined \/ ~Makes(f), Backed PROVE Backed'
  <2>1. PICK h \in flights : Backs(h)
    BY <1>15 DEF Backed
  <2>2. CASE Unknown(h) # Unknown(f)
    <3>1. Unknown(h) \in flights' /\ Backs(Unknown(h))
      BY <1>5, <1>7, <2>1, <2>2, UnknownAlike
    <3> QED
      BY <3>1 DEF Backed, Backs, Makes, Corrects
  <2>3. CASE Unknown(h) = Unknown(f)
    <3>1. Backs(f)
      BY <2>1, <2>3, UnknownAlike
    <3>2. answered \in flights' /\ Backs(answered)
      BY <1>2, <1>3, <1>5, <1>15, <3>1 DEF Backs
    <3> QED
      BY <3>2 DEF Backed, Backs, Makes, Corrects
  <2> QED
    BY <2>2, <2>3
<1>16. Cardinality(Owed') <= Cardinality(Owed) - (IF Makes(f) THEN 1 ELSE 0)
  BY <1>12, <1>13, <1>14
<1> QED
  BY <1>10, <1>12, <1>13, <1>15, <1>16

(* What the panel lets go of, or follows no more, is owed as before.        *)
LEMMA OwedDisowned ==
    ASSUME CountsInv, FlightsInv, flights' = {[f EXCEPT !.mine = FALSE] : f \in flights}
    PROVE  /\ IsFiniteSet(flights') /\ Cardinality(Owed') \in Nat /\ Cardinality(Owed) \in Nat
           /\ Cardinality(Owed') <= Cardinality(Owed)
<1> DEFINE from == [f \in flights |-> [f EXCEPT !.mine = FALSE]]
<1>1. ASSUME NEW f \in flights PROVE Owes(from[f]) => Owes(f)
  <2>1. PICK g : g = [f EXCEPT !.mine = FALSE]
    OBVIOUS
  <2>2. IsFlight(f)
    BY DEF FlightsInv
  <2>3. g.kind = f.kind /\ g.answer = f.answer /\ g.request = f.request
    BY <2>1, <2>2 DEF IsFlight
  <2>4. from[f] = g
    BY <2>1
  <2> QED
    BY <2>3, <2>4 DEF Owes, Makes, Corrects
<1>2. \A g \in flights' : \E f \in flights : g = from[f]
  OBVIOUS
<1> HIDE DEF from
<1> QED
  BY <1>1, <1>2, OwedMoved

LEMMA OwedLet ==
    ASSUME CountsInv, FlightsInv, flights' = {[f EXCEPT !.mine = @ /\ f.kind # "drop"] : f \in flights}
    PROVE  /\ IsFiniteSet(flights') /\ Cardinality(Owed') \in Nat /\ Cardinality(Owed) \in Nat
           /\ Cardinality(Owed') <= Cardinality(Owed) /\ (Backed => Backed')
<1> DEFINE from == [f \in flights |-> [f EXCEPT !.mine = @ /\ f.kind # "drop"]]
<1>1. ASSUME NEW f \in flights
      PROVE  from[f] \in flights' /\ (Owes(from[f]) => Owes(f)) /\ (Backs(f) => Backs(from[f]))
  <2>1. PICK mine : mine = (f.mine /\ f.kind # "drop")
    OBVIOUS
  <2>2. PICK g : g = [f EXCEPT !.mine = mine]
    OBVIOUS
  <2>3. from[f] = g
    BY <2>1, <2>2, Zenon
  <2>4. IsFlight(f)
    BY DEF FlightsInv
  <2>5. g.kind = f.kind /\ g.answer = f.answer /\ g.request = f.request /\ g.mine = mine
    BY <2>2, <2>4 DEF IsFlight
  <2>6. Backs(f) => g.mine
    BY <2>1, <2>5 DEF Backs, Makes
  <2>7. from[f] \in flights'
    BY Zenon
  <2> QED
    BY <2>3, <2>5, <2>6, <2>7 DEF Owes, Backs, Makes, Corrects
<1>2. \A g \in flights' : \E f \in flights : g = from[f]
  BY Zenon
<1>3. Backed => \E g \in flights' : Backs(g)
  BY <1>1 DEF Backed
<1> HIDE DEF from
<1> QED
  BY <1>1, <1>2, <1>3, OwedMoved DEF Backed, Backs, Makes, Corrects

LEMMA LetGoMakes ==
    ASSUME FlightsInv, NEW f \in flights
    PROVE  /\ \A g \in LetGo(f) : Makes(g) => g \in flights \ {f}
           /\ \A h \in flights \ {f} : Makes(h) => h \in LetGo(f)
<1>1. ASSUME NEW h \in flights PROVE Loose(h) = h \/ (~Makes(Loose(h)) /\ ~Makes(h))
  <2>1. CASE h.kind = "drop" /\ h.mine
    <3>1. Loose(h).kind = "drop"
      BY <2>1, LooseFollows DEF Follows
    <3> QED
      BY <2>1, <3>1 DEF Makes
  <2>2. CASE ~(h.kind = "drop" /\ h.mine)
    BY <2>2 DEF Loose
  <2> QED
    BY <2>1, <2>2
<1> QED
  BY <1>1 DEF LetGo

LEMMA LetGoFinite == ASSUME CountsInv, NEW f PROVE IsFiniteSet(LetGo(f))
<1> DEFINE from == [g \in flights |-> Loose(g)]
<1>1. IsFiniteSet(flights)
  BY DEF CountsInv
<1>2. \A g \in LetGo(f) : \E h \in flights : g = from[h]
  BY DEF LetGo
<1> HIDE DEF from
<1> QED
  BY <1>1, <1>2, ImageCount

(* An answer that lands is one that was counted no longer as owed.          *)
LEMMA OwedLands ==
    ASSUME CountsInv, FlightsInv, NEW f \in flights, NEW account, ~Makes(account),
           \/ flights' = flights \ {f}
           \/ flights' = LetGo(f)
           \/ flights' = (flights \ {f}) \cup {account}
           \/ flights' = LetGo(f) \cup {account}
    PROVE  /\ IsFiniteSet(flights') /\ Cardinality(Owed') \in Nat /\ Cardinality(Owed) \in Nat
           /\ Cardinality(Owed') <= Cardinality(Owed) /\ (Backed => Backed' \/ Backs(f))
<1>1. IsFiniteSet(flights) /\ IsFiniteSet(LetGo(f)) /\ IsFiniteSet(flights \ {f})
  BY LetGoFinite, FS_RemoveElement DEF CountsInv
<1>2. IsFiniteSet(flights')
  BY <1>1, FS_AddElement
<1>3. \A g \in flights' : Makes(g) => g \in flights
  BY LetGoMakes
<1>4. \A h \in flights \ {f} : Makes(h) => h \in flights'
  BY LetGoMakes
<1>5. Owed' \in SUBSET Owed
  BY <1>3 DEF Owed, OwedOf, Owes, Makes, Corrects
<1>6. IsFiniteSet(Owed) /\ Cardinality(Owed') <= Cardinality(Owed) /\ IsFiniteSet(Owed')
  BY <1>1, <1>5, FS_Subset DEF Owed, OwedOf
<1>7. Backed => Backs(f) \/ \E g \in flights' : Backs(g)
  BY <1>4 DEF Backed, Backs
<1> QED
  BY <1>2, <1>6, <1>7, FS_CardinalityType DEF Backed, Backs, Makes, Corrects

LEMMA OwedAsked ==
    ASSUME CountsInv, NEW f, flights' = flights \cup {f}
    PROVE  /\ IsFiniteSet(flights') /\ Cardinality(Owed') \in Nat /\ Cardinality(Owed) \in Nat
           /\ Cardinality(Owed') <= Cardinality(Owed) + (IF Makes(f) THEN 1 ELSE 0)
           /\ Backed => Backed'
<1>1. IsFiniteSet(flights) /\ IsFiniteSet(flights') /\ IsFiniteSet(Owed)
  BY FS_AddElement, FS_Subset DEF CountsInv, Owed, OwedOf
<1>2. CASE Makes(f)
  <2>1. Owed' \in SUBSET (Owed \cup {f})
    BY DEF Owed, OwedOf, Owes, Makes, Corrects
  <2>2. IsFiniteSet(Owed \cup {f}) /\ Cardinality(Owed) \in Nat
        /\ Cardinality(Owed \cup {f}) <= Cardinality(Owed) + 1
    BY <1>1, FS_AddElement, FS_CardinalityType
  <2>3. IsFiniteSet(Owed') /\ Cardinality(Owed') <= Cardinality(Owed \cup {f})
    BY <2>1, <2>2, FS_Subset
  <2>4. Cardinality(Owed') \in Nat /\ Cardinality(Owed \cup {f}) \in Nat
    BY <2>2, <2>3, FS_CardinalityType
  <2>5. Cardinality(Owed') <= Cardinality(Owed) + 1
    BY <2>2, <2>3, <2>4
  <2> QED
    BY <1>1, <1>2, <2>2, <2>4, <2>5 DEF Backed, Backs, Makes, Corrects
<1>3. CASE ~Makes(f)
  <2>1. Owed' \in SUBSET Owed
    BY <1>3 DEF Owed, OwedOf, Owes, Makes, Corrects
  <2>2. IsFiniteSet(Owed') /\ Cardinality(Owed') <= Cardinality(Owed)
    BY <1>1, <2>1, FS_Subset
  <2>3. Cardinality(Owed') \in Nat /\ Cardinality(Owed) \in Nat
    BY <1>1, <2>2, FS_CardinalityType
  <2> QED
    BY <1>1, <1>3, <2>2, <2>3 DEF Backed, Backs, Makes, Corrects
<1> QED
  BY <1>2, <1>3

-----------------------------------------------------------------------------
LEMMA NumberedStep == ASSUME NumbersAreApart, CountsInv, NumberedInv, [Next]_vars PROVE NumberedInv'
<1>1. ASSUME UNCHANGED <<models, catalogue>> PROVE NumberedInv'
  BY <1>1 DEF NumberedInv
<1>2. ASSUME NEW f \in flights, NEW body, WriteModel(f, body) PROVE NumberedInv'
  <2>1. UNCHANGED catalogue
    BY <1>2 DEF WriteModel, reads
  <2>2. \/ UNCHANGED models
        \/ \E b, m : models' = [models EXCEPT ![m] = b]
        \/ models' = Inserted(models, FreshModel, body)
    BY <1>2 DEF WriteModel, create_taxation_model, update_taxation_model
  <2>3. FreshModel \in Nat
    BY DEF FreshModel, NumbersAreApart, CountsInv
  <2> QED
    BY <2>1, <2>2, <2>3 DEF NumberedInv, Inserted
<1>3. ASSUME NEW f \in flights, delete_taxation_model(f) PROVE NumberedInv'
  BY <1>3 DEF delete_taxation_model, NumberedInv, reads
<1>4. ASSUME NEW f \in flights, NEW body,
             \/ WriteAccount(f, body) \/ delete_account(f) \/ delete_stops(f) \/ reassign_events(f)
             \/ Lost(f) \/ ModelLands(f) \/ AccountLands(f) \/ DropLands(f) \/ ReassignmentLands(f)
      PROVE  NumberedInv'
  BY <1>1, <1>4 DEF WriteAccount, delete_account, delete_stops, reassign_events, Lost, ModelLands,
     AccountLands, DropLands, ReassignmentLands, store, reads
<1>5. CASE ReadsLand
  BY <1>5 DEF ReadsLand, NumberedInv, store
<1>6. CASE Elsewhere \/ Declare \/ OpenAccount \/ Close \/ Set \/ Untick
  BY <1>1, <1>6 DEF Elsewhere, Declare, OpenAccount, Opens, Close, onClose, Set, Untick, idle, store, reads
<1>7. CASE \/ Edit \/ Retype \/ Revert \/ ChooseNew \/ Choose(None) \/ (\E m \in Proposed : Choose(m))
  BY <1>1, <1>7 DEF Edit, Retype, Revert, ChooseNew, Choose, idle, store, reads
<1>8. CASE RemoveModel \/ RemoveAccount \/ Reassign \/ submit \/ UNCHANGED vars
  BY <1>1, <1>8 DEF RemoveModel, RemoveAccount, Reassign, submit, vars, store, reads
<1> QED
  BY <1>2, <1>3, <1>4, <1>5, <1>6, <1>7, <1>8 DEF Next

(* A correction is of a model the panel holds.                             *)
LEMMA EditorStep ==
    ASSUME NumbersAreApart, NumberedInv, EditorInv, [Next]_vars
    PROVE  EditorInv'
<1>1. ASSUME UNCHANGED <<editing, taxationModel, modelEditing>> PROVE EditorInv'
  BY <1>1 DEF EditorInv
<1>2. ASSUME modelEditing' = None PROVE EditorInv'
  BY <1>2 DEF EditorInv
<1>3. ASSUME NEW f \in flights, NEW body,
             \/ WriteModel(f, body) \/ WriteAccount(f, body)
             \/ delete_taxation_model(f) \/ delete_account(f) \/ delete_stops(f) \/ reassign_events(f)
             \/ Lost(f) \/ ReassignmentLands(f)
      PROVE  EditorInv'
  BY <1>1, <1>3 DEF WriteModel, WriteAccount, delete_taxation_model, delete_account, delete_stops,
     reassign_events, Lost, ReassignmentLands, panel
<1>4. ASSUME NEW f \in flights, ModelLands(f) PROVE EditorInv'
  <2>1. UNCHANGED editing /\ f.answer # None
    BY <1>4 DEF ModelLands
  <2>2. CASE UNCHANGED <<taxationModel, modelEditing>>
    BY <1>1, <2>1, <2>2
  <2>3. CASE editing # Shut /\ taxationModel' = f.answer /\ modelEditing' = ModelWritten(f)
    BY <2>1, <2>3 DEF ModelWritten, EditorInv
  <2> QED
    BY <1>4, <2>2, <2>3 DEF ModelLands
<1>5. ASSUME NEW f \in flights, DropLands(f) \/ AccountLands(f) PROVE EditorInv'
  BY <1>1, <1>2, <1>5 DEF DropLands, AccountLands, Reset
<1>6. CASE Declare \/ OpenAccount \/ Close \/ Choose(None) \/ (\E m \in Proposed : Choose(m)) \/ Revert
  BY <1>2, <1>6 DEF Declare, OpenAccount, Opens, Close, onClose, Reset, Choose, Revert
<1>7. CASE ReadsLand \/ Elsewhere \/ Set \/ Untick
  BY <1>1, <1>7 DEF ReadsLand, Elsewhere, Set, Untick, idle, panel
<1>8. CASE RemoveModel \/ RemoveAccount \/ Reassign \/ submit \/ UNCHANGED vars
  BY <1>1, <1>8 DEF RemoveModel, RemoveAccount, Reassign, submit, vars, panel
<1>9. CASE ChooseNew
  <2>1. UNCHANGED editing /\ editing # Shut
    BY <1>9 DEF ChooseNew
  <2>2. modelEditing' = [mode |-> "new", draft |-> Tax!draftOf(None)]
    BY <1>9 DEF ChooseNew
  <2> QED
    BY <2>1, <2>2 DEF EditorInv
<1>10. CASE Edit
  <2>1. UNCHANGED <<editing, taxationModel>> /\ editing # Shut /\ selected # None
    BY <1>10 DEF Edit, idle
  <2>2. modelEditing' = [mode |-> "edit", draft |-> Tax!draftOf(selected)]
    BY <1>10 DEF Edit
  <2>3. taxationModel # None
    BY <2>1 DEF selected, NumberedInv, NumbersAreApart
  <2> QED
    BY <2>1, <2>2, <2>3 DEF EditorInv
<1>11. CASE Retype
  <2>1. UNCHANGED <<editing, taxationModel>> /\ editing # Shut /\ modelEditing # None
    BY <1>11 DEF Retype, idle
  <2>2. PICK d : modelEditing' = [modelEditing EXCEPT !.draft = d]
    BY <1>11 DEF Retype
  <2>3. modelEditing' = [mode |-> modelEditing.mode, draft |-> d]
    BY <2>1, <2>2 DEF EditorInv
  <2> QED
    BY <2>1, <2>3 DEF EditorInv
<1> QED
  BY <1>3, <1>4, <1>5, <1>6, <1>7, <1>8, <1>9, <1>10, <1>11 DEF Next

-----------------------------------------------------------------------------
OwedStays ==
    /\ IsFiniteSet(flights') /\ Cardinality(Owed') \in Nat /\ Cardinality(Owed) \in Nat
    /\ Cardinality(Owed') <= Cardinality(Owed)

LEMMA DebtIs == Debt \in {0, 1} /\ (~Drafted => Debt = 0) /\ (Backed => Debt = 0) /\ (Drafted /\ ~Backed => Debt = 1)
BY DEF Debt
LEMMA DebtWas ==
    Debt' \in {0, 1} /\ (~Drafted' => Debt' = 0) /\ (Backed' => Debt' = 0) /\ (Drafted' /\ ~Backed' => Debt' = 1)
BY DEF Debt

(* Nothing is asked for and nothing made: what was counted is counted still. *)
LEMMA QuietBudget ==
    ASSUME CountsInv, BudgetInv, OwedStays, UNCHANGED <<news, born, unheard>>,
           Drafted' => Drafted /\ (Backed => Backed')
    PROVE  CountsInv' /\ BudgetInv'
<1>1. Debt' \in {0, 1} /\ Debt \in {0, 1} /\ Debt' <= Debt
  BY DebtIs, DebtWas
<1> QED
  BY <1>1 DEF CountsInv, BudgetInv, OwedStays

LEMMA SameDraft == ASSUME UNCHANGED modelEditing PROVE Drafted' = Drafted
BY DEF Drafted

LEMMA OwedSame ==
    ASSUME CountsInv, UNCHANGED flights
    PROVE  OwedStays /\ (Backed => Backed')
BY OwedSubset DEF OwedStays, Backed, Backs, Makes, Corrects

LEMMA ModelBudget ==
    ASSUME NumbersAreApart, CountsInv, FlightsInv, BudgetInv, NEW f \in flights, NEW body, WriteModel(f, body)
    PROVE  CountsInv' /\ BudgetInv'
<1>1. /\ f.kind = "write" /\ f.answer = None /\ f.request.model # None
      /\ UNCHANGED <<modelEditing, news, unheard>>
  BY DEF WriteModel, panel
<1>2. Drafted' = Drafted
  BY <1>1, SameDraft
<1>3. CASE Corrects(f) /\ UNCHANGED born /\ \E answer : Answers(f, answer)
  <2>1. ~Makes(f)
    BY <1>3 DEF Makes
  <2>2. OwedStays /\ (Backed => Backed')
    BY <1>1, <1>3, <2>1, OwedAnswered DEF OwedStays
  <2> QED
    BY <1>1, <1>2, <1>3, <2>2, QuietBudget
<1>4. CASE ~Corrects(f) /\ UNCHANGED born /\ Answers(f, Declined)
  <2>1. Makes(f)
    BY <1>1, <1>4 DEF Makes
  <2>2. /\ IsFiniteSet(flights') /\ Cardinality(Owed') \in Nat /\ Cardinality(Owed) \in Nat
        /\ Cardinality(Owed') <= Cardinality(Owed) - 1
    BY <1>1, <1>4, <2>1, OwedAnswered DEF NumbersAreApart
  <2>3. Debt \in {0, 1} /\ Debt' \in {0, 1}
    BY DebtIs, DebtWas
  <2> QED
    BY <1>1, <1>4, <2>2, <2>3 DEF CountsInv, BudgetInv
<1>5. CASE ~Corrects(f) /\ born' = born + 1 /\ Answers(f, FreshModel)
  <2>1. Makes(f)
    BY <1>1, <1>5 DEF Makes
  <2>2. FreshModel \in Nat
    BY DEF FreshModel, NumbersAreApart, CountsInv
  <2>3. FreshModel # None /\ FreshModel # Declined
    BY <2>2 DEF NumbersAreApart
  <2>4. /\ IsFiniteSet(flights') /\ Cardinality(Owed') \in Nat /\ Cardinality(Owed) \in Nat
        /\ Cardinality(Owed') <= Cardinality(Owed) - 1 /\ (Backed => Backed')
    BY <1>1, <1>5, <2>1, <2>3, OwedAnswered
  <2>5. Debt \in {0, 1} /\ Debt' \in {0, 1} /\ Debt' <= Debt
    BY <1>2, <2>4, DebtIs, DebtWas
  <2> QED
    BY <1>1, <1>5, <2>4, <2>5 DEF CountsInv, BudgetInv
<1> QED
  BY <1>3, <1>4, <1>5 DEF WriteModel, create_taxation_model, update_taxation_model

LEMMA AnswerBudget ==
    ASSUME CountsInv, FlightsInv, BudgetInv, NEW f \in flights, NEW body,
           \/ WriteAccount(f, body) /\ body = f.request
           \/ delete_taxation_model(f) \/ delete_account(f) \/ reassign_events(f)
    PROVE  CountsInv' /\ BudgetInv'
<1>1. /\ f.answer = None /\ UNCHANGED <<modelEditing, news, born, unheard>>
      /\ f.kind = "write" => f.request.model = None
      /\ \E answer : Answers(f, answer)
  BY DEF WriteAccount, create_account, update_account, delete_taxation_model, delete_account,
     reassign_events, panel, counters
<1>2. ~Makes(f)
  BY <1>1 DEF Makes
<1>3. OwedStays /\ (Backed => Backed')
  BY <1>1, <1>2, OwedAnswered DEF OwedStays
<1> QED
  BY <1>1, <1>3, SameDraft, QuietBudget

LEMMA LostBudget ==
    ASSUME CountsInv, FlightsInv, BudgetInv, NEW f \in flights, Lost(f) \/ delete_stops(f)
    PROVE  CountsInv' /\ BudgetInv'
<1>1. flights' = flights \ {f} /\ UNCHANGED <<modelEditing, news, born>>
  BY DEF Lost, delete_stops, Goes
<1>2. ~Makes([kind |-> "drop"])
  BY DEF Makes
<1>3. OwedStays /\ (Backed => Backed' \/ Backs(f))
  BY <1>1, <1>2, OwedLands DEF OwedStays
<1>4. CASE UNCHANGED unheard /\ ~Makes(f)
  BY <1>1, <1>3, <1>4, SameDraft, QuietBudget DEF Backs
<1>5. CASE unheard' = unheard + 1
  <2>1. Debt \in {0, 1} /\ Debt' \in {0, 1}
    BY DebtIs, DebtWas
  <2> QED
    BY <1>1, <1>3, <1>5, <2>1 DEF CountsInv, BudgetInv, OwedStays
<1>6. delete_stops(f) => UNCHANGED unheard /\ ~Makes(f)
  BY DEF delete_stops, Makes
<1>7. ASSUME Lost(f) PROVE unheard' = unheard + 1 \/ (UNCHANGED unheard /\ ~Makes(f))
  <2>1. unheard' = unheard + IF f.kind = "write" /\ f.request.model # None THEN 1 ELSE 0
    BY <1>7 DEF Lost
  <2>2. CASE f.kind = "write" /\ f.request.model # None
    BY <2>1, <2>2
  <2>3. CASE ~(f.kind = "write" /\ f.request.model # None)
    BY <2>1, <2>3 DEF Makes, CountsInv
  <2> QED
    BY <2>2, <2>3
<1> QED
  BY <1>4, <1>5, <1>6, <1>7

LEMMA LandsBudget ==
    ASSUME CountsInv, FlightsInv, EditorInv, BudgetInv, NEW f \in flights,
           ModelLands(f) \/ AccountLands(f) \/ DropLands(f) \/ ReassignmentLands(f)
    PROVE  CountsInv' /\ BudgetInv'
<1>1. UNCHANGED <<news, born, unheard>>
  BY DEF ModelLands, AccountLands, DropLands, ReassignmentLands, counters
<1>2. ~Makes([kind |-> "drop"])
  BY DEF Makes
<1>3. ASSUME ~Makes(f), flights' = flights \ {f} \/ flights' = LetGo(f), Drafted' => Drafted
      PROVE  CountsInv' /\ BudgetInv'
  <2>1. OwedStays /\ (Backed => Backed')
    BY <1>2, <1>3, OwedLands DEF OwedStays, Backs
  <2> QED
    BY <1>1, <1>3, <2>1, QuietBudget
<1>4. CASE AccountLands(f) \/ DropLands(f) \/ ReassignmentLands(f)
  <2>1. ~Makes(f) /\ (flights' = flights \ {f} \/ flights' = LetGo(f))
    BY <1>4 DEF AccountLands, DropLands, ReassignmentLands, Goes, Makes
  <2>2. UNCHANGED modelEditing \/ modelEditing' = None
    BY <1>4 DEF AccountLands, DropLands, ReassignmentLands, Reset, panel
  <2> QED
    BY <1>3, <2>1, <2>2 DEF Drafted
<1>5. CASE ModelLands(f) /\ f.answer = Declined
  <2>1. flights' = flights \ {f} /\ UNCHANGED modelEditing
    BY <1>5 DEF ModelLands, Goes
  <2>2. OwedStays /\ (Backed => Backed')
    BY <1>2, <1>5, <2>1, OwedLands DEF OwedStays, Backs
  <2> QED
    BY <1>1, <2>1, <2>2, SameDraft, QuietBudget
<1>6. CASE ModelLands(f) /\ f.answer # Declined
  <2>1. PICK account :
            account = [f EXCEPT !.answer = None, !.request = [@ EXCEPT !.model = None, !.modelId = f.answer]]
    OBVIOUS
  <2>2. flights' = (flights \ {f}) \cup {account} \/ flights' = LetGo(f) \cup {account}
    BY <1>6, <2>1, Zenon DEF ModelLands
  <2>3. ~Makes(account)
    <3>1. IsFlight(f) /\ f.kind = "write"
      BY <1>6 DEF FlightsInv, ModelLands
    <3>2. PICK body : body = [f.request EXCEPT !.model = None, !.modelId = f.answer]
      OBVIOUS
    <3>3. account = [f EXCEPT !.answer = None, !.request = body]
      BY <2>1, <3>2, Zenon
    <3>4. account.request = body
      BY <3>1, <3>3 DEF IsFlight
    <3>5. body.model = None
      BY <3>1, <3>2 DEF IsFlight
    <3> QED
      BY <3>4, <3>5 DEF Makes
  <2>4. OwedStays
    BY <2>2, <2>3, OwedLands DEF OwedStays
  <2>5. ~Drafted'
    <3>1. CASE editing = Shut
      BY <1>6, <3>1 DEF ModelLands, EditorInv, Drafted
    <3>2. CASE editing # Shut
      BY <1>6, <3>2 DEF ModelLands, ModelWritten, Drafted
    <3> QED
      BY <3>1, <3>2
  <2> QED
    BY <1>1, <2>4, <2>5, QuietBudget
<1> QED
  BY <1>4, <1>5, <1>6

LEMMA PanelBudget ==
    ASSUME CountsInv, FlightsInv, EditorInv, BudgetInv,
           \/ ReadsLand \/ Elsewhere \/ Declare \/ OpenAccount \/ Close \/ Set \/ Untick
           \/ Edit \/ Retype \/ Revert \/ Choose(None) \/ (\E m \in Proposed : Choose(m)) \/ UNCHANGED vars
    PROVE  CountsInv' /\ BudgetInv'
<1>1. UNCHANGED <<news, born, unheard>>
  BY DEF ReadsLand, Elsewhere, Declare, OpenAccount, Opens, Close, onClose, Set, Untick, Edit, Retype,
     Revert, Choose, vars, counters
<1>2. CASE ReadsLand \/ Set \/ Untick \/ UNCHANGED vars
  BY <1>1, <1>2, OwedSame, SameDraft, QuietBudget DEF ReadsLand, Set, Untick, idle, vars, panel
<1>3. CASE Elsewhere
  BY <1>1, <1>3, OwedDisturbed, SameDraft, QuietBudget DEF Elsewhere, OwedStays, panel
<1>4. CASE Declare \/ OpenAccount
  BY <1>1, <1>4, OwedDisowned, QuietBudget DEF Declare, OpenAccount, Opens, Reset, OwedStays, Drafted
<1>5. CASE Close \/ Revert
  BY <1>1, <1>5, OwedSame, QuietBudget DEF Close, onClose, Reset, Revert, idle, Drafted
<1>6. CASE Choose(None) \/ (\E m \in Proposed : Choose(m))
  BY <1>1, <1>6, OwedLet, QuietBudget DEF Choose, OwedStays, Drafted
<1>7. CASE Edit
  BY <1>1, <1>7, OwedSame, QuietBudget DEF Edit, idle, Drafted
<1>8. CASE Retype
  <2>1. PICK d : modelEditing' = [modelEditing EXCEPT !.draft = d]
    BY <1>8 DEF Retype
  <2>2. modelEditing # None /\ UNCHANGED flights
    BY <1>8 DEF Retype, idle
  <2>3. modelEditing' = [mode |-> modelEditing.mode, draft |-> d]
    BY <2>1, <2>2 DEF EditorInv
  <2>4. Drafted' => Drafted
    BY <2>2, <2>3 DEF Drafted
  <2> QED
    BY <1>1, <2>2, <2>4, OwedSame, QuietBudget
<1> QED
  BY <1>2, <1>3, <1>4, <1>5, <1>6, <1>7, <1>8

LEMMA ChooseNewBudget == ASSUME CountsInv, FlightsInv, BudgetInv, ChooseNew PROVE CountsInv' /\ BudgetInv'
<1>1. /\ news' = news + 1 /\ UNCHANGED <<born, unheard>>
      /\ flights' = {[f EXCEPT !.mine = @ /\ f.kind # "drop"] : f \in flights}
  BY DEF ChooseNew
<1>2. OwedStays
  BY <1>1, OwedLet DEF OwedStays
<1>3. Debt \in {0, 1} /\ Debt' \in {0, 1}
  BY DebtIs, DebtWas
<1> QED
  BY <1>1, <1>2, <1>3 DEF CountsInv, BudgetInv, OwedStays

(* What is drafted is owed once it is sent, and never sent twice at once.   *)
LEMMA AskingBudget ==
    ASSUME NumbersAreApart, CountsInv, FlightsInv, EditorInv, BudgetInv, Asking
    PROVE  CountsInv' /\ BudgetInv'
<1>1. PICK f : /\ IsAsked(f) /\ flights' = flights \cup {f}
               /\ f.kind = "write" => submit /\ IsWrite(f.request)
               /\ f.kind = "drop" => RemoveModel
  BY AskingAdds
<1>2. UNCHANGED <<modelEditing, news, born, unheard>>
  BY DEF Asking, RemoveModel, RemoveAccount, Reassign, submit, panel
<1>3. CASE ~Makes(f)
  <2>1. /\ IsFiniteSet(flights') /\ Cardinality(Owed') \in Nat /\ Cardinality(Owed) \in Nat
        /\ Cardinality(Owed') <= Cardinality(Owed) + (IF Makes(f) THEN 1 ELSE 0) /\ (Backed => Backed')
    BY <1>1, OwedAsked
  <2>2. OwedStays /\ (Backed => Backed')
    BY <1>3, <2>1 DEF OwedStays
  <2> QED
    BY <1>2, <2>2, SameDraft, QuietBudget
<1>4. CASE Makes(f)
  <2>1. submit /\ IsWrite(f.request)
    BY <1>1, <1>4 DEF Makes
  <2>2. f.request.model = ModelBody /\ f.request.modelId = taxationModel
    BY <2>1 DEF IsWrite
  <2>3. Drafted
    BY <1>4, <2>2 DEF Makes, Corrects, ModelBody, EditorInv, Drafted
  <2>4. ~Backed
    BY <2>1 DEF submit, Pending, Backed, Backs, Makes
  <2>5. Backed'
    <3>1. f \in flights' /\ f.mine /\ f.answer = None
      BY <1>1 DEF IsAsked
    <3>2. Backs(f)
      BY <1>4, <3>1 DEF Backs, NumbersAreApart
    <3> QED
      BY <3>1, <3>2 DEF Backed, Backs, Makes, Corrects
  <2>6. /\ IsFiniteSet(flights') /\ Cardinality(Owed') \in Nat /\ Cardinality(Owed) \in Nat
        /\ Cardinality(Owed') <= Cardinality(Owed) + 1
    BY <1>1, <1>4, OwedAsked
  <2>7. Debt = 1 /\ Debt' = 0
    BY <2>3, <2>4, <2>5, DebtIs, DebtWas
  <2> QED
    BY <1>2, <2>6, <2>7 DEF CountsInv, BudgetInv
<1> QED
  BY <1>3, <1>4

LEMMA BudgetStep ==
    ASSUME NumbersAreApart, CountsInv, FlightsInv, EditorInv, BudgetInv, [Next]_vars
    PROVE  CountsInv' /\ BudgetInv'
<1>1. ASSUME NEW f \in flights,
             \/ f.kind = "write" /\ f.request.model # None /\ WriteModel(f, Tax!bodyOf(f.request.model.draft))
             \/ f.kind = "write" /\ WriteAccount(f, f.request)
             \/ delete_taxation_model(f) \/ delete_account(f) \/ delete_stops(f) \/ reassign_events(f)
             \/ Lost(f) \/ ModelLands(f) \/ AccountLands(f) \/ DropLands(f) \/ ReassignmentLands(f)
      PROVE  CountsInv' /\ BudgetInv'
  BY <1>1, ModelBudget, AnswerBudget, LostBudget, LandsBudget
<1> QED
  BY <1>1, PanelBudget, ChooseNewBudget, AskingBudget DEF Next, Asking

(* A model is made once for each time a new one is asked for, however often *)
(* the account is refused, the panel shut or an answer lost: what an answer *)
(* that never came made is all that can be over (AccountForm.tsx, #1290).   *)
THEOREM NeverTwice == ASSUME NumbersAreApart PROVE Spec => []NoModelTwice
<1> DEFINE Inv == CountsInv /\ FlightsInv /\ NumberedInv /\ EditorInv /\ BudgetInv
<1>1. Init => Inv
  <2>1. ASSUME Init PROVE CountsInv /\ FlightsInv /\ NumberedInv /\ EditorInv
    BY <2>1, FS_EmptySet DEF Init, CountsInv, FlightsInv, NumberedInv, EditorInv, NumbersAreApart
  <2>2. ASSUME Init PROVE BudgetInv
    <3>1. Owed = {} /\ ~Drafted
      BY <2>2 DEF Init, Owed, OwedOf, Drafted
    <3> QED
      BY <2>2, <3>1, FS_EmptySet DEF Init, BudgetInv, Debt
  <2> QED
    BY <2>1, <2>2
<1>2. Inv /\ [Next]_vars => Inv'
  BY BudgetStep, FlightsStep, NumberedStep, EditorStep
<1>3. Inv => NoModelTwice
  <2>1. ASSUME Inv PROVE NoModelTwice
    <3>1. IsFiniteSet(Owed)
      BY <2>1, FS_Subset DEF CountsInv, Owed, OwedOf
    <3>2. Cardinality(Owed) \in Nat
      BY <3>1, FS_CardinalityType
    <3>3. Debt \in {0, 1}
      BY DebtIs
    <3> QED
      BY <2>1, <3>2, <3>3 DEF CountsInv, BudgetInv, NoModelTwice
  <2> QED
    BY <2>1
<1> QED
  BY <1>1, <1>2, <1>3, PTL DEF Spec

-----------------------------------------------------------------------------
(* The pages of the accounts and of the shares, each over its own reads.   *)
CONSTANTS Payloads, Names, TODAY, MaxMoves, MaxFailures,
    Portfolios, Columns, LinkedAccounts, Symbols, Series
VARIABLES served, accounts, positions, journal, runtime, histories, answered, account, moves,
    failed, onlyAnomalies, order, grouped, symbol, window, selectedDays, selectedOn

Page == INSTANCE AccountsPage WITH ledger <- journal
Shares == INSTANCE SharesPage WITH Accounts <- LinkedAccounts, sort <- order

(* An answer lists accounts, each with its id.                             *)
IsRows(own) == \E S : own \in Seq(S) /\ \A row \in S : row # None /\ "id" \in DOMAIN row
PayloadsAreRows ==
    /\ None \notin Names
    /\ \A name \in Names : IsRows(Payloads[name].accounts)

(* The account chosen has the id asked for wherever one has it.            *)
LEMMA ChosenIsNamed ==
    ASSUME NEW own, NEW asked,
           \E i \in DOMAIN own : own[i].id = asked
    PROVE  Page!chooseAccount(own, asked).id = asked
BY DEF Page!chooseAccount

LEMMA ChosenIsThere ==
    ASSUME NEW own, IsRows(own), NEW asked
    PROVE  \/ own = <<>> /\ Page!chooseAccount(own, asked) = None
           \/ \E i \in DOMAIN own : own[i] # None /\ Page!chooseAccount(own, asked) = own[i]
<1>1. PICK S : own \in Seq(S) /\ \A row \in S : row # None /\ "id" \in DOMAIN row
  BY DEF IsRows
<1>2. \A i \in DOMAIN own : own[i] # None
  BY <1>1
<1>3. CASE \E i \in DOMAIN own : own[i].id = asked
  BY <1>2, <1>3 DEF Page!chooseAccount
<1>4. CASE ~\E i \in DOMAIN own : own[i].id = asked
  <2>1. Page!chooseAccount(own, asked) = Page!FirstOr(own, None)
    BY <1>4 DEF Page!chooseAccount
  <2>2. own # <<>> => 1 \in DOMAIN own /\ Head(own) = own[1]
    BY <1>1
  <2> QED BY <1>2, <2>1, <2>2 DEF Page!FirstOr
<1> QED BY <1>3, <1>4

LEMMA RowsKeepIds ==
    ASSUME NEW own, IsRows(own)
    PROVE  LET built == Page!buildAccountRows(own) IN
           /\ DOMAIN built = DOMAIN own
           /\ \A i \in DOMAIN own : built[i].id = own[i].id
<1>1. PICK S : own \in Seq(S) /\ \A row \in S : row # None /\ "id" \in DOMAIN row
  BY DEF IsRows
<1>2. \A i \in DOMAIN own : "id" \in DOMAIN own[i]
  BY <1>1
<1> QED BY <1>2 DEF Page!buildAccountRows

(* The rewriting and the choice agree: the address is of the account shown.*)
LEMMA RewrittenIsShown ==
    ASSUME NEW own, IsRows(own), NEW asked,
           NEW to, to = Page!Rewritten(asked, Page!chooseAccount(own, asked))
    PROVE  LET shown == Page!chooseAccount(Page!buildAccountRows(own), to) IN
           to # None /\ shown # None => to = shown.id
<1> DEFINE built == Page!buildAccountRows(own)
           chosen == Page!chooseAccount(own, asked)
<1>1. /\ DOMAIN built = DOMAIN own
      /\ \A i \in DOMAIN own : built[i].id = own[i].id
  BY RowsKeepIds
<1>2. CASE asked = None
  BY <1>2 DEF Page!Rewritten
<1>3. CASE asked # None /\ own = <<>>
  <2>1. built = <<>>
    BY <1>3 DEF Page!buildAccountRows
  <2>2. Page!chooseAccount(built, to) = None
    BY <2>1 DEF Page!chooseAccount, Page!FirstOr
  <2> QED BY <2>2
<1>4. CASE asked # None /\ own # <<>>
  <2>1. PICK i \in DOMAIN own : own[i] # None /\ chosen = own[i]
    BY <1>4, ChosenIsThere
  <2>2. to = own[i].id
    BY <1>4, <2>1 DEF Page!Rewritten
  <2>3. \E k \in DOMAIN built : built[k].id = to
    BY <1>1, <2>1, <2>2
  <2> HIDE DEF built
  <2>4. Page!chooseAccount(built, to).id = to
    BY <2>3, ChosenIsNamed
  <2> QED BY <2>4 DEF built
<1> QED BY <1>2, <1>3, <1>4

AddressInv ==
    /\ served \in Names
    /\ accounts = [data |-> accounts.data, error |-> accounts.error]
    /\ accounts.data \in Names \cup {None}
    /\ Page!AddressNamesShown

(* A step that rewrites the address.                                       *)
LEMMA AddressFollowed ==
    ASSUME PayloadsAreRows, accounts'.data \in Names \cup {None}, NEW asked,
           Page!AddressFollows(asked)
    PROVE  Page!AddressNamesShown'
<1>1. PICK own, to : own = Page!declared' /\ to = account'
  OBVIOUS
<1>2. Page!opened' = Page!chooseAccount(Page!buildAccountRows(own), to)
  BY <1>1 DEF Page!opened, Page!OpenedAmong, Page!rows
<1>3. CASE accounts'.data = None
  <2>1. own = <<>>
    BY <1>1, <1>3 DEF Page!declared
  <2>2. Page!buildAccountRows(own) = <<>>
    BY <2>1 DEF Page!buildAccountRows
  <2>3. Page!opened' = None
    BY <1>2, <2>2 DEF Page!chooseAccount, Page!FirstOr
  <2> QED BY <2>3 DEF Page!AddressNamesShown
<1>4. CASE accounts'.data # None
  <2>1. own = Payloads[accounts'.data].accounts
    BY <1>1, <1>4 DEF Page!declared, Page!Answer
  <2>2. IsRows(own)
    BY <1>4, <2>1 DEF PayloadsAreRows
  <2>3. to = Page!Rewritten(asked, Page!chooseAccount(own, asked))
    BY <1>1, <1>4, <2>1 DEF Page!AddressFollows
  <2>4. to # None /\ Page!opened' # None => to = (Page!opened').id
    BY <1>2, <2>2, <2>3, RewrittenIsShown
  <2> QED BY <1>1, <2>4 DEF Page!AddressNamesShown
<1> QED BY <1>3, <1>4

LEMMA AddressStands ==
    ASSUME AddressInv, UNCHANGED <<accounts, account>>, served' \in Names
    PROVE  AddressInv'
BY DEF AddressInv, Page!AddressNamesShown, Page!opened, Page!OpenedAmong, Page!rows,
   Page!declared, Page!Answer

LEMMA AddressStep ==
    ASSUME PayloadsAreRows, AddressInv, [Page!Next]_Page!vars PROVE AddressInv'
<1>1. CASE Page!AccountsLand
  <2>1. served' \in Names /\ accounts' = [data |-> accounts'.data, error |-> accounts'.error]
        /\ accounts'.data \in Names \cup {None}
    BY <1>1 DEF Page!AccountsLand, Page!Lands, AddressInv
  <2>2. Page!AddressFollows(account)
    BY <1>1 DEF Page!AccountsLand
  <2> QED BY <2>1, <2>2, AddressFollowed DEF AddressInv
<1>2. ASSUME NEW to, Page!Go(to) PROVE AddressInv'
  BY <1>2, AddressFollowed DEF Page!Go, AddressInv
<1>3. CASE \/ Page!ServerMoves \/ Page!OtherReadLands \/ Page!HistoryLands
           \/ Page!SettingsLand \/ UNCHANGED Page!vars
  BY <1>3, AddressStands DEF Page!ServerMoves, Page!OtherReadLands, Page!HistoryLands,
     Page!SettingsLand, Page!vars, AddressInv
<1> QED BY <1>1, <1>2, <1>3 DEF Page!Next

(* The account the address names is the one on screen, whatever was        *)
(* answered, refused and removed since (AccountsPage.tsx, #1409).          *)
THEOREM AddressIsOfTheAccount ==
    ASSUME PayloadsAreRows PROVE Page!Spec => []Page!AddressNamesShown
<1>1. Page!Init => AddressInv
  BY DEF Page!Init, Page!Unread, AddressInv, Page!AddressNamesShown
<1>2. AddressInv /\ [Page!Next]_Page!vars => AddressInv'
  BY AddressStep
<1>3. AddressInv => Page!AddressNamesShown
  BY DEF AddressInv
<1> QED
  BY <1>1, <1>2, <1>3, PTL DEF Page!Spec

-----------------------------------------------------------------------------
(* The days selected in the sheet of a security.                           *)
LEMMA SheetStands ==
    ASSUME UNCHANGED <<positions, answered, account, symbol>> PROVE Shares!sheet' = Shares!sheet
BY DEF Shares!sheet, Shares!reduced, Shares!Answer

LEMMA SelectionStep ==
    ASSUME Shares!SelectionIsOfTheSheet, [Shares!Next]_Shares!vars
    PROVE  Shares!SelectionIsOfTheSheet'
<1> DEFINE Selected == selectedDays # {} => Shares!sheet # None /\ selectedOn = <<Shares!sheet, window>>
<1>1. Selected
  BY DEF Shares!SelectionIsOfTheSheet
<1>2. ASSUME Shares!SelectionFollows, window' = window PROVE Shares!SelectionIsOfTheSheet'
  <2>1. PICK s : s = Shares!sheet'
    OBVIOUS
  <2>2. CASE s = Shares!sheet
    BY <1>1, <1>2, <2>1, <2>2 DEF Shares!SelectionFollows, Shares!SelectionIsOfTheSheet
  <2>3. CASE s # Shares!sheet
    BY <1>2, <2>1, <2>3 DEF Shares!SelectionFollows, Shares!SelectionIsOfTheSheet
  <2> QED BY <2>2, <2>3
<1>3. CASE Shares!PositionsLand \/ \E to : Shares!Reduce(to) \/ Shares!Select(to)
  BY <1>2, <1>3 DEF Shares!PositionsLand, Shares!Reduce, Shares!Select
<1>4. CASE Shares!SettingsLand
  <2>1. CASE answered' # FALSE
    BY <1>2, <1>4, <2>1 DEF Shares!SettingsLand
  <2>2. CASE answered' = FALSE
    <3>1. Shares!sheet' = None
      BY <2>2 DEF Shares!sheet
    <3>2. selectedDays' = {}
      BY <1>1, <1>4, <3>1 DEF Shares!SettingsLand, Shares!SelectionFollows
    <3> QED BY <3>2 DEF Shares!SelectionIsOfTheSheet
  <2> QED BY <2>1, <2>2
<1>5. CASE Shares!onWindowChange
  BY <1>5 DEF Shares!onWindowChange, Shares!SelectionIsOfTheSheet
<1>6. ASSUME NEW days, Shares!sheet # None, Shares!SelectDays(days)
      PROVE  Shares!SelectionIsOfTheSheet'
  <2>1. Shares!sheet' = Shares!sheet
    BY <1>6, SheetStands DEF Shares!SelectDays, Shares!reads
  <2> QED BY <1>6, <2>1 DEF Shares!SelectDays, Shares!SelectionIsOfTheSheet
<1>7. CASE Shares!toggle \/ Shares!PressMarker
  BY <1>6, <1>7 DEF Shares!toggle, Shares!PressMarker
<1>8. CASE \/ Shares!ServerMoves \/ Shares!RuntimeLands \/ Shares!PressLens \/ Shares!PressGroup
           \/ (\E column \in Columns : Shares!OnSort(column)) \/ UNCHANGED Shares!vars
  <2>1. UNCHANGED <<positions, answered, account, symbol, window, selectedDays, selectedOn>>
    BY <1>8 DEF Shares!ServerMoves, Shares!RuntimeLands, Shares!PressLens, Shares!PressGroup,
       Shares!OnSort, Shares!reads, Shares!pageVars, Shares!vars
  <2>2. Shares!sheet' = Shares!sheet
    BY <2>1, SheetStands
  <2> QED BY <1>1, <2>1, <2>2 DEF Shares!SelectionIsOfTheSheet
<1> QED BY <1>3, <1>4, <1>5, <1>7, <1>8 DEF Shares!Next

(* The days selected are of the security and the window on screen, whatever*)
(* portfolio was read, reduced or lost its security since (ShareSheet.tsx, *)
(* selectedDays).                                                          *)
THEOREM SelectionsAreOfTheSheet == Shares!Spec => []Shares!SelectionIsOfTheSheet
<1>1. Shares!Init => Shares!SelectionIsOfTheSheet
  BY DEF Shares!Init, Shares!SelectionIsOfTheSheet
<1>2. Shares!SelectionIsOfTheSheet /\ [Shares!Next]_Shares!vars => Shares!SelectionIsOfTheSheet'
  BY SelectionStep
<1> QED
  BY <1>1, <1>2, PTL DEF Shares!Spec

-----------------------------------------------------------------------------
(* The taxation models.  None is no day, rate or age; days and gains are   *)
(* whole.                                                                  *)
RatesAreWhole ==
    /\ None \notin Int /\ None \notin Tax!AGE_BASES
    /\ FULL \in Nat /\ MAX_THRESHOLD_YEARS \in Nat /\ CALENDAR_END \in Int
IsHolder(holder) ==
    /\ holder.opened_on \in Int \cup {None} /\ holder.first_payment \in Int \cup {None}

LEMMA LevyIsARate ==
    ASSUME RatesAreWhole, NEW kind \in {"flat_realised", "aged_flat_realised"}, NEW parameters,
           Tax!validates(kind, parameters)
    PROVE  Tax!social_rate(parameters) \in Nat
<1>1. Tax!Parameter("social_rate", "rate", FALSE) \in Tax!PARAMETERS[kind]
  <2>1. CASE kind = "flat_realised"
    BY <2>1 DEF Tax!PARAMETERS
  <2>2. CASE kind = "aged_flat_realised"
    BY <2>2 DEF Tax!PARAMETERS
  <2> QED BY <2>1, <2>2
<1>2. CASE "social_rate" \in DOMAIN parameters
  <2>1. Tax!Check("rate", parameters["social_rate"])
    BY <1>1, <1>2 DEF Tax!validates, Tax!Parameter
  <2> QED BY <1>2, <2>1 DEF Tax!Check, Tax!IsRate, Tax!social_rate, RatesAreWhole
<1>3. CASE "social_rate" \notin DOMAIN parameters
  BY <1>3 DEF Tax!social_rate
<1> QED BY <1>2, <1>3

LEMMA RequiredIsThere ==
    ASSUME NEW kind, NEW parameters, Tax!validates(kind, parameters),
           NEW name, NEW type, Tax!Parameter(name, type, TRUE) \in Tax!PARAMETERS[kind]
    PROVE  name \in DOMAIN parameters /\ Tax!Check(type, parameters[name])
BY DEF Tax!validates, Tax!Parameter

LEMMA FlatIsWhole ==
    ASSUME RatesAreWhole, NEW parameters, Tax!validates("flat_realised", parameters)
    PROVE  /\ parameters.rate \in Nat /\ Tax!social_rate(parameters) \in Nat
           /\ parameters.rate + Tax!social_rate(parameters) <= FULL
<1>1. Tax!Parameter("rate", "rate", TRUE) \in Tax!PARAMETERS["flat_realised"]
  BY DEF Tax!PARAMETERS
<1>2. "rate" \in DOMAIN parameters /\ Tax!Check("rate", parameters["rate"])
  BY <1>1, RequiredIsThere
<1>3. parameters.rate \in Nat
  BY <1>2 DEF Tax!Check, Tax!IsRate, RatesAreWhole
<1>4. parameters.rate + Tax!social_rate(parameters) <= FULL
  BY <1>2 DEF Tax!validates, Tax!NoMoreThanEverything
<1> QED BY <1>3, <1>4, LevyIsARate

LEMMA AgedIsWhole ==
    ASSUME RatesAreWhole, NEW parameters, Tax!validates("aged_flat_realised", parameters)
    PROVE  /\ parameters.rate_before \in Nat /\ parameters.rate_after \in Nat
           /\ parameters.threshold_years \in Nat /\ Tax!social_rate(parameters) \in Nat
           /\ parameters.rate_before + Tax!social_rate(parameters) <= FULL
           /\ parameters.rate_after + Tax!social_rate(parameters) <= FULL
<1>1. /\ Tax!Parameter("rate_before", "rate", TRUE) \in Tax!PARAMETERS["aged_flat_realised"]
      /\ Tax!Parameter("rate_after", "rate", TRUE) \in Tax!PARAMETERS["aged_flat_realised"]
      /\ Tax!Parameter("threshold_years", "years", TRUE) \in Tax!PARAMETERS["aged_flat_realised"]
  BY DEF Tax!PARAMETERS
<1>2. /\ "rate_before" \in DOMAIN parameters /\ Tax!Check("rate", parameters["rate_before"])
      /\ "rate_after" \in DOMAIN parameters /\ Tax!Check("rate", parameters["rate_after"])
      /\ Tax!Check("years", parameters["threshold_years"])
  BY <1>1, RequiredIsThere
<1>3. parameters.rate_before \in Nat /\ parameters.rate_after \in Nat
      /\ parameters.threshold_years \in Nat
  BY <1>2 DEF Tax!Check, Tax!IsRate, Tax!IsYears, RatesAreWhole
<1>4. /\ parameters.rate_before + Tax!social_rate(parameters) <= FULL
      /\ parameters.rate_after + Tax!social_rate(parameters) <= FULL
  BY <1>2 DEF Tax!validates, Tax!NoMoreThanEverything
<1> QED BY <1>3, <1>4, LevyIsARate

(* The rate of an age, when it has one.                                    *)
LEMMA AgedRateIs ==
    ASSUME RatesAreWhole, NEW parameters, Tax!validates("aged_flat_realised", parameters),
           NEW holder, IsHolder(holder), NEW now \in Int
    PROVE  LET day == Tax!ThresholdOf(parameters, holder)
               rate == Tax!aged_rate(parameters, holder, now) IN
           /\ day \in Int \cup {None}
           /\ day = None => rate = None
           /\ day # None => rate = Tax!RateOn(parameters, day, now) /\ rate \in 0..FULL
<1> DEFINE day == Tax!ThresholdOf(parameters, holder)
<1>1. Tax!age_date(parameters, holder) \in Int \cup {None}
  BY DEF Tax!age_date, IsHolder
<1>2. day \in Int \cup {None}
  BY <1>1, AgedIsWhole DEF Tax!ThresholdOf, Tax!threshold_day, RatesAreWhole
<1>3. Tax!RateOn(parameters, day, now) \in 0..FULL
  BY AgedIsWhole DEF Tax!RateOn, RatesAreWhole
<1> QED BY <1>2, <1>3 DEF Tax!aged_rate

LEMMA DayAgrees ==
    ASSUME RatesAreWhole, NEW model, Tax!validates(model.kind, model.parameters),
           NEW holder, IsHolder(holder), NEW now \in Int
    PROVE  Tax!DayIsOfTheRates(model, holder, now)
<1> DEFINE on == Tax!rate_changes_on(model, holder, now)
           day == Tax!ThresholdOf(model.parameters, holder)
<1> SUFFICES ASSUME on # None PROVE Tax!DayIsOfTheRates(model, holder, now)
  BY DEF Tax!DayIsOfTheRates
<1>1. model.kind = "aged_flat_realised" /\ day # None /\ on = day
      /\ ~(day <= now)
  BY DEF Tax!rate_changes_on, Tax!Ahead
<1>2. day \in Int
  BY <1>1, AgedRateIs
<1>3. \A d \in Int : Tax!applied_rates(model, holder, d) = <<Tax!RateOn(model.parameters, day, d)>>
  <2> SUFFICES ASSUME NEW d \in Int
               PROVE  Tax!applied_rates(model, holder, d) = <<Tax!RateOn(model.parameters, day, d)>>
    OBVIOUS
  <2>1. Tax!aged_rate(model.parameters, holder, d) = Tax!RateOn(model.parameters, day, d)
        /\ Tax!aged_rate(model.parameters, holder, d) \in 0..FULL
    BY <1>1, AgedRateIs
  <2>2. Tax!applied_rates(model, holder, d) = Tax!OneRate(Tax!aged_rate(model.parameters, holder, d))
    BY <1>1 DEF Tax!applied_rates
  <2> QED BY <2>1, <2>2 DEF Tax!OneRate, RatesAreWhole
<1>4. \A d \in now..day - 1 :
        Tax!RateOn(model.parameters, day, d) = model.parameters.rate_before + Tax!social_rate(model.parameters)
  BY <1>2 DEF Tax!RateOn
<1>5. Tax!RateOn(model.parameters, day, now) = model.parameters.rate_before + Tax!social_rate(model.parameters)
  BY <1>1, <1>2 DEF Tax!RateOn
<1>6. Tax!RateOn(model.parameters, day, day) = model.parameters.rate_after + Tax!social_rate(model.parameters)
  BY <1>2 DEF Tax!RateOn
<1>7. Tax!rate_changes_on(model, holder, on) = None
  BY <1>1, <1>2 DEF Tax!rate_changes_on, Tax!Ahead
<1> HIDE DEF day
<1>8. \A d \in now..day - 1 : Tax!applied_rates(model, holder, d) = Tax!applied_rates(model, holder, now)
  BY <1>2, <1>3, <1>4, <1>5
<1> QED
  BY <1>1, <1>2, <1>3, <1>5, <1>6, <1>7, <1>8 DEF Tax!DayIsOfTheRates

(* One rate of a gain.                                                     *)
LEMMA OneRateOfTheGain ==
    ASSUME FULL \in Nat, NEW gain \in Int, NEW rate \in 0..FULL
    PROVE  /\ Tax!Positive(gain) * rate \in Nat
           /\ Tax!Positive(gain) * rate = 0 \/ gain > 0
           /\ Tax!Positive(gain) * rate <= Tax!Positive(gain) * FULL
           /\ gain >= 0 => Tax!Positive(gain + 1) * rate = Tax!Positive(gain) * rate + rate
<1>1. \A a \in Nat, b \in Nat, c \in Nat : b <= c => a * b <= a * c
  BY SMT
<1>2. \A a \in Nat, b \in Nat : a * b \in Nat /\ (a + 1) * b = a * b + b /\ 0 * b = 0
  BY SMT
<1>3. CASE gain > 0
  <2>1. Tax!Positive(gain) = gain /\ Tax!Positive(gain + 1) = gain + 1 /\ gain \in Nat
    BY <1>3 DEF Tax!Positive
  <2> QED BY <1>1, <1>2, <1>3, <2>1
<1>4. CASE gain <= 0
  <2>1. Tax!Positive(gain) = 0
    BY <1>4 DEF Tax!Positive
  <2>2. gain >= 0 => Tax!Positive(gain + 1) = 1
    BY <1>4 DEF Tax!Positive
  <2> QED BY <1>2, <2>1, <2>2
<1> QED BY <1>3, <1>4

LEMMA AmountAgrees ==
    ASSUME RatesAreWhole, NEW model, Tax!validates(model.kind, model.parameters),
           model.kind # "bracketed_realised",
           NEW holder, IsHolder(holder), NEW now \in Int, NEW gain \in Int
    PROVE  Tax!AmountIsOfTheRates(model, holder, gain, now)
<1> DEFINE tax(g) == Tax!projected_tax(model, holder, g, now)
           rates == Tax!ToSet(Tax!applied_rates(model, holder, now))
<1>1. ASSUME NEW rate \in 0..FULL, Tax!applied_rates(model, holder, now) = <<rate>>,
             \A g \in Int : tax(g) = Tax!Positive(g) * rate
      PROVE  Tax!AmountIsOfTheRates(model, holder, gain, now)
  <2>1. rates = {rate}
    BY <1>1 DEF Tax!ToSet
  <2>2. tax(gain) = Tax!Positive(gain) * rate /\ tax(gain + 1) = Tax!Positive(gain + 1) * rate
    BY <1>1
  <2>3. /\ tax(gain) \in Nat
        /\ tax(gain) = 0 \/ gain > 0
        /\ tax(gain) <= Tax!Positive(gain) * FULL
        /\ gain >= 0 => tax(gain + 1) = tax(gain) + rate
    BY <2>2, OneRateOfTheGain DEF RatesAreWhole
  <2>4. \E low, high \in rates :
          Tax!Positive(gain) * low <= tax(gain) /\ tax(gain) <= Tax!Positive(gain) * high
    BY <2>1, <2>2, <2>3
  <2>5. gain >= 0 => tax(gain + 1) \in {tax(gain) + r : r \in rates}
    BY <2>1, <2>3
  <2> QED BY <2>3, <2>4, <2>5 DEF Tax!AmountIsOfTheRates
<1>2. CASE model.kind = "flat_realised"
  <2> DEFINE rate == model.parameters.rate + Tax!social_rate(model.parameters)
  <2>1. rate \in 0..FULL
    BY <1>2, FlatIsWhole DEF RatesAreWhole
  <2>2. Tax!applied_rates(model, holder, now) = <<rate>>
    BY <1>2 DEF Tax!applied_rates
  <2>3. \A g \in Int : tax(g) = Tax!Positive(g) * rate
    BY <1>2, <2>1 DEF Tax!projected_tax, Tax!PROJECTED_KINDS, Tax!Owed, RatesAreWhole
  <2> QED BY <1>1, <2>1, <2>2, <2>3
<1>3. CASE model.kind = "aged_flat_realised"
  <2> DEFINE rate == Tax!aged_rate(model.parameters, holder, now)
  <2>1. rate = None \/ rate \in 0..FULL
    BY <1>3, AgedRateIs
  <2>2. \A g \in Int : tax(g) = Tax!Owed(Tax!Positive(g), rate)
    BY <1>3 DEF Tax!projected_tax, Tax!PROJECTED_KINDS, RatesAreWhole
  <2>3. CASE rate = None
    BY <2>2, <2>3 DEF Tax!AmountIsOfTheRates, Tax!Owed
  <2>4. CASE rate \in 0..FULL
    <3>1. Tax!applied_rates(model, holder, now) = <<rate>>
      BY <1>3, <2>4 DEF Tax!applied_rates, Tax!OneRate, RatesAreWhole
    <3>2. \A g \in Int : tax(g) = Tax!Positive(g) * rate
      BY <2>2, <2>4 DEF Tax!Owed, RatesAreWhole
    <3> QED BY <1>1, <2>4, <3>1, <3>2
  <2> QED BY <2>1, <2>3, <2>4
<1>4. CASE model.kind \notin {"flat_realised", "aged_flat_realised"}
  <2>1. tax(gain) = None
    BY <1>4 DEF Tax!projected_tax, Tax!PROJECTED_KINDS
  <2> QED BY <2>1 DEF Tax!AmountIsOfTheRates
<1> QED BY <1>2, <1>3, <1>4

(* The card of the projected tax never contradicts itself, for any rates   *)
(* accepted, holder, gain and day: the amount is of the rate named, and    *)
(* the rate holds until the day said (taxation_projection.py).  The ladder *)
(* is a fold, and stays with the runs.                                     *)
THEOREM CardsAgree ==
    ASSUME RatesAreWhole, NEW model, model.kind # "bracketed_realised",
           NEW holder, IsHolder(holder),
           NEW gains, gains \subseteq Int, NEW days, days \subseteq Int
    PROVE  Tax!CardAgrees(model, holder, gains, days)
BY DayAgrees, AmountAgrees DEF Tax!CardAgrees

(* A model as it is stored: the values of its parameters, by name.         *)
IsRung(rung) == rung = [upper_bound |-> rung.upper_bound, rate |-> rung.rate]
IsModel(model) ==
    /\ model # None /\ model.kind \in Tax!KINDS
    /\ model.parameters = [name \in DOMAIN model.parameters |-> model.parameters[name]]
    /\ "brackets" \in DOMAIN model.parameters =>
          \E S : model.parameters.brackets \in Seq(S) /\ \A rung \in S : IsRung(rung)

LEMMA LadderKept ==
    ASSUME NEW rungs, NEW S, rungs \in Seq(S), \A rung \in S : IsRung(rung), Tax!IsLadder(rungs),
           \A rung \in Tax!ToSet(rungs) : Tax!Rounded(rung.rate) = rung.rate
    PROVE  Tax!Ladder([i \in DOMAIN rungs |-> [rungs[i] EXCEPT !.rate = Tax!Rounded(@)]]) = rungs
<1> DEFINE rows == [i \in DOMAIN rungs |-> [rungs[i] EXCEPT !.rate = Tax!Rounded(@)]]
<1>1. rows = rungs
  <2>1. \A i \in DOMAIN rungs : [rungs[i] EXCEPT !.rate = Tax!Rounded(@)] = rungs[i]
    <3> SUFFICES ASSUME NEW i \in DOMAIN rungs
                 PROVE  [rungs[i] EXCEPT !.rate = Tax!Rounded(@)] = rungs[i]
      OBVIOUS
    <3>1. IsRung(rungs[i]) /\ Tax!Rounded(rungs[i].rate) = rungs[i].rate
      BY DEF Tax!ToSet
    <3> QED BY <3>1 DEF IsRung
  <2>2. rungs = [i \in DOMAIN rungs |-> rungs[i]]
    OBVIOUS
  <2> QED BY <2>1, <2>2
<1>2. Len(rungs) \in DOMAIN rungs /\ rungs[Len(rungs)].upper_bound = None
  BY DEF Tax!IsLadder
<1>3. IsRung(rungs[Len(rungs)])
  BY <1>2
<1>4. [rungs[Len(rungs)] EXCEPT !.upper_bound = None] = rungs[Len(rungs)]
  BY <1>2, <1>3 DEF IsRung
<1>5. [rungs EXCEPT ![Len(rungs)].upper_bound = None] = rungs
  BY <1>2, <1>4
<1> QED BY <1>1, <1>5 DEF Tax!Ladder

(* What the form shows of a parameter is there, and is the parameter.      *)
LEMMA ValuesAreThere ==
    ASSUME RatesAreWhole, NEW model, IsModel(model), Tax!validates(model.kind, model.parameters),
           NEW name \in DOMAIN model.parameters, name # "brackets"
    PROVE  model.parameters[name] # None
<1>1. name \in Tax!Names(model.kind)
  BY DEF Tax!validates
<1>2. PICK p \in Tax!PARAMETERS[model.kind] : p.name = name
  BY <1>1 DEF Tax!Names
<1>3. Tax!Check(p.type, model.parameters[name])
  BY <1>2 DEF Tax!validates
<1>4. p.type \in {"rate", "years", "age_basis"}
  BY <1>2 DEF IsModel, Tax!KINDS, Tax!PARAMETERS, Tax!Parameter
<1>5. CASE p.type = "rate"
  <2>1. Tax!Check("rate", model.parameters[name])
    BY <1>3, <1>5
  <2> QED BY <2>1 DEF Tax!Check, Tax!IsRate
<1>6. CASE p.type = "years"
  <2>1. Tax!Check("years", model.parameters[name])
    BY <1>3, <1>6
  <2>2. model.parameters[name] \in Int
    BY <2>1 DEF Tax!Check, Tax!IsYears, RatesAreWhole
  <2> QED BY <2>2 DEF RatesAreWhole
<1>7. CASE p.type = "age_basis"
  <2>1. Tax!Check("age_basis", model.parameters[name])
    BY <1>3, <1>7
  <2>2. model.parameters[name] \in Tax!AGE_BASES
    BY <2>1 DEF Tax!Check
  <2> QED BY <2>2 DEF RatesAreWhole
<1> QED BY <1>4, <1>5, <1>6, <1>7

(* A model taken to the form and sent back untouched is the model, for any *)
(* accepted one the form shows the rates of (TaxationModelEditor.tsx).     *)
THEOREM FormGivesBack ==
    ASSUME RatesAreWhole, NEW model, IsModel(model), Tax!validates(model.kind, model.parameters)
    PROVE  Tax!FormKeeps(model)
<1> SUFFICES ASSUME Tax!Fine(model)
             PROVE  Tax!bodyOf(Tax!draftOf(model))
                    = [name |-> model.name, kind |-> model.kind, parameters |-> model.parameters]
  BY DEF Tax!FormKeeps
<1> DEFINE given == model.parameters
           back == Tax!disassemble(model)
<1>1. Tax!draftOf(model) = back /\ back.name = model.name /\ back.kind = model.kind
  BY DEF Tax!draftOf, IsModel, Tax!disassemble, Tax!Draft
<1>2. DOMAIN given \subseteq Tax!Names(model.kind)
  BY DEF Tax!validates
<1>3. /\ DOMAIN back.fields = DOMAIN given \ {"brackets"}
      /\ \A name \in DOMAIN given \ {"brackets"} : back.fields[name] = given[name]
  <2>1. back.fields = [name \in (Tax!Names(model.kind) \cap DOMAIN given) \ {"brackets"} |->
                          Tax!Shown(name, given[name])]
    BY DEF Tax!disassemble, Tax!Draft
  <2>2. \A name \in DOMAIN given \ {"brackets"} : Tax!Shown(name, given[name]) = given[name]
    BY <1>2 DEF Tax!Fine
  <2> QED BY <1>2, <2>1, <2>2
<1>4. "brackets" \in Tax!Names(model.kind) <=> "brackets" \in DOMAIN given
  <2>1. SUFFICES ASSUME "brackets" \in Tax!Names(model.kind) PROVE "brackets" \in DOMAIN given
    BY <1>2
  <2>2. model.kind = "bracketed_realised"
    BY <2>1 DEF IsModel, Tax!KINDS, Tax!Names, Tax!PARAMETERS, Tax!Parameter
  <2>3. Tax!Parameter("brackets", "brackets", TRUE) \in Tax!PARAMETERS[model.kind]
    BY <2>2 DEF Tax!PARAMETERS
  <2> QED BY <2>3, RequiredIsThere
<1>5. "brackets" \in DOMAIN given => Tax!Ladder(back.brackets) = given["brackets"]
  <2> SUFFICES ASSUME "brackets" \in DOMAIN given PROVE Tax!Ladder(back.brackets) = given["brackets"]
    OBVIOUS
  <2>1. model.kind = "bracketed_realised"
    BY <1>4 DEF IsModel, Tax!KINDS, Tax!Names, Tax!PARAMETERS, Tax!Parameter
  <2>2. Tax!Parameter("brackets", "brackets", TRUE) \in Tax!PARAMETERS[model.kind]
    BY <2>1 DEF Tax!PARAMETERS
  <2>3. Tax!IsLadder(given["brackets"])
    BY <2>2, RequiredIsThere DEF Tax!Check
  <2>4. PICK S : given["brackets"] \in Seq(S) /\ \A rung \in S : IsRung(rung)
    BY DEF IsModel
  <2>5. back.brackets = [i \in DOMAIN given["brackets"] |->
                            [given["brackets"][i] EXCEPT !.rate = Tax!Rounded(@)]]
    BY DEF Tax!disassemble, Tax!Draft
  <2>6. \A rung \in Tax!ToSet(given["brackets"]) : Tax!Rounded(rung.rate) = rung.rate
    BY DEF Tax!Fine
  <2> QED BY <2>3, <2>4, <2>5, <2>6, LadderKept
<1>6. {n \in Tax!Names(model.kind) : n = "brackets" \/ Tax!Member(back.fields, n) # None} = DOMAIN given
  <2>1. \A n \in DOMAIN given \ {"brackets"} : Tax!Member(back.fields, n) # None
    BY <1>3, ValuesAreThere DEF Tax!Member
  <2>2. \A n \in Tax!Names(model.kind) : n # "brackets" /\ n \notin DOMAIN given
                                         => Tax!Member(back.fields, n) = None
    BY <1>3 DEF Tax!Member
  <2> QED BY <1>2, <1>4, <2>1, <2>2
<1>7. Tax!assemble(back) = given
  <2>1. Tax!assemble(back) = [name \in DOMAIN given |->
            IF name = "brackets" THEN Tax!Ladder(back.brackets) ELSE back.fields[name]]
    BY <1>1, <1>6 DEF Tax!assemble
  <2>2. \A name \in DOMAIN given :
          (IF name = "brackets" THEN Tax!Ladder(back.brackets) ELSE back.fields[name]) = given[name]
    BY <1>3, <1>5
  <2>3. given = [name \in DOMAIN given |-> given[name]]
    BY DEF IsModel
  <2> QED BY <2>1, <2>2, <2>3
<1> QED BY <1>1, <1>7 DEF Tax!bodyOf
=============================================================================

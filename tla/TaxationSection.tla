--------------------------- MODULE TaxationSection ---------------------------
(***************************************************************************)
(* The taxation section of the settings (TaxationSection.tsx,              *)
(* TaxationImport.tsx, TaxationModelEditor.tsx): the stored models, the    *)
(* sheet that writes or corrects one, the dialog that removes one, and the *)
(* import of a wrapper the documentation publishes, which replaces the     *)
(* model of its name after a yes.                                          *)
(***************************************************************************)
EXTENDS TaxationModels

CONSTANTS
    Shut, New,      \* no sheet, a new model
    Declined,        \* the answer of a request that is refused
    ModelIds,       \* the ids given to the models, in order
    Items,          \* the wrappers of the registry: a name, a kind and its parameters
    Catalogue,      \* the models stored at first
    TypedNames, Typed,  \* what is typed: names, kinds, and the values of each type of parameter
    Accounts,       \* facts of accounts, to project the models for
    Gains, Today,   \* gains and days they are projected on
    MaxTyped, MaxAsks, MaxLost \* bounds

VARIABLES
    models, carried,            \* the store
    catalogue, carriers,        \* the reads: models, and those an account carries
    registry,                   \* None, Declined, or the wrappers
    editing, editor, writeError, imported,  \* the sheet
    removing, removeError,      \* the dialog of a removal
    replacing, storeError,      \* the import, its dialog
    flights,                    \* what was asked and has not answered
    keys, asks, lost            \* counters

store == <<models, carried>>
reads == <<catalogue, carriers, registry>>
sheet == <<editing, editor, writeError, imported>>
removal == <<removing, removeError>>
import == <<replacing, storeError>>
counters == <<keys, asks, lost>>
vars == <<store, reads, sheet, removal, import, flights, counters>>

-----------------------------------------------------------------------------
Model(id, body) == [id |-> id, name |-> body.name, kind |-> body.kind, parameters |-> body.parameters]
Row(id) == Model(id, catalogue[id])
PanelOf(e) == IF e \in {Shut, New} THEN e ELSE e.id
accepts(body) == body.name # None /\ validates(body.kind, body.parameters)
disabledReason(item) == ~accepts(item)

Pending(kind) == \E f \in flights : f.kind = kind /\ f.mine
Flight(kind, id, body) == [kind |-> kind, id |-> id, body |-> body, mine |-> TRUE, answer |-> None]
Asks(flight) == asks < MaxAsks /\ asks' = asks + 1 /\ flights' = flights \cup {flight}
Unheard(kind) == {[f EXCEPT !.mine = @ /\ f.kind # kind] : f \in flights}

Init ==
    /\ models = Catalogue /\ carried = {}
    /\ catalogue = None /\ carriers = None /\ registry = None
    /\ editing = Shut /\ editor = Blank /\ writeError = FALSE /\ imported = FALSE
    /\ removing = None /\ removeError = FALSE
    /\ replacing = None /\ storeError = FALSE
    /\ flights = {}
    /\ keys = 0 /\ asks = 0 /\ lost = 0

ReadsLand ==
    /\ \/ catalogue' = models /\ UNCHANGED carriers
       \/ carriers' = carried /\ UNCHANGED catalogue
    /\ UNCHANGED <<store, registry, sheet, removal, import, flights, counters>>

(* Another page makes an account carry a model.                            *)
Elsewhere ==
    /\ carried = {}
    /\ \E id \in DOMAIN models : carried' = {id}
    /\ UNCHANGED <<models, reads, sheet, removal, import, flights, counters>>

(* The registry is read once the field is reached for, and kept.           *)
RegistryLands ==
    /\ catalogue # None /\ registry \in {None, Declined}
    /\ \/ registry' = Items /\ UNCHANGED lost
       \/ registry = None /\ lost < MaxLost /\ lost' = lost + 1 /\ registry' = Declined
    /\ UNCHANGED <<store, catalogue, carriers, sheet, removal, import, flights, keys, asks>>

-----------------------------------------------------------------------------
(* The sheet.                                                              *)
Modal == removing # None \/ replacing # None
Opens(model) ==
    /\ editing' = model
    /\ editor' = draftOf(IF model \in {Shut, New} THEN None ELSE model)
    /\ writeError' = FALSE
    /\ flights' = Unheard("write")

Open ==
    /\ catalogue # None /\ editing = Shut /\ ~Modal
    /\ \/ Opens(New)
       \/ \E id \in DOMAIN catalogue : Opens(Row(id))
    /\ UNCHANGED <<store, reads, imported, removal, import, counters>>

close == Opens(Shut) /\ imported' = FALSE
Close == editing # Shut /\ close /\ UNCHANGED <<store, reads, removal, import, counters>>

Type ==
    /\ editing # Shut /\ keys < MaxTyped
    /\ keys' = keys + 1
    /\ \/ \E name \in TypedNames : editor' = Naming(editor, name)
       \/ \E kind \in Typed.kind \ {editor.kind} : editor' = ChooseKind(editor, kind)
       \/ \E p \in PARAMETERS[editor.kind] : p.type # "brackets" /\ \E typed \in Typed[p.type] :
              editor' = Fill(editor, p.name, typed)
       \/ /\ "brackets" \in Names(editor.kind)
          /\ \/ editor' = AddRung(editor)
             \/ \E i \in DOMAIN editor.brackets :
                    \/ \E rate \in Typed.rate : editor' = SetRung(editor, i, "rate", rate)
                    \/ i < Len(editor.brackets) /\ \E bound \in Typed.bound :
                           editor' = SetRung(editor, i, "upper_bound", bound)
                    \/ Len(editor.brackets) > 1 /\ editor' = RemoveRung(editor, i)
    /\ UNCHANGED <<store, reads, editing, writeError, imported, removal, import, flights,
                   asks, lost>>

Save ==
    /\ editing # Shut /\ ~Pending("write")
    /\ Asks(Flight("write", IF editing = New THEN None ELSE editing.id, bodyOf(editor)))
    /\ writeError' = FALSE
    /\ UNCHANGED <<store, reads, editing, editor, imported, removal, import, keys, lost>>

-----------------------------------------------------------------------------
(* A removal, offered where no account carries the model.                  *)
AskRemoval ==
    /\ catalogue # None /\ editing = Shut /\ ~Modal
    /\ \E id \in DOMAIN catalogue \ (IF carriers = None THEN {} ELSE carriers) : removing' = id
    /\ removeError' = FALSE
    /\ flights' = Unheard("drop")
    /\ UNCHANGED <<store, reads, sheet, import, counters>>
KeepModel ==
    /\ removing # None
    /\ removing' = None
    /\ UNCHANGED <<store, reads, sheet, removeError, import, flights, counters>>
RemoveModel ==
    /\ removing # None /\ ~Pending("drop")
    /\ Asks(Flight("drop", removing, None))
    /\ removeError' = FALSE
    /\ UNCHANGED <<store, reads, sheet, removing, import, keys, lost>>

-----------------------------------------------------------------------------
(* A wrapper is picked: stored at once, or asked about where its name is.  *)
Named(name) == {id \in DOMAIN catalogue : catalogue[id].name = name}
First(ids) == CHOOSE id \in ids : \A o \in ids : id <= o
Pick(item) ==
    /\ registry \notin {None, Declined} /\ item \in registry /\ ~disabledReason(item)
    /\ editing = Shut /\ ~Modal /\ ~Pending("import")
    /\ storeError' = FALSE
    /\ IF Named(item.name) = {}
       THEN Asks(Flight("import", None, item)) /\ UNCHANGED replacing
       ELSE /\ replacing' = [item |-> item, id |-> First(Named(item.name))]
            /\ UNCHANGED <<flights, asks>>
    /\ UNCHANGED <<store, reads, sheet, removal, keys, lost>>
Replace ==
    /\ replacing # None /\ ~Pending("import")
    /\ Asks(Flight("import", replacing.id, replacing.item))
    /\ storeError' = FALSE
    /\ UNCHANGED <<store, reads, sheet, removal, replacing, keys, lost>>
KeepStored ==
    /\ replacing # None
    /\ replacing' = None
    /\ UNCHANGED <<store, reads, sheet, removal, storeError, flights, counters>>

-----------------------------------------------------------------------------
(* The server.  A blank name keeps the one that is there.                  *)
Answers(f, answer) == flights' = (flights \ {f}) \cup {[f EXCEPT !.answer = answer]}
Kept(f) == IF f.body.name = None /\ f.id \in DOMAIN models
           THEN [f.body EXCEPT !.name = models[f.id].name] ELSE f.body
Refuses(f) == (f.id # None /\ f.id \notin DOMAIN models) \/ ~accepts(Kept(f))
FreshModel == First(ModelIds \ DOMAIN models)
WriteModel(f) ==
    /\ f.kind # "drop" /\ f.answer = None
    /\ IF Refuses(f) THEN Answers(f, Declined) /\ UNCHANGED models
       ELSE \E id \in {IF f.id = None THEN FreshModel ELSE f.id} :
                /\ models' = [m \in DOMAIN models \cup {id} |-> IF m = id THEN Kept(f) ELSE models[m]]
                /\ Answers(f, Model(id, Kept(f)))
    /\ UNCHANGED <<carried, reads, sheet, removal, import, counters>>
delete_model(f) ==
    /\ f.kind = "drop" /\ f.answer = None
    /\ IF f.id \notin DOMAIN models \/ f.id \in carried
       THEN Answers(f, Declined) /\ UNCHANGED models
       ELSE /\ models' = [m \in DOMAIN models \ {f.id} |-> models[m]]
            /\ Answers(f, Model(f.id, models[f.id]))
    /\ UNCHANGED <<carried, reads, sheet, removal, import, counters>>

-----------------------------------------------------------------------------
(* What is answered, or lost, done or not.  A write shuts the sheet, a      *)
(* removal its dialog; an import opens the sheet on what it stored, on the *)
(* editor that is there where its model is.                                *)
Fails(f) ==
    /\ flights' = flights \ {f}
    /\ writeError' = (writeError \/ (f.kind = "write" /\ f.mine))
    /\ removeError' = (removeError \/ (f.kind = "drop" /\ f.mine))
    /\ storeError' = (storeError \/ (f.kind = "import" /\ f.mine))
    /\ replacing' = IF f.kind = "import" THEN None ELSE replacing
    /\ UNCHANGED <<store, reads, editing, editor, imported, removing, keys, asks>>
Lost(f) == lost < MaxLost /\ lost' = lost + 1 /\ Fails(f)
RefusalLands(f) == f.answer = Declined /\ Fails(f) /\ UNCHANGED lost

Gone(f) == [f EXCEPT !.mine = FALSE]
(* The editor is mounted with the model, by its id. *)
Mounts(model) == PanelOf(editing) # PanelOf(model)
WriteLands(f) ==
    /\ f.kind = "write" /\ f.answer \notin {None, Declined}
    /\ editing' = Shut /\ editor' = Blank /\ writeError' = FALSE /\ imported' = FALSE
    /\ flights' = {IF g.kind = "write" THEN Gone(g) ELSE g : g \in flights \ {f}}
    /\ UNCHANGED <<store, reads, removal, import, counters>>
DropLands(f) ==
    /\ f.kind = "drop" /\ f.answer \notin {None, Declined}
    /\ flights' = flights \ {f}
    /\ removing' = None
    /\ UNCHANGED <<store, reads, sheet, removeError, import, counters>>

ImportLands(f) ==
    /\ f.kind = "import" /\ f.answer \notin {None, Declined}
    /\ replacing' = None
    /\ editing' = f.answer /\ imported' = TRUE
    /\ IF Mounts(f.answer)
       THEN /\ editor' = draftOf(f.answer) /\ writeError' = FALSE
            /\ flights' = {IF g.kind = "write" THEN Gone(g) ELSE g : g \in flights \ {f}}
       ELSE flights' = flights \ {f} /\ UNCHANGED <<editor, writeError>>
    /\ UNCHANGED <<store, reads, removal, storeError, counters>>

Next ==
    \/ ReadsLand \/ Elsewhere \/ RegistryLands
    \/ Open \/ Close \/ Type \/ Save
    \/ AskRemoval \/ KeepModel \/ RemoveModel
    \/ Replace \/ KeepStored
    \/ \E item \in Items : Pick(item)
    \/ \E f \in flights :
           \/ WriteModel(f) \/ delete_model(f) \/ Lost(f) \/ RefusalLands(f)
           \/ WriteLands(f) \/ DropLands(f) \/ ImportLands(f)

Spec == Init /\ [][Next]_vars

-----------------------------------------------------------------------------
(* What is stored was checked, and a model an account carries is stored.   *)
StoredIsAccepted ==
    /\ \A id \in DOMAIN models : accepts(models[id])
    /\ carried \subseteq DOMAIN models

(* What is stored is projected without contradiction, whoever wrote it, and  *)
(* goes through the form unchanged; a model an account carries stays        *)
(* (taxation.py, taxation_projection.py, TaxationModelEditor.tsx).          *)
ModelsHold ==
    /\ \A id \in DOMAIN models :
           /\ FormKeeps(models[id])
           /\ \A facts \in Accounts : CardAgrees(models[id], facts, Gains, Today)
    /\ StoredIsAccepted
=============================================================================

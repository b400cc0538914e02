---------------------------- MODULE AgentSettings ----------------------------
(***************************************************************************)
(* The agent's configuration: the row of the store, its writes and the     *)
(* connection test that alone keeps a provider, an address and a key       *)
(* (agent.py, agent_probe.py, api/agent.py), the sheet that edits them and *)
(* tests what is on screen (AgentProviderSheet.tsx, agentSetup.ts), and    *)
(* the rows saved one by one beside it (AgentSection.tsx, useRowSave.ts).  *)
(***************************************************************************)
EXTENDS Integers, FiniteSets

CONSTANTS None,
    Providers,      \* those of the instance
    AgentKeys, Addresses, Local,    \* keys, addresses, and the address Ollama listens on
    Asked,          \* a read the server has not answered yet
    Rows,           \* the rows of the instance: enabled, model, thinking
    MaxEdits, MaxTests, MaxRowSaves, MaxSheets

VARIABLES
    row,            \* the configuration of the store
    typedFor,       \* the provider and address each stored key was typed for
    proved,         \* the provider, address and key that passed a test
    cached, reading,        \* what the page read of it, and the read on its way
    sheet,          \* the form: its draft, what passed, the model, its edits
    tests,          \* the tests on their way
    saving,         \* the save of the sheet on its way
    rowSaves,       \* the save of each row on its way, and the value behind it
    overtaken,      \* whether the test of a form edited since was kept, nothing having moved
    edits, probes, saves, sheets

agentVars == <<row, typedFor, proved, cached, reading, sheet, tests, saving, rowSaves,
    overtaken, edits, probes, saves, sheets>>

-----------------------------------------------------------------------------
(* The configuration.                                                      *)

KEY_REQUIRED == {"anthropic", "openai"}
KEY_REFUSED == {"ollama"}
BASE_URL_REQUIRED == {"openai_compatible", "ollama"}

EMPTY == [enabled |-> FALSE, provider |-> None, model |-> None, base_url |-> None,
          api_key |-> None, thinking |-> "low"]
Models(provider) == {<<provider, 1>>, <<provider, 2>>}

check(config) ==
    /\ config.enabled =>
        /\ config.provider # None /\ config.model # None
        /\ config.provider \in KEY_REQUIRED => config.api_key # None
        /\ config.provider \in BASE_URL_REQUIRED => config.base_url # None
    /\ config.provider \notin BASE_URL_REQUIRED => config.base_url = None
    /\ config.provider \in KEY_REFUSED => config.api_key = None

Connection(config) == <<config.provider, config.base_url, config.api_key>>
Place(config) == <<config.provider, config.base_url>>

(* candidate: the stored configuration with the provider, the address and  *)
(* the key of the form; another provider or address forgets the stored key. *)
Keeping(stored, body) == [stored EXCEPT !.provider = body.provider, !.base_url = body.base_url]
Forgetting(stored, body) ==
    IF Place(Keeping(stored, body)) = Place(stored) THEN stored
    ELSE [Keeping(stored, body) EXCEPT !.api_key = None]
candidate(stored, body) ==
    LET tried == [Forgetting(stored, body) EXCEPT !.enabled = FALSE]
    IN  IF body.key = None THEN tried ELSE [tried EXCEPT !.api_key = body.key]
ready(tried) ==
    /\ tried.provider # None /\ check(tried)
    /\ tried.provider \in KEY_REQUIRED => tried.api_key # None
    /\ tried.provider \in BASE_URL_REQUIRED => tried.base_url # None

(* adopted: what is kept once the provider listed its models.              *)
adopted(stored, tried) ==
    LET moved == Place(tried) # Place(stored)
        rekeyed == tried.api_key # stored.api_key
    IN  [stored EXCEPT !.provider = tried.provider, !.base_url = tried.base_url,
            !.api_key = tried.api_key,
            !.model = IF moved THEN None ELSE @,
            !.enabled = IF moved \/ rekeyed THEN FALSE ELSE @]

(* Changed while the provider was asked, and not to what was just tested.  *)
ConflictNever(current, stored, tried) == FALSE
Conflict(current, stored, tried) ==
    Connection(current) # Connection(stored) /\ Connection(current) # Connection(tried)

preselected(provider, current) == IF current \in Models(provider) THEN current ELSE <<provider, 1>>

-----------------------------------------------------------------------------
(* The sheet.                                                              *)

Shut == [open |-> FALSE]
Form(config) ==
    [open |-> TRUE, number |-> sheets + 1, opened |-> config,
     draft |-> [provider |-> config.provider, key |-> None, base_url |-> config.base_url],
     tested |-> FALSE, model |-> None, edits |-> 0]

addressOf(draft) == IF draft.provider \in BASE_URL_REQUIRED THEN draft.base_url ELSE None
storedKeyApplies(config, draft) ==
    config.api_key # None /\ config.provider = draft.provider /\ config.base_url = addressOf(draft)
canTest(config, draft) ==
    /\ draft.provider # None
    /\ draft.provider \in KEY_REQUIRED => draft.key # None \/ storedKeyApplies(config, draft)
    /\ draft.provider \in BASE_URL_REQUIRED => draft.base_url # None
candidateOf(draft) ==
    [provider |-> draft.provider, base_url |-> addressOf(draft),
     key |-> IF draft.provider \in KEY_REFUSED THEN None ELSE draft.key]

OpenSheet ==
    /\ cached # None /\ ~sheet.open
    /\ sheets < MaxSheets /\ sheets' = sheets + 1
    /\ sheet' = Form(cached)
    /\ UNCHANGED <<row, typedFor, proved, cached, reading, tests, saving, rowSaves, overtaken,
                   edits, probes, saves>>
CloseSheet ==
    /\ sheet.open /\ sheet' = Shut
    /\ UNCHANGED <<row, typedFor, proved, cached, reading, tests, saving, rowSaves, overtaken,
                   edits, probes, saves, sheets>>

(* An edit of the connection takes the pass back.                          *)
Drafts ==
    LET draft == sheet.draft
        provided(provider) == [provider |-> provider, key |-> None,
            base_url |-> IF provider = cached.provider THEN cached.base_url
                         ELSE IF provider = "ollama" THEN Local ELSE None]
    IN  {provided(provider) : provider \in Providers}
        \cup (IF draft.provider \in KEY_REFUSED \cup {None} THEN {}
              ELSE {[draft EXCEPT !.key = key] : key \in AgentKeys})
        \cup (IF draft.provider \in BASE_URL_REQUIRED
              THEN {[draft EXCEPT !.base_url = address] : address \in Addresses} ELSE {})
PassKept(draft) == [sheet EXCEPT !.draft = draft, !.edits = @ + 1]
PassTakenBack(draft) ==
    [sheet EXCEPT !.draft = draft, !.edits = @ + 1, !.tested = FALSE, !.model = None]
edit ==
    /\ sheet.open
    /\ edits < MaxEdits /\ edits' = edits + 1
    /\ \E draft \in Drafts \ {sheet.draft} : sheet' = PassTakenBack(draft)
    /\ UNCHANGED <<row, typedFor, proved, cached, reading, tests, saving, rowSaves, overtaken,
                   probes, saves, sheets>>

(* The button waits for the test of what is on screen, not for an older    *)
(* one; the empty candidate is the stored configuration's, for the list.   *)
Testing == \E t \in tests : t.form = sheet.number /\ t.started = sheet.edits
Sent(form, started, body) ==
    [id |-> probes + 1, form |-> form, started |-> started, body |-> body,
     phase |-> "sent", stored |-> None, tried |-> None, answer |-> None]
SendTest ==
    /\ probes < MaxTests /\ probes' = probes + 1
    /\ \/ /\ sheet.open /\ canTest(cached, sheet.draft) /\ ~Testing
          /\ tests' = tests \cup {Sent(sheet.number, sheet.edits, candidateOf(sheet.draft))}
       \/ /\ cached # None /\ cached.model # None /\ "model" \in Rows
          /\ tests' = tests \cup {Sent(0, 0, None)}
    /\ UNCHANGED <<row, typedFor, proved, cached, reading, sheet, saving, rowSaves, overtaken,
                   edits, saves, sheets>>

Activates(form) == form.opened.enabled \/ form.opened.model = None
Savable == sheet.open /\ sheet.tested /\ sheet.model # None
chooseModel ==
    /\ Savable
    /\ \E model \in Models(sheet.draft.provider) \ {sheet.model} :
        sheet' = [sheet EXCEPT !.model = model]
    /\ UNCHANGED <<row, typedFor, proved, cached, reading, tests, saving, rowSaves, overtaken,
                   edits, probes, saves, sheets>>
SendSave ==
    /\ Savable /\ saving = None
    /\ saves < MaxRowSaves /\ saves' = saves + 1
    /\ saving' = [model |-> sheet.model, on |-> Activates(sheet), phase |-> "sent", answer |-> None]
    /\ UNCHANGED <<row, typedFor, proved, cached, reading, sheet, tests, rowSaves, overtaken,
                   edits, probes, sheets>>

-----------------------------------------------------------------------------
(* The server: a test reads the configuration as it comes, in the order    *)
(* the tests were sent, and keeps what passed.                             *)
With(t, change) == tests' = (tests \ {t}) \cup {change}
ReceiveTest(t) ==
    /\ t.phase = "sent"
    /\ \A other \in tests : other.phase = "sent" => other.id >= t.id
    /\ LET tried == IF t.body = None THEN [row EXCEPT !.enabled = FALSE] ELSE candidate(row, t.body)
       IN  With(t, [t EXCEPT !.phase = IF ready(tried) THEN "asking" ELSE "refused",
                             !.stored = row, !.tried = tried])
    /\ UNCHANGED <<row, typedFor, proved, cached, reading, sheet, saving, rowSaves, overtaken,
                   edits, probes, saves, sheets>>

Passed(t) == sheet.open /\ t.form = sheet.number /\ t.started = sheet.edits
PassTest(t) ==
    /\ t.phase = "asking"
    /\ proved' = proved \cup {Connection(t.tried)}
    /\ typedFor' = IF t.body = None THEN typedFor ELSE typedFor \cup {<<t.body.key, Place(t.tried)>>}
    /\ LET kept == adopted(row, t.tried)
       IN  IF Conflict(row, t.stored, t.tried)
           THEN With(t, [t EXCEPT !.phase = "refused"]) /\ UNCHANGED <<row, overtaken>>
           ELSE /\ row' = kept
                /\ overtaken' = (overtaken
                                 \/ (kept # row /\ Connection(row) = Connection(t.stored) /\ ~Passed(t)))
                /\ With(t, [t EXCEPT !.phase = "passed", !.answer = kept])
    /\ UNCHANGED <<cached, reading, sheet, saving, rowSaves, edits, probes, saves, sheets>>
RefuseTest(t) ==
    /\ t.phase = "asking"
    /\ With(t, [t EXCEPT !.phase = "refused"])
    /\ UNCHANGED <<row, typedFor, proved, cached, reading, sheet, saving, rowSaves, overtaken,
                   edits, probes, saves, sheets>>

(* The answer is what the page shows; the form takes its pass if it was    *)
(* not edited since, and its key is no longer typed but stored.            *)
LandTest(t) ==
    /\ t.phase \in {"passed", "refused"}
    /\ cached' = IF t.phase = "passed" THEN t.answer ELSE cached
    /\ reading' = IF t.body = None THEN reading ELSE Asked
    /\ sheet' = IF t.phase = "passed" /\ Passed(t) /\ t.body # None
                THEN [sheet EXCEPT !.tested = TRUE, !.draft.key = None,
                        !.model = preselected(t.answer.provider, t.answer.model)]
                ELSE sheet
    /\ tests' = tests \ {t}
    /\ UNCHANGED <<row, typedFor, proved, saving, rowSaves, overtaken, edits, probes, saves,
                   sheets>>

(* The save stores the model, and turns the agent on where it was, or for  *)
(* the first time; its answer closes the sheet.                            *)
Wrote(config) == IF check(config) THEN config ELSE row
ServeSave ==
    /\ saving # None /\ saving.phase = "sent"
    /\ LET config == [row EXCEPT !.model = saving.model, !.enabled = saving.on \/ @]
       IN  /\ row' = Wrote(config)
           /\ saving' = [saving EXCEPT !.phase = IF check(config) THEN "answered" ELSE "refused",
                                       !.answer = config]
    /\ UNCHANGED <<typedFor, proved, cached, reading, sheet, tests, rowSaves, overtaken, edits,
                   probes, saves, sheets>>
LandSave ==
    /\ saving # None /\ saving.phase # "sent"
    /\ IF saving.phase = "refused" THEN UNCHANGED <<cached, sheet>>
       ELSE cached' = saving.answer /\ sheet' = Shut
    /\ saving' = None
    /\ UNCHANGED <<row, typedFor, proved, reading, tests, rowSaves, overtaken, edits, probes,
                   saves, sheets>>

-----------------------------------------------------------------------------
(* The rows: one save in flight each, and only its last answer is shown.   *)
RowValues(field) ==
    CASE field = "enabled" -> BOOLEAN
      [] field = "thinking" -> {"low", "high"}
      [] field = "model" -> Models(cached.provider)
RowOffered(field) ==
    /\ cached # None
    /\ field = "enabled" => cached.enabled \/ cached.model # None
    /\ field # "enabled" => cached.model # None
Idle == [value |-> None, phase |-> "idle", answer |-> None, behind |-> None]
saveRow(field) ==
    /\ RowOffered(field)
    /\ saves < MaxRowSaves /\ saves' = saves + 1
    /\ \E value \in RowValues(field) :
        /\ rowSaves' = [rowSaves EXCEPT ![field] =
            IF @.phase = "idle" THEN [@ EXCEPT !.value = value, !.phase = "sent"]
            ELSE [@ EXCEPT !.behind = <<value>>]]
    /\ UNCHANGED <<row, typedFor, proved, cached, reading, sheet, tests, saving, overtaken, edits,
                   probes, sheets>>
ServeRow(field) ==
    /\ rowSaves[field].phase = "sent"
    /\ LET config == [row EXCEPT ![field] = rowSaves[field].value]
       IN  /\ row' = Wrote(config)
           /\ rowSaves' = [rowSaves EXCEPT
                ![field].phase = IF check(config) THEN "answered" ELSE "refused",
                ![field].answer = IF check(config) THEN config ELSE @]
    /\ UNCHANGED <<typedFor, proved, cached, reading, sheet, tests, saving, overtaken, edits,
                   probes, saves, sheets>>
LandRow(field) ==
    /\ rowSaves[field].phase \in {"answered", "refused"}
    /\ IF rowSaves[field].behind # None
       THEN /\ rowSaves' = [rowSaves EXCEPT ![field].value = @.behind[1], ![field].phase = "sent",
                                ![field].behind = None]
            /\ UNCHANGED cached
       ELSE /\ cached' = IF rowSaves[field].answer # None THEN rowSaves[field].answer ELSE cached
            /\ rowSaves' = [rowSaves EXCEPT ![field] = Idle]
    /\ UNCHANGED <<row, typedFor, proved, reading, sheet, tests, saving, overtaken, edits,
                   probes, saves, sheets>>

(* The configuration is read.                                              *)
ServeRead ==
    /\ reading = Asked /\ reading' = row
    /\ UNCHANGED <<row, typedFor, proved, cached, sheet, tests, saving, rowSaves, overtaken,
                   edits, probes, saves, sheets>>
LandRead ==
    /\ reading \notin {None, Asked} /\ cached' = reading /\ reading' = None
    /\ UNCHANGED <<row, typedFor, proved, sheet, tests, saving, rowSaves, overtaken, edits,
                   probes, saves, sheets>>

Working(provider, key, address) ==
    [EMPTY EXCEPT !.enabled = TRUE, !.provider = provider, !.model = <<provider, 1>>,
        !.api_key = key, !.base_url = address]
Init ==
    /\ \E key \in AgentKeys : row \in {EMPTY, Working("anthropic", key, None)}
    /\ typedFor = IF row = EMPTY THEN {} ELSE {<<row.api_key, Place(row)>>}
    /\ proved = {Connection(row)}
    /\ cached = None /\ reading = Asked
    /\ sheet = Shut /\ tests = {} /\ saving = None
    /\ rowSaves = [field \in Rows |-> Idle]
    /\ overtaken = FALSE
    /\ edits = 0 /\ probes = 0 /\ saves = 0 /\ sheets = 0

Next ==
    \/ OpenSheet \/ CloseSheet \/ edit \/ SendTest \/ chooseModel \/ SendSave
    \/ \E t \in tests : ReceiveTest(t) \/ PassTest(t) \/ RefuseTest(t) \/ LandTest(t)
    \/ ServeSave \/ LandSave \/ ServeRead \/ LandRead
    \/ \E field \in Rows : saveRow(field) \/ ServeRow(field) \/ LandRow(field)

Spec == Init /\ [][Next]_agentVars

-----------------------------------------------------------------------------
(* What is stored passed its test whole, and its key is used only for the  *)
(* provider and the address it was typed for (agent.py, candidate, adopted; *)
(* api/agent.py, probe_agent).                                             *)
StoredWasTested ==
    /\ Connection(row) \in proved
    /\ row.api_key # None => <<row.api_key, Place(row)>> \in typedFor

(* The agent on has what it needs to run, whichever way a switch, a model  *)
(* and a test cross (agent.py, check).                                     *)
EnabledCanRun == check(row)

(* What may be saved is what the server holds: a pass belongs to the form  *)
(* on screen (AgentProviderSheet.tsx, savable) and a test does not undo    *)
(* what changed while it ran (api/agent.py, probe_agent).  Set apart: the  *)
(* late test of an older form, after one that found nothing to change.     *)
SavableIsStored ==
    (Savable /\ ~overtaken) => Place(row) = <<sheet.draft.provider, addressOf(sheet.draft)>>
=============================================================================

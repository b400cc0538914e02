--------------------------- MODULE SettingsProofs ---------------------------
(***************************************************************************)
(* What the settings keep, for any values of their constants: the stored   *)
(* configuration of the agent, whatever tests, saves and sheets cross; the *)
(* dials saved one by one, whatever saves and reads cross; the references, *)
(* however their writes cross; the theme, whatever its form makes of it;   *)
(* the taxation models, whoever writes them; the layout of the dashboard,  *)
(* however its session is edited while it is saved.                        *)
(*                                                                         *)
(* The section of the agent is the module extended; the others are         *)
(* instances over variables of their own.                                  *)
(***************************************************************************)
EXTENDS AgentSettings, Sequences, TLAPS

CONSTANTS Blank, Garbage, DialKeys, Texts, Offered, Themes, Values,
    MaxGestures, MaxReads, MaxOthers, MaxFaults, MaxWrites, MaxDays

(* The dials.                                                              *)
VARIABLES table, withEvents, inForce, dials, dialsRead, drafts, receipts, sending, queued, base,
    wanted, dialSaves, gestures, dialReads, others, lost
Dialling == INSTANCE SettingsDials WITH
    Keys <- DialKeys, recorded <- withEvents, config <- dials, configRead <- dialsRead,
    requests <- dialSaves, configReads <- dialReads, losses <- lost

(* The references.                                                         *)
CONSTANT Starts
VARIABLES following, chosen, consulted, series, recorded, followedRead, rowsRead, shown, awaited,
    saved, observed, behind, follows, polls, days, faults
Following == INSTANCE References WITH
    config <- followedRead, rows <- rowsRead, reading <- awaited, requests <- saved,
    writes <- follows, reads <- polls

(* The theme.                                                              *)
VARIABLES theme, themeRead, painted, themeForm, preview, dialog, leaving, writings, strokes,
    themeWrites, failures
Painting == INSTANCE ThemeEditor WITH
    row <- theme, cached <- themeRead, sheet <- painted, form <- themeForm, writes <- themeWrites

-----------------------------------------------------------------------------
(* The configuration of the agent.                                         *)

(* The rows saved one by one are of what no test keeps, and None is no key, *)
(* provider or model.                                                      *)
RowsAreApart == Rows \subseteq {"enabled", "model", "thinking"}
NoneIsApart == None \notin AgentKeys /\ None # "anthropic" /\ None # <<"anthropic", 1>>

Fields(config) ==
    config = [enabled |-> config.enabled, provider |-> config.provider, model |-> config.model,
              base_url |-> config.base_url, api_key |-> config.api_key, thinking |-> config.thinking]
IsTest(t) ==
    t = [id |-> t.id, form |-> t.form, started |-> t.started, body |-> t.body,
         phase |-> t.phase, stored |-> t.stored, tried |-> t.tried, answer |-> t.answer]

(* A key is of a place when it was typed for it.                           *)
TypedFor(config) == config.api_key # None => <<config.api_key, Place(config)>> \in typedFor

RowInv == Fields(row) /\ check(row) /\ Connection(row) \in proved /\ TypedFor(row)

(* A test the provider is asked about was ready, and its key was typed in  *)
(* its form, or for the place it is used for.                              *)
AskingInv(t) ==
    t.phase = "asking" =>
        /\ Fields(t.tried) /\ ~t.tried.enabled /\ ready(t.tried)
        /\ TypedFor(t.tried) \/ (t.body # None /\ t.body.key = t.tried.api_key)
TestsInv == \A t \in tests : IsTest(t) /\ AskingInv(t)
StoredInv == RowInv /\ TestsInv

-----------------------------------------------------------------------------
(* The candidate of a form uses the stored key at its own place only.      *)
LEMMA CandidateKey ==
    ASSUME NEW stored, Fields(stored), TypedFor(stored), NEW body
    PROVE  /\ Fields(candidate(stored, body)) /\ ~candidate(stored, body).enabled
           /\ TypedFor(candidate(stored, body)) \/ body.key = candidate(stored, body).api_key
<1>1. PICK keeping : keeping = Keeping(stored, body)
  OBVIOUS
<1>2. Fields(keeping) /\ keeping.api_key = stored.api_key
  BY <1>1 DEF Keeping, Fields
<1>3. PICK forgetting : forgetting = Forgetting(stored, body)
  OBVIOUS
<1>4. forgetting = stored \/ forgetting = [keeping EXCEPT !.api_key = None]
  BY <1>1, <1>3 DEF Forgetting
<1>5. Fields(forgetting) /\ (forgetting = stored \/ forgetting.api_key = None)
  BY <1>2, <1>4 DEF Fields
<1>6. PICK tried : tried = [forgetting EXCEPT !.enabled = FALSE]
  OBVIOUS
<1>7. Fields(tried) /\ ~tried.enabled /\ Place(tried) = Place(forgetting) /\ tried.api_key = forgetting.api_key
  BY <1>5, <1>6 DEF Fields, Place
<1>8. TypedFor(tried)
  BY <1>5, <1>7 DEF TypedFor
<1>9. candidate(stored, body) = IF body.key = None THEN tried ELSE [tried EXCEPT !.api_key = body.key]
  BY <1>3, <1>6 DEF candidate
<1> QED
  BY <1>7, <1>8, <1>9 DEF Fields

(* A form of the page without a change of its own leaves what a step of    *)
(* the server moves only.                                                  *)
LEMMA TestsStand ==
    ASSUME TestsInv, typedFor \subseteq typedFor', tests' \subseteq tests
    PROVE  TestsInv'
BY DEF TestsInv, AskingInv, TypedFor

LEMMA RowStands ==
    ASSUME RowInv, row' = row, proved \subseteq proved', typedFor \subseteq typedFor'
    PROVE  RowInv'
BY DEF RowInv, TypedFor

(* A test that changes its own state.                                      *)
LEMMA TestMoves ==
    ASSUME TestsInv, typedFor \subseteq typedFor', NEW t \in tests, NEW change, With(t, change),
           IsTest(change), AskingInv(change)'
    PROVE  TestsInv'
BY DEF TestsInv, AskingInv, TypedFor, With

LEMMA SendTestKeeps == ASSUME StoredInv, SendTest PROVE StoredInv'
<1>1. PICK form, started, body : tests' \subseteq tests \cup {Sent(form, started, body)}
  BY DEF SendTest
<1>2. IsTest(Sent(form, started, body)) /\ Sent(form, started, body).phase = "sent"
  BY DEF Sent, IsTest
<1>3. UNCHANGED <<row, typedFor, proved>>
  BY DEF SendTest
<1> HIDE DEF Sent
<1> QED
  BY <1>1, <1>2, <1>3 DEF StoredInv, RowInv, TestsInv, AskingInv, TypedFor

LEMMA ReceiveTestKeeps == ASSUME StoredInv, NEW t \in tests, ReceiveTest(t) PROVE StoredInv'
<1>1. UNCHANGED <<row, typedFor, proved>>
  BY DEF ReceiveTest
<1>2. RowInv /\ TestsInv /\ IsTest(t)
  BY DEF StoredInv, TestsInv
<1>3. PICK tried : tried = IF t.body = None THEN [row EXCEPT !.enabled = FALSE] ELSE candidate(row, t.body)
  OBVIOUS
<1>4. /\ Fields(tried) /\ ~tried.enabled
      /\ TypedFor(tried) \/ (t.body # None /\ t.body.key = tried.api_key)
  <2>1. CASE t.body = None
    BY <1>2, <1>3, <2>1 DEF RowInv, Fields, TypedFor, Place
  <2>2. CASE t.body # None
    BY <1>2, <1>3, <2>2, CandidateKey DEF RowInv
  <2> QED
    BY <2>1, <2>2
<1>5. PICK change : change = [t EXCEPT !.phase = IF ready(tried) THEN "asking" ELSE "refused",
                                       !.stored = row, !.tried = tried]
  OBVIOUS
<1>6. With(t, change)
  BY <1>3, <1>5 DEF ReceiveTest
<1>7. /\ IsTest(change) /\ change.tried = tried /\ change.body = t.body
      /\ change.phase = "asking" => ready(tried)
  BY <1>2, <1>5 DEF IsTest
<1>8. AskingInv(change)'
  BY <1>1, <1>4, <1>7 DEF AskingInv, TypedFor
<1> QED
  BY <1>1, <1>2, <1>6, <1>7, <1>8, TestMoves, RowStands DEF StoredInv

(* What a test that passed keeps is its place and key whole; the agent     *)
(* stays on only where none of them moved.                                 *)
LEMMA AdoptedIsTested ==
    ASSUME NEW stored, Fields(stored), check(stored), NEW tried, Fields(tried), ready(tried)
    PROVE  /\ Fields(adopted(stored, tried)) /\ check(adopted(stored, tried))
           /\ Connection(adopted(stored, tried)) = Connection(tried)
           /\ Place(adopted(stored, tried)) = Place(tried)
           /\ adopted(stored, tried).api_key = tried.api_key
<1>1. PICK kept : kept = adopted(stored, tried)
  OBVIOUS
<1>2. kept = [enabled |-> IF Place(tried) # Place(stored) \/ tried.api_key # stored.api_key
                          THEN FALSE ELSE stored.enabled,
              provider |-> tried.provider,
              model |-> IF Place(tried) # Place(stored) THEN None ELSE stored.model,
              base_url |-> tried.base_url, api_key |-> tried.api_key, thinking |-> stored.thinking]
  BY <1>1 DEF adopted, Fields
<1>3. /\ Fields(kept) /\ kept.provider = tried.provider /\ kept.base_url = tried.base_url
      /\ kept.api_key = tried.api_key
  BY <1>2 DEF Fields
<1>4. kept.enabled => /\ tried.provider = stored.provider /\ tried.base_url = stored.base_url
                      /\ tried.api_key = stored.api_key /\ kept.model = stored.model /\ stored.enabled
  BY <1>2 DEF Place
<1>5. check(kept)
  BY <1>3, <1>4 DEF check, ready
<1> QED
  BY <1>1, <1>3, <1>5 DEF Connection, Place

LEMMA PassTestKeeps == ASSUME StoredInv, NEW t \in tests, PassTest(t) PROVE StoredInv'
<1>1. /\ t.phase = "asking" /\ proved' = proved \cup {Connection(t.tried)}
      /\ typedFor' = IF t.body = None THEN typedFor ELSE typedFor \cup {<<t.body.key, Place(t.tried)>>}
  BY DEF PassTest
<1>2. RowInv /\ TestsInv /\ IsTest(t) /\ AskingInv(t)
  BY DEF StoredInv, TestsInv
<1>3. Fields(t.tried) /\ ready(t.tried) /\ TypedFor(t.tried)'
  BY <1>1, <1>2 DEF AskingInv, TypedFor
<1>4. PICK change : /\ With(t, change)
                    /\ \/ change = [t EXCEPT !.phase = "refused"]
                       \/ change = [t EXCEPT !.phase = "passed", !.answer = adopted(row, t.tried)]
  BY DEF PassTest
<1>5. TestsInv'
  <2>1. IsTest(change) /\ change.phase # "asking"
    BY <1>2, <1>4 DEF IsTest
  <2> QED
    BY <1>1, <1>2, <1>4, <2>1, TestMoves DEF AskingInv
<1>6. CASE row' = row
  BY <1>1, <1>2, <1>5, <1>6, RowStands DEF StoredInv
<1>7. CASE row' = adopted(row, t.tried)
  <2>1. /\ Fields(row') /\ check(row') /\ Connection(row') = Connection(t.tried)
        /\ Place(row') = Place(t.tried) /\ row'.api_key = t.tried.api_key
    BY <1>2, <1>3, <1>7, AdoptedIsTested DEF RowInv
  <2>2. RowInv'
    BY <1>1, <1>3, <2>1 DEF RowInv, TypedFor, Connection, Place, check
  <2> QED
    BY <1>5, <2>2 DEF StoredInv
<1> QED
  BY <1>6, <1>7 DEF PassTest

LEMMA TestEnds == ASSUME StoredInv, NEW t \in tests, RefuseTest(t) \/ LandTest(t) PROVE StoredInv'
<1>1. UNCHANGED <<row, typedFor, proved>>
  BY DEF RefuseTest, LandTest
<1>2. RowInv /\ TestsInv /\ IsTest(t)
  BY DEF StoredInv, TestsInv
<1>3. CASE RefuseTest(t)
  <2>1. PICK change : change = [t EXCEPT !.phase = "refused"]
    OBVIOUS
  <2>2. With(t, change) /\ IsTest(change) /\ change.phase = "refused"
    BY <1>2, <1>3, <2>1 DEF RefuseTest, IsTest
  <2> QED
    BY <1>1, <1>2, <2>2, TestMoves, RowStands DEF StoredInv, AskingInv
<1>4. CASE LandTest(t)
  BY <1>1, <1>2, <1>4, TestsStand, RowStands DEF LandTest, StoredInv
<1> QED
  BY <1>3, <1>4

(* The saves write a model, a switch or a thinking level, of a row that    *)
(* still checks: never a place or a key.                                   *)
LEMMA WroteKeeps ==
    ASSUME RowInv, NEW config, Fields(config), config.provider = row.provider,
           config.base_url = row.base_url, config.api_key = row.api_key,
           row' = Wrote(config), UNCHANGED <<typedFor, proved>>
    PROVE  RowInv'
<1>1. CASE row' = row
  BY <1>1, RowStands
<1>2. CASE check(config) /\ row' = config
  BY <1>2 DEF RowInv, TypedFor, Connection, Place, check
<1> QED
  BY <1>1, <1>2 DEF Wrote

LEMMA SavesMove ==
    ASSUME StoredInv, RowsAreApart, ServeSave \/ \E field \in Rows : ServeRow(field)
    PROVE  /\ \E config : /\ row' = Wrote(config) /\ Fields(config)
                          /\ config.provider = row.provider /\ config.base_url = row.base_url
                          /\ config.api_key = row.api_key
           /\ row'.provider = row.provider /\ row'.base_url = row.base_url
<1>1. Fields(row)
  BY DEF StoredInv, RowInv
<1>2. PICK config :
        /\ row' = Wrote(config)
        /\ \/ \E model, on : config = [row EXCEPT !.model = model, !.enabled = on]
           \/ \E value : \/ config = [row EXCEPT !["enabled"] = value]
                         \/ config = [row EXCEPT !["model"] = value]
                         \/ config = [row EXCEPT !["thinking"] = value]
  <2>1. CASE ServeSave
    BY <2>1 DEF ServeSave
  <2>2. ASSUME NEW field \in Rows, ServeRow(field)
        PROVE  \E value : row' = Wrote([row EXCEPT ![field] = value])
    BY <2>2 DEF ServeRow
  <2> QED
    BY <2>1, <2>2 DEF RowsAreApart
<1>3. /\ Fields(config) /\ config.provider = row.provider
      /\ config.base_url = row.base_url /\ config.api_key = row.api_key
  BY <1>1, <1>2 DEF Fields
<1> QED
  BY <1>2, <1>3 DEF Wrote

LEMMA SavesKeep ==
    ASSUME StoredInv, RowsAreApart, ServeSave \/ \E field \in Rows : ServeRow(field)
    PROVE  StoredInv'
<1>1. UNCHANGED <<typedFor, proved, tests>>
  BY DEF ServeSave, ServeRow
<1> QED
  BY <1>1, SavesMove, WroteKeeps, TestsStand DEF StoredInv

LEMMA PageLeavesStored ==
    ASSUME StoredInv, UNCHANGED <<row, typedFor, proved, tests>>
    PROVE  StoredInv'
BY RowStands, TestsStand DEF StoredInv

LEMMA StoredStart == ASSUME Init, NoneIsApart PROVE StoredInv
<1>1. PICK key \in AgentKeys : row \in {EMPTY, Working("anthropic", key, None)}
  BY DEF Init
<1>2. /\ tests = {} /\ proved = {Connection(row)}
      /\ typedFor = IF row = EMPTY THEN {} ELSE {<<row.api_key, Place(row)>>}
  BY DEF Init
<1>3. Fields(EMPTY) /\ check(EMPTY) /\ EMPTY.api_key = None
  BY DEF EMPTY, Fields, check, BASE_URL_REQUIRED, KEY_REFUSED
<1>4. PICK working : working = Working("anthropic", key, None)
  OBVIOUS
<1>5. working = [enabled |-> TRUE, provider |-> "anthropic", model |-> <<"anthropic", 1>>,
                 base_url |-> None, api_key |-> key, thinking |-> "low"]
  BY <1>4 DEF Working, EMPTY
<1>6. Fields(working) /\ check(working)
  BY <1>5 DEF Fields, check, BASE_URL_REQUIRED, KEY_REFUSED, NoneIsApart
<1>7. Fields(row) /\ check(row) /\ TypedFor(row)
  BY <1>1, <1>2, <1>3, <1>4, <1>6 DEF TypedFor
<1> QED
  BY <1>2, <1>7 DEF StoredInv, RowInv, TestsInv

LEMMA StoredStep ==
    ASSUME StoredInv, RowsAreApart, [Next]_agentVars
    PROVE  StoredInv'
<1>1. CASE SendTest
  BY <1>1, SendTestKeeps
<1>2. CASE \E t \in tests : ReceiveTest(t) \/ PassTest(t) \/ RefuseTest(t) \/ LandTest(t)
  BY <1>2, ReceiveTestKeeps, PassTestKeeps, TestEnds
<1>3. CASE ServeSave \/ \E field \in Rows : ServeRow(field)
  BY <1>3, SavesKeep
<1>4. CASE \/ OpenSheet \/ CloseSheet \/ edit \/ chooseModel \/ SendSave
           \/ LandSave \/ ServeRead \/ LandRead
  BY <1>4, PageLeavesStored DEF OpenSheet, CloseSheet, edit, chooseModel, SendSave, LandSave,
     ServeRead, LandRead
<1>5. CASE (\E field \in Rows : saveRow(field) \/ LandRow(field)) \/ UNCHANGED agentVars
  BY <1>5, PageLeavesStored DEF saveRow, LandRow, agentVars
<1> QED
  BY <1>1, <1>2, <1>3, <1>4, <1>5 DEF Next

(* What is stored passed its test whole, its key is used only at the place *)
(* it was typed for, and the agent on has what it needs to run, whichever  *)
(* tests, saves and sheets cross (agent.py, candidate, adopted, check;     *)
(* api/agent.py, probe_agent).                                             *)
THEOREM StoredIsTested ==
    ASSUME RowsAreApart, NoneIsApart
    PROVE  Spec => [](StoredWasTested /\ EnabledCanRun)
<1>1. StoredInv => StoredWasTested /\ EnabledCanRun
  BY DEF StoredInv, RowInv, TypedFor, StoredWasTested, EnabledCanRun
<1> QED
  BY <1>1, StoredStart, StoredStep, PTL DEF Spec

-----------------------------------------------------------------------------
(* The sheet.  Forms and edits are numbered, so that a test tells whether  *)
(* it is of what is on screen: what it then keeps is what is on screen.    *)

CandidatesAreApart ==
    \A provider, address, key : None # [provider |-> provider, base_url |-> address, key |-> key]

IsDraft(draft) ==
    draft = [provider |-> draft.provider, key |-> draft.key, base_url |-> draft.base_url]
IsSheet(form) ==
    /\ form = [open |-> form.open, number |-> form.number, opened |-> form.opened,
               draft |-> form.draft, tested |-> form.tested, model |-> form.model,
               edits |-> form.edits]
    /\ IsDraft(form.draft)
OnScreen == <<sheet.draft.provider, addressOf(sheet.draft)>>
Spot(body) == <<body.provider, body.base_url>>

SheetInv ==
    /\ sheets \in Nat
    /\ sheet.open => /\ IsSheet(sheet) /\ sheet.number \in 1 .. sheets /\ sheet.edits \in Nat
TestInv(t) ==
    /\ t.form \in 0 .. sheets /\ t.started \in Nat
    /\ t.form = 0 <=> t.body = None
    /\ sheet.open /\ t.form = sheet.number => t.started <= sheet.edits
    /\ Passed(t) => Spot(t.body) = OnScreen
    /\ t.phase = "asking" /\ t.body # None => Place(t.tried) = Spot(t.body)
ShownInv ==
    sheet.open /\ ~overtaken /\ (sheet.tested \/ \E t \in tests : t.phase = "passed" /\ Passed(t)) =>
        Place(row) = OnScreen
ScreenInv ==
    /\ SheetInv /\ (\A t \in tests : IsTest(t) /\ TestInv(t)) /\ ShownInv

(* What moves neither the form nor the tests nor the place stored.         *)
LEMMA ScreenStands ==
    ASSUME ScreenInv, UNCHANGED <<sheet, sheets, tests, overtaken>>, Place(row') = Place(row)
    PROVE  ScreenInv'
BY DEF ScreenInv, SheetInv, TestInv, ShownInv, Passed, OnScreen, Place

(* A form that is shut, or opened, is tested by none of the tests sent.    *)
LEMMA SheetComes ==
    ASSUME ScreenInv, UNCHANGED <<row, tests, overtaken>>, (sheet' = Shut /\ sheets' = sheets) \/ OpenSheet
    PROVE  ScreenInv'
<1>1. CASE sheet' = Shut /\ sheets' = sheets
  <2>1. ~sheet'.open
    BY <1>1 DEF Shut
  <2> QED
    BY <1>1, <2>1 DEF ScreenInv, SheetInv, TestInv, ShownInv, Passed
<1>2. CASE OpenSheet
  <2>1. sheet' = Form(cached) /\ sheets' = sheets + 1 /\ sheets \in Nat
    BY <1>2 DEF OpenSheet, ScreenInv, SheetInv
  <2>2. /\ IsSheet(sheet') /\ sheet'.number = sheets + 1 /\ sheet'.edits = 0 /\ sheet'.tested = FALSE
    BY <2>1 DEF Form, IsSheet, IsDraft
  <2>3. \A t \in tests : t.form \in 0 .. sheets /\ t.form # sheet'.number
    BY <2>1, <2>2 DEF ScreenInv, TestInv
  <2>4. \A t \in tests : ~Passed(t)'
    BY <2>3 DEF Passed
  <2> QED
    BY <2>1, <2>2, <2>3, <2>4 DEF ScreenInv, SheetInv, TestInv, ShownInv
<1> QED
  BY <1>1, <1>2

LEMMA SheetEdited ==
    ASSUME ScreenInv, edit
    PROVE  ScreenInv'
<1>1. PICK draft \in Drafts : sheet' = PassTakenBack(draft)
  BY DEF edit
<1>2. /\ sheet.open /\ UNCHANGED <<row, tests, overtaken, sheets>>
      /\ IsSheet(sheet) /\ sheet.number \in 1 .. sheets /\ sheet.edits \in Nat
  BY DEF edit, ScreenInv, SheetInv
<1>3. IsDraft(draft)
  BY <1>2 DEF Drafts, IsSheet, IsDraft
<1>4. /\ IsSheet(sheet') /\ sheet'.number = sheet.number /\ sheet'.edits = sheet.edits + 1
      /\ sheet'.tested = FALSE
  BY <1>1, <1>2, <1>3 DEF PassTakenBack, IsSheet
<1>5. \A t \in tests : t.form = sheet'.number => t.started \in Nat /\ t.started < sheet'.edits
  BY <1>2, <1>4 DEF ScreenInv, TestInv
<1>6. \A t \in tests : ~Passed(t)'
  BY <1>2, <1>4, <1>5 DEF Passed
<1> QED
  BY <1>2, <1>4, <1>5, <1>6 DEF ScreenInv, SheetInv, TestInv, ShownInv

LEMMA ModelChosen ==
    ASSUME ScreenInv, chooseModel
    PROVE  ScreenInv'
<1>1. PICK model : sheet' = [sheet EXCEPT !.model = model]
  BY DEF chooseModel
<1>2. /\ UNCHANGED <<row, tests, overtaken, sheets>> /\ IsSheet(sheet) /\ sheet.open
  BY DEF chooseModel, Savable, ScreenInv, SheetInv
<1>3. /\ IsSheet(sheet') /\ sheet'.open /\ sheet'.number = sheet.number /\ sheet'.edits = sheet.edits
      /\ sheet'.tested = sheet.tested /\ sheet'.draft = sheet.draft
  BY <1>1, <1>2 DEF IsSheet
<1> QED
  BY <1>2, <1>3 DEF ScreenInv, SheetInv, TestInv, ShownInv, Passed, OnScreen

(* A test is sent of what is on screen, or of nothing.                     *)
LEMMA TestSent ==
    ASSUME ScreenInv, CandidatesAreApart, SendTest
    PROVE  ScreenInv'
<1>1. PICK form, started, body :
        /\ tests' = tests \cup {Sent(form, started, body)}
        /\ \/ /\ sheet.open /\ form = sheet.number /\ started = sheet.edits
              /\ body = candidateOf(sheet.draft)
           \/ form = 0 /\ started = 0 /\ body = None
  BY DEF SendTest
<1>2. UNCHANGED <<row, sheet, sheets, overtaken>>
  BY DEF SendTest
<1>3. PICK t : t = Sent(form, started, body)
  OBVIOUS
<1>4. IsTest(t) /\ t.form = form /\ t.started = started /\ t.body = body /\ t.phase = "sent"
  BY <1>3 DEF Sent, IsTest
<1>5. SheetInv
  BY DEF ScreenInv
<1>6. TestInv(t)
  <2>1. CASE sheet.open /\ form = sheet.number /\ started = sheet.edits /\ body = candidateOf(sheet.draft)
    <3>1. body # None /\ Spot(body) = OnScreen
      BY <2>1 DEF candidateOf, CandidatesAreApart, Spot, OnScreen
    <3> QED
      BY <1>4, <1>5, <2>1, <3>1 DEF SheetInv, TestInv
  <2>2. CASE form = 0 /\ started = 0 /\ body = None
    BY <1>4, <1>5, <2>2 DEF SheetInv, TestInv, Passed
  <2> QED
    BY <1>1, <2>1, <2>2
<1>7. tests' = tests \cup {t}
  BY <1>1, <1>3
<1> QED
  BY <1>2, <1>4, <1>6, <1>7 DEF ScreenInv, SheetInv, TestInv, ShownInv, Passed, OnScreen

(* A test that moves on is of the same form.                               *)
LEMMA TestAdvances ==
    ASSUME ScreenInv, NEW t \in tests, NEW change, With(t, change), IsTest(change),
           change.form = t.form, change.started = t.started, change.body = t.body,
           change.phase = "asking" /\ t.body # None => Place(change.tried) = Spot(t.body),
           UNCHANGED <<sheet, sheets>>, ShownInv'
    PROVE  ScreenInv'
<1>1. TestInv(change)'
  BY DEF ScreenInv, TestInv, Passed, OnScreen
<1> QED
  BY <1>1 DEF ScreenInv, SheetInv, TestInv, Passed, OnScreen, With

LEMMA CandidatePlace ==
    ASSUME NEW stored, Fields(stored), NEW body
    PROVE  Place(candidate(stored, body)) = Spot(body)
<1>1. PICK keeping : keeping = Keeping(stored, body)
  OBVIOUS
<1>2. Fields(keeping) /\ Place(keeping) = Spot(body)
  BY <1>1 DEF Keeping, Fields, Place, Spot
<1>3. PICK forgetting : forgetting = Forgetting(stored, body)
  OBVIOUS
<1>4. \/ forgetting = stored /\ Place(keeping) = Place(stored)
      \/ forgetting = [keeping EXCEPT !.api_key = None]
  BY <1>1, <1>3 DEF Forgetting
<1>5. Fields(forgetting) /\ Place(forgetting) = Spot(body)
  BY <1>2, <1>4 DEF Fields, Place
<1>6. PICK tried : tried = [forgetting EXCEPT !.enabled = FALSE]
  OBVIOUS
<1>7. Fields(tried) /\ Place(tried) = Spot(body)
  BY <1>5, <1>6 DEF Fields, Place
<1>8. candidate(stored, body) = IF body.key = None THEN tried ELSE [tried EXCEPT !.api_key = body.key]
  BY <1>3, <1>6 DEF candidate
<1> QED
  BY <1>7, <1>8 DEF Fields, Place

LEMMA TestReceived ==
    ASSUME StoredInv, ScreenInv, NEW t \in tests, ReceiveTest(t)
    PROVE  ScreenInv'
<1>1. UNCHANGED <<row, sheet, sheets, overtaken>> /\ Fields(row) /\ IsTest(t)
  BY DEF ReceiveTest, StoredInv, RowInv, ScreenInv
<1>2. PICK tried : tried = IF t.body = None THEN [row EXCEPT !.enabled = FALSE] ELSE candidate(row, t.body)
  OBVIOUS
<1>3. t.body # None => Place(tried) = Spot(t.body)
  BY <1>1, <1>2, CandidatePlace
<1>4. PICK change : change = [t EXCEPT !.phase = IF ready(tried) THEN "asking" ELSE "refused",
                                       !.stored = row, !.tried = tried]
  OBVIOUS
<1>5. With(t, change)
  BY <1>2, <1>4 DEF ReceiveTest
<1>6. /\ IsTest(change) /\ change.tried = tried /\ change.body = t.body
      /\ change.form = t.form /\ change.started = t.started /\ change.phase \in {"asking", "refused"}
  BY <1>1, <1>4 DEF IsTest
<1>7. ShownInv'
  BY <1>1, <1>5, <1>6 DEF ScreenInv, ShownInv, With, Passed, OnScreen
<1> QED
  BY <1>1, <1>3, <1>5, <1>6, <1>7, TestAdvances

LEMMA TestRefused ==
    ASSUME ScreenInv, NEW t \in tests, RefuseTest(t)
    PROVE  ScreenInv'
<1>1. UNCHANGED <<row, sheet, sheets, overtaken>> /\ IsTest(t)
  BY DEF RefuseTest, ScreenInv
<1>2. PICK change : change = [t EXCEPT !.phase = "refused"]
  OBVIOUS
<1>3. With(t, change)
  BY <1>2 DEF RefuseTest
<1>4. /\ IsTest(change) /\ change.body = t.body /\ change.form = t.form
      /\ change.started = t.started /\ change.phase = "refused"
  BY <1>1, <1>2 DEF IsTest
<1>5. ShownInv'
  BY <1>1, <1>3, <1>4 DEF ScreenInv, ShownInv, With, Passed, OnScreen
<1> QED
  BY <1>1, <1>3, <1>4, <1>5, TestAdvances

(* A test that passes keeps what it was sent for: what is on screen, when  *)
(* it is of it; what changes the place otherwise is a test of an older     *)
(* form that found nothing changed, which is what is set apart.            *)
LEMMA TestPasses ==
    ASSUME StoredInv, ScreenInv, NEW t \in tests, PassTest(t)
    PROVE  ScreenInv'
<1>1. /\ t.phase = "asking" /\ UNCHANGED <<sheet, sheets>> /\ IsTest(t) /\ TestInv(t)
      /\ Fields(row) /\ check(row) /\ Fields(t.tried) /\ ready(t.tried)
  BY DEF PassTest, StoredInv, RowInv, TestsInv, AskingInv, ScreenInv
<1>2. CASE Conflict(row, t.stored, t.tried)
  <2>1. PICK change : change = [t EXCEPT !.phase = "refused"]
    OBVIOUS
  <2>2. With(t, change) /\ UNCHANGED <<row, overtaken>>
    BY <1>2, <2>1 DEF PassTest
  <2>3. /\ IsTest(change) /\ change.body = t.body /\ change.form = t.form
        /\ change.started = t.started /\ change.phase = "refused"
    BY <1>1, <2>1 DEF IsTest
  <2>4. ShownInv'
    BY <1>1, <2>2, <2>3 DEF ScreenInv, ShownInv, With, Passed, OnScreen
  <2> QED
    BY <1>1, <2>2, <2>3, <2>4, TestAdvances
<1>3. CASE ~Conflict(row, t.stored, t.tried)
  <2>1. PICK change : change = [t EXCEPT !.phase = "passed", !.answer = adopted(row, t.tried)]
    OBVIOUS
  <2>2. /\ With(t, change) /\ row' = adopted(row, t.tried)
        /\ overtaken' = (overtaken \/ (row' # row /\ Connection(row) = Connection(t.stored) /\ ~Passed(t)))
    BY <1>3, <2>1 DEF PassTest
  <2>3. /\ IsTest(change) /\ change.body = t.body /\ change.form = t.form
        /\ change.started = t.started /\ change.phase = "passed"
    BY <1>1, <2>1 DEF IsTest
  <2>4. Place(row') = Place(t.tried)
    BY <1>1, <2>2, AdoptedIsTested
  <2>5. SUFFICES ASSUME (sheet.open /\ ~overtaken /\ (sheet.tested \/ \E u \in tests : u.phase = "passed" /\ Passed(u)))'
                 PROVE  Place(row') = OnScreen
    <3>1. ShownInv'
      BY <1>1, <2>5 DEF ShownInv, OnScreen, Place
    <3> QED
      BY <1>1, <2>2, <2>3, <3>1, TestAdvances
  <2>6. CASE Passed(t)
    <3>1. t.body # None /\ Spot(t.body) = OnScreen
      BY <1>1, <2>6 DEF ScreenInv, SheetInv, TestInv, Passed
    <3> QED
      BY <1>1, <2>4, <3>1 DEF TestInv
  <2>7. CASE ~Passed(t)
    <3>1. Place(row') = Place(row)
      BY <1>3, <2>2, <2>4, <2>5, <2>7 DEF Conflict, Connection, Place
    <3>2. sheet.open /\ ~overtaken /\ (sheet.tested \/ \E u \in tests : u.phase = "passed" /\ Passed(u))
      BY <1>1, <2>2, <2>3, <2>5, <2>7 DEF With, Passed
    <3> QED
      BY <3>1, <3>2 DEF ScreenInv, ShownInv
  <2> QED
    BY <2>6, <2>7
<1> QED
  BY <1>2, <1>3

LEMMA TestLands ==
    ASSUME ScreenInv, NEW t \in tests, LandTest(t)
    PROVE  ScreenInv'
<1>1. /\ UNCHANGED <<row, overtaken, sheets>> /\ tests' = tests \ {t}
      /\ \/ sheet' = sheet
         \/ /\ t.phase = "passed" /\ Passed(t)
            /\ \E model : sheet' = [sheet EXCEPT !.tested = TRUE, !.draft.key = None, !.model = model]
  BY DEF LandTest
<1>2. CASE sheet' = sheet
  BY <1>1, <1>2 DEF ScreenInv, SheetInv, TestInv, ShownInv, Passed, OnScreen
<1>3. CASE /\ t.phase = "passed" /\ Passed(t)
           /\ \E model : sheet' = [sheet EXCEPT !.tested = TRUE, !.draft.key = None, !.model = model]
  <2>1. sheet.open /\ IsSheet(sheet)
    BY <1>3 DEF Passed, ScreenInv, SheetInv
  <2>2. /\ IsSheet(sheet') /\ sheet'.open /\ sheet'.number = sheet.number
        /\ sheet'.edits = sheet.edits /\ OnScreen' = OnScreen
    <3>1. PICK draft : draft = [sheet.draft EXCEPT !.key = None]
      OBVIOUS
    <3>2. \E model : sheet' = [open |-> TRUE, number |-> sheet.number, opened |-> sheet.opened,
              draft |-> draft, tested |-> TRUE, model |-> model, edits |-> sheet.edits]
      BY <1>3, <2>1, <3>1 DEF IsSheet
    <3>3. IsDraft(draft) /\ draft.provider = sheet.draft.provider /\ draft.base_url = sheet.draft.base_url
      BY <2>1, <3>1 DEF IsSheet, IsDraft
    <3> QED
      BY <2>1, <3>2, <3>3 DEF IsSheet, OnScreen, addressOf
  <2>3. ~overtaken => Place(row) = OnScreen
    BY <1>3, <2>1 DEF ScreenInv, ShownInv
  <2> QED
    BY <1>1, <2>2, <2>3 DEF ScreenInv, SheetInv, TestInv, ShownInv, Passed, Place
<1> QED
  BY <1>1, <1>2, <1>3

LEMMA ScreenStart == ASSUME Init PROVE ScreenInv
<1>1. ~sheet.open
  BY DEF Init, Shut
<1> QED
  BY <1>1 DEF Init, ScreenInv, SheetInv, ShownInv

LEMMA ScreenStep ==
    ASSUME StoredInv, ScreenInv, RowsAreApart, CandidatesAreApart, [Next]_agentVars
    PROVE  ScreenInv'
<1>1. CASE OpenSheet \/ CloseSheet
  BY <1>1, SheetComes DEF OpenSheet, CloseSheet
<1>2. CASE edit \/ chooseModel \/ SendTest
  BY <1>2, SheetEdited, ModelChosen, TestSent
<1>3. CASE \E t \in tests : ReceiveTest(t) \/ PassTest(t) \/ RefuseTest(t) \/ LandTest(t)
  BY <1>3, TestReceived, TestPasses, TestRefused, TestLands
<1>4. CASE ServeSave \/ \E field \in Rows : ServeRow(field)
  <2>1. UNCHANGED <<sheet, sheets, tests, overtaken>>
    BY <1>4 DEF ServeSave, ServeRow
  <2> QED
    BY <1>4, <2>1, SavesMove, ScreenStands DEF Place
<1>5. CASE LandSave
  <2>1. UNCHANGED <<row, tests, overtaken, sheets>> /\ (sheet' = sheet \/ sheet' = Shut)
    BY <1>5 DEF LandSave
  <2> QED
    BY <2>1, SheetComes, ScreenStands
<1>6. CASE SendSave \/ ServeRead \/ LandRead \/ (\E field \in Rows : saveRow(field) \/ LandRow(field))
           \/ UNCHANGED agentVars
  BY <1>6, ScreenStands DEF SendSave, ServeRead, LandRead, saveRow, LandRow, agentVars
<1> QED
  BY <1>1, <1>2, <1>3, <1>4, <1>5, <1>6 DEF Next

(* What may be saved is at the place the server holds: a pass belongs to   *)
(* the form on screen and a test does not undo what changed while it ran   *)
(* (AgentProviderSheet.tsx, savable; api/agent.py, probe_agent), but for   *)
(* the late test of an older form.                                         *)
THEOREM SavablesAreStored ==
    ASSUME RowsAreApart, NoneIsApart, CandidatesAreApart
    PROVE  Spec => []SavableIsStored
<1>1. StoredInv /\ ScreenInv => SavableIsStored
  BY DEF ScreenInv, ShownInv, OnScreen, SavableIsStored, Savable
<1> QED
  BY <1>1, StoredStart, StoredStep, ScreenStart, ScreenStep, PTL DEF Spec

-----------------------------------------------------------------------------
(* The dials.                                                              *)

(* A row for each dial.                                                    *)
IsRow(f) == f = [key \in DialKeys |-> f[key]]

(* None is no text, no row of dials and no request.                        *)
TextsAreApart ==
    /\ None # Blank /\ \A key \in DialKeys : None \notin Texts[key]
    /\ \A f : IsRow(f) => None # f
    /\ \A key, text, phase, answer :
           None # [key |-> key, text |-> text, phase |-> phase, answer |-> answer]

IsSave(r) == r = [key |-> r.key, text |-> r.text, phase |-> r.phase, answer |-> r.answer]
IsRun(b) == b = [known |-> b.known, answered |-> b.answered] /\ b.answered \in BOOLEAN
SavePhases == {"sent", "written", "applied", "answered", "refused"}
Taken == {"written", "applied", "answered"}

RowsInv ==
    /\ IsRow(table) /\ IsRow(inForce) /\ IsRow(drafts) /\ IsRow(receipts) /\ IsRow(sending)
    /\ IsRow(queued) /\ IsRow(base) /\ IsRow(wanted) /\ IsRow(dialSaves)
    /\ dials # None => IsRow(dials)
    /\ dialsRead \notin {None, Asked} => IsRow(dialsRead)
    /\ \A key \in DialKeys : drafts[key] = None \/ drafts[key] \in Texts[key]
    /\ lost \in Nat

(* A run: one save is on its way, of the value being sent; the value last  *)
(* asked for is behind it, or is it.                                       *)
RunInv(key) ==
    /\ sending[key] = None <=> dialSaves[key] = None
    /\ dialSaves[key] # None =>
        /\ IsSave(dialSaves[key]) /\ dialSaves[key].phase \in SavePhases
        /\ dialSaves[key].text = sending[key]
        /\ IsRun(base[key]) /\ dials # None
        /\ wanted[key] = (IF queued[key] = None THEN sending[key] ELSE queued[key])

(* Once the store took a value it is the one being sent, the answer is it, *)
(* and the jobs run with it but between the write and its effect.          *)
EffectInv(key) ==
    LET phase == dialSaves[key].phase
    IN  /\ (dialSaves[key] # None /\ phase = "written")
           \/ inForce[key] = Dialling!Effective[key]
        /\ (dialSaves[key] # None /\ phase \in Taken) => Dialling!Effective[key] = sending[key]
        /\ (dialSaves[key] # None /\ phase = "answered") =>
               dialSaves[key].answer = Dialling!Effective[key]

(* Nothing of the run moved the store yet.                                 *)
Clean(key) ==
    dialSaves[key] # None => ~base[key].answered /\ dialSaves[key].phase \notin Taken

(* What is read of a dial, and is being read, is the server's until a save *)
(* moves it; from then on the last answer is, until the next one moves it. *)
ReadInv(key) ==
    /\ Clean(key) =>
        /\ dials # None => dials[key] = Dialling!Effective[key]
        /\ dialsRead \notin {None, Asked} => dialsRead[key] = Dialling!Effective[key]
    /\ (dialSaves[key] # None /\ base[key].answered /\ dialSaves[key].phase \notin Taken) =>
        base[key].known = Dialling!Effective[key]
    /\ (dialSaves[key] = None /\ receipts[key] = "saved") =>
        wanted[key] \in {Blank, Dialling!Effective[key]}

DialInv(key) == RunInv(key) /\ EffectInv(key) /\ (Dialling!Unlost => ReadInv(key))
DialsInv == RowsInv /\ \A key \in DialKeys : DialInv(key)

-----------------------------------------------------------------------------
(* One dial of a row is written, and the others stay.                      *)
LEMMA AtRow ==
    ASSUME NEW f, IsRow(f), NEW key \in DialKeys, NEW v
    PROVE  /\ IsRow(Dialling!At(f, key, v)) /\ Dialling!At(f, key, v)[key] = v
           /\ \A k \in DialKeys : k # key => Dialling!At(f, key, v)[k] = f[k]
<1>1. PICK g : g = [f EXCEPT ![key] = v]
  OBVIOUS
<1>2. g = [k \in DialKeys |-> IF k = key THEN v ELSE f[k]]
  BY <1>1 DEF IsRow
<1>3. IsRow(g) /\ g[key] = v /\ \A k \in DialKeys : k # key => g[k] = f[k]
  BY <1>2 DEF IsRow
<1> QED
  BY <1>1, <1>3 DEF Dialling!At

(* A step on a dial leaves the others as they were.                        *)
StandsStill(k) ==
    /\ table'[k] = table[k] /\ inForce'[k] = inForce[k] /\ receipts'[k] = receipts[k]
    /\ sending'[k] = sending[k] /\ queued'[k] = queued[k] /\ base'[k] = base[k]
    /\ wanted'[k] = wanted[k] /\ dialSaves'[k] = dialSaves[k]
LEMMA OthersStand ==
    ASSUME DialsInv, RowsInv', NEW k \in DialKeys, StandsStill(k),
           dials = None <=> dials' = None, dials # None => dials'[k] = dials[k],
           dialsRead' \in {None, dialsRead}, Dialling!Unlost' => Dialling!Unlost
    PROVE  DialInv(k)'
<1>1. Dialling!Effective'[k] = Dialling!Effective[k]
  BY DEF StandsStill, Dialling!Effective, Dialling!resolve
<1>2. DialInv(k)
  BY DEF DialsInv
<1>3. RunInv(k)'
  BY <1>2 DEF DialInv, RunInv, StandsStill
<1>4. EffectInv(k)'
  BY <1>1, <1>2 DEF DialInv, EffectInv, StandsStill
<1>5. ASSUME Dialling!Unlost'
      PROVE  ReadInv(k)'
  <2>1. ReadInv(k) /\ (Clean(k)' <=> Clean(k))
    BY <1>2, <1>5 DEF DialInv, Clean, StandsStill
  <2>2. dialsRead' \notin {None, Asked} => dialsRead' = dialsRead
    OBVIOUS
  <2> QED
    BY <1>1, <2>1, <2>2 DEF ReadInv, StandsStill
<1> QED
  BY <1>3, <1>4, <1>5 DEF DialInv

(* The dials are written one by one.                                       *)
LEMMA EffectiveIs ==
    \A k \in DialKeys : Dialling!Effective[k] = Dialling!resolve(k, table[k])
BY DEF Dialling!Effective

TypedRow(typed) ==
    IsRow(typed) /\ \A key \in DialKeys : typed[key] = None \/ typed[key] \in Texts[key]

(* What is read of a dial, and is being read, is the server's.             *)
ReadsAre(key) ==
    /\ dials[key] = Dialling!Effective[key]
    /\ dialsRead \notin {None, Asked} => dialsRead[key] = Dialling!Effective[key]

(* A run that ends on what the server holds leaves a row that says it.     *)
LEMMA EndsHolds ==
    ASSUME DialsInv, TextsAreApart, NEW key \in DialKeys, NEW text, NEW known,
           NEW answered \in BOOLEAN, NEW ok \in BOOLEAN, NEW typed, TypedRow(typed), NEW said,
           Dialling!Ends(key, text, known, answered, ok, typed),
           receipts' = Dialling!At(receipts, key, said),
           dials # None, UNCHANGED <<table, inForce, lost>>,
           IsRow(wanted'), \A k \in DialKeys : k # key => wanted'[k] = wanted[k],
           inForce[key] = Dialling!Effective[key],
           Dialling!Unlost =>
               IF answered THEN known = Dialling!Effective[key] ELSE ReadsAre(key),
           (Dialling!Unlost /\ said = "saved") => wanted'[key] \in {Blank, Dialling!Effective[key]}
    PROVE  DialsInv'
<1>1. RowsInv
  BY DEF DialsInv
<1>2. /\ sending' = Dialling!At(sending, key, None) /\ queued' = Dialling!At(queued, key, None)
      /\ base' = Dialling!At(base, key, None) /\ dialSaves' = Dialling!At(dialSaves, key, None)
      /\ dials' = IF answered THEN Dialling!At(dials, key, known) ELSE dials
      /\ dialsRead' = IF answered THEN None ELSE dialsRead
      /\ drafts' = IF ok /\ typed[key] = text THEN Dialling!At(typed, key, None) ELSE typed
  BY DEF Dialling!Ends, Dialling!OnlyThisRow, Dialling!DroppedReads
<1>3. /\ IsRow(sending') /\ IsRow(queued') /\ IsRow(base') /\ IsRow(dialSaves') /\ IsRow(receipts')
      /\ sending'[key] = None /\ dialSaves'[key] = None /\ receipts'[key] = said
      /\ \A k \in DialKeys : k # key =>
             /\ sending'[k] = sending[k] /\ queued'[k] = queued[k] /\ base'[k] = base[k]
             /\ dialSaves'[k] = dialSaves[k] /\ receipts'[k] = receipts[k]
  BY <1>1, <1>2, AtRow DEF RowsInv
<1>4. IsRow(dials) /\ IsRow(Dialling!At(dials, key, known))
      /\ Dialling!At(dials, key, known)[key] = known
      /\ \A k \in DialKeys : k # key => Dialling!At(dials, key, known)[k] = dials[k]
  BY <1>1, AtRow DEF RowsInv
<1>5. /\ IsRow(dials') /\ dials' # None
      /\ \A k \in DialKeys : k # key => dials'[k] = dials[k]
      /\ dials'[key] = IF answered THEN known ELSE dials[key]
      /\ dialsRead' \in {None, dialsRead}
  BY <1>2, <1>4 DEF TextsAreApart
<1>6. TypedRow(drafts')
  <2>1. TypedRow(Dialling!At(typed, key, None))
    BY AtRow DEF TypedRow
  <2> QED
    BY <1>2, <2>1
<1>7. RowsInv'
  BY <1>1, <1>3, <1>5, <1>6 DEF RowsInv, TypedRow, IsRow
<1>8. ASSUME NEW k \in DialKeys, k # key
      PROVE  DialInv(k)'
  <2>1. StandsStill(k)
    BY <1>3, <1>8 DEF StandsStill
  <2> QED
    BY <1>5, <1>7, <1>8, <2>1, OthersStand DEF Dialling!Unlost
<1>9. DialInv(key)'
  <2>1. Dialling!Effective'[key] = Dialling!Effective[key]
    BY DEF Dialling!Effective, Dialling!resolve
  <2>2. RunInv(key)' /\ EffectInv(key)'
    BY <1>3, <2>1 DEF RunInv, EffectInv
  <2>3. ASSUME Dialling!Unlost
        PROVE  ReadInv(key)'
    <3>1. CASE answered
      BY <1>2, <1>3, <1>5, <2>1, <2>3, <3>1 DEF ReadInv
    <3>2. CASE ~answered
      BY <1>2, <1>3, <1>5, <2>1, <2>3, <3>2 DEF ReadInv, ReadsAre
    <3> QED
      BY <3>1, <3>2
  <2> QED
    BY <2>2, <2>3 DEF DialInv, Dialling!Unlost
<1> QED
  BY <1>7, <1>8, <1>9 DEF DialsInv

(* A value that is sent starts, or goes on with, a run.                    *)
LEMMA SendsHolds ==
    ASSUME DialsInv, TextsAreApart, NEW key \in DialKeys, NEW text, text # None, NEW known,
           NEW answered \in BOOLEAN, NEW typed, TypedRow(typed),
           Dialling!Sends(key, text, known, answered, typed),
           dials # None, UNCHANGED <<table, inForce, lost>>,
           IsRow(wanted'), \A k \in DialKeys : k # key => wanted'[k] = wanted[k],
           wanted'[key] = text, inForce[key] = Dialling!Effective[key],
           Dialling!Unlost =>
               IF answered THEN known = Dialling!Effective[key] ELSE ReadsAre(key)
    PROVE  DialsInv'
<1>1. RowsInv
  BY DEF DialsInv
<1>2. PICK run : run = [known |-> known, answered |-> answered]
  OBVIOUS
<1>3. PICK save : save = Dialling!Request(key, text)
  OBVIOUS
<1>4. /\ save # None /\ IsSave(save) /\ save.phase = "sent" /\ save.text = text
      /\ IsRun(run) /\ run.answered = answered /\ run.known = known
  BY <1>2, <1>3 DEF Dialling!Request, IsSave, IsRun, TextsAreApart
<1>5. /\ sending' = Dialling!At(sending, key, text) /\ queued' = Dialling!At(queued, key, None)
      /\ base' = Dialling!At(base, key, run) /\ dialSaves' = Dialling!At(dialSaves, key, save)
      /\ receipts' = Dialling!At(receipts, key, "saving")
      /\ drafts' = typed /\ UNCHANGED <<dials, dialsRead>>
  BY <1>2, <1>3 DEF Dialling!Sends
<1>6. /\ IsRow(sending') /\ IsRow(queued') /\ IsRow(base') /\ IsRow(dialSaves') /\ IsRow(receipts')
      /\ sending'[key] = text /\ queued'[key] = None /\ base'[key] = run
      /\ dialSaves'[key] = save
      /\ \A k \in DialKeys : k # key =>
             /\ sending'[k] = sending[k] /\ queued'[k] = queued[k] /\ base'[k] = base[k]
             /\ dialSaves'[k] = dialSaves[k] /\ receipts'[k] = receipts[k]
  BY <1>1, <1>5, AtRow DEF RowsInv
<1>7. RowsInv'
  BY <1>1, <1>5, <1>6 DEF RowsInv, TypedRow, IsRow
<1>8. ASSUME NEW k \in DialKeys, k # key
      PROVE  DialInv(k)'
  <2>1. StandsStill(k)
    BY <1>6, <1>8 DEF StandsStill
  <2> QED
    BY <1>5, <1>7, <1>8, <2>1, OthersStand DEF Dialling!Unlost
<1>9. DialInv(key)'
  <2>1. Dialling!Effective'[key] = Dialling!Effective[key]
    BY DEF Dialling!Effective, Dialling!resolve
  <2>2. RunInv(key)'
    BY <1>4, <1>5, <1>6 DEF RunInv, SavePhases
  <2>3. EffectInv(key)'
    BY <1>4, <1>6, <2>1 DEF EffectInv, Taken
  <2>4. ASSUME Dialling!Unlost
        PROVE  ReadInv(key)'
    BY <1>4, <1>5, <1>6, <2>1, <2>4 DEF ReadInv, ReadsAre, Clean, Taken
  <2> QED
    BY <2>2, <2>3, <2>4 DEF DialInv, Dialling!Unlost
<1> QED
  BY <1>7, <1>8, <1>9 DEF DialsInv

(* What did not move is blank, or what is known.                           *)
LEMMA UnmovedIsKnown ==
    ASSUME NEW key, NEW known, NEW text, ~Dialling!changedValues(key, known, text)
    PROVE  text \in {Blank, known}
BY DEF Dialling!changedValues

LEMMA GoesHolds ==
    ASSUME DialsInv, TextsAreApart, NEW key \in DialKeys, NEW text, text # None, NEW known,
           NEW answered \in BOOLEAN, NEW said, NEW typed, TypedRow(typed),
           Dialling!Goes(key, text, known, answered, said, typed),
           dials # None, UNCHANGED <<table, inForce, lost>>,
           IsRow(wanted'), \A k \in DialKeys : k # key => wanted'[k] = wanted[k],
           wanted'[key] = text, inForce[key] = Dialling!Effective[key],
           Dialling!Unlost =>
               IF answered THEN known = Dialling!Effective[key] ELSE ReadsAre(key),
           (Dialling!Unlost /\ said = "saved") => known = Dialling!Effective[key]
    PROVE  DialsInv'
<1>1. CASE Dialling!changedValues(key, known, text)
  <2>1. Dialling!Sends(key, text, known, answered, typed)
    BY <1>1 DEF Dialling!Goes
  <2> QED
    BY <2>1, SendsHolds
<1>2. CASE ~Dialling!changedValues(key, known, text)
  <2>1. /\ Dialling!Ends(key, text, known, answered, TRUE, typed)
        /\ receipts' = Dialling!At(receipts, key, Dialling!Receipt(said, answered))
    BY <1>2 DEF Dialling!Goes
  <2>2. PICK says : says = Dialling!Receipt(said, answered)
    OBVIOUS
  <2>3. says = "saved" => answered \/ said = "saved"
    BY <2>2 DEF Dialling!Receipt
  <2>4. (Dialling!Unlost /\ says = "saved") => wanted'[key] \in {Blank, Dialling!Effective[key]}
    BY <1>2, <2>3, UnmovedIsKnown
  <2>5. receipts' = Dialling!At(receipts, key, says)
    BY <2>1, <2>2
  <2>6. TRUE \in BOOLEAN
    OBVIOUS
  <2> QED
    BY <2>1, <2>4, <2>5, <2>6, EndsHolds
<1> QED
  BY <1>1, <1>2

(* What is typed, or known, is a text.                                     *)
LEMMA DraftIsText ==
    ASSUME DialsInv, TextsAreApart, NEW key \in DialKeys
    PROVE  Dialling!draft(key) # None
BY DEF DialsInv, RowsInv, TextsAreApart, Dialling!draft, Dialling!draftFrom

(* A gesture on a row that is not saving starts from what it shows; one on *)
(* a row that is waits behind, or takes back what waited.                  *)
LEMMA CommitHolds ==
    ASSUME DialsInv, TextsAreApart, NEW key \in DialKeys, NEW text, text # None,
           NEW typed, TypedRow(typed), Dialling!commit(key, text, typed),
           dials # None, UNCHANGED <<table, inForce, lost>>
    PROVE  DialsInv'
<1>1. RowsInv /\ DialInv(key)
  BY DEF DialsInv
<1>2. /\ IsRow(wanted') /\ wanted'[key] = text
      /\ \A k \in DialKeys : k # key => wanted'[k] = wanted[k]
  BY <1>1, AtRow DEF RowsInv, Dialling!commit
<1>3. CASE sending[key] = None
  <2>1. Dialling!Goes(key, text, dials[key], FALSE, receipts[key], typed)
    BY <1>3 DEF Dialling!commit
  <2>2. dialSaves[key] = None /\ inForce[key] = Dialling!Effective[key]
    BY <1>1, <1>3 DEF DialInv, RunInv, EffectInv
  <2>3. Dialling!Unlost => ReadsAre(key)
    BY <1>1, <2>2 DEF DialInv, ReadInv, Clean, ReadsAre
  <2>4. FALSE \in BOOLEAN /\ (Dialling!Unlost => dials[key] = Dialling!Effective[key])
    BY <2>3 DEF ReadsAre
  <2> QED
    BY <1>2, <2>1, <2>2, <2>3, <2>4, GoesHolds
<1>4. CASE sending[key] # None
  <2>1. /\ queued' = Dialling!At(queued, key, IF text = sending[key] THEN None ELSE text)
        /\ drafts' = typed
        /\ UNCHANGED <<sending, base, dialSaves, dials, dialsRead, receipts>>
    BY <1>4 DEF Dialling!commit, Dialling!QueuedBehind
  <2>2. /\ IsRow(queued') /\ queued'[key] = IF text = sending[key] THEN None ELSE text
        /\ \A k \in DialKeys : k # key => queued'[k] = queued[k]
    BY <1>1, <2>1, AtRow DEF RowsInv
  <2>3. RowsInv'
    BY <1>1, <1>2, <2>1, <2>2 DEF RowsInv, TypedRow, IsRow
  <2>4. ASSUME NEW k \in DialKeys, k # key
        PROVE  DialInv(k)'
    <3>1. StandsStill(k)
      BY <1>2, <2>1, <2>2, <2>4 DEF StandsStill
    <3> QED
      BY <2>1, <2>3, <2>4, <3>1, OthersStand DEF Dialling!Unlost
  <2>5. Dialling!Effective'[key] = Dialling!Effective[key] /\ dialSaves[key] # None
    BY <1>1, <1>4 DEF Dialling!Effective, Dialling!resolve, DialInv, RunInv
  <2>6. RunInv(key)'
    BY <1>1, <1>2, <2>1, <2>2, <2>5 DEF DialInv, RunInv
  <2>7. EffectInv(key)'
    BY <1>1, <2>1, <2>5 DEF DialInv, EffectInv
  <2>8. ASSUME Dialling!Unlost
        PROVE  ReadInv(key)'
    BY <1>1, <2>1, <2>5, <2>8 DEF DialInv, ReadInv, Clean
  <2> QED
    BY <2>3, <2>4, <2>6, <2>7, <2>8 DEF DialsInv, DialInv, Dialling!Unlost
<1> QED
  BY <1>3, <1>4

-----------------------------------------------------------------------------
(* The save of a dial moves on, and the others stay.                       *)
LEMMA PhaseMoves ==
    ASSUME DialsInv, TextsAreApart, NEW key \in DialKeys, dialSaves[key] # None, NEW phase
    PROVE  dialSaves' = [dialSaves EXCEPT ![key].phase = phase] =>
           /\ IsRow(dialSaves') /\ dialSaves'[key] # None /\ IsSave(dialSaves'[key])
           /\ dialSaves'[key].phase = phase /\ dialSaves'[key].text = sending[key]
           /\ dialSaves'[key].answer = dialSaves[key].answer
           /\ \A k \in DialKeys : k # key => dialSaves'[k] = dialSaves[k]
<1>0. SUFFICES ASSUME dialSaves' = [dialSaves EXCEPT ![key].phase = phase]
               PROVE  /\ IsRow(dialSaves') /\ dialSaves'[key] # None /\ IsSave(dialSaves'[key])
                      /\ dialSaves'[key].phase = phase /\ dialSaves'[key].text = sending[key]
                      /\ dialSaves'[key].answer = dialSaves[key].answer
                      /\ \A k \in DialKeys : k # key => dialSaves'[k] = dialSaves[k]
  OBVIOUS
<1>1. RowsInv /\ RunInv(key)
  BY DEF DialsInv, DialInv
<1>2. PICK save : save = [key |-> dialSaves[key].key, text |-> dialSaves[key].text,
                          phase |-> phase, answer |-> dialSaves[key].answer]
  OBVIOUS
<1>3. PICK old : old = dialSaves[key]
  OBVIOUS
<1>4. save = [old EXCEPT !.phase = phase]
  BY <1>1, <1>2, <1>3 DEF RunInv, IsSave
<1>5. dialSaves' = Dialling!At(dialSaves, key, save)
  BY <1>0, <1>3, <1>4 DEF Dialling!At
<1>6. save # None /\ IsSave(save)
  BY <1>2 DEF TextsAreApart, IsSave
<1>7. save.phase = phase /\ save.text = sending[key] /\ save.answer = dialSaves[key].answer
  BY <1>1, <1>2 DEF RunInv
<1>8. IsRow(dialSaves)
  BY <1>1 DEF RowsInv
<1>9. /\ IsRow(dialSaves') /\ dialSaves'[key] = save
      /\ \A k \in DialKeys : k # key => dialSaves'[k] = dialSaves[k]
  BY <1>5, <1>8, AtRow
<1> QED
  BY <1>6, <1>7, <1>9

(* The write is of the value being sent, under the mutex.                  *)
LEMMA WriteHolds ==
    ASSUME DialsInv, TextsAreApart, NEW key \in DialKeys, Dialling!Write(key)
    PROVE  DialsInv'
<1>1. RowsInv /\ DialInv(key)
  BY DEF DialsInv
<1>2. /\ dialSaves[key] # None /\ dialSaves[key].phase = "sent"
      /\ UNCHANGED <<withEvents, inForce, dials, dialsRead, drafts, receipts, sending, queued,
                     base, wanted, lost>>
  BY DEF Dialling!Write
<1>3. /\ dialSaves[key].text = sending[key] /\ sending[key] # None
      /\ inForce[key] = Dialling!Effective[key]
  BY <1>1, <1>2 DEF DialInv, RunInv, EffectInv
<1>4. PICK phase \in {"applied", "written", "refused"} :
        /\ dialSaves' = [dialSaves EXCEPT ![key].phase = phase]
        /\ \/ /\ phase \in {"applied", "refused"} /\ table' = table
              /\ phase = "applied" => sending[key] = Dialling!Effective[key]
           \/ /\ phase = "written" /\ table' = Dialling!At(table, key, sending[key])
  <2>1. CASE Dialling!Accepted(key, dialSaves[key].text)
    <3>1. /\ table' = Dialling!Stored(key, sending[key])
          /\ dialSaves' = [dialSaves EXCEPT ![key].phase =
                              IF table' = table THEN "applied" ELSE "written"]
      BY <1>3, <2>1 DEF Dialling!Write
    <3>2. CASE sending[key] = Dialling!Effective[key]
      BY <3>1, <3>2 DEF Dialling!Stored
    <3>3. CASE sending[key] # Dialling!Effective[key]
      <4>1. table' = Dialling!At(table, key, sending[key])
        BY <3>1, <3>3 DEF Dialling!Stored, Dialling!At
      <4>2. table'[key] = sending[key]
        BY <1>1, <4>1, AtRow DEF RowsInv
      <4>3. table' # table
        BY <1>3, <3>3, <4>2 DEF Dialling!Effective, Dialling!resolve
      <4> QED
        BY <3>1, <4>1, <4>3
    <3> QED
      BY <3>2, <3>3
  <2>2. CASE ~Dialling!Accepted(key, dialSaves[key].text)
    BY <2>2 DEF Dialling!Write
  <2> QED
    BY <2>1, <2>2
<1>5. /\ IsRow(dialSaves') /\ dialSaves'[key] # None /\ IsSave(dialSaves'[key])
      /\ dialSaves'[key].phase = phase /\ dialSaves'[key].text = sending[key]
      /\ \A k \in DialKeys : k # key => dialSaves'[k] = dialSaves[k]
  BY <1>2, <1>4, PhaseMoves
<1>6. /\ IsRow(table') /\ \A k \in DialKeys : k # key => table'[k] = table[k]
      /\ phase # "written" => Dialling!Effective'[key] = Dialling!Effective[key]
      /\ phase = "written" => Dialling!Effective'[key] = sending[key]
  <2>1. CASE table' = table /\ phase # "written"
    BY <1>1, <2>1 DEF RowsInv, Dialling!Effective, Dialling!resolve
  <2>2. CASE phase = "written" /\ table' = Dialling!At(table, key, sending[key])
    BY <1>1, <1>3, <2>2, AtRow DEF RowsInv, Dialling!Effective, Dialling!resolve
  <2> QED
    BY <1>4, <2>1, <2>2
<1>7. RowsInv'
  BY <1>1, <1>2, <1>5, <1>6 DEF RowsInv, IsRow
<1>8. ASSUME NEW k \in DialKeys, k # key
      PROVE  DialInv(k)'
  <2>1. StandsStill(k)
    BY <1>2, <1>5, <1>6, <1>8 DEF StandsStill
  <2> QED
    BY <1>2, <1>7, <1>8, <2>1, OthersStand DEF Dialling!Unlost
<1>9. RunInv(key)'
  BY <1>1, <1>2, <1>3, <1>5 DEF DialInv, RunInv, SavePhases
<1>10. EffectInv(key)'
  BY <1>1, <1>2, <1>3, <1>4, <1>5, <1>6 DEF EffectInv, Taken
<1>11. ASSUME Dialling!Unlost
       PROVE  ReadInv(key)'
  <2>1. ReadInv(key)
    BY <1>1, <1>11 DEF DialInv
  <2>2. CASE phase = "refused"
    BY <1>2, <1>5, <1>6, <2>1, <2>2 DEF ReadInv, Clean, Taken
  <2>3. CASE phase # "refused"
    BY <1>5, <2>3 DEF ReadInv, Clean, Taken
  <2> QED
    BY <2>2, <2>3
<1> QED
  BY <1>2, <1>7, <1>8, <1>9, <1>10, <1>11 DEF DialsInv, DialInv, Dialling!Unlost

(* An answered save is written in its place.                               *)
LEMMA AnswerIsAt ==
    ASSUME IsRow(dialSaves), NEW key \in DialKeys, IsSave(dialSaves[key]), NEW eff, NEW save,
           save = [key |-> dialSaves[key].key, text |-> dialSaves[key].text,
                   phase |-> "answered", answer |-> eff]
    PROVE  dialSaves' = [dialSaves EXCEPT ![key].phase = "answered", ![key].answer = eff] =>
           dialSaves' = Dialling!At(dialSaves, key, save)
<1>1. PICK old : old = dialSaves[key]
  OBVIOUS
<1>2. PICK said : said = [key |-> old.key, text |-> old.text, phase |-> "answered",
                          answer |-> old.answer]
  OBVIOUS
<1>3. said = [old EXCEPT !.phase = "answered"]
  BY <1>1, <1>2 DEF IsSave
<1>4. save = [said EXCEPT !.answer = eff]
  BY <1>1, <1>2
<1>5. PICK half : half = [dialSaves EXCEPT ![key] = said]
  OBVIOUS
<1>6. /\ half = [k \in DialKeys |-> IF k = key THEN said ELSE dialSaves[k]] /\ half[key] = said
  BY <1>5 DEF IsRow
<1>7. PICK full : full = [half EXCEPT ![key] = save]
  OBVIOUS
<1>8. full = [k \in DialKeys |-> IF k = key THEN save ELSE dialSaves[k]]
  BY <1>6, <1>7
<1>9. full = [dialSaves EXCEPT ![key] = save]
  BY <1>8 DEF IsRow
<1>10. full = [dialSaves EXCEPT ![key].phase = "answered", ![key].answer = eff]
  BY <1>1, <1>3, <1>4, <1>5, <1>6, <1>7
<1> QED
  BY <1>9, <1>10 DEF Dialling!At

(* A save that goes through its steps on the server, or that is lost.      *)
LEMMA SaveMoves ==
    ASSUME DialsInv, TextsAreApart, NEW key \in DialKeys,
           \/ Dialling!apply_settings(key) \/ Dialling!Answers(key) \/ Dialling!Loses(key)
    PROVE  DialsInv'
<1>1. RowsInv /\ DialInv(key)
  BY DEF DialsInv
<1>2. /\ dialSaves[key] # None
      /\ UNCHANGED <<table, dials, dialsRead, drafts, receipts, sending, queued, base, wanted>>
      /\ lost' = lost \/ lost' = lost + 1
  BY DEF Dialling!apply_settings, Dialling!Answers, Dialling!Loses
<1>3. \A k \in DialKeys : Dialling!Effective'[k] = Dialling!Effective[k]
  BY <1>2 DEF Dialling!Effective, Dialling!resolve
<1>4. lost' \in Nat /\ (Dialling!Unlost' => Dialling!Unlost /\ lost' = lost)
  BY <1>1, <1>2 DEF RowsInv, Dialling!Unlost
<1>5. ASSUME IsRow(dialSaves'), IsRow(inForce'),
             \A k \in DialKeys : k # key => dialSaves'[k] = dialSaves[k] /\ inForce'[k] = inForce[k]
      PROVE  RowsInv' /\ \A k \in DialKeys : k # key => DialInv(k)'
  <2>1. RowsInv'
    BY <1>1, <1>2, <1>4, <1>5 DEF RowsInv, IsRow
  <2>2. ASSUME NEW k \in DialKeys, k # key
        PROVE  DialInv(k)'
    <3>1. StandsStill(k)
      BY <1>2, <1>5, <2>2 DEF StandsStill
    <3> QED
      BY <1>2, <1>4, <2>1, <2>2, <3>1, OthersStand
  <2> QED
    BY <2>1, <2>2
<1>6. /\ dialSaves[key].phase \in SavePhases /\ IsRun(base[key]) /\ dials # None
      /\ wanted[key] = (IF queued[key] = None THEN sending[key] ELSE queued[key])
      /\ sending[key] # None
  BY <1>1, <1>2 DEF DialInv, RunInv
<1>7. CASE Dialling!apply_settings(key)
  <2>1. /\ dialSaves[key].phase = "written" /\ UNCHANGED lost
        /\ inForce' = Dialling!At(inForce, key, dialSaves[key].text)
        /\ dialSaves' = [dialSaves EXCEPT ![key].phase = "applied"]
    BY <1>7 DEF Dialling!apply_settings
  <2>2. /\ IsRow(dialSaves') /\ dialSaves'[key] # None /\ IsSave(dialSaves'[key])
        /\ dialSaves'[key].phase = "applied" /\ dialSaves'[key].text = sending[key]
        /\ \A k \in DialKeys : k # key => dialSaves'[k] = dialSaves[k]
    BY <1>2, <2>1, PhaseMoves
  <2>3. /\ IsRow(inForce') /\ inForce'[key] = sending[key]
        /\ \A k \in DialKeys : k # key => inForce'[k] = inForce[k]
    <3>1. dialSaves[key].text = sending[key] /\ IsRow(inForce)
      BY <1>1, <1>2 DEF DialInv, RunInv, RowsInv
    <3> QED
      BY <2>1, <3>1, AtRow
  <2>4. Dialling!Effective'[key] = sending[key]
    BY <1>1, <1>2, <1>3, <2>1 DEF DialInv, EffectInv, Taken
  <2>5. RunInv(key)'
    BY <1>2, <1>6, <2>2 DEF RunInv, SavePhases
  <2>6. EffectInv(key)'
    BY <1>2, <2>2, <2>3, <2>4 DEF EffectInv
  <2>7. ReadInv(key)'
    BY <2>2 DEF ReadInv, Clean, Taken
  <2> QED
    BY <1>5, <2>2, <2>3, <2>5, <2>6, <2>7 DEF DialsInv, DialInv
<1>8. CASE Dialling!Answers(key)
  <2>1. /\ dialSaves[key].phase = "applied" /\ UNCHANGED <<lost, inForce>>
        /\ dialSaves' = [dialSaves EXCEPT ![key].phase = "answered",
                                          ![key].answer = Dialling!Effective[key]]
    BY <1>8 DEF Dialling!Answers
  <2>2. PICK save : save = [key |-> dialSaves[key].key, text |-> dialSaves[key].text,
                            phase |-> "answered", answer |-> Dialling!Effective[key]]
    OBVIOUS
  <2>3. /\ save # None /\ IsSave(save) /\ save.phase = "answered" /\ save.text = sending[key]
        /\ save.answer = Dialling!Effective[key]
    BY <1>1, <1>2, <2>2 DEF DialInv, RunInv, IsSave, TextsAreApart
  <2>4. dialSaves' = Dialling!At(dialSaves, key, save)
    <3>1. PICK eff : eff = Dialling!Effective[key]
      OBVIOUS
    <3>2. IsSave(dialSaves[key]) /\ IsRow(dialSaves)
      BY <1>1, <1>2 DEF DialInv, RunInv, RowsInv
    <3>3. dialSaves' = [dialSaves EXCEPT ![key].phase = "answered", ![key].answer = eff]
      BY <2>1, <3>1
    <3>4. save = [key |-> dialSaves[key].key, text |-> dialSaves[key].text,
                  phase |-> "answered", answer |-> eff]
      BY <2>2, <3>1
    <3> QED
      BY <3>2, <3>3, <3>4, AnswerIsAt
  <2>5. /\ IsRow(dialSaves') /\ dialSaves'[key] = save
        /\ \A k \in DialKeys : k # key => dialSaves'[k] = dialSaves[k]
    BY <1>1, <2>4, AtRow DEF RowsInv
  <2>6. RunInv(key)'
    BY <1>2, <1>6, <2>3, <2>5 DEF RunInv, SavePhases
  <2>7. EffectInv(key)'
    BY <1>1, <1>2, <1>3, <2>1, <2>3, <2>5 DEF DialInv, EffectInv, Taken
  <2>8. ReadInv(key)'
    BY <2>3, <2>5 DEF ReadInv, Clean, Taken
  <2>9. IsRow(inForce') /\ \A k \in DialKeys : inForce'[k] = inForce[k]
    BY <1>1, <2>1 DEF RowsInv
  <2> QED
    BY <1>5, <2>5, <2>6, <2>7, <2>8, <2>9 DEF DialsInv, DialInv
<1>9. CASE Dialling!Loses(key)
  <2>1. /\ dialSaves[key].phase \in {"sent", "answered"} /\ lost' = lost + 1 /\ UNCHANGED inForce
        /\ dialSaves' = [dialSaves EXCEPT ![key].phase = "refused"]
    BY <1>9 DEF Dialling!Loses
  <2>2. /\ IsRow(dialSaves') /\ dialSaves'[key] # None /\ IsSave(dialSaves'[key])
        /\ dialSaves'[key].phase = "refused" /\ dialSaves'[key].text = sending[key]
        /\ \A k \in DialKeys : k # key => dialSaves'[k] = dialSaves[k]
    BY <1>2, <2>1, PhaseMoves
  <2>3. RunInv(key)'
    BY <1>2, <1>6, <2>2 DEF RunInv, SavePhases
  <2>4. EffectInv(key)'
    BY <1>1, <1>2, <1>3, <2>1, <2>2 DEF DialInv, EffectInv, Taken
  <2>5. ~Dialling!Unlost'
    BY <1>1, <2>1 DEF RowsInv, Dialling!Unlost
  <2>6. IsRow(inForce') /\ \A k \in DialKeys : inForce'[k] = inForce[k]
    BY <1>1, <2>1 DEF RowsInv
  <2> QED
    BY <1>5, <2>2, <2>3, <2>4, <2>5, <2>6 DEF DialsInv, DialInv
<1> QED
  BY <1>7, <1>8, <1>9

(* An answer ends the run, or sends the value behind it.                   *)
LEMMA LandsHolds ==
    ASSUME DialsInv, TextsAreApart, NEW key \in DialKeys, Dialling!Lands(key)
    PROVE  DialsInv'
<1>1. RowsInv /\ DialInv(key)
  BY DEF DialsInv
<1>2. /\ dialSaves[key] # None /\ dialSaves[key].phase \in {"answered", "refused"}
      /\ UNCHANGED <<table, inForce, wanted, lost>>
  BY DEF Dialling!Lands
<1>3. PICK passed \in BOOLEAN : passed = (dialSaves[key].phase = "answered")
  OBVIOUS
<1>4. PICK known : known = IF passed THEN dialSaves[key].answer ELSE base[key].known
  OBVIOUS
<1>5. PICK answered \in BOOLEAN : answered = (passed \/ base[key].answered)
  OBVIOUS
<1>6. PICK says : says = IF passed THEN "saving" ELSE "failed"
  OBVIOUS
<1>7. /\ IsRun(base[key]) /\ dials # None /\ sending[key] # None
      /\ wanted[key] = (IF queued[key] = None THEN sending[key] ELSE queued[key])
      /\ inForce[key] = Dialling!Effective[key]
  BY <1>1, <1>2 DEF DialInv, RunInv, EffectInv
<1>8. passed => known = Dialling!Effective[key] /\ sending[key] = Dialling!Effective[key]
  BY <1>1, <1>2, <1>3, <1>4 DEF DialInv, EffectInv, Taken
<1>9. Dialling!Unlost => IF answered THEN known = Dialling!Effective[key] ELSE ReadsAre(key)
  <2>1. CASE passed
    BY <1>5, <1>8, <2>1
  <2>2. CASE ~passed
    <3>1. dialSaves[key].phase \notin Taken /\ answered = base[key].answered
          /\ known = base[key].known
      BY <1>2, <1>3, <1>4, <1>5, <1>7, <2>2 DEF Taken, IsRun
    <3> QED
      BY <1>1, <1>2, <1>7, <3>1 DEF DialInv, ReadInv, Clean, ReadsAre
  <2> QED
    BY <2>1, <2>2
<1>10. IsRow(wanted') /\ wanted'[key] = wanted[key] /\ TypedRow(drafts)
       /\ \A k \in DialKeys : k # key => wanted'[k] = wanted[k]
  BY <1>1, <1>2 DEF RowsInv, TypedRow
<1>11. says # "saved"
  BY <1>6
<1>12. CASE queued[key] # None
  <2>1. Dialling!Goes(key, queued[key], known, answered, says, drafts)
    BY <1>3, <1>4, <1>5, <1>6, <1>12 DEF Dialling!Lands
  <2>2. wanted'[key] = queued[key]
    BY <1>7, <1>10, <1>12
  <2> QED
    BY <1>2, <1>7, <1>9, <1>10, <1>11, <1>12, <2>1, <2>2, GoesHolds
<1>13. CASE queued[key] = None
  <2>1. PICK done : done = IF passed THEN "saved" ELSE "failed"
    OBVIOUS
  <2>2. /\ Dialling!Ends(key, sending[key], known, answered, passed, drafts)
        /\ receipts' = Dialling!At(receipts, key, done)
    BY <1>3, <1>4, <1>5, <1>13, <2>1 DEF Dialling!Lands
  <2>3. done = "saved" => wanted'[key] \in {Blank, Dialling!Effective[key]}
    BY <1>7, <1>8, <1>10, <1>13, <2>1
  <2> QED
    BY <1>2, <1>7, <1>9, <1>10, <2>2, <2>3, EndsHolds
<1> QED
  BY <1>12, <1>13

(* What is typed, and what is taken back, is only shown.                   *)
LEMMA TypingHolds ==
    ASSUME DialsInv, TextsAreApart, NEW key \in DialKeys, NEW text, text = None \/ text \in Texts[key],
           drafts' = Dialling!At(drafts, key, text),
           receipts' = receipts \/ receipts' = Dialling!At(receipts, key, "idle"),
           UNCHANGED <<table, inForce, dials, dialsRead, sending, queued, base, wanted, dialSaves,
                       lost>>
    PROVE  DialsInv'
<1>1. RowsInv
  BY DEF DialsInv
<1>2. TypedRow(drafts')
  BY <1>1, AtRow DEF RowsInv, TypedRow
<1>3. /\ IsRow(receipts')
      /\ \A k \in DialKeys : receipts'[k] = "saved" => receipts[k] = "saved"
  BY <1>1, AtRow DEF RowsInv
<1>4. RowsInv'
  BY <1>1, <1>2, <1>3 DEF RowsInv, TypedRow, IsRow
<1>5. ASSUME NEW k \in DialKeys
      PROVE  DialInv(k)'
  <2>1. DialInv(k) /\ Dialling!Effective'[k] = Dialling!Effective[k]
    BY DEF DialsInv, Dialling!Effective, Dialling!resolve
  <2>2. RunInv(k)' /\ EffectInv(k)'
    BY <2>1 DEF DialInv, RunInv, EffectInv
  <2>3. ASSUME Dialling!Unlost
        PROVE  ReadInv(k)'
    BY <1>3, <2>1, <2>3 DEF DialInv, ReadInv, Clean
  <2> QED
    BY <2>2, <2>3 DEF DialInv, Dialling!Unlost
<1> QED
  BY <1>4, <1>5 DEF DialsInv

(* What the page reads of the dials is what they are when the server       *)
(* serves it, and a save that lands meanwhile drops it.                    *)
LEMMA ReadingHolds ==
    ASSUME DialsInv, TextsAreApart,
           \/ Dialling!Reads \/ Dialling!ServesRead \/ Dialling!LandsRead \/ Dialling!Records
    PROVE  DialsInv'
<1>1. RowsInv
  BY DEF DialsInv
<1>2. UNCHANGED <<table, inForce, drafts, receipts, sending, queued, base, wanted, dialSaves, lost>>
  BY DEF Dialling!Reads, Dialling!ServesRead, Dialling!LandsRead, Dialling!Records
<1>3. IsRow(Dialling!Effective)
  BY DEF IsRow, Dialling!Effective
<1>4. \A k \in DialKeys : Dialling!Effective'[k] = Dialling!Effective[k]
  BY <1>2, EffectiveIs DEF Dialling!Effective
<1>5. /\ dialsRead' \notin {None, Asked} =>
            /\ IsRow(dialsRead')
            /\ \A k \in DialKeys : Dialling!Unlost /\ Clean(k) =>
                   dialsRead'[k] = Dialling!Effective[k]
      /\ dials # None => dials' # None
      /\ dials' # None =>
            /\ IsRow(dials')
            /\ \A k \in DialKeys : Dialling!Unlost /\ Clean(k) => dials'[k] = Dialling!Effective[k]
  <2>1. \A k \in DialKeys : Dialling!Unlost => ReadInv(k)
    BY DEF DialsInv, DialInv
  <2>2. CASE Dialling!Reads
    BY <1>1, <2>1, <2>2 DEF RowsInv, ReadInv, IsRow, Dialling!Reads
  <2>3. CASE Dialling!ServesRead
    BY <1>1, <1>3, <2>1, <2>3 DEF RowsInv, ReadInv, Dialling!ServesRead
  <2>4. CASE Dialling!LandsRead
    BY <1>1, <2>1, <2>4 DEF RowsInv, ReadInv, Dialling!LandsRead
  <2>5. CASE Dialling!Records
    BY <1>1, <2>1, <2>5 DEF RowsInv, ReadInv, Dialling!Records
  <2> QED
    BY <2>2, <2>3, <2>4, <2>5
<1>6. RowsInv'
  BY <1>1, <1>2, <1>5 DEF RowsInv, IsRow
<1>7. ASSUME NEW k \in DialKeys
      PROVE  DialInv(k)'
  <2>1. DialInv(k)
    BY DEF DialsInv
  <2>2. RunInv(k)'
    BY <1>2, <1>5, <2>1 DEF DialInv, RunInv
  <2>3. EffectInv(k)'
    BY <1>2, <1>4, <2>1 DEF DialInv, EffectInv
  <2>4. ASSUME Dialling!Unlost
        PROVE  ReadInv(k)'
    BY <1>2, <1>4, <1>5, <2>1, <2>4 DEF DialInv, ReadInv, Clean
  <2> QED
    BY <1>2, <2>2, <2>3, <2>4 DEF DialInv, Dialling!Unlost
<1> QED
  BY <1>6, <1>7 DEF DialsInv

LEMMA DialsInit ==
    ASSUME Dialling!Init, TextsAreApart
    PROVE  DialsInv
<1>1. /\ table = [key \in DialKeys |-> IF Dialling!SETTINGS[key].default = None THEN None
                                      ELSE Dialling!SETTINGS[key].default]
      /\ inForce = [key \in DialKeys |-> Dialling!SETTINGS[key].default]
      /\ dials = None /\ dialsRead = Asked
      /\ drafts = [key \in DialKeys |-> None] /\ receipts = [key \in DialKeys |-> "idle"]
      /\ sending = [key \in DialKeys |-> None] /\ queued = [key \in DialKeys |-> None]
      /\ base = [key \in DialKeys |-> None] /\ wanted = [key \in DialKeys |-> None]
      /\ dialSaves = [key \in DialKeys |-> None] /\ lost = 0
  BY DEF Dialling!Init
<1>2. RowsInv
  BY <1>1 DEF RowsInv, IsRow
<1>3. \A k \in DialKeys : inForce[k] = Dialling!Effective[k]
  BY <1>1 DEF Dialling!Effective, Dialling!resolve
<1>4. \A k \in DialKeys : DialInv(k)
  BY <1>1, <1>3 DEF DialInv, RunInv, EffectInv, ReadInv
<1> QED
  BY <1>2, <1>4 DEF DialsInv

LEMMA DialsStep ==
    ASSUME DialsInv, TextsAreApart, [Dialling!Next]_Dialling!dialVars
    PROVE  DialsInv'
<1>1. RowsInv
  BY DEF DialsInv
<1>2. ASSUME NEW key \in DialKeys, Dialling!onBlur(key)
      PROVE  DialsInv'
  <2>1. PICK typed : typed = Dialling!draft(key)
    OBVIOUS
  <2>2. typed # None /\ TypedRow(drafts)
    BY <1>1, <2>1, DraftIsText DEF RowsInv, TypedRow
  <2>3. /\ dials # None /\ Dialling!commit(key, typed, drafts) /\ UNCHANGED <<table, inForce, lost>>
    BY <1>2, <2>1 DEF Dialling!onBlur, Dialling!Known
  <2> QED
    BY <2>2, <2>3, CommitHolds
<1>3. ASSUME NEW key \in DialKeys, Dialling!Escape(key)
      PROVE  DialsInv'
  BY <1>3, TypingHolds DEF Dialling!Escape
<1>4. ASSUME NEW key \in DialKeys, NEW text \in Texts[key], Dialling!onChange(key, text)
      PROVE  DialsInv'
  BY <1>4, TypingHolds DEF Dialling!onChange
<1>5. ASSUME NEW key \in DialKeys, NEW text \in Texts[key], Dialling!set(key, text)
      PROVE  DialsInv'
  <2>1. PICK typed : typed = Dialling!At(drafts, key, text)
    OBVIOUS
  <2>2. text # None /\ TypedRow(typed)
    BY <1>1, <2>1, AtRow DEF RowsInv, TypedRow, TextsAreApart
  <2>3. /\ dials # None /\ Dialling!commit(key, text, typed) /\ UNCHANGED <<table, inForce, lost>>
    BY <1>5, <2>1 DEF Dialling!set, Dialling!Known
  <2> QED
    BY <2>2, <2>3, CommitHolds
<1>6. ASSUME NEW key \in DialKeys,
             \/ Dialling!Write(key) \/ Dialling!apply_settings(key) \/ Dialling!Answers(key)
             \/ Dialling!Loses(key) \/ Dialling!Lands(key)
      PROVE  DialsInv'
  BY <1>6, WriteHolds, SaveMoves, LandsHolds
<1>7. CASE UNCHANGED Dialling!dialVars
  <2>1. UNCHANGED <<table, inForce, dials, dialsRead, drafts, receipts, sending, queued, base,
                    wanted, dialSaves, lost>>
    BY <1>7 DEF Dialling!dialVars
  <2>2. \A k \in DialKeys : Dialling!Effective'[k] = Dialling!Effective[k]
    BY <2>1 DEF Dialling!Effective, Dialling!resolve
  <2>3. RowsInv'
    BY <1>1, <2>1 DEF RowsInv, IsRow
  <2>4. ASSUME NEW k \in DialKeys
        PROVE  DialInv(k)'
    BY <2>1, <2>2 DEF DialsInv, DialInv, RunInv, EffectInv, ReadInv, Clean, Dialling!Unlost
  <2> QED
    BY <2>3, <2>4 DEF DialsInv
<1> QED
  BY <1>2, <1>3, <1>4, <1>5, <1>6, <1>7, ReadingHolds DEF Dialling!Next

(* The dials of the registry, saved one by one.                            *)
DialsSpec == Dialling!Init /\ [][Dialling!Next]_Dialling!dialVars

(* Whichever way the saves and the reads cross, a row at rest, with no read *)
(* on its way and no answer lost, shows what the server holds: the value a *)
(* save answered is written over what was read, and drops the reads on     *)
(* their way (useDial.ts).                                                 *)
THEOREM RowsAreTheServers ==
    ASSUME TextsAreApart
    PROVE  DialsSpec => []Dialling!RowIsTheServers
<1>1. DialsInv => Dialling!RowIsTheServers
  BY DEF DialsInv, DialInv, ReadInv, Clean, Dialling!RowIsTheServers, Dialling!Resting
<1> QED
  BY <1>1, DialsInit, DialsStep, PTL DEF DialsSpec

(* A row says saved of the value it was last told to save, whatever waited *)
(* behind it, and the jobs run with that value (useDial.ts, main.py).      *)
THEOREM SavedIsTheLast ==
    ASSUME TextsAreApart
    PROVE  DialsSpec => []Dialling!LastIsSaved
<1>1. DialsInv => Dialling!LastIsSaved
  BY DEF DialsInv, DialInv, EffectInv, ReadInv, Dialling!LastIsSaved, Dialling!Resting
<1> QED
  BY <1>1, DialsInit, DialsStep, PTL DEF DialsSpec

-----------------------------------------------------------------------------
(* The references.                                                         *)

(* The series of what is followed is kept, and the choice is followed.     *)
Spared ==
    /\ Following!Range(following) \subseteq consulted
    /\ chosen # None => chosen \in Following!Range(following)

LEMMA SparedStep ==
    ASSUME Spared, [Following!Next]_Following!referenceVars
    PROVE  Spared'
<1>1. ASSUME NEW request, Following!ServeSwitch(request) PROVE Spared'
  BY <1>1 DEF Spared, Following!ServeSwitch, Following!Follow, Following!KeepChosenFollowed
<1>2. ASSUME NEW request, Following!ServeKeep(request) PROVE Spared'
  BY <1>2 DEF Spared, Following!ServeKeep, Following!Keep, Following!MayForget, Following!Range,
     Following!storeVars
<1>3. ASSUME NEW request, Following!ServeSelect(request) PROVE Spared'
  BY <1>3 DEF Spared, Following!ServeSelect, Following!Choose, Following!MayChoose,
     Following!storeVars
<1>4. CASE UNCHANGED <<following, chosen, consulted>>
  BY <1>4 DEF Spared
<1>5. CASE Following!Purge \/ Following!Backfill \/ Following!Record \/ Following!Poll
           \/ Following!Revisit
  BY <1>4, <1>5 DEF Following!Purge, Following!Backfill, Following!Record, Following!Poll,
     Following!Revisit, Following!AskAgain, Following!storeVars
<1>6. CASE \E query \in Following!QUERIES :
               Following!ServeRead(query) \/ Following!LandRead(query) \/ Following!ReadFails(query)
  BY <1>4, <1>6 DEF Following!ServeRead, Following!LandRead, Following!ReadFails,
     Following!storeVars
<1>7. CASE \E symbol \in Following!ETFs :
               \/ Following!toggle(symbol) \/ Following!pick(symbol)
               \/ \E kept \in BOOLEAN : Following!onKeep(symbol, kept)
  BY <1>4, <1>7 DEF Following!toggle, Following!pick, Following!onKeep, Following!Send,
     Following!storeVars
<1>8. ASSUME NEW request,
             \/ Following!ReadBack(request) \/ Following!Lose(request)
             \/ Following!LandSwitch(request) \/ Following!LandKeep(request)
             \/ Following!LandSelect(request)
      PROVE  Spared'
  BY <1>4, <1>8 DEF Following!ReadBack, Following!Lose, Following!LandSwitch,
     Following!LandKeep, Following!LandSelect, Following!storeVars
<1>9. CASE Following!Settle \/ Following!CloseSheet \/ UNCHANGED Following!referenceVars
  BY <1>4, <1>9 DEF Following!Settle, Following!CloseSheet, Following!storeVars,
     Following!referenceVars
<1> QED
  BY <1>1, <1>2, <1>3, <1>5, <1>6, <1>7, <1>8, <1>9 DEF Following!Next

(* The lists followed, kept and shown.                                     *)
FollowSpec == Following!Init /\ [][Following!Next]_Following!referenceVars

(* However a follow crosses a forget, the purge never takes the series of  *)
(* a followed ETF (ledger.py, orphan_symbols; settings.py,                 *)
(* _remember_the_references).                                              *)
THEOREM FollowedIsNeverPurged == FollowSpec => []Following!FollowedIsSpared
<1>1. Following!Init => Spared
  BY DEF Following!Init, Spared
<1>2. Spared => Following!FollowedIsSpared
  BY DEF Spared, Following!FollowedIsSpared, Following!Orphans
<1> QED
  BY <1>1, <1>2, SparedStep, PTL DEF FollowSpec

(* The displayed reference is one that is followed, whichever of the list  *)
(* and the choice is written last (settings.py,                            *)
(* _keep_the_chosen_reference_followed).                                   *)
THEOREM ChoiceIsFollowed == FollowSpec => []Following!ChosenIsFollowed
<1>1. Following!Init => Spared
  BY DEF Following!Init, Spared
<1>2. Spared => Following!ChosenIsFollowed
  BY DEF Spared, Following!ChosenIsFollowed
<1> QED
  BY <1>1, <1>2, SparedStep, PTL DEF FollowSpec

-----------------------------------------------------------------------------
(* The theme.                                                              *)

(* A theme is valid when what one ground says of a key the other says too, *)
(* or both do at once.                                                     *)
IsTheme(t) == t = [theme |-> t.theme, light |-> t.light, dark |-> t.dark]
SharedBy(t) == (DOMAIN t.light \cap DOMAIN t.dark) \cup DOMAIN t.theme

LEMMA ValidShares ==
    ASSUME NEW t, Painting!valid(t)
    PROVE  IsTheme(t) /\ DOMAIN t.light \subseteq SharedBy(t) /\ DOMAIN t.dark \subseteq SharedBy(t)
<1>1. PICK spaced : spaced = ("tracking-normal" \in DOMAIN t.light
                              /\ "tracking-normal" \notin DOMAIN t.dark \cup DOMAIN t.theme)
  OBVIOUS
<1>2. PICK over : over = Painting!Over(t.theme, Painting!One("tracking-normal", t.light["tracking-normal"]))
  OBVIOUS
<1>3. PICK broad : broad = IF spaced THEN over ELSE t.theme
  OBVIOUS
<1>4. PICK light : light = IF spaced THEN Painting!Only(t.light, Painting!Keys \ {"tracking-normal"})
                           ELSE t.light
  OBVIOUS
<1>5. PICK shared : shared = (DOMAIN light \cap DOMAIN t.dark) \cup DOMAIN broad
  OBVIOUS
<1>6. t = [theme |-> broad, light |-> Painting!Only(light, shared),
           dark |-> Painting!Only(t.dark, shared)]
  BY <1>1, <1>2, <1>3, <1>4, <1>5, Zenon DEF Painting!valid, Painting!normalize
<1>7. /\ IsTheme(t) /\ t.theme = broad /\ t.light = Painting!Only(light, shared)
      /\ t.dark = Painting!Only(t.dark, shared)
  BY <1>6 DEF IsTheme
<1>8. ~spaced
  <2>1. "tracking-normal" \in DOMAIN over
    BY <1>2 DEF Painting!Over, Painting!One
  <2> QED
    BY <1>1, <1>3, <1>7, <2>1
<1>9. light = t.light /\ shared = SharedBy(t)
  BY <1>3, <1>4, <1>5, <1>8 DEF SharedBy
<1>10. DOMAIN t.light = DOMAIN light \cap shared /\ DOMAIN t.dark = DOMAIN t.dark \cap shared
  BY <1>7 DEF Painting!Only
<1> QED
  BY <1>7, <1>9, <1>10

LEMMA SharingIsValid ==
    ASSUME NEW t, IsTheme(t), t.light = [k \in DOMAIN t.light |-> t.light[k]],
           t.dark = [k \in DOMAIN t.dark |-> t.dark[k]],
           DOMAIN t.light \subseteq SharedBy(t), DOMAIN t.dark \subseteq SharedBy(t)
    PROVE  Painting!valid(t)
<1>1. ~("tracking-normal" \in DOMAIN t.light
        /\ "tracking-normal" \notin DOMAIN t.dark \cup DOMAIN t.theme)
  BY DEF SharedBy
<1>2. Painting!normalize(t) =
          [theme |-> t.theme, light |-> Painting!Only(t.light, SharedBy(t)),
           dark |-> Painting!Only(t.dark, SharedBy(t))]
  BY <1>1, Zenon DEF Painting!normalize, SharedBy
<1>3. Painting!Only(t.light, SharedBy(t)) = t.light /\ Painting!Only(t.dark, SharedBy(t)) = t.dark
  BY DEF Painting!Only
<1> QED
  BY <1>2, <1>3 DEF Painting!valid, IsTheme

LEMMA AtelierIsValid == Painting!valid(Painting!atelier)
<1>1. PICK t : t = Painting!atelier
  OBVIOUS
<1>2. /\ t.theme = [k \in Painting!Wide |-> 0] /\ t.light = [k \in Painting!Colours |-> 1]
      /\ t.dark = [k \in Painting!Colours |-> 2] /\ IsTheme(t)
  BY <1>1 DEF Painting!atelier, IsTheme
<1>3. DOMAIN t.light \subseteq SharedBy(t) /\ DOMAIN t.dark \subseteq SharedBy(t)
  BY <1>2 DEF SharedBy
<1> QED
  BY <1>1, <1>2, <1>3, SharingIsValid

(* A valid theme says a key on both grounds or on none.                    *)
LEMMA ValidSays ==
    ASSUME NEW t, Painting!valid(t), NEW ground \in Painting!Grounds, NEW key
    PROVE  Painting!Says(t, ground, key) <=> Painting!Emits(t, key)
BY ValidShares DEF Painting!Grounds, Painting!Says, Painting!Emits, SharedBy

-----------------------------------------------------------------------------
(* What a form makes of its baseline.                                      *)
Given(baseline, changes, ground) == DOMAIN Painting!GroundEdits(baseline, changes, ground)
Spread(changes) == DOMAIN Painting!Everywhere(changes)

LEMMA CandidateIs ==
    ASSUME NEW b, NEW e, NEW c, c = Painting!candidate(b, e)
    PROVE  /\ IsTheme(c) /\ c.theme = Painting!Over(Painting!Everywhere(e), b.theme)
           /\ \A g \in Painting!Grounds : c[g] = Painting!Only(
                  Painting!Over(Painting!Over(Painting!GroundEdits(b, e, g), Painting!Filled(b, e, g)),
                                b[g]),
                  Painting!Keys \ Spread(e))
BY DEF Painting!candidate, IsTheme, Painting!Grounds, Spread

(* What it says of a key on a ground: the edit of both grounds, that of the *)
(* ground, what fills it, the baseline.                                    *)
LEMMA FilledIs ==
    ASSUME NEW b, NEW e, NEW g
    PROVE  /\ DOMAIN Painting!Filled(b, e, g)
                  = {k \in Given(b, e, Painting!Other(g)) : ~Painting!Says(b, g, k)}
           /\ \A k \in DOMAIN Painting!Filled(b, e, g) :
                  Painting!Filled(b, e, g)[k] = Painting!Said(Painting!atelier, g, k)
BY DEF Painting!Filled, Given

LEMMA CandidateSays ==
    ASSUME NEW b, NEW e, NEW c, c = Painting!candidate(b, e),
           NEW g \in Painting!Grounds, NEW key \in Painting!Keys
    PROVE  /\ key \in DOMAIN c[g] <=>
                  /\ key \notin Spread(e)
                  /\ \/ key \in Given(b, e, g) \/ key \in DOMAIN b[g]
                     \/ key \in Given(b, e, Painting!Other(g)) /\ ~Painting!Says(b, g, key)
           /\ key \in DOMAIN c.theme <=> key \in Spread(e) \cup DOMAIN b.theme
           /\ (key \notin Spread(e) /\ key \in Given(b, e, g)) =>
                  Painting!Said(c, g, key) = Painting!GroundEdits(b, e, g)[key]
           /\ (key \notin Spread(e) \cup Given(b, e, g) /\ Painting!Says(b, g, key)) =>
                  Painting!Said(c, g, key) = Painting!Said(b, g, key)
           /\ (/\ key \notin Spread(e) \cup Given(b, e, g) /\ ~Painting!Says(b, g, key)
               /\ key \in Given(b, e, Painting!Other(g))) =>
                  Painting!Said(c, g, key) = Painting!Said(Painting!atelier, g, key)
<1>1. PICK wide : wide = Painting!Everywhere(e)
  OBVIOUS
<1>2. PICK own : own = Painting!GroundEdits(b, e, g)
  OBVIOUS
<1>3. PICK fill : fill = Painting!Filled(b, e, g)
  OBVIOUS
<1>4. PICK here : here = b[g]
  OBVIOUS
<1>5. PICK given : given = Painting!Over(own, fill)
  OBVIOUS
<1>6. PICK all : all = Painting!Over(given, here)
  OBVIOUS
<1>7. PICK rest : rest = Painting!Keys \ Spread(e)
  OBVIOUS
<1>8. PICK there : there = c[g]
  OBVIOUS
<1>9. PICK both : both = c.theme
  OBVIOUS
<1>10. there = Painting!Only(all, rest) /\ both = Painting!Over(wide, b.theme)
  BY <1>1, <1>2, <1>3, <1>4, <1>5, <1>6, <1>7, <1>8, <1>9, CandidateIs
<1>11. /\ DOMAIN both = DOMAIN wide \cup DOMAIN b.theme
       /\ \A k \in DOMAIN wide : both[k] = wide[k]
       /\ \A k \in DOMAIN b.theme : k \notin DOMAIN wide => both[k] = b.theme[k]
  BY <1>10 DEF Painting!Over
<1>12. /\ DOMAIN given = DOMAIN own \cup DOMAIN fill
       /\ \A k \in DOMAIN own : given[k] = own[k]
       /\ \A k \in DOMAIN fill : k \notin DOMAIN own => given[k] = fill[k]
  BY <1>5 DEF Painting!Over
<1>13. /\ DOMAIN all = DOMAIN given \cup DOMAIN here
       /\ \A k \in DOMAIN given : all[k] = given[k]
       /\ \A k \in DOMAIN here : k \notin DOMAIN given => all[k] = here[k]
  BY <1>6 DEF Painting!Over
<1>14. DOMAIN there = DOMAIN all \cap rest /\ \A k \in DOMAIN there : there[k] = all[k]
  BY <1>10 DEF Painting!Only
<1>15. /\ key \in DOMAIN fill <=>
              key \in Given(b, e, Painting!Other(g)) /\ ~Painting!Says(b, g, key)
       /\ key \in DOMAIN fill => fill[key] = Painting!Said(Painting!atelier, g, key)
  BY <1>3, FilledIs
<1>16. DOMAIN own = Given(b, e, g) /\ DOMAIN wide = Spread(e)
  BY <1>1, <1>2 DEF Given, Spread
<1>17. /\ key \in DOMAIN there <=>
              /\ key \notin Spread(e)
              /\ \/ key \in Given(b, e, g) \/ key \in DOMAIN here \/ key \in DOMAIN fill
       /\ key \in DOMAIN both <=> key \in Spread(e) \cup DOMAIN b.theme
  BY <1>7, <1>11, <1>12, <1>13, <1>14, <1>16
<1>18. Painting!Says(b, g, key) <=> key \in DOMAIN here \cup DOMAIN b.theme
  BY <1>4 DEF Painting!Says
<1>19. Painting!Said(c, g, key) = IF key \in DOMAIN there THEN there[key] ELSE both[key]
  BY <1>8, <1>9 DEF Painting!Said
<1>20. Painting!Said(b, g, key) = IF key \in DOMAIN here THEN here[key] ELSE b.theme[key]
  BY <1>4 DEF Painting!Said
<1>21. (key \notin Spread(e) /\ key \in Given(b, e, g)) => Painting!Said(c, g, key) = own[key]
  BY <1>11, <1>12, <1>13, <1>14, <1>16, <1>17, <1>19
<1>22. (key \notin Spread(e) \cup Given(b, e, g) /\ Painting!Says(b, g, key)) =>
           Painting!Said(c, g, key) = Painting!Said(b, g, key)
  BY <1>11, <1>12, <1>13, <1>14, <1>15, <1>16, <1>17, <1>18, <1>19, <1>20
<1>23. (/\ key \notin Spread(e) \cup Given(b, e, g) /\ ~Painting!Says(b, g, key)
        /\ key \in Given(b, e, Painting!Other(g))) =>
           Painting!Said(c, g, key) = Painting!Said(Painting!atelier, g, key)
  BY <1>12, <1>13, <1>14, <1>15, <1>16, <1>17, <1>18, <1>19
<1> QED
  BY <1>1, <1>2, <1>4, <1>8, <1>9, <1>15, <1>17, <1>21, <1>22, <1>23

LEMMA SpreadSays ==
    ASSUME NEW b, NEW e, NEW c, c = Painting!candidate(b, e),
           NEW g \in Painting!Grounds, NEW key \in Spread(e)
    PROVE  Painting!Said(c, g, key) = Painting!Everywhere(e)[key]
<1>1. PICK wide : wide = Painting!Everywhere(e)
  OBVIOUS
<1>2. PICK all : all = Painting!Over(Painting!Over(Painting!GroundEdits(b, e, g),
                                                   Painting!Filled(b, e, g)), b[g])
  OBVIOUS
<1>3. PICK there : there = c[g]
  OBVIOUS
<1>4. PICK both : both = c.theme
  OBVIOUS
<1>5. there = Painting!Only(all, Painting!Keys \ Spread(e)) /\ both = Painting!Over(wide, b.theme)
  BY <1>1, <1>2, <1>3, <1>4, CandidateIs
<1>6. key \in DOMAIN wide /\ key \notin DOMAIN there
  BY <1>1, <1>5 DEF Painting!Only, Spread
<1>7. both[key] = wide[key]
  BY <1>5, <1>6 DEF Painting!Over
<1> QED
  BY <1>1, <1>3, <1>4, <1>6, <1>7 DEF Painting!Said

(* What a valid baseline and its edits paint on a ground.                  *)
LEMMA CandidatePaints ==
    ASSUME NEW b, Painting!valid(b), NEW e, NEW c, c = Painting!candidate(b, e),
           NEW g \in Painting!Grounds, NEW key \in Painting!Keys
    PROVE  Painting!Painted(c, g, key) =
               IF key \in Spread(e) THEN Painting!Everywhere(e)[key]
               ELSE IF key \in Given(b, e, g) THEN Painting!GroundEdits(b, e, g)[key]
               ELSE Painting!Painted(b, g, key)
<1>1. \A h \in Painting!Grounds :
          Painting!Says(c, h, key) <=>
              \/ key \in Spread(e) \/ key \in Given(b, e, h)
              \/ key \in Given(b, e, Painting!Other(h)) \/ Painting!Says(b, h, key)
  BY CandidateSays DEF Painting!Says
<1>2. Painting!Emits(c, key) <=>
          \/ key \in Spread(e) \/ key \in Given(b, e, g)
          \/ key \in Given(b, e, Painting!Other(g)) \/ Painting!Emits(b, key)
  BY <1>1, ValidSays DEF Painting!Emits, Painting!Grounds, Painting!Other
<1>3. Painting!Says(b, g, key) <=> Painting!Emits(b, key)
  BY ValidSays
<1>4. CASE key \in Spread(e)
  <2>1. Painting!Emits(c, key)
    BY <1>2, <1>4
  <2>2. Painting!Said(c, g, key) = Painting!Everywhere(e)[key]
    BY <1>4, SpreadSays
  <2> QED
    BY <1>4, <2>1, <2>2 DEF Painting!Painted
<1>5. CASE key \notin Spread(e) /\ key \in Given(b, e, g)
  BY <1>2, <1>5, CandidateSays DEF Painting!Painted
<1>6. CASE key \notin Spread(e) \cup Given(b, e, g) /\ Painting!Emits(b, key)
  BY <1>2, <1>3, <1>6, CandidateSays DEF Painting!Painted
<1>7. CASE key \notin Spread(e) \cup Given(b, e, g) /\ ~Painting!Emits(b, key)
  BY <1>2, <1>3, <1>7, CandidateSays DEF Painting!Painted
<1> QED
  BY <1>4, <1>5, <1>6, <1>7

LEMMA UnreachedStays ==
    ASSUME NEW b, Painting!valid(b), NEW e, NEW c, c = Painting!candidate(b, e),
           NEW g \in Painting!Grounds, NEW key \in Painting!Keys,
           key \notin Spread(e), key \notin Given(b, e, g)
    PROVE  Painting!Painted(c, g, key) = Painting!Painted(b, g, key)
BY CandidatePaints

LEMMA EmitsMore ==
    ASSUME NEW b, Painting!valid(b), NEW e, NEW c, c = Painting!candidate(b, e),
           NEW key \in Painting!Keys, Painting!Emits(b, key)
    PROVE  Painting!Emits(c, key)
BY CandidateSays DEF Painting!Emits, Painting!Says

(* What is made of a valid baseline is valid: a key of one ground is said  *)
(* by the other, or filled there.                                          *)
LEMMA CandidateIsValid ==
    ASSUME NEW b, Painting!valid(b), NEW e, NEW c, c = Painting!candidate(b, e)
    PROVE  Painting!valid(c)
<1>1. IsTheme(c)
  BY CandidateIs
<1>2. ASSUME NEW g \in Painting!Grounds
      PROVE  /\ c[g] = [k \in DOMAIN c[g] |-> c[g][k]] /\ DOMAIN c[g] \subseteq Painting!Keys
  <2>1. PICK all : all = Painting!Over(Painting!Over(Painting!GroundEdits(b, e, g),
                                                     Painting!Filled(b, e, g)), b[g])
    OBVIOUS
  <2>2. PICK there : there = c[g]
    OBVIOUS
  <2>3. there = Painting!Only(all, Painting!Keys \ Spread(e))
    BY <1>2, <2>1, <2>2, CandidateIs
  <2>4. there = [k \in DOMAIN there |-> there[k]] /\ DOMAIN there \subseteq Painting!Keys
    BY <2>3 DEF Painting!Only
  <2> QED
    BY <2>2, <2>4
<1>3. ASSUME NEW g \in Painting!Grounds, NEW key \in DOMAIN c[g]
      PROVE  key \in DOMAIN c[Painting!Other(g)] \cup DOMAIN c.theme
  <2>1. key \in Painting!Keys
    BY <1>2, <1>3
  <2>2. /\ Painting!Other(g) \in Painting!Grounds /\ Painting!Other(Painting!Other(g)) = g
    BY DEF Painting!Other, Painting!Grounds
  <2>3. Painting!Says(b, g, key) <=> Painting!Says(b, Painting!Other(g), key)
    BY <2>2, ValidSays
  <2>4. /\ key \notin Spread(e)
        /\ \/ key \in Given(b, e, g) \/ key \in DOMAIN b[g]
           \/ key \in Given(b, e, Painting!Other(g)) /\ ~Painting!Says(b, g, key)
    BY <1>3, <2>1, CandidateSays
  <2>5. /\ key \in DOMAIN c[Painting!Other(g)] <=>
               \/ key \in Given(b, e, Painting!Other(g)) \/ key \in DOMAIN b[Painting!Other(g)]
               \/ key \in Given(b, e, g) /\ ~Painting!Says(b, Painting!Other(g), key)
        /\ key \in DOMAIN c.theme <=> key \in DOMAIN b.theme
    BY <2>1, <2>2, <2>4, CandidateSays
  <2> QED
    BY <2>3, <2>4, <2>5 DEF Painting!Says
<1>4. DOMAIN c.light \subseteq SharedBy(c) /\ DOMAIN c.dark \subseteq SharedBy(c)
  BY <1>3 DEF SharedBy, Painting!Grounds, Painting!Other
<1>5. /\ c.light = [k \in DOMAIN c.light |-> c.light[k]]
      /\ c.dark = [k \in DOMAIN c.dark |-> c.dark[k]]
  BY <1>2 DEF Painting!Grounds
<1> QED
  BY <1>1, <1>4, <1>5, SharingIsValid

-----------------------------------------------------------------------------
(* The form and its fields.                                                *)
Scopes == Painting!Grounds \cup {"theme"}
OfFields(changes) ==
    /\ changes = [scope \in Scopes |-> changes[scope]]
    /\ \A scope \in Scopes : DOMAIN changes[scope] \subseteq Painting!Fields(scope)

(* What the edits of both grounds reach, and those of one.                 *)
LEMMA SpreadIs ==
    ASSUME NEW e
    PROVE  /\ Spread(e) \subseteq DOMAIN e.theme \cup {"letter-spacing", "shadow"}
           /\ DOMAIN e.theme \subseteq Spread(e)
           /\ \A key \in DOMAIN e.theme : Painting!Everywhere(e)[key] = e.theme[key]
<1>1. PICK wide : wide = e.theme
  OBVIOUS
<1>2. PICK mirrored : mirrored = [key \in {k \in {"letter-spacing", "shadow"} :
                                            Painting!Mirrored(k) \in DOMAIN wide} |->
                                     wide[Painting!Mirrored(key)]]
  OBVIOUS
<1>3. PICK all : all = Painting!Everywhere(e)
  OBVIOUS
<1>4. all = Painting!Over(wide, mirrored)
  BY <1>1, <1>2, <1>3 DEF Painting!Everywhere
<1>5. DOMAIN mirrored \subseteq {"letter-spacing", "shadow"}
  BY <1>2
<1>6. /\ DOMAIN all = DOMAIN wide \cup DOMAIN mirrored
      /\ \A key \in DOMAIN wide : all[key] = wide[key]
  BY <1>4 DEF Painting!Over
<1> QED
  BY <1>1, <1>3, <1>5, <1>6 DEF Spread

LEMMA GivenIs ==
    ASSUME NEW b, NEW e, NEW g, DOMAIN e[g] \subseteq {"background"}
    PROVE  /\ Given(b, e, g) \subseteq Painting!Colours
           /\ DOMAIN e[g] = {} => Given(b, e, g) = {}
           /\ "background" \in DOMAIN e[g] =>
                  /\ "background" \in Given(b, e, g)
                  /\ Painting!GroundEdits(b, e, g)["background"] = e[g]["background"]
<1>1. PICK own : own = e[g]
  OBVIOUS
<1>2. PICK given : given = Painting!GroundEdits(b, e, g)
  OBVIOUS
<1>3. given = [k \in UNION {Painting!Linked(b, g, key) : key \in DOMAIN own} |->
                  own[CHOOSE key \in DOMAIN own : k \in Painting!Linked(b, g, key)]]
  BY <1>1, <1>2 DEF Painting!GroundEdits
<1>4. /\ Painting!Linked(b, g, "background") \subseteq Painting!Colours
      /\ "background" \in Painting!Linked(b, g, "background")
  BY DEF Painting!Linked, Painting!FOLLOWERS, Painting!Colours
<1>5. DOMAIN given \subseteq Painting!Colours /\ (DOMAIN own = {} => DOMAIN given = {})
  BY <1>1, <1>3, <1>4
<1>6. ASSUME "background" \in DOMAIN own
      PROVE  "background" \in DOMAIN given /\ given["background"] = own["background"]
  <2>1. (CHOOSE key \in DOMAIN own : "background" \in Painting!Linked(b, g, key)) = "background"
    BY <1>1, <1>4, <1>6
  <2> QED
    BY <1>3, <1>4, <1>6, <2>1
<1> QED
  BY <1>1, <1>2, <1>5, <1>6 DEF Given

(* What a valid theme says where nothing is edited is what is painted.     *)
LEMMA ReadIsPainted ==
    ASSUME NEW b, Painting!valid(b), NEW g \in Painting!Grounds, NEW key
    PROVE  Painting!read(b, g, key) = Painting!Painted(b, g, key)
BY ValidSays DEF Painting!read, Painting!Painted

(* Each field is painted as it shows.                                      *)
LEMMA FieldsArePainted ==
    ASSUME NEW b, Painting!valid(b), NEW e, OfFields(e), NEW c, c = Painting!candidate(b, e),
           NEW scope \in Scopes, NEW key \in Painting!Fields(scope)
    PROVE  Painting!Painted(c, Painting!GroundOf(scope), key)
               = Painting!valueOf(b, e, scope, key)
<1>1. PICK g : g = Painting!GroundOf(scope)
  OBVIOUS
<1>2. g \in Painting!Grounds /\ key \in Painting!Keys
  BY <1>1 DEF Scopes, Painting!Grounds, Painting!GroundOf, Painting!Fields, Painting!Keys,
     Painting!Colours, Painting!Wide
<1>3. Painting!Painted(c, g, key) =
          IF key \in Spread(e) THEN Painting!Everywhere(e)[key]
          ELSE IF key \in Given(b, e, g) THEN Painting!GroundEdits(b, e, g)[key]
          ELSE Painting!Painted(b, g, key)
  BY <1>2, CandidatePaints
<1>4. /\ DOMAIN e.theme \subseteq {"tracking-normal", "shadow-opacity"}
      /\ DOMAIN e[g] \subseteq {"background"}
  BY <1>2 DEF OfFields, Scopes, Painting!Fields, Painting!Grounds
<1>5. Painting!valueOf(b, e, scope, key) =
          IF key \in DOMAIN e[scope] THEN e[scope][key] ELSE Painting!Painted(b, g, key)
  BY <1>1, <1>2, ReadIsPainted DEF Painting!valueOf
<1>6. CASE scope = "theme"
  <2>1. key \in {"tracking-normal", "shadow-opacity"}
    BY <1>6 DEF Painting!Fields
  <2>2. key \in Spread(e) <=> key \in DOMAIN e.theme
    BY <2>1, SpreadIs
  <2>3. key \notin Given(b, e, g)
    BY <1>4, <2>1, GivenIs DEF Painting!Colours
  <2> QED
    BY <1>1, <1>3, <1>5, <1>6, <2>2, <2>3, SpreadIs
<1>7. CASE scope # "theme"
  <2>1. key = "background" /\ g = scope
    BY <1>1, <1>7 DEF Painting!Fields, Painting!GroundOf
  <2>2. key \notin Spread(e)
    BY <1>4, <2>1, SpreadIs
  <2>3. CASE key \in DOMAIN e[g]
    BY <1>1, <1>3, <1>4, <1>5, <2>1, <2>2, <2>3, GivenIs
  <2>4. CASE key \notin DOMAIN e[g]
    <3>1. DOMAIN e[g] = {}
      BY <1>4, <2>1, <2>4
    <3> QED
      BY <1>1, <1>3, <1>4, <1>5, <2>1, <2>2, <2>4, <3>1, GivenIs
  <2> QED
    BY <2>3, <2>4
<1> QED
  BY <1>6, <1>7

-----------------------------------------------------------------------------
(* The form as it moves.                                                   *)

(* None is no number of a write.                                           *)
NoneIsNoId == None \notin Nat

IsForm(f) ==
    f = [open |-> f.open, baseline |-> f.baseline, edits |-> f.edits, awaits |-> f.awaits,
         leaves |-> f.leaves]
IsWriting(w) == w = [id |-> w.id, kind |-> w.kind, body |-> w.body, phase |-> w.phase]

(* Every baseline is a valid theme, and the preview is what the form       *)
(* proposes.                                                               *)
FormInv ==
    /\ IsForm(themeForm) /\ Painting!valid(themeForm.baseline) /\ OfFields(themeForm.edits)
    /\ preview # None => Painting!Open /\ preview = Painting!Proposed

(* A write has a number of its own: the one the form waits for is an apply. *)
NumbersInv ==
    /\ themeWrites \in Nat
    /\ themeForm.awaits = None \/ themeForm.awaits \in 1..themeWrites
Sound(w) ==
    /\ IsWriting(w) /\ w.id \in 1..themeWrites
    /\ w.kind = "reset" => w.body = None
    /\ (w.kind # "reset" /\ w.phase \in {"kept", "painting"}) => Painting!valid(w.body)
WritingInv(w) == Sound(w) /\ (w.id = themeForm.awaits => w.kind = "apply")

(* What was read of the theme is a valid one, and what asks for a theme is *)
(* the import or the JSON.                                                 *)
PageInv ==
    /\ themeRead = None \/ Painting!valid(themeRead)
    /\ dialog \in {None, "import", "json"}
ThemeInv == FormInv /\ NumbersInv /\ PageInv /\ \A w \in writings : WritingInv(w)

LEMMA ClosedForm ==
    ASSUME NEW f, f = Painting!Closed
    PROVE  /\ IsForm(f) /\ Painting!valid(f.baseline) /\ OfFields(f.edits)
           /\ f.awaits = None
<1>1. /\ f.baseline = Painting!atelier /\ f.edits = Painting!NO_EDITS /\ f.awaits = None
      /\ IsForm(f)
  BY DEF Painting!Closed, IsForm
<1>2. PICK changes : changes = Painting!NO_EDITS
  OBVIOUS
<1>3. OfFields(changes)
  BY <1>2 DEF OfFields, Scopes, Painting!NO_EDITS, Painting!Nothing
<1> QED
  BY <1>1, <1>2, <1>3, AtelierIsValid

(* An edit is of a field.                                                  *)
LEMMA EditsAreOfFields ==
    ASSUME NEW b, NEW e, OfFields(e), NEW scope \in Scopes, NEW key \in Painting!Fields(scope),
           NEW value
    PROVE  OfFields(Painting!setEdit(b, e, scope, key, value))
<1>1. PICK rest : rest = Painting!Only(e[scope], Painting!Keys \ {key})
  OBVIOUS
<1>2. PICK more : more = Painting!Over(Painting!One(key, value), rest)
  OBVIOUS
<1>3. PICK these \in {rest, more} : Painting!setEdit(b, e, scope, key, value) = [e EXCEPT ![scope] = these]
  BY <1>1, <1>2 DEF Painting!setEdit
<1>4. DOMAIN rest \subseteq Painting!Fields(scope)
  BY <1>1 DEF OfFields, Painting!Only
<1>5. DOMAIN more \subseteq Painting!Fields(scope)
  BY <1>2, <1>4 DEF Painting!Over, Painting!One
<1>6. PICK changes : changes = [e EXCEPT ![scope] = these]
  OBVIOUS
<1>7. changes = [s \in Scopes |-> IF s = scope THEN these ELSE e[s]]
  BY <1>6 DEF OfFields
<1>8. OfFields(changes)
  BY <1>3, <1>4, <1>5, <1>7 DEF OfFields
<1> QED
  BY <1>3, <1>6, <1>8

(* A form that stays as it is leaves the rest of what holds to the writes. *)
LEMMA FormStays ==
    ASSUME FormInv, themeForm' = themeForm, preview' \in {None, preview}
    PROVE  FormInv'
BY DEF FormInv, Painting!Open, Painting!Proposed

LEMMA FormCloses ==
    ASSUME themeForm' = Painting!Closed, preview' = None
    PROVE  FormInv' /\ themeForm'.awaits = None
BY ClosedForm DEF FormInv

(* A write that is sent has the next number.                               *)
LEMMA WriteIsNumbered ==
    ASSUME ThemeInv, NoneIsNoId, NEW kind, NEW body, Painting!Write(kind, body),
           kind = "reset" => body = None,
           \/ themeForm'.awaits = themeForm.awaits
           \/ kind = "apply" /\ themeForm'.awaits = themeWrites + 1
    PROVE  NumbersInv' /\ \A w \in writings' : WritingInv(w)'
<1>1. PICK new : new = [id |-> themeWrites + 1, kind |-> kind, body |-> body, phase |-> "sent"]
  OBVIOUS
<1>2. /\ themeWrites' = themeWrites + 1 /\ writings' = writings \cup {new}
      /\ themeWrites \in Nat /\ \A w \in writings : WritingInv(w)
      /\ themeForm.awaits = None \/ themeForm.awaits \in 1..themeWrites
  BY <1>1 DEF Painting!Write, ThemeInv, NumbersInv
<1>3. NumbersInv'
  BY <1>2 DEF NumbersInv
<1>4. Sound(new)'
  BY <1>1, <1>2 DEF Sound, IsWriting
<1>5. new.id = themeForm'.awaits => new.kind = "apply"
  BY <1>1, <1>2 DEF NoneIsNoId
<1>6. ASSUME NEW w \in writings
      PROVE  WritingInv(w)'
  <2>1. w.id \in 1..themeWrites /\ Sound(w)
    BY <1>2 DEF WritingInv, Sound
  <2>2. Sound(w)'
    BY <1>2, <2>1 DEF Sound
  <2>3. w.id = themeForm'.awaits => w.kind = "apply"
    BY <1>2, <2>1 DEF WritingInv
  <2> QED
    BY <2>2, <2>3 DEF WritingInv
<1> QED
  BY <1>2, <1>3, <1>4, <1>5, <1>6 DEF WritingInv

(* A write that moves on keeps its number and its kind.                    *)
LEMMA WritingsMove ==
    ASSUME ThemeInv, NoneIsNoId, NEW w \in writings, NEW v,
           IsWriting(v), v.id = w.id, v.kind = w.kind, v.kind = "reset" => v.body = None,
           (v.kind # "reset" /\ v.phase \in {"kept", "painting"}) => Painting!valid(v.body),
           writings' = (writings \ {w}) \cup {v} \/ writings' = writings \ {w},
           UNCHANGED themeWrites,
           themeForm'.awaits \in {None, themeForm.awaits}
    PROVE  NumbersInv' /\ \A u \in writings' : WritingInv(u)'
<1>1. \A u \in writings : WritingInv(u)
  BY DEF ThemeInv
<1>2. ASSUME NEW u, u \in writings \/ u = v
      PROVE  Sound(u) /\ (u.id = themeForm.awaits => u.kind = "apply")
  BY <1>1, <1>2 DEF WritingInv, Sound
<1>3. ASSUME NEW u \in writings'
      PROVE  WritingInv(u)'
  <2>1. u \in writings \/ u = v
    OBVIOUS
  <2>2. Sound(u)' /\ u.id # None
    BY <1>2, <2>1 DEF Sound, NoneIsNoId
  <2> QED
    BY <1>2, <2>1, <2>2 DEF WritingInv
<1> QED
  BY <1>3 DEF ThemeInv, NumbersInv

LEMMA WritingsStay ==
    ASSUME ThemeInv, NoneIsNoId, UNCHANGED <<writings, themeWrites>>,
           themeForm'.awaits \in {None, themeForm.awaits}
    PROVE  NumbersInv' /\ \A w \in writings' : WritingInv(w)'
<1>1. ASSUME NEW w \in writings
      PROVE  WritingInv(w)'
  <2>1. WritingInv(w)
    BY DEF ThemeInv
  <2>2. w.id # None
    BY <2>1 DEF WritingInv, Sound, NoneIsNoId
  <2> QED
    BY <2>1, <2>2 DEF WritingInv, Sound
<1> QED
  BY <1>1 DEF ThemeInv, NumbersInv

(* The form: opened, edited, applied, closed.                              *)
LEMMA FormMoves ==
    ASSUME ThemeInv, NoneIsNoId,
           \/ Painting!Modify \/ Painting!Apply \/ Painting!Stay
           \/ Painting!Close \/ Painting!Discard
           \/ \E scope \in Scopes : \E key \in Painting!Fields(scope), value \in Values \cup {None} :
                  Painting!edit(scope, key, value)
    PROVE  ThemeInv'
<1>1. FormInv /\ PageInv /\ IsForm(themeForm)
  BY DEF ThemeInv, FormInv
<1>2. UNCHANGED <<themeRead, dialog>>
  BY DEF Painting!Modify, Painting!Apply, Painting!Stay, Painting!Close, Painting!Discard,
     Painting!edit
<1>3. PageInv'
  BY <1>1, <1>2 DEF PageInv
<1>4. CASE Painting!Modify
  <2>1. PICK shut : shut = Painting!Closed
    OBVIOUS
  <2>2. PICK theirs : theirs = Painting!OrAtelier(themeRead)
    OBVIOUS
  <2>3. PICK opened : opened = [shut EXCEPT !.open = TRUE]
    OBVIOUS
  <2>4. themeForm' = [opened EXCEPT !.baseline = theirs]
    BY <1>4, <2>1, <2>2, <2>3 DEF Painting!Modify
  <2>5. opened = [open |-> TRUE, baseline |-> shut.baseline, edits |-> shut.edits,
                  awaits |-> shut.awaits, leaves |-> shut.leaves]
    BY <2>1, <2>3 DEF Painting!Closed
  <2>6. themeForm' = [open |-> TRUE, baseline |-> theirs, edits |-> shut.edits,
                      awaits |-> shut.awaits, leaves |-> shut.leaves]
    BY <2>4, <2>5
  <2>7. Painting!valid(theirs)
    BY <1>1, <2>2, AtelierIsValid DEF Painting!OrAtelier, PageInv
  <2>8. preview' = None /\ UNCHANGED <<writings, themeWrites>>
    BY <1>1, <1>4 DEF Painting!Modify, FormInv
  <2>9. FormInv' /\ themeForm'.awaits = None
    BY <2>1, <2>6, <2>7, <2>8, ClosedForm DEF FormInv, IsForm
  <2> QED
    BY <1>3, <2>8, <2>9, WritingsStay DEF ThemeInv
<1>5. CASE Painting!Apply
  <2>1. themeForm' = [themeForm EXCEPT !.awaits = themeWrites + 1, !.leaves = leaving]
        /\ Painting!Write("apply", Painting!Proposed) /\ UNCHANGED preview
    BY <1>5 DEF Painting!Apply
  <2>2. themeForm' = [open |-> themeForm.open, baseline |-> themeForm.baseline,
                      edits |-> themeForm.edits, awaits |-> themeWrites + 1, leaves |-> leaving]
    BY <1>1, <2>1 DEF IsForm
  <2>3. FormInv' /\ themeForm'.awaits = themeWrites + 1
    BY <1>1, <2>1, <2>2 DEF FormInv, IsForm, Painting!Open, Painting!Proposed
  <2>4. NumbersInv' /\ \A w \in writings' : WritingInv(w)'
    BY <2>1, <2>3, WriteIsNumbered
  <2> QED
    BY <1>3, <2>3, <2>4 DEF ThemeInv
<1>6. CASE Painting!Close \/ Painting!Discard
  <2>1. themeForm' = Painting!Closed /\ preview' = None /\ UNCHANGED <<writings, themeWrites>>
    BY <1>6 DEF Painting!Close, Painting!Discard, Painting!Shut
  <2> QED
    BY <1>3, <2>1, FormCloses, WritingsStay DEF ThemeInv
<1>7. ASSUME NEW scope \in Scopes, NEW key \in Painting!Fields(scope), NEW value,
             Painting!edit(scope, key, value)
      PROVE  ThemeInv'
  <2>1. PICK changes : changes = Painting!setEdit(themeForm.baseline, themeForm.edits, scope, key, value)
    OBVIOUS
  <2>2. themeForm' = [themeForm EXCEPT !.edits = changes] /\ UNCHANGED <<writings, themeWrites>>
        /\ Painting!Open /\ preview' \in {None, Painting!candidate(themeForm.baseline, themeForm'.edits)}
    BY <1>7, <2>1 DEF Painting!edit
  <2>3. themeForm' = [open |-> themeForm.open, baseline |-> themeForm.baseline, edits |-> changes,
                      awaits |-> themeForm.awaits, leaves |-> themeForm.leaves]
    BY <1>1, <2>2 DEF IsForm
  <2>4. OfFields(changes)
    BY <1>1, <2>1, EditsAreOfFields DEF FormInv
  <2>5. preview' \in {None, Painting!Proposed'} /\ Painting!Open'
    BY <2>2, <2>3 DEF Painting!Proposed, Painting!Open
  <2>6. FormInv' /\ themeForm'.awaits = themeForm.awaits
    BY <1>1, <2>3, <2>4, <2>5 DEF FormInv, IsForm
  <2> QED
    BY <1>3, <2>2, <2>6, WritingsStay DEF ThemeInv
<1>8. CASE Painting!Stay
  <2>1. themeForm' = [themeForm EXCEPT !.leaves = FALSE]
        /\ UNCHANGED <<preview, writings, themeWrites>>
    BY <1>8 DEF Painting!Stay
  <2>2. themeForm' = [open |-> themeForm.open, baseline |-> themeForm.baseline,
                      edits |-> themeForm.edits, awaits |-> themeForm.awaits, leaves |-> FALSE]
    BY <1>1, <2>1 DEF IsForm
  <2>3. FormInv' /\ themeForm'.awaits = themeForm.awaits
    BY <1>1, <2>1, <2>2 DEF FormInv, IsForm, Painting!Open, Painting!Proposed
  <2> QED
    BY <1>3, <2>1, <2>3, WritingsStay DEF ThemeInv
<1> QED
  BY <1>4, <1>5, <1>6, <1>7, <1>8

(* The dialogs and the reset.                                              *)
LEMMA DialogsMove ==
    ASSUME ThemeInv, NoneIsNoId,
           \/ Painting!Leave \/ Painting!OpenDialog \/ Painting!CloseDialog
           \/ Painting!SendDialog \/ Painting!Reset \/ UNCHANGED Painting!themeVars
    PROVE  ThemeInv'
<1>1. UNCHANGED <<themeForm, preview, themeRead>>
  BY DEF Painting!Leave, Painting!OpenDialog, Painting!CloseDialog,
     Painting!SendDialog, Painting!Reset, Painting!themeVars
<1>2. FormInv' /\ PageInv'
  <2>1. dialog' \in {None, "import", "json"}
    BY DEF ThemeInv, PageInv, Painting!Leave, Painting!OpenDialog,
       Painting!CloseDialog, Painting!SendDialog, Painting!Reset, Painting!themeVars
  <2> QED
    BY <1>1, <2>1, FormStays DEF ThemeInv, PageInv
<1>3. CASE UNCHANGED <<writings, themeWrites>>
  BY <1>1, <1>2, <1>3, WritingsStay DEF ThemeInv
<1>4. CASE Painting!Reset
  <2>1. Painting!Write("reset", None)
    BY <1>4 DEF Painting!Reset
  <2> QED
    BY <1>1, <1>2, <2>1, WriteIsNumbered DEF ThemeInv
<1>5. CASE Painting!SendDialog
  <2>1. PICK body : Painting!Write(dialog, body)
    BY <1>5 DEF Painting!SendDialog
  <2>2. dialog # "reset"
    BY <1>5 DEF Painting!SendDialog, ThemeInv, PageInv
  <2> QED
    BY <1>1, <1>2, <2>1, <2>2, WriteIsNumbered DEF ThemeInv
<1> QED
  BY <1>3, <1>4, <1>5 DEF Painting!Leave, Painting!OpenDialog,
     Painting!CloseDialog, Painting!themeVars

(* The writes: served, failed, kept, painted, refused.                     *)
LEMMA WritesMove ==
    ASSUME ThemeInv, NoneIsNoId, NEW w \in writings,
           \/ Painting!Serve(w) \/ Painting!Fail(w) \/ Painting!Land(w) \/ Painting!Repaint(w)
           \/ Painting!Refused(w)
    PROVE  ThemeInv'
<1>1. FormInv /\ PageInv /\ WritingInv(w) /\ Sound(w) /\ IsWriting(w) /\ IsForm(themeForm)
  BY DEF ThemeInv, WritingInv, Sound, FormInv
<1>2. ASSUME NEW phase
      PROVE  \A v : v = [w EXCEPT !.phase = phase] =>
                 v = [id |-> w.id, kind |-> w.kind, body |-> w.body, phase |-> phase]
  BY <1>1 DEF IsWriting
<1>3. CASE Painting!Serve(w)
  <2>1. UNCHANGED <<themeForm, preview, themeRead, dialog, themeWrites>>
    BY <1>3 DEF Painting!Serve
  <2>2. FormInv' /\ PageInv'
    BY <1>1, <2>1, FormStays DEF PageInv
  <2>3. CASE w.kind # "reset" /\ ~Painting!valid(Painting!Kept(w))
    <3>1. PICK v : v = [w EXCEPT !.phase = "refused"]
      OBVIOUS
    <3>2. v = [id |-> w.id, kind |-> w.kind, body |-> w.body, phase |-> "refused"]
      BY <1>2, <3>1
    <3>3. writings' = (writings \ {w}) \cup {v}
      BY <1>3, <2>3, <3>1 DEF Painting!Serve
    <3> QED
      BY <2>1, <2>2, <2>3, <3>2, <3>3, WritingsMove DEF ThemeInv, IsWriting
  <2>4. CASE w.kind = "reset" \/ Painting!valid(Painting!Kept(w))
    <3>1. PICK body : body = Painting!Kept(w)
      OBVIOUS
    <3>2. PICK half : half = [w EXCEPT !.phase = "kept"]
      OBVIOUS
    <3>3. PICK v : v = [half EXCEPT !.body = body]
      OBVIOUS
    <3>4. half = [id |-> w.id, kind |-> w.kind, body |-> w.body, phase |-> "kept"]
      BY <1>2, <3>2
    <3>5. v = [id |-> w.id, kind |-> w.kind, body |-> body, phase |-> "kept"]
      BY <3>3, <3>4
    <3>6. writings' = (writings \ {w}) \cup {v}
      BY <1>3, <2>4, <3>1, <3>2, <3>3 DEF Painting!Serve
    <3>7. /\ w.kind = "reset" => body = None
          /\ w.kind # "reset" => Painting!valid(body)
      BY <1>1, <2>4, <3>1 DEF Painting!Kept, Sound
    <3> QED
      BY <2>1, <2>2, <3>5, <3>6, <3>7, WritingsMove DEF ThemeInv, IsWriting
  <2> QED
    BY <2>3, <2>4
<1>4. CASE Painting!Fail(w)
  <2>1. UNCHANGED <<themeForm, preview, themeRead, dialog, themeWrites>>
    BY <1>4 DEF Painting!Fail
  <2>2. FormInv' /\ PageInv'
    BY <1>1, <2>1, FormStays DEF PageInv
  <2>3. PICK v : v = [w EXCEPT !.phase = "refused"]
    OBVIOUS
  <2>4. v = [id |-> w.id, kind |-> w.kind, body |-> w.body, phase |-> "refused"]
    BY <1>2, <2>3
  <2>5. writings' = (writings \ {w}) \cup {v}
    BY <1>4, <2>3 DEF Painting!Fail
  <2> QED
    BY <1>1, <2>1, <2>2, <2>4, <2>5, WritingsMove DEF ThemeInv, IsWriting, Sound
<1>5. CASE Painting!Land(w)
  <2>1. /\ UNCHANGED <<themeForm, preview, themeWrites>> /\ w.phase = "kept"
        /\ themeRead' = w.body /\ dialog' \in {None, dialog}
    BY <1>5 DEF Painting!Land
  <2>2. FormInv' /\ PageInv'
    BY <1>1, <2>1, FormStays DEF PageInv, Sound
  <2>3. PICK v : v = [w EXCEPT !.phase = "painting"]
    OBVIOUS
  <2>4. v = [id |-> w.id, kind |-> w.kind, body |-> w.body, phase |-> "painting"]
    BY <1>2, <2>3
  <2>5. writings' = (writings \ {w}) \cup {v}
    BY <1>5, <2>3 DEF Painting!Land
  <2> QED
    BY <1>1, <2>1, <2>2, <2>4, <2>5, WritingsMove DEF ThemeInv, IsWriting, Sound
<1>6. CASE Painting!Repaint(w)
  <2>1. /\ UNCHANGED <<themeRead, dialog, themeWrites>> /\ w.phase = "painting"
        /\ writings' = writings \ {w}
        /\ preview' = IF w.kind = "apply" THEN None ELSE preview
    BY <1>6 DEF Painting!Repaint
  <2>2. PageInv'
    BY <1>1, <2>1 DEF PageInv
  <2>3. FormInv' /\ themeForm'.awaits \in {None, themeForm.awaits}
    <3>1. CASE w.id # themeForm.awaits
      <4>1. themeForm' = themeForm
        BY <1>6, <3>1 DEF Painting!Repaint
      <4> QED
        BY <1>1, <2>1, <4>1, FormStays
    <3>2. CASE w.id = themeForm.awaits
      <4>1. preview' = None /\ Painting!valid(w.body)
        BY <1>1, <2>1, <3>2 DEF WritingInv, Sound
      <4>2. CASE themeForm.leaves
        <5>1. themeForm' = Painting!Closed
          BY <1>6, <3>2, <4>2 DEF Painting!Repaint
        <5> QED
          BY <4>1, <5>1, FormCloses
      <4>3. CASE ~themeForm.leaves
        <5>1. PICK none : none = Painting!NO_EDITS
          OBVIOUS
        <5>2. themeForm' = [themeForm EXCEPT !.baseline = w.body, !.edits = none, !.awaits = None]
          BY <1>6, <3>2, <4>3, <5>1 DEF Painting!Repaint
        <5>3. themeForm' = [open |-> themeForm.open, baseline |-> w.body, edits |-> none,
                            awaits |-> None, leaves |-> themeForm.leaves]
          BY <1>1, <5>2 DEF IsForm
        <5>4. OfFields(none)
          BY <5>1 DEF OfFields, Scopes, Painting!NO_EDITS, Painting!Nothing
        <5> QED
          BY <4>1, <5>3, <5>4 DEF FormInv, IsForm
      <4> QED
        BY <4>2, <4>3
    <3> QED
      BY <3>1, <3>2
  <2> QED
    BY <1>1, <2>1, <2>2, <2>3, WritingsMove DEF ThemeInv, Sound
<1>7. CASE Painting!Refused(w)
  <2>1. UNCHANGED <<themeRead, dialog, themeWrites, preview>> /\ writings' = writings \ {w}
    BY <1>7 DEF Painting!Refused
  <2>2. PageInv'
    BY <1>1, <2>1 DEF PageInv
  <2>3. FormInv' /\ themeForm'.awaits \in {None, themeForm.awaits}
    <3>1. CASE themeForm' = themeForm
      BY <1>1, <2>1, <3>1, FormStays
    <3>2. CASE themeForm' = [themeForm EXCEPT !.awaits = None, !.leaves = FALSE]
      <4>1. themeForm' = [open |-> themeForm.open, baseline |-> themeForm.baseline,
                          edits |-> themeForm.edits, awaits |-> None, leaves |-> FALSE]
        BY <1>1, <3>2 DEF IsForm
      <4> QED
        BY <1>1, <2>1, <4>1 DEF FormInv, IsForm, Painting!Open, Painting!Proposed
    <3> QED
      BY <1>7, <3>1, <3>2 DEF Painting!Refused
  <2> QED
    BY <1>1, <2>1, <2>2, <2>3, WritingsMove DEF ThemeInv, Sound
<1> QED
  BY <1>3, <1>4, <1>5, <1>6, <1>7

(* The theme of the installation, its form and its writes.                 *)
ThemeSpec == Painting!Init /\ [][Painting!Next]_Painting!themeVars

LEMMA ThemeStart == ASSUME Painting!Init PROVE ThemeInv
<1>1. /\ themeRead = None \/ Painting!valid(themeRead)
      /\ themeForm = Painting!Closed /\ preview = None /\ dialog = None
      /\ writings = {} /\ themeWrites = 0
  BY DEF Painting!Init
<1>2. FormInv /\ themeForm.awaits = None
  BY <1>1, ClosedForm DEF FormInv
<1> QED
  BY <1>1, <1>2 DEF ThemeInv, NumbersInv, PageInv

LEMMA ThemeStep ==
    ASSUME ThemeInv, NoneIsNoId, [Painting!Next]_Painting!themeVars
    PROVE  ThemeInv'
<1>1. CASE \E scope \in DOMAIN Painting!NO_EDITS :
              \E key \in Painting!Fields(scope), value \in Values \cup {None} :
                  Painting!edit(scope, key, value)
  <2>1. DOMAIN Painting!NO_EDITS = Scopes
    BY DEF Painting!NO_EDITS, Scopes
  <2> QED
    BY <1>1, <2>1, FormMoves
<1>2. CASE \/ Painting!Modify \/ Painting!Apply \/ Painting!Stay
           \/ Painting!Close \/ Painting!Discard
  BY <1>2, FormMoves
<1>3. CASE \/ Painting!Leave \/ Painting!OpenDialog \/ Painting!CloseDialog
           \/ Painting!SendDialog \/ Painting!Reset \/ UNCHANGED Painting!themeVars
  BY <1>3, DialogsMove
<1>4. CASE \E w \in writings : \/ Painting!Serve(w) \/ Painting!Fail(w) \/ Painting!Land(w)
                               \/ Painting!Repaint(w) \/ Painting!Refused(w)
  BY <1>4, WritesMove
<1> QED
  BY <1>1, <1>2, <1>3, <1>4 DEF Painting!Next

(* Whatever themes are stored, imported and edited, an apply is never      *)
(* refused for what the form made, paints on each ground what its fields   *)
(* show, and leaves every key it did not reach as it was painted           *)
(* (themeForm.ts, candidate; tweakcn.py, validate).                        *)
THEOREM AppliesPaintTheFields ==
    ASSUME NoneIsNoId
    PROVE  ThemeSpec => []Painting!ApplyPaintsTheFields
<1>1. ASSUME ThemeInv
      PROVE  Painting!ApplyPaintsTheFields
  <2>1. PICK b : b = themeForm.baseline
    OBVIOUS
  <2>2. PICK e : e = themeForm.edits
    OBVIOUS
  <2>3. PICK c : c = Painting!candidate(b, e)
    OBVIOUS
  <2>4. Painting!valid(b) /\ OfFields(e) /\ c = Painting!Proposed
    BY <1>1, <2>1, <2>2, <2>3 DEF ThemeInv, FormInv, Painting!Proposed
  <2>5. Painting!valid(c)
    BY <2>3, <2>4, CandidateIsValid
  <2>6. \A scope \in DOMAIN Painting!NO_EDITS : \A key \in Painting!Fields(scope) :
            Painting!Painted(c, Painting!GroundOf(scope), key) = Painting!valueOf(b, e, scope, key)
    <3>1. DOMAIN Painting!NO_EDITS = Scopes
      BY DEF Painting!NO_EDITS, Scopes
    <3> QED
      BY <2>3, <2>4, <3>1, FieldsArePainted
  <2>7. ASSUME NEW ground \in Painting!Grounds, NEW key \in Painting!Keys \ Painting!Reached(ground)
        PROVE  Painting!Painted(c, ground, key) = Painting!Painted(b, ground, key)
    <3>1. Painting!Reached(ground) = Spread(e) \cup UNION {Painting!Linked(b, ground, k) :
                                                            k \in DOMAIN e[ground]}
      BY <2>1, <2>2, Zenon DEF Painting!Reached, Spread
    <3>2. Given(b, e, ground) = UNION {Painting!Linked(b, ground, k) : k \in DOMAIN e[ground]}
      BY DEF Given, Painting!GroundEdits
    <3>3. key \notin Spread(e) /\ key \notin Given(b, e, ground) /\ key \in Painting!Keys
      BY <2>7, <3>1, <3>2
    <3>4. Painting!valid(b) /\ ground \in Painting!Grounds
      BY <2>4, <2>7
    <3>5. Painting!Painted(c, ground, key) = Painting!Painted(b, ground, key)
      BY <2>3, <3>3, <3>4, UnreachedStays
    <3> QED
      BY <3>5
  <2> QED
    BY <2>1, <2>2, <2>4, <2>5, <2>6, <2>7 DEF Painting!ApplyPaintsTheFields
<1> QED
  BY <1>1, ThemeStart, ThemeStep, PTL DEF ThemeSpec

(* The page under the form is what the form proposes, on both grounds, as  *)
(* long as the stylesheet is the one the form opened on: what the preview  *)
(* does not say, the stylesheet does not either (themePreview.ts).         *)
THEOREM PreviewsAreTheCandidate ==
    ASSUME NoneIsNoId
    PROVE  ThemeSpec => []Painting!PreviewIsTheCandidate
<1>1. ASSUME ThemeInv
      PROVE  Painting!PreviewIsTheCandidate
  <2>1. PICK b : b = themeForm.baseline
    OBVIOUS
  <2>2. PICK e : e = themeForm.edits
    OBVIOUS
  <2>3. PICK c : c = Painting!candidate(b, e)
    OBVIOUS
  <2>4. Painting!valid(b) /\ c = Painting!Proposed /\ (preview # None => preview = c)
    BY <1>1, <2>1, <2>2, <2>3 DEF ThemeInv, FormInv, Painting!Proposed
  <2>5. ASSUME NEW ground \in Painting!Grounds, NEW key \in Painting!Keys,
               preview # None, Painting!OrAtelier(painted) = b
        PROVE  Painting!Screen(ground, key) = Painting!Painted(c, ground, key)
    <3>1. CASE Painting!Emits(c, key)
      BY <2>4, <2>5, <3>1 DEF Painting!Screen, Painting!Painted
    <3>2. CASE ~Painting!Emits(c, key)
      <4>1. Painting!Screen(ground, key) = Painting!Painted(b, ground, key)
        BY <2>4, <2>5, <3>2 DEF Painting!Screen
      <4>2. ~Painting!Emits(b, key)
        BY <2>3, <2>4, <3>2, EmitsMore
      <4> QED
        BY <3>2, <4>1, <4>2 DEF Painting!Painted
    <3> QED
      BY <3>1, <3>2
  <2> QED
    BY <2>1, <2>4, <2>5 DEF Painting!PreviewIsTheCandidate
<1> QED
  BY <1>1, ThemeStart, ThemeStep, PTL DEF ThemeSpec

(* Nothing of a candidate stays on the page once its form is gone, however *)
(* its writes end (ThemeForm.tsx, clearPreview).                           *)
THEOREM PreviewsGoWithTheirForm ==
    ASSUME NoneIsNoId
    PROVE  ThemeSpec => []Painting!PreviewGoesWithItsForm
<1>1. ThemeInv => Painting!PreviewGoesWithItsForm
  BY DEF ThemeInv, FormInv, Painting!PreviewGoesWithItsForm
<1> QED
  BY <1>1, ThemeStart, ThemeStep, PTL DEF ThemeSpec

-----------------------------------------------------------------------------
(* The section of the settings that writes, imports and removes them.      *)
CONSTANTS FULL, GRAIN, MAX_THRESHOLD_YEARS, CALENDAR_END, NoSheet, New, Declined,
    Items, ModelIds, Catalogue, TypedNames, Typed, Accounts, Gains, Today, MaxTyped, MaxAsks, MaxLost
VARIABLES models, carried, catalogue, carriers, registry, editing, editor, writeError, imported,
    removing, removeError, replacing, storeError, flights, keys, asks, missed
Section == INSTANCE TaxationSection WITH Shut <- NoSheet, lost <- missed

LEMMA AcceptedStep ==
    ASSUME Section!StoredIsAccepted, [Section!Next]_Section!vars
    PROVE  Section!StoredIsAccepted'
<1>1. ASSUME NEW f, Section!WriteModel(f) PROVE Section!StoredIsAccepted'
  <2>1. CASE Section!Refuses(f)
    BY <1>1, <2>1 DEF Section!WriteModel, Section!StoredIsAccepted
  <2>2. CASE ~Section!Refuses(f)
    <3>1. PICK id : models' = [m \in DOMAIN models \cup {id} |->
                                 IF m = id THEN Section!Kept(f) ELSE models[m]]
      BY <1>1, <2>2 DEF Section!WriteModel
    <3>2. Section!accepts(Section!Kept(f)) /\ carried' = carried
      BY <1>1, <2>2 DEF Section!WriteModel, Section!Refuses
    <3>3. PICK kept : kept = Section!Kept(f)
      OBVIOUS
    <3> QED BY <3>1, <3>2, <3>3 DEF Section!StoredIsAccepted
  <2> QED BY <2>1, <2>2
<1>2. ASSUME NEW f, Section!delete_model(f) PROVE Section!StoredIsAccepted'
  BY <1>2 DEF Section!delete_model, Section!StoredIsAccepted
<1>3. CASE Section!Elsewhere
  BY <1>3 DEF Section!Elsewhere, Section!StoredIsAccepted
<1>4. CASE UNCHANGED <<models, carried>>
  BY <1>4 DEF Section!StoredIsAccepted
<1>5. \/ UNCHANGED <<models, carried>> \/ Section!Elsewhere
      \/ \E f \in flights : Section!WriteModel(f) \/ Section!delete_model(f)
  BY DEF Section!Next, Section!vars, Section!store, Section!ReadsLand, Section!RegistryLands,
     Section!Open, Section!Close, Section!Type, Section!Save, Section!AskRemoval,
     Section!KeepModel, Section!RemoveModel, Section!Replace, Section!KeepStored, Section!Pick,
     Section!Lost, Section!RefusalLands, Section!Fails, Section!WriteLands, Section!DropLands,
     Section!ImportLands
<1> QED BY <1>1, <1>2, <1>3, <1>4, <1>5

(* Whatever is typed, imported over a stored model or removed, what is     *)
(* stored was checked, and a model that an account carries is there        *)
(* (taxation.py, validate; api/accounts.py, delete_model).                 *)
THEOREM StoredModelsAreAccepted ==
    ASSUME \A id \in DOMAIN Catalogue : Section!accepts(Catalogue[id])
    PROVE  Section!Spec => []Section!StoredIsAccepted
<1>1. Section!Init => Section!StoredIsAccepted
  BY DEF Section!Init, Section!StoredIsAccepted
<1>2. Section!StoredIsAccepted /\ [Section!Next]_Section!vars => Section!StoredIsAccepted'
  BY AcceptedStep
<1> QED
  BY <1>1, <1>2, PTL DEF Section!Spec

-----------------------------------------------------------------------------
(* The layout of the dashboard.                                            *)
CONSTANTS Unread, Later, Registry, Layouts, States, Columns,
    MaxArranged, MaxDrags, MaxLayouts, MaxLayoutReads, MaxResizes
VARIABLES stored, layout, layoutRead, draft, toDelete, confirming, drag, columns, states,
    layoutSaving, saveFailed, orphan, touched, arranged, drags, layoutSaves, layoutReads, resizes
Arranging == INSTANCE DashboardGrid WITH
    MaxEdits <- MaxArranged, MaxSaves <- MaxLayouts, MaxReads <- MaxLayoutReads,
    saving <- layoutSaving, edits <- arranged, crossed <- touched, saves <- layoutSaves, reads <- layoutReads

(* None is no layout, and no write of one.                                 *)
NoneIsNoLayout ==
    /\ \A f : None # [i \in DOMAIN f |-> f[i]]
    /\ \A x : None # <<x>>

(* A save in flight is of the draft, or of the default that forgets it,    *)
(* until it is edited.                                                     *)
SaveInv ==
    /\ toDelete => draft = Arranging!defaultLayout
    /\ layoutSaving # None => draft # None
    /\ layoutSaving # None /\ ~touched => layoutSaving = <<IF toDelete THEN None ELSE draft>>

(* What an edit proposes is a layout.                                      *)
LEMMA EditsAreLayouts ==
    ASSUME NoneIsNoLayout, NEW placements, NEW id, NEW value
    PROVE  /\ Arranging!withWidth(placements, id, value) # None
           /\ Arranging!withHidden(placements, id, value) # None
<1>1. \A f, g : g = [i \in DOMAIN f |-> g[i]] => g # None
  <2> SUFFICES ASSUME NEW f, NEW g, g = [i \in DOMAIN f |-> g[i]] PROVE g # None
    OBVIOUS
  <2>1. DOMAIN g = DOMAIN f
    OBVIOUS
  <2>2. g = [i \in DOMAIN g |-> g[i]]
    BY <2>1
  <2> QED BY <2>2 DEF NoneIsNoLayout
<1>2. Arranging!withWidth(placements, id, value) # None
  <2> DEFINE g == Arranging!withWidth(placements, id, value)
  <2>1. g = [i \in DOMAIN placements |-> g[i]]
    BY DEF Arranging!withWidth
  <2> HIDE DEF g
  <2> QED BY <1>1, <2>1 DEF g
<1>3. Arranging!withHidden(placements, id, value) # None
  <2> DEFINE g == Arranging!withHidden(placements, id, value)
  <2>1. g = [i \in DOMAIN placements |-> g[i]]
    BY DEF Arranging!withHidden
  <2> HIDE DEF g
  <2> QED BY <1>1, <2>1 DEF g
<1> QED BY <1>2, <1>3

LEMMA DefaultIsALayout == ASSUME NoneIsNoLayout PROVE Arranging!defaultLayout # None
<1> DEFINE g == Arranging!defaultLayout
<1>1. DOMAIN g = DOMAIN Registry /\ g = [i \in DOMAIN Registry |-> g[i]]
  BY DEF Arranging!defaultLayout
<1>2. g = [i \in DOMAIN g |-> g[i]]
  BY <1>1
<1> HIDE DEF g
<1> QED BY <1>2 DEF g, NoneIsNoLayout

LEMMA EditedKept ==
    ASSUME SaveInv, NEW next, next # None, Arranging!CardEdited(next) PROVE SaveInv'
BY DEF SaveInv, Arranging!CardEdited, Arranging!edit

LEMMA SaveStep ==
    ASSUME NoneIsNoLayout, SaveInv, [Arranging!Next]_Arranging!vars PROVE SaveInv'
<1>1. CASE Arranging!enter
  BY <1>1 DEF SaveInv, Arranging!enter, Arranging!editing
<1>2. CASE Arranging!Cancel \/ Arranging!SaveLands \/ Arranging!LeavePage
  BY <1>2 DEF SaveInv, Arranging!Cancel, Arranging!SaveLands, Arranging!LeavePage, Arranging!Left
<1>3. CASE Arranging!onMove
  BY <1>3, EditedKept DEF Arranging!onMove, Arranging!CardMenu
<1>4. CASE Arranging!onWidth
  BY <1>4, EditedKept, EditsAreLayouts DEF Arranging!onWidth
<1>5. CASE Arranging!onHide \/ Arranging!onShow
  BY <1>5, EditedKept, EditsAreLayouts DEF Arranging!onHide, Arranging!onShow
<1>6. CASE Arranging!ConfirmReset
  BY <1>6, DefaultIsALayout DEF SaveInv, Arranging!ConfirmReset
<1>7. CASE Arranging!done
  <2>1. CASE toDelete \/ Arranging!mustWrite(draft, Arranging!saved)
    BY <1>7, <2>1 DEF SaveInv, Arranging!done, Arranging!editing
  <2>2. CASE ~(toDelete \/ Arranging!mustWrite(draft, Arranging!saved))
    BY <1>7, <2>2 DEF SaveInv, Arranging!done, Arranging!Left
  <2> QED BY <2>1, <2>2
<1>8. ASSUME NEW canceled, Arranging!onDragEnd(canceled) PROVE SaveInv'
  <2>1. CASE UNCHANGED <<draft, toDelete, touched>>
    BY <1>8, <2>1 DEF SaveInv, Arranging!onDragEnd
  <2>2. CASE Arranging!draggable /\ Arranging!edit(drag.shown)
    BY <1>8, <2>2 DEF SaveInv, Arranging!onDragEnd, Arranging!edit, Arranging!draggable
  <2> QED BY <1>8, <2>1, <2>2 DEF Arranging!onDragEnd
<1>9. CASE \/ Arranging!AskReset \/ Arranging!KeepLayout \/ Arranging!OrphanLands
           \/ Arranging!onDragStart \/ Arranging!onDragOver \/ Arranging!Resize
           \/ Arranging!AskRead \/ Arranging!ReadAnswered \/ Arranging!ReadLands
           \/ Arranging!ReadFails \/ Arranging!SavedElsewhere \/ UNCHANGED Arranging!vars
  <2>1. UNCHANGED <<toDelete, draft, layoutSaving, touched>>
    BY <1>9 DEF Arranging!AskReset, Arranging!KeepLayout, Arranging!OrphanLands,
       Arranging!onDragStart, Arranging!onDragOver, Arranging!Resize, Arranging!AskRead,
       Arranging!ReadAnswered, Arranging!ReadLands, Arranging!ReadFails,
       Arranging!SavedElsewhere, Arranging!vars, Arranging!pageVars
  <2> QED BY <2>1 DEF SaveInv
<1>10. CASE Arranging!SaveRefused
  BY <1>10 DEF SaveInv, Arranging!SaveRefused
<1> QED
  BY <1>1, <1>2, <1>3, <1>4, <1>5, <1>6, <1>7, <1>8, <1>9, <1>10 DEF Arranging!Next

(* The write that ends the session is of what is drawn.                    *)
Ends == layoutSaving # None /\ layoutSaving' = None /\ ~Arranging!editing' /\ orphan' = orphan /\ ~touched
WritesTheDrawn == Ends => Arranging!normalizeLayout(stored') = draft /\ layout' = stored'

LEMMA OnlyTheAnswerEnds ==
    ASSUME NoneIsNoLayout, SaveInv, [Arranging!Next]_Arranging!vars, Ends
    PROVE  Arranging!SaveLands
<1>1. draft # None /\ layoutSaving' # layoutSaving /\ draft' = None
  BY DEF SaveInv, Ends, Arranging!editing
<1>2. ~Arranging!SaveRefused
  BY <1>1 DEF Arranging!SaveRefused
<1>3. ~Arranging!LeavePage
  BY DEF Arranging!LeavePage, Ends
<1>4. ~Arranging!done
  BY DEF Arranging!done, Ends
<1>5. UNCHANGED layoutSaving \/ Arranging!SaveRefused \/ Arranging!LeavePage \/ Arranging!done
      \/ Arranging!SaveLands
  BY DEF Arranging!Next, Arranging!vars, Arranging!enter, Arranging!Cancel, Arranging!onMove,
     Arranging!onWidth, Arranging!onHide, Arranging!onShow, Arranging!CardEdited,
     Arranging!AskReset, Arranging!KeepLayout, Arranging!ConfirmReset, Arranging!OrphanLands,
     Arranging!onDragStart, Arranging!onDragOver, Arranging!onDragEnd, Arranging!Resize,
     Arranging!AskRead, Arranging!ReadAnswered, Arranging!ReadLands, Arranging!ReadFails,
     Arranging!SavedElsewhere
<1> QED BY <1>1, <1>2, <1>3, <1>4, <1>5

LEMMA EndsAsDrawn ==
    ASSUME NoneIsNoLayout, SaveInv, Arranging!DraftIsKept, [Arranging!Next]_Arranging!vars
    PROVE  WritesTheDrawn
<1> SUFFICES ASSUME Ends
             PROVE  Arranging!normalizeLayout(stored') = draft /\ layout' = stored'
  BY DEF WritesTheDrawn
<1>1. stored' = layoutSaving[1] /\ layout' = layoutSaving[1]
  BY OnlyTheAnswerEnds DEF Arranging!SaveLands
<1>2. layoutSaving = <<IF toDelete THEN None ELSE draft>> /\ draft # None
  BY DEF Ends, SaveInv
<1>3. CASE toDelete
  <2>1. Arranging!normalizeLayout(None) = Arranging!defaultLayout
    BY DEF Arranging!normalizeLayout, Arranging!storedBlocks
  <2> QED BY <1>1, <1>2, <1>3, <2>1 DEF SaveInv
<1>4. CASE ~toDelete
  BY <1>1, <1>2, <1>4 DEF Arranging!DraftIsKept, Arranging!editing
<1> QED BY <1>3, <1>4

(* A save that ends the session leaves the server and the cache with the   *)
(* layout on screen, reset or edited, as long as a layout arranged is drawn*)
(* as it is (DashboardGrid.tsx, edit, done; normalizeLayout).              *)
THEOREM SavesAreOfTheDrawn ==
    ASSUME NoneIsNoLayout
    PROVE  Arranging!Spec /\ []Arranging!DraftIsKept => Arranging!SavedIsDrawn
<1>1. Arranging!Init => SaveInv
  BY DEF Arranging!Init, SaveInv
<1>2. SaveInv /\ [Arranging!Next]_Arranging!vars => SaveInv'
  BY SaveStep
<1>3. SaveInv /\ Arranging!DraftIsKept /\ [Arranging!Next]_Arranging!vars => WritesTheDrawn
  BY EndsAsDrawn
<1>4. [][WritesTheDrawn]_Arranging!vars => Arranging!SavedIsDrawn
  <2>1. [WritesTheDrawn]_Arranging!vars
        => [layoutSaving # None /\ layoutSaving' = None /\ ~Arranging!editing' /\ orphan' = orphan /\ ~touched
            => Arranging!normalizeLayout(stored') = draft /\ layout' = stored']_Arranging!vars
    BY DEF WritesTheDrawn, Ends
  <2> QED BY <2>1, PTL DEF Arranging!SavedIsDrawn
<1> QED
  BY <1>1, <1>2, <1>3, <1>4, PTL DEF Arranging!Spec
=============================================================================

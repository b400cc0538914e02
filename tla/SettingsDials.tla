--------------------------- MODULE SettingsDials ---------------------------
(***************************************************************************)
(* The dials saved one by one: the registry and its write                  *)
(* (settings_registry.py, settings.py, api/settings.py), what a saved dial *)
(* takes effect on (main.py, apply_settings), and the rows of the page,    *)
(* each with its draft, its save in flight and the value waiting behind it *)
(* (useDial.ts, installation.ts, AdvancedSection.tsx, PortfolioSection.tsx). *)
(*                                                                         *)
(* A value is a number, a currency, a switch or None.  A typed text is a   *)
(* value, Blank, or Garbage, which no dial takes.                          *)
(***************************************************************************)
EXTENDS Integers, Sequences, FiniteSets

CONSTANTS None, Blank, Garbage,
    Keys,           \* the dials of the instance
    Texts,          \* what may be typed or chosen in each
    Asked,          \* a read the server has not answered yet
    MaxGestures, MaxReads, MaxOthers, MaxFaults

VARIABLES
    table,          \* the rows of setting, None where there is none
    recorded,       \* whether the ledger has an event
    inForce,        \* the values the jobs run with
    config,         \* what the page read of the dials
    configRead,     \* the read of it on its way
    drafts,         \* what is typed in each row, None where nothing is
    receipts,       \* what each row says of its save
    sending, queued,        \* the value being saved in each row, and the one behind it
    base,           \* the last answer of the row's run, and whether there was one
    wanted,         \* the value each row was last told to save
    requests,       \* the save of each row on its way
    gestures, configReads, others, losses

dialVars == <<table, recorded, inForce, config, configRead, drafts, receipts, sending, queued,
    base, wanted, requests, gestures, configReads, others, losses>>

-----------------------------------------------------------------------------
(* The registry.                                                           *)

SETTINGS ==
    [regular_interval |-> [kind |-> "integer", default |-> 120, required |-> FALSE,
                           minimum |-> 10, maximum |-> 86400],
     base_currency |-> [kind |-> "currency", default |-> None, required |-> TRUE],
     update_check |-> [kind |-> "boolean", default |-> "true", required |-> FALSE]]
CURRENCIES == {"EUR", "USD"}

resolve(key, stored) == IF stored = None THEN SETTINGS[key].default ELSE stored
Effective == [key \in Keys |-> resolve(key, table[key])]

(* A blank is refused, and so is what is not of the kind or out of bounds. *)
validate(key, text) ==
    /\ text \notin {Blank, Garbage}
    /\ CASE SETTINGS[key].kind = "integer" ->
                text >= SETTINGS[key].minimum /\ text <= SETTINGS[key].maximum
         [] SETTINGS[key].kind = "currency" -> text \in CURRENCIES
         [] SETTINGS[key].kind = "boolean" -> text \in {"true", "false"}

(* The currency is not changed once events are recorded in it.             *)
Reinterprets(key, text) ==
    key = "base_currency" /\ Effective[key] # None /\ recorded /\ text # Effective[key]
Accepted(key, text) == validate(key, text) /\ ~Reinterprets(key, text)
Stored(key, text) ==
    IF text = Effective[key] THEN table ELSE [table EXCEPT ![key] = text]

-----------------------------------------------------------------------------
(* The rows.                                                               *)

(* What differs from the value known is sent; a blank only where it can    *)
(* mean unset, which none of these dials does.                             *)
changedValues(key, known, text) ==
    /\ ~(text = Blank /\ (SETTINGS[key].default # None \/ SETTINGS[key].required))
    /\ text # (IF known = None THEN Blank ELSE known)

draftFrom(value) == IF value = None THEN Blank ELSE value
draft(key) ==
    IF drafts[key] # None THEN drafts[key]
    ELSE IF config = None THEN Blank ELSE draftFrom(config[key])

Request(key, text) == [key |-> key, text |-> text, phase |-> "sent", answer |-> None]
At(row, key, value) == [row EXCEPT ![key] = value]

(* The saved row is written over what was read, and the reads on their way *)
(* are dropped first; the draft goes if it is still what was saved.        *)
KeptReads == configRead
DroppedReads == None
OnlyThisRow(key, known) == At(config, key, known)

(* A run ends: the row takes its last answer, and a draft that is what was *)
(* saved goes.                                                             *)
Ends(key, text, known, answered, ok, typed) ==
    /\ sending' = At(sending, key, None)
    /\ queued' = At(queued, key, None)
    /\ base' = At(base, key, None)
    /\ requests' = At(requests, key, None)
    /\ config' = IF answered THEN OnlyThisRow(key, known) ELSE config
    /\ configRead' = IF answered THEN DroppedReads ELSE configRead
    /\ drafts' = IF ok /\ typed[key] = text THEN At(typed, key, None) ELSE typed

(* A value that moved is sent, and nothing waits behind it yet.            *)
Sends(key, text, known, answered, typed) ==
    /\ sending' = At(sending, key, text)
    /\ queued' = At(queued, key, None)
    /\ base' = At(base, key, [known |-> known, answered |-> answered])
    /\ requests' = At(requests, key, Request(key, text))
    /\ receipts' = At(receipts, key, "saving")
    /\ drafts' = typed
    /\ UNCHANGED <<config, configRead>>

(* A value that did not move ends the run where it stands.                 *)
Receipt(said, answered) == IF answered THEN "saved" ELSE IF said = "failed" THEN "idle" ELSE said
Goes(key, text, known, answered, said, typed) ==
    IF changedValues(key, known, text) THEN Sends(key, text, known, answered, typed)
    ELSE /\ Ends(key, text, known, answered, TRUE, typed)
         /\ receipts' = At(receipts, key, Receipt(said, answered))

(* commit: a value while one is on its way waits behind it, or takes back  *)
(* the one that waited when it is the one being sent.                      *)
QueuedStale(key, text) == IF text = sending[key] THEN queued[key] ELSE text
QueuedBehind(key, text) == IF text = sending[key] THEN None ELSE text
commit(key, text, typed) ==
    /\ wanted' = At(wanted, key, text)
    /\ IF sending[key] # None
       THEN /\ queued' = At(queued, key, QueuedBehind(key, text))
            /\ drafts' = typed
            /\ UNCHANGED <<sending, base, requests, config, configRead, receipts>>
       ELSE Goes(key, text, config[key], FALSE, receipts[key], typed)

Known == config # None
Gesture == gestures < MaxGestures /\ gestures' = gestures + 1

(* A field is typed in; leaving it or Enter commits its draft.             *)
onChange(key, text) ==
    /\ Known /\ SETTINGS[key].kind = "integer"
    /\ Gesture
    /\ drafts' = At(drafts, key, text)
    /\ receipts' = IF receipts[key] = "saving" THEN receipts ELSE At(receipts, key, "idle")
    /\ UNCHANGED <<table, recorded, inForce, config, configRead, sending, queued, base, wanted,
                   requests, configReads, others, losses>>
onBlur(key) ==
    /\ Known /\ SETTINGS[key].kind = "integer"
    /\ Gesture
    /\ commit(key, draft(key), drafts)
    /\ UNCHANGED <<table, recorded, inForce, configReads, others, losses>>
Escape(key) ==
    /\ sending[key] = None /\ drafts[key] # None
    /\ drafts' = At(drafts, key, None)
    /\ receipts' = At(receipts, key, "idle")
    /\ UNCHANGED <<table, recorded, inForce, config, configRead, sending, queued, base, wanted,
                   requests, gestures, configReads, others, losses>>

(* A switch, or a currency: drawn only while none is answered, and still   *)
(* while one is saved.                                                     *)
set(key, text) ==
    /\ Known /\ SETTINGS[key].kind # "integer"
    /\ SETTINGS[key].kind = "currency" => receipts[key] # "saving" /\ config[key] = None
    /\ Gesture
    /\ commit(key, text, At(drafts, key, text))
    /\ UNCHANGED <<table, recorded, inForce, configReads, others, losses>>

-----------------------------------------------------------------------------
(* The server: the write under the mutex, then its effect, then the answer *)
(* read from the store.                                                    *)
Write(key) ==
    /\ requests[key] # None /\ requests[key].phase = "sent"
    /\ IF Accepted(key, requests[key].text)
       THEN /\ table' = Stored(key, requests[key].text)
            /\ requests' = [requests EXCEPT ![key].phase =
                               IF table' = table THEN "applied" ELSE "written"]
       ELSE /\ requests' = [requests EXCEPT ![key].phase = "refused"]
            /\ UNCHANGED table
    /\ UNCHANGED <<recorded, inForce, config, configRead, drafts, receipts, sending, queued, base,
                   wanted, gestures, configReads, others, losses>>
apply_settings(key) ==
    /\ requests[key] # None /\ requests[key].phase = "written"
    /\ inForce' = At(inForce, key, requests[key].text)
    /\ requests' = [requests EXCEPT ![key].phase = "applied"]
    /\ UNCHANGED <<table, recorded, config, configRead, drafts, receipts, sending, queued, base,
                   wanted, gestures, configReads, others, losses>>
Answers(key) ==
    /\ requests[key] # None /\ requests[key].phase = "applied"
    /\ requests' = [requests EXCEPT ![key].phase = "answered", ![key].answer = Effective[key]]
    /\ UNCHANGED <<table, recorded, inForce, config, configRead, drafts, receipts, sending, queued,
                   base, wanted, gestures, configReads, others, losses>>

(* A request that fails before the server, or an answer that is lost.      *)
Loses(key) ==
    /\ requests[key] # None /\ requests[key].phase \in {"sent", "answered"}
    /\ losses < MaxFaults /\ losses' = losses + 1
    /\ requests' = [requests EXCEPT ![key].phase = "refused"]
    /\ UNCHANGED <<table, recorded, inForce, config, configRead, drafts, receipts, sending, queued,
                   base, wanted, gestures, configReads, others>>

(* The answer lands, and the run goes on with the value behind it.         *)
Lands(key) ==
    /\ requests[key] # None /\ requests[key].phase \in {"answered", "refused"}
    /\ LET passed == requests[key].phase = "answered"
           known == IF passed THEN requests[key].answer ELSE base[key].known
           answered == passed \/ base[key].answered
           said == IF passed THEN "saving" ELSE "failed"
       IN  IF queued[key] # None THEN Goes(key, queued[key], known, answered, said, drafts)
           ELSE /\ Ends(key, sending[key], known, answered, passed, drafts)
                /\ receipts' = At(receipts, key, IF passed THEN "saved" ELSE "failed")
    /\ UNCHANGED <<table, recorded, inForce, wanted, gestures, configReads, others, losses>>

(* The page reads the dials: at its start, and when another gesture of the *)
(* page asks for them again.                                               *)
Reads ==
    /\ configReads < MaxReads /\ configReads' = configReads + 1
    /\ configRead' = Asked
    /\ UNCHANGED <<table, recorded, inForce, config, drafts, receipts, sending, queued, base, wanted,
                   requests, gestures, others, losses>>
ServesRead ==
    /\ configRead = Asked
    /\ configRead' = Effective
    /\ UNCHANGED <<table, recorded, inForce, config, drafts, receipts, sending, queued, base, wanted,
                   requests, gestures, configReads, others, losses>>
LandsRead ==
    /\ configRead \notin {None, Asked}
    /\ config' = configRead /\ configRead' = None
    /\ UNCHANGED <<table, recorded, inForce, drafts, receipts, sending, queued, base, wanted, requests,
                   gestures, configReads, others, losses>>

(* The first event is recorded.                                            *)
Records ==
    /\ ~recorded /\ Effective["base_currency"] # None
    /\ others < MaxOthers /\ others' = others + 1
    /\ recorded' = TRUE
    /\ UNCHANGED <<table, inForce, config, configRead, drafts, receipts, sending, queued, base,
                   wanted, requests, gestures, configReads, losses>>

Init ==
    /\ table = [key \in Keys |-> IF SETTINGS[key].default = None THEN None
                                ELSE SETTINGS[key].default]
    /\ recorded = FALSE
    /\ inForce = [key \in Keys |-> SETTINGS[key].default]
    /\ config = None /\ configRead = Asked
    /\ drafts = [key \in Keys |-> None]
    /\ receipts = [key \in Keys |-> "idle"]
    /\ sending = [key \in Keys |-> None] /\ queued = [key \in Keys |-> None]
    /\ base = [key \in Keys |-> None] /\ wanted = [key \in Keys |-> None]
    /\ requests = [key \in Keys |-> None]
    /\ gestures = 0 /\ configReads = 0 /\ others = 0 /\ losses = 0

Next ==
    \/ \E key \in Keys :
        \/ onBlur(key) \/ Escape(key)
        \/ \E text \in Texts[key] : onChange(key, text) \/ set(key, text)
        \/ Write(key) \/ apply_settings(key) \/ Answers(key) \/ Loses(key) \/ Lands(key)
    \/ Reads \/ ServesRead \/ LandsRead \/ Records

-----------------------------------------------------------------------------
Resting(key) == requests[key] = None
Unlost == losses = 0

(* A row at rest, with no read on its way and no answer lost, is what the  *)
(* server holds, whichever way the saves and the reads crossed (useDial.ts). *)
RowIsTheServers ==
    (config # None /\ configRead = None /\ Unlost) =>
        \A key \in Keys : Resting(key) => config[key] = Effective[key]

(* What a row says saved is the value it was last told to save, and the    *)
(* jobs run with it (useDial.ts, send; main.py, apply_settings).           *)
LastIsSaved ==
    \A key \in Keys : (Resting(key) /\ receipts[key] = "saved" /\ Unlost) =>
        /\ wanted[key] \in {Blank, Effective[key]}
        /\ inForce[key] = Effective[key]
=============================================================================

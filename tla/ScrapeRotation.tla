--------------------------- MODULE ScrapeRotation ---------------------------
(***************************************************************************)
(* The scrape: one self-rescheduling scheduler entry per held symbol       *)
(* (application/jobs/scrape.py), and the ingestions that reconcile the     *)
(* entries with the ledger (application/jobs/ingestion.py).                *)
(*                                                                         *)
(* An entry is a one-shot: the scheduler drops it as it fires, and the end *)
(* of the pass puts it back.  Meanwhile any number of ingestions, started  *)
(* by writes, by the turn of the day and by the boot, publish a snapshot   *)
(* and reconcile; a changed cadence re-arms entries.  No lock covers a     *)
(* reconciliation: each read and each arming is a step of its own.         *)
(*                                                                         *)
(* A delay is abstracted to what the races tell apart: "soon" is a new     *)
(* entry's (jitter only) or that of a market about to open, "later" is at  *)
(* least one poll interval away.                                           *)
(***************************************************************************)
EXTENDS Integers, FiniteSets

CONSTANTS
    Symbols,      \* the symbols the ledger may name
    Writers,      \* request threads that write to the ledger
    DialTurns,    \* may the cadence be changed?
    Faults,       \* calls that may raise: subset of {"replay", "read", "arm"}
    Armings,      \* what a boot may find stored of a held symbol
    MaxFailures,  \* bound: a symbol's failure count
    MaxWrites,    \* bound: moves of the ledger
    MaxRestarts   \* bound: crashes

ASSUME BoundsAssumption ==
    MaxFailures \in Nat /\ MaxWrites \in Nat /\ MaxRestarts \in Nat
(* "none", "due", "ahead" (next_run in the future) or "paused": no code of  *)
(* the repository writes the column paused, but a store may hold it.       *)
ASSUME ArmingsAssumption ==
    "none" \in Armings /\ Armings \subseteq {"none", "due", "ahead", "paused"}
ASSUME DialAssumption == DialTurns \in BOOLEAN
ASSUME FaultsAssumption == Faults \subseteq {"replay", "read", "arm"}
ASSUME WritersAssumption == Writers \cap {"boot", "day"} = {}

Ingests == Writers \cup {"boot", "day"}

(* What a replay says of a symbol; only a sold one has lines without      *)
(* quantity, only an absent one has no line.                               *)
Statuses == {"absent", "sold", "held"}

(* What may cost a held symbol its entry: a call that raised, a run skipped *)
(* because the pass before was not over, an ingestion that had read the    *)
(* ledger too early, a snapshot published without a reconciliation.        *)
Mishaps == {"none", "raised", "skipped", "stale", "unreconciled"}

VARIABLES
    ledger,     \* symbol -> what a replay of the stored events says today
    published,  \* symbol -> what the published snapshot says
    entries,    \* symbol -> its scheduler entry: "none", "soon", "later"
    pass,       \* symbol -> where its pass is
    failures,   \* failure_counts, 0 for no key
    restored,   \* symbol -> its stored arming, until it is armed
    record,     \* symbol -> its last scrape record: "none", "open", "closed"
    history,    \* symbol -> what JobHistory holds of it: "track", "arming"
    ingest,     \* ingestion -> its progress
    rearm,      \* the cadence change under way
    writes,     \* moves of the ledger so far
    restarts,   \* crashes so far
    mishap,     \* history: symbol -> what cost it its entry since last armed
    paused,     \* history: symbols stored as paused at the boot, and held by
                \* every snapshot published since
    unarmed     \* history: symbols sold while out of the rotation

vars == <<ledger, published, entries, pass, failures, restored, record,
          history, ingest, rearm, writes, restarts, mishap, paused, unarmed>>

snapshotVars == <<published, paused, unarmed>>
ledgerVars == <<ledger, writes>>
familyVars == <<failures, record>>

(* What a step of an ingestion, of a cadence change, of a pass leaves alone. *)
aroundIngest == <<ledgerVars, snapshotVars, pass, rearm, restarts>>
aroundRearm == <<ledgerVars, snapshotVars, pass, familyVars, restored, ingest,
                 restarts>>
aroundPass == <<ledgerVars, snapshotVars, restored, ingest, rearm, restarts>>

Held == {s \in Symbols : published[s] = "held"}

(* Mutant: every entry of the scheduler, prefix or not. *)
ScheduledAnything == {s \in Symbols : entries[s] # "none"} \cup {"backfill"}

(* ScrapeJob.scheduled_symbols: the entries the scheduler has now. *)
Scheduled == {s \in Symbols : entries[s] # "none"}

(* The symbol has an entry, or a pass that has still to re-arm it. *)
InRotation(s) ==
    \/ entries[s] # "none"
    \/ pass[s] \in {"fetch", "open", "closed", "finally", "arm"}

Blame(S, cause) ==
    mishap' = [s \in Symbols |-> IF s \in S THEN cause ELSE mishap[s]]

Idle == [pc |-> "idle", names |-> {}, held |-> {}, drop |-> {}, arm |-> {},
         remove |-> {}, noting |-> {}]

QuietDial == [pc |-> "idle", todo |-> {}, noting |-> {}]

(* The boot's ingestion runs before the scheduler and the web server do. *)
Booting == ingest["boot"].pc # "idle"

Init ==
    /\ ledger \in [Symbols -> Statuses]
    /\ published = ledger
    /\ entries = [s \in Symbols |-> "none"]
    /\ pass = [s \in Symbols |-> "idle"]
    /\ restored \in [Symbols -> Armings]
    /\ \A s \in Symbols : ledger[s] # "held" => restored[s] = "none"
    /\ failures \in [Symbols -> 0 .. MaxFailures]
    /\ \A s \in Symbols : restored[s] = "none" => failures[s] = 0
    /\ record = [s \in Symbols |-> "none"]
    /\ history = [s \in Symbols |->
                     IF restored[s] = "none" THEN {} ELSE {"track"}]
    /\ ingest = [i \in Ingests |->
                    IF i = "boot" THEN [Idle EXCEPT !.pc = "replay"] ELSE Idle]
    /\ rearm = QuietDial
    /\ writes = 0 /\ restarts = 0
    /\ mishap = [s \in Symbols |-> "none"]
    /\ paused = {s \in Symbols : restored[s] = "paused"}
    /\ unarmed = {}

-----------------------------------------------------------------------------
(* Ingestion: replay, then reconcile *)

MoveLedger(s, status) ==
    /\ writes < MaxWrites
    /\ ledger' = [ledger EXCEPT ![s] = status]
    /\ writes' = writes + 1

Begin(i) ==
    /\ ~Booting
    /\ ingest[i].pc = "idle"
    /\ ingest' = [ingest EXCEPT ![i].pc = "replay"]
    /\ UNCHANGED <<snapshotVars, entries, pass, familyVars, restored, history,
                   rearm, restarts, mishap>>

(* A request commits its write, then calls replay_after_write. *)
Write(w, s, status) ==
    /\ status # ledger[s]
    /\ MoveLedger(s, status)
    /\ Begin(w)

(* Midnight: the day-turn entry fires; an event dated today now counts.    *)
DayTurn ==
    /\ \/ UNCHANGED ledgerVars
       \/ \E s \in Symbols, status \in Statuses : MoveLedger(s, status)
    /\ Begin("day")

(* No entry, no stored arming and no pass of the symbol. *)
OutOfRotation(s) ==
    entries[s] = "none" /\ restored[s] = "none" /\ pass[s] = "idle"

(* ConfigurationManager._replay: the snapshot of the stored events. *)
Publish ==
    /\ published' = ledger
    /\ paused' = {s \in paused : ledger[s] = "held"}
    /\ unarmed' = {s \in Symbols :
           /\ ledger[s] # "held"
           /\ s \in unarmed \/ (s \in Held /\ OutOfRotation(s))}

(***************************************************************************)
(* ConfigurationManager.reload by another job publishes what a replay that *)
(* failed has left unpublished, or what a request is about to, and         *)
(* reconciles nothing.                                                     *)
(***************************************************************************)
Reload ==
    /\ published # ledger
    /\ Publish
    /\ Blame({s \in Symbols : /\ ledger[s] = "held"
                              /\ published[s] # "held"
                              /\ ~InRotation(s)}, "unreconciled")
    /\ UNCHANGED <<ledgerVars, entries, pass, familyVars, restored, history,
                   ingest, rearm, restarts>>

(* Mutant: nothing to reconcile when the snapshot has not changed. *)
ReplayIfChanged(i) ==
    /\ ingest[i].pc = "replay"
    /\ Publish
    /\ ingest' = [ingest EXCEPT
           ![i] = IF published = ledger THEN Idle
                  ELSE [Idle EXCEPT !.pc = "retain",
                           !.names = {s \in Symbols : ledger[s] # "absent"}]]
    /\ UNCHANGED <<ledgerVars, entries, pass, familyVars, restored, history,
                   rearm, restarts, mishap>>

Replay(i) ==
    /\ ingest[i].pc = "replay"
    /\ Publish
    /\ ingest' = [ingest EXCEPT
           ![i].pc = "retain",
           ![i].names = {s \in Symbols : ledger[s] # "absent"}]
    /\ UNCHANGED <<ledgerVars, entries, pass, familyVars, restored, history,
                   rearm, restarts, mishap>>

(* The replay raises: the previous snapshot stays, and is reconciled. *)
ReplayFails(i) ==
    /\ "replay" \in Faults
    /\ ingest[i].pc = "replay"
    /\ ingest' = [ingest EXCEPT ![i].pc = "held"]
    /\ UNCHANGED <<aroundIngest, entries, familyVars, restored, history,
                   mishap>>

(* RuntimeRecorder.retain: the records of the symbols the replay named. *)
Retain(i) ==
    LET lost == Symbols \ ingest[i].names
    IN  /\ ingest[i].pc = "retain"
        /\ ingest' = [ingest EXCEPT ![i].pc = "held", ![i].names = {}]
        /\ record' = [s \in Symbols |->
               IF s \in lost THEN "none" ELSE record[s]]
        /\ history' = [s \in Symbols |->
               IF s \in lost /\ "track" \in history[s] THEN {} ELSE history[s]]
        /\ UNCHANGED <<aroundIngest, entries, failures, restored, mishap>>

(* reconcile_jobs reads the held symbols, ... *)
ReadHeld(i) ==
    /\ ingest[i].pc = "held"
    /\ ingest' = [ingest EXCEPT ![i].pc = "scheduled", ![i].held = Held]
    /\ UNCHANGED <<aroundIngest, entries, familyVars, restored, history,
                   mishap>>

(* ... then the scheduled ones, and has its three loops. *)
ReadScheduled(i) ==
    LET held == ingest[i].held
    IN  /\ ingest[i].pc = "scheduled"
        /\ ingest' = [ingest EXCEPT
               ![i].pc = "reconcile",
               ![i].held = {},
               ![i].drop = {s \in Symbols : restored[s] # "none"} \ held,
               ![i].arm = held \ Scheduled,
               ![i].remove = Scheduled \ held]
        /\ UNCHANGED <<aroundIngest, entries, familyVars, restored, history,
                       mishap>>

(* Either read raises: this reconciliation is abandoned. *)
ReadFails(i) ==
    /\ "read" \in Faults
    /\ ingest[i].pc \in {"held", "scheduled"}
    /\ ingest' = [ingest EXCEPT ![i] = Idle]
    /\ Blame(Symbols \ Scheduled, "raised")
    /\ UNCHANGED <<aroundIngest, entries, familyVars, restored, history>>

(* The failure count popped and RuntimeRecorder.forget_scrape. *)
ForgetSymbol(s) ==
    /\ failures' = [failures EXCEPT ![s] = 0]
    /\ record' = [record EXCEPT ![s] = "none"]
    /\ history' = [history EXCEPT ![s] = {}]

(* First loop: a stored arming of a symbol no longer held is dropped. *)
DropRestored(i, s) ==
    /\ ingest[i].pc = "reconcile"
    /\ s \in ingest[i].drop
    /\ ingest' = [ingest EXCEPT ![i].drop = @ \ {s}]
    /\ restored' = [restored EXCEPT ![s] = "none"]
    /\ ForgetSymbol(s)
    /\ Blame({s} \cap Held, "stale")
    /\ UNCHANGED <<aroundIngest, entries>>

(* arm_symbol's add_job: it replaces the entry, whatever its delay was. *)
AddEntry(s, delay) ==
    /\ entries' = [entries EXCEPT ![s] = delay]
    /\ mishap' = [mishap EXCEPT ![s] = "none"]

Arming(i, s) ==
    /\ ingest[i].pc = "reconcile"
    /\ ingest[i].drop = {} /\ ingest[i].noting = {}
    /\ s \in ingest[i].arm

(* Mutant: the stored arming of a paused symbol is used up by one look. *)
SkipPausedOnce(i, s) ==
    /\ Arming(i, s)
    /\ restored[s] = "paused"
    /\ restored' = [restored EXCEPT ![s] = "none"]
    /\ ingest' = [ingest EXCEPT ![i].arm = @ \ {s}]
    /\ UNCHANGED <<aroundIngest, entries, familyVars, history, mishap>>

(* boot_delay: the stored arming of a paused symbol keeps it out. *)
SkipPaused(i, s) ==
    /\ Arming(i, s)
    /\ restored[s] = "paused"
    /\ ingest' = [ingest EXCEPT ![i].arm = @ \ {s}]
    /\ UNCHANGED <<aroundIngest, entries, familyVars, restored, history,
                   mishap>>

(* Second loop: a held symbol without an entry gets one, at once or when   *)
(* its stored arming said.                                                 *)
Arm(i, s) ==
    /\ Arming(i, s)
    /\ restored[s] # "paused"
    /\ restored' = [restored EXCEPT ![s] = "none"]
    /\ AddEntry(s, IF restored[s] = "ahead" THEN "later" ELSE "soon")
    /\ ingest' = [ingest EXCEPT ![i].arm = @ \ {s}, ![i].noting = {s}]
    /\ UNCHANGED <<aroundIngest, familyVars, history>>

(* The arming raises: logged, and the loop goes on. *)
ArmFails(i, s) ==
    /\ "arm" \in Faults
    /\ Arming(i, s)
    /\ restored[s] # "paused"
    /\ restored' = [restored EXCEPT ![s] = "none"]
    /\ Blame({s}, "raised")
    /\ ingest' = [ingest EXCEPT ![i].arm = @ \ {s}]
    /\ UNCHANGED <<aroundIngest, entries, familyVars, history>>

(* arm_symbol's end: JobHistory.schedule. *)
NoteArming(s) == history' = [history EXCEPT ![s] = @ \cup {"arming"}]

Note(i, s) ==
    /\ s \in ingest[i].noting
    /\ NoteArming(s)
    /\ ingest' = [ingest EXCEPT ![i].noting = {}]
    /\ UNCHANGED <<aroundIngest, entries, familyVars, restored, mishap>>

(* Third loop: an entry of a symbol not held is removed; a symbol that     *)
(* lost its entry meanwhile is cleaned up all the same.                    *)
Remove(i, s) ==
    /\ ingest[i].pc = "reconcile"
    /\ ingest[i].drop = {} /\ ingest[i].arm = {} /\ ingest[i].noting = {}
    /\ s \in ingest[i].remove
    /\ ingest' = [ingest EXCEPT ![i].remove = @ \ {s}]
    /\ entries' = [entries EXCEPT ![s] = "none"]
    /\ ForgetSymbol(s)
    /\ Blame({s} \cap Held, "stale")
    /\ UNCHANGED <<aroundIngest, restored>>

Finish(i) ==
    /\ ingest[i] = [Idle EXCEPT !.pc = "reconcile"]
    /\ ingest' = [ingest EXCEPT ![i] = Idle]
    /\ UNCHANGED <<aroundIngest, entries, familyVars, restored, history,
                   mishap>>

Reconcile(i, s) ==
    \/ DropRestored(i, s) \/ SkipPaused(i, s) \/ Arm(i, s) \/ ArmFails(i, s)
    \/ Note(i, s) \/ Remove(i, s)

IngestStep(i) ==
    \/ Replay(i) \/ ReplayFails(i) \/ Retain(i)
    \/ ReadHeld(i) \/ ReadScheduled(i) \/ ReadFails(i)
    \/ \E s \in Symbols : Reconcile(i, s)
    \/ Finish(i)

-----------------------------------------------------------------------------
(* The cadence changes: rearm_regular_scrapes *)

(* It reads the held symbols, the armed ones and their last record, and    *)
(* keeps those whose entry waits a poll interval: armed, last pass open.   *)
BeginRearm ==
    /\ DialTurns
    /\ ~Booting
    /\ rearm.pc = "idle"
    /\ rearm' = [QuietDial EXCEPT
                    !.pc = "arm",
                    !.todo = {s \in Held \cap Scheduled : record[s] = "open"}]
    /\ UNCHANGED <<aroundRearm, entries, history, mishap>>

RearmOne(s) ==
    /\ rearm.noting = {}
    /\ s \in rearm.todo
    /\ AddEntry(s, "later")
    /\ rearm' = [rearm EXCEPT !.todo = @ \ {s}, !.noting = {s}]
    /\ UNCHANGED <<aroundRearm, history>>

(* The arming raises: the entry it would have replaced stays as it is.     *)
RearmOneFails(s) ==
    /\ "arm" \in Faults
    /\ rearm.noting = {}
    /\ s \in rearm.todo
    /\ rearm' = [rearm EXCEPT !.todo = @ \ {s}]
    /\ UNCHANGED <<aroundRearm, entries, history, mishap>>

RearmNote(s) ==
    /\ s \in rearm.noting
    /\ NoteArming(s)
    /\ rearm' = [rearm EXCEPT !.noting = {}]
    /\ UNCHANGED <<aroundRearm, entries, mishap>>

EndRearm ==
    /\ rearm = [QuietDial EXCEPT !.pc = "arm"]
    /\ rearm' = QuietDial
    /\ UNCHANGED <<aroundRearm, entries, history, mishap>>

RearmStep ==
    \/ \E s \in Symbols : RearmOne(s) \/ RearmOneFails(s) \/ RearmNote(s)
    \/ EndRearm

-----------------------------------------------------------------------------
(* The pass: JobFamily.__call__ around scrape_symbol *)

(***************************************************************************)
(* The scheduler fires an entry (external).  The entry leaves the job      *)
(* store; with an instance still running, max_instances=1 skips the run.   *)
(* An entry a poll interval away does not fall due in the few instructions *)
(* a pass has left once it has armed itself.                               *)
(***************************************************************************)
Fire(s) ==
    /\ ~Booting
    /\ entries[s] # "none"
    /\ entries[s] = "later" => pass[s] \notin {"note", "end", "ended", "forget"}
    /\ entries' = [entries EXCEPT ![s] = "none"]
    /\ IF pass[s] = "idle"
       THEN /\ pass' = [pass EXCEPT ![s] = "fetch"]
            /\ UNCHANGED mishap
       ELSE /\ Blame({s}, "skipped")
            /\ UNCHANGED pass
    /\ UNCHANGED <<aroundPass, familyVars, history>>

GoTo(s, from, to) ==
    /\ pass[s] = from
    /\ pass' = [pass EXCEPT ![s] = to]

(***************************************************************************)
(* scheduling.decide and the persistence of the count, under               *)
(* failure_counts_lock: a closed market keeps the count, a price resets    *)
(* it, no price adds one; a symbol no longer held keeps none.              *)
(***************************************************************************)
Decided(s, outcome) ==
    IF s \notin Held THEN 0
    ELSE CASE outcome = "closed" -> failures[s]
           [] outcome = "price" -> 0
           [] outcome = "failed" -> failures[s] + 1

Decide(s, outcome) ==
    /\ outcome = "failed" => failures[s] < MaxFailures
    /\ GoTo(s, "fetch", IF outcome = "closed" THEN "closed" ELSE "open")
    /\ failures' = [failures EXCEPT ![s] = Decided(s, outcome)]
    /\ UNCHANGED <<aroundPass, entries, record, history, mishap>>

(* record_scrape, with what was decided, ... *)
RecordScrape(s) ==
    /\ pass[s] \in {"open", "closed"}
    /\ pass' = [pass EXCEPT ![s] = "finally"]
    /\ record' = [record EXCEPT ![s] = pass[s]]
    /\ UNCHANGED <<aroundPass, entries, failures, history, mishap>>

(* ... or with the exception that ended the pass before it decided. *)
PassRaises(s) ==
    /\ GoTo(s, "fetch", "finally")
    /\ record' = [record EXCEPT ![s] = "open"]
    /\ UNCHANGED <<aroundPass, entries, failures, history, mishap>>

(* Mutant: a read that raises ends the pass without re-arming it. *)
StillHeldOrRaised(s) ==
    /\ \/ GoTo(s, "finally", IF s \in Held THEN "arm" ELSE "end")
       \/ "read" \in Faults /\ GoTo(s, "finally", "end")
    /\ UNCHANGED <<aroundPass, entries, familyVars, history, mishap>>

(* Mutant: the pass re-arms without looking at the ledger again. *)
StillHeldUnread(s) ==
    /\ GoTo(s, "finally", "arm")
    /\ UNCHANGED <<aroundPass, entries, familyVars, history, mishap>>

(* The finally clause: still held?  A read that raises counts as held. *)
StillHeld(s) ==
    /\ \/ GoTo(s, "finally", IF s \in Held THEN "arm" ELSE "end")
       \/ "read" \in Faults /\ GoTo(s, "finally", "arm")
    /\ UNCHANGED <<aroundPass, entries, familyVars, history, mishap>>

(* arm_symbol: after the poll interval or more, unless the market was      *)
(* closed and is about to open.                                            *)
ArmSelf(s, delay) ==
    /\ delay = "soon" => record[s] # "open"
    /\ GoTo(s, "arm", "note")
    /\ AddEntry(s, delay)
    /\ UNCHANGED <<aroundPass, familyVars, history>>

(* "it leaves the rotation until the next reconcile" *)
ArmSelfFails(s) ==
    /\ "arm" \in Faults
    /\ GoTo(s, "arm", "end")
    /\ Blame({s} \ Scheduled, "raised")
    /\ UNCHANGED <<aroundPass, entries, familyVars, history>>

NoteSelf(s) ==
    /\ GoTo(s, "note", "end")
    /\ NoteArming(s)
    /\ UNCHANGED <<aroundPass, entries, familyVars, mishap>>

(* timed's finally: JobHistory.record. *)
EndPass(s) ==
    /\ GoTo(s, "end", "ended")
    /\ history' = [history EXCEPT ![s] = @ \cup {"track"}]
    /\ UNCHANGED <<aroundPass, entries, familyVars, mishap>>

(* Mutant: nothing is forgotten after the pass. *)
CheckNoMember(s) ==
    /\ GoTo(s, "ended", "idle")
    /\ UNCHANGED <<aroundPass, entries, familyVars, history, mishap>>

(* JobFamily.__call__: a member that left meanwhile is forgotten again;    *)
(* a members() that raises leaves it.                                      *)
CheckMember(s) ==
    /\ \/ /\ GoTo(s, "ended", IF s \in Held THEN "idle" ELSE "forget")
          /\ UNCHANGED mishap
       \/ /\ "read" \in Faults
          /\ GoTo(s, "ended", "idle")
          /\ Blame({s} \ (Held \cup Scheduled), "raised")
    /\ UNCHANGED <<aroundPass, entries, familyVars, history>>

ForgetMember(s) ==
    /\ GoTo(s, "forget", "idle")
    /\ history' = [history EXCEPT ![s] = {}]
    /\ UNCHANGED <<aroundPass, entries, familyVars, mishap>>

PassStep(s) ==
    \/ \E outcome \in {"closed", "price", "failed"} : Decide(s, outcome)
    \/ RecordScrape(s) \/ PassRaises(s)
    \/ \E delay \in {"soon", "later"} : ArmSelf(s, delay)
    \/ StillHeld(s) \/ ArmSelfFails(s) \/ NoteSelf(s)
    \/ EndPass(s) \/ CheckMember(s) \/ ForgetMember(s)

-----------------------------------------------------------------------------
(* The process dies and boots: the snapshot is replayed, the stored        *)
(* armings of the held symbols are taken, the ingestion of the boot is     *)
(* next.  What the store kept of each symbol is any of what it could keep. *)
Restart(stored, counts) ==
    /\ restarts < MaxRestarts
    /\ restarts' = restarts + 1
    /\ \A s \in Symbols : ledger[s] # "held" => stored[s] = "none"
    /\ \A s \in Symbols : stored[s] = "none" => counts[s] = 0
    /\ published' = ledger
    /\ entries' = [s \in Symbols |-> "none"]
    /\ pass' = [s \in Symbols |-> "idle"]
    /\ restored' = stored
    /\ failures' = counts
    /\ record' = [s \in Symbols |-> "none"]
    /\ history' = [s \in Symbols |->
                      IF stored[s] = "none" THEN {} ELSE {"track"}]
    /\ ingest' = [i \in Ingests |->
                     IF i = "boot" THEN [Idle EXCEPT !.pc = "replay"] ELSE Idle]
    /\ rearm' = QuietDial
    /\ mishap' = [s \in Symbols |-> "none"]
    /\ paused' = {s \in Symbols : stored[s] = "paused"} /\ unarmed' = {}
    /\ UNCHANGED ledgerVars

Next ==
    \/ \E w \in Writers, s \in Symbols, status \in Statuses : Write(w, s, status)
    \/ DayTurn
    \/ Reload
    \/ \E i \in Ingests : IngestStep(i)
    \/ BeginRearm
    \/ RearmStep
    \/ \E s \in Symbols : Fire(s) \/ PassStep(s)
    \/ \E stored \in [Symbols -> Armings],
          counts \in [Symbols -> 0 .. MaxFailures] : Restart(stored, counts)

Spec == Init /\ [][Next]_vars

(***************************************************************************)
(* The scheduler fires what it holds, threads run to their end, midnight   *)
(* comes every day, and neither its replay nor its armings raise for ever. *)
(***************************************************************************)
Fairness ==
    /\ WF_vars(DayTurn)
    /\ \A i \in Ingests : WF_vars(IngestStep(i))
    /\ SF_vars(Replay("day"))
    /\ \A s \in Symbols : /\ SF_vars(Arm("day", s))
                          /\ WF_vars(Fire(s)) /\ WF_vars(PassStep(s))

FairSpec == Spec /\ Fairness

-----------------------------------------------------------------------------
(* How far an ingestion, and a cadence change, may be. *)
Progresses ==
    [pc : {"idle", "replay", "retain", "held", "scheduled", "reconcile"},
     names : SUBSET Symbols, held : SUBSET Symbols, drop : SUBSET Symbols,
     arm : SUBSET Symbols, remove : SUBSET Symbols, noting : SUBSET Symbols]

DialProgresses ==
    [pc : {"idle", "arm"}, todo : SUBSET Symbols, noting : SUBSET Symbols]

(* Every variable has its type: in particular a reconciliation only ever   *)
(* touches the scrape's own entries, whatever else the scheduler runs.     *)
TypeOK ==
    /\ ledger \in [Symbols -> Statuses] /\ published \in [Symbols -> Statuses]
    /\ entries \in [Symbols -> {"none", "soon", "later"}]
    /\ pass \in [Symbols -> {"idle", "fetch", "open", "closed", "finally",
                             "arm", "note", "end", "ended", "forget"}]
    /\ failures \in [Symbols -> 0 .. MaxFailures]
    /\ restored \in [Symbols -> Armings]
    /\ record \in [Symbols -> {"none", "open", "closed"}]
    /\ history \in [Symbols -> SUBSET {"track", "arming"}]
    /\ ingest \in [Ingests -> Progresses] /\ rearm \in DialProgresses
    /\ writes \in 0 .. MaxWrites /\ restarts \in 0 .. MaxRestarts
    /\ mishap \in [Symbols -> Mishaps]
    /\ paused \subseteq Symbols /\ unarmed \subseteq Symbols

(* No ingestion is under way. *)
Quiet == \A i \in Ingests : ingest[i].pc = "idle"

(***************************************************************************)
(* A held symbol leaves the rotation through a mishap only: an arming or a *)
(* read that raised, an entry skipped because its symbol was still being   *)
(* scraped, an entry or a stored arming dropped by an ingestion that had   *)
(* read the ledger before the symbol was bought back, a snapshot published *)
(* by a job that does not reconcile.  Selling, buying back, failing or     *)
(* re-cadencing while a pass runs never loses it by itself.                *)
(***************************************************************************)
RotationKept ==
    Quiet => \A s \in Held : \/ InRotation(s)
                             \/ restored[s] = "paused"
                             \/ mishap[s] # "none"

(***************************************************************************)
(* A symbol the boot found paused stays out of the rotation until it is    *)
(* sold, through any number of reconciliations and cadence changes.        *)
(***************************************************************************)
PausedStaysOut ==
    \A s \in paused : entries[s] = "none" /\ pass[s] = "idle"

(***************************************************************************)
(* A symbol the ledger goes on holding is scraped again and again, however *)
(* its entry was lost: the turn of the day re-arms what is missing.        *)
(***************************************************************************)
HeldIsScraped ==
    \A s \in Symbols :
        <>[](ledger[s] = "held" /\ restored[s] # "paused")
            => []<>(pass[s] = "fetch")

(***************************************************************************)
(* "When a position closes, its job leaves": once the ledger no longer     *)
(* holds a symbol, its passes and its entry end for good, even those armed *)
(* by a thread that still believed it held.                                *)
(***************************************************************************)
DepartedLeaves ==
    \A s \in Symbols :
        <>[](ledger[s] # "held")
            => <>[](entries[s] = "none" /\ pass[s] = "idle")

(* What the departure of a symbol should leave behind it, once no thread   *)
(* is at work on it.                                                       *)
Gone(s) == Quiet /\ rearm.pc = "idle" /\ pass[s] = "idle"
               /\ ledger[s] # "held" /\ published[s] # "held"

(***************************************************************************)
(* A symbol sold while it was in the rotation leaves no passes in the job  *)
(* history, not even those of the pass that was running then: whichever of *)
(* the pass and the reconciliation comes last forgets them.  The history   *)
(* it had is kept when nothing of it is left to remove: a symbol bought    *)
(* back while its last pass was ending and sold again before it was armed, *)
(* or a membership that could not be read at the end of the pass.          *)
(***************************************************************************)
SoldLeavesNoTrack ==
    \A s \in Symbols \ (Held \cup unarmed) :
        OutOfRotation(s) /\ mishap[s] = "none" => "track" \notin history[s]

(* "Failure state must not survive symbol removal (per-job lifetime)."     *)
FailureStateGone == \A s \in Symbols : Gone(s) => failures[s] = 0

(* "Buying back re-arms the job", with nothing to unset: with nothing      *)
(* raising, a held symbol is in the rotation once every ingestion is over  *)
(* (but for the run the scheduler skipped).                                *)
HeldInRotation ==
    Quiet => \A s \in Held : \/ InRotation(s)
                             \/ restored[s] = "paused"
                             \/ mishap[s] = "skipped"
=============================================================================

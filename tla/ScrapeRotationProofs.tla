------------------------ MODULE ScrapeRotationProofs ------------------------
(***************************************************************************)
(* What holds of the scrape's rotation for every set of symbols and of     *)
(* writers, every fault and every number of writes and of restarts.        *)
(***************************************************************************)
EXTENDS ScrapeRotation, TLAPS

-----------------------------------------------------------------------------
(* Types *)

(* What blames some symbols for what they lost is a cause per symbol. *)
LEMMA BlameType ==
    ASSUME TypeOK, NEW S, NEW cause \in Mishaps, Blame(S, cause)
    PROVE  mishap' \in [Symbols -> Mishaps]
BY DEF TypeOK, Blame

(* What is left of a symbol that is forgotten is well typed. *)
LEMMA ForgetType ==
    ASSUME TypeOK, NEW s \in Symbols, ForgetSymbol(s)
    PROVE  /\ failures' \in [Symbols -> 0 .. MaxFailures]
           /\ record' \in [Symbols -> {"none", "open", "closed"}]
           /\ history' \in [Symbols -> SUBSET {"track", "arming"}]
BY BoundsAssumption DEF TypeOK, ForgetSymbol

(* The initial state is well typed. *)
LEMMA InitType == Init => TypeOK
<1> SUFFICES ASSUME Init
             PROVE  TypeOK
  OBVIOUS
<1>1. ingest \in [Ingests -> Progresses]
  BY DEF Init, Idle, Progresses
<1>2. rearm \in DialProgresses
  BY DEF Init, QuietDial, DialProgresses
<1>3. /\ restored \in [Symbols -> Armings]
      /\ history \in [Symbols -> SUBSET {"track", "arming"}]
      /\ failures \in [Symbols -> 0 .. MaxFailures]
      /\ paused \subseteq Symbols /\ unarmed \subseteq Symbols
  BY DEF Init
<1>4. writes \in 0 .. MaxWrites /\ restarts \in 0 .. MaxRestarts
  BY BoundsAssumption DEF Init
<1>5. mishap \in [Symbols -> Mishaps]
  BY DEF Init, Mishaps
<1> QED
  BY <1>1, <1>2, <1>3, <1>4, <1>5 DEF Init, TypeOK

(* The ledger moves, and an ingestion begins. *)
LEMMA BeginType ==
    ASSUME TypeOK, NEW i \in Ingests, Begin(i),
           \/ UNCHANGED ledgerVars
           \/ \E s \in Symbols, status \in Statuses : MoveLedger(s, status)
    PROVE  TypeOK'
<1>1. ledger' \in [Symbols -> Statuses] /\ writes' \in 0 .. MaxWrites
  BY BoundsAssumption DEF TypeOK, ledgerVars, MoveLedger
<1>2. ingest' \in [Ingests -> Progresses]
  <2>1. ingest \in [Ingests -> Progresses]
    BY DEF TypeOK
  <2>2. ingest' = [ingest EXCEPT ![i].pc = "replay"]
    BY DEF Begin
  <2> QED
    BY <2>1, <2>2 DEF Progresses
<1> QED
  BY <1>1, <1>2 DEF TypeOK, Begin, snapshotVars, familyVars

(* A step of an ingestion moves the progress of this one ingestion. *)
LEMMA ProgressType ==
    ASSUME ingest \in [Ingests -> Progresses], NEW i \in Ingests, IngestStep(i)
    PROVE  ingest' \in [Ingests -> Progresses]
<1> USE DEF Progresses
<1>0. ASSUME NEW next \in Progresses, ingest' = [ingest EXCEPT ![i] = next]
      PROVE  ingest' \in [Ingests -> Progresses]
  BY <1>0
<1>1. CASE Replay(i)
  <2> DEFINE names == {s \in Symbols : ledger[s] # "absent"}
             next == [ingest[i] EXCEPT !.pc = "retain", !.names = names]
  <2>1. names \in SUBSET Symbols
    OBVIOUS
  <2>2. ingest' = [ingest EXCEPT ![i] = next]
    BY <1>1 DEF Replay
  <2> HIDE DEF names
  <2>3. next \in Progresses
    BY <2>1
  <2> QED
    BY <1>0, <2>2, <2>3
<1>2. CASE ReplayFails(i)
  BY <1>2 DEF ReplayFails
<1>3. CASE Retain(i)
  <2> DEFINE next == [ingest[i] EXCEPT !.pc = "held", !.names = {}]
  <2>1. ingest' = [ingest EXCEPT ![i] = next]
    BY <1>3 DEF Retain
  <2>2. next \in Progresses
    OBVIOUS
  <2> QED
    BY <1>0, <2>1, <2>2
<1>4. CASE ReadHeld(i)
  <2> DEFINE next == [ingest[i] EXCEPT !.pc = "scheduled", !.held = Held]
  <2>1. Held \in SUBSET Symbols
    BY DEF Held
  <2>2. ingest' = [ingest EXCEPT ![i] = next]
    BY <1>4 DEF ReadHeld
  <2>3. next \in Progresses
    BY <2>1
  <2> QED
    BY <1>0, <2>2, <2>3
<1>5. CASE ReadScheduled(i)
  <2> DEFINE held == ingest[i].held
             missing == {s \in Symbols : restored[s] # "none"} \ held
             late == Scheduled \ held
             next == [ingest[i] EXCEPT
                 !.pc = "reconcile", !.held = {}, !.drop = missing,
                 !.arm = held \ Scheduled, !.remove = late]
  <2>1. /\ missing \in SUBSET Symbols /\ late \in SUBSET Symbols
        /\ held \ Scheduled \in SUBSET Symbols
    BY DEF Scheduled
  <2>2. ingest' = [ingest EXCEPT ![i] = next]
    BY <1>5 DEF ReadScheduled
  <2> HIDE DEF missing, late
  <2>3. next \in Progresses
    BY <2>1
  <2> QED
    BY <1>0, <2>2, <2>3
<1>6. CASE ReadFails(i) \/ Finish(i)
  BY <1>6 DEF ReadFails, Finish, Idle
<1>7. ASSUME NEW s \in Symbols, Reconcile(i, s)
      PROVE  ingest' \in [Ingests -> Progresses]
  BY <1>7 DEF Reconcile, DropRestored, SkipPaused, Arm, ArmFails, Note, Remove
<1> QED
  BY <1>1, <1>2, <1>3, <1>4, <1>5, <1>6, <1>7 DEF IngestStep

(* A step of an ingestion keeps the types. *)
LEMMA IngestStepType ==
    ASSUME TypeOK, NEW i \in Ingests, IngestStep(i)
    PROVE  TypeOK'
<1>0. ingest' \in [Ingests -> Progresses]
  BY ProgressType DEF TypeOK
<1> USE <1>0 DEF TypeOK, aroundIngest, ledgerVars, snapshotVars, familyVars
<1>1. CASE Replay(i)
  BY <1>1 DEF Replay, Publish
<1>2. CASE ReplayFails(i)
  BY <1>2 DEF ReplayFails
<1>3. CASE Retain(i)
  BY <1>3 DEF Retain
<1>4. CASE ReadHeld(i)
  BY <1>4 DEF ReadHeld
<1>5. CASE ReadScheduled(i)
  BY <1>5 DEF ReadScheduled
<1>6. CASE ReadFails(i)
  BY <1>6, BlameType DEF ReadFails, Mishaps
<1>7. ASSUME NEW s \in Symbols, DropRestored(i, s)
      PROVE  TypeOK'
  <2>1. mishap' \in [Symbols -> Mishaps]
    BY <1>7, BlameType DEF DropRestored, Mishaps
  <2>2. ForgetSymbol(s)
    BY <1>7 DEF DropRestored
  <2> QED
    BY <1>7, <2>1, <2>2, ForgetType, ArmingsAssumption DEF DropRestored
<1>8. ASSUME NEW s \in Symbols, SkipPaused(i, s) \/ Note(i, s)
      PROVE  TypeOK'
  BY <1>8 DEF SkipPaused, Note, NoteArming
<1>9. ASSUME NEW s \in Symbols, Arm(i, s)
      PROVE  TypeOK'
  BY <1>9, ArmingsAssumption DEF Arm, AddEntry, Mishaps
<1>10. ASSUME NEW s \in Symbols, ArmFails(i, s)
       PROVE  TypeOK'
  <2>1. mishap' \in [Symbols -> Mishaps]
    BY <1>10, BlameType DEF ArmFails, Mishaps
  <2> QED
    BY <1>10, <2>1, ArmingsAssumption DEF ArmFails
<1>11. ASSUME NEW s \in Symbols, Remove(i, s)
       PROVE  TypeOK'
  <2>1. mishap' \in [Symbols -> Mishaps]
    BY <1>11, BlameType DEF Remove, Mishaps
  <2>2. ForgetSymbol(s)
    BY <1>11 DEF Remove
  <2> QED
    BY <1>11, <2>1, <2>2, ForgetType DEF Remove
<1>12. CASE Finish(i)
  BY <1>12 DEF Finish
<1> QED
  BY <1>1, <1>2, <1>3, <1>4, <1>5, <1>6, <1>7, <1>8, <1>9, <1>10, <1>11,
     <1>12
  DEF IngestStep, Reconcile

(* A step of a cadence change keeps the types. *)
LEMMA RearmStepType ==
    ASSUME TypeOK, BeginRearm \/ RearmStep
    PROVE  TypeOK'
<1>0. rearm' \in DialProgresses
  <2>1. rearm \in DialProgresses
    BY DEF TypeOK
  <2> USE <2>1 DEF DialProgresses, QuietDial
  <2>2. CASE BeginRearm
    BY <2>2 DEF BeginRearm, Held, Scheduled
  <2>3. CASE EndRearm
    BY <2>3 DEF EndRearm
  <2>4. ASSUME NEW s \in Symbols, RearmOne(s)
        PROVE  rearm' \in DialProgresses
    BY <2>4 DEF RearmOne
  <2>5. ASSUME NEW s \in Symbols, RearmOneFails(s) \/ RearmNote(s)
        PROVE  rearm' \in DialProgresses
    BY <2>5 DEF RearmOneFails, RearmNote
  <2> QED
    BY <2>2, <2>3, <2>4, <2>5 DEF RearmStep
<1> USE <1>0 DEF TypeOK, aroundRearm, ledgerVars, snapshotVars, familyVars
<1>1. CASE BeginRearm
  BY <1>1 DEF BeginRearm
<1>2. ASSUME NEW s \in Symbols, RearmOne(s)
      PROVE  TypeOK'
  BY <1>2 DEF RearmOne, AddEntry, Mishaps
<1>3. ASSUME NEW s \in Symbols, RearmOneFails(s)
      PROVE  TypeOK'
  BY <1>3 DEF RearmOneFails
<1>4. ASSUME NEW s \in Symbols, RearmNote(s)
      PROVE  TypeOK'
  BY <1>4 DEF RearmNote, NoteArming
<1>5. CASE EndRearm
  BY <1>5 DEF EndRearm
<1> QED
  BY <1>1, <1>2, <1>3, <1>4, <1>5 DEF RearmStep

(* The scheduler firing an entry, and a step of a pass, keep the types. *)
LEMMA PassStepType ==
    ASSUME TypeOK, NEW s \in Symbols, Fire(s) \/ PassStep(s)
    PROVE  TypeOK'
<1> USE DEF TypeOK, aroundPass, ledgerVars, snapshotVars, familyVars, GoTo
<1>1. CASE Fire(s)
  BY <1>1 DEF Fire, Blame, Mishaps
<1>2. ASSUME NEW outcome \in {"closed", "price", "failed"}, Decide(s, outcome)
      PROVE  TypeOK'
  <2>1. Decided(s, outcome) \in 0 .. MaxFailures
    BY <1>2, BoundsAssumption DEF Decide, Decided
  <2> QED
    BY <1>2, <2>1 DEF Decide
<1>3. CASE RecordScrape(s)
  BY <1>3 DEF RecordScrape
<1>4. CASE PassRaises(s)
  BY <1>4 DEF PassRaises
<1>5. ASSUME NEW delay \in {"soon", "later"}, ArmSelf(s, delay)
      PROVE  TypeOK'
  BY <1>5 DEF ArmSelf, AddEntry, Mishaps
<1>6. CASE StillHeld(s)
  BY <1>6 DEF StillHeld
<1>7. CASE ArmSelfFails(s)
  BY <1>7, BlameType DEF ArmSelfFails, Mishaps
<1>8. CASE NoteSelf(s)
  BY <1>8 DEF NoteSelf, NoteArming
<1>9. CASE EndPass(s)
  BY <1>9 DEF EndPass
<1>10. CASE CheckMember(s)
  BY <1>10, BlameType DEF CheckMember, Mishaps
<1>11. CASE ForgetMember(s)
  BY <1>11 DEF ForgetMember
<1> QED
  BY <1>1, <1>2, <1>3, <1>4, <1>5, <1>6, <1>7, <1>8, <1>9, <1>10, <1>11
  DEF PassStep

(* Every action keeps the types. *)
LEMMA StepType == TypeOK /\ [Next]_vars => TypeOK'
<1> SUFFICES ASSUME TypeOK, [Next]_vars
             PROVE  TypeOK'
  OBVIOUS
<1>1. ASSUME NEW w \in Writers, NEW s \in Symbols, NEW status \in Statuses,
             Write(w, s, status)
      PROVE  TypeOK'
  BY <1>1, BeginType DEF Write, Ingests
<1>2. CASE DayTurn
  BY <1>2, BeginType DEF DayTurn, Ingests
<1>3. CASE Reload
  BY <1>3, BlameType
  DEF Reload, Publish, TypeOK, ledgerVars, familyVars, Mishaps
<1>4. ASSUME NEW i \in Ingests, IngestStep(i)
      PROVE  TypeOK'
  BY <1>4, IngestStepType
<1>5. CASE BeginRearm \/ RearmStep
  BY <1>5, RearmStepType
<1>6. ASSUME NEW s \in Symbols, Fire(s) \/ PassStep(s)
      PROVE  TypeOK'
  BY <1>6, PassStepType
<1>7. ASSUME NEW stored \in [Symbols -> Armings],
             NEW counts \in [Symbols -> 0 .. MaxFailures],
             Restart(stored, counts)
      PROVE  TypeOK'
  <2>1. ingest' \in [Ingests -> Progresses]
    BY <1>7 DEF Restart, Idle, Progresses
  <2>2. restarts' \in 0 .. MaxRestarts
    BY <1>7, BoundsAssumption DEF Restart, TypeOK
  <2>3. rearm' \in DialProgresses
    BY <1>7 DEF Restart, QuietDial, DialProgresses
  <2> QED
    BY <1>7, <2>1, <2>2, <2>3
    DEF Restart, TypeOK, ledgerVars, Mishaps
<1>8. CASE UNCHANGED vars
  BY <1>8 DEF vars, TypeOK
<1> QED
  BY <1>1, <1>2, <1>3, <1>4, <1>5, <1>6, <1>7, <1>8 DEF Next

(***************************************************************************)
(* Every variable keeps its type: whatever else the scheduler runs, a      *)
(* reconciliation reads, arms and removes the scrape's own entries only    *)
(* (scrape.py, scheduled_symbols), and no count passes its bound.          *)
(***************************************************************************)
THEOREM RotationTyped == Spec => []TypeOK
<1>1. Init => TypeOK
  BY InitType
<1>2. TypeOK /\ [Next]_vars => TypeOK'
  BY StepType
<1> QED
  BY <1>1, <1>2, PTL DEF Spec

-----------------------------------------------------------------------------
(* Symbols stored as paused *)

(* No thread is about to use up the stored arming of a paused symbol: no   *)
(* reconciliation is to drop it, and one that has read the held symbols    *)
(* has read this one among them.                                           *)
Spares(i, s) ==
    /\ s \notin ingest[i].drop
    /\ ingest[i].pc = "scheduled" => s \in ingest[i].held

PausedInv ==
    \A s \in paused :
        /\ published[s] = "held" /\ restored[s] = "paused"
        /\ entries[s] = "none" /\ pass[s] = "idle" /\ s \notin rearm.todo
        /\ \A i \in Ingests : Spares(i, s)

(* A paused symbol is a symbol the snapshot holds. *)
LEMMA PausedIsHeld ==
    ASSUME TypeOK, PausedInv, NEW t \in paused
    PROVE  t \in Held /\ t \in Symbols
BY DEF TypeOK, PausedInv, Held

(* Whatever an ingestion does, every ingestion goes on sparing a symbol    *)
(* that it spared and the snapshot holds.                                  *)
LEMMA SparesKept ==
    ASSUME TypeOK, NEW i \in Ingests, IngestStep(i),
           NEW t \in Held, restored[t] = "paused",
           NEW j \in Ingests, Spares(j, t)
    PROVE  Spares(j, t)'
<1>0. ingest \in [Ingests -> Progresses] /\ t \in Symbols
  BY DEF TypeOK, Held
<1> USE <1>0 DEF Spares, Progresses
<1>1. CASE Replay(i)
  BY <1>1 DEF Replay
<1>2. CASE ReplayFails(i)
  BY <1>2 DEF ReplayFails
<1>3. CASE Retain(i)
  BY <1>3 DEF Retain
<1>4. CASE ReadHeld(i)
  BY <1>4 DEF ReadHeld
<1>5. CASE ReadScheduled(i)
  <2>1. /\ i # j => ingest'[j] = ingest[j]
        /\ ingest'[i].pc = "reconcile"
    BY <1>5 DEF ReadScheduled
  <2>2. ingest'[i].drop = {s \in Symbols : restored[s] # "none"} \ ingest[i].held
    BY <1>5 DEF ReadScheduled
  <2>3. ingest[i].pc = "scheduled"
    BY <1>5 DEF ReadScheduled
  <2> QED
    BY <2>1, <2>2, <2>3
<1>6. CASE ReadFails(i) \/ Finish(i)
  BY <1>6 DEF ReadFails, Finish, Idle
<1>7. ASSUME NEW s \in Symbols, Reconcile(i, s)
      PROVE  Spares(j, t)'
  BY <1>7 DEF Reconcile, DropRestored, SkipPaused, Arm, ArmFails, Note, Remove
<1> QED
  BY <1>1, <1>2, <1>3, <1>4, <1>5, <1>6, <1>7 DEF IngestStep

(* A step of an ingestion keeps a paused symbol out. *)
LEMMA IngestStepPaused ==
    ASSUME TypeOK, PausedInv, NEW i \in Ingests, IngestStep(i)
    PROVE  PausedInv'
<1> SUFFICES ASSUME NEW t \in paused'
             PROVE  /\ published'[t] = "held" /\ restored'[t] = "paused"
                    /\ entries'[t] = "none" /\ pass'[t] = "idle"
                    /\ t \notin rearm'.todo
                    /\ \A j \in Ingests : Spares(j, t)'
  BY DEF PausedInv
<1>1. t \in paused
  BY DEF IngestStep, Reconcile, Replay, Publish, ReplayFails, Retain, ReadHeld,
         ReadScheduled, ReadFails, DropRestored, SkipPaused, Arm, ArmFails,
         Note, Remove, Finish, aroundIngest, snapshotVars
<1>2. t \in Held /\ t \in Symbols
  BY <1>1, PausedIsHeld
<1>3. /\ published[t] = "held" /\ restored[t] = "paused"
      /\ entries[t] = "none" /\ pass[t] = "idle" /\ t \notin rearm.todo
      /\ \A j \in Ingests : Spares(j, t)
  BY <1>1 DEF PausedInv
<1>4. pass' = pass /\ rearm' = rearm
  BY DEF IngestStep, Reconcile, Replay, ReplayFails, Retain, ReadHeld,
         ReadScheduled, ReadFails, DropRestored, SkipPaused, Arm, ArmFails,
         Note, Remove, Finish, aroundIngest
<1>5. \A j \in Ingests : Spares(j, t)'
  BY <1>2, <1>3, SparesKept
<1>6. published'[t] = "held"
  <2>1. CASE Replay(i)
    BY <2>1 DEF Replay, Publish
  <2>2. CASE ~Replay(i)
    <3>1. published' = published
      BY <2>2
      DEF IngestStep, Reconcile, ReplayFails, Retain, ReadHeld, ReadScheduled,
          ReadFails, DropRestored, SkipPaused, Arm, ArmFails, Note, Remove,
          Finish, aroundIngest, snapshotVars
    <3> QED
      BY <1>3, <3>1
  <2> QED
    BY <2>1, <2>2
<1>7. restored'[t] = "paused" /\ entries'[t] = "none"
  <2> USE <1>2, <1>3 DEF TypeOK
  <2>1. CASE Replay(i) \/ ReplayFails(i) \/ Retain(i) \/ ReadHeld(i)
                 \/ ReadScheduled(i) \/ ReadFails(i) \/ Finish(i)
    BY <2>1 DEF Replay, ReplayFails, Retain, ReadHeld, ReadScheduled,
                ReadFails, Finish
  <2>2. ASSUME NEW s \in Symbols, DropRestored(i, s)
        PROVE  restored'[t] = "paused" /\ entries'[t] = "none"
    BY <2>2 DEF DropRestored, Spares
  <2>3. ASSUME NEW s \in Symbols, SkipPaused(i, s) \/ Note(i, s)
        PROVE  restored'[t] = "paused" /\ entries'[t] = "none"
    BY <2>3 DEF SkipPaused, Note
  <2>4. ASSUME NEW s \in Symbols, Arm(i, s) \/ ArmFails(i, s)
        PROVE  restored'[t] = "paused" /\ entries'[t] = "none"
    BY <2>4 DEF Arm, ArmFails, AddEntry
  <2>5. ASSUME NEW s \in Symbols, Remove(i, s)
        PROVE  restored'[t] = "paused" /\ entries'[t] = "none"
    BY <2>5 DEF Remove
  <2> QED
    BY <2>1, <2>2, <2>3, <2>4, <2>5 DEF IngestStep, Reconcile
<1> QED
  BY <1>3, <1>4, <1>5, <1>6, <1>7

(* A cadence change, the scheduler and a pass leave a paused symbol alone. *)
LEMMA ThreadStepPaused ==
    ASSUME TypeOK, PausedInv,
           \/ BeginRearm \/ RearmStep
           \/ \E s \in Symbols : Fire(s) \/ PassStep(s)
    PROVE  PausedInv'
<1> SUFFICES ASSUME NEW t \in paused'
             PROVE  /\ published'[t] = "held" /\ restored'[t] = "paused"
                    /\ entries'[t] = "none" /\ pass'[t] = "idle"
                    /\ t \notin rearm'.todo
                    /\ \A j \in Ingests : Spares(j, t)'
  BY DEF PausedInv
<1>1. /\ paused' = paused /\ published' = published /\ restored' = restored
      /\ ingest' = ingest
  BY DEF BeginRearm, RearmStep, RearmOne, RearmOneFails, RearmNote, EndRearm,
         Fire, PassStep, Decide, RecordScrape, PassRaises, ArmSelf, StillHeld,
         ArmSelfFails, NoteSelf, EndPass, CheckMember, ForgetMember,
         aroundRearm, aroundPass, snapshotVars
<1>2. /\ published[t] = "held" /\ restored[t] = "paused"
      /\ entries[t] = "none" /\ pass[t] = "idle" /\ t \notin rearm.todo
      /\ \A j \in Ingests : Spares(j, t)
  BY <1>1 DEF PausedInv
<1>3. t \in Symbols
  BY <1>1 DEF TypeOK
<1>4. entries'[t] = "none" /\ pass'[t] = "idle" /\ t \notin rearm'.todo
  <2> USE <1>2, <1>3 DEF TypeOK, DialProgresses
  <2>1. CASE BeginRearm
    BY <2>1 DEF BeginRearm, Scheduled, aroundRearm, QuietDial
  <2>2. ASSUME NEW s \in Symbols,
               RearmOne(s) \/ RearmOneFails(s) \/ RearmNote(s)
        PROVE  entries'[t] = "none" /\ pass'[t] = "idle" /\ t \notin rearm'.todo
    <3>1. s = t => ~RearmOne(s)
      BY DEF RearmOne
    <3>2. entries'[t] = entries[t]
      BY <2>2, <3>1 DEF RearmOne, RearmOneFails, RearmNote, AddEntry
    <3>3. pass' = pass
      BY <2>2 DEF RearmOne, RearmOneFails, RearmNote, aroundRearm
    <3>4. rearm'.todo \subseteq rearm.todo
      <4>1. CASE RearmOne(s)
        BY <4>1 DEF RearmOne
      <4>2. CASE RearmOneFails(s)
        BY <4>2 DEF RearmOneFails
      <4>3. CASE RearmNote(s)
        BY <4>3 DEF RearmNote
      <4> QED
        BY <2>2, <4>1, <4>2, <4>3
    <3> QED
      BY <3>2, <3>3, <3>4
  <2>3. CASE EndRearm
    BY <2>3 DEF EndRearm, aroundRearm, QuietDial
  <2>4. ASSUME NEW s \in Symbols, Fire(s)
        PROVE  entries'[t] = "none" /\ pass'[t] = "idle" /\ t \notin rearm'.todo
    BY <2>4 DEF Fire, aroundPass
  <2>5. ASSUME NEW s \in Symbols, PassStep(s)
        PROVE  entries'[t] = "none" /\ pass'[t] = "idle" /\ t \notin rearm'.todo
    <3>1. pass[s] # "idle"
      BY <2>5 DEF PassStep, GoTo, Decide, RecordScrape, PassRaises, ArmSelf,
                  StillHeld, ArmSelfFails, NoteSelf, EndPass, CheckMember,
                  ForgetMember
    <3>2. s # t
      BY <3>1
    <3>3. rearm' = rearm
      BY <2>5 DEF PassStep, Decide, RecordScrape, PassRaises, ArmSelf,
                  StillHeld, ArmSelfFails, NoteSelf, EndPass, CheckMember,
                  ForgetMember, aroundPass
    <3>4. pass'[t] = pass[t]
      BY <2>5, <3>2
      DEF PassStep, GoTo, Decide, RecordScrape, PassRaises, ArmSelf, StillHeld,
          ArmSelfFails, NoteSelf, EndPass, CheckMember, ForgetMember
    <3>5. entries'[t] = entries[t]
      BY <2>5, <3>2
      DEF PassStep, Decide, RecordScrape, PassRaises, ArmSelf, StillHeld,
          ArmSelfFails, NoteSelf, EndPass, CheckMember, ForgetMember, AddEntry
    <3> QED
      BY <3>2, <3>3, <3>4, <3>5
  <2> QED
    BY <2>1, <2>2, <2>3, <2>4, <2>5 DEF RearmStep
<1> QED
  BY <1>1, <1>2, <1>4 DEF Spares

(* Every action keeps the invariant. *)
LEMMA StepPaused == TypeOK /\ PausedInv /\ [Next]_vars => PausedInv'
<1> SUFFICES ASSUME TypeOK, PausedInv, [Next]_vars
             PROVE  PausedInv'
  OBVIOUS
<1>1. ASSUME NEW i \in Ingests, Begin(i)
      PROVE  PausedInv'
  <2>1. ingest \in [Ingests -> Progresses]
    BY DEF TypeOK
  <2>2. ASSUME NEW t \in paused, NEW j \in Ingests
        PROVE  Spares(j, t)'
    BY <1>1, <2>1, <2>2 DEF Begin, PausedInv, Spares, Progresses
  <2> QED
    BY <1>1, <2>2 DEF Begin, PausedInv, snapshotVars
<1>2. CASE DayTurn \/ \E w \in Writers, s \in Symbols, status \in Statuses :
                          Write(w, s, status)
  BY <1>1, <1>2 DEF DayTurn, Write, Ingests
<1>3. CASE Reload
  BY <1>3 DEF Reload, Publish, PausedInv, Spares, TypeOK
<1>4. ASSUME NEW i \in Ingests, IngestStep(i)
      PROVE  PausedInv'
  BY <1>4, IngestStepPaused
<1>5. CASE \/ BeginRearm \/ RearmStep
           \/ \E s \in Symbols : Fire(s) \/ PassStep(s)
  BY <1>5, ThreadStepPaused
<1>6. ASSUME NEW stored \in [Symbols -> Armings],
             NEW counts \in [Symbols -> 0 .. MaxFailures],
             Restart(stored, counts)
      PROVE  PausedInv'
  BY <1>6 DEF Restart, PausedInv, Spares, Idle, QuietDial, TypeOK
<1>7. CASE UNCHANGED vars
  BY <1>7 DEF vars, PausedInv, Spares
<1> QED
  BY <1>2, <1>3, <1>4, <1>5, <1>6, <1>7 DEF Next

(***************************************************************************)
(* boot_delay and the three loops of reconcile_jobs (scrape.py): a symbol  *)
(* whose stored arming says paused has neither an entry nor a pass for as  *)
(* long as every snapshot holds it, however many ingestions, cadence       *)
(* changes and faults of the calls meet.                                   *)
(***************************************************************************)
THEOREM PausedOut == Spec => []PausedStaysOut
<1>1. Init => PausedInv
  BY DEF Init, PausedInv, Spares, Idle, QuietDial
<1>2. PausedInv => PausedStaysOut
  BY DEF PausedInv, PausedStaysOut
<1> QED
  BY <1>1, <1>2, StepPaused, RotationTyped, PTL DEF Spec

-----------------------------------------------------------------------------
(* Held symbols stay in the rotation *)

(* The ingestion has still to see that a symbol the snapshot holds has an  *)
(* entry: it has not read the held symbols, it has read this one among     *)
(* them, or it is to arm it.                                               *)
Covers(i, s) ==
    \/ ingest[i].pc \in {"replay", "retain", "held"}
    \/ ingest[i].pc = "scheduled" /\ s \in ingest[i].held
    \/ ingest[i].pc = "reconcile" /\ s \in ingest[i].arm

(* What RotationKept says of a quiet moment, said of every moment: while   *)
(* ingestions run, one of them covers the symbol that has no entry.        *)
Kept(s) ==
    \/ InRotation(s)
    \/ restored[s] = "paused"
    \/ mishap[s] # "none"
    \/ \E i \in Ingests : Covers(i, s)

RotationInv == \A s \in Held : Kept(s)

(* A blamed symbol has a mishap, and no other symbol loses its own.        *)
LEMMA BlameKeeps ==
    ASSUME NEW S, NEW cause \in {"raised", "skipped", "stale", "unreconciled"},
           Blame(S, cause), NEW t \in Symbols
    PROVE  /\ t \in S => mishap'[t] # "none"
           /\ mishap[t] # "none" => mishap'[t] # "none"
BY DEF Blame

(* The steps of one ingestion leave the others alone. *)
LEMMA OthersCover ==
    ASSUME TypeOK, NEW i \in Ingests, IngestStep(i),
           NEW j \in Ingests \ {i}, NEW t, Covers(j, t)
    PROVE  Covers(j, t)'
<1>0. ingest \in [Ingests -> Progresses]
  BY DEF TypeOK
<1>1. ingest'[j] = ingest[j]
  <2>1. ASSUME NEW s \in Symbols, Reconcile(i, s)
        PROVE  ingest'[j] = ingest[j]
    BY <1>0, <2>1
    DEF Reconcile, DropRestored, SkipPaused, Arm, ArmFails, Note, Remove
  <2> QED
    BY <1>0, <2>1
    DEF IngestStep, Replay, ReplayFails, Retain, ReadHeld, ReadScheduled,
        ReadFails, Finish
<1> QED
  BY <1>1 DEF Covers

(* A step of an ingestion keeps a symbol that is held after it. *)
LEMMA IngestStepKeeps ==
    ASSUME TypeOK, RotationInv, NEW i \in Ingests, IngestStep(i)
    PROVE  RotationInv'
<1> SUFFICES ASSUME NEW t \in Symbols, published'[t] = "held"
             PROVE  Kept(t)'
  BY DEF RotationInv, Held
<1>0. /\ ingest \in [Ingests -> Progresses]
      /\ entries \in [Symbols -> {"none", "soon", "later"}]
      /\ restored \in [Symbols -> Armings]
  BY DEF TypeOK
<1>1. pass' = pass
  BY DEF IngestStep, Reconcile, Replay, ReplayFails, Retain, ReadHeld,
         ReadScheduled, ReadFails, DropRestored, SkipPaused, Arm, ArmFails,
         Note, Remove, Finish, aroundIngest
<1>2. CASE Replay(i)
  BY <1>0, <1>2 DEF Replay, Kept, Covers, Progresses
<1>3. CASE ~Replay(i)
  <2>1. published' = published
    BY <1>3
    DEF IngestStep, Reconcile, ReplayFails, Retain, ReadHeld, ReadScheduled,
        ReadFails, DropRestored, SkipPaused, Arm, ArmFails, Note, Remove,
        Finish, aroundIngest, snapshotVars
  <2>2. t \in Held
    BY <2>1 DEF Held
  <2>3. Kept(t)
    BY <2>2 DEF RotationInv
  <2>4. ASSUME NEW j \in Ingests \ {i}, Covers(j, t)
        PROVE  Kept(t)'
    BY <2>4, OthersCover DEF Kept
  <2>5. CASE ReplayFails(i) \/ Retain(i)
    <3>1. Covers(i, t)'
      BY <1>0, <2>5 DEF ReplayFails, Retain, Covers, Progresses
    <3> QED
      BY <3>1 DEF Kept
  <2>6. CASE ReadHeld(i)
    <3>1. Covers(i, t)'
      BY <1>0, <2>2, <2>6 DEF ReadHeld, Covers, Progresses
    <3> QED
      BY <3>1 DEF Kept
  <2>7. CASE ReadScheduled(i)
    <3>1. entries' = entries /\ restored' = restored /\ mishap' = mishap
      BY <2>7 DEF ReadScheduled
    <3>2. CASE Covers(i, t)
      <4>1. t \in ingest[i].held
        BY <2>7, <3>2 DEF ReadScheduled, Covers
      <4>2. /\ ingest'[i].pc = "reconcile"
            /\ ingest'[i].arm = ingest[i].held \ Scheduled
        BY <1>0, <2>7 DEF ReadScheduled, Progresses
      <4>3. entries[t] # "none" \/ Covers(i, t)'
        BY <4>1, <4>2 DEF Scheduled, Covers
      <4> QED
        BY <3>1, <4>3 DEF Kept, InRotation
    <3> QED
      BY <1>1, <2>3, <2>4, <3>1, <3>2 DEF Kept, InRotation
  <2>8. CASE ReadFails(i)
    <3>1. entries[t] # "none" \/ mishap'[t] # "none"
      BY <2>8, BlameKeeps DEF ReadFails, Scheduled
    <3> QED
      BY <2>8, <3>1 DEF ReadFails, Kept, InRotation
  <2>9. ASSUME NEW s \in Symbols, Reconcile(i, s)
        PROVE  Kept(t)'
    <3>1. CASE s # t
      <4>1. /\ entries'[t] = entries[t] /\ restored'[t] = restored[t]
            /\ mishap'[t] = mishap[t]
        <5> USE <1>0, <2>9, <3>1
        <5>1. mishap \in [Symbols -> Mishaps]
          BY DEF TypeOK
        <5>2. CASE DropRestored(i, s) \/ Remove(i, s)
          BY <5>1, <5>2 DEF DropRestored, Remove, Blame
        <5>3. CASE SkipPaused(i, s) \/ Note(i, s)
          BY <5>3 DEF SkipPaused, Note
        <5>4. CASE Arm(i, s)
          BY <5>1, <5>4 DEF Arm, AddEntry
        <5>5. CASE ArmFails(i, s)
          BY <5>1, <5>5 DEF ArmFails, Blame
        <5> QED
          BY <5>2, <5>3, <5>4, <5>5 DEF Reconcile
      <4>2. Covers(i, t) => Covers(i, t)'
        BY <1>0, <2>9, <3>1
        DEF Reconcile, DropRestored, SkipPaused, Arm, ArmFails, Note, Remove,
            Arming, Covers, Progresses
      <4> QED
        BY <1>1, <2>3, <2>4, <4>1, <4>2 DEF Kept, InRotation
    <3>2. CASE s = t /\ (DropRestored(i, s) \/ Remove(i, s))
      BY <2>2, <3>2, BlameKeeps DEF DropRestored, Remove, Kept
    <3>3. CASE s = t /\ SkipPaused(i, s)
      BY <3>3 DEF SkipPaused, Kept
    <3>4. CASE s = t /\ Arm(i, s)
      BY <1>0, <3>4 DEF Arm, AddEntry, Kept, InRotation
    <3>5. CASE s = t /\ ArmFails(i, s)
      BY <3>5, BlameKeeps DEF ArmFails, Kept
    <3>6. CASE s = t /\ Note(i, s)
      <4>1. Covers(i, t) => Covers(i, t)'
        BY <1>0, <3>6 DEF Note, Covers, Progresses
      <4>2. entries' = entries /\ restored' = restored /\ mishap' = mishap
        BY <3>6 DEF Note
      <4> QED
        BY <1>1, <2>3, <2>4, <4>1, <4>2 DEF Kept, InRotation
    <3> QED
      BY <2>9, <3>1, <3>2, <3>3, <3>4, <3>5, <3>6 DEF Reconcile
  <2>10. CASE Finish(i)
    <3>1. ~Covers(i, t)
      BY <2>10 DEF Finish, Idle, Covers
    <3> QED
      BY <1>1, <2>3, <2>4, <2>10, <3>1 DEF Finish, Kept, InRotation
  <2> QED
    BY <1>3, <2>5, <2>6, <2>7, <2>8, <2>9, <2>10 DEF IngestStep
<1> QED
  BY <1>2, <1>3

(* A cadence change replaces an entry by an entry. *)
LEMMA RearmStepKeeps ==
    ASSUME TypeOK, RotationInv, BeginRearm \/ RearmStep
    PROVE  RotationInv'
<1>1. /\ published' = published /\ pass' = pass /\ restored' = restored
      /\ ingest' = ingest
  BY DEF BeginRearm, RearmStep, RearmOne, RearmOneFails, RearmNote, EndRearm,
         aroundRearm, snapshotVars
<1> SUFFICES ASSUME NEW t \in Held
             PROVE  Kept(t)'
  BY <1>1 DEF RotationInv, Held
<1>2. Kept(t)
  BY DEF RotationInv
<1>3. ASSUME NEW s \in Symbols, RearmOne(s), s = t
      PROVE  Kept(t)'
  BY <1>3 DEF RearmOne, AddEntry, Kept, InRotation, TypeOK
<1>4. CASE entries'[t] = entries[t] /\ mishap'[t] = mishap[t]
  BY <1>1, <1>2, <1>4 DEF Kept, InRotation, Covers
<1>5. ASSUME NEW s \in Symbols, RearmOne(s), s # t
      PROVE  entries'[t] = entries[t] /\ mishap'[t] = mishap[t]
  BY <1>5 DEF RearmOne, AddEntry, TypeOK, Held
<1> QED
  BY <1>3, <1>4, <1>5
  DEF BeginRearm, RearmStep, RearmOneFails, RearmNote, EndRearm

(* A pass that ends with its symbol held has armed it, or is blamed. *)
LEMMA PassStepKeeps ==
    ASSUME TypeOK, RotationInv, NEW s \in Symbols, Fire(s) \/ PassStep(s)
    PROVE  RotationInv'
<1>1. published' = published /\ restored' = restored /\ ingest' = ingest
  BY DEF Fire, PassStep, Decide, RecordScrape, PassRaises, ArmSelf, StillHeld,
         ArmSelfFails, NoteSelf, EndPass, CheckMember, ForgetMember,
         aroundPass, snapshotVars
<1> SUFFICES ASSUME NEW t \in Held
             PROVE  Kept(t)'
  BY <1>1 DEF RotationInv, Held
<1>2. Kept(t) /\ t \in Symbols
  BY DEF RotationInv, Held
<1>3. ASSUME InRotation(t) => InRotation(t)' \/ mishap'[t] # "none",
             mishap[t] # "none" => mishap'[t] # "none" \/ InRotation(t)'
      PROVE  Kept(t)'
  BY <1>1, <1>2, <1>3 DEF Kept, Covers
<1> USE <1>2 DEF TypeOK, InRotation, GoTo
<1>4. CASE Fire(s)
  <2>1. /\ InRotation(t) => InRotation(t)' \/ mishap'[t] # "none"
        /\ mishap[t] # "none" => mishap'[t] # "none" \/ InRotation(t)'
    BY <1>4, BlameKeeps DEF Fire
  <2> QED
    BY <1>3, <2>1
<1>5. ASSUME NEW outcome \in {"closed", "price", "failed"}, Decide(s, outcome)
      PROVE  Kept(t)'
  BY <1>3, <1>5 DEF Decide
<1>6. CASE RecordScrape(s) \/ PassRaises(s)
  BY <1>3, <1>6 DEF RecordScrape, PassRaises
<1>7. ASSUME NEW delay \in {"soon", "later"}, ArmSelf(s, delay)
      PROVE  Kept(t)'
  BY <1>3, <1>7 DEF ArmSelf, AddEntry
<1>8. CASE StillHeld(s)
  BY <1>3, <1>8 DEF StillHeld
<1>9. CASE ArmSelfFails(s)
  BY <1>3, <1>9, BlameKeeps DEF ArmSelfFails, Scheduled
<1>10. CASE NoteSelf(s) \/ EndPass(s) \/ ForgetMember(s)
  BY <1>3, <1>10 DEF NoteSelf, EndPass, ForgetMember
<1>11. CASE CheckMember(s)
  BY <1>3, <1>11, BlameKeeps DEF CheckMember
<1> QED
  BY <1>4, <1>5, <1>6, <1>7, <1>8, <1>9, <1>10, <1>11 DEF PassStep

(* Every action keeps the invariant. *)
LEMMA StepRotation == TypeOK /\ RotationInv /\ [Next]_vars => RotationInv'
<1> SUFFICES ASSUME TypeOK, RotationInv, [Next]_vars
             PROVE  RotationInv'
  OBVIOUS
<1>1. ASSUME NEW i \in Ingests, Begin(i)
      PROVE  RotationInv'
  <2>1. ingest \in [Ingests -> Progresses]
    BY DEF TypeOK
  <2>2. ASSUME NEW j \in Ingests, NEW t, Covers(j, t)
        PROVE  Covers(j, t)'
    BY <1>1, <2>1, <2>2 DEF Begin, Covers, Progresses
  <2> QED
    BY <1>1, <2>2
    DEF Begin, RotationInv, Kept, InRotation, Held, snapshotVars
<1>2. CASE DayTurn \/ \E w \in Writers, s \in Symbols, status \in Statuses :
                          Write(w, s, status)
  BY <1>1, <1>2 DEF DayTurn, Write, Ingests
<1>3. CASE Reload
  <2> SUFFICES ASSUME NEW t \in Symbols, ledger[t] = "held"
               PROVE  Kept(t)'
    BY <1>3 DEF Reload, Publish, RotationInv, Held
  <2>1. CASE published[t] = "held" \/ InRotation(t)
    <3>1. Kept(t)
      BY <2>1 DEF RotationInv, Held, Kept
    <3>2. mishap[t] # "none" => mishap'[t] # "none"
      BY <1>3, BlameKeeps DEF Reload
    <3> QED
      BY <1>3, <3>1, <3>2 DEF Reload, Kept, InRotation, Covers
  <2>2. CASE published[t] # "held" /\ ~InRotation(t)
    BY <1>3, <2>2, BlameKeeps DEF Reload, Kept
  <2> QED
    BY <2>1, <2>2
<1>4. ASSUME NEW i \in Ingests, IngestStep(i)
      PROVE  RotationInv'
  BY <1>4, IngestStepKeeps
<1>5. CASE BeginRearm \/ RearmStep
  BY <1>5, RearmStepKeeps
<1>6. ASSUME NEW s \in Symbols, Fire(s) \/ PassStep(s)
      PROVE  RotationInv'
  BY <1>6, PassStepKeeps
<1>7. ASSUME NEW stored \in [Symbols -> Armings],
             NEW counts \in [Symbols -> 0 .. MaxFailures],
             Restart(stored, counts)
      PROVE  RotationInv'
  <2>1. ingest'["boot"].pc = "replay" /\ "boot" \in Ingests
    BY <1>7 DEF Restart, Ingests, Idle
  <2> QED
    BY <2>1 DEF RotationInv, Kept, Covers
<1>8. CASE UNCHANGED vars
  BY <1>8 DEF vars, RotationInv, Held, Kept, InRotation, Covers
<1> QED
  BY <1>2, <1>3, <1>4, <1>5, <1>6, <1>7, <1>8 DEF Next

(***************************************************************************)
(* Held symbols keep their entry through every interleaving of passes,     *)
(* reconciliations, cadence changes, sales and purchases (scrape.py,       *)
(* reconcile_jobs and the finally clause of scrape_symbol): once every     *)
(* ingestion is over, one that is out of the rotation was stored as paused *)
(* or lost its entry by a mishap that can be named.                        *)
(***************************************************************************)
THEOREM HeldStaysIn == Spec => []RotationKept
<1>1. Init => RotationInv
  <2>1. Init => ingest["boot"].pc = "replay" /\ "boot" \in Ingests
    BY DEF Init, Ingests, Idle
  <2> QED
    BY <2>1 DEF RotationInv, Kept, Covers
<1>2. RotationInv => RotationKept
  BY DEF RotationInv, RotationKept, Quiet, Kept, Covers
<1> QED
  BY <1>1, <1>2, StepRotation, RotationTyped, PTL DEF Spec

-----------------------------------------------------------------------------
(* Sold symbols leave no passes behind *)

(* A step of an ingestion that takes the last of a sold symbol forgets it. *)
LEMMA IngestStepForgets ==
    ASSUME TypeOK, SoldLeavesNoTrack, NEW i \in Ingests, IngestStep(i)
    PROVE  SoldLeavesNoTrack'
<1> SUFFICES ASSUME NEW t \in Symbols, published'[t] # "held", t \notin unarmed',
                    OutOfRotation(t)', mishap'[t] = "none"
             PROVE  "track" \notin history'[t]
  BY DEF SoldLeavesNoTrack, Held
<1> USE DEF OutOfRotation
<1>0. /\ entries \in [Symbols -> {"none", "soon", "later"}]
      /\ restored \in [Symbols -> Armings]
      /\ history \in [Symbols -> SUBSET {"track", "arming"}]
      /\ mishap \in [Symbols -> Mishaps]
      /\ published \in [Symbols -> Statuses]
  BY DEF TypeOK
<1>1. pass'[t] = pass[t]
  BY DEF IngestStep, Reconcile, Replay, ReplayFails, Retain, ReadHeld,
         ReadScheduled, ReadFails, DropRestored, SkipPaused, Arm, ArmFails,
         Note, Remove, Finish, aroundIngest
<1>2. CASE Replay(i)
  <2>1. /\ published' = ledger /\ entries' = entries /\ restored' = restored
        /\ history' = history /\ mishap' = mishap
        /\ t \in Held /\ OutOfRotation(t) => t \in unarmed'
        /\ t \in unarmed => t \in unarmed'
    BY <1>2 DEF Replay, Publish
  <2> QED
    BY <1>1, <2>1 DEF SoldLeavesNoTrack
<1>3. CASE ~Replay(i)
  <2>1. published' = published /\ unarmed' = unarmed
    BY <1>3
    DEF IngestStep, Reconcile, ReplayFails, Retain, ReadHeld, ReadScheduled,
        ReadFails, DropRestored, SkipPaused, Arm, ArmFails, Note, Remove,
        Finish, aroundIngest, snapshotVars
  <2>2. OutOfRotation(t) /\ mishap[t] = "none" => "track" \notin history[t]
    BY <2>1 DEF SoldLeavesNoTrack, Held
  <2>3. CASE ReplayFails(i) \/ ReadHeld(i) \/ ReadScheduled(i) \/ Finish(i)
    BY <1>1, <2>2, <2>3 DEF ReplayFails, ReadHeld, ReadScheduled, Finish
  <2>4. CASE Retain(i)
    BY <1>0, <1>1, <2>2, <2>4 DEF Retain
  <2>5. CASE ReadFails(i)
    BY <1>1, <2>2, <2>5 DEF ReadFails, Blame, Scheduled
  <2>6. ASSUME NEW s \in Symbols, Reconcile(i, s), s # t
        PROVE  "track" \notin history'[t]
    <3>1. /\ entries'[t] = entries[t] /\ restored'[t] = restored[t]
          /\ mishap'[t] = mishap[t] /\ history'[t] = history[t]
      <4> USE <1>0, <2>6
      <4>1. CASE DropRestored(i, s) \/ Remove(i, s)
        BY <4>1 DEF DropRestored, Remove, ForgetSymbol, Blame
      <4>2. CASE SkipPaused(i, s) \/ Note(i, s)
        BY <4>2 DEF SkipPaused, Note, NoteArming
      <4>3. CASE Arm(i, s)
        BY <4>3 DEF Arm, AddEntry
      <4>4. CASE ArmFails(i, s)
        BY <4>4 DEF ArmFails, Blame
      <4> QED
        BY <4>1, <4>2, <4>3, <4>4 DEF Reconcile
    <3> QED
      BY <1>1, <2>2, <3>1
  <2>7. CASE DropRestored(i, t) \/ Remove(i, t)
    BY <1>0, <2>7 DEF DropRestored, Remove, ForgetSymbol
  <2>8. CASE SkipPaused(i, t) \/ Arm(i, t) \/ ArmFails(i, t)
    BY <1>0, <2>8, ArmingsAssumption
    DEF SkipPaused, Arm, ArmFails, AddEntry, Blame
  <2>9. CASE Note(i, t)
    BY <1>0, <1>1, <2>2, <2>9 DEF Note, NoteArming
  <2> QED
    BY <1>3, <2>3, <2>4, <2>5, <2>6, <2>7, <2>8, <2>9 DEF IngestStep, Reconcile
<1> QED
  BY <1>2, <1>3

(* A step of a cadence change leaves the symbols' passes alone. *)
LEMMA RearmStepForgets ==
    ASSUME TypeOK, SoldLeavesNoTrack, BeginRearm \/ RearmStep
    PROVE  SoldLeavesNoTrack'
<1> SUFFICES ASSUME NEW t \in Symbols, published'[t] # "held", t \notin unarmed',
                    OutOfRotation(t)', mishap'[t] = "none"
             PROVE  "track" \notin history'[t]
  BY DEF SoldLeavesNoTrack, Held
<1>1. /\ published' = published /\ unarmed' = unarmed /\ pass' = pass
      /\ restored' = restored
  BY DEF BeginRearm, RearmStep, RearmOne, RearmOneFails, RearmNote, EndRearm,
         aroundRearm, snapshotVars
<1>2. OutOfRotation(t) /\ mishap[t] = "none" => "track" \notin history[t]
  BY <1>1 DEF SoldLeavesNoTrack, Held
<1> USE <1>1, <1>2 DEF OutOfRotation, TypeOK
<1>3. CASE BeginRearm \/ EndRearm
  BY <1>3 DEF BeginRearm, EndRearm
<1>4. ASSUME NEW s \in Symbols, RearmOne(s)
      PROVE  "track" \notin history'[t]
  BY <1>4 DEF RearmOne, AddEntry
<1>5. ASSUME NEW s \in Symbols, RearmOneFails(s) \/ RearmNote(s)
      PROVE  "track" \notin history'[t]
  BY <1>5 DEF RearmOneFails, RearmNote, NoteArming
<1> QED
  BY <1>3, <1>4, <1>5 DEF RearmStep

(* A pass of a sold symbol forgets it in its last step. *)
LEMMA PassStepForgets ==
    ASSUME TypeOK, SoldLeavesNoTrack, NEW s \in Symbols, Fire(s) \/ PassStep(s)
    PROVE  SoldLeavesNoTrack'
<1> SUFFICES ASSUME NEW t \in Symbols, published'[t] # "held", t \notin unarmed',
                    OutOfRotation(t)', mishap'[t] = "none"
             PROVE  "track" \notin history'[t]
  BY DEF SoldLeavesNoTrack, Held
<1>1. published' = published /\ unarmed' = unarmed /\ restored' = restored
  BY DEF Fire, PassStep, Decide, RecordScrape, PassRaises, ArmSelf, StillHeld,
         ArmSelfFails, NoteSelf, EndPass, CheckMember, ForgetMember,
         aroundPass, snapshotVars
<1>2. /\ OutOfRotation(t) /\ mishap[t] = "none" => "track" \notin history[t]
      /\ t \notin Held
  BY <1>1 DEF SoldLeavesNoTrack, Held
<1> USE <1>1, <1>2 DEF OutOfRotation, GoTo, TypeOK
<1>3. CASE Fire(s)
  BY <1>3 DEF Fire, Blame
<1>4. ASSUME NEW outcome \in {"closed", "price", "failed"}, Decide(s, outcome)
      PROVE  "track" \notin history'[t]
  BY <1>4 DEF Decide
<1>5. CASE RecordScrape(s) \/ PassRaises(s) \/ StillHeld(s)
  BY <1>5 DEF RecordScrape, PassRaises, StillHeld
<1>6. ASSUME NEW delay \in {"soon", "later"}, ArmSelf(s, delay)
      PROVE  "track" \notin history'[t]
  BY <1>6 DEF ArmSelf, AddEntry
<1>7. CASE ArmSelfFails(s)
  BY <1>7 DEF ArmSelfFails, Blame, Scheduled
<1>8. CASE NoteSelf(s) \/ EndPass(s)
  BY <1>8 DEF NoteSelf, NoteArming, EndPass
<1>9. CASE CheckMember(s)
  BY <1>9 DEF CheckMember, Blame, Scheduled
<1>10. CASE ForgetMember(s)
  BY <1>10 DEF ForgetMember
<1> QED
  BY <1>3, <1>4, <1>5, <1>6, <1>7, <1>8, <1>9, <1>10 DEF PassStep

(* Every action keeps the invariant. *)
LEMMA StepForgets ==
    TypeOK /\ SoldLeavesNoTrack /\ [Next]_vars => SoldLeavesNoTrack'
<1> SUFFICES ASSUME TypeOK, SoldLeavesNoTrack, [Next]_vars
             PROVE  SoldLeavesNoTrack'
  OBVIOUS
<1>1. CASE DayTurn \/ \E w \in Writers, s \in Symbols, status \in Statuses :
                          Write(w, s, status)
  BY <1>1
  DEF DayTurn, Write, Begin, SoldLeavesNoTrack, OutOfRotation, Held,
      snapshotVars
<1>2. CASE Reload
  <2> SUFFICES ASSUME NEW t \in Symbols, published'[t] # "held",
                      t \notin unarmed', OutOfRotation(t)',
                      mishap'[t] = "none"
               PROVE  "track" \notin history'[t]
    BY DEF SoldLeavesNoTrack, Held
  <2>1. /\ published' = ledger /\ history' = history
        /\ OutOfRotation(t)
        /\ t \in Held /\ OutOfRotation(t) => t \in unarmed'
        /\ t \in unarmed => t \in unarmed'
    BY <1>2 DEF Reload, Publish, OutOfRotation
  <2>2. mishap[t] = "none"
    BY <1>2 DEF Reload, Blame, TypeOK
  <2> QED
    BY <2>1, <2>2 DEF SoldLeavesNoTrack
<1>3. ASSUME NEW i \in Ingests, IngestStep(i)
      PROVE  SoldLeavesNoTrack'
  BY <1>3, IngestStepForgets
<1>4. CASE BeginRearm \/ RearmStep
  BY <1>4, RearmStepForgets
<1>5. ASSUME NEW s \in Symbols, Fire(s) \/ PassStep(s)
      PROVE  SoldLeavesNoTrack'
  BY <1>5, PassStepForgets
<1>6. ASSUME NEW stored \in [Symbols -> Armings],
             NEW counts \in [Symbols -> 0 .. MaxFailures],
             Restart(stored, counts)
      PROVE  SoldLeavesNoTrack'
  BY <1>6 DEF Restart, SoldLeavesNoTrack, OutOfRotation
<1>7. CASE UNCHANGED vars
  BY <1>7 DEF vars, SoldLeavesNoTrack, OutOfRotation, Held
<1> QED
  BY <1>1, <1>2, <1>3, <1>4, <1>5, <1>6, <1>7 DEF Next

(***************************************************************************)
(* JobFamily.__call__ and reconcile_jobs (base.py, scrape.py): whichever   *)
(* of a pass and of the reconciliations comes last, a symbol sold while it *)
(* was in the rotation keeps no pass in the job history.                   *)
(***************************************************************************)
THEOREM SoldIsForgotten == Spec => []SoldLeavesNoTrack
<1>1. Init => SoldLeavesNoTrack
  BY DEF Init, SoldLeavesNoTrack, OutOfRotation
<1> QED
  BY <1>1, StepForgets, RotationTyped, PTL DEF Spec
=============================================================================

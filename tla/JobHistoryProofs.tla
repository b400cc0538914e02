-------------------------- MODULE JobHistoryProofs --------------------------
(***************************************************************************)
(* What holds of the job history for every set of keys, every window and   *)
(* every number of passes.                                                 *)
(***************************************************************************)
EXTENDS JobHistory, FiniteSetTheorems, TLAPS

-----------------------------------------------------------------------------
(* Types *)

(* A window of a set of passes, and the passes kept of it, are passes. *)
LEMMA PassSets ==
    ASSUME NEW S \in SUBSET Passes, NEW h
    PROVE  Since(h, S) \in SUBSET Passes /\ Newest(S) \in SUBSET Passes
BY DEF Since, Newest

(* The empty batch is a batch. *)
LEMMA EmptyBatchType == EmptyBatch \in Batches
<1>1. 0 \in Int /\ Oldest(0) \in Int
  BY SlotsAssumption DEF Oldest
<1> QED
  BY <1>1 DEF EmptyBatch, Batches, Nothing, Unarmed, MaybeArming

(* What is drained from well-typed buffers is a batch. *)
LEMMA DrainType ==
    ASSUME TypeOK
    PROVE  Drain \in Batches
<1>1. DrainedHours \in SUBSET (Keys \X Hours)
  BY DEF TypeOK, DrainedHours
<1>2. [k \in Keys |-> {p \in slots[k] : <<k, p[1]>> \in DrainedHours}]
          \in [Keys -> SUBSET Passes]
  BY DEF TypeOK
<1>3. Oldest(now) \in Int
  BY SlotsAssumption, BoundsAssumption DEF TypeOK, Oldest, Hours
<1> QED
  BY <1>1, <1>2, <1>3 DEF TypeOK, Drain, Batches

(* Writing a batch leaves rows of the store. *)
LEMMA WrittenTypes ==
    ASSUME NEW b \in Batches,
           NEW S \in [Keys -> SUBSET Passes],
           NEW P \in [Keys -> SUBSET Passes],
           NEW A \in [Symbols -> MaybeArming]
    PROVE  /\ WrittenSlots(S, b) \in [Keys -> SUBSET Passes]
           /\ WrittenPasses(P, b) \in [Keys -> SUBSET Passes]
           /\ WrittenSchedule(A, b) \in [Symbols -> MaybeArming]
<1>1. WrittenSlots(S, b) \in [Keys -> SUBSET Passes]
  BY DEF WrittenSlots, Batches
<1>2. WrittenPasses(P, b) \in [Keys -> SUBSET Passes]
  <2>1. \A k \in Keys : {x[2] : x \in {y \in b.passes : y[1] = k}} \subseteq Passes
    BY DEF Batches
  <2> QED
    BY <2>1 DEF WrittenPasses
<1>3. WrittenSchedule(A, b) \in [Symbols -> MaybeArming]
  BY DEF WrittenSchedule, Batches, MaybeArming
<1> QED
  BY <1>1, <1>2, <1>3

(* The initial state is well typed. *)
LEMMA InitType == Init => TypeOK
<1>1. ASSUME Init
      PROVE  TypeOK
  <2>1. now \in Hours /\ serial \in Nat
    BY <1>1, BoundsAssumption DEF Init, Hours
  <2>2. /\ slots \in [Keys -> SUBSET Passes]
        /\ recent \in [Keys -> SUBSET Passes]
        /\ job_slot \in [Keys -> SUBSET Passes]
        /\ job_pass \in [Keys -> SUBSET Passes]
    BY <1>1 DEF Init, Nothing
  <2>3. /\ schedule \in [Symbols -> MaybeArming]
        /\ job_schedule \in [Symbols -> MaybeArming]
        /\ armed \in [Symbols -> MaybeArming]
    BY <1>1 DEF Init, Unarmed, MaybeArming
  <2>4. drained \in [Flushers -> Batches]
    BY <1>1, EmptyBatchType DEF Init
  <2> QED
    BY <1>1, <2>1, <2>2, <2>3, <2>4 DEF Init, TypeOK
<1> QED
  BY <1>1

(* Every action keeps the types. *)
LEMMA StepType == TypeOK /\ [Next]_vars => TypeOK'
<1> SUFFICES ASSUME TypeOK, [Next]_vars
             PROVE  TypeOK'
  OBVIOUS
<1> USE DEF TypeOK
<1>1. CASE Tick
  BY <1>1, BoundsAssumption
  DEF Tick, Hours, memory, buffer, store
<1>2. ASSUME NEW k \in Keys, NEW h \in Hours, Record(k, h)
      PROVE  TypeOK'
  <2>1. <<h, serial>> \in Passes
    BY DEF Passes
  <2>2. slots' \in [Keys -> SUBSET Passes]
    BY <1>2, <2>1, PassSets DEF Record
  <2>3. recent' \in [Keys -> SUBSET Passes]
    <3>1. Newest(recent[k] \cup {<<h, serial>>}) \in SUBSET Passes
      BY <2>1, PassSets
    <3> QED
      BY <1>2, <3>1 DEF Record
  <2>4. serial' \in Nat /\ tracks' \subseteq Keys
    BY <1>2 DEF Record
  <2>5. dirty' \subseteq Keys \X Hours /\ pending' \subseteq Keys \X Passes
    BY <1>2, <2>1 DEF Record
  <2> QED
    BY <1>2, <2>2, <2>3, <2>4, <2>5 DEF Record, store
<1>3. ASSUME NEW s \in Symbols, NEW a \in Armings, Schedule(s, a)
      PROVE  TypeOK'
  BY <1>3 DEF Schedule, memory, store, MaybeArming
<1>4. ASSUME NEW departed \in SUBSET Symbols, Drop(departed)
      PROVE  TypeOK'
  <2>1. /\ slots' \in [Keys -> SUBSET Passes]
        /\ recent' \in [Keys -> SUBSET Passes]
        /\ forgotten' \in [Keys -> Nat]
    BY <1>4 DEF Drop
  <2>2. /\ schedule' \in [Symbols -> MaybeArming]
        /\ armed' \in [Symbols -> MaybeArming]
    BY <1>4 DEF Drop, MaybeArming
  <2> QED
    BY <1>4, <2>1, <2>2 DEF Drop, store
<1>5. ASSUME NEW f \in Flushers, StartFlush(f)
      PROVE  TypeOK'
  <2>1. Drain \in Batches
    BY DrainType
  <2>2. Unarmed \in [Symbols -> MaybeArming]
    BY DEF Unarmed, MaybeArming
  <2> QED
    BY <1>5, <2>1, <2>2 DEF StartFlush, memory, store
<1>6. ASSUME NEW f \in Flushers, CommitFlush(f)
      PROVE  TypeOK'
  <2> DEFINE b == drained[f]
  <2>1. b \in Batches
    OBVIOUS
  <2>2. /\ WrittenSlots(job_slot, b) \in [Keys -> SUBSET Passes]
        /\ WrittenPasses(job_pass, b) \in [Keys -> SUBSET Passes]
        /\ WrittenSchedule(job_schedule, b) \in [Symbols -> MaybeArming]
    BY <2>1, WrittenTypes
  <2>3. /\ job_slot' \in [Keys -> SUBSET Passes]
        /\ job_pass' \in [Keys -> SUBSET Passes]
        /\ job_schedule' \in [Symbols -> MaybeArming]
    BY <1>6, <2>2, PassSets DEF CommitFlush
  <2>4. /\ drained' \in [Flushers -> Batches]
        /\ flushing' \in [Flushers -> BOOLEAN]
    BY <1>6, EmptyBatchType DEF CommitFlush, EndFlush
  <2> QED
    BY <1>6, <2>3, <2>4 DEF CommitFlush, memory, buffer
<1>7. ASSUME NEW f \in Flushers, FailFlush(f)
      PROVE  TypeOK'
  <2> DEFINE b == drained[f]
  <2>1. b \in Batches
    OBVIOUS
  <2>2. dirty' \subseteq Keys \X Hours
    BY <1>7, <2>1 DEF FailFlush, Batches
  <2>3. pending' \subseteq Keys \X Passes
    BY <1>7, <2>1 DEF FailFlush, Batches, Capped
  <2>4. schedule' \in [Symbols -> MaybeArming]
    BY <1>7, <2>1 DEF FailFlush, Batches
  <2>5. gone' \subseteq Symbols
    BY <1>7, <2>1 DEF FailFlush, Batches
  <2>6. /\ drained' \in [Flushers -> Batches]
        /\ flushing' \in [Flushers -> BOOLEAN]
    BY <1>7, EmptyBatchType DEF FailFlush, EndFlush
  <2> QED
    BY <1>7, <2>2, <2>3, <2>4, <2>5, <2>6 DEF FailFlush, memory, store
<1>8. CASE Stop
  BY <1>8 DEF Stop, memory, buffer, store
<1>9. CASE Close
  BY <1>9 DEF Close, memory, buffer, store
<1>10. ASSUME Reborn
       PROVE  /\ now' \in Hours /\ serial' \in Nat
              /\ dirty' = {} /\ pending' = {}
              /\ schedule' \in [Symbols -> MaybeArming]
              /\ drained' \in [Flushers -> Batches]
              /\ flushing' \in [Flushers -> BOOLEAN]
              /\ job_slot' \in [Keys -> SUBSET Passes]
              /\ job_pass' \in [Keys -> SUBSET Passes]
              /\ job_schedule' \in [Symbols -> MaybeArming]
              /\ phase' \in {"up", "stopping", "flushed", "closed"}
  BY <1>10, EmptyBatchType DEF Reborn, Unarmed, MaybeArming, store
<1>11. ASSUME NEW K \in SUBSET Keys, Load(K)
       PROVE  /\ tracks' \subseteq Keys
              /\ slots' \in [Keys -> SUBSET Passes]
              /\ recent' \in [Keys -> SUBSET Passes]
  BY <1>11, PassSets DEF Load
<1>12. ASSUME NEW departed \in SUBSET Symbols, Restart(departed)
       PROVE  TypeOK'
  <2>1. Reborn /\ Load(Keys \ departed) /\ restored' = TRUE
    BY <1>12 DEF Restart
  <2>2. gone' \subseteq Symbols /\ armed' \in [Symbols -> MaybeArming]
    BY <1>12 DEF Restart, MaybeArming
  <2>3. forgotten' \in [Keys -> Nat]
    BY <1>12 DEF Restart
  <2> QED
    BY <1>10, <1>11, <2>1, <2>2, <2>3
<1>13. CASE RestartBlind
  <2>1. Reborn /\ (Load({}) \/ Load(Keys)) /\ restored' = FALSE
    BY <1>13 DEF RestartBlind
  <2>2. gone' \subseteq Symbols /\ armed' \in [Symbols -> MaybeArming]
    BY <1>13 DEF RestartBlind
  <2>3. forgotten' \in [Keys -> Nat]
    BY <1>13 DEF RestartBlind
  <2>4. /\ tracks' \subseteq Keys
        /\ slots' \in [Keys -> SUBSET Passes]
        /\ recent' \in [Keys -> SUBSET Passes]
    BY <1>11, <2>1
  <2> QED
    BY <1>10, <2>1, <2>2, <2>3, <2>4
<1>14. CASE UNCHANGED vars
  BY <1>14 DEF vars, memory, buffer, store
<1> QED
  BY <1>1, <1>2, <1>3, <1>4, <1>5, <1>6, <1>7, <1>8, <1>9, <1>12, <1>13, <1>14
  DEF Next, Forget, Retain, Flush

(* Every variable always has its type. *)
THEOREM TypeCorrect == Spec => []TypeOK
<1>1. Init => TypeOK
  BY InitType
<1>2. TypeOK /\ [Next]_vars => TypeOK'
  BY StepType
<1> QED
  BY <1>1, <1>2, PTL DEF Spec

-----------------------------------------------------------------------------
(* The flush: the lock, and the batches *)

(* The lock _flushing admits one flush, and only it holds a batch. *)
OneFlush ==
    /\ \A f, g \in Flushers : flushing[f] /\ flushing[g] => f = g
    /\ \A f \in Flushers : ~flushing[f] => drained[f] = EmptyBatch

(* A batch names the hours it has passes of, no other, and was taken when  *)
(* the clock was no later than now.                                        *)
BatchSound(b) ==
    /\ \A k \in Keys : \A p \in b.slots[k] : <<k, p[1]>> \in b.hours
    /\ \A k \in Keys, h \in Hours :
           <<k, h>> \in b.hours => \E p \in b.slots[k] : p[1] = h
    /\ b.oldest <= Oldest(now)

(* Only a key with a track has slots, or slots to write. *)
TracksHold ==
    /\ \A d \in dirty : d[1] \in tracks
    /\ \A k \in Keys : k \notin tracks => slots[k] = {}

FlushInv ==
    /\ OneFlush
    /\ \A f \in Flushers : BatchSound(drained[f])
    /\ TracksHold

(* The empty batch is sound at any hour. *)
LEMMA EmptyBatchSound == TypeOK => BatchSound(EmptyBatch)
<1>1. TypeOK => Oldest(0) <= Oldest(now)
  BY SlotsAssumption, BoundsAssumption DEF TypeOK, Oldest, Hours
<1> QED
  BY <1>1 DEF BatchSound, EmptyBatch, Nothing

(* What is drained now is a sound batch. *)
LEMMA DrainSound == TypeOK => BatchSound(Drain)
<1> SUFFICES ASSUME TypeOK
             PROVE  BatchSound(Drain)
  OBVIOUS
<1> DEFINE b == Drain
<1>1. /\ b.hours = DrainedHours /\ b.oldest = Oldest(now)
      /\ \A k \in Keys :
             b.slots[k] = {p \in slots[k] : <<k, p[1]>> \in DrainedHours}
  BY DEF Drain
<1>2. ASSUME NEW k \in Keys, NEW h \in Hours, <<k, h>> \in DrainedHours
      PROVE  \E p \in b.slots[k] : p[1] = h
  <2>1. PICK p \in slots[k] : p[1] = h
    BY <1>2 DEF DrainedHours
  <2> QED
    BY <1>1, <1>2, <2>1
<1>3. b.oldest <= Oldest(now)
  BY <1>1, SlotsAssumption, BoundsAssumption DEF TypeOK, Oldest, Hours
<1> QED
  BY <1>1, <1>2, <1>3 DEF BatchSound

(* The batch under way is the one the flush that runs holds. *)
HeldByFlush ==
    /\ \A f \in Flushers : flushing[f] => InFlight = drained[f]
    /\ (\A f \in Flushers : ~flushing[f]) => InFlight = EmptyBatch

(* The lock makes it so. *)
LEMMA InFlightIs == OneFlush => HeldByFlush
<1>1. ASSUME OneFlush, NEW f \in Flushers, flushing[f]
      PROVE  InFlight = drained[f]
  <2> DEFINE g == CHOOSE g \in Flushers : flushing[g]
  <2>1. g \in Flushers /\ flushing[g]
    BY <1>1
  <2>2. g = f
    BY <1>1, <2>1 DEF OneFlush
  <2> QED
    BY <1>1, <2>2 DEF InFlight
<1> QED
  BY <1>1 DEF InFlight, HeldByFlush

(* The batch under way is well typed and sound. *)
LEMMA InFlightSound ==
    ASSUME TypeOK, FlushInv
    PROVE  InFlight \in Batches /\ BatchSound(InFlight)
<1>1. CASE \E f \in Flushers : flushing[f]
  <2>1. PICK f \in Flushers : flushing[f]
    BY <1>1
  <2> QED
    BY <2>1, InFlightIs DEF HeldByFlush, FlushInv, TypeOK
<1>2. CASE \A f \in Flushers : ~flushing[f]
  BY <1>2, InFlightIs, EmptyBatchType, EmptyBatchSound
  DEF HeldByFlush, FlushInv
<1> QED
  BY <1>1, <1>2

(* The clock never brings the window back. *)
LEMMA WindowForward ==
    ASSUME NEW h \in Hours, NEW later \in Hours, h <= later
    PROVE  /\ Oldest(h) \in Int /\ Oldest(later) \in Int
           /\ Oldest(h) <= Oldest(later)
BY SlotsAssumption, BoundsAssumption DEF Oldest, Hours

(* A step never turns the clock back, and only Tick turns it. *)
LEMMA ClockForward ==
    ASSUME TypeOK, [Next]_vars
    PROVE  now \in Hours /\ now' \in Hours /\ now <= now'
<1>1. CASE Tick
  BY <1>1, BoundsAssumption DEF Tick, TypeOK, Hours
<1>2. CASE ~Tick
  <2>1. now' = now
    BY <1>2 DEF Next, Record, Schedule, Forget, Retain, Drop, Flush,
         StartFlush, CommitFlush, FailFlush, Stop, Close, Restart,
         RestartBlind, Reborn, vars
  <2> QED
    BY <2>1, BoundsAssumption DEF TypeOK, Hours
<1> QED
  BY <1>1, <1>2

(* A step never makes a batch unsound. *)
LEMMA StaysSound ==
    ASSUME TypeOK, [Next]_vars, NEW b \in Batches, BatchSound(b)
    PROVE  BatchSound(b)'
<1>1. Oldest(now) \in Int /\ Oldest(now') \in Int /\ b.oldest \in Int
  BY ClockForward, WindowForward DEF Batches
<1>2. b.oldest <= Oldest(now')
  BY <1>1, ClockForward, WindowForward DEF BatchSound
<1> QED
  BY <1>2 DEF BatchSound

(* A step that hands no batch over leaves the flushes as they are. *)
LEMMA NoFlushStep ==
    ASSUME OneFlush, UNCHANGED <<drained, flushing>>
    PROVE  OneFlush'
BY DEF OneFlush

(* Every action keeps what the proofs need to know of the flushes. *)
LEMMA StepFlush == TypeOK /\ FlushInv /\ [Next]_vars => FlushInv'
<1> SUFFICES ASSUME TypeOK, FlushInv, [Next]_vars
             PROVE  FlushInv'
  OBVIOUS
<1>0. TypeOK'
  BY StepType
<1>1. \A f \in Flushers : BatchSound(drained[f])'
  <2>1. BatchSound(EmptyBatch)'
    BY <1>0, EmptyBatchSound, EmptyBatchType, StaysSound
  <2>2. BatchSound(Drain)
    BY DrainSound
  <2>3. \A f \in Flushers :
            drained'[f] \in {drained[f], Drain, EmptyBatch}
    BY DEF Next, Tick, Record, Schedule, Forget, Retain, Drop, Flush,
         StartFlush, CommitFlush, FailFlush, EndFlush, Stop, Close, Restart,
         RestartBlind, Reborn, vars, TypeOK
  <2>4. ASSUME NEW b \in {Drain} \cup {drained[f] : f \in Flushers}
        PROVE  b \in Batches /\ BatchSound(b)
    BY <2>2, DrainType DEF TypeOK, FlushInv
  <2>5. ASSUME NEW f \in Flushers, NEW b, b = drained'[f]
        PROVE  /\ \A k \in Keys : \A p \in b.slots[k] : <<k, p[1]>> \in b.hours
               /\ \A k \in Keys, h \in Hours :
                      <<k, h>> \in b.hours => \E p \in b.slots[k] : p[1] = h
               /\ b.oldest <= Oldest(now')
    <3>1. CASE b = EmptyBatch
      BY <2>1, <3>1 DEF BatchSound, EmptyBatch
    <3>2. CASE b \in {Drain} \cup {drained[g] : g \in Flushers}
      <4>1. b \in Batches /\ BatchSound(b)
        BY <2>4, <3>2
      <4>2. Oldest(now) \in Int /\ Oldest(now') \in Int /\ b.oldest \in Int
        BY <4>1, ClockForward, WindowForward DEF Batches
      <4> QED
        BY <4>1, <4>2, ClockForward, WindowForward DEF BatchSound
    <3> QED
      BY <2>3, <2>5, <3>1, <3>2
  <2> QED
    BY <2>5 DEF BatchSound
<1>2. OneFlush'
  <2>1. ASSUME NEW f \in Flushers, StartFlush(f)
        PROVE  OneFlush'
    BY <2>1 DEF StartFlush, OneFlush, FlushInv, TypeOK
  <2>2. ASSUME NEW f \in Flushers, CommitFlush(f) \/ FailFlush(f)
        PROVE  OneFlush'
    BY <2>2 DEF CommitFlush, FailFlush, EndFlush, OneFlush, FlushInv, TypeOK
  <2>3. CASE Reborn
    BY <2>3 DEF Reborn, OneFlush
  <2>4. CASE UNCHANGED <<drained, flushing>>
    BY <2>4, NoFlushStep DEF FlushInv
  <2> QED
    BY <2>1, <2>2, <2>3, <2>4
    DEF Next, Tick, Record, Schedule, Forget, Retain, Drop, Flush, Stop,
        Close, Restart, RestartBlind, vars
<1>3. TracksHold'
  <2> USE DEF TracksHold
  <2>0. TracksHold
    BY DEF FlushInv
  <2>1. ASSUME NEW k \in Keys, NEW h \in Hours, Record(k, h)
        PROVE  TracksHold'
    BY <2>0, <2>1 DEF Record, TypeOK
  <2>2. ASSUME NEW departed \in SUBSET Symbols, Drop(departed)
        PROVE  TracksHold'
    BY <2>0, <2>2 DEF Drop, TypeOK
  <2>3. ASSUME NEW f \in Flushers, StartFlush(f)
        PROVE  TracksHold'
    BY <2>0, <2>3 DEF StartFlush, memory
  <2>4. ASSUME NEW f \in Flushers, FailFlush(f)
        PROVE  TracksHold'
    BY <2>0, <2>4 DEF FailFlush, memory, Alive
  <2>5. ASSUME NEW K \in SUBSET Keys, Load(K), dirty' = {}
        PROVE  TracksHold'
    BY <2>5 DEF Load
  <2>6. CASE Restart({}) \/ RestartBlind \/ \E d \in SUBSET Symbols : Restart(d)
    BY <2>5, <2>6 DEF Restart, RestartBlind, Reborn
  <2>7. CASE UNCHANGED <<tracks, slots, dirty>>
    BY <2>0, <2>7
  <2> QED
    BY <2>1, <2>2, <2>3, <2>4, <2>6, <2>7
    DEF Next, Tick, Schedule, Forget, Retain, Flush, CommitFlush, Stop,
        Close, vars, memory, buffer
<1> QED
  BY <1>1, <1>2, <1>3 DEF FlushInv

(* What the batch under way becomes as each flush starts and ends. *)
LEMMA InFlightMoves ==
    ASSUME TypeOK, FlushInv, FlushInv', NEW f \in Flushers
    PROVE  /\ StartFlush(f) => InFlight = EmptyBatch /\ InFlight' = Drain
           /\ CommitFlush(f) \/ FailFlush(f) =>
                  InFlight = drained[f] /\ InFlight' = EmptyBatch
           /\ Reborn => InFlight' = EmptyBatch
<1>1. HeldByFlush
  BY InFlightIs DEF FlushInv
<1>2. HeldByFlush'
  <2>1. OneFlush' => HeldByFlush'
    BY InFlightIs, PTL
  <2> QED
    BY <2>1 DEF FlushInv
<1>3. EmptyBatch' = EmptyBatch
  BY DEF EmptyBatch, Nothing, Unarmed, Oldest
<1>4. StartFlush(f) => InFlight = EmptyBatch /\ InFlight' = Drain
  BY <1>1, <1>2 DEF HeldByFlush, StartFlush, TypeOK
<1>5. CommitFlush(f) \/ FailFlush(f) =>
          InFlight = drained[f] /\ InFlight' = EmptyBatch
  <2>1. ASSUME CommitFlush(f) \/ FailFlush(f)
        PROVE  flushing[f] /\ \A g \in Flushers : ~flushing'[g]
    BY <2>1 DEF CommitFlush, FailFlush, EndFlush, FlushInv, OneFlush, TypeOK
  <2> QED
    BY <1>1, <1>2, <1>3, <2>1 DEF HeldByFlush
<1>6. Reborn => InFlight' = EmptyBatch
  BY <1>2, <1>3 DEF HeldByFlush, Reborn
<1> QED
  BY <1>4, <1>5, <1>6

-----------------------------------------------------------------------------
(* The armings *)

(* Writing the empty batch changes nothing. *)
LEMMA WrittenEmpty ==
    ASSUME NEW S \in [Keys -> SUBSET Passes],
           NEW A \in [Symbols -> MaybeArming]
    PROVE  /\ WrittenSlots(S, EmptyBatch) = S
           /\ WrittenSchedule(A, EmptyBatch) = A
BY DEF WrittenSlots, WrittenSchedule, EmptyBatch, Nothing, Unarmed

(* What the store would hold of the arming of s. *)
Resumed(s, b) ==
    IF schedule[s] # NoArming THEN schedule[s]
    ELSE IF s \in gone THEN NoArming
    ELSE WrittenSchedule(job_schedule, b)[s]

(* ArmingRecoverable, symbol by symbol. *)
LEMMA ArmingBySymbol ==
    TypeOK => (ArmingRecoverable <=>
                   \A s \in Symbols : armed[s] = Resumed(s, InFlight))
<1>1. DurableSchedule = [s \in Symbols |-> Resumed(s, InFlight)]
  BY DEF DurableSchedule, WrittenSchedule, Drain, Resumed
<1> QED
  BY <1>1 DEF ArmingRecoverable, TypeOK

(* Every action keeps the armings recoverable. *)
LEMMA StepArming ==
    TypeOK /\ FlushInv /\ ArmingRecoverable /\ [Next]_vars
        => ArmingRecoverable'
<1> SUFFICES ASSUME TypeOK, FlushInv, ArmingRecoverable, [Next]_vars
             PROVE  ArmingRecoverable'
  OBVIOUS
<1>0. TypeOK' /\ FlushInv'
  BY StepType, StepFlush
<1>1. \A s \in Symbols : armed[s] = Resumed(s, InFlight)
  BY ArmingBySymbol
<1>2. SUFFICES \A s \in Symbols : armed'[s] = Resumed(s, InFlight)'
  <2>1. TypeOK' => (ArmingRecoverable' <=>
            (\A s \in Symbols : armed[s] = Resumed(s, InFlight))')
    BY ArmingBySymbol, PTL
  <2> QED
    BY <1>0, <2>1
<1> USE DEF TypeOK
<1>3. CASE UNCHANGED <<schedule, gone, drained, flushing, job_schedule, armed>>
  BY <1>1, <1>3 DEF Resumed, WrittenSchedule, InFlight, EmptyBatch, Oldest
<1>4. ASSUME NEW s \in Symbols, NEW a \in Armings, Schedule(s, a)
      PROVE  \A t \in Symbols : armed'[t] = Resumed(t, InFlight)'
  BY <1>1, <1>4, ArmingAssumption
  DEF Schedule, Resumed, WrittenSchedule, InFlight, EmptyBatch, Oldest, store
<1>5. ASSUME NEW departed \in SUBSET Symbols, Drop(departed)
      PROVE  \A t \in Symbols : armed'[t] = Resumed(t, InFlight)'
  BY <1>1, <1>5
  DEF Drop, Resumed, WrittenSchedule, InFlight, EmptyBatch, Oldest, store
<1>6. ASSUME NEW f \in Flushers, StartFlush(f)
      PROVE  \A t \in Symbols : armed'[t] = Resumed(t, InFlight)'
  <2>1. InFlight = EmptyBatch /\ InFlight' = Drain
    BY <1>0, <1>6, InFlightMoves
  <2> QED
    BY <1>1, <1>6, <2>1
    DEF StartFlush, Resumed, WrittenSchedule, Drain, EmptyBatch, Unarmed, store
<1>7. ASSUME NEW f \in Flushers, CommitFlush(f)
      PROVE  \A t \in Symbols : armed'[t] = Resumed(t, InFlight)'
  <2>1. InFlight = drained[f] /\ InFlight' = EmptyBatch
    BY <1>0, <1>7, InFlightMoves
  <2> QED
    BY <1>1, <1>7, <2>1
    DEF CommitFlush, Resumed, WrittenSchedule, EmptyBatch, Unarmed, buffer
<1>8. ASSUME NEW f \in Flushers, FailFlush(f)
      PROVE  \A t \in Symbols : armed'[t] = Resumed(t, InFlight)'
  <2>1. InFlight = drained[f] /\ InFlight' = EmptyBatch
    BY <1>0, <1>8, InFlightMoves
  <2> QED
    BY <1>1, <1>8, <2>1
    DEF FailFlush, Resumed, WrittenSchedule, EmptyBatch, Unarmed, store
<1>9. ASSUME NEW departed \in SUBSET Symbols, Restart(departed)
      PROVE  \A t \in Symbols : armed'[t] = Resumed(t, InFlight)'
  <2>1. InFlight' = EmptyBatch
    BY <1>0, <1>9, InFlightMoves DEF Restart, Flushers
  <2> QED
    BY <1>9, <2>1
    DEF Restart, Reborn, Resumed, WrittenSchedule, EmptyBatch, Unarmed, store
<1>10. CASE RestartBlind
  <2>1. InFlight' = EmptyBatch
    BY <1>0, <1>10, InFlightMoves DEF RestartBlind, Flushers
  <2> QED
    BY <1>10, <2>1
    DEF RestartBlind, Reborn, Resumed, WrittenSchedule, EmptyBatch, Unarmed,
        store
<1> QED
  BY <1>3, <1>4, <1>5, <1>6, <1>7, <1>8, <1>9, <1>10
  DEF Next, Tick, Record, Forget, Retain, Flush, Stop, Close, vars, buffer,
      store

(* The initial state. *)
LEMMA InitFlush == Init => FlushInv
BY InitType, EmptyBatchSound
DEF Init, FlushInv, OneFlush, TracksHold, Nothing

(* What the proofs need to know of the flushes always holds. *)
LEMMA FlushAlways == Spec => []FlushInv
<1>1. TypeOK /\ FlushInv /\ [Next]_vars => (TypeOK /\ FlushInv)'
  BY StepType, StepFlush
<1> QED
  BY <1>1, InitType, InitFlush, PTL DEF Spec

(* The back-off that a boot would resume is always the last one noted.     *)
THEOREM ArmingsSurvive == Spec => []ArmingRecoverable
<1>1. Init => ArmingRecoverable
  <2>1. Init => \A s \in Symbols : armed[s] = Resumed(s, InFlight)
    BY DEF Init, Resumed, WrittenSchedule, InFlight, EmptyBatch, Unarmed
  <2> QED
    BY <2>1, InitType, ArmingBySymbol
<1>2. TypeOK /\ FlushInv /\ ArmingRecoverable /\ [Next]_vars
          => (TypeOK /\ FlushInv /\ ArmingRecoverable)'
  BY StepType, StepFlush, StepArming
<1> QED
  BY <1>1, <1>2, InitType, InitFlush, PTL DEF Spec

-----------------------------------------------------------------------------
(* The slots *)

(* Does the store hold pass p of key k, once batch b is written?           *)
Stored(k, p, b) ==
    IF <<k, p[1]>> \in b.hours THEN p \in b.slots[k]
    ELSE k \notin b.gone /\ p \in job_slot[k]

(* And once the buffer is written too?                                     *)
Shown(k, p, b) ==
    IF <<k, p[1]>> \in DrainedHours THEN p \in slots[k]
    ELSE k \notin gone /\ Stored(k, p, b)

SameSlots ==
    restored => \A k \in Keys, p \in Passes :
        p[1] >= Oldest(now) => (p \in slots[k] <=> Shown(k, p, InFlight))

(* Which passes the rows of a key hold once a sound batch is written. *)
LEMMA WrittenByPass ==
    ASSUME NEW b, BatchSound(b), NEW S, NEW k \in Keys, NEW p
    PROVE  p \in WrittenSlots(S, b)[k] <=>
               IF <<k, p[1]>> \in b.hours THEN p \in b.slots[k]
               ELSE k \notin b.gone /\ p \in S[k]
BY DEF WrittenSlots, BatchSound

(* SlotsRecoverable, pass by pass. *)
LEMMA SlotsByPass ==
    TypeOK /\ FlushInv => (SlotsRecoverable <=> SameSlots)
<1> SUFFICES ASSUME TypeOK, FlushInv
             PROVE  SlotsRecoverable <=> SameSlots
  OBVIOUS
<1>1. ASSUME NEW k \in Keys, NEW p
      PROVE  p \in DurableSlots[k] <=> Shown(k, p, InFlight)
  <2>1. p \in WrittenSlots(job_slot, InFlight)[k] <=> Stored(k, p, InFlight)
    BY InFlightSound, WrittenByPass DEF Stored
  <2>2. p \in DurableSlots[k] <=>
            IF <<k, p[1]>> \in Drain.hours THEN p \in Drain.slots[k]
            ELSE k \notin Drain.gone /\ p \in WrittenSlots(job_slot, InFlight)[k]
    BY DrainSound, WrittenByPass DEF DurableSlots
  <2> QED
    BY <2>1, <2>2 DEF Drain, Shown
<1>2. \A k \in Keys : DurableSlots[k] \subseteq Passes /\ slots[k] \subseteq Passes
  <2>1. DurableSlots \in [Keys -> SUBSET Passes]
    BY InFlightSound, DrainType, WrittenTypes DEF DurableSlots, TypeOK
  <2> QED
    BY <2>1 DEF TypeOK
<1> QED
  BY <1>1, <1>2 DEF SlotsRecoverable, SameSlots, Window, Since

(* Every action keeps the slots recoverable. *)
LEMMA StepSlots ==
    TypeOK /\ FlushInv /\ SlotsRecoverable /\ [Next]_vars
        => SlotsRecoverable'
<1> SUFFICES ASSUME TypeOK, FlushInv, SlotsRecoverable, [Next]_vars
             PROVE  SlotsRecoverable'
  OBVIOUS
<1>0. TypeOK' /\ FlushInv' /\ SameSlots
  BY StepType, StepFlush, SlotsByPass
<1>1. SUFFICES SameSlots'
  <2>1. TypeOK' /\ FlushInv' => (SlotsRecoverable' <=> SameSlots')
    BY SlotsByPass, PTL
  <2> QED
    BY <1>0, <2>1
<1>2. /\ Oldest(now) \in Int /\ Oldest(now') \in Int
      /\ Oldest(now) <= Oldest(now')
  BY ClockForward, WindowForward
<1>3. \A p \in Passes : p[1] \in Int
  BY BoundsAssumption DEF Passes, Hours
<1>4. ASSUME restored, NEW k \in Keys, NEW p \in Passes,
             p[1] >= Oldest(now')
      PROVE  p \in slots[k] <=> Shown(k, p, InFlight)
  BY <1>0, <1>2, <1>3, <1>4 DEF SameSlots
<1> USE DEF TypeOK
<1>5. CASE /\ UNCHANGED <<tracks, slots, dirty, gone>>
           /\ UNCHANGED <<drained, flushing, job_slot, restored>>
  <2>1. InFlight' = InFlight
    BY <1>5 DEF InFlight, EmptyBatch, Nothing, Unarmed, Oldest
  <2>2. \A k \in Keys, p \in Passes :
            Shown(k, p, InFlight)' <=> Shown(k, p, InFlight)
    BY <1>5, <2>1 DEF Shown, Stored, DrainedHours
  <2> QED
    BY <1>4, <1>5, <2>2 DEF SameSlots
<1>6. ASSUME NEW j \in Keys, NEW h \in Hours, Record(j, h)
      PROVE  SameSlots'
  <2> SUFFICES ASSUME restored', NEW k \in Keys, NEW p \in Passes,
                      p[1] >= Oldest(now')
               PROVE  p \in slots'[k] <=> Shown(k, p, InFlight)'
    BY DEF SameSlots
  <2>1. InFlight' = InFlight /\ UNCHANGED <<gone, job_slot, restored, now>>
    BY <1>6 DEF Record, InFlight, EmptyBatch, Nothing, Unarmed, Oldest, store
  <2>2. p \in slots[k] <=> Shown(k, p, InFlight)
    BY <1>4, <2>1
  <2>3. Oldest(h) <= p[1]
    BY <1>6, <1>2, <1>3, SlotsAssumption, BoundsAssumption
    DEF Record, Oldest, Hours
  <2>4. \A q \in Passes : q[1] = p[1] =>
            (q \in slots'[k] <=>
                q \in slots[k] \/ (k = j /\ q = <<h, serial>>))
    BY <1>6, <2>3 DEF Record, Since
  <2>5. /\ dirty' = dirty \cup {<<j, h>>}
        /\ tracks' = tracks \cup {j}
    BY <1>6 DEF Record
  <2>6. slots'[k] \subseteq Passes /\ slots[k] \subseteq Passes
    BY <1>0
  <2>7. CASE k = j /\ p[1] = h
    <3>1. <<h, serial>> \in slots'[k] /\ <<h, serial>>[1] = h
      BY <1>6, <2>7 DEF Record
    <3>2. <<k, p[1]>> \in DrainedHours'
      BY <2>5, <2>7, <3>1 DEF DrainedHours
    <3> QED
      BY <3>2 DEF Shown
  <2>8. CASE ~(k = j /\ p[1] = h)
    <3>1. \A q \in Passes : q[1] = p[1] => (q \in slots'[k] <=> q \in slots[k])
      BY <2>4, <2>8
    <3>2. <<k, p[1]>> \in DrainedHours' <=> <<k, p[1]>> \in DrainedHours
      BY <2>5, <2>6, <2>8, <3>1, <1>0 DEF DrainedHours, FlushInv, TracksHold
    <3> QED
      BY <2>1, <2>2, <3>1, <3>2 DEF Shown, Stored
  <2> QED
    BY <2>7, <2>8
<1>7. ASSUME NEW departed \in SUBSET Symbols, Drop(departed)
      PROVE  SameSlots'
  <2>1. InFlight' = InFlight /\ UNCHANGED <<job_slot, restored, now>>
    BY <1>7 DEF Drop, InFlight, EmptyBatch, Nothing, Unarmed, Oldest, store
  <2>2. ASSUME NEW k \in Keys, NEW p \in Passes
        PROVE  Shown(k, p, InFlight)' <=>
                   k \notin departed /\ Shown(k, p, InFlight)
    BY <1>7, <2>1 DEF Drop, Shown, Stored, DrainedHours
  <2> QED
    BY <1>4, <1>7, <2>1, <2>2 DEF Drop, SameSlots
<1>8. ASSUME NEW f \in Flushers, StartFlush(f)
      PROVE  SameSlots'
  <2>1. InFlight = EmptyBatch /\ InFlight' = Drain
    BY <1>0, <1>8, InFlightMoves
  <2>2. /\ UNCHANGED <<slots, tracks, job_slot, restored, now>>
        /\ dirty' = {} /\ gone' = {}
    BY <1>8 DEF StartFlush, memory, store
  <2>3. DrainedHours' = {}
    BY <2>2 DEF DrainedHours
  <2>4. ASSUME NEW k \in Keys, NEW p \in Passes
        PROVE  Shown(k, p, InFlight)' <=> Shown(k, p, InFlight)
    <3>1. Stored(k, p, EmptyBatch) <=> p \in job_slot[k]
      BY DEF Stored, EmptyBatch
    <3>2. Shown(k, p, InFlight)' <=>
              IF <<k, p[1]>> \in Drain.hours THEN p \in Drain.slots[k]
              ELSE k \notin Drain.gone /\ p \in job_slot[k]
      BY <2>1, <2>2, <2>3 DEF Shown, Stored
    <3> QED
      BY <2>1, <3>1, <3>2 DEF Shown, Drain
  <2> QED
    BY <1>4, <2>2, <2>4 DEF SameSlots
<1>9. ASSUME NEW f \in Flushers, CommitFlush(f)
      PROVE  SameSlots'
  <2> DEFINE b == drained[f]
  <2>1. InFlight = b /\ InFlight' = EmptyBatch
    BY <1>0, <1>9, InFlightMoves
  <2>2. /\ UNCHANGED <<slots, tracks, restored, now, dirty, gone>>
        /\ job_slot' = [k \in Keys |->
               Since(b.oldest, WrittenSlots(job_slot, b)[k])]
    BY <1>9 DEF CommitFlush, memory, buffer
  <2>3. BatchSound(b) /\ b.oldest \in Int /\ b.oldest <= Oldest(now)
    BY DEF FlushInv, BatchSound, Batches
  <2>4. ASSUME NEW k \in Keys, NEW p \in Passes, p[1] >= Oldest(now)
        PROVE  Shown(k, p, InFlight)' <=> Shown(k, p, InFlight)
    <3>1. Stored(k, p, b) <=> p \in WrittenSlots(job_slot, b)[k]
      BY <2>3, WrittenByPass DEF Stored
    <3>2. p[1] >= b.oldest
      BY <1>2, <1>3, <2>3, <2>4
    <3>3. p \in job_slot'[k] <=> Stored(k, p, b)
      BY <2>2, <3>1, <3>2 DEF Since
    <3>4. Stored(k, p, EmptyBatch)' <=> p \in job_slot'[k]
      BY DEF Stored, EmptyBatch
    <3> QED
      BY <2>1, <2>2, <3>3, <3>4 DEF Shown, DrainedHours, Stored, EmptyBatch
  <2> QED
    BY <1>4, <2>2, <2>4 DEF SameSlots
<1>10. ASSUME NEW f \in Flushers, FailFlush(f)
       PROVE  SameSlots'
  <2> DEFINE b == drained[f]
  <2>1. InFlight = b /\ InFlight' = EmptyBatch
    BY <1>0, <1>10, InFlightMoves
  <2>2. /\ UNCHANGED <<slots, tracks, restored, now, job_slot>>
        /\ dirty' = dirty \cup {d \in b.hours : Alive(d[1])}
        /\ gone' = gone \cup b.gone
    BY <1>10 DEF FailFlush, memory, store
  <2>3. BatchSound(b) /\ TracksHold
    BY DEF FlushInv
  <2> SUFFICES ASSUME restored', NEW k \in Keys, NEW p \in Passes,
                      p[1] >= Oldest(now')
               PROVE  p \in slots'[k] <=> Shown(k, p, InFlight)'
    BY DEF SameSlots
  <2>4. ASSUME NEW q \in Passes, q[1] = p[1]
        PROVE  q \in slots[k] <=> Shown(k, q, b)
    BY <1>4, <2>1, <2>2, <2>4
  <2>5. Shown(k, p, InFlight)' <=>
            IF <<k, p[1]>> \in DrainedHours' THEN p \in slots[k]
            ELSE k \notin gone' /\ p \in job_slot[k]
    BY <2>1, <2>2 DEF Shown, Stored, EmptyBatch
  <2>6. CASE <<k, p[1]>> \in DrainedHours'
    BY <2>2, <2>5, <2>6
  <2>7. CASE <<k, p[1]>> \notin DrainedHours'
    <3>1. <<k, p[1]>> \notin DrainedHours
      BY <2>2, <2>7 DEF DrainedHours
    <3>2. CASE <<k, p[1]>> \in b.hours /\ k \notin gone
      <4>1. PICK q \in b.slots[k] : q[1] = p[1]
        <5>1. p[1] \in Hours
          BY DEF Passes
        <5> QED
          BY <2>3, <3>2, <5>1 DEF BatchSound
      <4>2. q \in Passes
        BY DEF Batches
      <4>3. q \in slots[k]
        BY <2>4, <3>1, <3>2, <4>1, <4>2 DEF Shown, Stored
      <4>4. k \in tracks
        BY <2>3, <4>3 DEF TracksHold
      <4>5. <<k, p[1]>> \in DrainedHours'
        BY <2>2, <3>2, <4>1, <4>3, <4>4 DEF DrainedHours, Alive
      <4> QED
        BY <2>7, <4>5
    <3>3. CASE <<k, p[1]>> \notin b.hours \/ k \in gone
      BY <2>2, <2>4, <2>5, <2>7, <3>1, <3>3 DEF Shown, Stored
    <3> QED
      BY <3>2, <3>3
  <2> QED
    BY <2>6, <2>7
<1>11. ASSUME NEW departed \in SUBSET Symbols, Restart(departed)
       PROVE  SameSlots'
  <2>1. InFlight' = EmptyBatch
    BY <1>0, <1>11, InFlightMoves DEF Restart, Flushers
  <2>2. /\ dirty' = {} /\ gone' = departed /\ now' = now
        /\ job_slot' = job_slot
        /\ slots' = [k \in Keys |-> IF k \in Keys \ departed
                                    THEN Since(Oldest(now), job_slot[k])
                                    ELSE {}]
    BY <1>11 DEF Restart, Reborn, Load, store
  <2>3. DrainedHours' = {}
    BY <2>2 DEF DrainedHours
  <2>4. ASSUME NEW k \in Keys, NEW p \in Passes
        PROVE  Shown(k, p, InFlight)' <=> k \notin departed /\ p \in job_slot[k]
    BY <2>1, <2>2, <2>3 DEF Shown, Stored, EmptyBatch
  <2> QED
    BY <2>2, <2>4 DEF SameSlots, Since
<1>12. CASE RestartBlind
  BY <1>12 DEF RestartBlind, SameSlots
<1>13. CASE Tick
  <2>1. InFlight' = InFlight
    BY <1>13 DEF Tick, InFlight, EmptyBatch, Nothing, Unarmed, Oldest
  <2>2. \A k \in Keys, p \in Passes :
            Shown(k, p, InFlight)' <=> Shown(k, p, InFlight)
    BY <1>13, <2>1 DEF Tick, Shown, Stored, DrainedHours, memory, buffer, store
  <2> QED
    BY <1>4, <1>13, <2>2 DEF SameSlots, Tick, memory
<1> QED
  BY <1>5, <1>6, <1>7, <1>8, <1>9, <1>10, <1>11, <1>12, <1>13
  DEF Next, Schedule, Forget, Retain, Flush, Stop, Close, vars, memory,
      buffer, store

(* The store, the batch under way and the buffer always determine the      *)
(* slots in memory: no failed flush loses a pass of them, and a forgotten  *)
(* symbol's slots do not come back.                                        *)
THEOREM SlotsSurvive == Spec => []SlotsRecoverable
<1>1. Init => SlotsRecoverable
  <2>1. Init => SameSlots
    BY DEF Init, SameSlots, Shown, Stored, DrainedHours, InFlight, EmptyBatch,
       Nothing
  <2> QED
    BY <2>1, InitType, InitFlush, SlotsByPass
<1>2. TypeOK /\ FlushInv /\ SlotsRecoverable /\ [Next]_vars
          => (TypeOK /\ FlushInv /\ SlotsRecoverable)'
  BY StepType, StepFlush, StepSlots
<1> QED
  BY <1>1, <1>2, InitType, InitFlush, PTL DEF Spec

-----------------------------------------------------------------------------
(* What was forgotten *)

(* The passes of S were recorded after key k was last forgotten. *)
Fresh(k, S) == \A p \in S : p[2] >= forgotten[k]

OfKey(k, S) == {x[2] : x \in {y \in S : y[1] = k}}

(* Memory is fresh, a batch is fresh but for the symbols gone since, and   *)
(* the store but for the symbols it is about to delete.                    *)
FreshInv ==
    /\ \A k \in Keys : forgotten[k] <= serial
    /\ \A k \in Keys : Fresh(k, slots[k]) /\ Fresh(k, OfKey(k, pending))
    /\ \A k \in Keys : k \notin gone =>
           /\ Fresh(k, InFlight.slots[k])
           /\ Fresh(k, OfKey(k, InFlight.passes))
           /\ k \notin InFlight.gone => Fresh(k, job_slot[k] \cup job_pass[k])

(* FreshInv is strong enough: what is not yet deleted or written is fresh. *)
LEMMA FreshEnough ==
    TypeOK /\ FlushInv /\ FreshInv => ForgottenStaysForgotten
<1> SUFFICES ASSUME TypeOK, FlushInv, FreshInv, NEW k \in Keys
             PROVE  Fresh(k, DurablePasses[k]) /\ Fresh(k, DurableSlots[k])
  BY DEF ForgottenStaysForgotten, Fresh
<1>1. Fresh(k, DurableSlots[k])
  BY DEF FreshInv, Fresh, DurableSlots, WrittenSlots, Drain
<1>2. Fresh(k, DurablePasses[k])
  BY DEF FreshInv, Fresh, DurablePasses, WrittenPasses, Drain, OfKey
<1> QED
  BY <1>1, <1>2

(* Every action keeps memory, batches and rows fresh. *)
LEMMA StepFresh == TypeOK /\ FlushInv /\ FreshInv /\ [Next]_vars => FreshInv'
<1> SUFFICES ASSUME TypeOK, FlushInv, FreshInv, [Next]_vars
             PROVE  FreshInv'
  OBVIOUS
<1>0. TypeOK' /\ FlushInv'
  BY StepType, StepFlush
<1>1. \A k \in Keys : forgotten[k] \in Nat /\ serial \in Nat
  BY DEF TypeOK
<1>2. ASSUME NEW S \in SUBSET Passes, NEW p \in S
      PROVE  p[2] \in Nat
  BY DEF Passes
<1> USE DEF FreshInv, Fresh, OfKey
<1>3. CASE /\ UNCHANGED <<serial, slots, pending, gone, drained, flushing>>
           /\ UNCHANGED <<job_slot, job_pass, forgotten>>
  BY <1>3 DEF InFlight, EmptyBatch, Nothing, Unarmed, Oldest
<1>4. ASSUME NEW j \in Keys, NEW h \in Hours, Record(j, h)
      PROVE  FreshInv'
  <2>1. InFlight' = InFlight
    BY <1>4 DEF Record, InFlight, EmptyBatch, Nothing, Unarmed, Oldest
  <2>2. serial' = serial + 1 /\ UNCHANGED <<gone, job_slot, job_pass, forgotten>>
    BY <1>4 DEF Record, store
  <2>3. \A k \in Keys : slots'[k] \subseteq slots[k] \cup {<<h, serial>>}
    BY <1>4 DEF Record, Since, TypeOK
  <2>4. \A k \in Keys : OfKey(k, pending)'
                            \subseteq OfKey(k, pending) \cup {<<h, serial>>}
    BY <1>4 DEF Record
  <2>5. \A k \in Keys : forgotten[k] <= serial
    OBVIOUS
  <2> QED
    BY <1>1, <2>1, <2>2, <2>3, <2>4, <2>5
<1>5. ASSUME NEW departed \in SUBSET Symbols, Drop(departed)
      PROVE  FreshInv'
  <2>1. InFlight' = InFlight
    BY <1>5 DEF Drop, InFlight, EmptyBatch, Nothing, Unarmed, Oldest
  <2>2. /\ UNCHANGED <<serial, job_slot, job_pass>>
        /\ gone' = gone \cup departed
        /\ pending' = {x \in pending : x[1] \notin departed}
    BY <1>5 DEF Drop, store
  <2>3. \A k \in Keys :
            /\ slots'[k] = IF k \in departed THEN {} ELSE slots[k]
            /\ forgotten'[k] = IF k \in departed THEN serial ELSE forgotten[k]
    BY <1>5 DEF Drop
  <2> QED
    BY <1>1, <2>1, <2>2, <2>3
<1>6. ASSUME NEW f \in Flushers, StartFlush(f)
      PROVE  FreshInv'
  <2>1. InFlight = EmptyBatch /\ InFlight' = Drain
    BY <1>0, <1>6, InFlightMoves
  <2>2. /\ UNCHANGED <<serial, slots, job_slot, job_pass, forgotten>>
        /\ pending' = {} /\ gone' = {}
    BY <1>6 DEF StartFlush, memory, store
  <2>3. /\ Drain.gone = gone /\ Drain.passes = pending
        /\ \A k \in Keys : Drain.slots[k] \subseteq slots[k]
    BY DEF Drain
  <2>4. EmptyBatch.gone = {}
    BY DEF EmptyBatch
  <2> QED
    BY <2>1, <2>2, <2>3, <2>4
<1>7. ASSUME NEW f \in Flushers, CommitFlush(f)
      PROVE  FreshInv'
  <2> DEFINE b == drained[f]
  <2>1. InFlight = b /\ InFlight' = EmptyBatch
    BY <1>0, <1>7, InFlightMoves
  <2>2. /\ UNCHANGED <<serial, slots, pending, gone, forgotten>>
        /\ \A k \in Keys :
               /\ job_slot'[k] \subseteq WrittenSlots(job_slot, b)[k]
               /\ job_pass'[k] \subseteq WrittenPasses(job_pass, b)[k]
    BY <1>7 DEF CommitFlush, memory, buffer, Since, Newest
  <2>3. ASSUME NEW k \in Keys, k \notin gone
        PROVE  /\ Fresh(k, WrittenSlots(job_slot, b)[k])
               /\ Fresh(k, WrittenPasses(job_pass, b)[k])
    BY <2>1, <2>3 DEF WrittenSlots, WrittenPasses
  <2>4. EmptyBatch.gone = {} /\ EmptyBatch.passes = {}
        /\ \A k \in Keys : EmptyBatch.slots[k] = {}
    BY DEF EmptyBatch, Nothing
  <2> QED
    BY <2>1, <2>2, <2>3, <2>4
<1>8. ASSUME NEW f \in Flushers, FailFlush(f)
      PROVE  FreshInv'
  <2> DEFINE b == drained[f]
  <2>1. InFlight = b /\ InFlight' = EmptyBatch
    BY <1>0, <1>8, InFlightMoves
  <2>2. /\ UNCHANGED <<serial, slots, job_slot, job_pass, forgotten>>
        /\ gone' = gone \cup b.gone
        /\ pending' \subseteq {x \in b.passes : Alive(x[1])} \cup pending
    BY <1>8 DEF FailFlush, memory, store, Capped
  <2>3. EmptyBatch.gone = {} /\ EmptyBatch.passes = {}
        /\ \A k \in Keys : EmptyBatch.slots[k] = {}
    BY DEF EmptyBatch, Nothing
  <2> QED
    BY <2>1, <2>2, <2>3 DEF Alive
<1>9. CASE RestartBlind \/ \E departed \in SUBSET Symbols : Restart(departed)
  <2>1. Reborn
    BY <1>9 DEF Restart, RestartBlind
  <2>2. InFlight' = EmptyBatch
    BY <1>0, <2>1, InFlightMoves DEF Flushers
  <2>3. /\ UNCHANGED <<serial, job_slot, job_pass>> /\ pending' = {}
        /\ \A k \in Keys : slots'[k] \subseteq job_slot[k]
    BY <1>9 DEF Restart, RestartBlind, Reborn, Load, Since, store
  <2>4. \A k \in Keys : IF k \in gone' THEN slots'[k] = {} /\ forgotten'[k] = serial
                        ELSE forgotten'[k] = 0
    BY <1>9 DEF Restart, RestartBlind, Load
  <2>5. EmptyBatch.passes = {} /\ \A k \in Keys : EmptyBatch.slots[k] = {}
    BY DEF EmptyBatch, Nothing
  <2>6. \A k \in Keys : \A p \in job_slot[k] \cup job_pass[k] : p[2] >= 0
    BY <1>2 DEF TypeOK
  <2> QED
    BY <1>1, <2>2, <2>3, <2>4, <2>5, <2>6
<1> QED
  BY <1>3, <1>4, <1>5, <1>6, <1>7, <1>8, <1>9
  DEF Next, Tick, Schedule, Forget, Retain, Flush, Stop, Close, vars, memory,
      buffer, store

(* A symbol forgotten while a flush holds its batch stays forgotten, even  *)
(* when that flush fails and the symbol is back by then.                   *)
THEOREM ForgettingHolds == Spec => []ForgottenStaysForgotten
<1>1. Init => FreshInv
  BY DEF Init, FreshInv, Fresh, OfKey, InFlight, EmptyBatch, Nothing
<1>2. TypeOK /\ FlushInv /\ FreshInv /\ [Next]_vars
          => (TypeOK /\ FlushInv /\ FreshInv)'
  BY StepType, StepFlush, StepFresh
<1> QED
  BY <1>1, <1>2, InitType, InitFlush, FreshEnough, PTL DEF Spec

-----------------------------------------------------------------------------
(* The passes the job history keeps in full are written, for every set of  *)
(* keys and however many flushes fail: only a cap cuts one, and then it is *)
(* no longer of the newest. The facts follow, from ranks to the theorem.   *)

(* Things of distinct ranks between two ranks are no more than the ranks.  *)
LEMMA RanksCounted ==
    ASSUME NEW T, NEW f \in [T -> Nat], NEW r \in Nat, NEW n \in Nat,
           \A x \in T : r < f[x] /\ f[x] < n,
           \A x, y \in T : f[x] = f[y] => x = y
    PROVE  /\ Cardinality(T) \in Nat
           /\ Cardinality(T) >= RECENT => n - 1 - r >= RECENT
<1> DEFINE Between == (r + 1) .. (n - 1)
<1>1. f \in Injection(T, Between)
  BY DEF Injection, IsInjective
<1>2. /\ IsFiniteSet(Between)
      /\ Cardinality(Between) = IF r + 1 > n - 1 THEN 0 ELSE n - 1 - (r + 1) + 1
  BY FS_Interval
<1>3. IsFiniteSet(T) /\ Cardinality(T) <= Cardinality(Between)
  BY <1>1, <1>2, FS_Injection
<1>4. Cardinality(T) \in Nat
  BY <1>3, FS_CardinalityType
<1> QED
  BY <1>2, <1>3, <1>4, RecentAssumption

(* The passes under each key, each with its rank. *)
Ranked(S) ==
    /\ \A x \in S : x[2][2] < serial
    /\ \A x, y \in S : x[2][2] = y[2][2] => x = y

(* A pass that Newest leaves out is followed by RECENT others. *)
LEMMA LeftOutIsOld ==
    ASSUME NEW S \in SUBSET Passes, NEW n \in Nat,
           \A q \in S : q[2] < n,
           \A q, o \in S : q[2] = o[2] => q = o,
           NEW p \in S, p \notin Newest(S)
    PROVE  n - 1 - p[2] >= RECENT
<1> DEFINE T == {q \in S : q[2] > p[2]}
           f == [q \in T |-> q[2]]
<1>1. ~(Cardinality(T) < RECENT)
  BY DEF Newest
<1>2. p[2] \in Nat /\ \A q \in T : q[2] \in Nat
  BY DEF Passes
<1>3. f \in [T -> Nat] /\ \A x \in T : p[2] < f[x] /\ f[x] < n
  BY <1>2
<1>4. \A x, y \in T : f[x] = f[y] => x = y
  OBVIOUS
<1> HIDE DEF T, f
<1>5. /\ Cardinality(T) \in Nat
      /\ Cardinality(T) >= RECENT => n - 1 - p[2] >= RECENT
  BY <1>2, <1>3, <1>4, RanksCounted
<1> QED
  BY <1>1, <1>5, RecentAssumption

(* So is a pass that undrain cuts, whosever they are. *)
LEMMA CutIsOld ==
    ASSUME NEW S \in SUBSET (Keys \X Passes), serial \in Nat, Ranked(S),
           IsFiniteSet(tracks), NEW x \in S, x \notin Capped(S)
    PROVE  serial - 1 - x[2][2] >= RECENT
<1> DEFINE T == {y \in S : y[2][2] > x[2][2]}
           f == [y \in T |-> y[2][2]]
           tracked == Cardinality(tracks)
           cap == RECENT * (IF tracked > 1 THEN tracked ELSE 1)
<1>1. ~(Cardinality(T) < cap)
  BY DEF Capped
<1>2. tracked \in Nat
  BY FS_CardinalityType
<1>3. cap \in Nat /\ cap >= RECENT
  <2>1. ASSUME NEW m \in Nat, m > 1
        PROVE  RECENT * m \in Nat /\ RECENT * m >= RECENT
    BY <2>1, RecentAssumption
  <2> QED
    BY <1>2, <2>1, RecentAssumption
<1>4. x[2][2] \in Nat /\ \A y \in T : y[2][2] \in Nat
  BY DEF Passes
<1>5. f \in [T -> Nat] /\ \A y \in T : x[2][2] < f[y] /\ f[y] < serial
  BY <1>4 DEF Ranked
<1>6. \A y, z \in T : f[y] = f[z] => y = z
  BY DEF Ranked
<1> HIDE DEF T, f, cap
<1>7. /\ Cardinality(T) \in Nat
      /\ Cardinality(T) >= RECENT => serial - 1 - x[2][2] >= RECENT
  BY <1>4, <1>5, <1>6, RanksCounted
<1> QED
  BY <1>1, <1>3, <1>7, RecentAssumption

-----------------------------------------------------------------------------
(* The passes there are, each under its key *)

(* The rows of the store. *)
Rows == {x \in Keys \X Passes : x[2] \in job_pass[x[1]]}

Known == pending \cup InFlight.passes \cup Rows

(* No two of them have the same rank, and none a rank to come. *)
RanksInv == Ranked(Known)

(* A finite set of keys has all there is. *)
Touches(F) ==
    /\ tracks \subseteq F
    /\ \A k \in Keys \ F : /\ slots[k] = {} /\ InFlight.slots[k] = {}
                          /\ job_slot[k] = {} /\ job_pass[k] = {}
    /\ \A x \in pending \cup InFlight.passes : x[1] \in F

FiniteInv == \E F \in SUBSET Keys : IsFiniteSet(F) /\ Touches(F)

(* A pass is in the store or on its way there. *)
OnItsWay(k, p) ==
    \/ <<k, p>> \in pending
    \/ /\ k \notin gone
       /\ \/ <<k, p>> \in InFlight.passes
          \/ k \notin InFlight.gone /\ p \in job_pass[k]

KeptInv ==
    /\ \A k \in Keys : k \notin tracks => recent[k] = {}
    /\ \A k \in Keys : \A p \in recent[k] :
          OnItsWay(k, p) \/ serial - 1 - p[2] >= RECENT

PassesInv == RanksInv /\ FiniteInv /\ KeptInv

(* A row written is a row of before, of a key not departed, or a pass of   *)
(* the batch.                                                              *)
LEMMA WrittenIs ==
    ASSUME TypeOK, NEW b \in Batches, NEW k \in Keys, NEW p
    PROVE  p \in WrittenPasses(job_pass, b)[k] <=>
               \/ <<k, p>> \in b.passes
               \/ k \notin b.gone /\ p \in job_pass[k]
<1>1. b.passes \subseteq Keys \X Passes
  BY DEF Batches
<1>2. p \in {x[2] : x \in {y \in b.passes : y[1] = k}} <=> <<k, p>> \in b.passes
  <2>1. ASSUME NEW x \in b.passes
        PROVE  x = <<x[1], x[2]>>
    BY <1>1
  <2>2. ASSUME <<k, p>> \in b.passes
        PROVE  p \in {x[2] : x \in {y \in b.passes : y[1] = k}}
    <3>1. <<k, p>>[1] = k /\ <<k, p>>[2] = p
      OBVIOUS
    <3> QED
      BY <2>2, <3>1
  <2> QED
    BY <2>1, <2>2
<1>3. WrittenPasses(job_pass, b)[k]
          = (IF k \in b.gone THEN {} ELSE job_pass[k])
                \cup {x[2] : x \in {y \in b.passes : y[1] = k}}
  BY DEF WrittenPasses
<1> QED
  BY <1>2, <1>3

(* The rows, the batch under way and the buffer say which are on their way.*)
LEMMA DurableIs ==
    ASSUME TypeOK, FlushInv, NEW k \in Keys, NEW p
    PROVE  p \in DurablePasses[k] <=> OnItsWay(k, p)
<1>1. Drain.gone = gone /\ Drain.passes = pending
  BY DEF Drain
<1>2. p \in {x[2] : x \in {y \in pending : y[1] = k}} <=> <<k, p>> \in pending
  <2>1. ASSUME NEW x \in pending
        PROVE  x = <<x[1], x[2]>>
    BY DEF TypeOK
  <2>2. ASSUME <<k, p>> \in pending
        PROVE  p \in {x[2] : x \in {y \in pending : y[1] = k}}
    <3>1. <<k, p>>[1] = k /\ <<k, p>>[2] = p
      OBVIOUS
    <3> QED
      BY <2>2, <3>1
  <2> QED
    BY <2>1, <2>2
<1>3. p \in WrittenPasses(job_pass, InFlight)[k] <=>
          \/ <<k, p>> \in InFlight.passes
          \/ k \notin InFlight.gone /\ p \in job_pass[k]
  BY InFlightSound, WrittenIs
<1>4. DurablePasses[k]
          = (IF k \in gone THEN {} ELSE WrittenPasses(job_pass, InFlight)[k])
                \cup {x[2] : x \in {y \in pending : y[1] = k}}
  <2> DEFINE W == WrittenPasses(job_pass, InFlight)
  <2> HIDE DEF W
  <2>1. WrittenPasses(W, Drain)[k]
            = (IF k \in Drain.gone THEN {} ELSE W[k])
                  \cup {x[2] : x \in {y \in Drain.passes : y[1] = k}}
    BY DEF WrittenPasses
  <2>2. DurablePasses = WrittenPasses(W, Drain)
    BY DEF DurablePasses, W
  <2> QED
    BY <1>1, <2>1, <2>2 DEF W
<1> QED
  BY <1>2, <1>3, <1>4 DEF OnItsWay

-----------------------------------------------------------------------------
(* What a step does to the passes there are *)

(* A commit only writes passes there were. *)
LEMMA WrittenKnown ==
    ASSUME TypeOK, FlushInv, NEW f \in Flushers, InFlight = drained[f],
           NEW k \in Keys
    PROVE  /\ WrittenPasses(job_pass, drained[f])[k] \in SUBSET Passes
           /\ \A p \in WrittenPasses(job_pass, drained[f])[k] : <<k, p>> \in Known
<1> DEFINE b == drained[f]
<1>1. b \in Batches
  BY DEF TypeOK
<1>2. WrittenPasses(job_pass, b) \in [Keys -> SUBSET Passes]
  BY <1>1, WrittenTypes DEF TypeOK
<1>3. WrittenPasses(job_pass, b)[k] \in SUBSET Passes
  BY <1>2
<1>4. ASSUME NEW p \in WrittenPasses(job_pass, b)[k]
      PROVE  <<k, p>> \in Known
  <2>1. p \in Passes /\ <<k, p>> \in Keys \X Passes
    BY <1>3
  <2>2. <<k, p>>[1] = k /\ <<k, p>>[2] = p
    OBVIOUS
  <2>3. <<k, p>> \in b.passes \/ p \in job_pass[k]
    BY <1>1, WrittenIs
  <2> QED
    BY <2>1, <2>2, <2>3 DEF Known, Rows
<1> QED
  BY <1>3, <1>4

(* A step makes no pass but the one it records, of the rank to come. *)
LEMMA KnownMoves ==
    ASSUME TypeOK, FlushInv, [Next]_vars
    PROVE  \/ serial' = serial /\ Known' \subseteq Known
           \/ /\ serial' = serial + 1
              /\ \E k \in Keys, h \in Hours :
                     Known' \subseteq Known \cup {<<k, <<h, serial>>>>}
<1>0. TypeOK' /\ FlushInv'
  BY StepType, StepFlush
<1>1. CASE UNCHANGED <<serial, pending, drained, flushing, job_pass>>
  <2>1. InFlight' = InFlight
    BY <1>1 DEF InFlight, EmptyBatch, Nothing, Unarmed, Oldest
  <2> QED
    BY <1>1, <2>1 DEF Known, Rows
<1>2. ASSUME NEW k \in Keys, NEW h \in Hours, Record(k, h)
      PROVE  /\ serial' = serial + 1
             /\ Known' \subseteq Known \cup {<<k, <<h, serial>>>>}
  <2>1. InFlight' = InFlight
    BY <1>2 DEF Record, InFlight, EmptyBatch, Nothing, Unarmed, Oldest
  <2>2. /\ serial' = serial + 1 /\ job_pass' = job_pass
        /\ pending' = pending \cup {<<k, <<h, serial>>>>}
    BY <1>2 DEF Record, store
  <2> QED
    BY <2>1, <2>2 DEF Known, Rows
<1>3. ASSUME NEW departed \in SUBSET Symbols, Drop(departed)
      PROVE  serial' = serial /\ Known' \subseteq Known
  <2>1. InFlight' = InFlight
    BY <1>3 DEF Drop, InFlight, EmptyBatch, Nothing, Unarmed, Oldest
  <2>2. serial' = serial /\ job_pass' = job_pass /\ pending' \subseteq pending
    BY <1>3 DEF Drop, store
  <2> QED
    BY <2>1, <2>2 DEF Known, Rows
<1>4. ASSUME NEW f \in Flushers, StartFlush(f)
      PROVE  serial' = serial /\ Known' \subseteq Known
  <2>1. InFlight' = Drain /\ Drain.passes = pending
    BY <1>0, <1>4, InFlightMoves DEF Drain
  <2>2. serial' = serial /\ job_pass' = job_pass /\ pending' = {}
    BY <1>4 DEF StartFlush, store
  <2> QED
    BY <2>1, <2>2 DEF Known, Rows
<1>5. ASSUME NEW f \in Flushers, CommitFlush(f)
      PROVE  serial' = serial /\ Known' \subseteq Known
  <2>1. /\ InFlight = drained[f] /\ InFlight' = EmptyBatch
        /\ EmptyBatch.passes = {}
    BY <1>0, <1>5, InFlightMoves DEF EmptyBatch
  <2>2. /\ serial' = serial /\ pending' = pending
        /\ \A k \in Keys :
               job_pass'[k] \subseteq WrittenPasses(job_pass, drained[f])[k]
    BY <1>5 DEF CommitFlush, buffer, Newest
  <2>3. ASSUME NEW x \in Rows'
        PROVE  x \in Known
    <3>1. x = <<x[1], x[2]>> /\ x[1] \in Keys /\ x[2] \in job_pass'[x[1]]
      BY DEF Rows
    <3> QED
      BY <2>1, <2>2, <3>1, WrittenKnown
  <2> QED
    BY <2>1, <2>2, <2>3 DEF Known
<1>6. ASSUME NEW f \in Flushers, FailFlush(f)
      PROVE  serial' = serial /\ Known' \subseteq Known
  <2>1. /\ InFlight = drained[f] /\ InFlight' = EmptyBatch
        /\ EmptyBatch.passes = {}
    BY <1>0, <1>6, InFlightMoves DEF EmptyBatch
  <2>2. /\ serial' = serial /\ job_pass' = job_pass
        /\ pending' \subseteq drained[f].passes \cup pending
    BY <1>6 DEF FailFlush, store, Capped
  <2> QED
    BY <2>1, <2>2 DEF Known, Rows
<1>7. CASE Reborn
  <2>1. InFlight' = EmptyBatch /\ EmptyBatch.passes = {}
    BY <1>0, <1>7, InFlightMoves DEF EmptyBatch, Flushers
  <2>2. serial' = serial /\ job_pass' = job_pass /\ pending' = {}
    BY <1>7 DEF Reborn, store
  <2> QED
    BY <2>1, <2>2 DEF Known, Rows
<1> QED
  BY <1>1, <1>2, <1>3, <1>4, <1>5, <1>6, <1>7
  DEF Next, Tick, Schedule, Forget, Retain, Flush, Stop, Close, Restart,
      RestartBlind, vars, memory, buffer, store

(* So the ranks stay distinct. *)
LEMMA StepRanks == TypeOK /\ FlushInv /\ RanksInv /\ [Next]_vars => RanksInv'
<1> SUFFICES ASSUME TypeOK, FlushInv, RanksInv, [Next]_vars
             PROVE  RanksInv'
  OBVIOUS
<1>1. /\ \A x \in Known : x[2][2] < serial
      /\ \A x, y \in Known : x[2][2] = y[2][2] => x = y
  BY DEF RanksInv, Ranked
<1>2. ASSUME NEW x \in Known
      PROVE  x[2][2] \in Nat /\ serial \in Nat
  BY InFlightSound DEF Known, Rows, Batches, Passes, TypeOK
<1>3. SUFFICES /\ \A x \in Known' : x[2][2] < serial'
               /\ \A x, y \in Known' : x[2][2] = y[2][2] => x = y
  BY DEF RanksInv, Ranked
<1>4. CASE serial' = serial /\ Known' \subseteq Known
  BY <1>1, <1>4
<1>5. ASSUME serial' = serial + 1, NEW k \in Keys, NEW h \in Hours,
             Known' \subseteq Known \cup {<<k, <<h, serial>>>>}
      PROVE  /\ \A x \in Known' : x[2][2] < serial'
             /\ \A x, y \in Known' : x[2][2] = y[2][2] => x = y
  <2>1. serial \in Nat /\ <<k, <<h, serial>>>>[2][2] = serial
    BY DEF TypeOK
  <2>2. ASSUME NEW x \in Known'
        PROVE  x = <<k, <<h, serial>>>> \/ (x \in Known /\ x[2][2] < serial)
    BY <1>1, <1>5
  <2> QED
    BY <1>1, <1>2, <1>5, <2>1, <2>2
<1> QED
  BY <1>4, <1>5, KnownMoves

-----------------------------------------------------------------------------
(* Only finitely many keys have anything *)

(* A step brings at most one key. *)
LEMMA StepFinite == TypeOK /\ FlushInv /\ FiniteInv /\ [Next]_vars => FiniteInv'
<1> SUFFICES ASSUME TypeOK, FlushInv, FiniteInv, [Next]_vars
             PROVE  FiniteInv'
  OBVIOUS
<1>0. FlushInv'
  BY StepType, StepFlush
<1>1. PICK F \in SUBSET Keys : IsFiniteSet(F) /\ Touches(F)
  BY DEF FiniteInv
<1>2. /\ tracks \subseteq F
      /\ \A k \in Keys \ F : /\ slots[k] = {} /\ InFlight.slots[k] = {}
                            /\ job_slot[k] = {} /\ job_pass[k] = {}
      /\ \A x \in pending \cup InFlight.passes : x[1] \in F
  BY <1>1 DEF Touches
<1>3. ASSUME NEW G \in SUBSET Keys, IsFiniteSet(G), Touches(G)'
      PROVE  FiniteInv'
  BY <1>3 DEF FiniteInv
<1>4. EmptyBatch.passes = {} /\ \A k \in Keys : EmptyBatch.slots[k] = {}
  BY DEF EmptyBatch, Nothing
<1>5. CASE UNCHANGED <<tracks, slots, pending, drained, flushing, job_slot,
                       job_pass>>
  <2>1. InFlight' = InFlight
    BY <1>5 DEF InFlight, EmptyBatch, Nothing, Unarmed, Oldest
  <2>2. Touches(F)'
    BY <1>2, <1>5, <2>1 DEF Touches
  <2> QED
    BY <1>1, <1>3, <2>2
<1>6. ASSUME NEW j \in Keys, NEW h \in Hours, Record(j, h)
      PROVE  FiniteInv'
  <2> DEFINE G == F \cup {j}
  <2>1. G \in SUBSET Keys /\ IsFiniteSet(G)
    BY <1>1, FS_AddElement
  <2>2. InFlight' = InFlight
    BY <1>6 DEF Record, InFlight, EmptyBatch, Nothing, Unarmed, Oldest
  <2>3. /\ UNCHANGED <<job_slot, job_pass>> /\ tracks' = tracks \cup {j}
        /\ \A k \in Keys : k # j => slots'[k] = slots[k]
        /\ pending' = pending \cup {<<j, <<h, serial>>>>}
    BY <1>6 DEF Record, store, TypeOK
  <2>4. <<j, <<h, serial>>>>[1] = j
    OBVIOUS
  <2>5. Touches(G)'
    BY <1>2, <2>2, <2>3, <2>4 DEF Touches
  <2> QED
    BY <1>3, <2>1, <2>5
<1>7. ASSUME NEW departed \in SUBSET Symbols, Drop(departed)
      PROVE  FiniteInv'
  <2>1. InFlight' = InFlight
    BY <1>7 DEF Drop, InFlight, EmptyBatch, Nothing, Unarmed, Oldest
  <2>2. /\ UNCHANGED <<job_slot, job_pass>> /\ tracks' \subseteq tracks
        /\ \A k \in Keys : slots'[k] \subseteq slots[k]
        /\ pending' \subseteq pending
    BY <1>7 DEF Drop, store
  <2>3. Touches(F)'
    BY <1>2, <2>1, <2>2 DEF Touches
  <2> QED
    BY <1>1, <1>3, <2>3
<1>8. ASSUME NEW f \in Flushers, StartFlush(f)
      PROVE  FiniteInv'
  <2>1. InFlight' = Drain
    BY <1>0, <1>8, InFlightMoves
  <2>2. /\ Drain.passes = pending
        /\ \A k \in Keys : Drain.slots[k] \subseteq slots[k]
    BY DEF Drain
  <2>3. UNCHANGED <<tracks, slots, job_slot, job_pass>> /\ pending' = {}
    BY <1>8 DEF StartFlush, memory, store
  <2>4. Touches(F)'
    BY <1>2, <2>1, <2>2, <2>3 DEF Touches
  <2> QED
    BY <1>1, <1>3, <2>4
<1>9. ASSUME NEW f \in Flushers, CommitFlush(f)
      PROVE  FiniteInv'
  <2> DEFINE b == drained[f]
  <2>1. InFlight = b /\ InFlight' = EmptyBatch
    BY <1>0, <1>9, InFlightMoves
  <2>2. /\ UNCHANGED <<tracks, slots, pending>>
        /\ \A k \in Keys :
               /\ job_slot'[k] \subseteq WrittenSlots(job_slot, b)[k]
               /\ job_pass'[k] \subseteq WrittenPasses(job_pass, b)[k]
    BY <1>9 DEF CommitFlush, memory, buffer, Since, Newest
  <2>3. ASSUME NEW k \in Keys \ F
        PROVE  job_slot'[k] = {} /\ job_pass'[k] = {}
    <3>1. WrittenSlots(job_slot, b)[k] = {}
      BY <1>2, <2>1 DEF WrittenSlots
    <3>2. ASSUME NEW p \in WrittenPasses(job_pass, b)[k]
          PROVE  FALSE
      <4>1. <<k, p>> \in b.passes \/ p \in job_pass[k]
        BY WrittenIs DEF TypeOK
      <4>2. <<k, p>>[1] = k
        OBVIOUS
      <4> QED
        BY <1>2, <2>1, <4>1, <4>2
    <3> QED
      BY <2>2, <3>1, <3>2
  <2>4. Touches(F)'
    BY <1>2, <1>4, <2>1, <2>2, <2>3 DEF Touches
  <2> QED
    BY <1>1, <1>3, <2>4
<1>10. ASSUME NEW f \in Flushers, FailFlush(f)
       PROVE  FiniteInv'
  <2>1. InFlight = drained[f] /\ InFlight' = EmptyBatch
    BY <1>0, <1>10, InFlightMoves
  <2>2. /\ UNCHANGED <<tracks, slots, job_slot, job_pass>>
        /\ pending' \subseteq drained[f].passes \cup pending
    BY <1>10 DEF FailFlush, memory, store, Capped
  <2>3. Touches(F)'
    BY <1>2, <1>4, <2>1, <2>2 DEF Touches
  <2> QED
    BY <1>1, <1>3, <2>3
<1>11. ASSUME Reborn, NEW K \in SUBSET Keys, Load(K)
       PROVE  FiniteInv'
  <2>1. InFlight' = EmptyBatch
    BY <1>0, <1>11, InFlightMoves DEF Flushers
  <2>2. /\ UNCHANGED <<job_slot, job_pass>> /\ pending' = {}
        /\ \A k \in Keys : slots'[k] \subseteq job_slot[k]
        /\ \A k \in tracks' : k \in Keys /\ (job_slot[k] # {} \/ job_pass[k] # {})
    BY <1>11 DEF Reborn, Load, Since, store
  <2>3. Touches(F)'
    BY <1>2, <1>4, <2>1, <2>2 DEF Touches
  <2> QED
    BY <1>1, <1>3, <2>3
<1> QED
  BY <1>5, <1>6, <1>7, <1>8, <1>9, <1>10, <1>11
  DEF Next, Tick, Schedule, Forget, Retain, Flush, Stop, Close, Restart,
      RestartBlind, vars, memory, buffer, store

-----------------------------------------------------------------------------
(* The passes kept in full *)

(* Every action keeps a pass of memory stored, on its way, or old. *)
LEMMA StepKept == TypeOK /\ FlushInv /\ PassesInv /\ [Next]_vars => KeptInv'
<1> SUFFICES ASSUME TypeOK, FlushInv, PassesInv, [Next]_vars
             PROVE  KeptInv'
  OBVIOUS
<1>0. TypeOK' /\ FlushInv' /\ RanksInv
  BY StepType, StepFlush DEF PassesInv
<1>1. /\ \A k \in Keys : k \notin tracks => recent[k] = {}
      /\ \A k \in Keys : \A p \in recent[k] :
            OnItsWay(k, p) \/ serial - 1 - p[2] >= RECENT
  BY DEF PassesInv, KeptInv
<1>2. \A k \in Keys : recent[k] \subseteq Passes
  BY DEF TypeOK
<1>3. IsFiniteSet(tracks)
  BY FS_Subset DEF PassesInv, FiniteInv, Touches
<1>4. CASE UNCHANGED <<serial, tracks, recent, pending, gone, drained,
                       flushing, job_pass>>
  <2>1. InFlight' = InFlight
    BY <1>4 DEF InFlight, EmptyBatch, Nothing, Unarmed, Oldest
  <2> QED
    BY <1>1, <1>4, <2>1 DEF KeptInv, OnItsWay
<1>5. ASSUME NEW j \in Keys, NEW h \in Hours, Record(j, h)
      PROVE  KeptInv'
  <2>1. InFlight' = InFlight
    BY <1>5 DEF Record, InFlight, EmptyBatch, Nothing, Unarmed, Oldest
  <2>2. /\ serial' = serial + 1 /\ tracks' = tracks \cup {j}
        /\ UNCHANGED <<gone, job_pass>>
        /\ pending' = pending \cup {<<j, <<h, serial>>>>}
        /\ \A k \in Keys : k # j => recent'[k] = recent[k]
        /\ recent'[j] \subseteq recent[j] \cup {<<h, serial>>}
    BY <1>5 DEF Record, store, TypeOK, Newest
  <2>3. ASSUME NEW k \in Keys, NEW p \in recent'[k]
        PROVE  OnItsWay(k, p)' \/ serial' - 1 - p[2] >= RECENT
    <3>1. CASE k = j /\ p = <<h, serial>>
      BY <2>2, <3>1 DEF OnItsWay
    <3>2. CASE p \in recent[k]
      <4>1. OnItsWay(k, p) => OnItsWay(k, p)'
        BY <2>1, <2>2 DEF OnItsWay
      <4>2. p[2] \in Nat /\ serial \in Nat /\ RECENT \in Nat
        BY <1>2, <3>2, RecentAssumption DEF Passes, TypeOK
      <4> QED
        BY <1>1, <2>2, <3>2, <4>1, <4>2
    <3> QED
      BY <2>2, <3>1, <3>2
  <2> QED
    BY <1>1, <2>2, <2>3 DEF KeptInv
<1>6. ASSUME NEW departed \in SUBSET Symbols, Drop(departed)
      PROVE  KeptInv'
  <2>1. InFlight' = InFlight
    BY <1>6 DEF Drop, InFlight, EmptyBatch, Nothing, Unarmed, Oldest
  <2>2. /\ UNCHANGED <<serial, job_pass>> /\ tracks' = tracks \ departed
        /\ gone' = gone \cup departed
        /\ pending' = {x \in pending : x[1] \notin departed}
        /\ \A k \in Keys :
               recent'[k] = IF k \in departed THEN {} ELSE recent[k]
    BY <1>6 DEF Drop, store
  <2>3. ASSUME NEW k \in Keys, k \notin departed, NEW p, OnItsWay(k, p)
        PROVE  OnItsWay(k, p)'
    <3>1. <<k, p>>[1] = k
      OBVIOUS
    <3> QED
      BY <2>1, <2>2, <2>3, <3>1 DEF OnItsWay
  <2> QED
    BY <1>1, <2>2, <2>3 DEF KeptInv
<1>7. ASSUME NEW f \in Flushers, StartFlush(f)
      PROVE  KeptInv'
  <2>1. InFlight = EmptyBatch /\ InFlight' = Drain
    BY <1>0, <1>7, InFlightMoves
  <2>2. /\ Drain.passes = pending /\ Drain.gone = gone
        /\ EmptyBatch.passes = {} /\ EmptyBatch.gone = {}
    BY DEF Drain, EmptyBatch
  <2>3. /\ UNCHANGED <<serial, tracks, recent, job_pass>>
        /\ pending' = {} /\ gone' = {}
    BY <1>7 DEF StartFlush, memory, store
  <2> QED
    BY <1>1, <2>1, <2>2, <2>3 DEF KeptInv, OnItsWay
<1>8. ASSUME NEW f \in Flushers, CommitFlush(f)
      PROVE  KeptInv'
  <2> DEFINE b == drained[f]
             W(k) == WrittenPasses(job_pass, b)[k]
  <2>1. /\ InFlight = b /\ InFlight' = EmptyBatch
        /\ EmptyBatch.passes = {} /\ EmptyBatch.gone = {}
    BY <1>0, <1>8, InFlightMoves DEF EmptyBatch
  <2>2. /\ UNCHANGED <<serial, tracks, recent, pending, gone>>
        /\ \A k \in Keys : job_pass'[k] = Newest(W(k))
    BY <1>8 DEF CommitFlush, memory, buffer
  <2>3. ASSUME NEW k \in Keys, NEW p \in W(k), p \notin Newest(W(k))
        PROVE  serial - 1 - p[2] >= RECENT
    <3>1. W(k) \in SUBSET Passes /\ \A q \in W(k) : <<k, q>> \in Known
      BY <2>1, WrittenKnown
    <3>2. ASSUME NEW q
          PROVE  <<k, q>>[2] = q
      OBVIOUS
    <3>3. /\ \A q \in W(k) : q[2] < serial
          /\ \A q, o \in W(k) : q[2] = o[2] => q = o
      <4> HIDE DEF W
      <4> QED
        BY <1>0, <3>1, <3>2 DEF RanksInv, Ranked
    <3>4. serial \in Nat
      BY DEF TypeOK
    <3> HIDE DEF W
    <3> QED
      BY <2>3, <3>1, <3>3, <3>4, LeftOutIsOld
  <2>4. ASSUME NEW k \in Keys, NEW p \in recent[k], OnItsWay(k, p)
        PROVE  OnItsWay(k, p)' \/ serial - 1 - p[2] >= RECENT
    <3>1. CASE <<k, p>> \in pending
      BY <2>2, <3>1 DEF OnItsWay
    <3>2. CASE /\ k \notin gone
               /\ <<k, p>> \in b.passes \/ (k \notin b.gone /\ p \in job_pass[k])
      <4>1. p \in W(k)
        BY <3>2, WrittenIs DEF TypeOK
      <4>2. p \in Newest(W(k)) => OnItsWay(k, p)'
        BY <2>1, <2>2, <3>2 DEF OnItsWay
      <4> QED
        BY <2>3, <4>1, <4>2
    <3> QED
      BY <2>1, <2>4, <3>1, <3>2 DEF OnItsWay
  <2> QED
    BY <1>1, <2>2, <2>4 DEF KeptInv
<1>9. ASSUME NEW f \in Flushers, FailFlush(f)
      PROVE  KeptInv'
  <2> DEFINE b == drained[f]
             S == {x \in b.passes : Alive(x[1])} \cup pending
  <2>1. /\ InFlight = b /\ InFlight' = EmptyBatch
        /\ EmptyBatch.passes = {} /\ EmptyBatch.gone = {}
    BY <1>0, <1>9, InFlightMoves DEF EmptyBatch
  <2>2. /\ UNCHANGED <<serial, tracks, recent, job_pass>>
        /\ pending' = Capped(S)
        /\ gone' = gone \cup b.gone
    BY <1>9 DEF FailFlush, memory, store
  <2>3. S \subseteq Known
    BY <2>1 DEF Known
  <2>4. S \in SUBSET (Keys \X Passes) /\ serial \in Nat
    BY DEF TypeOK, Batches
  <2>5. Ranked(S)
    <3> HIDE DEF S
    <3> QED
      BY <1>0, <2>3 DEF RanksInv, Ranked
  <2>6. ASSUME NEW x \in S, x \notin Capped(S)
        PROVE  serial - 1 - x[2][2] >= RECENT
    <3> HIDE DEF S
    <3> QED
      BY <1>3, <2>4, <2>5, <2>6, CutIsOld
  <2>7. ASSUME NEW k \in Keys, NEW p \in recent[k], OnItsWay(k, p)
        PROVE  OnItsWay(k, p)' \/ serial - 1 - p[2] >= RECENT
    <3>1. <<k, p>>[1] = k /\ <<k, p>>[2] = p
      OBVIOUS
    <3>2. CASE <<k, p>> \in S
      <4>1. <<k, p>> \in Capped(S) => OnItsWay(k, p)'
        BY <2>2 DEF OnItsWay
      <4> HIDE DEF S
      <4> QED
        BY <2>6, <3>1, <3>2, <4>1
    <3>3. CASE k \notin gone /\ <<k, p>> \in b.passes
      <4>1. k \in tracks
        BY <1>1
      <4>2. <<k, p>> \in S
        BY <3>1, <3>3, <4>1 DEF Alive
      <4> QED
        BY <3>2, <4>2
    <3>4. CASE k \notin gone /\ k \notin b.gone /\ p \in job_pass[k]
      BY <2>1, <2>2, <3>4 DEF OnItsWay
    <3> QED
      BY <2>1, <2>7, <3>2, <3>3, <3>4 DEF OnItsWay
  <2> QED
    BY <1>1, <2>2, <2>7 DEF KeptInv
<1>10. ASSUME Reborn, NEW K \in SUBSET Keys, Load(K),
              gone' \cap K = {}
       PROVE  KeptInv'
  <2>1. /\ InFlight' = EmptyBatch
        /\ EmptyBatch.passes = {} /\ EmptyBatch.gone = {}
    BY <1>0, <1>10, InFlightMoves DEF EmptyBatch, Flushers
  <2>2. /\ job_pass' = job_pass
        /\ \A k \in Keys : recent'[k] = IF k \in K THEN job_pass[k] ELSE {}
        /\ \A k \in K : k \notin tracks' => job_pass[k] = {}
    BY <1>10 DEF Reborn, Load, store
  <2> QED
    BY <1>10, <2>1, <2>2 DEF KeptInv, OnItsWay
<1>11. ASSUME NEW departed \in SUBSET Symbols, Restart(departed)
       PROVE  KeptInv'
  BY <1>10, <1>11 DEF Restart
<1>12. CASE RestartBlind
  BY <1>10, <1>12 DEF RestartBlind
<1> QED
  BY <1>4, <1>5, <1>6, <1>7, <1>8, <1>9, <1>11, <1>12
  DEF Next, Tick, Schedule, Forget, Retain, Flush, Stop, Close, vars, memory,
      buffer, store

(* At the start there is nothing. *)
LEMMA InitPasses == Init => PassesInv
<1> SUFFICES ASSUME Init
             PROVE  PassesInv
  OBVIOUS
<1>1. InFlight = EmptyBatch
  BY DEF Init, InFlight
<1>2. /\ EmptyBatch.passes = {} /\ pending = {} /\ tracks = {}
      /\ \A k \in Keys : /\ slots[k] = {} /\ EmptyBatch.slots[k] = {}
                        /\ job_slot[k] = {} /\ job_pass[k] = {}
                        /\ recent[k] = {}
  BY DEF Init, EmptyBatch, Nothing
<1>3. Known = {}
  BY <1>1, <1>2 DEF Known, Rows
<1>4. IsFiniteSet({}) /\ Touches({})
  BY <1>1, <1>2, FS_EmptySet DEF Touches
<1> QED
  BY <1>2, <1>3, <1>4 DEF PassesInv, RanksInv, Ranked, FiniteInv, KeptInv

(* A pass kept in full is in the store, in the batch under way or in the   *)
(* buffer, or RECENT later passes exist: neither undrain's cap on the      *)
(* passes of a failed flush nor the pruning of a commit                    *)
(* (job_history.py 244-261, job_store.py) loses a pass the System page     *)
(* would still list after a boot, unless RECENT passes came after it.      *)
THEOREM PassesSurvive == Spec => []PassesKept
<1>1. TypeOK /\ FlushInv /\ PassesInv /\ [Next]_vars
          => (TypeOK /\ FlushInv /\ PassesInv)'
  BY StepType, StepFlush, StepRanks, StepFinite, StepKept DEF PassesInv
<1>2. TypeOK /\ FlushInv /\ PassesInv => PassesKept
  BY DurableIs DEF PassesInv, KeptInv, PassesKept
<1> QED
  BY <1>1, <1>2, InitType, InitFlush, InitPasses, PTL DEF Spec

-----------------------------------------------------------------------------
(* The job history implements DurableHistory: every flush is one atomic    *)
(* batch of it, and a boot finds what the last batch written held.         *)

(* The abstract state, under short names. *)
Live == FactsOf(slots, armed)
Taken == FactsOf(WrittenSlots(job_slot, InFlight),
                 WrittenSchedule(job_schedule, InFlight))
Durable == FactsOf(job_slot, job_schedule)
AllFacts ==
    ({"slot"} \X Keys \X Passes) \cup ({"arming"} \X Symbols \X Armings)

(* What a set of facts holds: the passes of the window, and the armings. *)
HasFact(S, A, x) ==
    \/ \E k \in Keys : \E p \in Window(S[k]) : x = <<"slot", k, p>>
    \/ \E s \in Symbols : A[s] # NoArming /\ x = <<"arming", s, A[s]>>

(* Two states of the store with the same windows and armings hold the same *)
(* facts.                                                                  *)
LEMMA SameFacts ==
    ASSUME NEW S, NEW T, NEW A, NEW B,
           \A k \in Keys : Window(S[k]) = Window(T[k]),
           \A s \in Symbols : A[s] = B[s]
    PROVE  FactsOf(S, A) = FactsOf(T, B)
BY DEF FactsOf

(* The same, fact by fact. *)
LEMMA FactIn ==
    ASSUME NEW S, NEW A, NEW x
    PROVE  x \in FactsOf(S, A) <=> HasFact(S, A, x)
BY DEF FactsOf, HasFact

(* The facts of well-typed passes and armings are facts of DurableHistory. *)
LEMMA FactsType ==
    ASSUME NEW S \in [Keys -> SUBSET Passes],
           NEW A \in [Symbols -> MaybeArming]
    PROVE  FactsOf(S, A) \subseteq AllFacts
<1> SUFFICES ASSUME NEW x \in FactsOf(S, A)
             PROVE  x \in AllFacts
  OBVIOUS
<1>0. HasFact(S, A, x)
  BY FactIn
<1>1. ASSUME NEW k \in Keys, NEW p \in Window(S[k]), x = <<"slot", k, p>>
      PROVE  x \in AllFacts
  BY <1>1 DEF Window, Since, AllFacts
<1>2. ASSUME NEW s \in Symbols, A[s] # NoArming, x = <<"arming", s, A[s]>>
      PROVE  x \in AllFacts
  BY <1>2 DEF MaybeArming, AllFacts
<1> QED
  BY <1>0, <1>1, <1>2 DEF HasFact

(* What every step of the refinement rests on. *)
Inv == TypeOK /\ FlushInv /\ SlotsRecoverable /\ ArmingRecoverable

(* It always holds. *)
LEMMA InvAlways == Spec => []Inv
BY TypeCorrect, FlushAlways, SlotsSurvive, ArmingsSurvive, PTL DEF Inv

(* With no batch under way, the store is what the last batch leaves. *)
BetweenBatches == InFlight = EmptyBatch => Taken = Durable

(* Because writing nothing changes nothing. *)
LEMMA NothingTaken == TypeOK => BetweenBatches
BY WrittenEmpty DEF Taken, Durable, TypeOK, BetweenBatches

(* The initial states correspond. *)
LEMMA InitRefines == Init => Promise!Init
<1> SUFFICES ASSUME Init
             PROVE  Promise!Init
  OBVIOUS
<1>1. \A S \in {slots, job_slot} : \A k \in Keys : Window(S[k]) = {}
  BY DEF Init, Nothing, Window, Since
<1>2. Live = {} /\ Durable = {}
  BY <1>1 DEF Init, Unarmed, Live, Durable, FactsOf
<1>3. InFlight = EmptyBatch
  BY DEF Init, InFlight
<1>4. Taken = Durable
  BY <1>3, InitType, NothingTaken DEF BetweenBatches
<1> QED
  BY <1>2, <1>4 DEF Promise!Init, Live, Taken, Durable, Init

-----------------------------------------------------------------------------
(* The abstract step each action makes. *)

(* What memory holds is always a set of facts. *)
LiveKnown == Live \subseteq AllFacts

(* Because the memory is well typed. *)
LEMMA LiveIsKnown == TypeOK => LiveKnown
BY FactsType DEF TypeOK, Live, LiveKnown

(* Recording, arming and forgetting touch memory only. *)
LEMMA ChangeRefines ==
    ASSUME TypeOK',
           UNCHANGED <<now, restored, drained, flushing, job_slot, job_schedule>>
    PROVE  Live' \subseteq AllFacts /\ UNCHANGED <<Taken, Durable, restored>>
<1>1. Live' \subseteq AllFacts
  <2>1. TypeOK' => LiveKnown'
    BY LiveIsKnown, PTL
  <2> QED
    BY <2>1 DEF LiveKnown, AllFacts
<1>2. InFlight' = InFlight
  BY DEF InFlight, EmptyBatch, Nothing, Unarmed, Oldest
<1> QED
  BY <1>1, <1>2 DEF Taken, Durable, FactsOf, WrittenSlots, WrittenSchedule,
     Window

(* A flush that starts takes what memory holds: the slots and the armings  *)
(* the buffer and the store make up are the ones in memory.                *)
LEMMA TakeRefines ==
    ASSUME Inv, Inv', restored, NEW f \in Flushers, StartFlush(f)
    PROVE  Taken' = Live /\ UNCHANGED <<Live, Durable, restored>>
<1>1. InFlight = EmptyBatch /\ InFlight' = Drain
  BY InFlightMoves DEF Inv
<1>2. UNCHANGED <<now, slots, armed, job_slot, job_schedule, restored>>
  BY DEF StartFlush, memory, store
<1>3. /\ WrittenSlots(job_slot, EmptyBatch) = job_slot
      /\ WrittenSchedule(job_schedule, EmptyBatch) = job_schedule
  BY WrittenEmpty DEF Inv, TypeOK
<1>4. \A k \in Keys :
          Window(WrittenSlots(job_slot, Drain)[k]) = Window(slots[k])
  BY <1>1, <1>3 DEF Inv, SlotsRecoverable, DurableSlots
<1>5. WrittenSchedule(job_schedule, Drain) = armed
  BY <1>1, <1>3 DEF Inv, ArmingRecoverable, DurableSchedule
<1>6. FactsOf(WrittenSlots(job_slot, Drain),
              WrittenSchedule(job_schedule, Drain)) = Live
  BY <1>4, <1>5, SameFacts DEF Live
<1>7. Taken' = FactsOf(WrittenSlots(job_slot, Drain),
                       WrittenSchedule(job_schedule, Drain))
  BY <1>1, <1>2
  DEF Taken, FactsOf, WrittenSlots, WrittenSchedule, Window
<1> QED
  BY <1>2, <1>6, <1>7 DEF Live, Durable, FactsOf, Window

(* A flush the store takes makes what it took durable.                     *)
LEMMA PersistRefines ==
    ASSUME Inv, Inv', NEW f \in Flushers, CommitFlush(f)
    PROVE  Durable' = Taken /\ UNCHANGED <<Live, Taken, restored>>
<1> DEFINE b == drained[f]
<1>1. InFlight = b /\ InFlight' = EmptyBatch
  BY InFlightMoves DEF Inv
<1>2. /\ UNCHANGED <<now, slots, armed, restored>>
      /\ job_slot' = [k \in Keys |->
             Since(b.oldest, WrittenSlots(job_slot, b)[k])]
      /\ job_schedule' = WrittenSchedule(job_schedule, b)
  BY DEF CommitFlush, memory
<1>3. /\ b.oldest \in Int /\ Oldest(now) \in Int
      /\ b.oldest <= Oldest(now)
  BY SlotsAssumption, BoundsAssumption
  DEF Inv, FlushInv, BatchSound, TypeOK, Batches, Oldest, Hours
<1>4. \A k \in Keys : WrittenSlots(job_slot, b)[k] \subseteq Passes
  <2>1. WrittenSlots(job_slot, b) \in [Keys -> SUBSET Passes]
    BY WrittenTypes DEF Inv, TypeOK
  <2> QED
    BY <2>1
<1>5. \A p \in Passes : p[1] \in Int
  BY BoundsAssumption DEF Passes, Hours
<1>6. \A k \in Keys :
          Window(job_slot'[k]) = Window(WrittenSlots(job_slot, b)[k])
  BY <1>2, <1>3, <1>4, <1>5 DEF Window, Since
<1>7. FactsOf(job_slot', job_schedule') = Taken
  BY <1>1, <1>2, <1>6, SameFacts DEF Taken
<1>8. Durable' = FactsOf(job_slot', job_schedule')
  BY <1>2 DEF Durable, FactsOf, Window
<1>9. Taken' = Durable'
  <2>1. TypeOK' => BetweenBatches'
    BY NothingTaken, PTL
  <2>2. EmptyBatch' = EmptyBatch
    BY DEF EmptyBatch, Nothing, Unarmed, Oldest
  <2> QED
    BY <1>1, <2>1, <2>2 DEF Inv, BetweenBatches
<1> QED
  BY <1>2, <1>7, <1>8, <1>9 DEF Live, FactsOf, Window

(* A flush the store refuses leaves it as it was.                          *)
LEMMA RefuseRefines ==
    ASSUME Inv, Inv', NEW f \in Flushers, FailFlush(f)
    PROVE  Taken' = Durable /\ UNCHANGED <<Live, Durable, restored>>
<1>1. InFlight' = EmptyBatch
  BY InFlightMoves DEF Inv
<1>2. UNCHANGED <<now, slots, armed, restored, job_slot, job_schedule>>
  BY DEF FailFlush, memory, store
<1>3. UNCHANGED <<Live, Durable, restored>>
  BY <1>2 DEF Live, Durable, FactsOf, Window
<1>4. Taken' = Durable'
  <2>1. TypeOK' => BetweenBatches'
    BY NothingTaken, PTL
  <2>2. EmptyBatch' = EmptyBatch
    BY DEF EmptyBatch, Nothing, Unarmed, Oldest
  <2> QED
    BY <1>1, <2>1, <2>2 DEF Inv, BetweenBatches
<1> QED
  BY <1>3, <1>4

(* A boot that reads the store finds what the last batch left.             *)
LEMMA BootRefines ==
    ASSUME Inv, Inv', NEW departed \in SUBSET Symbols, Restart(departed)
    PROVE  /\ Live' \subseteq Durable
           /\ Taken' = Durable /\ Durable' = Durable /\ restored' = TRUE
<1>1. InFlight' = EmptyBatch
  BY InFlightMoves DEF Inv, Restart, Flushers
<1>2. /\ UNCHANGED <<now, job_slot, job_schedule>> /\ restored' = TRUE
      /\ \A k \in Keys : slots'[k] \subseteq job_slot[k]
      /\ \A s \in Symbols : armed'[s] \in {NoArming, job_schedule[s]}
  BY DEF Restart, Reborn, Load, Since, store
<1>3. Durable' = Durable
  BY <1>2 DEF Durable, FactsOf, Window
<1>4. Taken' = Durable'
  <2>1. TypeOK' => BetweenBatches'
    BY NothingTaken, PTL
  <2>2. EmptyBatch' = EmptyBatch
    BY DEF EmptyBatch, Nothing, Unarmed, Oldest
  <2> QED
    BY <1>1, <2>1, <2>2 DEF Inv, BetweenBatches
<1>5. FactsOf(slots', armed') \subseteq Durable
  <2> SUFFICES ASSUME NEW x, HasFact(slots', armed', x)
               PROVE  HasFact(job_slot, job_schedule, x)
    BY FactIn DEF Durable
  <2>1. \A k \in Keys : Window(slots'[k]) \subseteq Window(job_slot[k])
    BY <1>2 DEF Window, Since
  <2> QED
    BY <1>2, <2>1 DEF HasFact
<1>6. Live' = FactsOf(slots', armed')
  BY <1>2 DEF Live, FactsOf, Window
<1> QED
  BY <1>2, <1>3, <1>4, <1>5, <1>6

(* A pass that leaves the window as the next hour begins. *)
Expired(x) == x[1] = "slot" /\ ~(x[3][1] >= Oldest(now'))

(* When the clock turns, the same facts leave everywhere. *)
LEMMA AgeRefines ==
    ASSUME Inv, Tick
    PROVE  /\ Live' = {x \in Live : ~Expired(x)}
           /\ Taken' = {x \in Taken : ~Expired(x)}
           /\ Durable' = {x \in Durable : ~Expired(x)}
           /\ restored' = restored
<1>1. now \in Hours /\ now' \in Hours /\ now <= now'
  BY ClockForward DEF Inv, Next
<1>2. /\ Oldest(now) \in Int /\ Oldest(now') \in Int
      /\ Oldest(now) <= Oldest(now')
  BY <1>1, WindowForward
<1>3. \A p \in Passes : p[1] \in Int
  BY BoundsAssumption DEF Passes, Hours
<1>4. ASSUME NEW S \in [Keys -> SUBSET Passes], NEW A
      PROVE  (UNION {{<<"slot", k, p>> : p \in Since(Oldest(now'), S[k])} :
                        k \in Keys})
                 \cup {<<"arming", s, A[s]>> :
                           s \in {t \in Symbols : A[t] # NoArming}}
                 = {x \in FactsOf(S, A) : ~Expired(x)}
  <2>1. ASSUME NEW k \in Keys, NEW p
        PROVE  p \in Since(Oldest(now'), S[k]) <=>
                   p \in Window(S[k]) /\ ~Expired(<<"slot", k, p>>)
    BY <1>2, <1>3 DEF Since, Window, Expired
  <2>2. \A s \in Symbols : ~Expired(<<"arming", s, A[s]>>)
    BY DEF Expired
  <2> QED
    BY <2>1, <2>2 DEF FactsOf
<1>5. /\ slots \in [Keys -> SUBSET Passes]
      /\ job_slot \in [Keys -> SUBSET Passes]
      /\ WrittenSlots(job_slot, InFlight) \in [Keys -> SUBSET Passes]
  BY InFlightSound, WrittenTypes DEF Inv, TypeOK
<1>6. InFlight' = InFlight
  BY DEF Tick, InFlight, EmptyBatch, Nothing, Unarmed, Oldest
<1>7. UNCHANGED <<slots, armed, job_slot, job_schedule, restored>>
  BY DEF Tick, memory, store
<1>8. /\ WrittenSlots(job_slot, InFlight)' = WrittenSlots(job_slot, InFlight)
      /\ WrittenSchedule(job_schedule, InFlight)'
             = WrittenSchedule(job_schedule, InFlight)
  BY <1>6, <1>7 DEF WrittenSlots, WrittenSchedule
<1>9. Live' = {x \in Live : ~Expired(x)}
  BY <1>4, <1>5, <1>7 DEF Live, FactsOf, Window
<1>10. Durable' = {x \in Durable : ~Expired(x)}
  BY <1>4, <1>5, <1>7 DEF Durable, FactsOf, Window
<1>11. Taken' = {x \in Taken : ~Expired(x)}
  BY <1>4, <1>5, <1>8 DEF Taken, FactsOf, Window
<1> QED
  BY <1>7, <1>9, <1>10, <1>11

-----------------------------------------------------------------------------
(* Each step of the job history is a step of DurableHistory, or none of    *)
(* it. *)
LEMMA StepRefines ==
    Inv /\ Inv' /\ [Next]_vars => [Promise!Next]_(Promise!vars)
<1> SUFFICES ASSUME Inv, Inv', [Next]_vars
             PROVE  \/ Promise!Next
                    \/ UNCHANGED <<Live, Taken, Durable, restored>>
  BY DEF Promise!vars, Live, Taken, Durable
<1> USE DEF Promise!Next, Promise!Sighted, Promise!Change, Promise!Take,
            Promise!Persist, Promise!Refuse, Promise!Age, Promise!Restart,
            Promise!Blind
<1> DEFINE Goal == \/ Promise!Next
                   \/ UNCHANGED <<Live, Taken, Durable, restored>>
<1>0. restored \in BOOLEAN /\ restored' \in BOOLEAN
  BY DEF Inv, TypeOK
<1>1. CASE ~restored'
  BY <1>0, <1>1
<1>2. ASSUME restored, UNCHANGED restored, Live' \subseteq AllFacts,
             UNCHANGED <<Taken, Durable>>
      PROVE  Goal
  BY <1>2 DEF AllFacts, Live, Taken, Durable
<1>3. ASSUME restored', NEW departed \in SUBSET Symbols, Restart(departed)
      PROVE  Goal
  BY <1>3, BootRefines DEF Live, Taken, Durable
<1>4. CASE restored' /\ (\A d \in SUBSET Symbols : ~Restart(d)) /\ ~RestartBlind
  <2>1. restored /\ restored' = restored
    BY <1>4 DEF Next, Tick, Record, Schedule, Forget, Retain, Drop, Flush,
       StartFlush, CommitFlush, FailFlush, Stop, Close, vars
  <2>2. CASE UNCHANGED <<now, drained, flushing, job_slot, job_schedule>>
    <3>1. Live' \subseteq AllFacts /\ UNCHANGED <<Taken, Durable>>
      BY <2>1, <2>2, ChangeRefines DEF Inv
    <3> QED
      BY <1>2, <2>1, <3>1
  <2>3. ASSUME NEW f \in Flushers, StartFlush(f)
        PROVE  Goal
    BY <2>1, <2>3, TakeRefines DEF Live, Taken, Durable
  <2>4. ASSUME NEW f \in Flushers, CommitFlush(f)
        PROVE  Goal
    BY <2>1, <2>4, PersistRefines DEF Live, Taken, Durable
  <2>5. ASSUME NEW f \in Flushers, FailFlush(f)
        PROVE  Goal
    BY <2>1, <2>5, RefuseRefines DEF Live, Taken, Durable
  <2>6. CASE Tick
    <3>1. /\ Live' = {x \in Live : ~Expired(x)}
          /\ Taken' = {x \in Taken : ~Expired(x)}
          /\ Durable' = {x \in Durable : ~Expired(x)}
      BY <2>6, AgeRefines
    <3> DEFINE old == (Live \ Live') \cup (Taken \ Taken')
                          \cup (Durable \ Durable')
    <3>2. Live' = Live \ old /\ Taken' = Taken \ old
          /\ Durable' = Durable \ old
      BY <3>1
    <3>3. Promise!Age
      BY <2>1, <3>2 DEF Live, Taken, Durable
    <3> QED
      BY <2>1, <3>3
  <2> QED
    BY <1>4, <2>2, <2>3, <2>4, <2>5, <2>6
    DEF Next, Record, Schedule, Forget, Retain, Drop, Flush, Stop, Close,
        vars, memory, buffer, store
<1> QED
  BY <1>0, <1>1, <1>3, <1>4 DEF RestartBlind

(* The job history implements DurableHistory: whatever flushes fail, and   *)
(* whenever the process dies, a boot that can read the store finds the     *)
(* slots and the armings of one earlier moment, the last the store took.   *)
THEOREM Refines == Spec => KeepsPromise
<1>1. Init => Promise!Init
  BY InitRefines
<1>2. Inv /\ Inv' /\ [Next]_vars => [Promise!Next]_(Promise!vars)
  BY StepRefines
<1> QED
  BY <1>1, <1>2, InvAlways, PTL DEF Spec, KeepsPromise, Promise!Spec
=============================================================================

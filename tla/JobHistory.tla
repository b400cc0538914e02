----------------------------- MODULE JobHistory -----------------------------
(***************************************************************************)
(* The jobs' recent passes, kept in memory and written to the store in     *)
(* batches (application/job_history.py and application/job_store.py).      *)
(*                                                                         *)
(* A pass only touches memory.  Every 30 s, and once at shutdown, a flush  *)
(* drains what changed, writes it in one transaction, and puts it back     *)
(* when the store refuses.  A boot reloads what the store kept.            *)
(*                                                                         *)
(* A pass is <<hour, serial>>: the hour it started in and its rank among   *)
(* all the passes recorded.  An hourly slot's counters, durations and last *)
(* error are functions of the passes it counted, so a slot IS that set of  *)
(* passes: slots[k] holds the passes counted in the slots of key k.        *)
(***************************************************************************)
EXTENDS Integers, FiniteSets

CONSTANTS
    Symbols,    \* the keys (SCRAPE, symbol)
    Jobs,       \* the keys (job, None)
    SLOTS,      \* hours a track keeps (24)
    RECENT,     \* passes a track keeps in full (20)
    Armings,    \* values of a Schedule: next run, failure count
    NoArming,   \* no Schedule noted
    MaxHour,    \* bound: last hour of the clock
    MaxPasses   \* bound: passes recorded

ASSUME SlotsAssumption == SLOTS \in Nat \ {0}
ASSUME RecentAssumption == RECENT \in Nat \ {0}
ASSUME KeysAssumption == Symbols \cap Jobs = {}
ASSUME ArmingAssumption == NoArming \notin Armings
ASSUME BoundsAssumption == MaxHour \in Nat /\ MaxPasses \in Nat

Keys == Symbols \cup Jobs
Hours == 0 .. MaxHour
Passes == Hours \X Nat
MaybeArming == Armings \cup {NoArming}

(* The two callers of job_store.flush: the 30 s entry, shutdown_runtime. *)
Flushers == {"interval", "shutdown"}

VARIABLES
    now,         \* the wall clock's hour
    serial,      \* rank of the next pass
    tracks,      \* the keys of _tracks
    slots,       \* key -> the passes its slots count
    recent,      \* key -> the passes it keeps in full
    dirty,       \* _dirty: slots to write
    pending,     \* _pending: passes to write, each with its key
    schedule,    \* _schedule: armings to write
    gone,        \* _gone: symbols to delete
    drained,     \* flusher -> the batch it holds between drain and commit
    flushing,    \* flusher -> is it between drain and commit?
    job_slot,    \* the store: key -> passes counted by its rows
    job_pass,    \* the store: key -> passes
    job_schedule,\* the store: symbol -> arming
    phase,       \* the process: "up", "stopping", "flushed", "closed"
    restored,    \* did this process's boot read the store?
    armed,       \* history: symbol -> its last arming not forgotten since
    forgotten    \* history: key -> rank of the first pass after it was
                 \* last forgotten by this process

memory == <<tracks, slots, recent>>
buffer == <<dirty, pending, schedule, gone>>
store == <<job_slot, job_pass, job_schedule>>
vars == <<now, serial, memory, buffer, drained, flushing, store, phase,
          restored, armed, forgotten>>

-----------------------------------------------------------------------------
(* Passes and windows *)

(* The first hour of the window of SLOTS hours that ends at hour h. *)
Oldest(h) == h - (SLOTS - 1)

Since(h, S) == {p \in S : p[1] >= h}

(* A deque of RECENT passes after S was appended to it in order. *)
Newest(S) == {p \in S : Cardinality({q \in S : q[2] > p[2]}) < RECENT}

Nothing == [k \in Keys |-> {}]
Unarmed == [s \in Symbols |-> NoArming]

-----------------------------------------------------------------------------
(* A batch: what drain hands over, and what writing it does to the store.  *)

Batches == [hours : SUBSET (Keys \X Hours),       \* the keys of Drained.slots
            slots : [Keys -> SUBSET Passes],      \* their content, copied
            passes : SUBSET (Keys \X Passes),
            schedule : [Symbols -> MaybeArming],
            gone : SUBSET Symbols,
            oldest : Int]                         \* the flush's own clock

EmptyBatch == [hours |-> {}, slots |-> Nothing, passes |-> {},
               schedule |-> Unarmed, gone |-> {}, oldest |-> Oldest(0)]

(* JobHistory.drain: the dirty slots still in their track, copied. *)
DrainedHours ==
    {d \in dirty : d[1] \in tracks /\ \E p \in slots[d[1]] : p[1] = d[2]}

Drain ==
    [hours |-> DrainedHours,
     slots |-> [k \in Keys |->
                   {p \in slots[k] : <<k, p[1]>> \in DrainedHours}],
     passes |-> pending,
     schedule |-> schedule,
     gone |-> gone,
     oldest |-> Oldest(now)]

(* Mutant: the departed deleted after the upserts. *)
WrittenSlotsThenDeleted(rows, b) ==
    [k \in Keys |->
        IF k \in b.gone THEN {}
        ELSE {p \in rows[k] : <<k, p[1]>> \notin b.hours} \cup b.slots[k]]

(* The transaction of _flush: the departed deleted first, then the upserts. *)
WrittenSlots(rows, b) ==
    [k \in Keys |->
        {p \in rows[k] : k \notin b.gone /\ <<k, p[1]>> \notin b.hours}
            \cup b.slots[k]]

WrittenPasses(rows, b) ==
    [k \in Keys |->
        (IF k \in b.gone THEN {} ELSE rows[k])
            \cup {x[2] : x \in {y \in b.passes : y[1] = k}}]

WrittenSchedule(rows, b) ==
    [s \in Symbols |->
        IF b.schedule[s] # NoArming THEN b.schedule[s]
        ELSE IF s \in b.gone THEN NoArming
        ELSE rows[s]]

-----------------------------------------------------------------------------
Init ==
    /\ now = 0 /\ serial = 0
    /\ tracks = {} /\ slots = Nothing /\ recent = Nothing
    /\ dirty = {} /\ pending = {} /\ schedule = Unarmed /\ gone = {}
    /\ drained = [f \in Flushers |-> EmptyBatch]
    /\ flushing = [f \in Flushers |-> FALSE]
    /\ job_slot = Nothing /\ job_pass = Nothing /\ job_schedule = Unarmed
    /\ phase = "up"
    /\ restored = TRUE
    /\ armed = Unarmed
    /\ forgotten = [k \in Keys |-> 0]

(* The clock turns an hour. *)
Tick ==
    /\ now < MaxHour
    /\ now' = now + 1
    /\ UNCHANGED <<serial, memory, buffer, drained, flushing, store, phase,
                   restored, armed, forgotten>>

(***************************************************************************)
(* JobHistory.record: a pass that started in hour h ends.  It started this *)
(* hour or the one before.  The passes of one key end in the order they    *)
(* started: the scheduler runs one at a time.  (Two passes of one job that *)
(* two requests start at once and that end in the other order are left     *)
(* out.)                                                                   *)
(***************************************************************************)
Record(k, h) ==
    LET pass == <<h, serial>>
    IN  /\ serial < MaxPasses
        /\ h \in {now, now - 1}
        /\ \A p \in recent[k] : p[1] <= h
        /\ serial' = serial + 1
        /\ tracks' = tracks \cup {k}
        /\ slots' = [slots EXCEPT ![k] = Since(Oldest(h), @) \cup {pass}]
        /\ recent' = [recent EXCEPT ![k] = Newest(@ \cup {pass})]
        /\ dirty' = dirty \cup {<<k, h>>}
        /\ pending' = pending \cup {<<k, pass>>}
        /\ UNCHANGED <<now, schedule, gone, drained, flushing, store, phase,
                       restored, armed, forgotten>>

(* JobHistory.schedule: a scrape entry was armed. *)
Schedule(s, a) ==
    /\ schedule' = [schedule EXCEPT ![s] = a]
    /\ armed' = [armed EXCEPT ![s] = a]
    /\ UNCHANGED <<now, serial, memory, dirty, pending, gone, drained,
                   flushing, store, phase, restored, forgotten>>

(***************************************************************************)
(* JobHistory._drop, for each symbol of a set: out of memory and of what   *)
(* the next flush writes, and into what it deletes.                        *)
(***************************************************************************)
Drop(departed) ==
    /\ tracks' = tracks \ departed
    /\ slots' = [k \in Keys |-> IF k \in departed THEN {} ELSE slots[k]]
    /\ recent' = [k \in Keys |-> IF k \in departed THEN {} ELSE recent[k]]
    /\ dirty' = {d \in dirty : d[1] \notin departed}
    /\ pending' = {x \in pending : x[1] \notin departed}
    /\ schedule' = [s \in Symbols |->
                       IF s \in departed THEN NoArming ELSE schedule[s]]
    /\ gone' = gone \cup departed
    /\ armed' = [s \in Symbols |->
                    IF s \in departed THEN NoArming ELSE armed[s]]
    /\ forgotten' = [k \in Keys |->
                        IF k \in departed THEN serial ELSE forgotten[k]]
    /\ UNCHANGED <<now, serial, drained, flushing, store, phase, restored>>

(* JobHistory.forget, through RuntimeRecorder.forget_scrape or JobFamily. *)
Forget(s) == Drop({s})

(* Mutant: the singleton jobs' tracks are judged by the symbols kept. *)
RetainAnyKey(keep) == Drop(tracks \ keep)

(***************************************************************************)
(* JobHistory.retain, after a replay: of the symbols that have a track, it *)
(* keeps those the ledger still names.                                     *)
(***************************************************************************)
Retain(keep) == Drop((tracks \cap Symbols) \ keep)

-----------------------------------------------------------------------------
(* The flush *)

(* Mutant: no _flushing, two flushes at once. *)
StartFlushUnlocked(f) ==
    /\ ~flushing[f]
    /\ f = "shutdown" => phase = "stopping"
    /\ flushing' = [flushing EXCEPT ![f] = TRUE]
    /\ drained' = [drained EXCEPT ![f] = Drain]
    /\ dirty' = {} /\ pending' = {} /\ schedule' = Unarmed /\ gone' = {}
    /\ phase' = IF f = "shutdown" THEN "flushed" ELSE phase
    /\ UNCHANGED <<now, serial, memory, store, restored, armed, forgotten>>

(* job_store.flush, up to the drain.  _flushing admits one at a time. *)
StartFlush(f) ==
    /\ \A g \in Flushers : ~flushing[g]
    /\ f = "shutdown" => phase = "stopping"
    /\ flushing' = [flushing EXCEPT ![f] = TRUE]
    /\ drained' = [drained EXCEPT ![f] = Drain]
    /\ dirty' = {} /\ pending' = {} /\ schedule' = Unarmed /\ gone' = {}
    /\ phase' = IF f = "shutdown" THEN "flushed" ELSE phase
    /\ UNCHANGED <<now, serial, memory, store, restored, armed, forgotten>>

EndFlush(f) ==
    /\ flushing' = [flushing EXCEPT ![f] = FALSE]
    /\ drained' = [drained EXCEPT ![f] = EmptyBatch]

(***************************************************************************)
(* The transaction commits: the batch, then the two prunings, which leave  *)
(* the hours of the flush's own window and RECENT passes of each key.      *)
(***************************************************************************)
CommitFlush(f) ==
    LET b == drained[f]
    IN  /\ flushing[f]
        /\ phase # "closed"
        /\ EndFlush(f)
        /\ job_slot' = [k \in Keys |->
               Since(b.oldest, WrittenSlots(job_slot, b)[k])]
        /\ job_pass' = [k \in Keys |-> Newest(WrittenPasses(job_pass, b)[k])]
        /\ job_schedule' = WrittenSchedule(job_schedule, b)
        /\ UNCHANGED <<now, serial, memory, buffer, phase, restored, armed,
                       forgotten>>

(* Mutant: a key forgotten and back since the drain is alive. *)
AliveIfTracked(k) == k \in tracks

(* undrain's alive: a key the batch may still speak for. *)
Alive(k) == k \in tracks /\ k \notin gone

(* undrain's cap on the passes put back, one for all the keys. *)
Capped(S) ==
    LET tracked == Cardinality(tracks)
        cap == RECENT * (IF tracked > 1 THEN tracked ELSE 1)
    IN  {x \in S : Cardinality({y \in S : y[2][2] > x[2][2]}) < cap}

(* Mutant: the batch put back over what was noted since. *)
FailFlushOverwriting(f) ==
    LET b == drained[f]
    IN  /\ flushing[f]
        /\ EndFlush(f)
        /\ dirty' = dirty \cup {d \in b.hours : Alive(d[1])}
        /\ pending' = Capped({x \in b.passes : Alive(x[1])} \cup pending)
        /\ schedule' = [s \in Symbols |->
               IF b.schedule[s] = NoArming \/ s \in gone
               THEN schedule[s] ELSE b.schedule[s]]
        /\ gone' = gone \cup b.gone
        /\ UNCHANGED <<now, serial, memory, store, phase, restored, armed,
                       forgotten>>

(* Mutant: the slots and the passes are not put back. *)
FailFlushDropping(f) ==
    LET b == drained[f]
    IN  /\ flushing[f]
        /\ EndFlush(f)
        /\ schedule' = [s \in Symbols |->
               IF schedule[s] # NoArming \/ s \in gone
               THEN schedule[s] ELSE b.schedule[s]]
        /\ gone' = gone \cup b.gone
        /\ UNCHANGED <<now, serial, memory, dirty, pending, store, phase,
                       restored, armed, forgotten>>

(* The store refuses, or is closed: JobHistory.undrain puts the batch back. *)
FailFlush(f) ==
    LET b == drained[f]
    IN  /\ flushing[f]
        /\ EndFlush(f)
        /\ dirty' = dirty \cup {d \in b.hours : Alive(d[1])}
        /\ pending' = Capped({x \in b.passes : Alive(x[1])} \cup pending)
        /\ schedule' = [s \in Symbols |->
               IF schedule[s] # NoArming \/ s \in gone
               THEN schedule[s] ELSE b.schedule[s]]
        /\ gone' = gone \cup b.gone
        /\ UNCHANGED <<now, serial, memory, store, phase, restored, armed,
                       forgotten>>

-----------------------------------------------------------------------------
(* The process's life *)

(* shutdown_runtime begins: no new entry fires, running passes go on. *)
Stop ==
    /\ phase = "up"
    /\ phase' = "stopping"
    /\ UNCHANGED <<now, serial, memory, buffer, drained, flushing, store,
                   restored, armed, forgotten>>

(* Its flush is over: store.close. *)
Close ==
    /\ phase = "flushed"
    /\ ~flushing["shutdown"]
    /\ phase' = "closed"
    /\ UNCHANGED <<now, serial, memory, buffer, drained, flushing, store,
                   restored, armed, forgotten>>

Reborn ==
    /\ dirty' = {} /\ pending' = {} /\ schedule' = Unarmed
    /\ drained' = [f \in Flushers |-> EmptyBatch]
    /\ flushing' = [f \in Flushers |-> FALSE]
    /\ phase' = "up"
    /\ UNCHANGED <<now, serial, store>>

(* JobHistory.load of the keys K: the hours of the window, every pass. *)
Load(K) ==
    LET hours(k) == Since(Oldest(now), job_slot[k])
    IN  /\ tracks' = {k \in K : hours(k) # {} \/ job_pass[k] # {}}
        /\ slots' = [k \in Keys |-> IF k \in K THEN hours(k) ELSE {}]
        /\ recent' = [k \in Keys |-> IF k \in K THEN job_pass[k] ELSE {}]

(***************************************************************************)
(* The process ends, killed or stopped, and starts again: job_store.restore*)
(* loads what the store kept, then ScrapeJob.restore forgets the symbols   *)
(* that have an arming and are no longer held.                             *)
(***************************************************************************)
Restart(departed) ==
    /\ departed \subseteq {s \in Symbols : job_schedule[s] # NoArming}
    /\ Reborn
    /\ Load(Keys \ departed)
    /\ gone' = departed
    /\ armed' = [s \in Symbols |->
                    IF s \in departed THEN NoArming ELSE job_schedule[s]]
    /\ forgotten' = [k \in Keys |-> IF k \in departed THEN serial ELSE 0]
    /\ restored' = TRUE

(* The same, when reading the store raises, before the load or after it:   *)
(* the boot goes on without the rest.                                      *)
RestartBlind ==
    /\ Reborn
    /\ Load({}) \/ Load(Keys)
    /\ gone' = {}
    /\ armed' = job_schedule
    /\ forgotten' = [k \in Keys |-> 0]
    /\ restored' = FALSE

-----------------------------------------------------------------------------
Flush(f) == StartFlush(f) \/ CommitFlush(f) \/ FailFlush(f)

Next ==
    \/ Tick
    \/ \E k \in Keys, h \in Hours : Record(k, h)
    \/ \E s \in Symbols, a \in Armings : Schedule(s, a)
    \/ \E s \in Symbols : Forget(s)
    \/ \E keep \in SUBSET Symbols : Retain(keep)
    \/ \E f \in Flushers : Flush(f)
    \/ Stop
    \/ Close
    \/ \E departed \in SUBSET Symbols : Restart(departed)
    \/ RestartBlind

Spec == Init /\ [][Next]_vars

(***************************************************************************)
(* While the process is up the 30 s entry keeps firing; once it stops, its *)
(* own flush gets the lock (at most one interval flush is ahead of it), it *)
(* closes the store and is started again.  A flush under way ends, and the *)
(* store does not refuse every flush for ever.                             *)
(***************************************************************************)
Fairness ==
    /\ WF_vars(phase = "up" /\ StartFlush("interval"))
    /\ SF_vars(StartFlush("shutdown"))
    /\ WF_vars(Close)
    /\ \A f \in Flushers : WF_vars(CommitFlush(f) \/ FailFlush(f))
                           /\ SF_vars(CommitFlush(f))
    /\ WF_vars(phase = "closed" /\ Restart({}))

FairSpec == Spec /\ Fairness

-----------------------------------------------------------------------------
(* What the store would hold if the batch under way and the buffer were    *)
(* written now.                                                            *)

InFlight ==
    IF \E f \in Flushers : flushing[f]
    THEN drained[CHOOSE f \in Flushers : flushing[f]]
    ELSE EmptyBatch

DurableSlots == WrittenSlots(WrittenSlots(job_slot, InFlight), Drain)
DurablePasses == WrittenPasses(WrittenPasses(job_pass, InFlight), Drain)
DurableSchedule ==
    WrittenSchedule(WrittenSchedule(job_schedule, InFlight), Drain)

Window(S) == Since(Oldest(now), S)

-----------------------------------------------------------------------------
(* Every variable has its type: the buffers name known keys, a batch under *)
(* way is a batch, the rows of the store belong to known keys.             *)
TypeOK ==
    /\ now \in Hours /\ serial \in Nat
    /\ tracks \subseteq Keys
    /\ slots \in [Keys -> SUBSET Passes]
    /\ recent \in [Keys -> SUBSET Passes]
    /\ dirty \subseteq Keys \X Hours
    /\ pending \subseteq Keys \X Passes
    /\ schedule \in [Symbols -> MaybeArming]
    /\ gone \subseteq Symbols
    /\ drained \in [Flushers -> Batches]
    /\ flushing \in [Flushers -> BOOLEAN]
    /\ job_slot \in [Keys -> SUBSET Passes]
    /\ job_pass \in [Keys -> SUBSET Passes]
    /\ job_schedule \in [Symbols -> MaybeArming]
    /\ phase \in {"up", "stopping", "flushed", "closed"}
    /\ restored \in BOOLEAN
    /\ armed \in [Symbols -> MaybeArming]
    /\ forgotten \in [Keys -> Nat]

(***************************************************************************)
(* At every instant the store, the batch under way and the buffer together *)
(* determine the slots the System page shows: writing the one then the     *)
(* other would leave exactly the slots in memory, nothing lost by a failed *)
(* flush and nothing of a forgotten symbol brought back.                   *)
(***************************************************************************)
SlotsRecoverable ==
    restored => \A k \in Keys : Window(DurableSlots[k]) = Window(slots[k])

(***************************************************************************)
(* The same for the armings: the back-off a boot would resume is the last  *)
(* one noted, and a forgotten symbol's is never resumed.                   *)
(***************************************************************************)
ArmingRecoverable == DurableSchedule = armed

(***************************************************************************)
(* A forgotten symbol's passes never come back while the process lives:    *)
(* whatever the store has or will be given of a key was recorded after the *)
(* key was last forgotten, even when a flush holding its old batch failed. *)
(***************************************************************************)
ForgottenStaysForgotten ==
    \A k \in Keys : \A p \in DurablePasses[k] \cup DurableSlots[k] :
        p[2] >= forgotten[k]

(***************************************************************************)
(* A pass kept in full is written sooner or later, unless a failed flush   *)
(* cut it from the batch it put back: then RECENT later passes exist.      *)
(***************************************************************************)
PassesKept ==
    \A k \in Keys : \A p \in recent[k] \ DurablePasses[k] :
        serial - 1 - p[2] >= RECENT

(***************************************************************************)
(* A track is in the store or on its way there, whatever the flushes did:  *)
(* every pass the slots count is stored in the end, unless its symbol is   *)
(* forgotten, its hour leaves the window or the process dies first.        *)
(***************************************************************************)
EventuallyStored ==
    \A k \in Keys, h \in Hours, n \in 0 .. MaxPasses - 1 :
        (<<h, n>> \in slots[k]) ~>
            (<<h, n>> \in job_slot[k] \/ <<h, n>> \notin Window(slots[k]))

-----------------------------------------------------------------------------
(* Refinement: the facts of DurableHistory are the slots' passes and the   *)
(* armings.                                                                *)

FactsOf(counted, arming) ==
    (UNION {{<<"slot", k, p>> : p \in Window(counted[k])} : k \in Keys})
        \cup {<<"arming", s, arming[s]>> :
                  s \in {t \in Symbols : arming[t] # NoArming}}

Promise == INSTANCE DurableHistory WITH
    Facts <- ({"slot"} \X Keys \X Passes) \cup ({"arming"} \X Symbols \X Armings),
    live <- FactsOf(slots, armed),
    taken <- FactsOf(WrittenSlots(job_slot, InFlight),
                     WrittenSchedule(job_schedule, InFlight)),
    durable <- FactsOf(job_slot, job_schedule),
    readable <- restored

(* The job history keeps the promise of DurableHistory: a boot finds what  *)
(* the process knew at the last flush the store took, and nothing else.    *)
KeepsPromise == Promise!Spec
=============================================================================

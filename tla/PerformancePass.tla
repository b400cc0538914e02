-------------------------- MODULE PerformancePass --------------------------
(***************************************************************************)
(* The performance job (application/jobs/performance.py): a series of      *)
(* daily points, a cache of what the ledger and the closes say, brought up *)
(* to date every tick and within every request that wrote the ledger.      *)
(*                                                                         *)
(* A pass reads the store many times, and writers move it between any two  *)
(* reads.  What the pass rewrites (nothing, today's point, the whole       *)
(* series) it decides from fingerprints: of the inputs, read before them,  *)
(* and of the series it wrote, read back.                                  *)
(*                                                                         *)
(* A point is what it was computed from: the events, the accounts, the     *)
(* quote rows and every close up to its day (the index chains them all).   *)
(* A fingerprint is the content it hashes.  Each write stores a value of   *)
(* its own, so no two writes cancel out.                                   *)
(***************************************************************************)
EXTENDS Integers, FiniteSets

CONSTANTS
    Symbols,     \* the symbols the events name, all held since day 0
    Writers,     \* request threads that write to the ledger
    Nobody,      \* the owner of a pass no request waits for
    FirstDay,    \* the day the process starts on
    MaxDay,      \* bound: the last day
    MaxWrites,   \* bound: writes to the store
    MaxFailures  \* bound: passes and replays that fail, and restarts

ASSUME DaysAssumption == FirstDay \in Nat /\ MaxDay \in Nat /\ FirstDay <= MaxDay
ASSUME NobodyAssumption == Nobody \notin Writers
ASSUME BoundsAssumption == MaxWrites \in Nat /\ MaxFailures \in Nat

Days == 0 .. MaxDay
Owners == Writers \cup {Nobody}

VARIABLES
    clock,      \* the UTC day
    ledger,     \* version of the events and of the accounts
    published,  \* version of the published snapshot's events
    meta,       \* version of the quote rows and the splits
    price,      \* symbol -> day -> its close, 0 for none
    series,     \* day -> its point, in the store
    last,       \* _last: what the last pass read and wrote
    cache,      \* _closes_cache
    pass,       \* the pass that holds perf_lock
    request,    \* writer -> where its request is, the version it wrote
    served,     \* history: version of the last write whose request is over
    writes,     \* writes so far
    failures    \* failures so far

inputs == <<ledger, meta, price>>
memory == <<last, cache>>
counters == <<writes, failures>>
vars == <<clock, inputs, published, series, memory, pass, request, served,
          counters>>

-----------------------------------------------------------------------------
(* Closes, fingerprints, series *)

NoClose == [s \in Symbols |-> [d \in Days |-> 0]]

(* The closes of the days from a to b. *)
Between(p, a, b) ==
    [s \in Symbols |-> [d \in Days |-> IF d \in a .. b THEN p[s][d] ELSE 0]]

Behind(p, day) == Between(p, 0, day - 1)
From(p, day) == Between(p, day, MaxDay)
Together(p, q, day) ==
    [s \in Symbols |-> [d \in Days |-> IF d < day THEN p[s][d] ELSE q[s][d]]]

Priced(p) == {s \in Symbols : \E d \in Days : p[s][d] # 0}

(* The symbols whose first close is of that day or later. *)
FirstSeen(p, day) == Priced(p) \ Priced(Behind(p, day))

(* No point on a day. *)
NoPoint == <<>>

(* account_horizon of symbols held since day 0: a point needs a close of   *)
(* each symbol, that day or before.                                        *)
Reaches(p, day) == \A s \in Symbols : \E d \in 0 .. day : p[s][d] # 0

Point(events, accounts, quotes, p, day) ==
    IF Reaches(p, day)
    THEN <<events, accounts, quotes, Between(p, 0, day)>>
    ELSE NoPoint

NoSeries == [d \in Days |-> NoPoint]

(* The whole series, pruned to its span. *)
Series(events, accounts, quotes, p, today) ==
    [d \in Days |-> IF d <= today THEN Point(events, accounts, quotes, p, d)
                    ELSE NoPoint]

NoMemory == [kept |-> FALSE]
NoCache == [kept |-> FALSE]

NoRequest == [at |-> "idle", wrote |-> 0]

Idle == [pc |-> "idle", owner |-> Nobody]

Init ==
    /\ clock = FirstDay
    /\ ledger = 0 /\ published = 0 /\ meta = 0
    /\ price \in [Symbols -> [Days -> {0, 1}]]
    /\ price = Between(price, 0, FirstDay)
    /\ series = NoSeries
    /\ last = NoMemory /\ cache = NoCache
    /\ pass = Idle
    /\ request = [w \in Writers |-> NoRequest]
    /\ served = 0
    /\ writes = 1 /\ failures = 0

-----------------------------------------------------------------------------
(* What moves the inputs *)

(* Midnight UTC. *)
DayTurn ==
    /\ clock < MaxDay
    /\ clock' = clock + 1
    /\ UNCHANGED <<inputs, published, series, memory, pass, request, served,
                   counters>>

Count ==
    /\ writes <= MaxWrites
    /\ writes' = writes + 1
    /\ UNCHANGED failures

(* A scrape stores today's close, a backfill or a repair an older one. *)
StoreClose(s, d) ==
    /\ Count
    /\ d <= clock
    /\ price' = [price EXCEPT ![s][d] = writes + 1]
    /\ UNCHANGED <<clock, ledger, meta, published, series, memory, pass,
                   request, served>>

(* A currency, a split or the backward anchor of a symbol moves. *)
StoreQuoteRow ==
    /\ Count
    /\ meta' = writes + 1
    /\ UNCHANGED <<clock, ledger, price, published, series, memory, pass,
                   request, served>>

(* A request commits a write of the events or of the accounts; the removal *)
(* of an account takes its points with it.                                 *)
WriteLedger(w) ==
    /\ request[w].at = "idle"
    /\ Count
    /\ ledger' = writes + 1
    /\ series' \in {series, NoSeries}
    /\ request' = [request EXCEPT ![w] = [at |-> "ingest", wrote |-> writes + 1]]
    /\ UNCHANGED <<clock, meta, price, published, memory, pass, served>>

(* replay_after_write, the ingestion: it publishes, ... *)
Ingest(w) ==
    /\ request[w].at = "ingest"
    /\ published' = ledger
    /\ request' = [request EXCEPT ![w].at = "perf"]
    /\ UNCHANGED <<clock, inputs, series, memory, pass, served, counters>>

(* ... or its replay fails and the previous snapshot stays. *)
IngestFails(w) ==
    /\ request[w].at = "ingest"
    /\ failures < MaxFailures
    /\ failures' = failures + 1
    /\ request' = [request EXCEPT ![w].at = "perf"]
    /\ UNCHANGED <<clock, inputs, published, series, memory, pass, served,
                   writes>>

-----------------------------------------------------------------------------
(* The pass: rebuild_series, one step per read of the store *)

aroundPass == <<clock, inputs, request, served, counters>>

GoTo(from, to) ==
    /\ pass.pc = from
    /\ pass' = [pass EXCEPT !.pc = to]
    /\ UNCHANGED aroundPass

(* PerformanceJob.run on a tick, ... *)
Tick ==
    /\ pass.pc = "idle"
    /\ pass' = [Idle EXCEPT !.pc = "events"]
    /\ UNCHANGED <<aroundPass, published, series, memory>>

(* ... and on a write, when it rebuilds whole. *)
RunOnWrite(w) ==
    /\ pass.pc = "idle"
    /\ request[w].at = "perf"
    /\ pass' = [pc |-> "events", owner |-> w]
    /\ last' = NoMemory
    /\ UNCHANGED <<aroundPass, published, series, cache>>

Read(from, to, read) ==
    /\ pass.pc = from
    /\ pass' = [k \in DOMAIN pass \cup DOMAIN read |->
                   IF k = "pc" THEN to
                   ELSE IF k \in DOMAIN read THEN read[k] ELSE pass[k]]
    /\ UNCHANGED <<aroundPass, series>>

(* Mutant: the published snapshot, as the ingestion left it. *)
ReadEventsCurrent ==
    /\ Read("events", "accounts", [events |-> published])
    /\ UNCHANGED <<published, memory>>

(* ConfigurationManager.reload: it publishes the ledger, and returns it. *)
ReadEvents ==
    /\ Read("events", "accounts", [events |-> ledger])
    /\ published' = ledger
    /\ UNCHANGED memory

ReadAccounts ==
    /\ Read("accounts", "clock", [accounts |-> ledger])
    /\ UNCHANGED <<published, memory>>

(* Mutant: the day of a time zone ahead of UTC. *)
ReadClockLocal ==
    /\ \E today \in {clock, clock + 1} :
           Read("clock", "points", [today |-> today])
    /\ UNCHANGED <<published, memory>>

ReadClock ==
    /\ Read("clock", "points", [today |-> clock])
    /\ UNCHANGED <<published, memory>>

(* perf_inputs, its two halves on the points, ... *)
FingerprintPoints ==
    /\ Read("points", "quotes", [history |-> Behind(price, pass.today),
                                 recent |-> From(price, pass.today)])
    /\ UNCHANGED <<published, memory>>

(* ... then the quote rows and the splits. *)
FingerprintQuotes ==
    /\ Read("quotes", "choose", [rows |-> meta])
    /\ UNCHANGED <<published, memory>>

(* Mutant: the turn of the day is not looked at. *)
SamePastAnyDay(now) ==
    /\ last.kept
    /\ last.written = series
    /\ last.events = now.events /\ last.accounts = now.accounts
    /\ last.history = now.history /\ last.rows = now.rows

(* Is the memory that of these inputs, but for today's points? *)
SamePast(now) ==
    /\ last.kept
    /\ last.today = now.today
    /\ last.written = series
    /\ last.events = now.events /\ last.accounts = now.accounts
    /\ last.history = now.history /\ last.rows = now.rows

(* A request is answered; the lock is released. *)
EndPass(ok) ==
    /\ pass' = Idle
    /\ request' = [w \in Writers |->
                      IF w = pass.owner THEN NoRequest ELSE request[w]]
    /\ served' = IF ok /\ pass.owner # Nobody /\ request[pass.owner].wrote > served
                 THEN request[pass.owner].wrote ELSE served

Same(now) == SamePast(now) /\ last.recent = now.recent
Continues == SamePast(pass) /\ last.recent # pass.recent /\ last.continuable

Unchanged ==
    /\ pass.pc = "choose"
    /\ Same(pass)
    /\ EndPass(TRUE)
    /\ UNCHANGED <<clock, inputs, published, series, memory, counters>>

TodayAlone ==
    /\ GoTo("choose", "seen")
    /\ Continues
    /\ UNCHANGED <<published, series, memory>>

(* _full begins. *)
RebuildWhole ==
    /\ GoTo("choose", "kept")
    /\ ~(Same(pass) \/ Continues)
    /\ last' = NoMemory
    /\ UNCHANGED <<published, series, cache>>

-----------------------------------------------------------------------------
(* The whole series *)

(* Mutant: the day alone says the closes are still good. *)
CacheHoldsAllDay ==
    /\ cache.kept
    /\ \/ cache.cut = pass.today
       \/ cache.cut < pass.today /\ cache.history = Behind(price, cache.cut)

(* _closes: are the closes behind the cut still those of the store?        *)
CacheHolds ==
    /\ cache.kept
    /\ \/ cache.cut = pass.today /\ cache.history = pass.history
       \/ cache.cut < pass.today /\ cache.history = Behind(price, cache.cut)

CheckCache ==
    /\ Read("kept", "closes",
            [behind |-> IF CacheHolds THEN cache.closes ELSE NoClose,
             cut |-> IF CacheHolds THEN cache.cut ELSE 0])
    /\ cache' = NoCache
    /\ UNCHANGED <<published, last>>

(* daily_closes from the cut on, or whole. *)
ReadCloses ==
    LET closes == Together(pass.behind, price, pass.cut)
    IN  /\ Read("closes", "carried", [closes |-> closes])
        /\ cache' = [kept |-> TRUE, cut |-> pass.today,
                     history |-> pass.history,
                     closes |-> Behind(closes, pass.today)]
        /\ UNCHANGED <<published, last>>

(* Mutant: the points are fingerprinted after the closes were read. *)
ReadCarriedThenFingerprint ==
    /\ Read("carried", "remember",
            [carried |-> meta, quoted |-> price,
             history |-> Behind(price, pass.today),
             recent |-> From(price, pass.today)])
    /\ UNCHANGED <<published, memory>>

(* terminal_symbols, first_quoted_days, the carrying price: quote rows. *)
ReadCarried ==
    /\ Read("carried", "remember", [carried |-> meta, quoted |-> price])
    /\ UNCHANGED <<published, memory>>

(* _remember: a symbol first seen today, by the reads of the pass or in    *)
(* the store now, makes the series one to rebuild whole all day.           *)
Remember ==
    /\ Read("remember", "write",
            [stored |-> Priced(price),
             fresh |-> \E p \in {pass.closes, pass.quoted, price} :
                           FirstSeen(p, pass.today) # {}])
    /\ UNCHANGED <<published, memory>>

(* One transaction: the series, pruned to its span. *)
WriteSeries ==
    /\ GoTo("write", "written")
    /\ series' = Series(pass.events, pass.accounts, pass.carried, pass.closes,
                        pass.today)
    /\ UNCHANGED <<published, memory>>

(* series_fingerprint read back, and the pass's memory kept. *)
KeepMemory ==
    /\ pass.pc = "written"
    /\ last' = [kept |-> TRUE, today |-> pass.today, events |-> pass.events,
                accounts |-> pass.accounts, history |-> pass.history,
                recent |-> pass.recent, rows |-> pass.rows,
                carried |-> pass.carried, written |-> series,
                continuable |-> ~pass.fresh, stored |-> pass.stored,
                priced |-> Priced(pass.closes),
                quoted |-> Priced(pass.quoted),
                reaches |-> Reaches(pass.closes, pass.today),
                before |-> Behind(pass.closes, pass.today)]
    /\ EndPass(TRUE)
    /\ UNCHANGED <<clock, inputs, published, series, cache, counters>>

-----------------------------------------------------------------------------
(* Today's point alone: _today_only *)

(* symbols_seen today: one never seen before needs the whole series. *)
SeeSymbols ==
    LET new == {s \in Symbols : /\ price[s][pass.today] # 0
                                /\ s \notin last.stored \cap last.priced
                                                         \cap last.quoted}
    IN  /\ GoTo("seen", IF new = {} THEN "today" ELSE "kept")
        /\ last' = IF new = {} THEN last ELSE NoMemory
        /\ UNCHANGED <<published, series, cache>>

(* closes_of_day. *)
ReadToday ==
    /\ Read("today", "upsert",
            [closes |-> Together(last.before,
                                 Between(price, pass.today, pass.today),
                                 pass.today)])
    /\ UNCHANGED <<published, memory>>

(* Today's point, from the seed the last whole pass left. *)
WriteToday ==
    /\ GoTo("upsert", "upserted")
    /\ series' = IF last.reaches
                 THEN [series EXCEPT ![pass.today] =
                          Point(last.events, last.accounts, last.carried,
                                pass.closes, pass.today)]
                 ELSE series
    /\ UNCHANGED <<published, memory>>

KeepToday ==
    /\ pass.pc = "upserted"
    /\ last' = [last EXCEPT !.history = pass.history, !.recent = pass.recent,
                            !.rows = pass.rows, !.written = series]
    /\ EndPass(TRUE)
    /\ UNCHANGED <<clock, inputs, published, series, cache, counters>>

-----------------------------------------------------------------------------
(* Any call of the pass raises: recompute drops what it remembers. *)
Fail ==
    /\ pass.pc # "idle"
    /\ failures < MaxFailures
    /\ failures' = failures + 1
    /\ last' = NoMemory /\ cache' = NoCache
    /\ EndPass(FALSE)
    /\ UNCHANGED <<clock, inputs, published, series, writes>>

(* The process dies and boots: the boot replays the ledger. *)
Restart ==
    /\ failures < MaxFailures
    /\ failures' = failures + 1
    /\ last' = NoMemory /\ cache' = NoCache
    /\ pass' = Idle
    /\ request' = [w \in Writers |-> NoRequest]
    /\ published' = ledger
    /\ UNCHANGED <<clock, inputs, series, served, writes>>

PassStep ==
    \/ ReadEvents \/ ReadAccounts \/ ReadClock
    \/ FingerprintPoints \/ FingerprintQuotes
    \/ Unchanged \/ TodayAlone \/ RebuildWhole
    \/ CheckCache \/ ReadCloses \/ ReadCarried \/ Remember
    \/ WriteSeries \/ KeepMemory
    \/ SeeSymbols \/ ReadToday \/ WriteToday \/ KeepToday

Next ==
    \/ DayTurn
    \/ \E s \in Symbols, d \in Days : StoreClose(s, d)
    \/ StoreQuoteRow
    \/ \E w \in Writers : WriteLedger(w) \/ Ingest(w) \/ IngestFails(w)
    \/ Tick
    \/ \E w \in Writers : RunOnWrite(w)
    \/ PassStep
    \/ Fail
    \/ Restart

Spec == Init /\ [][Next]_vars

(* The tick comes again and again, and a pass that runs comes to its end.  *)
Fairness == WF_vars(Tick) /\ WF_vars(PassStep)

FairSpec == Spec /\ Fairness

-----------------------------------------------------------------------------
(* The series the store's present content asks for. *)
Exact == Series(ledger, ledger, meta, price, clock)

(* What a pass that ran now, alone, would read. *)
Now == [today |-> clock, events |-> ledger, accounts |-> ledger, rows |-> meta,
        history |-> Behind(price, clock), recent |-> From(price, clock)]

(* Types, and no day before its time. *)
TypeOK ==
    /\ clock \in FirstDay .. MaxDay
    /\ {ledger, published, meta, served} \subseteq 0 .. MaxWrites + 1
    /\ price \in [Symbols -> [Days -> 0 .. MaxWrites + 1]]
    /\ request \in [Writers -> [at : {"idle", "ingest", "perf"},
                              wrote : 0 .. MaxWrites + 1]]
    /\ pass.owner \in Owners
    /\ DOMAIN series = Days
    /\ \A d \in Days : d > clock => series[d] = NoPoint

(***************************************************************************)
(* "What it rewrites is the least that keeps the series exact": whenever a *)
(* pass would leave the series as it is, the series is the one a whole     *)
(* rebuild would give, whatever landed between the reads of the passes     *)
(* that wrote it, by whichever mode.                                       *)
(***************************************************************************)
SkipIsExact == pass.pc = "idle" /\ Same(Now) => series = Exact

(***************************************************************************)
(* The closes kept between passes never stand for other closes: as long as *)
(* their fingerprint is the store's, they are the store's.                 *)
(***************************************************************************)
CacheIsExact ==
    cache.kept /\ cache.history = Behind(price, cache.cut)
        => cache.closes = Behind(price, cache.cut)

(***************************************************************************)
(* "A 200 keeps meaning the figures behind it are current": once a request *)
(* is answered and its pass did not fail, no point computed from an older  *)
(* ledger is served, even when the ingestion could not publish the write   *)
(* or another pass was running since before it.                            *)
(***************************************************************************)
WriteIsServed ==
    \A d \in Days : series[d] # NoPoint =>
        series[d][1] >= served /\ series[d][2] >= served

(***************************************************************************)
(* Once nothing moves any more the series is exact, and stays so: no tick  *)
(* is talked out of a rebuild by a stale memory.                           *)
(***************************************************************************)
EventuallyExact == <>[](series = Exact)
=============================================================================

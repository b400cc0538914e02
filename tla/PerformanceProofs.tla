-------------------------- MODULE PerformanceProofs --------------------------
(***************************************************************************)
(* What holds of the performance job for every set of symbols and writers, *)
(* any number of days, of writes and of failures: what a pass knows at     *)
(* each of its reads, that no answered request finds an older ledger, that *)
(* the closes kept between passes are exact, and that the series a pass    *)
(* leaves as it is is the one a whole rebuild would write.                 *)
(***************************************************************************)
EXTENDS PerformancePass, TLAPS

-----------------------------------------------------------------------------
(* The stages of a pass, and those at which it knows what it has read. *)

KnowsToday == {"points", "quotes", "choose", "seen", "today", "upsert",
               "upserted", "kept", "closes", "carried", "remember", "write",
               "written"}
KnowsAccounts == {"clock"} \cup KnowsToday
KnowsEvents == {"accounts"} \cup KnowsAccounts
Stages == {"idle", "events"} \cup KnowsEvents

PassShape ==
    /\ pass.pc \in Stages
    /\ {"pc", "owner"} \subseteq DOMAIN pass
    /\ pass.pc \in KnowsEvents =>
          "events" \in DOMAIN pass /\ pass.events \in 0 .. ledger
    /\ pass.pc \in KnowsAccounts =>
          "accounts" \in DOMAIN pass /\ pass.accounts \in 0 .. ledger
    /\ pass.pc \in KnowsToday =>
          "today" \in DOMAIN pass /\ pass.today \in 0 .. clock

(* Each write stores the number of writes before it plus one. *)
Counted ==
    /\ writes \in 1 .. MaxWrites + 1
    /\ ledger \in 0 .. writes /\ published \in 0 .. writes
    /\ meta \in 0 .. writes /\ served \in 0 .. ledger
    /\ price \in [Symbols -> [Days -> 0 .. writes]]
    /\ \A w \in Writers : request[w].wrote <= ledger

TypedInv == TypeOK /\ Counted /\ PassShape

-----------------------------------------------------------------------------
(* Reads *)

(* A read moves the pass, adds what it read and keeps the rest. *)
LEMMA ReadMoves ==
    ASSUME NEW from, NEW to, NEW read, Read(from, to, read),
           "pc" \in DOMAIN pass
    PROVE  /\ pass.pc = from /\ pass'.pc = to /\ "pc" \in DOMAIN pass'
           /\ \A k \in DOMAIN pass :
                 k # "pc" /\ k \notin DOMAIN read
                     => k \in DOMAIN pass' /\ pass'[k] = pass[k]
           /\ \A k \in DOMAIN read :
                 k # "pc" => k \in DOMAIN pass' /\ pass'[k] = read[k]
BY DEF Read

(* A read after the clock keeps what the pass knew by then. *)
LEMMA ReadKeepsShape ==
    ASSUME PassShape, NEW from \in KnowsToday, NEW to \in KnowsToday, NEW read,
           Read(from, to, read),
           {"owner", "events", "accounts", "today"} \cap DOMAIN read = {}
    PROVE  PassShape' /\ pass'.owner = pass.owner
<1>1. "pc" \in DOMAIN pass /\ pass.pc = from /\ pass'.pc = to
  BY ReadMoves DEF PassShape
<1>2. {"owner", "events", "accounts", "today"} \subseteq DOMAIN pass
  BY <1>1 DEF PassShape, KnowsEvents, KnowsAccounts
<1>3. /\ {"pc", "owner", "events", "accounts", "today"} \subseteq DOMAIN pass'
      /\ pass'.owner = pass.owner /\ pass'.events = pass.events
      /\ pass'.accounts = pass.accounts /\ pass'.today = pass.today
  <2>1. \A k \in {"owner", "events", "accounts", "today"} :
            k \in DOMAIN pass' /\ pass'[k] = pass[k]
    BY <1>1, <1>2, ReadMoves
  <2> QED
    BY <1>1, <2>1, ReadMoves
<1>4. ledger' = ledger /\ clock' = clock
  BY DEF Read, aroundPass, inputs
<1> QED
  BY <1>1, <1>3, <1>4 DEF PassShape, Stages, KnowsEvents, KnowsAccounts

(* So does a step that reads nothing. *)
LEMMA GoToKeepsShape ==
    ASSUME PassShape, NEW from \in KnowsToday, NEW to \in KnowsToday,
           GoTo(from, to)
    PROVE  PassShape' /\ pass'.owner = pass.owner
<1>1. /\ DOMAIN pass' = DOMAIN pass /\ pass.pc = from /\ pass'.pc = to
      /\ pass'.owner = pass.owner /\ pass'.events = pass.events
      /\ pass'.accounts = pass.accounts /\ pass'.today = pass.today
  BY DEF GoTo, PassShape
<1>2. ledger' = ledger /\ clock' = clock
  BY DEF GoTo, aroundPass, inputs
<1> QED
  BY <1>1, <1>2 DEF PassShape, Stages, KnowsEvents, KnowsAccounts

(* A pass that is over knows nothing. *)
LEMMA IdleShape ==
    ASSUME pass' = Idle
    PROVE  PassShape' /\ pass'.owner = Nobody
BY DEF Idle, PassShape, Stages, KnowsEvents, KnowsAccounts, KnowsToday

-----------------------------------------------------------------------------
(* What a step leaves of the rest *)

(* What TypeOK and Counted say, but for the pass. *)
StoreTyped ==
    /\ clock \in FirstDay .. MaxDay
    /\ {ledger, published, meta, served} \subseteq 0 .. MaxWrites + 1
    /\ price \in [Symbols -> [Days -> 0 .. MaxWrites + 1]]
    /\ request \in [Writers -> [at : {"idle", "ingest", "perf"},
                              wrote : 0 .. MaxWrites + 1]]
    /\ DOMAIN series = Days
    /\ \A d \in Days : d > clock => series[d] = NoPoint
    /\ Counted

LEMMA TypedParts ==
    /\ TypedInv <=> StoreTyped /\ PassShape /\ pass.owner \in Owners
    /\ TypedInv' <=> StoreTyped' /\ PassShape' /\ pass'.owner \in Owners
BY DEF TypedInv, TypeOK, StoreTyped

(* The end of a pass leaves versions that the store has. *)
LEMMA EndPassTyped ==
    ASSUME StoreTyped, pass.owner \in Owners, NEW ok \in BOOLEAN, EndPass(ok),
           UNCHANGED <<clock, inputs, published, series, writes>>
    PROVE  StoreTyped'
<1> USE BoundsAssumption DEF StoreTyped, Counted, inputs
<1>1. request' \in [Writers -> [at : {"idle", "ingest", "perf"},
                               wrote : 0 .. MaxWrites + 1]]
  BY DEF EndPass, NoRequest
<1>2. \A w \in Writers : request'[w].wrote <= ledger
  BY DEF EndPass, NoRequest
<1>3. served' \in 0 .. ledger
  BY DEF EndPass, Owners
<1> QED
  BY <1>1, <1>2, <1>3

(* A series that is written has a point for no day but those of its span.  *)
LEMMA SeriesTyped ==
    ASSUME NEW e, NEW a, NEW q, NEW p, NEW today
    PROVE  /\ DOMAIN Series(e, a, q, p, today) = Days
           /\ \A d \in Days : d > today /\ today \in Int =>
                 Series(e, a, q, p, today)[d] = NoPoint
BY DEF Series, Days

-----------------------------------------------------------------------------
(* Every action keeps the types *)

LEMMA InitTyped == Init => TypedInv
<1> SUFFICES ASSUME Init
             PROVE  TypedInv
  OBVIOUS
<1> USE DaysAssumption, BoundsAssumption DEF Init
<1>1. /\ writes \in 1 .. MaxWrites + 1 /\ clock \in FirstDay .. MaxDay
      /\ {ledger, published, meta, served} \subseteq 0 .. MaxWrites + 1
  OBVIOUS
<1>2. /\ price \in [Symbols -> [Days -> 0 .. writes]]
      /\ price \in [Symbols -> [Days -> 0 .. MaxWrites + 1]]
  <2>1. price \in [Symbols -> [Days -> {0, 1}]]
    OBVIOUS
  <2>2. {0, 1} \subseteq 0 .. writes /\ {0, 1} \subseteq 0 .. MaxWrites + 1
    OBVIOUS
  <2> HIDE DEF Init
  <2> QED
    BY <2>1, <2>2
<1>3. request \in [Writers -> [at : {"idle", "ingest", "perf"},
                              wrote : 0 .. MaxWrites + 1]]
  BY DEF NoRequest
<1>4. DOMAIN series = Days /\ \A d \in Days : d > clock => series[d] = NoPoint
  BY DEF NoSeries
<1>5. PassShape /\ pass.owner \in Owners
  BY DEF Idle, Owners, PassShape, Stages, KnowsEvents, KnowsAccounts, KnowsToday
<1>6. Counted
  BY <1>1, <1>2 DEF Counted, NoRequest
<1> QED
  BY <1>1, <1>2, <1>3, <1>4, <1>5, <1>6 DEF TypedInv, TypeOK

(* What moves the inputs keeps the types. *)
LEMMA InputTyped ==
    ASSUME TypedInv,
           \/ DayTurn \/ StoreQuoteRow
           \/ \E s \in Symbols, d \in Days : StoreClose(s, d)
           \/ \E w \in Writers : WriteLedger(w) \/ Ingest(w) \/ IngestFails(w)
    PROVE  TypedInv'
<1> USE DaysAssumption, BoundsAssumption DEF StoreTyped, Counted, inputs
<1>0. StoreTyped /\ PassShape /\ pass.owner \in Owners
  BY TypedParts
<1>1. pass' = pass /\ clock' >= clock /\ clock' \in Int /\ ledger' \in Int
                   /\ ledger' >= ledger
  BY <1>0
  DEF DayTurn, StoreQuoteRow, StoreClose, WriteLedger, Ingest, IngestFails,
      Count, counters, memory
<1>2. PassShape' /\ pass'.owner \in Owners
  BY <1>0, <1>1 DEF PassShape
<1>3. StoreTyped'
  <2>1. CASE DayTurn
    <3>1. clock' \in FirstDay .. MaxDay /\ clock' = clock + 1
      BY <1>0, <2>1 DEF DayTurn
    <3>2. \A d \in Days : d > clock' => series'[d] = NoPoint
      BY <1>0, <2>1, <3>1 DEF DayTurn, Days
    <3> QED
      BY <1>0, <2>1, <3>1, <3>2 DEF DayTurn, counters
  <2>2. CASE StoreQuoteRow
    BY <1>0, <2>2 DEF StoreQuoteRow, Count
  <2>3. ASSUME NEW s \in Symbols, NEW d \in Days, StoreClose(s, d)
        PROVE  StoreTyped'
    <3>1. writes' \in 1 .. MaxWrites + 1 /\ writes' = writes + 1
      BY <1>0, <2>3 DEF StoreClose, Count
    <3>2. price' \in [Symbols -> [Days -> 0 .. writes']]
      BY <1>0, <2>3, <3>1 DEF StoreClose
    <3>3. price' \in [Symbols -> [Days -> 0 .. MaxWrites + 1]]
      BY <1>0, <3>1, <3>2
    <3> QED
      BY <1>0, <2>3, <3>1, <3>2, <3>3 DEF StoreClose
  <2>4. ASSUME NEW w \in Writers, WriteLedger(w)
        PROVE  StoreTyped'
    <3>1. /\ writes' \in 1 .. MaxWrites + 1 /\ writes' = writes + 1
          /\ ledger' = writes + 1
      BY <1>0, <2>4 DEF WriteLedger, Count
    <3>2. request' \in [Writers -> [at : {"idle", "ingest", "perf"},
                                   wrote : 0 .. MaxWrites + 1]]
      BY <1>0, <2>4, <3>1 DEF WriteLedger
    <3>3. \A v \in Writers : request'[v].wrote <= ledger'
      BY <1>0, <2>4, <3>1 DEF WriteLedger
    <3>4. price \in [Symbols -> [Days -> 0 .. writes']]
      BY <1>0, <3>1
    <3>5. DOMAIN series' = Days
          /\ \A d \in Days : d > clock => series'[d] = NoPoint
      BY <1>0, <2>4 DEF WriteLedger, NoSeries
    <3> QED
      BY <1>0, <2>4, <3>1, <3>2, <3>3, <3>4, <3>5 DEF WriteLedger
  <2>5. ASSUME NEW w \in Writers, Ingest(w) \/ IngestFails(w)
        PROVE  StoreTyped'
    <3> DEFINE Requests == [at : {"idle", "ingest", "perf"},
                            wrote : 0 .. MaxWrites + 1]
               next == [request[w] EXCEPT !.at = "perf"]
    <3>1. request \in [Writers -> Requests]
      BY <1>0
    <3>2. request' = [request EXCEPT ![w] = next]
      BY <2>5 DEF Ingest, IngestFails
    <3>3. next \in Requests /\ next.wrote = request[w].wrote
      BY <3>1
    <3>4. request' \in [Writers -> Requests]
      BY <3>1, <3>2, <3>3
    <3>5. \A v \in Writers : request'[v].wrote <= ledger
      BY <1>0, <3>1, <3>2, <3>3
    <3> QED
      BY <1>0, <2>5, <3>4, <3>5 DEF Ingest, IngestFails, counters
  <2> QED
    BY <2>1, <2>2, <2>3, <2>4, <2>5
<1> QED
  BY <1>2, <1>3, TypedParts

(* A step of a pass that leaves the store and the requests alone. *)
LEMMA AroundTyped ==
    ASSUME StoreTyped, UNCHANGED aroundPass,
           published' \in {published, ledger}, series' = series
    PROVE  StoreTyped'
BY DEF StoreTyped, Counted, aroundPass, inputs, counters

(* A step of a pass keeps the types. *)
LEMMA PassTyped ==
    ASSUME TypedInv, PassStep
    PROVE  TypedInv'
<1>0. StoreTyped /\ PassShape /\ pass.owner \in Owners
  BY TypedParts
<1> USE <1>0
<1>1. CASE ReadEvents
  <2>1. /\ pass'.pc = "accounts" /\ pass'.owner = pass.owner
        /\ {"pc", "owner", "events"} \subseteq DOMAIN pass'
        /\ pass'.events = ledger
    BY <1>1, ReadMoves DEF ReadEvents, PassShape
  <2>2. StoreTyped'
    BY <1>1, AroundTyped DEF ReadEvents, Read
  <2>3. PassShape'
    BY <1>1, <2>1
    DEF ReadEvents, Read, aroundPass, inputs, PassShape, StoreTyped, Counted,
        Stages, KnowsEvents, KnowsAccounts, KnowsToday
  <2> QED
    BY <2>1, <2>2, <2>3, TypedParts
<1>2. CASE ReadAccounts
  <2>1. /\ pass.pc = "accounts" /\ pass'.pc = "clock"
        /\ pass'.owner = pass.owner
        /\ {"pc", "owner", "events", "accounts"} \subseteq DOMAIN pass'
        /\ pass'.events = pass.events /\ pass'.accounts = ledger
    BY <1>2, ReadMoves DEF ReadAccounts, PassShape, KnowsEvents
  <2>2. StoreTyped'
    BY <1>2, AroundTyped DEF ReadAccounts, Read
  <2>3. PassShape'
    BY <1>2, <2>1
    DEF ReadAccounts, Read, aroundPass, inputs, PassShape, StoreTyped, Counted,
        Stages, KnowsEvents, KnowsAccounts, KnowsToday
  <2> QED
    BY <2>1, <2>2, <2>3, TypedParts
<1>3. CASE ReadClock
  <2>1. /\ pass.pc = "clock" /\ pass'.pc = "points"
        /\ pass'.owner = pass.owner
        /\ {"pc", "owner", "events", "accounts", "today"} \subseteq DOMAIN pass'
        /\ pass'.events = pass.events /\ pass'.accounts = pass.accounts
        /\ pass'.today = clock
    BY <1>3, ReadMoves DEF ReadClock, PassShape, KnowsEvents, KnowsAccounts
  <2>2. StoreTyped'
    BY <1>3, AroundTyped DEF ReadClock, Read
  <2>3. clock \in 0 .. clock
    BY DaysAssumption DEF StoreTyped
  <2>4. PassShape'
    BY <1>3, <2>1, <2>3
    DEF ReadClock, Read, aroundPass, inputs, PassShape,
        Stages, KnowsEvents, KnowsAccounts, KnowsToday
  <2> QED
    BY <2>1, <2>2, <2>4, TypedParts
<1>4. ASSUME NEW from \in KnowsToday, NEW to \in KnowsToday, NEW read,
             Read(from, to, read), UNCHANGED published,
             {"owner", "events", "accounts", "today"} \cap DOMAIN read = {}
      PROVE  TypedInv'
  <2>1. PassShape' /\ pass'.owner = pass.owner
    BY <1>4, ReadKeepsShape
  <2>2. StoreTyped'
    BY <1>4, AroundTyped DEF Read
  <2> QED
    BY <2>1, <2>2, TypedParts
<1>5. ASSUME FingerprintPoints \/ FingerprintQuotes \/ CheckCache
                 \/ ReadCloses \/ ReadCarried \/ Remember \/ ReadToday
      PROVE  TypedInv'
  <2>1. CASE FingerprintPoints
    BY <1>4, <2>1 DEF FingerprintPoints, KnowsToday
  <2>2. CASE FingerprintQuotes
    BY <1>4, <2>2 DEF FingerprintQuotes, KnowsToday
  <2>3. CASE CheckCache
    BY <1>4, <2>3 DEF CheckCache, KnowsToday
  <2>4. CASE ReadCloses
    BY <1>4, <2>4 DEF ReadCloses, KnowsToday
  <2>5. CASE ReadCarried
    BY <1>4, <2>5 DEF ReadCarried, KnowsToday
  <2>6. CASE Remember
    BY <1>4, <2>6 DEF Remember, KnowsToday
  <2>7. CASE ReadToday
    BY <1>4, <2>7 DEF ReadToday, KnowsToday
  <2> QED
    BY <1>5, <2>1, <2>2, <2>3, <2>4, <2>5, <2>6, <2>7
<1>6. ASSUME NEW from \in KnowsToday, NEW to \in KnowsToday, GoTo(from, to),
             UNCHANGED published,
             DOMAIN series' = Days,
             \A d \in Days : d > clock => series'[d] = NoPoint
      PROVE  TypedInv'
  <2>1. PassShape' /\ pass'.owner = pass.owner
    BY <1>6, GoToKeepsShape
  <2>2. StoreTyped'
    BY <1>6 DEF GoTo, StoreTyped, Counted, aroundPass, inputs, counters
  <2> QED
    BY <2>1, <2>2, TypedParts
<1>7. CASE TodayAlone \/ RebuildWhole \/ SeeSymbols
  <2>1. UNCHANGED <<published, series>>
    BY <1>7 DEF TodayAlone, RebuildWhole, SeeSymbols
  <2>2. \E from \in KnowsToday, to \in KnowsToday : GoTo(from, to)
    BY <1>7 DEF TodayAlone, RebuildWhole, SeeSymbols, KnowsToday
  <2> QED
    BY <1>6, <2>1, <2>2 DEF StoreTyped
<1>8. CASE WriteSeries
  <2>1. GoTo("write", "written")
    BY <1>8 DEF WriteSeries
  <2>2. pass.today \in 0 .. clock /\ clock \in Int
    BY <2>1, DaysAssumption DEF GoTo, PassShape, KnowsToday, StoreTyped
  <2>3. /\ DOMAIN series' = Days
        /\ \A d \in Days : d > pass.today => series'[d] = NoPoint
    BY <1>8, <2>2, SeriesTyped DEF WriteSeries
  <2>4. \A d \in Days : d > clock => series'[d] = NoPoint
    BY <2>2, <2>3, DaysAssumption DEF Days
  <2> QED
    BY <1>6, <1>8, <2>1, <2>3, <2>4 DEF WriteSeries, KnowsToday
<1>9. CASE WriteToday
  <2>1. GoTo("upsert", "upserted")
    BY <1>9 DEF WriteToday
  <2>2. pass.today \in 0 .. clock /\ clock \in Int
    BY <2>1, DaysAssumption DEF GoTo, PassShape, KnowsToday, StoreTyped
  <2>3. /\ DOMAIN series' = Days
        /\ \A d \in Days : d > clock => series'[d] = NoPoint
    BY <1>9, <2>2, DaysAssumption DEF WriteToday, StoreTyped, Days
  <2> QED
    BY <1>6, <1>9, <2>1, <2>3 DEF WriteToday, KnowsToday
<1>10. CASE Unchanged \/ KeepMemory \/ KeepToday
  <2>1. EndPass(TRUE) /\ UNCHANGED <<clock, inputs, published, series, writes>>
    BY <1>10 DEF Unchanged, KeepMemory, KeepToday, counters
  <2>2. StoreTyped'
    BY <2>1, EndPassTyped
  <2>3. PassShape' /\ pass'.owner \in Owners
    BY <2>1, IdleShape DEF EndPass, Owners
  <2> QED
    BY <2>2, <2>3, TypedParts
<1> QED
  BY <1>1, <1>2, <1>3, <1>5, <1>7, <1>8, <1>9, <1>10 DEF PassStep

(* Every action keeps the types. *)
LEMMA StepTyped == TypedInv /\ [Next]_vars => TypedInv'
<1> SUFFICES ASSUME TypedInv, [Next]_vars
             PROVE  TypedInv'
  OBVIOUS
<1>0. StoreTyped /\ PassShape /\ pass.owner \in Owners
  BY TypedParts
<1>1. CASE \/ DayTurn \/ StoreQuoteRow
           \/ \E s \in Symbols, d \in Days : StoreClose(s, d)
           \/ \E w \in Writers : WriteLedger(w) \/ Ingest(w) \/ IngestFails(w)
  BY <1>1, InputTyped
<1>2. CASE Tick \/ \E w \in Writers : RunOnWrite(w)
  <2>1. StoreTyped'
    BY <1>0, <1>2, AroundTyped DEF Tick, RunOnWrite
  <2>2. pass'.pc = "events" /\ {"pc", "owner"} \subseteq DOMAIN pass'
    BY <1>2 DEF Tick, RunOnWrite, Idle
  <2>3. pass'.owner \in Owners
    BY <1>2 DEF Tick, RunOnWrite, Idle, Owners
  <2>4. PassShape'
    BY <2>2 DEF PassShape, Stages, KnowsEvents, KnowsAccounts, KnowsToday
  <2> QED
    BY <2>1, <2>3, <2>4, TypedParts
<1>3. CASE PassStep
  BY <1>3, PassTyped
<1>4. CASE Fail
  <2>1. EndPass(FALSE) /\ UNCHANGED <<clock, inputs, published, series, writes>>
    BY <1>4 DEF Fail
  <2>2. StoreTyped'
    BY <1>0, <2>1, EndPassTyped
  <2>3. PassShape' /\ pass'.owner \in Owners
    BY <2>1, IdleShape DEF EndPass, Owners
  <2> QED
    BY <2>2, <2>3, TypedParts
<1>5. CASE Restart
  <2>1. request' \in [Writers -> [at : {"idle", "ingest", "perf"},
                                 wrote : 0 .. MaxWrites + 1]]
    BY <1>5, BoundsAssumption DEF Restart, NoRequest
  <2>2. \A w \in Writers : request'[w].wrote <= ledger
    BY <1>0, <1>5, BoundsAssumption DEF Restart, NoRequest, StoreTyped, Counted
  <2>3. StoreTyped'
    BY <1>0, <1>5, <2>1, <2>2 DEF Restart, StoreTyped, Counted, inputs
  <2>4. PassShape' /\ pass'.owner \in Owners
    BY <1>5, IdleShape DEF Restart, Owners
  <2> QED
    BY <2>3, <2>4, TypedParts
<1>6. CASE UNCHANGED vars
  BY <1>0, <1>6, TypedParts
  DEF vars, StoreTyped, Counted, PassShape, inputs, counters
<1> QED
  BY <1>1, <1>2, <1>3, <1>4, <1>5, <1>6 DEF Next

(***************************************************************************)
(* Types of the performance job (performance.py): in particular the series *)
(* in the store never has a point of a day to come, however many days turn *)
(* while a pass that read the date earlier is still to write.              *)
(***************************************************************************)
THEOREM PerformanceTyped == Spec => []TypeOK
<1>1. TypedInv => TypeOK
  BY DEF TypedInv
<1> QED
  BY <1>1, InitTyped, StepTyped, PTL DEF Spec

-----------------------------------------------------------------------------
(* Writes that were answered are served *)

(* No point is of a ledger older than that version. *)
Serves(v) ==
    \A d \in Days : series[d] # NoPoint => series[d][1] >= v /\ series[d][2] >= v

(* The pass has read the ledger since the writes it has to serve: those    *)
(* already answered, and the one whose request waits for it.               *)
UpToDate(version) ==
    /\ served <= version
    /\ pass.owner \in Writers => request[pass.owner].wrote <= version

(* The request that runs a pass waits for it. *)
OwnerWaits ==
    pass.pc # "idle" /\ pass.owner \in Writers => request[pass.owner].at = "perf"

(* A pass of a request has dropped the memory, and so writes it all. *)
WritesAll ==
    pass.owner \in Writers =>
        /\ pass.pc \notin {"seen", "today", "upsert", "upserted"}
        /\ pass.pc \in {"events", "accounts", "clock", "points", "quotes",
                        "choose"} => ~last.kept

ServedInv ==
    /\ OwnerWaits
    /\ WritesAll
    /\ pass.pc \in KnowsEvents => UpToDate(pass.events)
    /\ pass.pc \in KnowsAccounts => UpToDate(pass.accounts)
    /\ pass.pc \in {"seen", "today", "upsert"} =>
          served <= last.events /\ served <= last.accounts
    /\ pass.pc = "written" /\ pass.owner \in Writers =>
          Serves(request[pass.owner].wrote)
    /\ Serves(served)

(* A point says which ledger it is of. *)
LEMMA PointVersions ==
    ASSUME NEW e, NEW a, NEW q, NEW p, NEW d, Point(e, a, q, p, d) # NoPoint
    PROVE  Point(e, a, q, p, d)[1] = e /\ Point(e, a, q, p, d)[2] = a
BY DEF Point, NoPoint

(* Every point of a series is of the ledger it was made from. *)
LEMMA SeriesVersions ==
    ASSUME NEW e, NEW a, NEW q, NEW p, NEW today, NEW d \in Days,
           Series(e, a, q, p, today)[d] # NoPoint
    PROVE  /\ Series(e, a, q, p, today)[d][1] = e
           /\ Series(e, a, q, p, today)[d][2] = a
BY PointVersions DEF Series

(* The versions are numbers. *)
LEMMA Versions ==
    ASSUME TypedInv
    PROVE  /\ served \in Nat /\ ledger \in Nat /\ served <= ledger
           /\ \A w \in Writers : /\ request[w].wrote \in Nat
                                 /\ request[w].wrote <= ledger
           /\ pass.pc \in KnowsEvents => pass.events \in Nat
           /\ pass.pc \in KnowsAccounts => pass.accounts \in Nat
           /\ pass.pc \in Stages /\ pass.owner \in Owners
           /\ {"pc", "owner"} \subseteq DOMAIN pass
BY DEF TypedInv, TypeOK, Counted, PassShape, Owners

(* What moves the inputs leaves the pass and what is served alone. *)
LEMMA InputServed ==
    ASSUME TypedInv, ServedInv,
           \/ DayTurn \/ StoreQuoteRow
           \/ \E s \in Symbols, d \in Days : StoreClose(s, d)
           \/ \E w \in Writers : WriteLedger(w) \/ Ingest(w) \/ IngestFails(w)
    PROVE  ServedInv'
<1> USE Versions
<1>1. /\ pass' = pass /\ last' = last /\ served' = served
      /\ series' \in {series, NoSeries}
  BY DEF DayTurn, StoreQuoteRow, StoreClose, WriteLedger, Ingest, IngestFails,
         memory
<1>2. ASSUME NEW v, Serves(v)
      PROVE  Serves(v)'
  BY <1>1, <1>2 DEF Serves, NoSeries
<1>3. ASSUME pass.pc # "idle", pass.owner \in Writers
      PROVE  request'[pass.owner] = request[pass.owner]
  <2>1. request[pass.owner].at = "perf"
    BY <1>3 DEF ServedInv, OwnerWaits
  <2>2. request \in [Writers -> [at : {"idle", "ingest", "perf"},
                                 wrote : 0 .. MaxWrites + 1]]
    BY DEF TypedInv, TypeOK
  <2> QED
    BY <1>3, <2>1, <2>2
    DEF DayTurn, StoreQuoteRow, StoreClose, WriteLedger, Ingest, IngestFails
<1>4. ASSUME NEW v, UpToDate(v), pass.pc # "idle"
      PROVE  UpToDate(v)'
  BY <1>1, <1>3, <1>4 DEF UpToDate
<1>5. OwnerWaits' /\ WritesAll'
  BY <1>1, <1>3 DEF ServedInv, OwnerWaits, WritesAll
<1>6. /\ pass.pc \in KnowsEvents => UpToDate(pass.events)'
      /\ pass.pc \in KnowsAccounts => UpToDate(pass.accounts)'
  BY <1>1, <1>4
  DEF ServedInv, UpToDate, KnowsEvents, KnowsAccounts, KnowsToday
<1>7. pass.pc = "written" /\ pass.owner \in Writers =>
          Serves(request[pass.owner].wrote)'
  BY <1>1, <1>2, <1>3 DEF ServedInv, Serves
<1>8. Serves(served)'
  BY <1>1, <1>2 DEF ServedInv, Serves
<1> QED
  BY <1>1, <1>5, <1>6, <1>7, <1>8 DEF ServedInv

(* A step of a pass that moves neither the series nor what is served, and  *)
(* keeps the memory or goes on to write the whole series.                  *)
LEMMA StageServed ==
    ASSUME TypedInv, ServedInv,
           NEW from \in KnowsToday, NEW to \in KnowsToday \ {"written"},
           pass.pc = from, pass'.pc = to, pass'.owner = pass.owner,
           pass'.events = pass.events, pass'.accounts = pass.accounts,
           UNCHANGED <<request, served, series>>,
           \/ last' = last
           \/ to = "kept",
           to \in {"seen", "today", "upsert", "upserted"} =>
               from \in {"seen", "today", "upsert"},
           to \in {"points", "quotes", "choose"} =>
               from \in {"points", "quotes"}
    PROVE  ServedInv'
<1>1. OwnerWaits' /\ WritesAll'
  BY DEF ServedInv, OwnerWaits, WritesAll, KnowsToday
<1>2. UpToDate(pass.events)' /\ UpToDate(pass.accounts)'
  BY DEF ServedInv, UpToDate, KnowsEvents, KnowsAccounts
<1>3. Serves(served)'
  BY DEF ServedInv, Serves
<1>4. pass'.pc \in {"seen", "today", "upsert"} =>
          served' <= last'.events /\ served' <= last'.accounts
  BY DEF ServedInv
<1> QED
  BY <1>1, <1>2, <1>3, <1>4 DEF ServedInv

(* A pass that ends has served its request, or had none. *)
LEMMA EndServed ==
    ASSUME TypedInv, ServedInv, EndPass(TRUE), UNCHANGED series, pass.pc # "idle",
           \/ pass.owner \notin Writers
           \/ Serves(request[pass.owner].wrote)
    PROVE  ServedInv'
<1> USE Versions, NobodyAssumption
<1>1. pass'.pc = "idle" /\ pass'.owner \notin Writers
  BY DEF EndPass, Idle
<1>2. \/ served' = served
      \/ pass.owner \in Writers /\ served' = request[pass.owner].wrote
  BY DEF EndPass, Owners
<1>3. Serves(served)'
  BY <1>2 DEF EndPass, ServedInv, Serves, Owners
<1> QED
  BY <1>1, <1>3
  DEF ServedInv, OwnerWaits, WritesAll, KnowsEvents, KnowsAccounts, KnowsToday

(* A step of a pass keeps the invariant. *)
LEMMA PassServed ==
    ASSUME TypedInv, ServedInv, PassStep
    PROVE  ServedInv'
<1> USE Versions
<1>1. CASE ReadEvents
  <2>1. /\ pass.pc = "events" /\ pass'.pc = "accounts"
        /\ pass'.owner = pass.owner /\ pass'.events = ledger
        /\ UNCHANGED <<request, served, series, last>>
    BY <1>1, ReadMoves DEF ReadEvents, Read, aroundPass, memory
  <2>2. UpToDate(pass.events)'
    BY <2>1 DEF UpToDate
  <2>3. OwnerWaits' /\ WritesAll' /\ Serves(served)'
    BY <2>1 DEF ServedInv, OwnerWaits, WritesAll, Serves
  <2> QED
    BY <2>1, <2>2, <2>3 DEF ServedInv, KnowsAccounts, KnowsToday
<1>2. CASE ReadAccounts
  <2>1. /\ pass.pc = "accounts" /\ pass'.pc = "clock"
        /\ pass'.owner = pass.owner /\ pass'.events = pass.events
        /\ pass'.accounts = ledger
        /\ UNCHANGED <<request, served, series, last>>
    BY <1>2, ReadMoves
    DEF ReadAccounts, Read, aroundPass, memory, TypedInv, PassShape, KnowsEvents
  <2>2. UpToDate(pass.events)' /\ UpToDate(pass.accounts)'
    BY <2>1 DEF ServedInv, UpToDate, KnowsEvents
  <2>3. OwnerWaits' /\ WritesAll' /\ Serves(served)'
    BY <2>1 DEF ServedInv, OwnerWaits, WritesAll, Serves
  <2> QED
    BY <2>1, <2>2, <2>3 DEF ServedInv
<1>3. CASE ReadClock
  <2>1. /\ pass.pc = "clock" /\ pass'.pc = "points"
        /\ pass'.owner = pass.owner /\ pass'.events = pass.events
        /\ pass'.accounts = pass.accounts
        /\ UNCHANGED <<request, served, series, last>>
    BY <1>3, ReadMoves
    DEF ReadClock, Read, aroundPass, memory, TypedInv, PassShape, KnowsEvents,
        KnowsAccounts
  <2>2. UpToDate(pass.events)' /\ UpToDate(pass.accounts)'
    BY <2>1 DEF ServedInv, UpToDate, KnowsEvents, KnowsAccounts
  <2>3. OwnerWaits' /\ WritesAll' /\ Serves(served)'
    BY <2>1 DEF ServedInv, OwnerWaits, WritesAll, Serves
  <2> QED
    BY <2>1, <2>2, <2>3 DEF ServedInv
<1>4. ASSUME NEW from \in KnowsToday, NEW to \in KnowsToday, NEW read,
             Read(from, to, read),
             {"owner", "events", "accounts", "today"} \cap DOMAIN read = {}
      PROVE  /\ pass.pc = from /\ pass'.pc = to /\ pass'.owner = pass.owner
             /\ pass'.events = pass.events /\ pass'.accounts = pass.accounts
             /\ UNCHANGED <<request, served, series>>
  <2>1. {"owner", "events", "accounts"} \subseteq DOMAIN pass
    BY <1>4, ReadMoves
    DEF TypedInv, PassShape, KnowsEvents, KnowsAccounts
  <2>2. \A k \in {"owner", "events", "accounts"} : pass'[k] = pass[k]
    BY <1>4, <2>1, ReadMoves
  <2> QED
    BY <1>4, <2>2, ReadMoves DEF Read, aroundPass
<1>5. CASE FingerprintPoints
  BY <1>4, <1>5, StageServed DEF FingerprintPoints, KnowsToday, memory
<1>6. CASE FingerprintQuotes
  BY <1>4, <1>6, StageServed DEF FingerprintQuotes, KnowsToday, memory
<1>7. CASE CheckCache
  BY <1>4, <1>7, StageServed DEF CheckCache, KnowsToday
<1>8. CASE ReadCloses
  BY <1>4, <1>8, StageServed DEF ReadCloses, KnowsToday
<1>9. CASE ReadCarried
  BY <1>4, <1>9, StageServed DEF ReadCarried, KnowsToday, memory
<1>10. CASE Remember
  BY <1>4, <1>10, StageServed DEF Remember, KnowsToday, memory
<1>11. CASE ReadToday
  BY <1>4, <1>11, StageServed DEF ReadToday, KnowsToday, memory
<1>12. ASSUME NEW from, NEW to, GoTo(from, to)
       PROVE  /\ pass.pc = from /\ pass'.pc = to /\ pass'.owner = pass.owner
              /\ pass'.events = pass.events /\ pass'.accounts = pass.accounts
              /\ UNCHANGED <<request, served>>
  BY <1>12 DEF GoTo, aroundPass
<1>13. CASE TodayAlone
  <2>1. /\ pass.pc = "choose" /\ pass'.pc = "seen" /\ pass'.owner = pass.owner
        /\ pass'.events = pass.events /\ pass'.accounts = pass.accounts
        /\ UNCHANGED <<request, served, series, last>>
    BY <1>12, <1>13 DEF TodayAlone, memory
  <2>2. /\ last.kept /\ last.events = pass.events
        /\ last.accounts = pass.accounts
    BY <1>13 DEF TodayAlone, Continues, SamePast
  <2>3. pass.owner \notin Writers
    BY <2>1, <2>2 DEF ServedInv, WritesAll
  <2>4. UpToDate(pass.events) /\ UpToDate(pass.accounts)
    BY <2>1 DEF ServedInv, KnowsEvents, KnowsAccounts, KnowsToday
  <2>5. OwnerWaits' /\ WritesAll' /\ Serves(served)'
    BY <2>1, <2>3 DEF ServedInv, OwnerWaits, WritesAll, Serves
  <2> QED
    BY <2>1, <2>2, <2>4, <2>5 DEF ServedInv, UpToDate
<1>14. CASE RebuildWhole
  BY <1>12, <1>14, StageServed DEF RebuildWhole, KnowsToday
<1>15. CASE SeeSymbols
  <2>1. \/ GoTo("seen", "today") /\ last' = last
        \/ GoTo("seen", "kept")
    BY <1>15 DEF SeeSymbols
  <2>2. UNCHANGED series
    BY <1>15 DEF SeeSymbols
  <2> QED
    BY <1>12, <2>1, <2>2, StageServed DEF KnowsToday
<1>16. CASE WriteSeries
  <2>1. /\ pass.pc = "write" /\ pass'.pc = "written"
        /\ pass'.owner = pass.owner /\ pass'.events = pass.events
        /\ pass'.accounts = pass.accounts /\ UNCHANGED <<request, served, last>>
    BY <1>12, <1>16 DEF WriteSeries, memory
  <2>2. UpToDate(pass.events) /\ UpToDate(pass.accounts)
    BY <2>1 DEF ServedInv, KnowsEvents, KnowsAccounts, KnowsToday
  <2>3. \A d \in Days : series'[d] # NoPoint =>
            series'[d][1] = pass.events /\ series'[d][2] = pass.accounts
    BY <1>16, SeriesVersions DEF WriteSeries
  <2>4. pass.events \in Nat /\ pass.accounts \in Nat
    BY <2>1 DEF KnowsEvents, KnowsAccounts, KnowsToday
  <2>5. /\ Serves(served)'
        /\ pass.owner \in Writers => Serves(request[pass.owner].wrote)'
    BY <2>1, <2>2, <2>3, <2>4 DEF Serves, UpToDate
  <2>6. OwnerWaits' /\ WritesAll' /\ UpToDate(pass.events)'
                    /\ UpToDate(pass.accounts)'
    BY <2>1, <2>2 DEF ServedInv, OwnerWaits, WritesAll, UpToDate
  <2> QED
    BY <2>1, <2>5, <2>6 DEF ServedInv
<1>17. CASE WriteToday
  <2>1. /\ pass.pc = "upsert" /\ pass'.pc = "upserted"
        /\ pass'.owner = pass.owner /\ pass'.events = pass.events
        /\ pass'.accounts = pass.accounts /\ UNCHANGED <<request, served, last>>
    BY <1>12, <1>17 DEF WriteToday, memory
  <2>2. /\ served <= last.events /\ served <= last.accounts
        /\ Serves(served) /\ pass.owner \notin Writers
    BY <2>1 DEF ServedInv, WritesAll
  <2>3. Serves(served)'
    <3> SUFFICES ASSUME NEW d \in Days, series'[d] # NoPoint
                 PROVE  series'[d][1] >= served /\ series'[d][2] >= served
      BY <2>1 DEF Serves
    <3>1. CASE series'[d] = series[d]
      BY <2>2, <3>1 DEF Serves
    <3>2. CASE series'[d] # series[d]
      <4>1. d = pass.today
        BY <1>17, <3>2 DEF WriteToday, TypedInv, TypeOK
      <4>2. series'[d] = Point(last.events, last.accounts, last.carried,
                               pass.closes, d)
        BY <1>17, <3>2, <4>1 DEF WriteToday, TypedInv, TypeOK
      <4>3. series'[d][1] = last.events /\ series'[d][2] = last.accounts
        BY <4>2, PointVersions
      <4> QED
        BY <2>2, <4>3
    <3> QED
      BY <3>1, <3>2
  <2>4. OwnerWaits' /\ WritesAll'
    BY <2>1, <2>2 DEF ServedInv, OwnerWaits, WritesAll
  <2>5. UpToDate(pass.events)' /\ UpToDate(pass.accounts)'
    BY <2>1
    DEF ServedInv, UpToDate, KnowsEvents, KnowsAccounts, KnowsToday
  <2> QED
    BY <2>1, <2>3, <2>4, <2>5 DEF ServedInv
<1>18. CASE Unchanged
  <2>1. pass.pc = "choose" /\ EndPass(TRUE) /\ UNCHANGED series /\ last.kept
    BY <1>18 DEF Unchanged, Same, SamePast
  <2>2. pass.owner \notin Writers
    BY <2>1 DEF ServedInv, WritesAll
  <2> QED
    BY <2>1, <2>2, EndServed
<1>19. CASE KeepMemory
  <2>1. pass.pc = "written" /\ EndPass(TRUE) /\ UNCHANGED series
    BY <1>19 DEF KeepMemory
  <2>2. pass.owner \in Writers => Serves(request[pass.owner].wrote)
    BY <2>1 DEF ServedInv
  <2> QED
    BY <2>1, <2>2, EndServed
<1>20. CASE KeepToday
  <2>1. pass.pc = "upserted" /\ EndPass(TRUE) /\ UNCHANGED series
    BY <1>20 DEF KeepToday
  <2>2. pass.owner \notin Writers
    BY <2>1 DEF ServedInv, WritesAll
  <2> QED
    BY <2>1, <2>2, EndServed
<1> QED
  BY <1>1, <1>2, <1>3, <1>5, <1>6, <1>7, <1>8, <1>9, <1>10, <1>11, <1>13,
     <1>14, <1>15, <1>16, <1>17, <1>18, <1>19, <1>20
  DEF PassStep

(* Every action keeps the invariant. *)
LEMMA StepServed == TypedInv /\ ServedInv /\ [Next]_vars => ServedInv'
<1> SUFFICES ASSUME TypedInv, ServedInv, [Next]_vars
             PROVE  ServedInv'
  OBVIOUS
<1> USE Versions, NobodyAssumption
<1>1. CASE \/ DayTurn \/ StoreQuoteRow
           \/ \E s \in Symbols, d \in Days : StoreClose(s, d)
           \/ \E w \in Writers : WriteLedger(w) \/ Ingest(w) \/ IngestFails(w)
  BY <1>1, InputServed
<1>2. CASE Tick
  <2>1. /\ pass'.pc = "events" /\ pass'.owner \notin Writers
        /\ UNCHANGED <<served, series>>
    BY <1>2 DEF Tick, Idle, aroundPass
  <2> QED
    BY <2>1
    DEF ServedInv, OwnerWaits, WritesAll, Serves, KnowsEvents, KnowsAccounts,
        KnowsToday
<1>3. ASSUME NEW w \in Writers, RunOnWrite(w)
      PROVE  ServedInv'
  <2>1. /\ pass'.pc = "events" /\ pass'.owner = w /\ ~last'.kept
        /\ request'[w].at = "perf" /\ UNCHANGED <<served, series>>
    BY <1>3 DEF RunOnWrite, NoMemory, aroundPass
  <2> QED
    BY <2>1
    DEF ServedInv, OwnerWaits, WritesAll, Serves, KnowsEvents, KnowsAccounts,
        KnowsToday
<1>4. CASE PassStep
  BY <1>4, PassServed
<1>5. CASE Fail \/ Restart
  <2>1. /\ pass'.pc = "idle" /\ pass'.owner \notin Writers
        /\ UNCHANGED <<served, series>>
    BY <1>5 DEF Fail, Restart, EndPass, Idle
  <2> QED
    BY <2>1
    DEF ServedInv, OwnerWaits, WritesAll, Serves, KnowsEvents, KnowsAccounts,
        KnowsToday
<1>6. CASE UNCHANGED vars
  BY <1>6
  DEF vars, memory, ServedInv, OwnerWaits, WritesAll, UpToDate, Serves
<1> QED
  BY <1>1, <1>2, <1>3, <1>4, <1>5, <1>6 DEF Next

(***************************************************************************)
(* rebuild_series under perf_lock (performance.py): when a request is      *)
(* answered and its pass did not fail, no point of an older ledger is left *)
(* or comes back, whichever passes ran meanwhile and whether or not its    *)
(* own ingestion could publish the write.                                  *)
(***************************************************************************)
THEOREM WritesServed == Spec => []WriteIsServed
<1>1. Init => ServedInv
  BY NobodyAssumption
  DEF Init, Idle, NoSeries, ServedInv, OwnerWaits, WritesAll, Serves,
      KnowsEvents, KnowsAccounts, KnowsToday
<1>2. ServedInv => WriteIsServed
  BY DEF ServedInv, WriteIsServed, Serves
<1> QED
  BY <1>1, <1>2, InitTyped, StepTyped, StepServed, PTL DEF Spec

-----------------------------------------------------------------------------
(* The closes kept between passes.  A write of a close stores a number     *)
(* greater than any before: what was read earlier is pointwise at most     *)
(* what is read later, and the two are equal only when nothing moved       *)
(* between.                                                                *)

Closes == [Symbols -> [Days -> Nat]]

AtMost(p, q) == \A s \in Symbols, d \in Days : p[s][d] <= q[s][d]

-----------------------------------------------------------------------------
(* Closes *)

LEMMA DaysAreNumbers == Days \subseteq Nat
BY DEF Days

(* What a cut of the closes is. *)
LEMMA Cuts ==
    ASSUME NEW p, NEW q, NEW a, NEW b, NEW s \in Symbols, NEW d \in Days
    PROVE  /\ Between(p, a, b)[s][d] = IF d \in a .. b THEN p[s][d] ELSE 0
           /\ Together(p, q, a)[s][d] = IF d < a THEN p[s][d] ELSE q[s][d]
BY DEF Between, Together

LEMMA BehindIs ==
    ASSUME NEW p, NEW day \in Nat, NEW s \in Symbols, NEW d \in Days
    PROVE  Behind(p, day)[s][d] = IF d < day THEN p[s][d] ELSE 0
<1>1. d \in 0 .. day - 1 <=> d < day
  BY DEF Days
<1> QED
  BY <1>1 DEF Behind, Between

LEMMA FromIs ==
    ASSUME NEW p, NEW day \in Nat, NEW s \in Symbols, NEW d \in Days
    PROVE  From(p, day)[s][d] = IF d >= day THEN p[s][d] ELSE 0
<1>1. d \in day .. MaxDay <=> d >= day
  BY DaysAssumption DEF Days
<1> QED
  BY <1>1, Cuts DEF From

(* Cuts of closes are closes. *)
LEMMA CutsAreCloses ==
    ASSUME NEW p \in Closes, NEW q \in Closes, NEW a, NEW b
    PROVE  /\ Between(p, a, b) \in Closes /\ Together(p, q, a) \in Closes
           /\ Behind(p, a) \in Closes /\ From(p, a) \in Closes
           /\ NoClose \in Closes
BY DEF Between, Together, Behind, From, NoClose, Closes

(* Closes that agree, pointwise, are equal. *)
LEMMA ClosesEqual ==
    ASSUME NEW p \in Closes, NEW q \in Closes,
           \A s \in Symbols, d \in Days : p[s][d] = q[s][d]
    PROVE  p = q
<1>1. \A s \in Symbols : p[s] = q[s]
  BY DEF Closes
<1> QED
  BY <1>1 DEF Closes

(* The closes of the store only grow, and are those of its days. *)
LEMMA PriceIsCloses ==
    ASSUME TypedInv
    PROVE  /\ price \in Closes /\ clock \in Nat /\ ledger \in Nat
           /\ meta \in Nat /\ writes \in Nat
BY DaysAssumption DEF TypedInv, TypeOK, Counted, Closes

LEMMA PriceGrows ==
    ASSUME TypedInv, [Next]_vars
    PROVE  AtMost(price, price')
<1> USE PriceIsCloses
<1>1. CASE price' = price
  BY <1>1 DEF AtMost, Closes
<1>2. ASSUME NEW s \in Symbols, NEW d \in Days, StoreClose(s, d)
      PROVE  AtMost(price, price')
  <2>1. price \in [Symbols -> [Days -> 0 .. writes]] /\ writes \in Nat
    BY DEF TypedInv, Counted
  <2> QED
    BY <1>2, <2>1 DEF StoreClose, AtMost
<1> QED
  BY <1>1, <1>2
  DEF Next, DayTurn, StoreQuoteRow, WriteLedger, Ingest, IngestFails, Tick,
      RunOnWrite, PassStep, Fail, Restart, ReadEvents, ReadAccounts, ReadClock,
      FingerprintPoints, FingerprintQuotes, Unchanged, TodayAlone, RebuildWhole,
      CheckCache, ReadCloses, ReadCarried, Remember, WriteSeries, KeepMemory,
      SeeSymbols, ReadToday, WriteToday, KeepToday, Read, GoTo, aroundPass,
      inputs, vars

-----------------------------------------------------------------------------
(* The closes a pass has read, and those kept between passes *)

KnowsPoints == KnowsToday \ {"points"}
HasCloses == {"carried", "remember", "write", "written"}

(* The halves the pass fingerprinted are of the store, then or since.      *)
PointsRead ==
    /\ {"history", "recent"} \subseteq DOMAIN pass
    /\ pass.history \in Closes /\ pass.recent \in Closes
    /\ AtMost(pass.history, Behind(price, pass.today))
    /\ AtMost(pass.recent, From(price, pass.today))

(* The closes it takes over are no older than what it fingerprinted.       *)
BehindTaken ==
    /\ pass.cut \in 0 .. pass.today
    /\ pass.behind \in Closes
    /\ \A s \in Symbols, d \in Days :
          d < pass.cut => /\ pass.history[s][d] <= pass.behind[s][d]
                          /\ pass.behind[s][d] <= price[s][d]

(* Nor are those it computes the series from. *)
ClosesRead ==
    /\ "closes" \in DOMAIN pass
    /\ pass.closes \in Closes
    /\ AtMost(pass.history, pass.closes)
    /\ AtMost(pass.recent, pass.closes)
    /\ AtMost(pass.closes, price)

(* The closes of the cache lie between what was fingerprinted before them  *)
(* and what the store has now: where those two agree, so do they.          *)
CacheBetween ==
    cache.kept =>
        /\ cache.cut \in Nat
        /\ cache.history \in Closes /\ cache.closes \in Closes
        /\ AtMost(cache.history, cache.closes)
        /\ AtMost(cache.closes, Behind(price, cache.cut))

ClosesInv ==
    /\ pass.pc \in KnowsPoints => PointsRead
    /\ pass.pc = "closes" => BehindTaken
    /\ pass.pc \in HasCloses => ClosesRead
    /\ CacheBetween

(* What was read stays at most what the store has. *)
LEMMA AtMostLater ==
    ASSUME NEW p \in Closes, NEW q \in Closes, NEW r \in Closes,
           AtMost(p, q), AtMost(q, r)
    PROVE  AtMost(p, r)
<1> SUFFICES ASSUME NEW s \in Symbols, NEW d \in Days
             PROVE  p[s][d] <= r[s][d]
  BY DEF AtMost
<1>1. p[s][d] \in Nat /\ q[s][d] \in Nat /\ r[s][d] \in Nat
  BY DEF Closes
<1>2. p[s][d] <= q[s][d] /\ q[s][d] <= r[s][d]
  BY DEF AtMost
<1> QED
  BY <1>1, <1>2

LEMMA CutsGrow ==
    ASSUME NEW p \in Closes, NEW q \in Closes, AtMost(p, q), NEW day \in Nat
    PROVE  /\ AtMost(Behind(p, day), Behind(q, day))
           /\ AtMost(From(p, day), From(q, day))
           /\ AtMost(Behind(p, day), p) /\ AtMost(From(p, day), p)
<1> SUFFICES ASSUME NEW s \in Symbols, NEW d \in Days
             PROVE  /\ Behind(p, day)[s][d] <= Behind(q, day)[s][d]
                    /\ From(p, day)[s][d] <= From(q, day)[s][d]
                    /\ Behind(p, day)[s][d] <= p[s][d]
                    /\ From(p, day)[s][d] <= p[s][d]
  BY DEF AtMost
<1>1. p[s][d] \in Nat /\ q[s][d] \in Nat /\ p[s][d] <= q[s][d]
  BY DEF Closes, AtMost
<1>2. /\ Behind(p, day)[s][d] = IF d < day THEN p[s][d] ELSE 0
      /\ Behind(q, day)[s][d] = IF d < day THEN q[s][d] ELSE 0
  BY BehindIs
<1>3. /\ From(p, day)[s][d] = IF d >= day THEN p[s][d] ELSE 0
      /\ From(q, day)[s][d] = IF d >= day THEN q[s][d] ELSE 0
  BY FromIs
<1> QED
  BY <1>1, <1>2, <1>3

(* A step that keeps what the pass has read keeps what is known of it. *)
LEMMA PointsStay ==
    ASSUME TypedInv, TypedInv', [Next]_vars, PointsRead,
           pass.today \in Nat, pass'.today = pass.today,
           {"history", "recent"} \subseteq DOMAIN pass',
           pass'.history = pass.history, pass'.recent = pass.recent
    PROVE  PointsRead'
<1>1. price \in Closes /\ AtMost(price, price')
  BY PriceIsCloses, PriceGrows
<1>2. price' \in Closes
  BY DEF TypedInv, Counted, Closes
<1>3. /\ AtMost(Behind(price, pass.today), Behind(price', pass.today))
      /\ AtMost(From(price, pass.today), From(price', pass.today))
  BY <1>1, <1>2, CutsGrow
<1>4. /\ AtMost(pass.history, Behind(price', pass.today))
      /\ AtMost(pass.recent, From(price', pass.today))
  BY <1>1, <1>2, <1>3, AtMostLater, CutsAreCloses DEF PointsRead
<1> QED
  BY <1>4 DEF PointsRead

LEMMA ClosesStay ==
    ASSUME TypedInv, TypedInv', [Next]_vars, ClosesRead,
           "closes" \in DOMAIN pass', pass'.closes = pass.closes,
           pass'.history = pass.history, pass'.recent = pass.recent
    PROVE  ClosesRead'
<1>1. price \in Closes /\ AtMost(price, price')
  BY PriceIsCloses, PriceGrows
<1>2. price' \in Closes
  BY DEF TypedInv, Counted, Closes
<1>3. AtMost(pass.closes, price')
  BY <1>1, <1>2, AtMostLater DEF ClosesRead
<1> QED
  BY <1>3 DEF ClosesRead

LEMMA CacheStays ==
    ASSUME TypedInv, TypedInv', [Next]_vars, CacheBetween, cache' = cache
    PROVE  CacheBetween'
<1> SUFFICES ASSUME cache.kept
             PROVE  AtMost(cache.closes, Behind(price', cache.cut))
  BY DEF CacheBetween
<1>1. price \in Closes /\ AtMost(price, price')
  BY PriceIsCloses, PriceGrows
<1>2. price' \in Closes
  BY DEF TypedInv, Counted, Closes
<1>3. AtMost(Behind(price, cache.cut), Behind(price', cache.cut))
  BY <1>1, <1>2, CutsGrow DEF CacheBetween
<1> QED
  BY <1>1, <1>2, <1>3, AtMostLater, CutsAreCloses DEF CacheBetween

(* A step within a pass that keeps the closes and the points it has read.  *)
LEMMA StageCloses ==
    ASSUME TypedInv, TypedInv', [Next]_vars, ClosesInv, cache' = cache,
           NEW from \in KnowsPoints, NEW to \in KnowsPoints \ {"closes"},
           pass.pc = from, pass'.pc = to, pass'.today = pass.today,
           {"history", "recent"} \subseteq DOMAIN pass',
           pass'.history = pass.history, pass'.recent = pass.recent,
           to \in HasCloses => /\ from \in HasCloses
                               /\ "closes" \in DOMAIN pass'
                               /\ pass'.closes = pass.closes
    PROVE  ClosesInv'
<1>1. pass.today \in Nat
  BY DEF TypedInv, PassShape, KnowsPoints
<1>2. PointsRead'
  BY <1>1, PointsStay DEF ClosesInv
<1>3. to \in HasCloses => ClosesRead'
  BY ClosesStay DEF ClosesInv
<1>4. CacheBetween'
  BY CacheStays DEF ClosesInv
<1> QED
  BY <1>2, <1>3, <1>4 DEF ClosesInv

(* A step that leaves the pass alone, or before or after its points.       *)
LEMMA OtherCloses ==
    ASSUME TypedInv, TypedInv', [Next]_vars, ClosesInv,
           cache' \in {cache, NoCache},
           pass' = pass \/ pass'.pc \notin KnowsPoints
    PROVE  ClosesInv'
<1>1. CacheBetween'
  BY CacheStays DEF ClosesInv, CacheBetween, NoCache
<1>2. CASE pass'.pc \notin KnowsPoints
  BY <1>1, <1>2 DEF ClosesInv, KnowsPoints, KnowsToday, HasCloses
<1>3. CASE pass' = pass
  <2>1. pass.pc \in KnowsPoints => PointsRead'
    <3> SUFFICES ASSUME pass.pc \in KnowsPoints
                 PROVE  PointsRead'
      OBVIOUS
    <3>1. pass.today \in Nat /\ PointsRead
      BY DEF TypedInv, PassShape, KnowsPoints, ClosesInv
    <3> QED
      BY <1>3, <3>1, PointsStay DEF PointsRead
  <2>2. pass.pc \in HasCloses => ClosesRead'
    BY <1>3, ClosesStay DEF ClosesInv, ClosesRead
  <2>3. pass.pc = "closes" => BehindTaken'
    <3> SUFFICES ASSUME pass.pc = "closes", NEW s \in Symbols, NEW d \in Days,
                        d < pass.cut
                 PROVE  pass.behind[s][d] <= price'[s][d]
      BY <1>3 DEF ClosesInv, BehindTaken
    <3>1. pass.behind[s][d] \in Nat /\ pass.behind[s][d] <= price[s][d]
      BY DEF ClosesInv, BehindTaken, Closes
    <3>2. price[s][d] <= price'[s][d]
      BY PriceGrows DEF AtMost
    <3>3. price[s][d] \in Nat /\ price'[s][d] \in Nat
      BY DEF TypedInv, Counted
    <3> QED
      BY <3>1, <3>2, <3>3
  <2> QED
    BY <1>1, <1>3, <2>1, <2>2, <2>3 DEF ClosesInv
<1> QED
  BY <1>2, <1>3

(* The points are fingerprinted. *)
LEMMA PointsCloses ==
    ASSUME TypedInv, TypedInv', ClosesInv, FingerprintPoints
    PROVE  ClosesInv'
<1>1. /\ pass.pc = "points" /\ pass'.pc = "quotes"
      /\ {"history", "recent"} \subseteq DOMAIN pass'
      /\ pass'.history = Behind(price, pass.today)
      /\ pass'.recent = From(price, pass.today)
  BY ReadMoves DEF FingerprintPoints, TypedInv, PassShape
<1>2. pass'.today = pass.today
  BY <1>1, ReadMoves DEF FingerprintPoints, TypedInv, PassShape, KnowsToday
<1>3. UNCHANGED <<price, cache>>
  BY DEF FingerprintPoints, Read, aroundPass, inputs, memory
<1>4. PointsRead'
  <2>1. {Behind(price, pass.today), From(price, pass.today)} \subseteq Closes
    BY PriceIsCloses, CutsAreCloses
  <2>2. \A p \in Closes : AtMost(p, p)
    BY DEF AtMost, Closes
  <2> QED
    BY <1>1, <1>2, <1>3, <2>1, <2>2 DEF PointsRead
<1> QED
  BY <1>1, <1>3, <1>4 DEF ClosesInv, HasCloses, CacheBetween

(* The closes of the cache are taken over, those behind its cut, when the  *)
(* store still has what was fingerprinted before them; or none are.        *)
LEMMA CheckCloses ==
    ASSUME TypedInv, TypedInv', [Next]_vars, ClosesInv, CheckCache
    PROVE  ClosesInv'
<1> DEFINE behind == IF CacheHolds THEN cache.closes ELSE NoClose
           cut == IF CacheHolds THEN cache.cut ELSE 0
<1>1. /\ pass.pc = "kept" /\ pass'.pc = "closes"
      /\ pass'.behind = behind /\ pass'.cut = cut
  BY ReadMoves DEF CheckCache, TypedInv, PassShape
<1>2. pass.today \in Nat /\ PointsRead
  BY <1>1 DEF TypedInv, PassShape, KnowsPoints, KnowsToday, ClosesInv
<1>3. /\ {"history", "recent"} \subseteq DOMAIN pass'
      /\ pass'.today = pass.today
      /\ pass'.history = pass.history /\ pass'.recent = pass.recent
  BY <1>1, <1>2, ReadMoves
  DEF CheckCache, TypedInv, PassShape, KnowsToday, PointsRead
<1>4. PointsRead'
  BY <1>2, <1>3, PointsStay
<1>5. UNCHANGED price /\ ~cache'.kept
  BY DEF CheckCache, Read, aroundPass, inputs, NoCache
<1>6. price \in Closes
  BY PriceIsCloses
<1>7. CASE CacheHolds
  <2>1. /\ cache.kept /\ cache.cut \in 0 .. pass.today
        /\ \/ cache.history = pass.history
           \/ cache.cut < pass.today /\ cache.history = Behind(price, cache.cut)
    BY <1>2, <1>7 DEF CacheHolds, ClosesInv, CacheBetween
  <2>2. /\ cache.history \in Closes /\ cache.closes \in Closes
        /\ AtMost(cache.history, cache.closes)
        /\ AtMost(cache.closes, Behind(price, cache.cut))
    BY <2>1 DEF ClosesInv, CacheBetween
  <2>3. ASSUME NEW s \in Symbols, NEW d \in Days, d < cache.cut
        PROVE  /\ pass.history[s][d] <= cache.closes[s][d]
               /\ cache.closes[s][d] <= price[s][d]
    <3>1. /\ pass.history[s][d] \in Nat /\ cache.history[s][d] \in Nat
          /\ cache.closes[s][d] \in Nat /\ price[s][d] \in Nat /\ d \in Nat
      BY <1>2, <1>6, <2>2, DaysAreNumbers DEF PointsRead, Closes
    <3>2. d < pass.today
      BY <1>2, <2>1, <2>3, <3>1
    <3>3. /\ Behind(price, cache.cut)[s][d] = price[s][d]
          /\ Behind(price, pass.today)[s][d] = price[s][d]
      BY <1>2, <2>1, <2>3, <3>2, BehindIs
    <3>4. pass.history[s][d] <= price[s][d]
      BY <1>2, <3>3 DEF PointsRead, AtMost
    <3>5. /\ cache.history[s][d] <= cache.closes[s][d]
          /\ cache.closes[s][d] <= price[s][d]
      BY <2>2, <3>3 DEF AtMost
    <3>6. pass.history[s][d] <= cache.history[s][d]
      BY <2>1, <3>1, <3>3, <3>4
    <3> QED
      BY <3>1, <3>5, <3>6
  <2> QED
    BY <1>1, <1>3, <1>4, <1>5, <1>7, <2>1, <2>2, <2>3
    DEF ClosesInv, BehindTaken, CacheBetween, HasCloses
<1>8. CASE ~CacheHolds
  <2>1. \A d \in Days : ~(d < 0)
    BY DEF Days
  <2>2. NoClose \in Closes
    BY DEF NoClose, Closes
  <2>3. BehindTaken'
    BY <1>1, <1>2, <1>3, <1>8, <2>1, <2>2 DEF BehindTaken
  <2> QED
    BY <1>1, <1>4, <1>5, <2>3 DEF ClosesInv, CacheBetween, HasCloses
<1> QED
  BY <1>7, <1>8

(* The closes are read, behind the cut as the cache had them. *)
LEMMA ReadsCloses ==
    ASSUME TypedInv, TypedInv', [Next]_vars, ClosesInv, ReadCloses
    PROVE  ClosesInv'
<1> DEFINE closes == Together(pass.behind, price, pass.cut)
<1>1. /\ pass.pc = "closes" /\ pass'.pc = "carried"
      /\ "closes" \in DOMAIN pass' /\ pass'.closes = closes
  BY ReadMoves DEF ReadCloses, TypedInv, PassShape
<1>2. pass.today \in Nat /\ PointsRead /\ BehindTaken
  BY <1>1 DEF TypedInv, PassShape, KnowsPoints, KnowsToday, ClosesInv
<1>3. /\ {"history", "recent"} \subseteq DOMAIN pass'
      /\ pass'.today = pass.today
      /\ pass'.history = pass.history /\ pass'.recent = pass.recent
  BY <1>1, <1>2, ReadMoves
  DEF ReadCloses, TypedInv, PassShape, KnowsToday, PointsRead
<1>4. PointsRead'
  BY <1>2, <1>3, PointsStay
<1>5. UNCHANGED price /\ price \in Closes
  BY PriceIsCloses DEF ReadCloses, Read, aroundPass, inputs
<1>6. closes \in Closes
  BY <1>2, <1>5, CutsAreCloses DEF BehindTaken
<1>7. ASSUME NEW s \in Symbols, NEW d \in Days
      PROVE  /\ pass.history[s][d] <= closes[s][d]
             /\ pass.recent[s][d] <= closes[s][d]
             /\ closes[s][d] <= price[s][d]
             /\ d >= pass.today => pass.history[s][d] = 0
             /\ closes[s][d] \in Nat /\ pass.history[s][d] \in Nat
  <2>1. /\ pass.history[s][d] \in Nat /\ pass.recent[s][d] \in Nat
        /\ pass.behind[s][d] \in Nat /\ price[s][d] \in Nat /\ d \in Nat
    BY <1>2, <1>5, DaysAreNumbers DEF PointsRead, BehindTaken, Closes
  <2>2. closes[s][d] = IF d < pass.cut THEN pass.behind[s][d] ELSE price[s][d]
    BY DEF Together
  <2>3. /\ Behind(price, pass.today)[s][d] =
              IF d < pass.today THEN price[s][d] ELSE 0
        /\ From(price, pass.today)[s][d] =
              IF d >= pass.today THEN price[s][d] ELSE 0
    BY <1>2, BehindIs, FromIs
  <2>4. /\ pass.history[s][d] <= Behind(price, pass.today)[s][d]
        /\ pass.recent[s][d] <= From(price, pass.today)[s][d]
    BY <1>2 DEF PointsRead, AtMost
  <2>5. /\ pass.cut \in 0 .. pass.today
        /\ d < pass.cut => /\ pass.history[s][d] <= pass.behind[s][d]
                           /\ pass.behind[s][d] <= price[s][d]
    BY <1>2 DEF BehindTaken
  <2> HIDE DEF closes
  <2>6. CASE d < pass.cut
    BY <1>2, <2>1, <2>2, <2>3, <2>4, <2>5, <2>6
  <2>7. CASE ~(d < pass.cut)
    BY <1>2, <2>1, <2>2, <2>3, <2>4, <2>5, <2>7
  <2> QED
    BY <2>6, <2>7
<1> HIDE DEF closes
<1>8. ClosesRead'
  BY <1>1, <1>3, <1>5, <1>6, <1>7 DEF ClosesRead, AtMost
<1>9. CacheBetween'
  <2>1. cache' = [kept |-> TRUE, cut |-> pass.today, history |-> pass.history,
                  closes |-> Behind(closes, pass.today)]
    BY DEF ReadCloses, closes
  <2>2. Behind(closes, pass.today) \in Closes
    BY <1>6, CutsAreCloses
  <2>3. AtMost(Behind(closes, pass.today), Behind(price, pass.today))
    <3>1. AtMost(closes, price)
      BY <1>7 DEF AtMost
    <3> QED
      BY <1>2, <1>5, <1>6, <3>1, CutsGrow
  <2>4. AtMost(pass.history, Behind(closes, pass.today))
    <3> SUFFICES ASSUME NEW s \in Symbols, NEW d \in Days
                 PROVE  pass.history[s][d] <= Behind(closes, pass.today)[s][d]
      BY DEF AtMost
    <3>1. Behind(closes, pass.today)[s][d] =
              IF d < pass.today THEN closes[s][d] ELSE 0
      BY <1>2, BehindIs
    <3>2. d \in Nat
      BY DaysAreNumbers
    <3> QED
      BY <1>2, <1>7, <3>1, <3>2
  <2> QED
    BY <1>2, <1>5, <2>1, <2>2, <2>3, <2>4 DEF CacheBetween, PointsRead
<1> QED
  BY <1>1, <1>4, <1>8, <1>9 DEF ClosesInv

(* Every step keeps the invariant. *)
LEMMA StepCloses ==
    TypedInv /\ TypedInv' /\ ClosesInv /\ [Next]_vars => ClosesInv'
<1> SUFFICES ASSUME TypedInv, TypedInv', ClosesInv, [Next]_vars
             PROVE  ClosesInv'
  OBVIOUS
<1>1. CASE \/ DayTurn \/ StoreQuoteRow
           \/ \E s \in Symbols, d \in Days : StoreClose(s, d)
           \/ \E w \in Writers : WriteLedger(w) \/ Ingest(w) \/ IngestFails(w)
  <2>1. pass' = pass /\ cache' = cache
    BY <1>1
    DEF DayTurn, StoreQuoteRow, StoreClose, WriteLedger, Ingest, IngestFails,
        memory
  <2> QED
    BY <2>1, OtherCloses
<1>2. CASE Tick \/ \E w \in Writers : RunOnWrite(w)
  <2>1. pass'.pc = "events" /\ cache' = cache
    BY <1>2 DEF Tick, RunOnWrite, Idle, memory
  <2> QED
    BY <2>1, OtherCloses DEF KnowsPoints, KnowsToday
<1>3. CASE \/ Unchanged \/ KeepMemory \/ KeepToday \/ Fail \/ Restart
  <2>1. pass'.pc = "idle" /\ cache' \in {cache, NoCache}
    BY <1>3
    DEF Unchanged, KeepMemory, KeepToday, Fail, Restart, EndPass, Idle, memory
  <2> QED
    BY <2>1, OtherCloses DEF KnowsPoints, KnowsToday
<1>4. CASE ReadEvents \/ ReadAccounts \/ ReadClock
  <2>1. pass'.pc \in {"accounts", "clock", "points"} /\ cache' = cache
    BY <1>4, ReadMoves
    DEF ReadEvents, ReadAccounts, ReadClock, memory, TypedInv, PassShape
  <2> QED
    BY <2>1, OtherCloses DEF KnowsPoints, KnowsToday
<1>5. CASE FingerprintPoints
  BY <1>5, PointsCloses
<1>6. CASE CheckCache
  BY <1>6, CheckCloses
<1>7. CASE ReadCloses
  BY <1>7, ReadsCloses
<1>8. ASSUME NEW from \in KnowsPoints, NEW to \in KnowsPoints \ {"closes"},
             NEW read, Read(from, to, read), cache' = cache,
             {"today", "history", "recent"} \cap DOMAIN read = {},
             to \in HasCloses =>
                 from \in HasCloses /\ "closes" \notin DOMAIN read
      PROVE  ClosesInv'
  <2>1. "pc" \in DOMAIN pass /\ pass.pc = from
    BY <1>8 DEF TypedInv, PassShape, Read
  <2>2. {"today", "history", "recent"} \subseteq DOMAIN pass
    BY <2>1 DEF TypedInv, PassShape, ClosesInv, PointsRead, KnowsPoints
  <2>3. to \in HasCloses => "closes" \in DOMAIN pass
    BY <1>8, <2>1 DEF ClosesInv, ClosesRead
  <2>4. \A k \in {"today", "history", "recent"} :
            k \in DOMAIN pass' /\ pass'[k] = pass[k]
    BY <1>8, <2>1, <2>2, ReadMoves
  <2>5. to \in HasCloses =>
            "closes" \in DOMAIN pass' /\ pass'["closes"] = pass["closes"]
    BY <1>8, <2>1, <2>3, ReadMoves
  <2>6. pass'.pc = to
    BY <1>8, <2>1, ReadMoves
  <2> QED
    BY <1>8, <2>1, <2>4, <2>5, <2>6, StageCloses
<1>9. CASE FingerprintQuotes \/ ReadCarried \/ Remember \/ ReadToday
  <2>1. CASE FingerprintQuotes
    BY <1>8, <2>1
    DEF FingerprintQuotes, KnowsPoints, KnowsToday, HasCloses, memory
  <2>2. CASE ReadCarried
    BY <1>8, <2>2 DEF ReadCarried, KnowsPoints, KnowsToday, HasCloses, memory
  <2>3. CASE Remember
    BY <1>8, <2>3 DEF Remember, KnowsPoints, KnowsToday, HasCloses, memory
  <2>4. CASE ReadToday
    BY <1>8, <2>4 DEF ReadToday, KnowsPoints, KnowsToday, HasCloses, memory
  <2> QED
    BY <1>9, <2>1, <2>2, <2>3, <2>4
<1>10. ASSUME NEW from \in KnowsPoints, NEW to \in KnowsPoints \ {"closes"},
              GoTo(from, to), cache' = cache,
              to \in HasCloses => from \in HasCloses
       PROVE  ClosesInv'
  <2>1. /\ pass.pc = from /\ pass'.pc = to /\ pass'.today = pass.today
        /\ DOMAIN pass' = DOMAIN pass /\ pass'.closes = pass.closes
        /\ pass'.history = pass.history /\ pass'.recent = pass.recent
    BY <1>10 DEF GoTo, TypedInv, PassShape
  <2>2. PointsRead /\ (to \in HasCloses => ClosesRead)
    BY <1>10, <2>1 DEF ClosesInv
  <2> QED
    BY <1>10, <2>1, <2>2, StageCloses DEF PointsRead, ClosesRead
<1>11. CASE TodayAlone \/ RebuildWhole \/ SeeSymbols
  <2>1. /\ cache' = cache
        /\ \E from \in {"choose", "seen"}, to \in {"seen", "kept", "today"} :
              GoTo(from, to)
    BY <1>11 DEF TodayAlone, RebuildWhole, SeeSymbols, memory
  <2> QED
    BY <1>10, <2>1 DEF KnowsPoints, KnowsToday, HasCloses
<1>12. CASE WriteSeries \/ WriteToday
  <2>1. /\ cache' = cache
        /\ \/ GoTo("write", "written") \/ GoTo("upsert", "upserted")
    BY <1>12 DEF WriteSeries, WriteToday, memory
  <2> QED
    BY <1>10, <2>1 DEF KnowsPoints, KnowsToday, HasCloses
<1>13. CASE UNCHANGED vars
  BY <1>13, OtherCloses DEF vars, memory
<1> QED
  BY <1>1, <1>2, <1>3, <1>4, <1>5, <1>6, <1>7, <1>9, <1>11, <1>12, <1>13
  DEF Next, PassStep

(* Between what was fingerprinted and what the store has there is room for *)
(* nothing else, once the two agree.                                       *)
LEMMA CacheIsBetween == ClosesInv => CacheIsExact
<1> SUFFICES ASSUME ClosesInv, cache.kept,
                    cache.history = Behind(price, cache.cut)
             PROVE  cache.closes = Behind(price, cache.cut)
  BY DEF CacheIsExact
<1>1. /\ cache.history \in Closes /\ cache.closes \in Closes
      /\ AtMost(cache.history, cache.closes)
      /\ AtMost(cache.closes, cache.history)
  BY DEF ClosesInv, CacheBetween
<1>2. ASSUME NEW s \in Symbols, NEW d \in Days
      PROVE  cache.closes[s][d] = cache.history[s][d]
  <2>1. cache.closes[s][d] \in Nat /\ cache.history[s][d] \in Nat
    BY <1>1 DEF Closes
  <2>2. /\ cache.closes[s][d] <= cache.history[s][d]
        /\ cache.history[s][d] <= cache.closes[s][d]
    BY <1>1 DEF AtMost
  <2> QED
    BY <2>1, <2>2
<1>3. cache.closes = cache.history
  BY <1>1, <1>2, ClosesEqual
<1> QED
  BY <1>3

(***************************************************************************)
(* _closes_cache (performance.py): the closes kept between passes are the  *)
(* store's as long as their fingerprint is, although they were read after  *)
(* it, in another transaction, and over closes kept before them.           *)
(***************************************************************************)
THEOREM CacheExact == Spec => []CacheIsExact
<1>1. Init => ClosesInv
  BY DEF Init, Idle, NoCache, ClosesInv, CacheBetween, KnowsPoints, KnowsToday,
         HasCloses
<1> QED
  BY <1>1, InitTyped, StepTyped, StepCloses, CacheIsBetween, PTL DEF Spec

-----------------------------------------------------------------------------
(***************************************************************************)
(* The series a pass would leave as it is is the one a whole rebuild would *)
(* write.  Whatever the store moved between the reads of a pass, the       *)
(* memory says from which closes each day was computed: those behind today *)
(* lie between the fingerprint and the store, and so do today's.           *)
(***************************************************************************)

(* The points before today, and today's, of the series a pass writes from  *)
(* the closes before today and from today's, when they reach today.        *)
KeptBefore(e, a, q, before, today) ==
    [d \in Days |-> IF d < today THEN Point(e, a, q, before, d) ELSE NoPoint]

Kept(e, a, q, before, now, reaches, today) ==
    IF reaches
    THEN [KeptBefore(e, a, q, before, today) EXCEPT ![today] =
             Point(e, a, q, Together(before, now, today), today)]
    ELSE KeptBefore(e, a, q, before, today)

-----------------------------------------------------------------------------
(* Points *)

(* A point looks no further than its day. *)
LEMMA PointAgrees ==
    ASSUME NEW p, NEW q, NEW day \in Nat,
           \A s \in Symbols, d \in Days : d <= day => p[s][d] = q[s][d],
           day \in Days
    PROVE  /\ Reaches(p, day) <=> Reaches(q, day)
           /\ \A e, a, r : Point(e, a, r, p, day) = Point(e, a, r, q, day)
<1>1. \A d \in 0 .. day : d \in Days /\ d <= day
  BY DaysAssumption DEF Days
<1>2. Reaches(p, day) <=> Reaches(q, day)
  BY <1>1 DEF Reaches
<1>3. \A d \in Days : d \in 0 .. day => d <= day
  BY DEF Days
<1>4. Between(p, 0, day) = Between(q, 0, day)
  BY <1>3 DEF Between
<1> QED
  BY <1>2, <1>4 DEF Point

(* The closes before today and today's say every point of the series.      *)
LEMMA KeptIsSeries ==
    ASSUME NEW c, NEW before, NEW now, NEW today \in Days,
           \A s \in Symbols, d \in Days : d < today => before[s][d] = c[s][d],
           \A s \in Symbols : now[s][today] = c[s][today]
    PROVE  \A e, a, q, reaches :
              reaches = Reaches(c, today) =>
              Kept(e, a, q, before, now, reaches, today) = Series(e, a, q, c, today)
<1>0. Days \subseteq Nat
  BY DaysAreNumbers
<1>1. ASSUME NEW d \in Days, d < today
      PROVE  \A e, a, q : Point(e, a, q, before, d) = Point(e, a, q, c, d)
  <2>1. \A s \in Symbols, i \in Days : i <= d => before[s][i] = c[s][i]
    BY <1>0, <1>1
  <2> QED
    BY <1>0, <2>1, PointAgrees
<1>2. \A e, a, q : Point(e, a, q, Together(before, now, today), today) =
                   Point(e, a, q, c, today)
  <2>1. \A s \in Symbols, i \in Days :
            i <= today => Together(before, now, today)[s][i] = c[s][i]
    BY <1>0 DEF Together
  <2> QED
    BY <1>0, <2>1, PointAgrees
<1>3. ~Reaches(c, today) => \A e, a, q : Point(e, a, q, c, today) = NoPoint
  BY DEF Point
<1> SUFFICES ASSUME NEW e, NEW a, NEW q
             PROVE  Kept(e, a, q, before, now, Reaches(c, today), today) =
                    Series(e, a, q, c, today)
  OBVIOUS
<1> DEFINE points == KeptBefore(e, a, q, before, today)
           whole == Series(e, a, q, c, today)
<1>4. \A d \in Days : d # today => whole[d] = points[d]
  <2> SUFFICES ASSUME NEW d \in Days, d # today
               PROVE  whole[d] = points[d]
    OBVIOUS
  <2>1. d <= today <=> d < today
    BY <1>0
  <2> QED
    BY <1>1, <2>1 DEF KeptBefore, Series
<1>5. whole[today] = Point(e, a, q, Together(before, now, today), today)
  BY <1>0, <1>2 DEF Series
<1>6. ~Reaches(c, today) => whole[today] = points[today]
  BY <1>0, <1>3 DEF Series, KeptBefore
<1>7. /\ points = [d \in Days |-> points[d]]
      /\ whole = [d \in Days |-> whole[d]]
  BY DEF KeptBefore, Series
<1> HIDE DEF points, whole
<1>8. CASE Reaches(c, today)
  <2>1. whole = [points EXCEPT ![today] =
                    Point(e, a, q, Together(before, now, today), today)]
    BY <1>4, <1>5, <1>7
  <2> QED
    BY <1>8, <2>1 DEF Kept, points, whole
<1>9. CASE ~Reaches(c, today)
  <2>1. whole = points
    BY <1>4, <1>6, <1>7, <1>9
  <2> QED
    BY <1>9, <2>1 DEF Kept, points, whole
<1> QED
  BY <1>8, <1>9

-----------------------------------------------------------------------------
(* What a pass and the memory stand on *)

KnowsRows == KnowsPoints \ {"quotes"}
HasCarried == {"remember", "write", "written"}
Resuming == {"seen", "today", "upsert", "upserted"}

(* No close is of a day to come. *)
PriceDated == \A s \in Symbols, d \in Days : d > clock => price[s][d] = 0

(* The quote rows: fingerprinted first, read later. *)
RowsRead == "rows" \in DOMAIN pass /\ pass.rows \in Nat /\ pass.rows <= meta

CarriedRead ==
    /\ "carried" \in DOMAIN pass /\ pass.carried \in Nat
    /\ pass.rows <= pass.carried /\ pass.carried <= meta

(* The series is the one the pass wrote, unless the ledger moved since.    *)
SeriesWritten ==
    \/ pass.events < ledger
    \/ series = Series(pass.events, pass.accounts, pass.carried, pass.closes,
                       pass.today)

RebuildInv ==
    /\ pass.pc \in KnowsRows => RowsRead
    /\ pass.pc \in HasCarried => CarriedRead
    /\ pass.pc = "written" => SeriesWritten

(* The pass goes on from the memory of one that read what it reads, but    *)
(* for today's closes.                                                     *)
Resumes ==
    /\ last.kept
    /\ last.today = pass.today /\ last.history = pass.history
    /\ last.rows = pass.rows
    /\ last.events = pass.events /\ last.accounts = pass.accounts

(* The series is still the one the memory was left with. *)
StillWritten == last.events < ledger \/ last.written = series

(* Today's closes, as fingerprinted, price no symbol that had no close.    *)
NoneNew == \A s \in Symbols \ last.priced : pass.recent[s][pass.today] = 0

(* Today's closes were read after they were fingerprinted. *)
TodayRead ==
    /\ "closes" \in DOMAIN pass /\ pass.closes \in Closes
    /\ pass.closes = Together(last.before, pass.closes, pass.today)
    /\ \A s \in Symbols :
          /\ pass.recent[s][pass.today] <= pass.closes[s][pass.today]
          /\ pass.closes[s][pass.today] <= price[s][pass.today]
    /\ last.reaches => Reaches(pass.closes, pass.today)

TodayWritten ==
    \/ last.events < ledger
    \/ series = Kept(last.events, last.accounts, last.carried, last.before,
                     pass.closes, last.reaches, pass.today)

ResumeInv ==
    /\ pass.pc \in Resuming => Resumes
    /\ pass.pc \in Resuming \ {"upserted"} => StillWritten
    /\ pass.pc \in Resuming \ {"seen"} => NoneNew
    /\ pass.pc \in {"upsert", "upserted"} => TodayRead
    /\ pass.pc = "upserted" => TodayWritten

MemoryTyped ==
    /\ {"kept", "today", "events", "accounts", "history", "recent", "rows",
        "carried", "written", "priced", "reaches", "before"} \subseteq DOMAIN last
    /\ last.today \in 0 .. clock /\ last.events \in 0 .. ledger
    /\ last.rows \in Nat /\ last.carried \in Nat
    /\ last.history \in Closes /\ last.before \in Closes
    /\ last.reaches \in BOOLEAN

(* The quote rows and the closes behind today lie between what was         *)
(* fingerprinted and what the store has.                                   *)
MemoryBehind ==
    /\ last.rows <= last.carried /\ last.carried <= meta
    /\ AtMost(last.history, last.before)
    /\ AtMost(last.before, Behind(price, last.today))

(* A series that did not reach today lacks a close, and did so when they   *)
(* were fingerprinted, unless the day turned meanwhile.                    *)
MemoryShort ==
    \/ last.reaches
    \/ last.today < clock
    \/ \E s \in Symbols \ last.priced :
          /\ \A d \in Days : last.before[s][d] = 0
          /\ last.recent[s][last.today] = 0

(* Today's point was computed from closes between what was fingerprinted   *)
(* and what the store has.                                                 *)
TodayIs(now) ==
    /\ \A s \in Symbols : /\ last.recent[s][last.today] <= now[s][last.today]
                          /\ now[s][last.today] <= price[s][last.today]
    /\ last.reaches => Reaches(Together(last.before, now, last.today), last.today)
    /\ \/ last.events < ledger
       \/ last.written = Kept(last.events, last.accounts, last.carried,
                              last.before, now, last.reaches, last.today)

MemoryInv ==
    last.kept => /\ MemoryTyped /\ MemoryBehind /\ MemoryShort
                 /\ \E now \in Closes : TodayIs(now)

ExactInv == PriceDated /\ RebuildInv /\ ResumeInv /\ MemoryInv

-----------------------------------------------------------------------------
(* What a step leaves of it *)

(* Five actions move what a pass reads. *)
LEMMA StoreMoves ==
    [Next]_vars =>
        \/ UNCHANGED <<clock, ledger, meta, price>>
        \/ DayTurn \/ StoreQuoteRow
        \/ \E s \in Symbols, d \in Days : StoreClose(s, d)
        \/ \E w \in Writers : WriteLedger(w)
BY DEF Next, Ingest, IngestFails, Tick, RunOnWrite, PassStep, Fail, Restart,
       ReadEvents, ReadAccounts, ReadClock, FingerprintPoints,
       FingerprintQuotes, Unchanged, TodayAlone, RebuildWhole, CheckCache,
       ReadCloses, ReadCarried, Remember, WriteSeries, KeepMemory, SeeSymbols,
       ReadToday, WriteToday, KeepToday, Read, GoTo, aroundPass, inputs, vars

(* The versions, the day and the closes only grow. *)
LEMMA StoreGrows ==
    ASSUME TypedInv, TypedInv', [Next]_vars
    PROVE  /\ clock \in Nat /\ clock' \in Nat /\ clock <= clock'
           /\ ledger \in Nat /\ ledger' \in Nat /\ ledger <= ledger'
           /\ meta \in Nat /\ meta' \in Nat /\ meta <= meta'
           /\ price \in Closes /\ price' \in Closes /\ AtMost(price, price')
           /\ pass.pc \in KnowsToday => pass.today \in Days /\ pass.today \in Nat
           /\ \A day \in 0 .. clock : day \in Days /\ day \in Nat
<1>1. /\ clock \in Nat /\ clock' \in Nat /\ clock <= MaxDay
      /\ ledger \in Nat /\ ledger' \in Nat
      /\ meta \in Nat /\ meta' \in Nat /\ writes \in Nat
      /\ ledger <= writes /\ meta <= writes
      /\ price \in Closes /\ price' \in Closes
  BY DaysAssumption DEF TypedInv, TypeOK, Counted, Closes
<1>2. clock <= clock' /\ ledger <= ledger' /\ meta <= meta'
  <2>1. CASE UNCHANGED <<clock, ledger, meta>>
    BY <1>1, <2>1
  <2>2. CASE DayTurn
    BY <1>1, <2>2 DEF DayTurn, inputs
  <2>3. CASE StoreQuoteRow
    BY <1>1, <2>3 DEF StoreQuoteRow
  <2>4. ASSUME NEW w \in Writers, WriteLedger(w)
        PROVE  clock <= clock' /\ ledger <= ledger' /\ meta <= meta'
    BY <1>1, <2>4 DEF WriteLedger
  <2>5. ASSUME NEW s \in Symbols, NEW d \in Days, StoreClose(s, d)
        PROVE  UNCHANGED <<clock, ledger, meta>>
    BY <2>5 DEF StoreClose
  <2> QED
    BY <2>1, <2>2, <2>3, <2>4, <2>5, StoreMoves
<1>3. \A day \in 0 .. clock : day \in Days /\ day \in Nat
  BY <1>1, DaysAssumption DEF Days
<1>4. pass.pc \in KnowsToday => pass.today \in Days /\ pass.today \in Nat
  BY <1>3 DEF TypedInv, PassShape
<1> QED
  BY <1>1, <1>2, <1>3, <1>4, PriceGrows

LEMMA DatedStays ==
    ASSUME TypedInv, TypedInv', [Next]_vars, PriceDated
    PROVE  PriceDated'
<1>0. clock \in Nat /\ clock' \in Nat /\ clock <= clock' /\ price \in Closes
  BY StoreGrows
<1>1. ASSUME NEW s \in Symbols, NEW d \in Days, d > clock'
      PROVE  d > clock /\ price[s][d] = 0
  <2>1. d \in Nat
    BY DaysAreNumbers
  <2> QED
    BY <1>0, <1>1, <2>1 DEF PriceDated
<1>2. CASE price' = price
  BY <1>1, <1>2 DEF PriceDated
<1>3. ASSUME NEW s \in Symbols, NEW d \in Days, StoreClose(s, d)
      PROVE  PriceDated'
  <2> SUFFICES ASSUME NEW t \in Symbols, NEW i \in Days, i > clock'
               PROVE  price'[t][i] = 0
    BY DEF PriceDated
  <2>1. d <= clock /\ price' = [price EXCEPT ![s][d] = writes + 1]
    BY <1>3 DEF StoreClose
  <2>2. i # d
    BY <1>0, <1>1, <2>1, DaysAreNumbers
  <2>3. price'[t][i] = price[t][i]
    BY <1>0, <2>1, <2>2 DEF Closes
  <2> QED
    BY <1>1, <2>3
<1>4. CASE DayTurn \/ StoreQuoteRow \/ \E w \in Writers : WriteLedger(w)
  BY <1>2, <1>4 DEF DayTurn, StoreQuoteRow, WriteLedger, inputs
<1> QED
  BY <1>2, <1>3, <1>4, StoreMoves

(* A memory that is kept as it is stays one that says what it says. *)
LEMMA MemoryStays ==
    ASSUME TypedInv, TypedInv', [Next]_vars, MemoryInv, last' \in {last, NoMemory}
    PROVE  MemoryInv'
<1>1. CASE last' = NoMemory \/ ~last.kept
  BY <1>1 DEF MemoryInv, NoMemory
<1>2. CASE last' = last /\ last.kept
  <2>0. MemoryTyped /\ MemoryBehind /\ MemoryShort
    BY <1>2 DEF MemoryInv
  <2>1. MemoryTyped'
    BY <1>2, <2>0, StoreGrows DEF MemoryTyped
  <2>2. MemoryBehind'
    <3>1. last.today \in Nat /\ last.carried \in Nat /\ last.before \in Closes
      BY <2>0, StoreGrows DEF MemoryTyped
    <3>2. AtMost(Behind(price, last.today), Behind(price', last.today))
      BY <3>1, StoreGrows, CutsGrow
    <3>3. AtMost(last.before, Behind(price', last.today))
      BY <2>0, <3>1, <3>2, StoreGrows, AtMostLater, CutsAreCloses
      DEF MemoryBehind
    <3>4. last.carried <= meta'
      BY <2>0, <3>1, StoreGrows DEF MemoryBehind
    <3> QED
      BY <1>2, <2>0, <3>3, <3>4 DEF MemoryBehind
  <2>3. MemoryShort'
    BY <1>2, <2>0, StoreGrows DEF MemoryShort, MemoryTyped
  <2>4. PICK now \in Closes : TodayIs(now)
    BY <1>2 DEF MemoryInv
  <2>5. last.today \in Days
    BY <2>0, StoreGrows DEF MemoryTyped
  <2>6. ASSUME NEW s \in Symbols
        PROVE  now[s][last.today] <= price'[s][last.today]
    <3>1. /\ now[s][last.today] \in Nat /\ price[s][last.today] \in Nat
          /\ price'[s][last.today] \in Nat
      BY <2>5, StoreGrows DEF Closes
    <3>2. /\ now[s][last.today] <= price[s][last.today]
          /\ price[s][last.today] <= price'[s][last.today]
      BY <2>4, <2>5, StoreGrows DEF TodayIs, AtMost
    <3> QED
      BY <3>1, <3>2
  <2>7. last.events < ledger => last.events < ledger'
    BY <2>0, StoreGrows DEF MemoryTyped
  <2>8. TodayIs(now)'
    BY <1>2, <2>4, <2>6, <2>7 DEF TodayIs
  <2> QED
    BY <1>2, <2>1, <2>2, <2>3, <2>8 DEF MemoryInv
<1> QED
  BY <1>1, <1>2

-----------------------------------------------------------------------------
(* Every action keeps the invariant *)

(* A step that leaves the pass and the memory alone, and the series too    *)
(* unless the ledger moves.                                                *)
LEMMA OutsideExact ==
    ASSUME TypedInv, TypedInv', [Next]_vars, ExactInv,
           pass' = pass, last' = last,
           series' = series \/ ledger < ledger'
    PROVE  ExactInv'
<1>0. PriceDated' /\ MemoryInv'
  BY DatedStays, MemoryStays DEF ExactInv
<1>1. RebuildInv'
  <2>1. pass.pc \in KnowsRows => RowsRead'
    BY StoreGrows DEF ExactInv, RebuildInv, RowsRead
  <2>2. pass.pc \in HasCarried => CarriedRead'
    BY StoreGrows DEF ExactInv, RebuildInv, CarriedRead
  <2>3. pass.pc = "written" => SeriesWritten'
    <3> SUFFICES ASSUME pass.pc = "written"
                 PROVE  SeriesWritten'
      OBVIOUS
    <3>1. pass.events \in 0 .. ledger
      BY DEF TypedInv, PassShape, KnowsEvents, KnowsAccounts, KnowsToday
    <3>2. SeriesWritten
      BY DEF ExactInv, RebuildInv
    <3> QED
      BY <3>1, <3>2, StoreGrows DEF SeriesWritten
  <2> QED
    BY <2>1, <2>2, <2>3 DEF RebuildInv
<1>2. ResumeInv'
  <2>1. pass.pc \in Resuming => last.events \in 0 .. ledger
    BY DEF ExactInv, ResumeInv, Resumes, MemoryInv, MemoryTyped
  <2>2. pass.pc \in Resuming => Resumes'
    BY DEF ExactInv, ResumeInv, Resumes
  <2>3. pass.pc \in Resuming \ {"upserted"} => StillWritten'
    BY <2>1, StoreGrows DEF ExactInv, ResumeInv, StillWritten
  <2>4. pass.pc \in Resuming \ {"seen"} => NoneNew'
    BY DEF ExactInv, ResumeInv, NoneNew
  <2>5. pass.pc = "upserted" => TodayWritten'
    BY <2>1, StoreGrows DEF ExactInv, ResumeInv, TodayWritten, Resuming
  <2>6. pass.pc \in {"upsert", "upserted"} => TodayRead'
    <3> SUFFICES ASSUME pass.pc \in {"upsert", "upserted"}
                 PROVE  TodayRead'
      OBVIOUS
    <3>1. pass.today \in Days
      BY StoreGrows DEF KnowsToday
    <3>2. TodayRead
      BY DEF ExactInv, ResumeInv
    <3>3. ASSUME NEW s \in Symbols
          PROVE  pass.closes[s][pass.today] <= price'[s][pass.today]
      <4>1. /\ pass.closes[s][pass.today] \in Nat
            /\ price[s][pass.today] \in Nat /\ price'[s][pass.today] \in Nat
        BY <3>1, <3>2, StoreGrows DEF TodayRead, Closes
      <4>2. /\ pass.closes[s][pass.today] <= price[s][pass.today]
            /\ price[s][pass.today] <= price'[s][pass.today]
        BY <3>1, <3>2, StoreGrows DEF TodayRead, AtMost
      <4> QED
        BY <4>1, <4>2
    <3> QED
      BY <3>2, <3>3 DEF TodayRead
  <2> QED
    BY <2>2, <2>3, <2>4, <2>5, <2>6 DEF ResumeInv
<1> QED
  BY <1>0, <1>1, <1>2 DEF ExactInv

(* A step to a stage at which the pass knows none of this. *)
LEMMA EarlyExact ==
    ASSUME TypedInv, TypedInv', [Next]_vars, ExactInv,
           pass'.pc \notin KnowsRows, last' \in {last, NoMemory}
    PROVE  ExactInv'
<1>1. PriceDated' /\ MemoryInv'
  BY DatedStays, MemoryStays DEF ExactInv
<1>2. RebuildInv' /\ ResumeInv'
  BY DEF RebuildInv, ResumeInv, Resuming, HasCarried, KnowsRows, KnowsPoints,
         KnowsToday
<1> QED
  BY <1>1, <1>2 DEF ExactInv

(* A read keeps what the pass had read. *)
LEMMA ReadKeeps ==
    ASSUME TypedInv, NEW from, NEW to, NEW read, Read(from, to, read),
           NEW k \in DOMAIN pass \ {"pc"}, k \notin DOMAIN read
    PROVE  k \in DOMAIN pass' /\ pass'[k] = pass[k]
BY ReadMoves DEF TypedInv, PassShape

(* A step on the way to the whole series, short of writing it. *)
LEMMA RebuildExact ==
    ASSUME TypedInv, TypedInv', [Next]_vars, ExactInv,
           last' \in {last, NoMemory},
           NEW to \in {"choose", "kept", "closes", "carried", "remember",
                       "write"},
           pass'.pc = to, RowsRead', to \in HasCarried => CarriedRead'
    PROVE  ExactInv'
<1>1. PriceDated' /\ MemoryInv'
  BY DatedStays, MemoryStays DEF ExactInv
<1>2. RebuildInv' /\ ResumeInv'
  BY DEF RebuildInv, ResumeInv, Resuming
<1> QED
  BY <1>1, <1>2 DEF ExactInv

(* The quote rows fingerprinted or read stay at most those of the store.   *)
LEMMA RowsStay ==
    ASSUME TypedInv, TypedInv', [Next]_vars, RowsRead,
           "rows" \in DOMAIN pass', pass'.rows = pass.rows
    PROVE  RowsRead'
BY StoreGrows DEF RowsRead

LEMMA CarriedStays ==
    ASSUME TypedInv, TypedInv', [Next]_vars, RowsRead, CarriedRead,
           "carried" \in DOMAIN pass', pass'.carried = pass.carried,
           pass'.rows = pass.rows
    PROVE  CarriedRead'
BY StoreGrows DEF RowsRead, CarriedRead

LEMMA QuotesExact ==
    ASSUME TypedInv, TypedInv', [Next]_vars, ExactInv, FingerprintQuotes
    PROVE  ExactInv'
<1>1. /\ pass'.pc = "choose" /\ last' = last /\ meta' = meta
      /\ "rows" \in DOMAIN pass' /\ pass'.rows = meta
  BY ReadMoves
  DEF FingerprintQuotes, TypedInv, PassShape, Read, aroundPass, inputs, memory
<1>2. RowsRead'
  BY <1>1, StoreGrows DEF RowsRead
<1> QED
  BY <1>1, <1>2, RebuildExact DEF HasCarried

LEMMA WholeExact ==
    ASSUME TypedInv, TypedInv', [Next]_vars, ExactInv,
           CheckCache \/ ReadCloses \/ ReadCarried \/ Remember \/ RebuildWhole
    PROVE  ExactInv'
<1>0. last' \in {last, NoMemory}
  BY DEF CheckCache, ReadCloses, ReadCarried, Remember, RebuildWhole, memory
<1>1. pass.pc \in {"choose", "kept", "closes", "carried", "remember"}
  BY DEF CheckCache, ReadCloses, ReadCarried, Remember, RebuildWhole, Read, GoTo
<1>2. RowsRead
  BY <1>1 DEF ExactInv, RebuildInv, KnowsRows, KnowsPoints, KnowsToday
<1>3. "rows" \in DOMAIN pass' /\ pass'.rows = pass.rows
  <2>1. CASE CheckCache
    BY <1>2, <2>1, ReadKeeps DEF CheckCache, RowsRead
  <2>2. CASE ReadCloses
    BY <1>2, <2>2, ReadKeeps DEF ReadCloses, RowsRead
  <2>3. CASE ReadCarried
    BY <1>2, <2>3, ReadKeeps DEF ReadCarried, RowsRead
  <2>4. CASE Remember
    BY <1>2, <2>4, ReadKeeps DEF Remember, RowsRead
  <2>5. CASE RebuildWhole
    BY <1>2, <2>5 DEF RebuildWhole, GoTo, RowsRead
  <2> QED
    BY <2>1, <2>2, <2>3, <2>4, <2>5
<1>4. RowsRead'
  BY <1>2, <1>3, RowsStay
<1>5. CASE CheckCache \/ ReadCloses \/ RebuildWhole
  <2>1. pass'.pc \in {"kept", "closes", "carried"}
    BY <1>5, ReadMoves
    DEF CheckCache, ReadCloses, RebuildWhole, GoTo, TypedInv, PassShape
  <2> QED
    BY <1>0, <1>4, <2>1, RebuildExact DEF HasCarried
<1>6. CASE ReadCarried
  <2>1. /\ pass'.pc = "remember" /\ "carried" \in DOMAIN pass'
        /\ pass'.carried = meta /\ meta' = meta
    BY <1>6, ReadMoves
    DEF ReadCarried, TypedInv, PassShape, Read, aroundPass, inputs
  <2>2. CarriedRead'
    BY <1>2, <1>3, <2>1, StoreGrows DEF CarriedRead, RowsRead
  <2> QED
    BY <1>0, <1>4, <2>1, <2>2, RebuildExact
<1>7. CASE Remember
  <2>1. pass.pc = "remember" /\ pass'.pc = "write"
    BY <1>7, ReadMoves DEF Remember, TypedInv, PassShape
  <2>2. CarriedRead
    BY <2>1 DEF ExactInv, RebuildInv, HasCarried
  <2>3. "carried" \in DOMAIN pass' /\ pass'.carried = pass.carried
    BY <1>7, <2>2, ReadKeeps DEF Remember, CarriedRead
  <2>4. CarriedRead'
    BY <1>2, <1>3, <2>2, <2>3, CarriedStays
  <2> QED
    BY <1>0, <1>4, <2>1, <2>4, RebuildExact
<1> QED
  BY <1>5, <1>6, <1>7

LEMMA WriteExact ==
    ASSUME TypedInv, TypedInv', [Next]_vars, ExactInv, WriteSeries
    PROVE  ExactInv'
<1>1. /\ pass.pc = "write" /\ pass' = [pass EXCEPT !.pc = "written"]
      /\ last' = last
  BY DEF WriteSeries, GoTo, memory
<1>2. /\ pass'.pc = "written" /\ DOMAIN pass' = DOMAIN pass
      /\ pass'.rows = pass.rows /\ pass'.carried = pass.carried
      /\ pass'.events = pass.events /\ pass'.accounts = pass.accounts
      /\ pass'.closes = pass.closes /\ pass'.today = pass.today
  BY <1>1 DEF TypedInv, PassShape
<1>3. RowsRead /\ CarriedRead
  BY <1>1
  DEF ExactInv, RebuildInv, KnowsRows, KnowsPoints, KnowsToday, HasCarried
<1>4. RowsRead' /\ CarriedRead'
  BY <1>2, <1>3, RowsStay, CarriedStays DEF RowsRead, CarriedRead
<1>5. SeriesWritten'
  BY <1>2 DEF WriteSeries, SeriesWritten
<1>6. RebuildInv' /\ ResumeInv'
  BY <1>2, <1>4, <1>5 DEF RebuildInv, ResumeInv, Resuming
<1> QED
  BY <1>1, <1>6, DatedStays, MemoryStays DEF ExactInv

LEMMA ResumeExact ==
    ASSUME TypedInv, TypedInv', [Next]_vars, ExactInv, TodayAlone
    PROVE  ExactInv'
<1>1. /\ pass.pc = "choose" /\ pass' = [pass EXCEPT !.pc = "seen"]
      /\ last' = last /\ series' = series /\ ledger' = ledger
      /\ Resumes /\ last.written = series
  BY DEF TodayAlone, GoTo, memory, aroundPass, inputs, Continues, SamePast,
         Resumes
<1>2. /\ pass'.pc = "seen" /\ DOMAIN pass' = DOMAIN pass
      /\ pass'.rows = pass.rows /\ pass'.history = pass.history
      /\ pass'.events = pass.events /\ pass'.accounts = pass.accounts
      /\ pass'.today = pass.today
  BY <1>1 DEF TypedInv, PassShape
<1>3. RowsRead'
  BY <1>1, <1>2, RowsStay
  DEF ExactInv, RebuildInv, KnowsRows, KnowsPoints, KnowsToday, RowsRead
<1>4. Resumes' /\ StillWritten'
  BY <1>1, <1>2 DEF Resumes, StillWritten
<1>5. RebuildInv' /\ ResumeInv'
  BY <1>2, <1>3, <1>4 DEF RebuildInv, ResumeInv, HasCarried
<1> QED
  BY <1>1, <1>5, DatedStays, MemoryStays DEF ExactInv

(* A symbol with no close in the series and none in the store today had    *)
(* none when today's closes were fingerprinted.                            *)
LEMMA SeenExact ==
    ASSUME TypedInv, TypedInv', [Next]_vars, ClosesInv, ExactInv, SeeSymbols
    PROVE  ExactInv'
<1>1. /\ pass.pc = "seen"
      /\ \E to \in {"today", "kept"} :
            pass' = [pass EXCEPT !.pc = to] /\ pass'.pc = to
      /\ series' = series /\ ledger' = ledger
      /\ last' \in {last, NoMemory}
  BY DEF SeeSymbols, GoTo, aroundPass, inputs, TypedInv, PassShape
<1>2. /\ DOMAIN pass' = DOMAIN pass
      /\ pass'.rows = pass.rows /\ pass'.history = pass.history
      /\ pass'.recent = pass.recent
      /\ pass'.events = pass.events /\ pass'.accounts = pass.accounts
      /\ pass'.today = pass.today
  BY <1>1 DEF TypedInv, PassShape
<1>3. RowsRead'
  BY <1>1, <1>2, RowsStay
  DEF ExactInv, RebuildInv, KnowsRows, KnowsPoints, KnowsToday, RowsRead
<1>4. CASE pass'.pc = "kept"
  BY <1>1, <1>3, <1>4, RebuildExact DEF HasCarried
<1>5. CASE pass'.pc = "today"
  <2>1. /\ last' = last
        /\ \A s \in Symbols \ last.priced : price[s][pass.today] = 0
    BY <1>1, <1>5 DEF SeeSymbols, GoTo, TypedInv, PassShape
  <2>2. Resumes' /\ StillWritten'
    BY <1>1, <1>2, <2>1
    DEF ExactInv, ResumeInv, Resuming, Resumes, StillWritten
  <2>3. NoneNew'
    <3> SUFFICES ASSUME NEW s \in Symbols \ last.priced
                 PROVE  pass.recent[s][pass.today] = 0
      BY <1>2, <2>1 DEF NoneNew
    <3>1. PointsRead /\ pass.today \in Days /\ pass.today \in Nat
      BY <1>1, StoreGrows DEF ClosesInv, KnowsPoints, KnowsToday
    <3>2. From(price, pass.today)[s][pass.today] = 0
      BY <2>1, <3>1, FromIs
    <3>3. /\ pass.recent[s][pass.today] \in Nat
          /\ pass.recent[s][pass.today] <= From(price, pass.today)[s][pass.today]
      BY <3>1 DEF PointsRead, AtMost, Closes
    <3> QED
      BY <3>2, <3>3
  <2>4. RebuildInv' /\ ResumeInv'
    BY <1>3, <1>5, <2>2, <2>3 DEF RebuildInv, ResumeInv, HasCarried
  <2> QED
    BY <1>1, <2>4, DatedStays, MemoryStays DEF ExactInv
<1> QED
  BY <1>1, <1>2, <1>4, <1>5

(* Today's closes reach today when those of the last pass did: no close of *)
(* today goes back to none.                                                *)
LEMMA TodayReaches ==
    ASSUME TypedInv, TypedInv', [Next]_vars, MemoryInv, last.kept, last.reaches
    PROVE  Reaches(Together(last.before, Between(price, last.today, last.today),
                            last.today), last.today)
<1> DEFINE today == last.today
           closes == Together(last.before, Between(price, today, today), today)
<1>1. PICK now \in Closes : TodayIs(now)
  BY DEF MemoryInv
<1>2. today \in Days /\ today \in Nat
  BY StoreGrows DEF MemoryInv, MemoryTyped
<1> SUFFICES ASSUME NEW s \in Symbols
             PROVE  \E d \in 0 .. today : closes[s][d] # 0
  BY DEF Reaches
<1>3. PICK d \in 0 .. today : Together(last.before, now, today)[s][d] # 0
  BY <1>1 DEF TodayIs, Reaches
<1>4. d \in Days /\ d \in Nat
  BY <1>2, DaysAssumption DEF Days
<1>5. CASE d < today
  BY <1>3, <1>4, <1>5 DEF Together
<1>6. CASE d = today
  <2>1. now[s][today] # 0 /\ closes[s][today] = price[s][today]
    BY <1>2, <1>3, <1>6 DEF Together, Between
  <2>2. now[s][today] \in Nat /\ price[s][today] \in Nat
    BY <1>2, StoreGrows DEF Closes
  <2>3. now[s][today] <= price[s][today]
    BY <1>1 DEF TodayIs
  <2>4. closes[s][today] # 0
    BY <2>1, <2>2, <2>3
  <2> QED
    BY <1>6, <2>4
<1> QED
  BY <1>2, <1>3, <1>4, <1>5, <1>6

LEMMA TodayExact ==
    ASSUME TypedInv, TypedInv', [Next]_vars, ClosesInv, ExactInv, ReadToday
    PROVE  ExactInv'
<1> DEFINE today == pass.today
           closes == Together(last.before, Between(price, today, today), today)
<1>1. /\ pass.pc = "today" /\ pass'.pc = "upsert"
      /\ "closes" \in DOMAIN pass' /\ pass'.closes = closes
      /\ series' = series /\ ledger' = ledger /\ last' = last
      /\ price' = price
  BY ReadMoves
  DEF ReadToday, Read, aroundPass, inputs, memory, TypedInv, PassShape
<1>2. Resumes /\ StillWritten /\ NoneNew /\ RowsRead /\ PointsRead
  BY <1>1
  DEF ExactInv, ResumeInv, RebuildInv, Resuming, KnowsRows, KnowsPoints,
      KnowsToday, ClosesInv
<1>3. {"rows", "history", "recent", "events", "accounts", "today"}
          \subseteq DOMAIN pass
  BY <1>1, <1>2
  DEF RowsRead, PointsRead, TypedInv, PassShape, KnowsEvents, KnowsAccounts,
      KnowsToday
<1>4. \A k \in {"rows", "history", "recent", "events", "accounts", "today"} :
          k \in DOMAIN pass' /\ pass'[k] = pass[k]
  BY <1>3, ReadKeeps DEF ReadToday
<1>5. /\ "rows" \in DOMAIN pass' /\ pass'.rows = pass.rows
      /\ pass'.history = pass.history /\ pass'.recent = pass.recent
      /\ pass'.events = pass.events /\ pass'.accounts = pass.accounts
      /\ pass'.today = today
  BY <1>4
<1>6. Resumes' /\ StillWritten' /\ NoneNew' /\ RowsRead'
  BY <1>1, <1>2, <1>5, RowsStay DEF Resumes, StillWritten, NoneNew
<1>7. last.before \in Closes /\ last.today = today
  BY <1>2 DEF Resumes, ExactInv, MemoryInv, MemoryTyped
<1>8. today \in Days /\ today \in Nat
  BY <1>1, StoreGrows DEF KnowsToday
<1>9. closes \in Closes /\ price \in Closes
  BY <1>7, StoreGrows, CutsAreCloses
<1>10. closes = Together(last.before, closes, today)
  BY DEF Together
<1>11. last.reaches => Reaches(closes, today)
  BY <1>2, <1>7, TodayReaches DEF Resumes, ExactInv
<1>12. ASSUME NEW s \in Symbols
       PROVE  /\ pass.recent[s][today] <= closes[s][today]
              /\ closes[s][today] <= price[s][today]
  <2>1. closes[s][today] = price[s][today]
    BY <1>8 DEF Together, Between
  <2>2. From(price, today)[s][today] = price[s][today]
    BY <1>8, FromIs
  <2>3. pass.recent[s][today] <= From(price, today)[s][today]
    BY <1>2, <1>8 DEF PointsRead, AtMost
  <2>4. price[s][today] \in Nat
    BY <1>8, <1>9 DEF Closes
  <2> QED
    BY <2>1, <2>2, <2>3, <2>4
<1> HIDE DEF closes
<1>13. TodayRead'
  BY <1>1, <1>5, <1>9, <1>10, <1>11, <1>12 DEF TodayRead
<1>14. RebuildInv' /\ ResumeInv'
  BY <1>1, <1>6, <1>13 DEF RebuildInv, ResumeInv, HasCarried
<1> QED
  BY <1>1, <1>14, DatedStays, MemoryStays DEF ExactInv

(* Today's point is written from today's closes, or there is none.         *)
LEMMA UpsertExact ==
    ASSUME TypedInv, TypedInv', [Next]_vars, ExactInv, WriteToday
    PROVE  ExactInv'
<1> DEFINE today == pass.today
           kept(now) == Kept(last.events, last.accounts, last.carried,
                             last.before, now, last.reaches, today)
           point == Point(last.events, last.accounts, last.carried,
                          pass.closes, today)
<1>1. /\ pass.pc = "upsert" /\ pass' = [pass EXCEPT !.pc = "upserted"]
      /\ last' = last /\ ledger' = ledger /\ price' = price
  BY DEF WriteToday, GoTo, memory, aroundPass, inputs
<1>2. /\ pass'.pc = "upserted" /\ DOMAIN pass' = DOMAIN pass
      /\ pass'.rows = pass.rows /\ pass'.history = pass.history
      /\ pass'.recent = pass.recent /\ pass'.closes = pass.closes
      /\ pass'.events = pass.events /\ pass'.accounts = pass.accounts
      /\ pass'.today = today
  BY <1>1 DEF TypedInv, PassShape
<1>3. Resumes /\ StillWritten /\ NoneNew /\ RowsRead /\ TodayRead
  BY <1>1
  DEF ExactInv, ResumeInv, RebuildInv, Resuming, KnowsRows, KnowsPoints,
      KnowsToday
<1>4. Resumes' /\ NoneNew' /\ RowsRead' /\ TodayRead'
  BY <1>1, <1>2, <1>3, RowsStay DEF Resumes, NoneNew, RowsRead, TodayRead
<1>5. PICK before \in Closes : TodayIs(before)
  BY <1>3 DEF Resumes, ExactInv, MemoryInv
<1>6. last.events < ledger \/ series = kept(before)
  BY <1>3, <1>5 DEF Resumes, StillWritten, TodayIs
<1>7. today \in Days /\ last.reaches \in BOOLEAN
  BY <1>1, <1>3, StoreGrows
  DEF KnowsToday, Resumes, ExactInv, MemoryInv, MemoryTyped
<1>8. point = Point(last.events, last.accounts, last.carried,
                    Together(last.before, pass.closes, today), today)
  BY <1>3 DEF TodayRead
<1>9. ASSUME series = kept(before)
      PROVE  series' = kept(pass.closes)
  <2> DEFINE points == KeptBefore(last.events, last.accounts, last.carried,
                                  last.before, today)
             was == Point(last.events, last.accounts, last.carried,
                          Together(last.before, before, today), today)
  <2>1. CASE last.reaches
    <3>1. series' = [series EXCEPT ![today] = point]
      BY <2>1 DEF WriteToday
    <3>2. series = [points EXCEPT ![today] = was]
      BY <1>9, <2>1 DEF Kept
    <3>3. DOMAIN points = Days
      BY DEF KeptBefore
    <3>4. series' = [points EXCEPT ![today] = point]
      <4> HIDE DEF points, was, point, today
      <4> QED
        BY <3>1, <3>2, <3>3
    <3> QED
      BY <1>8, <2>1, <3>4 DEF Kept
  <2>2. CASE ~last.reaches
    BY <1>9, <2>2 DEF Kept, WriteToday
  <2> QED
    BY <2>1, <2>2
<1>10. TodayWritten'
  BY <1>1, <1>2, <1>6, <1>9 DEF TodayWritten
<1>11. RebuildInv' /\ ResumeInv'
  BY <1>2, <1>4, <1>10 DEF RebuildInv, ResumeInv, HasCarried
<1> QED
  BY <1>1, <1>11, DatedStays, MemoryStays DEF ExactInv

(* The memory a whole pass leaves. *)
LEMMA KeepExact ==
    ASSUME TypedInv, TypedInv', [Next]_vars, ClosesInv, ExactInv, KeepMemory
    PROVE  ExactInv'
<1> DEFINE today == pass.today
<1>1. /\ pass.pc = "written" /\ pass'.pc = "idle"
      /\ UNCHANGED <<clock, price, meta, ledger, series>>
  BY DEF KeepMemory, EndPass, Idle, inputs
<1>2. /\ DOMAIN last' = {"kept", "today", "events", "accounts", "history",
                         "recent", "rows", "carried", "written", "continuable",
                         "stored", "priced", "quoted", "reaches", "before"}
      /\ last'.today = today /\ last'.events = pass.events
      /\ last'.accounts = pass.accounts /\ last'.history = pass.history
      /\ last'.recent = pass.recent /\ last'.rows = pass.rows
      /\ last'.carried = pass.carried /\ last'.written = series
      /\ last'.priced = Priced(pass.closes)
      /\ last'.reaches = Reaches(pass.closes, today)
      /\ last'.before = Behind(pass.closes, today)
  BY DEF KeepMemory
<1>3. RowsRead /\ CarriedRead /\ SeriesWritten /\ PointsRead /\ ClosesRead
  BY <1>1
  DEF ExactInv, RebuildInv, ClosesInv, KnowsRows, KnowsPoints, KnowsToday,
      HasCarried, HasCloses
<1>4. /\ today \in 0 .. clock /\ pass.events \in 0 .. ledger
      /\ today \in Days /\ today \in Nat
  BY <1>1, StoreGrows DEF TypedInv, PassShape, KnowsEvents, KnowsAccounts, KnowsToday
<1>5. {Behind(pass.closes, today), price, pass.closes} \subseteq Closes
  BY <1>3, CutsAreCloses, StoreGrows DEF ClosesRead
<1>6. MemoryTyped'
  BY <1>1, <1>2, <1>3, <1>4, <1>5
  DEF MemoryTyped, RowsRead, CarriedRead, PointsRead, Reaches
<1>7. MemoryBehind'
  <2>1. AtMost(Behind(pass.closes, today), Behind(price, today))
    BY <1>3, <1>4, <1>5, CutsGrow DEF ClosesRead
  <2>2. ASSUME NEW s \in Symbols, NEW d \in Days
        PROVE  pass.history[s][d] <= Behind(pass.closes, today)[s][d]
    <3>1. /\ Behind(price, today)[s][d] = IF d < today THEN price[s][d] ELSE 0
          /\ Behind(pass.closes, today)[s][d] =
                IF d < today THEN pass.closes[s][d] ELSE 0
      BY <1>4, BehindIs
    <3>2. /\ pass.history[s][d] <= Behind(price, today)[s][d]
          /\ pass.history[s][d] <= pass.closes[s][d]
      BY <1>3 DEF PointsRead, ClosesRead, AtMost
    <3> QED
      BY <3>1, <3>2
  <2> QED
    BY <1>1, <1>2, <1>3, <2>1, <2>2 DEF MemoryBehind, CarriedRead, AtMost
<1>8. MemoryShort'
  <2> SUFFICES ASSUME ~Reaches(pass.closes, today), ~(today < clock)
               PROVE  \E s \in Symbols \ Priced(pass.closes) :
                         /\ \A d \in Days : Behind(pass.closes, today)[s][d] = 0
                         /\ pass.recent[s][today] = 0
    BY <1>1, <1>2 DEF MemoryShort
  <2>1. PICK s \in Symbols : \A d \in 0 .. today : pass.closes[s][d] = 0
    BY DEF Reaches
  <2>2. ASSUME NEW d \in Days
        PROVE  pass.closes[s][d] = 0
    <3>1. CASE d \in 0 .. today
      BY <2>1, <3>1
    <3>2. CASE d \notin 0 .. today
      <4>1. d > clock
        BY <1>4, <3>2, StoreGrows, DaysAreNumbers
      <4>2. price[s][d] = 0
        BY <4>1 DEF ExactInv, PriceDated
      <4>3. pass.closes[s][d] \in Nat /\ pass.closes[s][d] <= price[s][d]
        BY <1>3, <1>5 DEF ClosesRead, AtMost, Closes
      <4> QED
        BY <4>2, <4>3
    <3> QED
      BY <3>1, <3>2
  <2>3. s \notin Priced(pass.closes)
    BY <2>2 DEF Priced
  <2>4. \A d \in Days : Behind(pass.closes, today)[s][d] = 0
    BY <1>4, <2>2, BehindIs
  <2>5. /\ pass.recent[s][today] \in Nat
        /\ pass.recent[s][today] <= pass.closes[s][today]
    BY <1>3, <1>4 DEF PointsRead, ClosesRead, AtMost, Closes
  <2>6. pass.recent[s][today] = 0
    BY <1>4, <2>2, <2>5
  <2> QED
    BY <2>3, <2>4, <2>6
<1>9. ASSUME NEW now, now = pass.closes
      PROVE  TodayIs(now)'
  <2>1. ASSUME NEW s \in Symbols
        PROVE  /\ pass.recent[s][today] <= pass.closes[s][today]
               /\ pass.closes[s][today] <= price[s][today]
    BY <1>3, <1>4 DEF ClosesRead, AtMost
  <2>2. \A s \in Symbols, d \in Days :
            d < today => Behind(pass.closes, today)[s][d] = pass.closes[s][d]
    BY <1>4, BehindIs
  <2>3. Reaches(pass.closes, today) =>
            Reaches(Together(Behind(pass.closes, today), pass.closes, today), today)
    <3>1. \A s \in Symbols, d \in Days : d <= today =>
              Together(Behind(pass.closes, today), pass.closes, today)[s][d] =
              pass.closes[s][d]
      BY <2>2 DEF Together
    <3> QED
      BY <1>4, <3>1, PointAgrees
  <2>4. Kept(pass.events, pass.accounts, pass.carried,
             Behind(pass.closes, today), pass.closes,
             Reaches(pass.closes, today), today) =
        Series(pass.events, pass.accounts, pass.carried, pass.closes, today)
    BY <1>4, <2>2, KeptIsSeries
  <2> QED
    BY <1>1, <1>2, <1>3, <1>9, <2>1, <2>3, <2>4 DEF TodayIs, SeriesWritten
<1>10. MemoryInv'
  BY <1>5, <1>6, <1>7, <1>8, <1>9 DEF MemoryInv
<1>11. RebuildInv' /\ ResumeInv'
  BY <1>1
  DEF RebuildInv, ResumeInv, Resuming, HasCarried, KnowsRows, KnowsPoints,
      KnowsToday
<1> QED
  BY <1>10, <1>11, DatedStays DEF ExactInv

(* The memory a pass of today's point leaves. *)
LEMMA KeepTodayExact ==
    ASSUME TypedInv, TypedInv', [Next]_vars, ClosesInv, ExactInv, KeepToday
    PROVE  ExactInv'
<1> DEFINE today == pass.today
<1>1. /\ pass.pc = "upserted" /\ pass'.pc = "idle"
      /\ UNCHANGED <<clock, price, meta, ledger, series>>
  BY DEF KeepToday, EndPass, Idle, inputs
<1>2. /\ Resumes /\ NoneNew /\ TodayRead /\ TodayWritten /\ PointsRead
      /\ MemoryTyped /\ MemoryBehind /\ MemoryShort
  BY <1>1
  DEF ExactInv, ResumeInv, Resuming, ClosesInv, KnowsPoints, KnowsToday,
      MemoryInv, Resumes
<1>3. /\ DOMAIN last' = DOMAIN last /\ last'.kept = last.kept
      /\ last'.history = last.history /\ last'.rows = last.rows
      /\ last'.recent = pass.recent /\ last'.written = series
      /\ last'.today = today /\ last'.events = last.events
      /\ last'.accounts = last.accounts /\ last'.carried = last.carried
      /\ last'.priced = last.priced /\ last'.reaches = last.reaches
      /\ last'.before = last.before
  BY <1>2 DEF KeepToday, MemoryTyped, Resumes
<1>4. last.today = today
  BY <1>2 DEF Resumes
<1>5. MemoryTyped'
  BY <1>1, <1>2, <1>3, <1>4 DEF MemoryTyped
<1>6. MemoryBehind'
  BY <1>1, <1>2, <1>3, <1>4 DEF MemoryBehind
<1>7. MemoryShort'
  BY <1>1, <1>2, <1>3, <1>4 DEF MemoryShort, NoneNew
<1>8. pass.closes = Together(last.before, pass.closes, today)
  BY <1>2 DEF TodayRead
<1>9. ASSUME NEW now, now = pass.closes
      PROVE  TodayIs(now)'
  BY <1>1, <1>2, <1>3, <1>4, <1>8, <1>9 DEF TodayIs, TodayRead, TodayWritten
<1>10. MemoryInv'
  BY <1>2, <1>5, <1>6, <1>7, <1>9 DEF MemoryInv, TodayRead
<1>11. RebuildInv' /\ ResumeInv'
  BY <1>1
  DEF RebuildInv, ResumeInv, Resuming, HasCarried, KnowsRows, KnowsPoints,
      KnowsToday
<1> QED
  BY <1>10, <1>11, DatedStays DEF ExactInv

(* Every action keeps the invariant. *)
LEMMA StepExact ==
    TypedInv /\ TypedInv' /\ ClosesInv /\ ExactInv /\ [Next]_vars => ExactInv'
<1> SUFFICES ASSUME TypedInv, TypedInv', ClosesInv, ExactInv, [Next]_vars
             PROVE  ExactInv'
  OBVIOUS
<1>1. CASE \/ DayTurn \/ StoreQuoteRow
           \/ \E s \in Symbols, d \in Days : StoreClose(s, d)
           \/ \E w \in Writers : Ingest(w) \/ IngestFails(w)
  <2>1. pass' = pass /\ last' = last /\ series' = series
    BY <1>1
    DEF DayTurn, StoreQuoteRow, StoreClose, Ingest, IngestFails, memory
  <2> QED
    BY <2>1, OutsideExact
<1>2. ASSUME NEW w \in Writers, WriteLedger(w)
      PROVE  ExactInv'
  <2>1. pass' = pass /\ last' = last /\ ledger' = writes + 1
    BY <1>2 DEF WriteLedger, memory
  <2>2. ledger < ledger'
    BY <2>1, BoundsAssumption DEF TypedInv, Counted
  <2> QED
    BY <2>1, <2>2, OutsideExact
<1>3. CASE Tick \/ \E w \in Writers : RunOnWrite(w)
  <2>1. pass'.pc = "events" /\ last' \in {last, NoMemory}
    BY <1>3 DEF Tick, RunOnWrite, Idle, memory
  <2> QED
    BY <2>1, EarlyExact DEF KnowsRows, KnowsPoints, KnowsToday
<1>4. CASE Unchanged \/ Fail \/ Restart
  <2>1. pass'.pc = "idle" /\ last' \in {last, NoMemory}
    BY <1>4 DEF Unchanged, Fail, Restart, EndPass, Idle, memory
  <2> QED
    BY <2>1, EarlyExact DEF KnowsRows, KnowsPoints, KnowsToday
<1>5. CASE ReadEvents \/ ReadAccounts \/ ReadClock \/ FingerprintPoints
  <2>1. /\ pass'.pc \in {"accounts", "clock", "points", "quotes"}
        /\ last' = last
    BY <1>5, ReadMoves
    DEF ReadEvents, ReadAccounts, ReadClock, FingerprintPoints, memory,
        TypedInv, PassShape
  <2> QED
    BY <2>1, EarlyExact DEF KnowsRows, KnowsPoints, KnowsToday
<1>6. CASE FingerprintQuotes
  BY <1>6, QuotesExact
<1>7. CASE CheckCache \/ ReadCloses \/ ReadCarried \/ Remember \/ RebuildWhole
  BY <1>7, WholeExact
<1>8. CASE WriteSeries
  BY <1>8, WriteExact
<1>9. CASE KeepMemory
  BY <1>9, KeepExact
<1>10. CASE TodayAlone
  BY <1>10, ResumeExact
<1>11. CASE SeeSymbols
  BY <1>11, SeenExact
<1>12. CASE ReadToday
  BY <1>12, TodayExact
<1>13. CASE WriteToday
  BY <1>13, UpsertExact
<1>14. CASE KeepToday
  BY <1>14, KeepTodayExact
<1>15. CASE UNCHANGED vars
  BY <1>15, OutsideExact DEF vars, memory
<1> QED
  BY <1>1, <1>2, <1>3, <1>4, <1>5, <1>6, <1>7, <1>8, <1>9, <1>10, <1>11,
     <1>12, <1>13, <1>14, <1>15
  DEF Next, PassStep

(* A memory whose fingerprints are the store's is of the store's closes:   *)
(* what lies between the two has no room left.                             *)
LEMMA MemoryIsExact == TypedInv /\ ExactInv => SkipIsExact
<1> SUFFICES ASSUME TypedInv, ExactInv, Same(Now)
             PROVE  series = Exact
  BY DEF SkipIsExact
<1>1. /\ last.kept /\ last.today = clock /\ last.written = series
      /\ last.events = ledger /\ last.accounts = ledger
      /\ last.history = Behind(price, clock) /\ last.rows = meta
      /\ last.recent = From(price, clock)
  BY DEF Same, SamePast, Now
<1>2. MemoryTyped /\ MemoryBehind /\ MemoryShort
  BY <1>1 DEF ExactInv, MemoryInv
<1>3. PICK now \in Closes : TodayIs(now)
  BY <1>1 DEF ExactInv, MemoryInv
<1>4. clock \in Nat /\ clock \in Days /\ ledger \in Nat /\ meta \in Nat
      /\ price \in Closes
  BY DaysAssumption DEF TypedInv, TypeOK, Counted, Closes, Days
<1>5. last.carried = meta
  BY <1>1, <1>2, <1>4 DEF MemoryBehind, MemoryTyped
<1>6. ASSUME NEW s \in Symbols, NEW d \in Days, d < clock
      PROVE  last.before[s][d] = price[s][d]
  <2>1. last.before[s][d] \in Nat /\ price[s][d] \in Nat
    BY <1>2, <1>4 DEF MemoryTyped, Closes
  <2>2. Behind(price, clock)[s][d] = price[s][d]
    BY <1>4, <1>6, BehindIs
  <2>3. /\ Behind(price, clock)[s][d] <= last.before[s][d]
        /\ last.before[s][d] <= Behind(price, clock)[s][d]
    BY <1>1, <1>2 DEF MemoryBehind, AtMost
  <2> QED
    BY <2>1, <2>2, <2>3
<1>7. ASSUME NEW s \in Symbols
      PROVE  now[s][clock] = price[s][clock]
  <2>1. now[s][clock] \in Nat /\ price[s][clock] \in Nat
    BY <1>4 DEF Closes
  <2>2. From(price, clock)[s][clock] = price[s][clock]
    BY <1>4, FromIs
  <2>3. /\ price[s][clock] <= now[s][clock]
        /\ now[s][clock] <= price[s][clock]
    BY <1>1, <1>3, <2>2 DEF TodayIs
  <2> QED
    BY <2>1, <2>3
<1>8. last.reaches <=> Reaches(price, clock)
  <2>1. ASSUME last.reaches
        PROVE  Reaches(price, clock)
    <3>1. Reaches(Together(last.before, now, clock), clock)
      BY <1>1, <1>3, <2>1 DEF TodayIs
    <3>2. \A s \in Symbols, d \in Days : d <= clock =>
              Together(last.before, now, clock)[s][d] = price[s][d]
      <4> SUFFICES ASSUME NEW s \in Symbols, NEW d \in Days, d <= clock
                   PROVE  Together(last.before, now, clock)[s][d] = price[s][d]
        OBVIOUS
      <4>1. d < clock \/ d = clock
        BY <1>4, DaysAreNumbers
      <4> QED
        BY <1>4, <1>6, <1>7, <4>1 DEF Together
    <3> QED
      BY <1>4, <3>1, <3>2, PointAgrees
  <2>2. ASSUME ~last.reaches
        PROVE  ~Reaches(price, clock)
    <3>1. PICK s \in Symbols : /\ \A d \in Days : last.before[s][d] = 0
                               /\ last.recent[s][clock] = 0
      BY <1>1, <1>2, <1>4, <2>2 DEF MemoryShort
    <3>2. ASSUME NEW d \in 0 .. clock
          PROVE  price[s][d] = 0
      <4>1. d \in Days /\ d \in Nat
        BY <1>4, DaysAssumption DEF Days
      <4>2. CASE d < clock
        BY <1>6, <3>1, <4>1, <4>2
      <4>3. CASE d = clock
        <5>1. From(price, clock)[s][clock] = price[s][clock]
          BY <1>4, FromIs
        <5> QED
          BY <1>1, <3>1, <4>3, <5>1
      <4> QED
        BY <1>4, <4>1, <4>2, <4>3
    <3> QED
      BY <3>2 DEF Reaches
  <2> QED
    BY <2>1, <2>2
<1>9. last.reaches = Reaches(price, clock)
  BY <1>2, <1>8 DEF MemoryTyped, Reaches
<1>10. series = Kept(ledger, ledger, meta, last.before, now, last.reaches, clock)
  BY <1>1, <1>3, <1>4, <1>5 DEF TodayIs
<1>11. Kept(ledger, ledger, meta, last.before, now, last.reaches, clock) =
       Series(ledger, ledger, meta, price, clock)
  BY <1>4, <1>6, <1>7, <1>9, KeptIsSeries
<1> QED
  BY <1>10, <1>11 DEF Exact

(***************************************************************************)
(* rebuild_series (performance.py): whenever a pass would find nothing to  *)
(* rewrite, the series is the one a whole rebuild would write now, by      *)
(* whichever mode it was written and whatever landed between the reads of  *)
(* the passes that wrote it.                                               *)
(***************************************************************************)
THEOREM SkipExact == Spec => []SkipIsExact
<1>1. Init => ExactInv
  <2> SUFFICES ASSUME Init
               PROVE  ExactInv
    OBVIOUS
  <2>1. PriceDated
    BY DaysAssumption DEF Init, PriceDated, Between, Days
  <2>2. RebuildInv /\ ResumeInv /\ MemoryInv
    BY DEF Init, Idle, NoMemory, RebuildInv, ResumeInv, MemoryInv, Resuming,
           HasCarried, KnowsRows, KnowsPoints, KnowsToday
  <2> QED
    BY <2>1, <2>2 DEF ExactInv
<1>2. Init => ClosesInv
  BY DEF Init, Idle, NoCache, ClosesInv, CacheBetween, KnowsPoints, KnowsToday,
         HasCloses
<1> QED
  BY <1>1, <1>2, InitTyped, StepTyped, StepCloses, StepExact, MemoryIsExact, PTL
  DEF Spec
=============================================================================

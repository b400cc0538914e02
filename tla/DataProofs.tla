----------------------------- MODULE DataProofs -----------------------------
(***************************************************************************)
(* Theorems of the data page: of the import window (ImportPreview), whose  *)
(* button sends what was judged, whose ticks are what is sent, whose       *)
(* imports are said and whose readings are of their proposal; then of the  *)
(* ledger (LedgerPage), whose ticks are the reader's, whose reductions     *)
(* survive a reload and whose gestures are spent once; then of the form of *)
(* an event (EventForm), which sends what it shows and keeps what is typed.*)
(* Each hook of the window has an invariant of its own, and no step        *)
(* disturbs both.                                                          *)
(***************************************************************************)
EXTENDS ImportPreview, TLAPS

(* The window is opened on a batch, or on a proposal, once the readings    *)
(* asked of an earlier one are answered.  The code does not wait: without  *)
(* this the two theorems about the button are false (UploadZone.tsx,       *)
(* discard: the reading of a batch put down still lands).                  *)
Turns ==
    /\ (\E files \in Batches : HandOver(files)) => previews = {}
    /\ (\E proposal \in Proposals : OpenReview(proposal)) => reads = {}

InTurn == [][Turns]_vars

(* At most one request is in flight.                                       *)
Single(flights) == flights = {} \/ \E f : flights = {f}

(* The shape of the answers on screen.                                     *)
IsWindow(w) ==
    /\ w = [chosen |-> w.chosen, writeDuplicates |-> w.writeDuplicates,
            collapsed |-> w.collapsed, adoptCurrency |-> w.adoptCurrency,
            amountsIn |-> w.amountsIn, lastFile |-> w.lastFile]
    /\ w.writeDuplicates \in BOOLEAN

WindowInv == IsWindow(window)

(* The shape of what a hook sends, of a forecast, and of a reading.        *)
IsAnswer(a) ==
    /\ a = Answer(a.correspondence, a.writeDuplicates, a.amountsIn, a.collapsed)
    /\ a.writeDuplicates \in BOOLEAN

IsForecast(f) == f = Forecast(f.file, f.writing, f.refused, f.judged)

IsPreview(p) ==
    p = [subject |-> p.subject, answer |-> p.answer, census |-> p.census, seen |-> p.seen]

(* A reading of files in flight is of the batch in hand under the answer   *)
(* the hook keeps, and a batch in hand has none that it let go of; once it *)
(* is answered, what may be written is what was judged.                    *)
FilesInv ==
    /\ IsAnswer(answer)
    /\ Single(previews)
    /\ \A p \in previews :
           /\ IsPreview(p)
           /\ held # <<>> => p.subject = held /\ p.answer = answer
           /\ ~p.seen => held = <<>>
    /\ standing = None \/ IsForecast(standing)
    /\ held # <<>> /\ previews = {} /\ standing # None /\ standing.writing # None
           => standing.judged = WriteRequest(held, answer, standing)

(* The shape of a reading of a proposal.                                   *)
IsRead(r) ==
    r = [proposal |-> r.proposal, subject |-> r.subject, answer |-> r.answer,
         census |-> r.census, seen |-> r.seen]

(* The same of a proposal: its readings are of the proposal of the         *)
(* address, under the edits and the answer sent.                           *)
ReviewInv ==
    /\ IsAnswer(given)
    /\ Single(reads)
    /\ \A r \in reads :
           /\ IsRead(r)
           /\ id # None => /\ r.proposal = id /\ r.subject = Subject(id, edits)
                           /\ r.answer = Sent(given)
           /\ ~r.seen => id = None
    /\ reading = None \/ IsForecast(reading)
    /\ id # None /\ reads = {} /\ reading # None /\ reading.writing # None
           => reading.judged = WriteRequest(Subject(id, edits), Sent(given), reading)

(* The inductive invariant of what the button sends.                       *)
JudgedInv == WindowInv /\ FilesInv /\ ReviewInv

(* The first request in flight is the only one.                            *)
LEMMA NewPreview ==
    ASSUME previews = {}, NEW files, NEW next, Preview(files, next)
    PROVE  previews' = {Handed(files, next)}
BY DEF Preview, Unseen

LEMMA NewRead ==
    ASSUME reads = {}, NEW proposal, NEW next, NEW edited, Read(proposal, next, edited)
    PROVE  reads' = {[proposal |-> proposal, subject |-> Subject(proposal, edited),
                      answer |-> Sent(next), census |-> None, seen |-> TRUE]}
BY DEF Read, LetGo

(* Where one reading is enough, the request it judged is the one the       *)
(* button would send.                                                      *)
LEMMA OneReadingWrites ==
    ASSUME NEW subject, NEW a, IsAnswer(a), NEW census, NEW writing, NEW refused,
           OneReading(census, a)
    PROVE  LET request == CensusRequest(subject, a)
           IN request = WriteRequest(subject, a, Forecast(census, writing, refused, request))
BY DEF IsAnswer, OneReading, CensusRequest, WriteRequest, Forecast, importEvents

(* What is sent of an answer, and the answer to nothing, are answers.      *)
LEMMA SentIsAnswer ==
    ASSUME NEW a, IsAnswer(a) PROVE IsAnswer(Sent(a))
<1>1. Sent(a) = Answer(NO_CORRESPONDENCE, a.writeDuplicates, a.amountsIn, a.collapsed)
  BY DEF IsAnswer, Sent, Answer
<1> QED BY <1>1 DEF IsAnswer, Answer

LEMMA NothingSaid == IsAnswer(NO_ANSWER)
BY DEF IsAnswer, NO_ANSWER, Answer

(* A render keeps the shape of the answers on screen.                      *)
LEMMA RendersKeep ==
    ASSUME NEW w, Renders(w),
           IsWindow(w)
    PROVE  WindowInv'
<1>1. window' \in {Unsaid, w, [w EXCEPT !.lastFile = TRUE]}
  BY DEF Renders, Rendered
<1>2. CASE window' = Unsaid
  BY <1>2 DEF Unsaid, WindowInv, IsWindow
<1>3. CASE window' = w
  BY <1>3 DEF WindowInv, IsWindow
<1>4. CASE window' = [w EXCEPT !.lastFile = TRUE]
  BY <1>4 DEF WindowInv, IsWindow
<1> QED BY <1>1, <1>2, <1>3, <1>4

-----------------------------------------------------------------------------
(* The files: each operation of the hook keeps FilesInv.                   *)
LEMMA FilesStill ==
    ASSUME FilesInv, UNCHANGED <<held, answer, standing, previews>> PROVE FilesInv'
BY DEF FilesInv, IsAnswer, Answer, Single, IsPreview, WriteRequest, importEvents, repeatsToWrite,
       repeatGroups, keptAsOne, acrossFiles

(* A batch read anew, with nothing else in flight.                         *)
LEMMA BatchRead ==
    ASSUME FilesInv, previews = {}, NEW files, NEW next, IsAnswer(next), Preview(files, next),
           held' = files, answer' = next, standing' \in {None, standing}
    PROVE  FilesInv'
<1>1. previews' = {Handed(files, next)}
  BY NewPreview DEF FilesInv
<1>2. IsAnswer(answer)'
  BY DEF IsAnswer
<1>3. Single(previews)'
  BY <1>1 DEF Single
<1>4. ASSUME NEW p \in previews'
      PROVE  IsPreview(p) /\ p.subject = held' /\ p.answer = answer' /\ p.seen
  BY <1>1 DEF Handed, IsPreview
<1>5. previews' # {}
  BY <1>1
<1>6. standing' = None \/ IsForecast(standing)'
  BY DEF FilesInv, IsForecast
<1> QED BY <1>2, <1>3, <1>4, <1>5, <1>6 DEF FilesInv

(* The batch is put down: what is in flight is let go of.                  *)
LEMMA DiscardKeeps ==
    ASSUME FilesInv, Discard PROVE FilesInv'
<1>1. held' = <<>> /\ answer' = NO_ANSWER /\ previews' = Unseen(previews)
  BY DEF Discard
<1>2. IsAnswer(answer)'
  BY <1>1, NothingSaid DEF IsAnswer
<1>3. Single(previews)'
  <2>1. CASE previews = {}
    BY <1>1, <2>1 DEF Single, Unseen
  <2>2. ASSUME NEW f, previews = {f} PROVE Single(previews)'
    <3>1. previews' = {[f EXCEPT !.seen = FALSE]}
      BY <1>1, <2>2 DEF Unseen
    <3> QED BY <3>1 DEF Single
  <2> QED BY <2>1, <2>2 DEF FilesInv, Single
<1>4. ASSUME NEW p \in previews' PROVE IsPreview(p)
  <2>1. PICK f \in previews : p = [f EXCEPT !.seen = FALSE]
    BY <1>1 DEF Unseen
  <2>2. IsPreview(f)
    BY DEF FilesInv
  <2> QED BY <2>1, <2>2 DEF IsPreview
<1>5. standing' = None
  BY DEF Discard
<1> QED BY <1>1, <1>2, <1>3, <1>4, <1>5 DEF FilesInv

(* A batch handed over, a file taken out, an answer given.                 *)
LEMMA HandKeeps ==
    ASSUME FilesInv, previews = {}, NEW files, Hand(files) PROVE FilesInv'
BY BatchRead, NothingSaid DEF Hand

LEMMA DropKeeps ==
    ASSUME FilesInv, NEW index, Drop(index) PROVE FilesInv'
<1>1. CASE Len(held) = 1
  BY <1>1, DiscardKeeps DEF Drop
<1>2. CASE Len(held) # 1
  <2>1. previews = {}
    BY <1>2 DEF Drop, filePending, previewPending, FilesInv
  <2> QED BY <1>2, <2>1, BatchRead, NothingSaid DEF Drop
<1> QED BY <1>1, <1>2

LEMMA ReconsiderKeeps ==
    ASSUME FilesInv, NEW next, IsAnswer(next), Reconsider(next) PROVE FilesInv'
<1>1. Preview(held, next) /\ held' = held /\ answer' = next /\ standing' = standing
  BY DEF Reconsider
<1>2. previews = {}
  BY DEF Reconsider, filePending, previewPending, FilesInv
<1> QED BY <1>1, <1>2, BatchRead

(* A forecast that stands for the reading it answers.                      *)
LEMMA ReadingLanded ==
    ASSUME FilesInv, NEW p \in previews, NEW landed, Stands(p, landed),
           IsForecast(landed),
           held # <<>> /\ landed.writing # None
               => landed.judged = WriteRequest(p.subject, p.answer, landed)
    PROVE  FilesInv'
<1>1. previews' = {} /\ standing' = landed /\ UNCHANGED <<held, answer>>
  BY DEF Stands, FilesInv, Single
<1>2. held # <<>> => p.subject = held /\ p.answer = answer
  BY DEF FilesInv
<1>3. held' # <<>> /\ standing'.writing # None
         => standing'.judged = WriteRequest(held', answer', standing')
  BY <1>1, <1>2
<1>4. IsAnswer(answer)' /\ IsForecast(standing)' /\ Single(previews)'
  BY <1>1 DEF FilesInv, IsAnswer, IsForecast, Single
<1>5. WriteRequest(held, answer, standing)' = WriteRequest(held', answer', standing')
  BY DEF WriteRequest, importEvents, repeatsToWrite, repeatGroups, keptAsOne, acrossFiles
<1> QED BY <1>1, <1>3, <1>4, <1>5 DEF FilesInv

(* What the server answers to a reading, and to a write.                   *)
LEMMA CensusReadKeeps ==
    ASSUME FilesInv, NEW p \in previews, CensusRead(p) PROVE FilesInv'
<1> DEFINE census == FilesCensus(p.subject, p.answer.correspondence)
           request == CensusRequest(p.subject, p.answer)
<1>1. CASE OneReading(census, p.answer)
  <2> DEFINE landed == Forecast(census, Written(census, request), FALSE, request)
  <2>1. Stands(p, landed)
    BY <1>1 DEF CensusRead
  <2>2. held # <<>> => landed.judged = WriteRequest(p.subject, p.answer, landed)
    BY <1>1, OneReadingWrites DEF FilesInv, Forecast
  <2>3. IsForecast(landed)
    BY DEF IsForecast, Forecast
  <2> HIDE DEF landed
  <2> QED BY <2>1, <2>2, <2>3, ReadingLanded
<1>2. CASE ~OneReading(census, p.answer)
  <2>1. /\ previews' = {[p EXCEPT !.census = census]}
        /\ UNCHANGED <<held, answer, standing>>
    BY <1>2 DEF CensusRead, FilesInv, Single
  <2>2. IsPreview(p) /\ (held # <<>> => p.subject = held /\ p.answer = answer)
        /\ (~p.seen => held = <<>>)
    BY DEF FilesInv
  <2>3. ASSUME NEW q \in previews'
        PROVE  IsPreview(q) /\ q.subject = p.subject /\ q.answer = p.answer /\ q.seen = p.seen
    BY <2>1, <2>2 DEF IsPreview
  <2>4. IsAnswer(answer)' /\ Single(previews)' /\ previews' # {}
    BY <2>1 DEF FilesInv, IsAnswer, Single
  <2> QED BY <2>1, <2>2, <2>3, <2>4 DEF FilesInv
<1> QED BY <1>1, <1>2

LEMMA SecondReadKeeps ==
    ASSUME FilesInv, NEW p \in previews, SecondRead(p) \/ SecondRefused(p) PROVE FilesInv'
<1>1. CASE SecondRead(p)
  <2> DEFINE landed == Forecast(p.census, Written(p.census, SecondRequest(p)), FALSE,
                                  SecondRequest(p))
  <2>1. Stands(p, landed)
    BY <1>1 DEF SecondRead
  <2>2. landed.judged = WriteRequest(p.subject, p.answer, landed)
    BY DEF Forecast, SecondRequest, WriteRequest
  <2>3. IsForecast(landed)
    BY DEF IsForecast, Forecast
  <2> HIDE DEF landed
  <2> QED BY <2>1, <2>2, <2>3, ReadingLanded
<1>2. CASE SecondRefused(p)
  <2> DEFINE landed == Forecast(p.census, None, TRUE, None)
  <2>1. Stands(p, landed) /\ landed.writing = None /\ IsForecast(landed)
    BY <1>2 DEF SecondRefused, Forecast, IsForecast
  <2> HIDE DEF landed
  <2> QED BY <2>1, ReadingLanded
<1> QED BY <1>1, <1>2

LEMMA CensusRefusedKeeps ==
    ASSUME FilesInv, NEW p \in previews, CensusRefused(p)
    PROVE  FilesInv'
<1>1. previews' = {} /\ standing' = WithoutWriting(standing) /\ UNCHANGED <<held, answer>>
  BY DEF CensusRefused, FilesInv, Single
<1>2. standing' = None \/ (standing'.writing = None /\ IsForecast(standing'))
  BY <1>1 DEF FilesInv, WithoutWriting, IsForecast, Forecast
<1>3. IsAnswer(answer)' /\ Single(previews)'
  BY <1>1 DEF FilesInv, IsAnswer, Single
<1>4. IsForecast(standing)' <=> IsForecast(standing')
  BY DEF IsForecast
<1> QED BY <1>1, <1>2, <1>3, <1>4 DEF FilesInv

LEMMA LandedKeeps ==
    ASSUME FilesInv, NEW w, WriteLands(w) PROVE FilesInv'
<1>1. held' = <<>> /\ UNCHANGED <<answer, standing, previews>>
  BY DEF WriteLands
<1>2. IsAnswer(answer)' /\ Single(previews)'
  BY <1>1 DEF FilesInv, IsAnswer, Single
<1>3. ASSUME NEW p \in previews' PROVE IsPreview(p)
  BY <1>1 DEF FilesInv
<1>4. (standing = None \/ IsForecast(standing))'
  BY <1>1 DEF FilesInv, IsForecast
<1> QED BY <1>1, <1>2, <1>3, <1>4 DEF FilesInv

-----------------------------------------------------------------------------
(* The proposals: each operation of the hook keeps ReviewInv.              *)
LEMMA ReviewStill ==
    ASSUME ReviewInv, UNCHANGED <<id, given, edits, reading, reads>> PROVE ReviewInv'
BY DEF ReviewInv, IsAnswer, IsForecast, Single, IsRead

(* A proposal read anew, with nothing else in flight.                      *)
LEMMA ProposalRereads ==
    ASSUME ReviewInv, reads = {}, NEW proposal, NEW next, IsAnswer(next), NEW edited,
           Read(proposal, next, edited),
           id' = proposal, given' = next, edits' = edited, reading' \in {None, reading}
    PROVE  ReviewInv'
<1> DEFINE read == [proposal |-> proposal, subject |-> Subject(proposal, edited),
                    answer |-> Sent(next), census |-> None, seen |-> TRUE]
<1>1. reads' = {read}
  BY NewRead DEF ReviewInv
<1>2. IsAnswer(given)' /\ Single(reads)' /\ reads' # {}
  BY <1>1 DEF IsAnswer, Single
<1>3. reading' = None \/ IsForecast(reading)'
  BY DEF ReviewInv, IsForecast
<1>4. IsRead(read) /\ read.proposal = id' /\ read.subject = Subject(id', edits')
      /\ read.answer = Sent(given') /\ read.seen
  BY DEF IsRead
<1> HIDE DEF read
<1>5. ASSUME NEW r \in reads'
      PROVE  IsRead(r) /\ r.proposal = id' /\ r.subject = Subject(id', edits')
             /\ r.answer = Sent(given') /\ r.seen
  BY <1>1, <1>4
<1>6. Subject(id, edits)' = Subject(id', edits') /\ Sent(given)' = Sent(given')
  BY DEF Subject, Sent, NO_CORRESPONDENCE
<1> QED BY <1>2, <1>3, <1>5, <1>6 DEF ReviewInv

(* The address stops naming the proposal: its readings are let go of.      *)
LEMMA ClosedReads ==
    ASSUME ReviewInv, Closes,
           reads' = LetGo(reads) \/ \E r \in reads : reads' = LetGo(reads \ {r})
    PROVE  ReviewInv'
<1>1. id' = None /\ given' = NO_ANSWER /\ reading' = None
  BY DEF Closes
<1>2. IsAnswer(given)'
  BY <1>1, NothingSaid DEF IsAnswer
<1>3. PICK some \in SUBSET reads : reads' = LetGo(some)
  OBVIOUS
<1>4. Single(reads)'
  <2>1. CASE some = {}
    BY <1>3, <2>1 DEF Single, LetGo
  <2>2. ASSUME NEW f, some = {f} PROVE Single(reads)'
    <3>1. reads' = {[f EXCEPT !.seen = FALSE]}
      BY <1>3, <2>2 DEF LetGo
    <3> QED BY <3>1 DEF Single
  <2> QED BY <2>1, <2>2 DEF ReviewInv, Single
<1>5. ASSUME NEW r \in reads' PROVE IsRead(r)
  <2>1. PICK f \in reads : r = [f EXCEPT !.seen = FALSE]
    BY <1>3 DEF LetGo
  <2>2. IsRead(f)
    BY DEF ReviewInv
  <2> QED BY <2>1, <2>2 DEF IsRead
<1> QED BY <1>1, <1>2, <1>4, <1>5 DEF ReviewInv

(* A proposal opened, an edit of its statement, an answer given.           *)
LEMMA ReviewKeeps ==
    ASSUME ReviewInv, reads = {}, NEW proposal, Review(proposal) PROVE ReviewInv'
BY ProposalRereads, NothingSaid DEF Review

LEMMA EditKeeps ==
    ASSUME ReviewInv, NEW next, Edit(next) PROVE ReviewInv'
<1>1. Read(id, given, next) /\ id' = id /\ given' = given /\ edits' = next /\ reading' = reading
  BY DEF Edit
<1>2. reads = {}
  BY DEF Edit, proposalPending, ReviewInv
<1> QED BY <1>1, <1>2, ProposalRereads DEF ReviewInv

LEMMA ReconsiderProposalKeeps ==
    ASSUME ReviewInv, NEW next, IsAnswer(next), ReconsiderProposal(next)
    PROVE  ReviewInv'
<1>1. Read(id, next, edits) /\ id' = id /\ given' = next /\ edits' = edits /\ reading' = reading
  BY DEF ReconsiderProposal
<1>2. reads = {}
  BY DEF ReconsiderProposal, proposalPending, ReviewInv
<1> QED BY <1>1, <1>2, ProposalRereads

(* A forecast that stands for the reading it answers.                      *)
LEMMA ProposalReadLanded ==
    ASSUME ReviewInv, NEW r \in reads, NEW landed, ReadStands(r, landed), IsForecast(landed),
           id # None /\ landed.writing # None
               => landed.judged = WriteRequest(r.subject, r.answer, landed)
    PROVE  ReviewInv'
<1>1. reads' = {} /\ UNCHANGED <<id, given, edits>>
      /\ reading' = IF r.proposal = id THEN landed ELSE reading
  BY DEF ReadStands, ReviewInv, Single
<1>2. id # None => r.proposal = id /\ r.subject = Subject(id, edits) /\ r.answer = Sent(given)
  BY DEF ReviewInv
<1>3. id' # None /\ reading'.writing # None
         => reading'.judged = WriteRequest(Subject(id', edits'), Sent(given'), reading')
  BY <1>1, <1>2
<1>4. IsAnswer(given)' /\ Single(reads)' /\ (reading = None \/ IsForecast(reading))'
  BY <1>1 DEF ReviewInv, IsAnswer, IsForecast, Single
<1>5. WriteRequest(Subject(id, edits), Sent(given), reading)'
         = WriteRequest(Subject(id', edits'), Sent(given'), reading')
  BY DEF WriteRequest, importEvents, repeatsToWrite, repeatGroups, keptAsOne, acrossFiles,
         Subject, Sent, NO_CORRESPONDENCE
<1> QED BY <1>1, <1>3, <1>4, <1>5 DEF ReviewInv

(* What the server answers to a reading.                                   *)
LEMMA ProposalReadKeeps ==
    ASSUME ReviewInv, NEW r \in reads, ProposalRead(r) PROVE ReviewInv'
<1> DEFINE census == ProposalCensus(r.proposal, r.subject.edits)
           request == CensusRequest(r.subject, r.answer)
<1>1. CASE OneReading(census, r.answer)
  <2> DEFINE landed == Forecast(census, Written(census, request), FALSE, request)
  <2>1. ReadStands(r, landed)
    BY <1>1 DEF ProposalRead
  <2>2. id # None => landed.judged = WriteRequest(r.subject, r.answer, landed)
    BY <1>1, OneReadingWrites, SentIsAnswer DEF ReviewInv, Forecast
  <2>3. IsForecast(landed)
    BY DEF IsForecast, Forecast
  <2> HIDE DEF landed
  <2> QED BY <2>1, <2>2, <2>3, ProposalReadLanded
<1>2. CASE ~OneReading(census, r.answer)
  <2>1. /\ reads' = {[r EXCEPT !.census = census]}
        /\ UNCHANGED <<id, given, edits, reading>>
    BY <1>2 DEF ProposalRead, ReviewInv, Single
  <2>2. IsRead(r) /\ (~r.seen => id = None)
        /\ (id # None => /\ r.proposal = id /\ r.subject = Subject(id, edits)
                         /\ r.answer = Sent(given))
    BY DEF ReviewInv
  <2>3. ASSUME NEW q \in reads'
        PROVE  IsRead(q) /\ q.proposal = r.proposal /\ q.subject = r.subject
               /\ q.answer = r.answer /\ q.seen = r.seen
    BY <2>1, <2>2 DEF IsRead
  <2>4. IsAnswer(given)' /\ Single(reads)' /\ reads' # {}
        /\ (reading = None \/ IsForecast(reading))'
    BY <2>1 DEF ReviewInv, IsAnswer, IsForecast, Single
  <2>5. Subject(id, edits)' = Subject(id, edits) /\ Sent(given)' = Sent(given)
    BY <2>1 DEF Subject, Sent, NO_CORRESPONDENCE
  <2> QED BY <2>1, <2>2, <2>3, <2>4, <2>5 DEF ReviewInv
<1> QED BY <1>1, <1>2

LEMMA SecondProposalReadKeeps ==
    ASSUME ReviewInv, NEW r \in reads, SecondProposalRead(r) \/ SecondProposalRefused(r)
    PROVE  ReviewInv'
<1>1. CASE SecondProposalRead(r)
  <2> DEFINE landed == Forecast(r.census, Written(r.census, SecondProposalRequest(r)), FALSE,
                                  SecondProposalRequest(r))
  <2>1. ReadStands(r, landed)
    BY <1>1 DEF SecondProposalRead
  <2>2. landed.judged = WriteRequest(r.subject, r.answer, landed)
    BY DEF Forecast, SecondProposalRequest, WriteRequest
  <2>3. IsForecast(landed)
    BY DEF IsForecast, Forecast
  <2> HIDE DEF landed
  <2> QED BY <2>1, <2>2, <2>3, ProposalReadLanded
<1>2. CASE SecondProposalRefused(r)
  <2> DEFINE landed == Forecast(r.census, None, TRUE, None)
  <2>1. ReadStands(r, landed) /\ landed.writing = None /\ IsForecast(landed)
    BY <1>2 DEF SecondProposalRefused, Forecast, IsForecast
  <2> HIDE DEF landed
  <2> QED BY <2>1, ProposalReadLanded
<1> QED BY <1>1, <1>2

LEMMA ReadRefusedKeeps ==
    ASSUME ReviewInv, NEW r \in reads, ReadRefused(r) PROVE ReviewInv'
<1>1. reads' = {} /\ reading' = WithoutWriting(reading) /\ UNCHANGED <<id, given, edits>>
  BY DEF ReadRefused, ReviewInv, Single
<1>2. reading' = None \/ (reading'.writing = None /\ IsForecast(reading'))
  BY <1>1 DEF ReviewInv, WithoutWriting, IsForecast, Forecast
<1>3. IsAnswer(given)' /\ Single(reads)'
  BY <1>1 DEF ReviewInv, IsAnswer, Single
<1>4. IsForecast(reading)' <=> IsForecast(reading')
  BY DEF IsForecast
<1> QED BY <1>1, <1>2, <1>3, <1>4 DEF ReviewInv

-----------------------------------------------------------------------------
(* The window: what a render, and forgetting, make of the answers.         *)
LEMMA WindowStill ==
    ASSUME WindowInv, UNCHANGED window PROVE WindowInv'
BY DEF WindowInv, IsWindow

LEMMA RendersWindow ==
    ASSUME WindowInv, Renders(window) PROVE WindowInv'
BY RendersKeep DEF WindowInv

LEMMA ForgottenShape ==
    ASSUME NEW w, w = forgetAnswers(window)
    PROVE  IsWindow(w)
<1>1. PICK u : u = Unsaid
  OBVIOUS
<1>2. IsWindow(u)
  BY <1>1 DEF Unsaid, IsWindow
<1>3. w = [u EXCEPT !.lastFile = window.lastFile]
  BY <1>1 DEF forgetAnswers
<1> QED BY <1>2, <1>3 DEF IsWindow

(* An answer on screen goes to the hook the window is over.                *)
LEMMA ReconsidersKeeps ==
    ASSUME JudgedInv, NEW w, Reconsiders(w),
           IsWindow(w)
    PROVE  JudgedInv'
<1> DEFINE next == Answer(correspondenceOf(linesUnder(w.chosen)), w.writeDuplicates,
                          w.amountsIn, w.collapsed)
<1>1. IsAnswer(next)
  BY DEF IsAnswer, IsWindow, Answer
<1>2. WindowInv'
  BY RendersKeep DEF Reconsiders
<1>3. CASE id # None
  <2>1. ReconsiderProposal(next) /\ keepFiles
    BY <1>3 DEF Reconsiders
  <2> HIDE DEF next
  <2>2. ReviewInv'
    BY <1>1, <2>1, ReconsiderProposalKeeps DEF JudgedInv
  <2>3. FilesInv'
    BY <2>1, FilesStill DEF JudgedInv, keepFiles, fileVars
  <2> QED BY <1>2, <2>2, <2>3 DEF JudgedInv
<1>4. CASE id = None
  <2>1. Reconsider(next) /\ keepProposal
    BY <1>4 DEF Reconsiders
  <2> HIDE DEF next
  <2>2. FilesInv'
    BY <1>1, <2>1, ReconsiderKeeps DEF JudgedInv
  <2>3. ReviewInv'
    BY <2>1, ReviewStill DEF JudgedInv, keepProposal, proposalVars
  <2> QED BY <1>2, <2>2, <2>3 DEF JudgedInv
<1> QED BY <1>3, <1>4

(* The invariant holds at first, and a step keeps it.                      *)
LEMMA JudgedStart ==
    ASSUME Init PROVE JudgedInv
<1>1. FilesInv
  BY NothingSaid DEF Init, FileInit, FilesInv, Single
<1>2. ReviewInv
  BY NothingSaid DEF Init, ProposalInit, ReviewInv, Single
<1>3. WindowInv
  BY DEF Init, Unsaid, WindowInv, IsWindow
<1> QED BY <1>1, <1>2, <1>3 DEF JudgedInv

(* A step of one hook leaves the other alone.                              *)
LEMMA FilesAlone ==
    ASSUME JudgedInv, FilesInv', WindowInv', keepProposal PROVE JudgedInv'
BY ReviewStill DEF JudgedInv, keepProposal, proposalVars

LEMMA ProposalAlone ==
    ASSUME JudgedInv, ReviewInv', WindowInv', keepFiles PROVE JudgedInv'
BY FilesStill DEF JudgedInv, keepFiles, fileVars

(* Every step of the window, taken in turn, keeps the invariant.           *)
LEMMA JudgedStep ==
    ASSUME JudgedInv, [Next]_vars, [Turns]_vars PROVE JudgedInv'
<1> USE DEF JudgedInv
<1>1. ASSUME NEW name, NEW target, AnswerAccount(name, target) PROVE JudgedInv'
  <2>1. Reconsiders([window EXCEPT !.chosen[name] = target])
    BY <1>1 DEF AnswerAccount
  <2> DEFINE w == [window EXCEPT !.chosen[name] = target]
  <2>2. IsWindow(w)
    BY DEF WindowInv, IsWindow
  <2> HIDE DEF w
  <2> QED BY <2>1, <2>2, ReconsidersKeeps DEF w
<1>2. CASE DecideDuplicates
  <2>1. Reconsiders([window EXCEPT !.writeDuplicates = ~@])
    BY <1>2 DEF DecideDuplicates
  <2> DEFINE w == [window EXCEPT !.writeDuplicates = ~@]
  <2>2. IsWindow(w)
    BY DEF WindowInv, IsWindow
  <2> HIDE DEF w
  <2> QED BY <2>1, <2>2, ReconsidersKeeps DEF w
<1>3. ASSUME NEW value, DecideCurrency(value) PROVE JudgedInv'
  <2>1. Reconsiders([window EXCEPT !.amountsIn = value])
    BY <1>3 DEF DecideCurrency
  <2> DEFINE w == [window EXCEPT !.amountsIn = value]
  <2>2. IsWindow(w)
    BY DEF WindowInv, IsWindow
  <2> HIDE DEF w
  <2> QED BY <2>1, <2>2, ReconsidersKeeps DEF w
<1>4. ASSUME NEW next, DecideRepeats(next) PROVE JudgedInv'
  <2>1. Reconsiders([window EXCEPT !.collapsed = next])
    BY <1>4 DEF DecideRepeats
  <2> DEFINE w == [window EXCEPT !.collapsed = next]
  <2>2. IsWindow(w)
    BY DEF WindowInv, IsWindow
  <2> HIDE DEF w
  <2> QED BY <2>1, <2>2, ReconsidersKeeps DEF w
<1>5. CASE ToggleAdoption
  <2>1. WindowInv'
    BY <1>5 DEF ToggleAdoption, WindowInv, IsWindow
  <2> QED BY <1>5, <2>1, FilesAlone, FilesStill DEF ToggleAdoption, keepFiles, fileVars
<1>6. ASSUME NEW index, Remove(index) PROVE JudgedInv'
  <2>1. FilesInv'
    BY <1>6, DropKeeps DEF Remove
  <2>2. WindowInv'
    <3> DEFINE w == forgetAnswers(window)
    <3>1. Renders(w)
      BY <1>6 DEF Remove
    <3>2. IsWindow(w)
      BY ForgottenShape
    <3> HIDE DEF w
    <3> QED BY <3>1, <3>2, RendersKeep
  <2> QED BY <1>6, <2>1, <2>2, FilesAlone DEF Remove
<1>7. CASE Import
  <2>1. WindowInv'
    BY <1>7, RendersWindow DEF Import
  <2>2. UNCHANGED <<held, answer, standing, previews>>
        /\ UNCHANGED <<id, given, edits, reading, reads>>
    BY <1>7 DEF Import, Merge, Commit, keepFiles, keepProposal, fileVars, proposalVars
  <2> QED BY <2>1, <2>2, FilesStill, ReviewStill
<1>8. CASE Close
  <2>1. WindowInv'
    BY <1>8, RendersWindow DEF Close
  <2>2. CASE id # None
    <3>1. ReviewInv' /\ keepFiles
      BY <1>8, <2>2, ClosedReads DEF Close, DiscardProposal
    <3> QED BY <2>1, <3>1, ProposalAlone
  <2>3. CASE id = None
    <3>1. FilesInv' /\ keepProposal
      BY <1>8, <2>3, DiscardKeeps DEF Close
    <3> QED BY <2>1, <3>1, FilesAlone
  <2> QED BY <2>2, <2>3
<1>9. CASE EditStatement
  <2>1. PICK next : Edit(next)
    BY <1>9 DEF EditStatement, Pick, Price
  <2>2. ReviewInv' /\ WindowInv' /\ keepFiles
    BY <1>9, <2>1, EditKeeps, RendersWindow DEF EditStatement
  <2> QED BY <2>2, ProposalAlone
<1>10. ASSUME Turns, NEW files \in Batches, HandOver(files) PROVE JudgedInv'
  <2>1. FilesInv' /\ WindowInv' /\ keepProposal
    BY <1>10, HandKeeps, RendersWindow DEF HandOver, Turns
  <2> QED BY <2>1, FilesAlone
<1>11. ASSUME Turns, NEW proposal \in Proposals, OpenReview(proposal) PROVE JudgedInv'
  <2>1. ReviewInv' /\ WindowInv' /\ keepFiles
    BY <1>11, ReviewKeeps, RendersWindow DEF OpenReview, Turns
  <2> QED BY <2>1, ProposalAlone
<1>12. CASE DismissReceipt
  BY <1>12, FilesStill, ReviewStill, WindowStill DEF DismissReceipt, fileVars, proposalVars
<1>13. CASE AccountsRead
  <2>1. WindowInv' /\ keepFiles /\ keepProposal
    BY <1>13, RendersWindow DEF AccountsRead
  <2> QED BY <2>1, FilesAlone, FilesStill DEF keepFiles, fileVars
<1>14. CASE Answered
  <2>1. WindowInv'
    BY <1>14, RendersWindow DEF Answered
  <2>2. CASE FileAnswered
    <3>1. FilesInv'
      <4>1. ASSUME NEW w \in writings, WriteRefused(w) PROVE FilesInv'
        BY <4>1, FilesStill DEF WriteRefused
      <4>2. ASSUME NEW p \in previews,
                   CensusRead(p) \/ SecondRead(p) \/ SecondRefused(p) \/ CensusRefused(p)
            PROVE  FilesInv'
        BY <4>2, CensusReadKeeps, SecondReadKeeps, CensusRefusedKeeps
      <4> QED BY <2>2, <4>1, <4>2 DEF FileAnswered
    <3> QED BY <2>1, <2>2, <3>1, FilesAlone DEF FileAnswered
  <2>3. CASE ProposalAnswered
    <3>1. ASSUME NEW r \in reads,
                 \/ ProposalRead(r) \/ SecondProposalRead(r) \/ SecondProposalRefused(r)
                 \/ ReadRefused(r)
          PROVE  ReviewInv'
      BY <3>1, ProposalReadKeeps, SecondProposalReadKeeps, ReadRefusedKeeps
    <3>2. ASSUME NEW r \in reads, ReadClosed(r) PROVE ReviewInv'
      BY <3>2, ClosedReads DEF ReadClosed
    <3>3. ASSUME NEW w, MergeLands(w) \/ MergeClosed(w) PROVE ReviewInv'
      BY <3>3, ClosedReads DEF MergeLands, MergeClosed
    <3>4. ASSUME NEW w, MergeRefused(w) PROVE ReviewInv'
      BY <3>4, ReviewStill DEF MergeRefused
    <3>5. ReviewInv'
      BY <2>3, <3>1, <3>2, <3>3, <3>4 DEF ProposalAnswered
    <3> QED BY <2>1, <2>3, <3>5, ProposalAlone DEF ProposalAnswered
  <2>4. ASSUME NEW w \in writings, FileWritten(w) PROVE JudgedInv'
    <3>1. FilesInv'
      BY <2>4, LandedKeeps DEF FileWritten
    <3>2. ReviewInv'
      BY <2>4, ReviewStill DEF FileWritten
    <3> QED BY <2>1, <3>1, <3>2
  <2> QED BY <1>14, <2>2, <2>3, <2>4 DEF Answered
<1>15. CASE DecidedElsewhere
  <2>1. keepFiles /\ UNCHANGED window /\ UNCHANGED <<id, given, edits, reading, reads>>
    BY <1>15 DEF DecidedElsewhere, Elsewhere, windowVars
  <2> QED BY <2>1, ReviewStill, WindowStill, ProposalAlone
<1>16. CASE UNCHANGED vars
  BY <1>16, FilesStill, ReviewStill, WindowStill DEF vars, fileVars, proposalVars, windowVars
<1> QED BY <1>1, <1>2, <1>3, <1>4, <1>5, <1>6, <1>7, <1>8, <1>9, <1>10, <1>11, <1>12, <1>13,
           <1>14, <1>15, <1>16 DEF Next

(* The invariant is about the button: it reads the forecast of the hook it *)
(* sends for, and that hook has nothing in flight.                         *)
LEMMA JudgedHolds ==
    ASSUME JudgedInv PROVE ButtonIsJudged
<1> SUFFICES ASSUME CanImport PROVE forecast.judged = ButtonRequest
  BY DEF ButtonIsJudged
<1>1. Upload.held /\ forecast # None /\ forecast.writing # None /\ ~Upload.pending
  BY DEF CanImport, Ready
<1>2. CASE id # None
  <2>1. forecast = reading /\ ~proposalPending
    BY <1>1, <1>2 DEF forecast, Upload, ProposalReview
  <2>2. reads = {}
    BY <1>2, <2>1 DEF proposalPending, JudgedInv, ReviewInv
  <2> QED BY <1>1, <1>2, <2>1, <2>2 DEF JudgedInv, ReviewInv, ButtonRequest
<1>3. CASE id = None
  <2>1. forecast = fileForecast /\ ~filePending /\ held # <<>>
    BY <1>1, <1>3 DEF forecast, Upload, FileReview
  <2>2. forecast = standing
    BY <1>1, <2>1 DEF fileForecast
  <2>3. previews = {}
    BY <2>1 DEF filePending, previewPending, JudgedInv, FilesInv
  <2> QED BY <1>1, <1>3, <2>1, <2>2, <2>3 DEF JudgedInv, FilesInv, ButtonRequest
<1> QED BY <1>2, <1>3

(* The request judged names the files in hand.                             *)
LEMMA ForecastHolds ==
    ASSUME JudgedInv PROVE ForecastIsOfHeld
<1> SUFFICES ASSUME CanImport, id = None PROVE forecast.judged.subject = held
  BY DEF ForecastIsOfHeld
<1>1. forecast.judged = WriteRequest(held, answer, forecast)
  BY JudgedHolds DEF ButtonIsJudged, ButtonRequest
<1> QED BY <1>1 DEF WriteRequest, importEvents

(* No refusal arrives after the button, of the files or of the proposal    *)
(* (ImportPreview.tsx, the footer): while it is enabled, the request it    *)
(* would send is the one the server accepted, for any number of requests   *)
(* in flight, of a reader who opens the window in turn.                    *)
THEOREM ButtonsAreJudged == Spec /\ InTurn => []ButtonIsJudged
<1>1. Init => JudgedInv
  BY JudgedStart
<1>2. JudgedInv /\ [Next]_vars /\ [Turns]_vars => JudgedInv'
  BY JudgedStep
<1>3. JudgedInv => ButtonIsJudged
  BY JudgedHolds
<1> QED BY <1>1, <1>2, <1>3, PTL DEF Spec, InTurn

(* The forecast on screen describes the files the button would send        *)
(* (UploadZone.tsx, discard), of a reader who opens the window in turn.    *)
THEOREM ForecastsAreOfTheFiles == Spec /\ InTurn => []ForecastIsOfHeld
<1>1. Init => JudgedInv
  BY JudgedStart
<1>2. JudgedInv /\ [Next]_vars /\ [Turns]_vars => JudgedInv'
  BY JudgedStep
<1>3. JudgedInv => ForecastIsOfHeld
  BY ForecastHolds
<1> QED BY <1>1, <1>2, <1>3, PTL DEF Spec, InTurn

-----------------------------------------------------------------------------
(* The accounts a census names are read off the rows before any answer is  *)
(* applied to them (events.py, _run_import: uploads.census).               *)
CensusNames ==
    \A files, correspondence :
        /\ FilesCensus(files, correspondence).names \subseteq Labels
        /\ FilesCensus(files, correspondence).names
               = FilesCensus(files, NO_CORRESPONDENCE).names

Names(files) == FilesCensus(files, NO_CORRESPONDENCE).names

(* What stands about the files in hand, and what a reading in flight has   *)
(* read, name the accounts of their rows, whatever was answered.           *)
NamesInv ==
    /\ \A p \in previews : p.census # None => p.census.names = Names(p.subject)
    /\ held # <<>> /\ standing # None => standing.file.names = Names(held)

(* The window is over one of the hooks, and what can be declared is known. *)
ApartInv ==
    /\ id = None \/ held = <<>>
    /\ declared = None \/ declared \subseteq Declarable

Holding == id # None \/ held # <<>>

(* The answers on screen, and those of them every hook is told.            *)
IsScreen(w) ==
    /\ IsWindow(w)
    /\ DOMAIN w.chosen = Labels
    /\ w.lastFile \in BOOLEAN
    /\ ~w.lastFile => w = Unsaid

Told(w, a) ==
    /\ w.writeDuplicates = a.writeDuplicates
    /\ w.amountsIn = a.amountsIn
    /\ w.collapsed = a.collapsed

(* The accounts chosen are of the rows in hand; each is stated as chosen.  *)
Chosen(w, files) ==
    \A name \in Labels :
        w.chosen[name] # None =>
            name \in Names(files) /\ w.chosen[name] \in Ids \cup {DECLARE}

StatedAs(w, a) ==
    \A name \in Labels :
        w.chosen[name] # None =>
            w.chosen[name] = IF name \in a.correspondence.declaring THEN DECLARE
                             ELSE a.correspondence.mapping[name]

(* The inductive invariant of what is ticked: an answer is on screen from  *)
(* the first forecast of a batch to its end, and the hook was told it.     *)
ScreenInv ==
    /\ IsScreen(window)
    /\ ~Holding => window = Unsaid
    /\ Holding /\ forecast # None => window.lastFile
    /\ id # None => Told(window, given)
    /\ id = None /\ held # <<>> =>
           Told(window, answer) /\ Chosen(window, held) /\ StatedAs(window, answer)

(* The names: a reading asked anew has read nothing, one answered has read *)
(* its files, and a refusal leaves the census that stands.                 *)
LEMMA NamesStill ==
    ASSUME NamesInv, UNCHANGED <<held, standing, previews>> PROVE NamesInv'
BY DEF NamesInv, Names

LEMMA AskedNames ==
    ASSUME FilesInv, NamesInv, previews = {}, NEW files, NEW next, Preview(files, next),
           held' = files, standing' = None \/ (standing' = standing /\ held' = held)
    PROVE  NamesInv'
<1>1. previews' = {Handed(files, next)}
  BY NewPreview
<1>2. \A p \in previews' : p.census = None
  BY <1>1 DEF Handed
<1> QED BY <1>2 DEF NamesInv, Names

LEMMA DiscardedNames ==
    ASSUME FilesInv, NamesInv, Discard PROVE NamesInv'
<1>1. standing' = None /\ previews' = Unseen(previews)
  BY DEF Discard
<1>2. ASSUME NEW p \in previews', p.census # None PROVE p.census.names = Names(p.subject)
  <2>1. PICK f \in previews : p = [f EXCEPT !.seen = FALSE]
    BY <1>1 DEF Unseen
  <2>2. IsPreview(f)
    BY DEF FilesInv
  <2>3. p.census = f.census /\ p.subject = f.subject
    BY <2>1, <2>2 DEF IsPreview
  <2> QED BY <1>2, <2>3 DEF NamesInv
<1> QED BY <1>1, <1>2 DEF NamesInv, Names

LEMMA LandedNames ==
    ASSUME FilesInv, NamesInv, NEW p \in previews, NEW landed, Stands(p, landed),
           held # <<>> => landed.file.names = Names(p.subject)
    PROVE  NamesInv'
<1>1. previews' = previews \ {p} /\ standing' = landed /\ held' = held
  BY DEF Stands
<1>2. held # <<>> => p.subject = held
  BY DEF FilesInv
<1> QED BY <1>1, <1>2 DEF NamesInv, Names

LEMMA AnsweredNames ==
    ASSUME CensusNames, FilesInv, NamesInv, FileAnswered PROVE NamesInv'
<1>1. ASSUME NEW p \in previews, CensusRead(p) PROVE NamesInv'
  <2> DEFINE census == FilesCensus(p.subject, p.answer.correspondence)
             request == CensusRequest(p.subject, p.answer)
             landed == Forecast(census, Written(census, request), FALSE, request)
  <2>1. census.names = Names(p.subject) /\ landed.file = census
    BY DEF CensusNames, Names, Forecast
  <2>2. CASE OneReading(census, p.answer)
    <3>1. Stands(p, landed)
      BY <1>1, <2>2 DEF CensusRead
    <3> HIDE DEF landed
    <3> QED BY <2>1, <3>1, LandedNames
  <2>3. CASE ~OneReading(census, p.answer)
    <3>1. /\ previews' = (previews \ {p}) \cup {[p EXCEPT !.census = census]}
          /\ UNCHANGED <<held, standing>>
      BY <1>1, <2>3 DEF CensusRead
    <3>2. IsPreview(p)
      BY DEF FilesInv
    <3>3. [p EXCEPT !.census = census].census = census
          /\ [p EXCEPT !.census = census].subject = p.subject
      BY <3>2 DEF IsPreview
    <3> HIDE DEF census
    <3> QED BY <2>1, <3>1, <3>3 DEF NamesInv, Names
  <2> QED BY <2>2, <2>3
<1>2. ASSUME NEW p \in previews, SecondRead(p) PROVE NamesInv'
  <2> DEFINE landed == Forecast(p.census, Written(p.census, SecondRequest(p)), FALSE,
                                SecondRequest(p))
  <2>1. Stands(p, landed) /\ landed.file = p.census /\ p.census # None
    BY <1>2 DEF SecondRead, Forecast
  <2> HIDE DEF landed
  <2> QED BY <2>1, LandedNames DEF NamesInv
<1>3. ASSUME NEW p \in previews, SecondRefused(p) PROVE NamesInv'
  <2> DEFINE landed == Forecast(p.census, None, TRUE, None)
  <2>1. Stands(p, landed) /\ landed.file = p.census /\ p.census # None
    BY <1>3 DEF SecondRefused, Forecast
  <2> HIDE DEF landed
  <2> QED BY <2>1, LandedNames DEF NamesInv
<1>4. ASSUME NEW p \in previews, CensusRefused(p) PROVE NamesInv'
  <2>1. previews' = previews \ {p} /\ standing' = WithoutWriting(standing) /\ held' = held
    BY <1>4 DEF CensusRefused
  <2>2. standing' # None => standing # None /\ standing'.file = standing.file
    BY <2>1 DEF WithoutWriting, FilesInv, IsForecast, Forecast
  <2> QED BY <2>1, <2>2 DEF NamesInv, Names
<1>5. ASSUME NEW w \in writings, WriteRefused(w) PROVE NamesInv'
  BY <1>5, NamesStill DEF WriteRefused
<1> QED BY <1>1, <1>2, <1>3, <1>4, <1>5 DEF FileAnswered

LEMMA NamesStep ==
    ASSUME CensusNames, JudgedInv, NamesInv, [Next]_vars, [Turns]_vars PROVE NamesInv'
<1>0. FilesInv
  BY DEF JudgedInv
<1>1. ASSUME NEW next, Reconsider(next) PROVE NamesInv'
  <2>1. previews = {}
    BY <1>0, <1>1 DEF Reconsider, filePending, previewPending, FilesInv
  <2> QED BY <1>0, <1>1, <2>1, AskedNames DEF Reconsider
<1>2. ASSUME keepFiles PROVE NamesInv'
  BY <1>2, NamesStill DEF keepFiles, fileVars
<1>3. ASSUME NEW w, Reconsiders(w) PROVE NamesInv'
  BY <1>1, <1>2, <1>3 DEF Reconsiders
<1>4. ASSUME NEW index, Remove(index) PROVE NamesInv'
  <2>1. Drop(index)
    BY <1>4 DEF Remove
  <2>2. CASE Len(held) = 1
    BY <1>0, <2>1, <2>2, DiscardedNames DEF Drop
  <2>3. CASE Len(held) # 1
    <3>1. previews = {}
      BY <1>0, <2>1 DEF Drop, filePending, previewPending, FilesInv
    <3> QED BY <1>0, <2>1, <2>3, <3>1, AskedNames DEF Drop
  <2> QED BY <2>2, <2>3
<1>5. CASE Import
  BY <1>5, NamesStill DEF Import, Commit, keepFiles, fileVars
<1>6. CASE Close
  BY <1>0, <1>2, <1>6, DiscardedNames DEF Close
<1>7. ASSUME Turns, NEW files \in Batches, HandOver(files) PROVE NamesInv'
  <2>1. previews = {} /\ Hand(files)
    BY <1>7 DEF Turns, HandOver
  <2> QED BY <1>0, <2>1, AskedNames DEF Hand
<1>8. CASE EditStatement \/ (\E proposal \in Proposals : OpenReview(proposal))
           \/ ToggleAdoption \/ DismissReceipt \/ AccountsRead \/ DecidedElsewhere
           \/ UNCHANGED vars
  BY <1>8, NamesStill DEF EditStatement, OpenReview, ToggleAdoption, DismissReceipt,
     AccountsRead, DecidedElsewhere, keepFiles, fileVars, vars
<1>9. CASE Answered
  <2>1. ASSUME NEW w, FileWritten(w) PROVE NamesInv'
    BY <2>1 DEF FileWritten, WriteLands, NamesInv, Names
  <2> QED BY <1>0, <1>2, <1>9, <2>1, AnsweredNames DEF Answered, ProposalAnswered
<1> QED BY <1>3, <1>4, <1>5, <1>6, <1>7, <1>8, <1>9
        DEF Next, AnswerAccount, DecideDuplicates, DecideCurrency, DecideRepeats

(* A batch is handed over, and a proposal opened, on a closed window.      *)
LEMMA ApartStep ==
    ASSUME ApartInv, [Next]_vars PROVE ApartInv'
<1>1. ASSUME NEW w, Reconsiders(w) PROVE ApartInv'
  BY <1>1 DEF Reconsiders, ReconsiderProposal, Reconsider, keepFiles, keepProposal, keepReads,
     fileVars, proposalVars, ApartInv
<1>2. ASSUME NEW index, Remove(index) PROVE ApartInv'
  BY <1>2 DEF Remove, Drop, Discard, keepProposal, keepReads, proposalVars, ApartInv
<1>3. CASE Import
  BY <1>3 DEF Import, Merge, Commit, keepFiles, keepProposal, keepReads, fileVars, proposalVars,
     ApartInv
<1>4. CASE Close
  BY <1>4 DEF Close, DiscardProposal, Closes, Discard, keepFiles, keepProposal, keepReads,
     fileVars, proposalVars, ApartInv
<1>5. CASE EditStatement
  BY <1>5 DEF EditStatement, Pick, Price, Edit, keepFiles, keepReads, fileVars, ApartInv
<1>6. ASSUME NEW files, HandOver(files) PROVE ApartInv'
  <2>1. id = None
    BY <1>6 DEF HandOver, Upload, ProposalReview
  <2> QED BY <1>6, <2>1 DEF HandOver, keepProposal, keepReads, proposalVars, ApartInv
<1>7. ASSUME NEW proposal, OpenReview(proposal) PROVE ApartInv'
  <2>1. held = <<>>
    BY <1>7 DEF OpenReview, Upload, ProposalReview, FileReview
  <2> QED BY <1>7, <2>1 DEF OpenReview, keepFiles, keepReads, fileVars, ApartInv
<1>8. CASE ToggleAdoption \/ DismissReceipt \/ DecidedElsewhere \/ UNCHANGED vars
  BY <1>8 DEF ToggleAdoption, DismissReceipt, DecidedElsewhere, Elsewhere, keepFiles,
     keepProposal, keepReads, fileVars, proposalVars, windowVars, vars, ApartInv
<1>9. CASE AccountsRead
  BY <1>9 DEF AccountsRead, keepFiles, keepProposal, fileVars, proposalVars, ApartInv
<1>10. CASE Answered
  <2>1. UNCHANGED declared /\ (held' = held \/ held' = <<>>) /\ (id' = id \/ id' = None)
    BY <1>10 DEF Answered, FileAnswered, ProposalAnswered, FileWritten, CensusRead, SecondRead,
       SecondRefused, CensusRefused, Stands, WriteRefused, WriteLands, ProposalRead,
       SecondProposalRead, SecondProposalRefused, ReadStands, ReadClosed, ReadRefused,
       MergeLands, MergeClosed, MergeRefused, Closes, keepFiles, keepProposal, keepReads,
       fileVars, proposalVars
  <2> QED BY <2>1 DEF ApartInv
<1> QED BY <1>1, <1>2, <1>3, <1>4, <1>5, <1>6, <1>7, <1>8, <1>9, <1>10
        DEF Next, AnswerAccount, DecideDuplicates, DecideCurrency, DecideRepeats

(* What a render makes of answers that are of a screen.                    *)
LEMMA RendersScreen ==
    ASSUME NEW w, Renders(w), IsScreen(w), ApartInv',
           id' # None => Told(w, given'),
           id' = None /\ held' # <<>> =>
               Told(w, answer') /\ Chosen(w, held') /\ StatedAs(w, answer')
    PROVE  ScreenInv'
<1>1. Upload'.held <=> Holding'
  BY DEF Upload, ProposalReview, FileReview, Holding
<1>2. CASE ~Holding'
  <2>1. window' = Unsaid
    BY <1>1, <1>2 DEF Renders, Rendered, IsScreen, Unsaid
  <2>2. IsScreen(Unsaid)
    BY DEF IsScreen, IsWindow, Unsaid, NothingChosen
  <2>3. IsScreen(window)'
    BY <2>1, <2>2 DEF IsScreen, IsWindow, Unsaid, NothingChosen
  <2> QED BY <1>2, <2>1, <2>3 DEF ScreenInv, Holding, Unsaid, NothingChosen
<1>3. CASE Holding'
  <2>1. window' = IF Upload'.forecast # None /\ ~w.lastFile
                  THEN [w EXCEPT !.lastFile = TRUE] ELSE w
    BY <1>1, <1>3 DEF Renders, Rendered
  <2>2. /\ window'.chosen = w.chosen /\ window'.writeDuplicates = w.writeDuplicates
        /\ window'.amountsIn = w.amountsIn /\ window'.collapsed = w.collapsed
        /\ IsWindow(window')
        /\ window'.lastFile = (w.lastFile \/ Upload'.forecast # None)
    BY <2>1 DEF IsScreen, IsWindow
  <2>3. IsScreen(window)'
    BY <2>1, <2>2 DEF IsScreen, IsWindow, Unsaid, NothingChosen
  <2>4. forecast' # None => window'.lastFile
    BY <2>2 DEF forecast
  <2>5. (Told(w, given') => Told(window, given)') /\ (Told(w, answer') => Told(window, answer)')
    BY <2>2 DEF Told
  <2>6. (Chosen(w, held') => Chosen(window, held)')
        /\ (StatedAs(w, answer') => StatedAs(window, answer)')
    BY <2>2 DEF Chosen, StatedAs, Names
  <2> QED BY <1>3, <2>3, <2>4, <2>5, <2>6 DEF ScreenInv
<1> QED BY <1>2, <1>3

(* A step that tells the hooks nothing, or puts down what they hold.       *)
LEMMA NothingTold ==
    ASSUME ScreenInv, ApartInv, ApartInv', Renders(window),
           (id' = id /\ given' = given) \/ id' = None,
           (held' = held /\ answer' = answer) \/ held' = <<>>
    PROVE  ScreenInv'
BY RendersScreen DEF ScreenInv, ApartInv

LEMMA ScreenStill ==
    ASSUME ScreenInv, UNCHANGED <<window, id, given, held, answer, standing, reading, written>>,
           forecast' = forecast
    PROVE  ScreenInv'
BY DEF ScreenInv, IsScreen, IsWindow, Unsaid, Holding, Told, Chosen, StatedAs, Names

(* Nothing said is what a hook starts from.                                *)
LEMMA UnsaidTold ==
    ASSUME NEW last \in BOOLEAN, NEW w, w \in {Unsaid, [Unsaid EXCEPT !.lastFile = last]},
           NEW files
    PROVE  IsScreen(w) /\ Told(w, NO_ANSWER) /\ Chosen(w, files) /\ StatedAs(w, NO_ANSWER)
<1>1. CASE w = Unsaid
  BY <1>1 DEF Unsaid, IsScreen, IsWindow, Told, NO_ANSWER, Answer, Chosen, StatedAs,
     NothingChosen
<1>2. CASE w = [Unsaid EXCEPT !.lastFile = last]
  BY <1>2 DEF Unsaid, IsScreen, IsWindow, Told, NO_ANSWER, Answer, Chosen, StatedAs,
     NothingChosen
<1> QED BY <1>1, <1>2

(* An answer given is told as it is on screen.                             *)
LEMMA AnswersTold ==
    ASSUME CensusNames, NamesInv, ScreenInv, ApartInv, ApartInv', NEW w, Ready,
           Reconsiders(w), IsScreen(w), id = None => Chosen(w, held)
    PROVE  ScreenInv'
<1> DEFINE next == Answer(correspondenceOf(linesUnder(w.chosen)), w.writeDuplicates,
                          w.amountsIn, w.collapsed)
<1>1. Renders(w) /\ Told(w, next)
  BY DEF Reconsiders, Told, Answer
<1>2. CASE id # None
  <2>1. id' = id /\ given' = next /\ held' = held
    BY <1>2 DEF Reconsiders, ReconsiderProposal, keepFiles, fileVars
  <2>2. held = <<>>
    BY <1>2 DEF ApartInv
  <2> HIDE DEF next
  <2> QED BY <1>1, <1>2, <2>1, <2>2, RendersScreen
<1>3. CASE id = None
  <2>1. id' = id /\ answer' = next /\ held' = held /\ held # <<>>
    BY <1>3 DEF Reconsiders, Reconsider, keepProposal, proposalVars
  <2>2. forecast # None /\ forecast.file.names = Names(held)
    <3>1. forecast # None /\ forecast = fileForecast
      BY <1>3 DEF Ready, forecast, Upload, FileReview
    <3>2. forecast = standing
      BY <3>1 DEF fileForecast
    <3> QED BY <2>1, <3>1, <3>2 DEF NamesInv
  <2>3. linesUnder(w.chosen) = [name \in Names(held) |->
            IF w.chosen[name] # None THEN w.chosen[name] ELSE OwnTarget(name, declared)]
    BY <2>2 DEF linesUnder, accountLines
  <2>4. ASSUME NEW name \in Labels, w.chosen[name] # None
        PROVE  w.chosen[name] = IF name \in next.correspondence.declaring THEN DECLARE
                                ELSE next.correspondence.mapping[name]
    <3> DEFINE all == linesUnder(w.chosen)
    <3>1. name \in Names(held) /\ w.chosen[name] \in Ids \cup {DECLARE}
      BY <1>3, <2>4 DEF Chosen
    <3>2. DOMAIN all = Names(held) /\ all[name] = w.chosen[name]
      BY <2>3, <2>4, <3>1
    <3> HIDE DEF all
    <3>3. next.correspondence = correspondenceOf(all)
      BY DEF Answer, all
    <3>4. name \in correspondenceOf(all).declaring <=> all[name] = DECLARE
      BY <3>1, <3>2 DEF correspondenceOf
    <3>5. all[name] \in Ids => correspondenceOf(all).mapping[name] = all[name]
      BY <3>1, <3>2 DEF correspondenceOf
    <3> HIDE DEF next
    <3> QED BY <3>1, <3>2, <3>3, <3>4, <3>5
  <2> HIDE DEF next
  <2>5. StatedAs(w, next)
    BY <2>4 DEF StatedAs
  <2> QED BY <1>1, <1>3, <2>1, <2>5, RendersScreen
<1> QED BY <1>2, <1>3

LEMMA ScreenStep ==
    ASSUME CensusNames, NamesInv, ApartInv, ApartInv', ScreenInv, [Next]_vars
    PROVE  ScreenInv'
<1>0. Ready => window.lastFile /\ Holding
  BY DEF Ready, Upload, ProposalReview, FileReview, Holding, ScreenInv
<1>1. ASSUME NEW name \in Labels, NEW target, AnswerAccount(name, target) PROVE ScreenInv'
  <2> DEFINE w == [window EXCEPT !.chosen[name] = target]
  <2>1. Ready /\ Reconsiders(w) /\ name \in DOMAIN lines /\ target \in AccountChoices(name)
    BY <1>1 DEF AnswerAccount
  <2>2. IsScreen(w)
    BY <1>0, <2>1 DEF ScreenInv, IsScreen, IsWindow
  <2>3. ASSUME id = None PROVE Chosen(w, held)
    <3>1. held # <<>> /\ Chosen(window, held)
      BY <1>0, <2>1, <2>3 DEF Holding, ScreenInv
    <3>2. forecast = standing /\ forecast # None
      BY <2>1, <2>3 DEF Ready, forecast, Upload, FileReview, fileForecast
    <3>3. DOMAIN lines = Names(held)
      BY <3>1, <3>2 DEF NamesInv, lines, linesUnder, accountLines
    <3>4. target \in Ids \cup {DECLARE}
      BY <2>1 DEF AccountChoices, Ready, ApartInv, Ids
    <3>5. w.chosen = [window.chosen EXCEPT ![name] = target]
      BY DEF ScreenInv, IsScreen, IsWindow
    <3> HIDE DEF w
    <3> QED BY <2>1, <3>1, <3>3, <3>4, <3>5 DEF Chosen, ScreenInv, IsScreen
  <2> HIDE DEF w
  <2> QED BY <2>1, <2>2, <2>3, AnswersTold
<1>2. ASSUME NEW w, Ready, Reconsiders(w),
             \/ w = [window EXCEPT !.writeDuplicates = ~@]
             \/ \E value : w = [window EXCEPT !.amountsIn = value]
             \/ \E next : w = [window EXCEPT !.collapsed = next]
      PROVE  ScreenInv'
  <2>1. IsScreen(w) /\ w.chosen = window.chosen
    BY <1>0, <1>2 DEF ScreenInv, IsScreen, IsWindow
  <2>2. id = None => Chosen(w, held)
    BY <1>0, <1>2, <2>1 DEF ScreenInv, Holding, Chosen
  <2> QED BY <1>2, <2>1, <2>2, AnswersTold
<1>3. CASE ToggleAdoption
  <2>1. window' = [window EXCEPT !.adoptCurrency = ~@] /\ Ready
        /\ UNCHANGED <<id, given, held, answer>>
    BY <1>3 DEF ToggleAdoption, keepFiles, keepProposal, fileVars, proposalVars
  <2>2. IsScreen(window)'
    BY <1>0, <2>1 DEF ScreenInv, IsScreen, IsWindow
  <2>3. Holding' /\ window'.lastFile
    BY <1>0, <2>1 DEF ScreenInv, IsScreen, IsWindow, Holding
  <2>4. (id = None /\ held # <<>> =>
           Told(window, answer) /\ Chosen(window, held) /\ StatedAs(window, answer))'
        /\ (id # None => Told(window, given))'
    <3>1. window'.chosen = window.chosen /\ window'.writeDuplicates = window.writeDuplicates
          /\ window'.amountsIn = window.amountsIn /\ window'.collapsed = window.collapsed
      BY <2>1 DEF ScreenInv, IsScreen, IsWindow
    <3> QED BY <2>1, <3>1 DEF ScreenInv, Told, Chosen, StatedAs, Names
  <2> QED BY <2>2, <2>3, <2>4 DEF ScreenInv
<1>4. ASSUME NEW index, Remove(index) PROVE ScreenInv'
  <2> DEFINE w == forgetAnswers(window)
  <2>1. Renders(w) /\ id = None /\ id' = id /\ Drop(index)
    BY <1>4 DEF Remove, keepProposal, proposalVars
  <2>2. w = [Unsaid EXCEPT !.lastFile = window.lastFile] /\ window.lastFile \in BOOLEAN
    BY DEF forgetAnswers, ScreenInv, IsScreen
  <2>3. answer' = NO_ANSWER
    BY <2>1 DEF Drop, Discard
  <2> HIDE DEF w
  <2>4. PICK files : files = held'
    OBVIOUS
  <2>5. IsScreen(w) /\ Told(w, NO_ANSWER) /\ Chosen(w, files) /\ StatedAs(w, NO_ANSWER)
    BY <2>2, UnsaidTold
  <2> QED BY <2>1, <2>3, <2>4, <2>5, RendersScreen
<1>5. CASE Import
  BY <1>5, NothingTold DEF Import, Merge, Commit, keepFiles, keepProposal, fileVars, proposalVars
<1>6. CASE Close
  BY <1>6, NothingTold DEF Close, DiscardProposal, Closes, Discard, keepFiles, keepProposal,
     fileVars, proposalVars
<1>7. CASE EditStatement
  BY <1>7, NothingTold DEF EditStatement, Pick, Price, Edit, keepFiles, fileVars
<1>8. ASSUME NEW files \in Batches, HandOver(files) PROVE ScreenInv'
  <2>1. ~Holding /\ window = Unsaid
    BY <1>8 DEF HandOver, Upload, ProposalReview, FileReview, Holding, ScreenInv
  <2>2. Renders(window) /\ id' = id /\ held' = files /\ answer' = NO_ANSWER
    BY <1>8 DEF HandOver, Hand, keepProposal, proposalVars
  <2>3. IsScreen(window) /\ Told(window, NO_ANSWER) /\ Chosen(window, files)
        /\ StatedAs(window, NO_ANSWER)
    BY <2>1, UnsaidTold
  <2> QED BY <2>1, <2>2, <2>3, RendersScreen DEF Holding
<1>9. ASSUME NEW proposal, OpenReview(proposal) PROVE ScreenInv'
  <2>1. ~Holding /\ window = Unsaid
    BY <1>9 DEF OpenReview, Upload, ProposalReview, FileReview, Holding, ScreenInv
  <2>2. Renders(window) /\ held' = held /\ given' = NO_ANSWER
    BY <1>9 DEF OpenReview, Review, keepFiles, fileVars
  <2>3. Told(window, NO_ANSWER) /\ IsScreen(window)
    BY <2>1 DEF Told, NO_ANSWER, Answer, Unsaid, ScreenInv
  <2> QED BY <2>1, <2>2, <2>3, RendersScreen DEF Holding
<1>10. CASE AccountsRead
  BY <1>10, NothingTold DEF AccountsRead, keepFiles, keepProposal, fileVars, proposalVars
<1>11. CASE Answered
  <2>1. Renders(window)
    BY <1>11 DEF Answered
  <2>2. (id' = id /\ given' = given) \/ id' = None
    BY <1>11 DEF Answered, FileAnswered, ProposalAnswered, FileWritten, ProposalRead,
       SecondProposalRead, SecondProposalRefused, ReadStands, ReadClosed, ReadRefused,
       MergeLands, MergeClosed, MergeRefused, Closes, keepProposal, proposalVars
  <2>3. (held' = held /\ answer' = answer) \/ held' = <<>>
    BY <1>11 DEF Answered, FileAnswered, ProposalAnswered, FileWritten, CensusRead, SecondRead,
       SecondRefused, CensusRefused, Stands, WriteRefused, WriteLands, keepFiles, fileVars
  <2> QED BY <2>1, <2>2, <2>3, NothingTold
<1>12. CASE DismissReceipt \/ DecidedElsewhere \/ UNCHANGED vars
  <2>1. UNCHANGED <<window, id, given, fileVars, reading>>
    BY <1>12 DEF DismissReceipt, DecidedElsewhere, Elsewhere, keepFiles, windowVars, proposalVars,
       vars
  <2>2. UNCHANGED <<held, answer, standing, written>> /\ forecast' = forecast
    BY <2>1 DEF fileVars, forecast, Upload, ProposalReview, FileReview, fileForecast, writePending
  <2> QED BY <2>1, <2>2, ScreenStill
<1> QED BY <1>1, <1>2, <1>3, <1>4, <1>5, <1>6, <1>7, <1>8, <1>9, <1>10, <1>11, <1>12
        DEF Next, DecideDuplicates, DecideCurrency, DecideRepeats

LEMMA ScreenStart ==
    ASSUME Init PROVE NamesInv /\ ApartInv /\ ScreenInv
<1>1. NamesInv /\ ApartInv
  BY DEF Init, FileInit, ProposalInit, NamesInv, ApartInv
<1>2. IsScreen(window)
  BY UnsaidTold DEF Init
<1> QED BY <1>1, <1>2 DEF Init, FileInit, ProposalInit, ScreenInv, Holding

(* At rest the answers on screen are those the hook was told.              *)
LEMMA ScreenHolds ==
    ASSUME CensusNames, NamesInv, ScreenInv PROVE ScreenIsSent
<1> SUFFICES ASSUME Ready, ~Upload.pending PROVE ScreenIsSent
  BY DEF ScreenIsSent
<1>1. Holding
  BY DEF Ready, Upload, ProposalReview, FileReview, Holding
<1>2. CASE id # None
  BY <1>2 DEF ScreenInv, Told, ScreenIsSent
<1>3. CASE id = None
  <2>1. Told(window, answer) /\ StatedAs(window, answer) /\ held # <<>>
    BY <1>1, <1>3 DEF ScreenInv, Holding
  <2>2. forecast = standing /\ forecast # None
    BY <1>3 DEF Ready, forecast, Upload, FileReview, fileForecast
  <2>3. forecast.file.names \subseteq Labels
    BY <2>1, <2>2 DEF NamesInv, Names, CensusNames
  <2>4. DOMAIN lines = forecast.file.names
        /\ \A name \in DOMAIN lines :
               window.chosen[name] # None => lines[name] = window.chosen[name]
    BY <2>2 DEF lines, linesUnder, accountLines
  <2>5. \A name \in DOMAIN lines :
            window.chosen[name] # None =>
                lines[name] = IF name \in answer.correspondence.declaring THEN DECLARE
                              ELSE answer.correspondence.mapping[name]
    BY <2>1, <2>3, <2>4 DEF StatedAs
  <2> QED BY <1>3, <2>1, <2>5 DEF ScreenIsSent, Told
<1> QED BY <1>2, <1>3

(* What is ticked is what is sent (ImportPreview.tsx, forgetAnswers;       *)
(* UploadZone.tsx, reconsider): no answer outlives its batch, and none is  *)
(* on screen that the next request leaves out, of a reader who opens the   *)
(* window in turn.                                                         *)
THEOREM ScreensAreSent ==
    ASSUME CensusNames PROVE Spec /\ InTurn => []ScreenIsSent
<1>1. Init => JudgedInv /\ NamesInv /\ ApartInv /\ ScreenInv
  BY JudgedStart, ScreenStart
<1>2. JudgedInv /\ NamesInv /\ ApartInv /\ ScreenInv /\ [Next]_vars /\ [Turns]_vars
        => (JudgedInv /\ NamesInv /\ ApartInv /\ ScreenInv)'
  BY JudgedStep, NamesStep, ApartStep, ScreenStep
<1>3. NamesInv /\ ScreenInv => ScreenIsSent
  BY ScreenHolds
<1> QED BY <1>1, <1>2, <1>3, PTL DEF Spec, InTurn

-----------------------------------------------------------------------------
(* The absence of a receipt is neither a sentence nor a receipt.           *)
NoneIsNoReceipt ==
    /\ None # "import.written"
    /\ \A number, subject, rows :
           None # [number |-> number, subject |-> subject, rows |-> rows]

(* The shape of a write in flight, and of a receipt: one given already.    *)
IsWriting(w) ==
    w = [request |-> w.request, declineCurrency |-> w.declineCurrency, foreign |-> w.foreign,
         census |-> w.census, seen |-> w.seen]

IsEarlier(receipt) == receipt # None => receipt.number \in Nat /\ receipt.number <= imports

(* A write the hook still listens to has no other to speak over.           *)
Speaks(w) ==
    /\ written = None
    /\ \A p \in previews : ~p.seen
    /\ \A v \in writings : v.seen => v = w

(* The inductive invariant of the receipts: dismissed and written are of   *)
(* earlier imports, so that the next number is new.                        *)
SayInv ==
    /\ imports \in Nat
    /\ IsEarlier(written)
    /\ IsEarlier(dismissed)
    /\ \A p \in previews : IsPreview(p)
    /\ \A w \in writings : IsWriting(w) /\ (w.seen => Speaks(w))

(* Letting go of requests keeps their shape.                               *)
LEMMA UnseenPreviews ==
    ASSUME \A p \in previews : IsPreview(p)
    PROVE  \A p \in Unseen(previews) : IsPreview(p) /\ ~p.seen
<1> SUFFICES ASSUME NEW p \in Unseen(previews) PROVE IsPreview(p) /\ ~p.seen
  OBVIOUS
<1>1. PICK f \in previews : p = [f EXCEPT !.seen = FALSE]
  BY DEF Unseen
<1>2. IsPreview(f)
  OBVIOUS
<1>3. p = [subject |-> f.subject, answer |-> f.answer, census |-> f.census, seen |-> FALSE]
  BY <1>1, <1>2 DEF IsPreview
<1> QED BY <1>3 DEF IsPreview

LEMMA UnseenWritings ==
    ASSUME \A w \in writings : IsWriting(w)
    PROVE  \A w \in Unseen(writings) : IsWriting(w) /\ ~w.seen
<1> SUFFICES ASSUME NEW w \in Unseen(writings) PROVE IsWriting(w) /\ ~w.seen
  OBVIOUS
<1>1. PICK f \in writings : w = [f EXCEPT !.seen = FALSE]
  BY DEF Unseen
<1>2. IsWriting(f)
  OBVIOUS
<1>3. w = [request |-> f.request, declineCurrency |-> f.declineCurrency, foreign |-> f.foreign,
           census |-> f.census, seen |-> FALSE]
  BY <1>1, <1>2 DEF IsWriting
<1> QED BY <1>3 DEF IsWriting

(* Each operation of the hook keeps SayInv.                                *)
LEMMA SayStill ==
    ASSUME SayInv, UNCHANGED <<previews, writings, written, imports, dismissed>> PROVE SayInv'
BY DEF SayInv, IsEarlier, IsPreview, IsWriting, Speaks

LEMMA PreviewsShape ==
    ASSUME SayInv, NEW files, NEW next, Preview(files, next)
    PROVE  \A p \in previews' : IsPreview(p)
<1>1. IsPreview(Handed(files, next))
  BY DEF IsPreview, Handed
<1>2. \A p \in Unseen(previews) : IsPreview(p)
  BY UnseenPreviews DEF SayInv
<1> QED BY <1>1, <1>2 DEF Preview

(* write.reset() lets go of the writes and of the receipt.                 *)
LEMMA AnewSays ==
    ASSUME SayInv, WriteReset, \A p \in previews' : IsPreview(p), UNCHANGED <<imports, dismissed>>
    PROVE  SayInv'
<1>1. \A w \in writings' : IsWriting(w) /\ ~w.seen
  BY UnseenWritings DEF SayInv, WriteReset
<1>2. imports' \in Nat /\ IsEarlier(dismissed)' /\ IsEarlier(written)'
  BY DEF SayInv, WriteReset, IsEarlier
<1> QED BY <1>1, <1>2 DEF SayInv

LEMMA DiscardSays ==
    ASSUME SayInv, Discard, UNCHANGED dismissed PROVE SayInv'
<1>1. \A p \in previews' : IsPreview(p)
  BY UnseenPreviews DEF SayInv, Discard
<1> QED BY <1>1, AnewSays DEF Discard

LEMMA HandSays ==
    ASSUME SayInv, NEW files, Hand(files), UNCHANGED dismissed PROVE SayInv'
<1>1. \A p \in previews' : IsPreview(p)
  BY PreviewsShape DEF Hand
<1> QED BY <1>1, AnewSays DEF Hand

LEMMA DropSays ==
    ASSUME SayInv, NEW index, Drop(index), UNCHANGED dismissed PROVE SayInv'
<1>1. CASE Len(held) = 1
  BY <1>1, DiscardSays DEF Drop
<1>2. CASE Len(held) # 1
  <2>1. \A p \in previews' : IsPreview(p)
    BY <1>2, PreviewsShape DEF Drop
  <2> QED BY <1>2, <2>1, AnewSays DEF Drop
<1> QED BY <1>1, <1>2

LEMMA ReconsiderSays ==
    ASSUME SayInv, NEW next, Reconsider(next), UNCHANGED dismissed PROVE SayInv'
<1>1. \A p \in previews' : IsPreview(p)
  BY PreviewsShape DEF Reconsider
<1>2. UNCHANGED <<writings, written, imports>> /\ (\A w \in writings : ~w.seen)
  BY DEF Reconsider, filePending, writePending
<1> QED BY <1>1, <1>2 DEF SayInv, IsEarlier

(* A write starts with nothing said and nothing else listened to.          *)
LEMMA CommitSays ==
    ASSUME SayInv, NEW decline, Commit(decline), UNCHANGED dismissed PROVE SayInv'
<1> DEFINE sent == [request |-> WriteRequest(held, answer, standing),
                    declineCurrency |-> decline,
                    foreign |-> IF answer.amountsIn # None THEN standing.file.foreign ELSE {},
                    census |-> standing.file,
                    seen |-> TRUE]
<1>1. writings' = Unseen(writings) \cup {sent} /\ written' = None
      /\ UNCHANGED <<previews, imports>>
  BY DEF Commit
<1>2. IsWriting(sent) /\ sent.seen
  BY DEF IsWriting
<1> HIDE DEF sent
<1>3. \A w \in Unseen(writings) : IsWriting(w) /\ ~w.seen
  BY UnseenWritings DEF SayInv
<1>4. \A p \in previews' : IsPreview(p) /\ ~p.seen
  BY <1>1 DEF Commit, filePending, previewPending, SayInv
<1>5. \A w \in writings' : IsWriting(w) /\ (w.seen => Speaks(w)')
  BY <1>1, <1>2, <1>3, <1>4 DEF Speaks
<1> QED BY <1>1, <1>4, <1>5 DEF SayInv, IsEarlier

LEMMA PreviewAnsweredSays ==
    ASSUME SayInv, NEW p \in previews,
           CensusRead(p) \/ SecondRead(p) \/ SecondRefused(p) \/ CensusRefused(p),
           UNCHANGED dismissed
    PROVE  SayInv'
<1>1. UNCHANGED <<writings, written, imports>>
  BY DEF CensusRead, SecondRead, SecondRefused, CensusRefused, Stands
<1>2. PICK census : previews' \in {previews \ {p},
(previews \ {p}) \cup {[p EXCEPT !.census = census]}}
  BY DEF CensusRead, SecondRead, SecondRefused, CensusRefused, Stands
<1>3. IsPreview([p EXCEPT !.census = census]) /\ [p EXCEPT !.census = census].seen = p.seen
  BY DEF SayInv, IsPreview
<1>4. \A q \in previews' : IsPreview(q) /\ (q.seen => \E f \in previews : f.seen)
  BY <1>2, <1>3 DEF SayInv
<1>5. \A w \in writings' : IsWriting(w) /\ (w.seen => Speaks(w)')
  BY <1>1, <1>4 DEF SayInv, Speaks
<1> QED BY <1>1, <1>4, <1>5 DEF SayInv, IsEarlier

(* A receipt carries the number of its import.                             *)
LEMMA WriteAnsweredSays ==
    ASSUME SayInv, NEW w \in writings, WriteLands(w) \/ WriteRefused(w), UNCHANGED dismissed
    PROVE  SayInv'
<1>1. writings' = writings \ {w} /\ previews' = previews
  BY DEF WriteLands, WriteRefused
<1>2. imports' \in {imports, imports + 1} /\ imports \in Nat
  BY DEF WriteLands, WriteRefused, SayInv
<1>3. ASSUME NEW v \in writings' PROVE IsWriting(v) /\ (v.seen => Speaks(v)')
  <2>1. v \in writings /\ v # w
    BY <1>1
  <2>2. v.seen => ~w.seen
    BY <2>1 DEF SayInv, Speaks
  <2>3. ~w.seen => written' = written
    BY DEF WriteLands, WriteRefused
  <2> QED BY <1>1, <2>1, <2>2, <2>3 DEF SayInv, Speaks
<1>4. IsEarlier(written)'
  <2>1. CASE UNCHANGED written
    BY <1>2, <2>1 DEF IsEarlier, SayInv
  <2>2. CASE written' # written
    <3>1. WriteLands(w) /\ w.seen
      BY <2>2 DEF WriteLands, WriteRefused
    <3>2. imports' = imports + 1
          /\ written' = [number |-> imports + 1, subject |-> w.request.subject,
                         rows |-> Written(w.census, w.request)]
      BY <3>1 DEF WriteLands
    <3>3. written'.number = imports + 1
      BY <3>2
    <3> QED BY <1>2, <3>2, <3>3 DEF IsEarlier
  <2> QED BY <2>1, <2>2
<1>5. IsEarlier(dismissed)'
  BY <1>2 DEF IsEarlier, SayInv
<1> QED BY <1>1, <1>2, <1>3, <1>4, <1>5 DEF SayInv

(* The invariant holds at first, and a step keeps it.                      *)
LEMMA SayStart ==
    ASSUME Init PROVE SayInv
BY DEF Init, FileInit, SayInv, IsEarlier

LEMMA SayStep ==
    ASSUME SayInv, [Next]_vars PROVE SayInv'
<1>1. ASSUME NEW w, Reconsiders(w) PROVE SayInv'
  <2>1. (keepFiles \/ \E next : Reconsider(next)) /\ keepReads
    BY <1>1 DEF Reconsiders
  <2> QED BY <2>1, ReconsiderSays, SayStill DEF keepFiles, keepReads, fileVars
<1>2. CASE ToggleAdoption
  BY <1>2, SayStill DEF ToggleAdoption, keepFiles, keepReads, fileVars
<1>3. ASSUME NEW index, Remove(index) PROVE SayInv'
  BY <1>3, DropSays DEF Remove, keepReads
<1>4. CASE Import
  <2>1. (keepFiles \/ \E decline : Commit(decline)) /\ UNCHANGED dismissed
    BY <1>4 DEF Import, keepReads
  <2> QED BY <2>1, CommitSays, SayStill DEF keepFiles, fileVars
<1>5. CASE Close
  <2>1. (keepFiles \/ Discard) /\ UNCHANGED dismissed
    BY <1>5 DEF Close, keepReads
  <2> QED BY <2>1, DiscardSays, SayStill DEF keepFiles, fileVars
<1>6. CASE EditStatement
  BY <1>6, SayStill DEF EditStatement, keepFiles, keepReads, fileVars
<1>7. ASSUME NEW files, HandOver(files) PROVE SayInv'
  BY <1>7, HandSays DEF HandOver, keepReads
<1>8. ASSUME NEW proposal, OpenReview(proposal) PROVE SayInv'
  BY <1>8, SayStill DEF OpenReview, keepFiles, keepReads, fileVars
<1>9. CASE DismissReceipt
  <2>1. dismissed' = written /\ UNCHANGED <<previews, writings, written, imports>>
    BY <1>9 DEF DismissReceipt, UploadReceipt, fileReceipt, fileVars
  <2> QED BY <2>1 DEF SayInv, IsEarlier, Speaks
<1>10. CASE AccountsRead
  BY <1>10, SayStill DEF AccountsRead, keepFiles, fileVars
<1>11. CASE Answered
  <2>1. UNCHANGED dismissed
    BY <1>11 DEF Answered, keepReads
  <2>2. CASE FileAnswered
    BY <2>1, <2>2, PreviewAnsweredSays, WriteAnsweredSays DEF FileAnswered
  <2>3. CASE ProposalAnswered
    BY <2>1, <2>3, SayStill DEF ProposalAnswered, keepFiles, fileVars
  <2>4. ASSUME NEW w \in writings, FileWritten(w) PROVE SayInv'
    BY <2>1, <2>4, WriteAnsweredSays DEF FileWritten
  <2> QED BY <1>11, <2>2, <2>3, <2>4 DEF Answered
<1>12. CASE DecidedElsewhere
  BY <1>12, SayStill DEF DecidedElsewhere, keepFiles, fileVars, windowVars
<1>13. CASE UNCHANGED vars
  BY <1>13, SayStill DEF vars, fileVars, windowVars
<1> QED BY <1>1, <1>2, <1>3, <1>4, <1>5, <1>6, <1>7, <1>8, <1>9, <1>10, <1>11, <1>12, <1>13
        DEF Next, AnswerAccount, DecideDuplicates, DecideCurrency, DecideRepeats

(* A write that lands while it is listened to shows its receipt, which no  *)
(* earlier dismissal hides.                                                *)
LEMMA LandsAloud ==
    ASSUME NoneIsNoReceipt, SayInv, NEW w \in writings, w.seen, WriteLands(w), UNCHANGED dismissed
    PROVE  UploadReceipt' # None /\ fileReceipt' # fileReceipt
<1>1. fileReceipt = None
  BY DEF fileReceipt, filePending, writePending
<1>2. written' = [number |-> imports + 1, subject |-> w.request.subject,
                  rows |-> Written(w.census, w.request)]
  BY DEF WriteLands
<1>3. ~filePending'
  BY DEF filePending, previewPending, writePending, WriteLands, SayInv, Speaks
<1>4. fileReceipt' = written' /\ written' # None
  BY <1>2, <1>3 DEF fileReceipt, NoneIsNoReceipt
<1>5. dismissed' # written'
  BY <1>2, <1>4 DEF SayInv, IsEarlier
<1>6. \A rows : receiptMessage(TRUE, FALSE, rows, 0) = "import.written"
  BY DEF receiptMessage
<1> QED BY <1>1, <1>4, <1>5, <1>6 DEF UploadReceipt, NoneIsNoReceipt

(* Only a write that lands adds an import.                                 *)
LEMMA ImportsLand ==
    ASSUME [Next]_vars, imports' # imports
    PROVE  UNCHANGED dismissed /\ \E w \in writings : WriteLands(w)
<1>1. ASSUME NEW w \in writings, FileWritten(w) PROVE WriteLands(w)
  BY <1>1 DEF FileWritten
<1> QED
  BY <1>1 DEF Next, vars, fileVars, AnswerAccount, DecideDuplicates, DecideCurrency, DecideRepeats,
     Reconsiders, ToggleAdoption, Remove, Import, Close, EditStatement, HandOver, OpenReview,
     DismissReceipt, AccountsRead, Answered, DecidedElsewhere, keepFiles, keepReads, FileAnswered,
     ProposalAnswered, Hand, Discard, Drop, Reconsider, Commit, CensusRead, SecondRead,
     SecondRefused,
     CensusRefused, Stands, WriteRefused

(* Every import whose window was not closed on it says its own sentence,   *)
(* whatever was dismissed before (UploadZone.tsx, UploadReceipt).          *)
THEOREM ImportsAreSaid ==
    ASSUME NoneIsNoReceipt PROVE Spec => EveryImportSays
<1>1. Init => SayInv
  BY SayStart
<1>2. SayInv /\ [Next]_vars => SayInv'
  BY SayStep
<1>3. SayInv /\ [Next]_vars
        => [\A w \in writings \ writings' :
               w.seen /\ imports' # imports
                   => UploadReceipt' # None /\ fileReceipt' # fileReceipt]_vars
  <2> SUFFICES ASSUME SayInv, [Next]_vars, NEW w \in writings \ writings', w.seen,
                      imports' # imports
               PROVE  UploadReceipt' # None /\ fileReceipt' # fileReceipt
    OBVIOUS
  <2>1. UNCHANGED dismissed
    BY ImportsLand
  <2>2. PICK v \in writings : WriteLands(v)
    BY ImportsLand
  <2>3. w = v
    BY <2>2 DEF WriteLands
  <2> QED BY <2>1, <2>2, <2>3, LandsAloud
<1> QED BY <1>1, <1>2, <1>3, PTL DEF Spec, EveryImportSays

-----------------------------------------------------------------------------
(* A reading carries its own proposal, in flight and once it stands.       *)
ReadingInv ==
    /\ \A r \in reads : IsRead(r) /\ r.subject.proposal = r.proposal
    /\ reading = None \/ IsForecast(reading)
    /\ ReadingIsOfItsProposal

(* Each operation of the hook keeps ReadingInv.                            *)
LEMMA ReadingStill ==
    ASSUME ReadingInv, UNCHANGED <<id, reading, reads>> PROVE ReadingInv'
BY DEF ReadingInv, IsRead, IsForecast, ReadingIsOfItsProposal

LEMMA LetGoReads ==
    ASSUME ReadingInv, NEW some \in SUBSET reads
    PROVE  \A r \in LetGo(some) : IsRead(r) /\ r.subject.proposal = r.proposal
<1> SUFFICES ASSUME NEW r \in LetGo(some) PROVE IsRead(r) /\ r.subject.proposal = r.proposal
  OBVIOUS
<1>1. PICK f \in some : r = [f EXCEPT !.seen = FALSE]
  BY DEF LetGo
<1>2. IsRead(f) /\ f.subject.proposal = f.proposal
  BY DEF ReadingInv
<1>3. r = [proposal |-> f.proposal, subject |-> f.subject, answer |-> f.answer,
           census |-> f.census, seen |-> FALSE]
  BY <1>1, <1>2 DEF IsRead
<1> QED BY <1>2, <1>3 DEF IsRead

LEMMA NothingRead ==
    ASSUME ReadingInv, reading' = None,
           \A r \in reads' : IsRead(r) /\ r.subject.proposal = r.proposal
    PROVE  ReadingInv'
BY DEF ReadingInv, ReadingIsOfItsProposal

LEMMA ReadAsks ==
    ASSUME ReadingInv, NEW proposal, NEW next, NEW edited, Read(proposal, next, edited)
    PROVE  \A r \in reads' : IsRead(r) /\ r.subject.proposal = r.proposal
<1> DEFINE read == [proposal |-> proposal, subject |-> Subject(proposal, edited),
                    answer |-> Sent(next), census |-> None, seen |-> TRUE]
<1>1. reads' = LetGo(reads) \cup {read}
  BY DEF Read
<1>2. IsRead(read) /\ read.subject.proposal = read.proposal
  BY DEF IsRead, Subject
<1> HIDE DEF read
<1> QED BY <1>1, <1>2, LetGoReads

LEMMA RereadOf ==
    ASSUME ReadingInv, NEW proposal, NEW next, NEW edited, Read(proposal, next, edited),
           UNCHANGED <<id, reading>>
    PROVE  ReadingInv'
<1>1. \A r \in reads' : IsRead(r) /\ r.subject.proposal = r.proposal
  BY ReadAsks
<1> QED BY <1>1 DEF ReadingInv, IsForecast, ReadingIsOfItsProposal

(* A reading that lands stands if the address still names its proposal.    *)
LEMMA StandsIfItsOwn ==
    ASSUME ReadingInv, NEW r \in reads, NEW landed, ReadStands(r, landed), IsForecast(landed),
           landed.judged # None => landed.judged.subject = r.subject
    PROVE  ReadingInv'
<1>1. \A q \in reads' : IsRead(q) /\ q.subject.proposal = q.proposal
  BY DEF ReadStands, ReadingInv
<1>2. id' = id /\ reading' = IF r.proposal = id THEN landed ELSE reading
  BY DEF ReadStands
<1>3. reading' = None \/ IsForecast(reading')
  BY <1>2 DEF ReadingInv
<1>4. ReadingIsOfItsProposal'
  BY <1>2 DEF ReadingInv, ReadingIsOfItsProposal
<1>5. IsForecast(reading)' <=> IsForecast(reading')
  BY DEF IsForecast
<1> QED BY <1>1, <1>3, <1>4, <1>5 DEF ReadingInv

LEMMA ProposalReadIsItsOwn ==
    ASSUME ReadingInv, NEW r \in reads,
           \/ ProposalRead(r) \/ SecondProposalRead(r) \/ SecondProposalRefused(r)
           \/ ReadRefused(r)
    PROVE  ReadingInv'
<1>1. ASSUME NEW census, NEW writing, NEW refused, NEW a, NEW d, NEW w,
             ReadStands(r, Forecast(census, writing, refused, importEvents(r.subject, a, d, w)))
      PROVE  ReadingInv'
  <2> DEFINE landed == Forecast(census, writing, refused, importEvents(r.subject, a, d, w))
  <2>1. IsForecast(landed) /\ landed.judged.subject = r.subject
    BY DEF IsForecast, Forecast, importEvents
  <2> HIDE DEF landed
  <2>2. ReadStands(r, landed)
    BY <1>1 DEF landed
  <2> QED BY <2>1, <2>2, StandsIfItsOwn
<1>2. CASE ProposalRead(r)
  <2> DEFINE census == ProposalCensus(r.proposal, r.subject.edits)
  <2>1. CASE OneReading(census, r.answer)
    BY <1>1, <1>2, <2>1 DEF ProposalRead, CensusRequest
  <2>2. CASE ~OneReading(census, r.answer)
    <3>1. reads' = (reads \ {r}) \cup {[r EXCEPT !.census = census]} /\ UNCHANGED <<id, reading>>
      BY <1>2, <2>2 DEF ProposalRead
    <3> HIDE DEF census
    <3>2. IsRead([r EXCEPT !.census = census])
          /\ [r EXCEPT !.census = census].subject.proposal = [r EXCEPT !.census = census].proposal
      BY DEF ReadingInv, IsRead
    <3> QED BY <3>1, <3>2 DEF ReadingInv, IsForecast, ReadingIsOfItsProposal
  <2> QED BY <2>1, <2>2
<1>3. CASE SecondProposalRead(r)
  BY <1>1, <1>3 DEF SecondProposalRead, SecondProposalRequest
<1>4. CASE SecondProposalRefused(r)
  <2> DEFINE landed == Forecast(r.census, None, TRUE, None)
  <2>1. ReadStands(r, landed) /\ landed.judged = None /\ IsForecast(landed)
    BY <1>4 DEF SecondProposalRefused, Forecast, IsForecast
  <2> HIDE DEF landed
  <2> QED BY <2>1, StandsIfItsOwn
<1>5. CASE ReadRefused(r)
  <2>1. reads' = reads \ {r} /\ id' = id /\ reading' = WithoutWriting(reading)
    BY <1>5 DEF ReadRefused
  <2>2. \/ reading' = None
        \/ IsForecast(reading') /\ reading # None /\ reading'.judged = reading.judged
    BY <2>1 DEF ReadingInv, WithoutWriting, IsForecast, Forecast
  <2>3. IsForecast(reading)' <=> IsForecast(reading')
    BY DEF IsForecast
  <2> QED BY <2>1, <2>2, <2>3 DEF ReadingInv, ReadingIsOfItsProposal
<1> QED BY <1>2, <1>3, <1>4, <1>5

(* Every step of the window keeps the invariant.                           *)
LEMMA ReadingStep ==
    ASSUME ReadingInv, [Next]_vars PROVE ReadingInv'
<1>1. ASSUME NEW w, Reconsiders(w) PROVE ReadingInv'
  <2>1. keepProposal \/ \E next : ReconsiderProposal(next)
    BY <1>1 DEF Reconsiders
  <2>2. ASSUME NEW next, ReconsiderProposal(next) PROVE ReadingInv'
    BY <2>2, RereadOf DEF ReconsiderProposal
  <2> QED BY <2>1, <2>2, ReadingStill DEF keepProposal, proposalVars
<1>2. CASE Import
  <2>1. keepProposal \/ Merge
    BY <1>2 DEF Import
  <2> QED BY <2>1, ReadingStill DEF keepProposal, proposalVars, Merge
<1>3. CASE Close
  <2>1. keepProposal \/ DiscardProposal
    BY <1>3 DEF Close
  <2> QED BY <2>1, ReadingStill, NothingRead, LetGoReads
          DEF keepProposal, proposalVars, DiscardProposal, Closes
<1>4. CASE EditStatement
  <2>1. PICK next : Edit(next)
    BY <1>4 DEF EditStatement, Pick, Price
  <2> QED BY <2>1, RereadOf DEF Edit
<1>5. ASSUME NEW proposal, OpenReview(proposal) PROVE ReadingInv'
  <2>1. Read(proposal, NO_ANSWER, NO_EDITS) /\ reading' = None
    BY <1>5 DEF OpenReview, Review
  <2> QED BY <2>1, NothingRead, ReadAsks
<1>6. CASE Answered
  <2>1. CASE FileAnswered \/ \E w \in writings : FileWritten(w)
    BY <2>1, ReadingStill DEF FileAnswered, FileWritten, keepProposal, proposalVars
  <2>2. ASSUME NEW r \in reads, ReadClosed(r) PROVE ReadingInv'
    BY <2>2, NothingRead, LetGoReads DEF ReadClosed, Closes
  <2>3. ASSUME NEW w, MergeLands(w) \/ MergeClosed(w) PROVE ReadingInv'
    BY <2>3, NothingRead, LetGoReads DEF MergeLands, MergeClosed, Closes
  <2>4. ASSUME NEW w, MergeRefused(w) PROVE ReadingInv'
    BY <2>4, ReadingStill DEF MergeRefused
  <2> QED BY <1>6, <2>1, <2>2, <2>3, <2>4, ProposalReadIsItsOwn DEF Answered, ProposalAnswered
<1>7. CASE UNCHANGED <<id, reading, reads>>
  BY <1>7, ReadingStill
<1>8. ToggleAdoption \/ DismissReceipt \/ AccountsRead \/ DecidedElsewhere \/ UNCHANGED vars
      \/ (\E index : Remove(index)) \/ (\E files : HandOver(files))
        => UNCHANGED <<id, reading, reads>>
  BY DEF ToggleAdoption, DismissReceipt, AccountsRead, DecidedElsewhere, Elsewhere, Remove,
         HandOver,
         keepProposal, proposalVars, vars
<1> QED BY <1>1, <1>2, <1>3, <1>4, <1>5, <1>6, <1>7, <1>8
        DEF Next, AnswerAccount, DecideDuplicates, DecideCurrency, DecideRepeats

(* What stands on screen was judged about the proposal of the address,     *)
(* however the reader goes from one to the other while readings are in     *)
(* flight (proposalImport.ts, latest.current).                             *)
THEOREM ReadingsAreOfTheirProposal ==
    Spec => []ReadingIsOfItsProposal
<1>1. Init => ReadingInv
  BY DEF Init, ProposalInit, ReadingInv, ReadingIsOfItsProposal
<1>2. ReadingInv /\ [Next]_vars => ReadingInv'
  BY ReadingStep
<1>3. ReadingInv => ReadingIsOfItsProposal
  BY DEF ReadingInv
<1> QED BY <1>1, <1>2, <1>3, PTL DEF Spec

-----------------------------------------------------------------------------
(* The ledger under the window. *)
CONSTANTS EventTypes, Shut, Creating, Keys, Contents, PAGE, Queries, Addresses, Bounds, Reissue,
    MaxRows, MaxAsks, MaxRemovals
VARIABLES store, born, freed, events, address, arming, focus, filters, budget, rowSelection,
editing,
    removing, bulk, removals, refusals, tickedByHand, asks
Ledger == INSTANCE LedgerPage WITH Ids <- Keys

(* A freed key is not given again before this tab reads the ledger.        *)
KeysRest == Reissue = FALSE

(* The two places an arming may be in are not the absence of one.          *)
NoneIsNoArming == None \notin {"address", "state"}

-----------------------------------------------------------------------------
(* The operators of the list                                               *)

(* A list holds what was placed in it.                                     *)
LEMMA InPlaceKeeps ==
    ASSUME NEW list, NEW place, NEW k \in DOMAIN Ledger!InPlace(list, place)
    PROVE  \E i \in DOMAIN place : Ledger!InPlace(list, place)[k] = list[i]
<1>1. k \in Ledger!Range(place)
    BY DEF Ledger!InPlace
<1>2. PICK i \in DOMAIN place : place[i] = k
    BY <1>1 DEF Ledger!Range
<1>3. (CHOOSE j \in DOMAIN place : place[j] = k) \in DOMAIN place
    BY <1>2
<1>4. Ledger!InPlace(list, place)[k] = list[CHOOSE j \in DOMAIN place : place[j] = k]
    BY <1>1 DEF Ledger!InPlace
<1>5. QED
    BY <1>3, <1>4

(* Sorting a list keeps its rows.                                          *)
LEMMA SortKeeps ==
    ASSUME NEW list, NEW k \in DOMAIN Ledger!byDateDescending(list)
    PROVE  \E i \in DOMAIN list : Ledger!byDateDescending(list)[k] = list[i]
<1> DEFINE NotAfter(i, j) == \/ Ledger!DayOf(list[i]) > Ledger!DayOf(list[j])
                             \/ Ledger!DayOf(list[i]) = Ledger!DayOf(list[j]) /\ i <= j
           place == [j \in DOMAIN list |-> Ledger!Cardinality({i \in DOMAIN list : NotAfter(i, j)})]
<1>1. Ledger!byDateDescending(list) = Ledger!InPlace(list, place)
    BY DEF Ledger!byDateDescending
<1>2. DOMAIN place = DOMAIN list
    OBVIOUS
<1> HIDE DEF place
<1>3. QED
    BY <1>1, <1>2, InPlaceKeeps

(* A reduction retains rows of the list.                                   *)
LEMMA FilterKeeps ==
    ASSUME NEW list, NEW reduction, NEW k \in DOMAIN Ledger!filterEvents(list, reduction)
    PROVE  \E i \in DOMAIN list : Ledger!filterEvents(list, reduction)[k] = list[i]
<1> DEFINE retained == {i \in DOMAIN list : Ledger!Retained(list[i], reduction)}
           place == [i \in retained |-> Ledger!Cardinality({j \in retained : j <= i})]
<1>1. Ledger!filterEvents(list, reduction) = Ledger!InPlace(list, place)
    BY DEF Ledger!filterEvents
<1>2. DOMAIN place \subseteq DOMAIN list
    OBVIOUS
<1> HIDE DEF place
<1>3. PICK i \in DOMAIN place : Ledger!InPlace(list, place)[k] = list[i]
    BY <1>1, InPlaceKeeps
<1>4. QED
    BY <1>1, <1>2, <1>3

(* What is revealed of a list is of the list.                              *)
LEMMA RevealKeeps ==
    ASSUME NEW list, NEW upTo, NEW k \in DOMAIN Ledger!reveal(list, upTo).rows
    PROVE  k \in DOMAIN list /\ Ledger!reveal(list, upTo).rows[k] = list[k]
<1>1. Ledger!reveal(list, upTo).rows = [i \in {j \in DOMAIN list : j <= upTo} |-> list[i]]
    BY DEF Ledger!reveal
<1>2. QED
    BY <1>1

(* What the page read is the key and the birth of a row of the store.      *)
LEMMA ReadKeeps ==
    ASSUME NEW key, NEW n
    PROVE  /\ Ledger!Read([id |-> key, born |-> n]).id = key
           /\ Ledger!Read([id |-> key, born |-> n]).born = n
BY DEF Ledger!Read

-----------------------------------------------------------------------------
(* What is on screen *)

Seen(e) == events # None /\ \E i \in DOMAIN events : e = events[i]

(* A row of the reduction, and a row drawn, is one the page has read.      *)
LEMMA ShownIsRead ==
    ASSUME NEW k \in DOMAIN Ledger!shown
    PROVE  Seen(Ledger!shown[k])
<1>1. PICK j \in DOMAIN Ledger!all : Ledger!shown[k] = Ledger!all[j]
    BY FilterKeeps DEF Ledger!shown
<1>2. events # None
    BY <1>1 DEF Ledger!all
<1>3. PICK i \in DOMAIN events : Ledger!all[j] = events[i]
    BY <1>1, <1>2, SortKeeps DEF Ledger!all
<1>4. QED
    BY <1>1, <1>2, <1>3 DEF Seen

LEMMA AllIsRead ==
    ASSUME NEW k \in DOMAIN Ledger!all
    PROVE  Seen(Ledger!all[k])
<1>2. events # None
    BY DEF Ledger!all
<1>3. PICK i \in DOMAIN events : Ledger!all[k] = events[i]
    BY <1>2, SortKeeps DEF Ledger!all
<1>4. QED
    BY <1>2, <1>3 DEF Seen

LEMMA DrawnIsShown ==
    ASSUME NEW k \in DOMAIN Ledger!page.rows
    PROVE  k \in DOMAIN Ledger!shown /\ Ledger!page.rows[k] = Ledger!shown[k]
BY RevealKeeps DEF Ledger!page

-----------------------------------------------------------------------------
(* The keys name rows *)

(* A row of the store is under its own key.                                *)
StoreInv ==
    /\ store = [key \in Keys |-> store[key]]
    /\ \A key \in Keys : store[key] # None => store[key] = [id |-> key, born |-> store[key].born]

(* A row read is the row of its key, unless the key was freed since.       *)
SeenInv ==
    events # None =>
        \A i \in DOMAIN events :
            /\ events[i].id \in Keys
            /\ store[events[i].id] # None => store[events[i].id].born = events[i].born
            /\ store[events[i].id] = None => events[i].id \in freed
            /\ \A j \in DOMAIN events :
                   events[j].id = events[i].id => events[j].born = events[i].born

(* A ticked key is of a row the reader ticked, in the store and as read.   *)
TickInv ==
    /\ rowSelection \subseteq Keys
    /\ \A key \in rowSelection :
           /\ store[key] # None => store[key].born \in tickedByHand
           /\ store[key] = None => key \in freed
    /\ events # None =>
           \A i \in DOMAIN events :
               events[i].id \in rowSelection => events[i].born \in tickedByHand

(* The keys of a removal of several rows name rows its reader saw ticked.  *)
FlightsInv ==
    \A f \in removals :
        /\ f = [kind |-> f.kind, ids |-> f.ids, rows |-> f.rows, read |-> f.read]
        /\ f.kind = "rows" =>
               \A key \in Keys : key \in f.ids /\ store[key] # None => store[key].born \in f.rows

KeysInv == StoreInv /\ SeenInv /\ TickInv /\ FlightsInv

LEMMA KeysStart == Ledger!Init => KeysInv
BY DEF Ledger!Init, KeysInv, StoreInv, SeenInv, TickInv, FlightsInv

tables == <<store, freed, events, rowSelection, tickedByHand>>

(* What leaves the store, what was read and the ticks alone.               *)
LEMMA TablesStay ==
    ASSUME StoreInv, SeenInv, TickInv, UNCHANGED tables
    PROVE  StoreInv' /\ SeenInv' /\ TickInv'
<1>1. StoreInv'
    BY DEF StoreInv, tables
<1>2. SeenInv'
    BY DEF SeenInv, tables
<1>3. TickInv'
    BY DEF TickInv, tables
<1>4. QED
    BY <1>1, <1>2, <1>3

LEMMA FlightsStay ==
    ASSUME FlightsInv, UNCHANGED store, removals' \subseteq removals
    PROVE  FlightsInv'
BY DEF FlightsInv

(* Rows read keep what they were under a store that only lost rows.        *)
LEMMA LostRows ==
    ASSUME KeysInv, NEW ids, Ledger!Frees(ids), UNCHANGED events
    PROVE  /\ StoreInv' /\ SeenInv'
           /\ UNCHANGED <<rowSelection, tickedByHand>> => TickInv'
           /\ removals' \subseteq removals => FlightsInv'
<1>1. /\ store' = [key \in Keys |-> IF key \in ids THEN None ELSE store[key]]
      /\ \A key \in Keys : key \in freed \/ (key \in ids /\ store[key] # None) => key \in freed'
    BY DEF Ledger!Frees
<1>2. \A key \in Keys : store'[key] # None => store'[key] = store[key] /\ store[key] # None
    BY <1>1
<1>3. \A key \in Keys : store'[key] = None => store[key] = None \/ key \in freed'
    BY <1>1
<1>4. StoreInv'
    BY <1>1, <1>2 DEF KeysInv, StoreInv
<1>5. SeenInv'
    BY <1>1, <1>2, <1>3 DEF KeysInv, SeenInv
<1>6. ASSUME UNCHANGED <<rowSelection, tickedByHand>>
      PROVE  TickInv'
    BY <1>1, <1>2, <1>3, <1>6 DEF KeysInv, TickInv
<1>7. ASSUME removals' \subseteq removals
      PROVE  FlightsInv'
    BY <1>2, <1>7 DEF KeysInv, FlightsInv
<1>8. QED
    BY <1>4, <1>5, <1>6, <1>7

(* Flights no longer read are the flights they were.                       *)
LEMMA UnreadKeeps ==
    ASSUME FlightsInv, NEW kind, NEW f \in Ledger!Unread(removals, kind)
    PROVE  /\ f = [kind |-> f.kind, ids |-> f.ids, rows |-> f.rows, read |-> f.read]
           /\ f.kind = "rows" =>
                  \A key \in Keys : key \in f.ids /\ store[key] # None => store[key].born \in f.rows
<1>1. PICK g \in removals : f = IF g.kind = kind THEN [g EXCEPT !.read = FALSE] ELSE g
    BY DEF Ledger!Unread
<1>2. /\ g = [kind |-> g.kind, ids |-> g.ids, rows |-> g.rows, read |-> g.read]
      /\ g.kind = "rows" =>
             \A key \in Keys : key \in g.ids /\ store[key] # None => store[key].born \in g.rows
    BY <1>1 DEF FlightsInv
<1>3. CASE g.kind = kind
    <2>1. f = [kind |-> g.kind, ids |-> g.ids, rows |-> g.rows, read |-> FALSE]
        BY <1>1, <1>2, <1>3
    <2>2. QED
        BY <1>2, <2>1
<1>4. CASE g.kind # kind
    BY <1>1, <1>2, <1>4
<1>5. QED
    BY <1>3, <1>4

LEMMA ResetKeeps ==
    ASSUME FlightsInv, NEW kind, Ledger!Reset(kind), UNCHANGED store
    PROVE  FlightsInv'
<1>1. removals' = Ledger!Unread(removals, kind)
    BY DEF Ledger!Reset
<1>2. QED
    BY <1>1, UnreadKeeps DEF FlightsInv

LEMMA SendKeeps ==
    ASSUME FlightsInv, NEW kind, NEW ids, NEW list, Ledger!Send(kind, ids, list), UNCHANGED store,
           kind = "rows" =>
               \A key \in Keys : key \in ids /\ store[key] # None => store[key].born \in list
    PROVE  FlightsInv'
<1>1. removals' = Ledger!Unread(removals, kind) \cup
                  {[kind |-> kind, ids |-> ids, rows |-> list, read |-> TRUE]}
    BY DEF Ledger!Send
<1> DEFINE Sound(f) ==
        /\ f = [kind |-> f.kind, ids |-> f.ids, rows |-> f.rows, read |-> f.read]
        /\ f.kind = "rows" =>
               \A key \in Keys : key \in f.ids /\ store[key] # None => store[key].born \in f.rows
<1>2. Sound([kind |-> kind, ids |-> ids, rows |-> list, read |-> TRUE])
    OBVIOUS
<1>3. \A f \in Ledger!Unread(removals, kind) : Sound(f)
    BY UnreadKeeps
<1>4. \A f \in removals' : Sound(f)
    BY <1>1, <1>2, <1>3
<1>5. QED
    BY <1>4 DEF FlightsInv

-----------------------------------------------------------------------------
(* Every step keeps them *)

(* A tick is of keys on screen.                                            *)
LEMMA TickKeeps ==
    ASSUME KeysInv, NEW ids, NEW on, Ledger!Tick(ids, on),
           \A key \in ids : \E k \in DOMAIN Ledger!shown : Ledger!shown[k].id = key
    PROVE  KeysInv'
<1>1. /\ rowSelection' = IF on THEN rowSelection \cup ids ELSE rowSelection \ ids
      /\ tickedByHand' = IF on
             THEN tickedByHand \cup
                      {Ledger!shown[i].born :
                          i \in {j \in DOMAIN Ledger!shown : Ledger!shown[j].id \in ids}}
             ELSE tickedByHand
      /\ UNCHANGED <<store, freed, events, removals>>
    BY DEF Ledger!Tick, Ledger!serverVars, Ledger!boxVars
<1>2. StoreInv' /\ SeenInv' /\ FlightsInv'
    BY <1>1 DEF KeysInv, StoreInv, SeenInv, FlightsInv
<1>3. tickedByHand \subseteq tickedByHand'
    BY <1>1
<1>4. ASSUME NEW key \in rowSelection', key \notin rowSelection
      PROVE  /\ key \in ids /\ key \in Keys
             /\ store[key] # None => store[key].born \in tickedByHand'
             /\ store[key] = None => key \in freed
             /\ \A i \in DOMAIN events : events[i].id = key => events[i].born \in tickedByHand'
    <2>1. on /\ key \in ids
        BY <1>1, <1>4
    <2>2. PICK k \in DOMAIN Ledger!shown : Ledger!shown[k].id = key
        BY <2>1
    <2>3. Ledger!shown[k].born \in tickedByHand'
        BY <1>1, <2>1, <2>2
    <2>4. PICK i \in DOMAIN events : events # None /\ Ledger!shown[k] = events[i]
        BY ShownIsRead DEF Seen
    <2>5. QED
        BY <2>1, <2>2, <2>3, <2>4 DEF KeysInv, SeenInv
<1>5. TickInv'
    <2>1. rowSelection' \subseteq Keys
        BY <1>4 DEF KeysInv, TickInv
    <2>2. ASSUME NEW key \in rowSelection'
          PROVE  /\ store'[key] # None => store'[key].born \in tickedByHand'
                 /\ store'[key] = None => key \in freed'
        <3>1. CASE key \in rowSelection
            BY <1>1, <1>3, <3>1 DEF KeysInv, TickInv
        <3>2. CASE key \notin rowSelection
            BY <1>1, <1>4, <2>2, <3>2
        <3>3. QED
            BY <3>1, <3>2
    <2>3. ASSUME events' # None, NEW i \in DOMAIN events', events'[i].id \in rowSelection'
          PROVE  events'[i].born \in tickedByHand'
        <3>1. CASE events[i].id \in rowSelection
            BY <1>1, <1>3, <2>3, <3>1 DEF KeysInv, TickInv
        <3>2. CASE events[i].id \notin rowSelection
            BY <1>1, <1>4, <2>3, <3>2
        <3>3. QED
            BY <3>1, <3>2
    <2>4. QED
        BY <2>1, <2>2, <2>3 DEF TickInv
<1>6. QED
    BY <1>2, <1>5 DEF KeysInv

(* What the page reads is the store, by key.                               *)
LEMMA StoreRowsOf ==
    ASSUME StoreInv, NEW k \in DOMAIN Ledger!StoreRows
    PROVE  \E key \in Keys : /\ store[key] # None
                           /\ Ledger!StoreRows[k].id = key /\ Ledger!StoreRows[k].born = store[key].born
<1> DEFINE stored == {key \in Keys : store[key] # None}
           list == [key \in stored |-> Ledger!Read(store[key])]
           place == [key \in stored |->
                        Ledger!Cardinality({other \in stored : store[other].born <= store[key].born})]
<1>1. Ledger!StoreRows = Ledger!InPlace(list, place)
    BY DEF Ledger!StoreRows
<1>2. DOMAIN place = stored
    OBVIOUS
<1> HIDE DEF place
<1>3. PICK key \in stored : Ledger!InPlace(list, place)[k] = list[key]
    BY <1>1, <1>2, InPlaceKeeps
<1>4. store[key] = [id |-> key, born |-> store[key].born]
    BY DEF StoreInv
<1>5. Ledger!StoreRows[k] = Ledger!Read(store[key])
    BY <1>1, <1>3
<1>6. Ledger!StoreRows[k].id = key /\ Ledger!StoreRows[k].born = store[key].born
    BY <1>4, <1>5, ReadKeeps
<1>7. QED
    BY <1>6

LEMMA EventsReadKeeps ==
    ASSUME KeysInv, Ledger!EventsRead
    PROVE  KeysInv'
<1>1. /\ events' = Ledger!StoreRows /\ freed' = {}
      /\ rowSelection' = Ledger!Held(rowSelection, Ledger!StoreRows)
      /\ UNCHANGED <<store, tickedByHand, removals>>
    BY DEF Ledger!EventsRead, Ledger!boxVars
<1>2. StoreInv /\ StoreInv' /\ FlightsInv'
    BY <1>1 DEF KeysInv, StoreInv, FlightsInv
<1>3. \A k \in DOMAIN Ledger!StoreRows :
          /\ Ledger!StoreRows[k].id \in Keys /\ store[Ledger!StoreRows[k].id] # None
          /\ Ledger!StoreRows[k].born = store[Ledger!StoreRows[k].id].born
    BY <1>2, StoreRowsOf
<1>4. SeenInv'
    BY <1>1, <1>3 DEF SeenInv
<1>5. \A key \in rowSelection' : key \in rowSelection /\ key \in Keys /\ store[key] # None
    BY <1>1, <1>3 DEF Ledger!Held
<1>6. \A key \in rowSelection' : store[key].born \in tickedByHand
    BY <1>5 DEF KeysInv, TickInv
<1>7. TickInv'
    BY <1>1, <1>3, <1>5, <1>6 DEF TickInv
<1>8. QED
    BY <1>2, <1>4, <1>7 DEF KeysInv

(* A row written elsewhere takes a key nothing on screen holds.            *)
LEMMA WrittenKeeps ==
    ASSUME KeysRest, KeysInv, Ledger!WrittenElsewhere
    PROVE  KeysInv'
<1>1. PICK taken \in Keys :
          /\ store[taken] = None /\ taken \notin freed
          /\ \A f \in removals : taken \notin f.ids
          /\ store' = [store EXCEPT ![taken] = [id |-> taken, born |-> born + 1]]
          /\ UNCHANGED <<freed, events, rowSelection, tickedByHand, removals>>
    BY DEF KeysRest, Ledger!WrittenElsewhere, Ledger!tickVars, Ledger!boxVars
<1>2. StoreInv
    BY DEF KeysInv
<1>3. /\ store' = [key \in Keys |-> store'[key]]
      /\ store'[taken] = [id |-> taken, born |-> born + 1]
      /\ \A key \in Keys : key # taken => store'[key] = store[key]
    BY <1>1, <1>2 DEF StoreInv
<1>4. StoreInv'
    BY <1>2, <1>3 DEF StoreInv
<1>5. events # None => \A i \in DOMAIN events : events[i].id \in Keys /\ events[i].id # taken
    BY <1>1 DEF KeysInv, SeenInv
<1>6. SeenInv'
    BY <1>1, <1>3, <1>5 DEF KeysInv, SeenInv
<1>7. taken \notin rowSelection /\ rowSelection \subseteq Keys
    BY <1>1 DEF KeysInv, TickInv
<1>8. TickInv'
    BY <1>1, <1>3, <1>7 DEF KeysInv, TickInv
<1>9. FlightsInv'
    BY <1>1, <1>3 DEF KeysInv, FlightsInv
<1>10. QED
    BY <1>4, <1>6, <1>8, <1>9 DEF KeysInv

(* The gestures on the reduction and on the sheet are of neither.          *)
LEMMA ReducingIsApart ==
    ASSUME \/ Ledger!LedgerSearch \/ Ledger!PressType \/ Ledger!PressAccount \/ Ledger!PressYear
           \/ Ledger!PressMonth
           \/ Ledger!TypeBound \/ Ledger!LedgerChips \/ Ledger!ResetReduction
           \/ Ledger!UndoDelivered \/ Ledger!more
           \/ Ledger!Edit \/ Ledger!Compose
    PROVE  UNCHANGED <<store, freed, events, rowSelection, tickedByHand, removals>>
<1>1. ASSUME NEW next, Ledger!ByHand(next)
      PROVE  UNCHANGED <<store, freed, events, rowSelection, tickedByHand, removals>>
    BY <1>1 DEF Ledger!ByHand, Ledger!serverVars, Ledger!tickVars, Ledger!boxVars
<1>2. CASE Ledger!LedgerSearch
    BY <1>1, <1>2 DEF Ledger!LedgerSearch
<1>3. CASE Ledger!PressType
    BY <1>1, <1>3 DEF Ledger!PressType
<1>4. CASE Ledger!PressAccount
    BY <1>1, <1>4 DEF Ledger!PressAccount
<1>5. CASE Ledger!PressYear
    BY <1>1, <1>5 DEF Ledger!PressYear
<1>6. CASE Ledger!PressMonth
    BY <1>1, <1>6 DEF Ledger!PressMonth
<1>7. CASE Ledger!TypeBound
    BY <1>1, <1>7 DEF Ledger!TypeBound
<1>8. CASE Ledger!LedgerChips
    BY <1>1, <1>8 DEF Ledger!LedgerChips
<1>9. CASE Ledger!ResetReduction \/ Ledger!UndoDelivered
    BY <1>1, <1>9 DEF Ledger!ResetReduction, Ledger!UndoDelivered
<1>10. CASE Ledger!more \/ Ledger!Edit \/ Ledger!Compose
    BY <1>10 DEF Ledger!more, Ledger!Edit, Ledger!Compose, Ledger!serverVars, Ledger!tickVars,
                 Ledger!boxVars
<1>11. QED
    BY <1>2, <1>3, <1>4, <1>5, <1>6, <1>7, <1>8, <1>9, <1>10

LEMMA BehindKeeps ==
    ASSUME KeysInv, Ledger!Behind
    PROVE  KeysInv'
<1>1. CASE \/ Ledger!LedgerSearch \/ Ledger!PressType \/ Ledger!PressAccount \/ Ledger!PressYear
           \/ Ledger!PressMonth
           \/ Ledger!TypeBound \/ Ledger!LedgerChips \/ Ledger!ResetReduction
           \/ Ledger!UndoDelivered \/ Ledger!more
           \/ Ledger!Edit \/ Ledger!Compose
    <2>1. UNCHANGED <<store, freed, events, rowSelection, tickedByHand, removals>>
        BY <1>1, ReducingIsApart
    <2>2. QED
        BY <2>1, TablesStay, FlightsStay DEF KeysInv, tables
<1>2. CASE Ledger!TickRow
    <2>1. PICK k \in DOMAIN Ledger!page.rows :
              Ledger!Tick({Ledger!page.rows[k].id}, Ledger!page.rows[k].id \notin rowSelection)
        BY <1>2 DEF Ledger!TickRow
    <2>2. k \in DOMAIN Ledger!shown /\ Ledger!page.rows[k] = Ledger!shown[k]
        BY DrawnIsShown
    <2>3. QED
        BY <2>1, <2>2, TickKeeps
<1>3. CASE Ledger!TickAll
    <2> DEFINE editable == {Ledger!shown[i].id : i \in DOMAIN Ledger!shown} \ {None}
    <2>1. Ledger!Tick(editable, Ledger!selectionState(Ledger!shown, rowSelection) # "all")
        BY <1>3 DEF Ledger!TickAll
    <2>2. \A key \in editable : \E k \in DOMAIN Ledger!shown : Ledger!shown[k].id = key
        OBVIOUS
    <2> HIDE DEF editable
    <2>3. QED
        BY <2>1, <2>2, TickKeeps
<1>4. CASE Ledger!Deselect
    <2>1. rowSelection' = {} /\ UNCHANGED <<store, freed, events, tickedByHand, removals>>
        BY <1>4 DEF Ledger!Deselect, Ledger!clearSelection, Ledger!serverVars, Ledger!boxVars
    <2>2. QED
        BY <2>1 DEF KeysInv, StoreInv, SeenInv, TickInv, FlightsInv
<1>5. CASE Ledger!OpenBulk
    <2>1. Ledger!Reset("rows") /\ UNCHANGED tables
        BY <1>5 DEF Ledger!OpenBulk, Ledger!serverVars, Ledger!tickVars, tables
    <2>2. FlightsInv'
        BY <2>1, ResetKeeps DEF KeysInv, tables
    <2>3. QED
        BY <2>1, <2>2, TablesStay DEF KeysInv
<1>6. QED
    BY <1>1, <1>2, <1>3, <1>4, <1>5 DEF Ledger!Behind

LEMMA KeysStep ==
    ASSUME KeysRest, KeysInv, [Ledger!Next]_Ledger!vars
    PROVE  KeysInv'
<1>1. CASE Ledger!Behind
    BY <1>1, BehindKeeps
<1>2. CASE \/ \E reduction \in Addresses : Ledger!Arrive(reduction)
           \/ Ledger!Arm \/ Ledger!SpendAddress \/ Ledger!Composed \/ Ledger!CloseSheet
           \/ Ledger!AskRemoval \/ Ledger!RemovalRefused
           \/ UNCHANGED Ledger!vars
    <2>1. UNCHANGED tables /\ removals' \subseteq removals
        BY <1>2 DEF Ledger!Arrive, Ledger!Arm, Ledger!SpendAddress, Ledger!Composed,
                    Ledger!CloseSheet, Ledger!AskRemoval,
                    Ledger!RemovalRefused, Ledger!vars, Ledger!serverVars, Ledger!tickVars,
                    Ledger!boxVars, tables
    <2>2. QED
        BY <2>1, TablesStay, FlightsStay DEF KeysInv, tables
<1>3. CASE Ledger!RemoveRow
    <2>1. Ledger!Send("row", {removing.id}, {removing.born}) /\ UNCHANGED tables
        BY <1>3 DEF Ledger!RemoveRow, Ledger!serverVars, Ledger!tickVars, tables
    <2>2. FlightsInv'
        BY <2>1, SendKeeps DEF KeysInv, tables
    <2>3. QED
        BY <2>1, <2>2, TablesStay DEF KeysInv
<1>4. CASE Ledger!CloseRowBox \/ Ledger!CloseBulk
    <2>1. (Ledger!Reset("row") \/ Ledger!Reset("rows")) /\ UNCHANGED tables
        BY <1>4 DEF Ledger!CloseRowBox, Ledger!CloseBulk, Ledger!serverVars, Ledger!tickVars, tables
    <2>2. FlightsInv'
        BY <2>1, ResetKeeps DEF KeysInv, tables
    <2>3. QED
        BY <2>1, <2>2, TablesStay DEF KeysInv
<1>5. CASE Ledger!RemoveSelected
    <2> DEFINE list == {Ledger!shown[i].born :
                           i \in {j \in DOMAIN Ledger!shown :
                                     Ledger!shown[j].id \in rowSelection}}
    <2>1. Ledger!Send("rows", Ledger!selected, list) /\ UNCHANGED tables
        BY <1>5 DEF Ledger!RemoveSelected, Ledger!serverVars, Ledger!tickVars, tables
    <2>2. ASSUME NEW key \in Keys, key \in Ledger!selected, store[key] # None
          PROVE  store[key].born \in list
        <3>1. PICK k \in DOMAIN Ledger!shown : Ledger!shown[k].id = key /\ key \in rowSelection
            BY <2>2 DEF Ledger!selected, Ledger!Ticked
        <3>2. PICK i \in DOMAIN events : events # None /\ Ledger!shown[k] = events[i]
            BY ShownIsRead DEF Seen
        <3>3. store[key].born = Ledger!shown[k].born
            BY <2>2, <3>1, <3>2 DEF KeysInv, SeenInv
        <3>4. QED
            BY <3>1, <3>3
    <2> HIDE DEF list
    <2>3. FlightsInv'
        BY <2>1, <2>2, SendKeeps DEF KeysInv, tables
    <2>4. QED
        BY <2>1, <2>3, TablesStay DEF KeysInv
<1>6. CASE Ledger!BulkLands
    <2>1. PICK f \in removals : /\ Ledger!Frees(f.ids) /\ rowSelection' = {}
                                /\ removals' = removals \ {f} /\ UNCHANGED events
        BY <1>6 DEF Ledger!BulkLands, Ledger!clearSelection
    <2>2. StoreInv' /\ SeenInv' /\ FlightsInv'
        BY <2>1, LostRows
    <2>3. TickInv'
        BY <2>1 DEF TickInv
    <2>4. QED
        BY <2>2, <2>3 DEF KeysInv
<1>7. CASE Ledger!RowLands
    <2>1. PICK f \in removals : /\ Ledger!Frees(f.ids) /\ removals' = removals \ {f}
                                /\ UNCHANGED <<events, rowSelection, tickedByHand>>
        BY <1>7 DEF Ledger!RowLands, Ledger!tickVars
    <2>2. QED
        BY <2>1, LostRows DEF KeysInv
<1>8. CASE Ledger!EventsRead
    BY <1>8, EventsReadKeeps
<1>9. CASE Ledger!WrittenElsewhere
    BY <1>9, WrittenKeeps
<1>10. CASE Ledger!RemovedElsewhere
    <2>1. PICK key \in Keys : Ledger!Frees({key})
        BY <1>10 DEF Ledger!RemovedElsewhere
    <2>2. UNCHANGED <<events, rowSelection, tickedByHand, removals>>
        BY <1>10 DEF Ledger!RemovedElsewhere, Ledger!tickVars, Ledger!boxVars
    <2>3. QED
        BY <2>1, <2>2, LostRows DEF KeysInv
<1>11. QED
    BY <1>1, <1>2, <1>3, <1>4, <1>5, <1>6, <1>7, <1>8, <1>9, <1>10 DEF Ledger!Next

-----------------------------------------------------------------------------
(* What must hold *)

(* A ticked row is one the reader ticked: a row that comes under a key it  *)
(* ticked and that was freed does not arrive ticked (Ledger.tsx, held).    *)
THEOREM TicksAreByHand == ASSUME KeysRest PROVE Ledger!Spec => []Ledger!NewRowUnticked
<1>1. ASSUME KeysInv PROVE Ledger!NewRowUnticked
    <2>1. ASSUME NEW k \in DOMAIN Ledger!all, Ledger!all[k].id \in rowSelection
          PROVE  Ledger!all[k].born \in tickedByHand
        <3>1. PICK i \in DOMAIN events : events # None /\ Ledger!all[k] = events[i]
            BY AllIsRead DEF Seen
        <3>2. QED
            BY <1>1, <2>1, <3>1 DEF KeysInv, TickInv
    <2>2. QED
        BY <2>1 DEF Ledger!NewRowUnticked
<1>2. QED
    BY <1>1, KeysStart, KeysStep, PTL DEF Ledger!Spec

(* Rows leave the store by a removal of several rows only with that        *)
(* removal's own keys.                                                     *)
LEMMA LandsAlone ==
    ASSUME KeysInv, [Ledger!Next]_Ledger!vars, store' # store,
           NEW f \in removals, f \notin removals', f.kind = "rows"
    PROVE  Ledger!Frees(f.ids)
<1>1. UNCHANGED store \/ UNCHANGED removals \/ Ledger!BulkLands \/ Ledger!RowLands
    <2>1. CASE Ledger!Behind
        <3>1. ASSUME Ledger!TickRow \/ Ledger!TickAll \/ Ledger!Deselect \/ Ledger!OpenBulk
              PROVE  UNCHANGED store
            BY <3>1 DEF Ledger!TickRow, Ledger!TickAll, Ledger!Tick, Ledger!Deselect,
                        Ledger!OpenBulk, Ledger!serverVars
        <3>2. QED
            BY <2>1, <3>1, ReducingIsApart DEF Ledger!Behind
    <2>2. CASE \/ \E reduction \in Addresses : Ledger!Arrive(reduction)
               \/ Ledger!Arm \/ Ledger!SpendAddress \/ Ledger!Composed \/ Ledger!CloseSheet
               \/ Ledger!AskRemoval
               \/ Ledger!RemoveRow \/ Ledger!CloseRowBox \/ Ledger!RemoveSelected
               \/ Ledger!CloseBulk \/ Ledger!RemovalRefused
               \/ Ledger!EventsRead \/ UNCHANGED Ledger!vars
        BY <2>2 DEF Ledger!Arrive, Ledger!Arm, Ledger!SpendAddress, Ledger!Composed,
                    Ledger!CloseSheet, Ledger!AskRemoval, Ledger!RemoveRow,
                    Ledger!CloseRowBox, Ledger!RemoveSelected, Ledger!CloseBulk,
                    Ledger!RemovalRefused, Ledger!EventsRead,
                    Ledger!vars, Ledger!serverVars
    <2>3. CASE Ledger!WrittenElsewhere \/ Ledger!RemovedElsewhere
        BY <2>3 DEF Ledger!WrittenElsewhere, Ledger!RemovedElsewhere, Ledger!boxVars
    <2>4. QED
        BY <2>1, <2>2, <2>3 DEF Ledger!Next
<1>2. CASE Ledger!BulkLands
    BY <1>2 DEF Ledger!BulkLands
<1>3. CASE Ledger!RowLands
    BY <1>3 DEF Ledger!RowLands
<1>4. QED
    BY <1>1, <1>2, <1>3

(* The bulk removal takes rows its reader saw ticked and no other, whatever *)
(* was read, freed and written since it was sent (BulkDelete.tsx).          *)
THEOREM BulksTakeTheTicked == ASSUME KeysRest PROVE Ledger!Spec => Ledger!BulkTakesTheTicked
<1>1. ASSUME KeysInv, [Ledger!Next]_Ledger!vars PROVE Ledger!BulkTakes
    <2>1. SUFFICES ASSUME NEW f \in removals, f \notin removals', f.kind = "rows",
                          store' # store,
                          NEW r \in Ledger!InStore, r \notin {store'[key] : key \in Keys}
                   PROVE  r.born \in f.rows
        BY DEF Ledger!BulkTakes
    <2>2. Ledger!Frees(f.ids)
        BY <1>1, <2>1, LandsAlone
    <2>3. PICK key \in Keys : r = store[key] /\ store[key] # None
        BY DEF Ledger!InStore
    <2>4. key \in f.ids
        BY <2>1, <2>2, <2>3 DEF Ledger!Frees
    <2>5. QED
        BY <1>1, <2>1, <2>3, <2>4 DEF KeysInv, FlightsInv
<1>2. ASSUME KeysInv, [Ledger!Next]_Ledger!vars PROVE [Ledger!BulkTakes]_Ledger!vars
    BY <1>1, <1>2
<1>3. QED
    BY <1>2, KeysStart, KeysStep, PTL DEF Ledger!Spec, Ledger!BulkTakesTheTicked

-----------------------------------------------------------------------------
(* The address and the arming                                              *)

quiet == <<address, filters>>

(* A gesture of the reader either leaves the reduction alone or takes the  *)
(* address away.                                                           *)
LEMMA GesturesRelease ==
    ASSUME Ledger!Behind
    PROVE  address' = None \/ UNCHANGED quiet
<1>1. ASSUME NEW next, Ledger!ByHand(next) PROVE address' = None
    BY <1>1 DEF Ledger!ByHand, Ledger!reduce
<1>2. CASE \/ Ledger!LedgerSearch \/ Ledger!PressType \/ Ledger!PressAccount \/ Ledger!PressYear
           \/ Ledger!PressMonth
           \/ Ledger!TypeBound \/ Ledger!LedgerChips \/ Ledger!ResetReduction
           \/ Ledger!UndoDelivered
    <2>1. \E next : Ledger!ByHand(next)
        <3>1. CASE Ledger!LedgerSearch \/ Ledger!PressType \/ Ledger!PressAccount
            BY <3>1 DEF Ledger!LedgerSearch, Ledger!PressType, Ledger!PressAccount
        <3>2. CASE Ledger!PressYear \/ Ledger!PressMonth
            BY <3>2 DEF Ledger!PressYear, Ledger!PressMonth
        <3>3. CASE Ledger!TypeBound \/ Ledger!LedgerChips \/ Ledger!ResetReduction
                                    \/ Ledger!UndoDelivered
            BY <3>3 DEF Ledger!TypeBound, Ledger!LedgerChips, Ledger!ResetReduction,
                        Ledger!UndoDelivered
        <3>4. QED
            BY <1>2, <3>1, <3>2, <3>3
    <2>2. QED
        BY <1>1, <2>1
<1>3. CASE Ledger!more \/ Ledger!TickRow \/ Ledger!TickAll \/ Ledger!Deselect \/ Ledger!Edit
                       \/ Ledger!Compose \/ Ledger!OpenBulk
    BY <1>3 DEF Ledger!more, Ledger!TickRow, Ledger!TickAll, Ledger!Tick, Ledger!Deselect,
                Ledger!Edit, Ledger!Compose, Ledger!OpenBulk,
                Ledger!reductionVars, quiet
<1>4. QED
    BY <1>2, <1>3 DEF Ledger!Behind

(* What a reload would bring back is what is in force: a reduction lifted  *)
(* by hand left the address with it (DataPage.tsx, release).               *)
THEOREM ReloadsAreOfTheTable == Ledger!Spec => []Ledger!AddressIsTable
<1>1. Ledger!Init => Ledger!AddressIsTable
    BY DEF Ledger!Init, Ledger!AddressIsTable
<1>2. ASSUME Ledger!AddressIsTable, [Ledger!Next]_Ledger!vars PROVE Ledger!AddressIsTable'
    <2>1. CASE Ledger!Behind
        BY <1>2, <2>1, GesturesRelease DEF Ledger!AddressIsTable, quiet
    <2>2. CASE \E reduction \in Addresses : Ledger!Arrive(reduction)
        BY <2>2 DEF Ledger!Arrive, Ledger!Reduce, Ledger!AddressIsTable
    <2>3. CASE Ledger!Arm \/ Ledger!SpendAddress \/ Ledger!Composed \/ Ledger!CloseSheet
                          \/ Ledger!AskRemoval \/ UNCHANGED Ledger!vars
        BY <1>2, <2>3 DEF Ledger!Arm, Ledger!SpendAddress, Ledger!Composed, Ledger!CloseSheet,
                          Ledger!AskRemoval, Ledger!vars,
                          Ledger!reductionVars, Ledger!AddressIsTable
    <2>4. CASE Ledger!RemoveRow \/ Ledger!CloseRowBox \/ Ledger!RemoveSelected \/ Ledger!CloseBulk
        BY <1>2, <2>4 DEF Ledger!RemoveRow, Ledger!CloseRowBox, Ledger!RemoveSelected,
                          Ledger!CloseBulk,
                          Ledger!reductionVars, Ledger!AddressIsTable
    <2>5. CASE \/ Ledger!BulkLands \/ Ledger!RowLands \/ Ledger!RemovalRefused
               \/ Ledger!EventsRead \/ Ledger!WrittenElsewhere \/ Ledger!RemovedElsewhere
        BY <1>2, <2>5 DEF Ledger!BulkLands, Ledger!RowLands, Ledger!RemovalRefused,
                          Ledger!EventsRead, Ledger!WrittenElsewhere,
                          Ledger!RemovedElsewhere, Ledger!reductionVars, Ledger!AddressIsTable
    <2>6. QED
        BY <1>2, <2>1, <2>2, <2>3, <2>4, <2>5 DEF Ledger!Next
<1>3. QED
    BY <1>1, <1>2, PTL DEF Ledger!Spec

(* An arming still held has been asked for and not opened.                 *)
ArmingInv ==
    /\ asks = [asked |-> asks.asked, opened |-> asks.opened]
    /\ asks.asked \in Nat /\ asks.opened \in Nat
    /\ asks.opened <= asks.asked
    /\ arming # None => asks.opened < asks.asked

(* The form opens once for a gesture: the palette's, which goes from the   *)
(* address to the page's state before the table spends it, and the         *)
(* button's beside it (DataPage.tsx, Ledger.tsx, compose).                 *)
THEOREM GesturesAreSpentOnce == ASSUME NoneIsNoArming PROVE Ledger!Spec => []Ledger!FormOpensOnce
<1>1. Ledger!Init => ArmingInv
    BY DEF Ledger!Init, ArmingInv
<1>2. ASSUME ArmingInv, [Ledger!Next]_Ledger!vars PROVE ArmingInv'
    <2>1. ASSUME UNCHANGED <<arming, asks>> PROVE ArmingInv'
        BY <1>2, <2>1 DEF ArmingInv
    <2>2. CASE Ledger!Behind
        <3>1. CASE Ledger!Compose
            <4>1. asks' = [asked |-> asks.asked + 1, opened |-> asks.opened + 1]
                BY <1>2, <3>1 DEF Ledger!Compose, Ledger!Asked, Ledger!Opened, ArmingInv
            <4>2. UNCHANGED arming
                BY <3>1 DEF Ledger!Compose
            <4>3. QED
                BY <1>2, <4>1, <4>2 DEF ArmingInv
        <3>2. ASSUME NEW next, Ledger!ByHand(next) PROVE ArmingInv'
            BY <2>1, <3>2 DEF Ledger!ByHand, Ledger!sheetVars
        <3>3. CASE Ledger!LedgerSearch \/ Ledger!PressType \/ Ledger!PressAccount
            BY <3>2, <3>3 DEF Ledger!LedgerSearch, Ledger!PressType, Ledger!PressAccount
        <3>4. CASE Ledger!PressYear \/ Ledger!PressMonth
            BY <3>2, <3>4 DEF Ledger!PressYear, Ledger!PressMonth
        <3>5. CASE Ledger!TypeBound \/ Ledger!LedgerChips \/ Ledger!ResetReduction
                                    \/ Ledger!UndoDelivered
            BY <3>2, <3>5 DEF Ledger!TypeBound, Ledger!LedgerChips, Ledger!ResetReduction,
                              Ledger!UndoDelivered
        <3>6. CASE Ledger!more \/ Ledger!TickRow \/ Ledger!TickAll \/ Ledger!Deselect
                               \/ Ledger!Edit \/ Ledger!OpenBulk
            BY <2>1, <3>6 DEF Ledger!more, Ledger!TickRow, Ledger!TickAll, Ledger!Tick,
                              Ledger!Deselect, Ledger!Edit, Ledger!OpenBulk, Ledger!sheetVars
        <3>7. QED
            BY <2>2, <3>1, <3>3, <3>4, <3>5, <3>6 DEF Ledger!Behind
    <2>3. CASE Ledger!Arm
        <3>1. asks' = [asked |-> asks.asked + 1, opened |-> asks.opened]
            BY <1>2, <2>3 DEF Ledger!Arm, Ledger!Asked, ArmingInv
        <3>2. QED
            BY <1>2, <3>1 DEF ArmingInv
    <2>4. CASE Ledger!SpendAddress
        BY <1>2, <2>4 DEF Ledger!SpendAddress, NoneIsNoArming, ArmingInv
    <2>5. CASE Ledger!Composed
        <3>1. asks' = [asked |-> asks.asked, opened |-> asks.opened + 1] /\ arming' = None
            BY <1>2, <2>5 DEF Ledger!Composed, Ledger!Opened, ArmingInv
        <3>2. asks.opened < asks.asked
            BY <1>2, <2>5 DEF Ledger!Composed, NoneIsNoArming, ArmingInv
        <3>3. QED
            BY <1>2, <3>1, <3>2 DEF ArmingInv
    <2>6. CASE \/ \E reduction \in Addresses : Ledger!Arrive(reduction)
               \/ Ledger!CloseSheet \/ Ledger!AskRemoval \/ Ledger!RemoveRow
               \/ Ledger!CloseRowBox \/ Ledger!RemoveSelected
               \/ Ledger!CloseBulk \/ UNCHANGED Ledger!vars
        BY <2>1, <2>6 DEF Ledger!Arrive, Ledger!CloseSheet, Ledger!AskRemoval, Ledger!RemoveRow,
                          Ledger!CloseRowBox,
                          Ledger!RemoveSelected, Ledger!CloseBulk, Ledger!vars, Ledger!sheetVars
    <2>7. CASE \/ Ledger!BulkLands \/ Ledger!RowLands \/ Ledger!RemovalRefused
               \/ Ledger!EventsRead \/ Ledger!WrittenElsewhere \/ Ledger!RemovedElsewhere
        BY <2>1, <2>7 DEF Ledger!BulkLands, Ledger!RowLands, Ledger!RemovalRefused,
                          Ledger!EventsRead, Ledger!WrittenElsewhere,
                          Ledger!RemovedElsewhere, Ledger!sheetVars
    <2>8. QED
        BY <1>2, <2>2, <2>3, <2>4, <2>5, <2>6, <2>7 DEF Ledger!Next
<1>3. ArmingInv => Ledger!FormOpensOnce
    BY DEF ArmingInv, Ledger!FormOpensOnce
<1>4. QED
    BY <1>1, <1>2, <1>3, PTL DEF Ledger!Spec

-----------------------------------------------------------------------------
(* The form of an event. *)
CONSTANTS Empty, Unpriced, Stored, Titles, YahooLines(_), Tickers, Typed, CloseOf(_, _),
    AccountStates
VARIABLES row, type, draft, errors, offered, suggested, prices, titles, asked, picked, confirmed,
    choice, writes, formError
Form == INSTANCE EventForm WITH
    Lines <- YahooLines, writeError <- formError

(* The absence of an error is none, and no ticker is absent: of a title,   *)
(* of a line of Yahoo, or as it is typed.                                  *)
FormIsApart ==
    /\ None \notin {"required", "invalid", "positive", "unreadable", "unknown", "negative",
                    "overAmount", "pending", "failed"}
    /\ None \notin Tickers /\ None # Form!Blank
    /\ \A title \in Titles : title.symbol # None
    /\ \A text : \A line \in YahooLines(text) : line.symbol # None

(* The shape of a request, and what is in the ticker.                      *)
IsRequest(w) == w = [row |-> w.row, body |-> w.body, read |-> w.read]

IsDraft(d) ==
    /\ DOMAIN d = Form!Fields
    /\ d = [f \in DOMAIN d |-> d[f]]
    /\ d["symbol"] # None

FormInv ==
    /\ \A w \in writes : IsRequest(w)
    /\ titles \in {None, Titles}
    /\ IsDraft(draft)

(* What the step sent that the form reads is what was checked.             *)
Checked(w) ==
    /\ w.body = Form!body
    /\ Form!found = Form!NoErrors
    /\ type # None /\ row # Shut

LEMMA UnreadSaysNothing ==
    ASSUME FormInv, NEW w \in Form!Unread PROVE ~w.read /\ IsRequest(w)
<1>1. PICK v \in writes : w = [v EXCEPT !.read = FALSE]
  BY DEF Form!Unread
<1>2. IsRequest(v)
  BY DEF FormInv
<1> QED BY <1>1, <1>2 DEF IsRequest

LEMMA SubmitSends ==
    ASSUME FormInv, Form!submit, NEW w \in writes' \ writes, w.read
    PROVE  Checked(w)
<1>1. CASE Form!found # Form!NoErrors
  BY <1>1 DEF Form!submit, Form!keepWrites
<1>2. CASE Form!found = Form!NoErrors
  <2>1. PICK b : b = Form!body
    OBVIOUS
  <2>2. writes' = Form!Unread \cup {[row |-> row, body |-> b, read |-> TRUE]}
    BY <1>2, <2>1 DEF Form!submit
  <2>3. w \notin Form!Unread
    BY UnreadSaysNothing
  <2> QED BY <1>2, <2>1, <2>2, <2>3 DEF Checked, Form!submit
<1> QED BY <1>1, <1>2

(* Only a submission sends.                                                *)
LEMMA OnlySubmitSends ==
    ASSUME FormInv, [Form!Next]_Form!vars, NEW w \in writes' \ writes, w.read
    PROVE  Checked(w)
<1>1. CASE Form!submit
  BY <1>1, SubmitSends
<1>2. CASE ~Form!submit
  <2>1. writes' \subseteq writes \cup Form!Unread
    BY <1>2 DEF Form!Next, Form!Open, Form!setType, Form!Type, Form!TypeTicker, Form!Choose,
       Form!TakeMeant, Form!Confirm, Form!Pause, Form!close, Form!PriceAnswered, Form!TitlesRead,
       Form!AccountsRead, Form!WriteLands, Form!WriteRefused, Form!keepWrites, Form!vars
  <2> QED BY <2>1, UnreadSaysNothing
<1> QED BY <1>1, <1>2

(* What is found on no field.                                              *)
LEMMA NothingFound ==
    ASSUME Form!found = Form!NoErrors
    PROVE  /\ Form!SymbolError = None /\ Form!AccountError = None /\ Form!FeeError = None
           /\ LET has == Form!FIELDS(type) IN
              /\ Form!Figure("quantity", TRUE, has.quantity, TRUE) = None
              /\ Form!Figure("unitPrice", has.unitPrice = "required", has.unitPrice # "none",
                             has.unitPrice = "required") = None
              /\ Form!Figure("amount", TRUE, has.amount, TRUE) = None
BY DEF Form!found, Form!NoErrors, Form!Fields

LEMMA FigureIsThere ==
    ASSUME FormIsApart, NEW field, NEW required, NEW present \in BOOLEAN, NEW above \in BOOLEAN,
           required = TRUE,
           Form!Figure(field, required, present, above) = None
    PROVE  present => Form!read(draft, field, present) # None
BY DEF FormIsApart, Form!Figure, Form!number, Form!read

LEMMA FitsStep ==
    ASSUME FormIsApart, FormInv, NEW w, Checked(w) PROVE Form!FitsItsType(w.body)
<1> DEFINE has == Form!FIELDS(type)
<1>1. w.body = Form!body /\ Form!found = Form!NoErrors
  BY DEF Checked
<1>2. /\ has.quantity \in BOOLEAN /\ has.amount \in BOOLEAN /\ has.security \in BOOLEAN
      /\ has.fee \in BOOLEAN /\ has.unitPrice \in {"required", "optional", "none"}
  BY DEF Form!FIELDS
<1>3. /\ Form!SymbolError = None
      /\ Form!Figure("quantity", TRUE, has.quantity, TRUE) = None
      /\ Form!Figure("unitPrice", has.unitPrice = "required", has.unitPrice # "none",
                     has.unitPrice = "required") = None
      /\ Form!Figure("amount", TRUE, has.amount, TRUE) = None
  BY <1>1, NothingFound
<1>4. (has.quantity => Form!read(draft, "quantity", has.quantity) # None)
      /\ (has.amount => Form!read(draft, "amount", has.amount) # None)
  BY <1>2, <1>3, FigureIsThere
<1>5. has.unitPrice = "required" => Form!read(draft, "unitPrice", has.unitPrice # "none") # None
  BY <1>2, <1>3, FigureIsThere
<1>6. \A field : ~FALSE => Form!read(draft, field, FALSE) = None
  BY DEF Form!read
<1>7. Form!typed # None
  BY DEF FormInv, IsDraft, Form!typed
<1>8. /\ w.body.event_type = type
      /\ w.body.symbol = (IF has.security THEN Form!typed ELSE None)
      /\ w.body.quantity = Form!read(draft, "quantity", has.quantity)
      /\ w.body.unit_price = Form!read(draft, "unitPrice", has.unitPrice # "none")
      /\ w.body.fee = Form!read(draft, "fee", has.fee)
      /\ w.body.amount = Form!read(draft, "amount", has.amount)
  BY <1>1 DEF Form!body
<1> HIDE DEF has
<1>9. Form!FIELDS(w.body.event_type) = has
  BY <1>8 DEF has
<1> QED BY <1>2, <1>4, <1>5, <1>6, <1>7, <1>8, <1>9 DEF Form!FitsItsType

LEMMA AgreedStep ==
    ASSUME FormIsApart, FormInv, NEW w, Checked(w) PROVE Form!Agreed(w.body)
<1>1. w.body.symbol = (IF Form!FIELDS(type).security THEN Form!typed ELSE None)
  BY DEF Checked, Form!body
<1>2. Form!SymbolError = None
  BY NothingFound DEF Checked
<1>3. SUFFICES ASSUME w.body.symbol # None, titles # None
               PROVE  \/ \E t \in titles : Form!fold(t.symbol) = Form!fold(w.body.symbol)
                      \/ confirmed = w.body.symbol
                      \/ picked # None /\ picked.symbol = w.body.symbol
  BY DEF Form!Agreed
<1>4. Form!FIELDS(type).security /\ w.body.symbol = Form!typed
  BY <1>1, <1>3
<1>5. Form!typed # Form!Blank /\ ~(Form!free /\ confirmed # Form!typed)
  BY <1>2, <1>4 DEF Form!SymbolError, FormIsApart
<1> QED BY <1>3, <1>4, <1>5 DEF Form!free, Form!ledgerNames, Form!Picked

LEMMA CashStep ==
    ASSUME NEW w, Checked(w) PROVE Form!SaidBefore(w.body)
<1> DEFINE has == Form!FIELDS(type)
           said == [event_type |-> type,
                    quantity |-> Form!read(draft, "quantity", has.quantity),
                    unit_price |-> Form!read(draft, "unitPrice", has.unitPrice # "none"),
                    fee |-> Form!read(draft, "fee", has.fee),
                    amount |-> Form!read(draft, "amount", has.amount)]
<1>1. Form!cash = Form!cashFlow(said)
  BY DEF Form!cash, Checked
<1>2. /\ w.body.event_type = said.event_type /\ w.body.quantity = said.quantity
      /\ w.body.unit_price = said.unit_price /\ w.body.fee = said.fee
      /\ w.body.amount = said.amount
  BY DEF Checked, Form!body
<1> HIDE DEF said
<1>3. Form!cashFlow(w.body) = Form!cashFlow(said)
  BY <1>2 DEF Form!cashFlow
<1> QED BY <1>1, <1>3 DEF Form!SaidBefore

(* A render puts a close in the price, and moves no other field.           *)
LEMMA RendersDraft ==
    ASSUME NEW ty, NEW d, NEW answers, NEW put, Form!Renders(ty, d, answers, put),
           DOMAIN d = Form!Fields, d = [f \in DOMAIN d |-> d[f]]
    PROVE  /\ DOMAIN draft' = Form!Fields
           /\ draft' = [f \in DOMAIN draft' |-> draft'[f]]
           /\ \A f \in Form!Fields \ {"unitPrice"} : draft'[f] = d[f]
           /\ type' = ty
BY DEF Form!Renders, Form!Offer

LEMMA FormStart == ASSUME FormIsApart, Form!Init PROVE FormInv
BY DEF FormIsApart, FormInv, IsDraft, Form!Init, Form!EMPTY, Form!Fields

(* A suggestion is a title of the ledger.                                  *)
LEMMA SuggestedIsTitle ==
    ASSUME FormInv, NEW line \in Form!suggestions PROVE line \in Titles
<1>1. titles = Titles /\ line \in UNION Form!Range(Form!titlesFor(titles, Form!typed))
  BY DEF FormInv, Form!suggestions
<1>2. PICK a \in SUBSET titles, b \in SUBSET titles :
         Form!titlesFor(titles, Form!typed) = <<a, b>>
  <2> DEFINE matching == {t \in titles : Form!matchesQuery(Form!typed, {t.symbol, t.name})}
             starting == {t \in matching : Form!startsWithQuery(Form!typed, {t.symbol, t.name})}
  <2>1. Form!titlesFor(titles, Form!typed) = <<starting, matching \ starting>>
    BY DEF Form!titlesFor
  <2>2. starting \in SUBSET titles /\ matching \ starting \in SUBSET titles
    OBVIOUS
  <2> HIDE DEF matching, starting
  <2> QED BY <2>1, <2>2
<1>3. Form!Range(<<a, b>>) = {a, b}
  <2>1. DOMAIN <<a, b>> = {1, 2}
    OBVIOUS
  <2> QED BY <2>1 DEF Form!Range
<1> QED BY <1>1, <1>2, <1>3

LEMMA FormStep ==
    ASSUME FormIsApart, FormInv, [Form!Next]_Form!vars PROVE FormInv'
<1>1. (\A w \in writes : IsRequest(w))'
  <2>1. \A w \in Form!Unread : IsRequest(w)
    BY UnreadSaysNothing
  <2>2. CASE Form!submit
    <3>1. PICK w : w = [row |-> row, body |-> Form!body, read |-> TRUE]
      OBVIOUS
    <3>2. writes' \subseteq writes \cup Form!Unread \cup {w}
      BY <2>2, <3>1 DEF Form!submit, Form!keepWrites
    <3>3. IsRequest(w)
      BY <3>1 DEF IsRequest
    <3> QED BY <2>1, <3>2, <3>3 DEF FormInv
  <2>3. CASE ~Form!submit
    <3>1. writes' \subseteq writes \cup Form!Unread
      BY <2>3 DEF Form!Next, Form!Open, Form!setType, Form!Type, Form!TypeTicker, Form!Choose,
         Form!TakeMeant, Form!Confirm, Form!Pause, Form!close, Form!PriceAnswered,
         Form!TitlesRead, Form!AccountsRead, Form!WriteLands, Form!WriteRefused,
         Form!keepWrites, Form!vars
    <3> QED BY <2>1, <3>1 DEF FormInv
  <2> QED BY <2>2, <2>3
<1>2. titles' \in {None, Titles}
  BY DEF FormInv, Form!Next, Form!Open, Form!setType, Form!Type, Form!TypeTicker, Form!Choose,
     Form!TakeMeant, Form!Confirm, Form!Pause, Form!submit, Form!close, Form!PriceAnswered,
     Form!TitlesRead, Form!AccountsRead, Form!WriteLands, Form!WriteRefused, Form!keepReads,
     Form!vars
<1>3. IsDraft(draft)'
  <2>1. ASSUME NEW ty, NEW d, NEW answers, NEW put, Form!Renders(ty, d, answers, put), IsDraft(d)
        PROVE  IsDraft(draft)'
    BY <2>1, RendersDraft DEF IsDraft, Form!Fields
  <2>2. IsDraft(Form!EMPTY)
    BY DEF FormIsApart, IsDraft, Form!EMPTY, Form!Fields
  <2>3. ASSUME NEW e PROVE IsDraft(Form!draftOf(e))
    BY DEF FormIsApart, IsDraft, Form!draftOf, Form!Fields
  <2>4. ASSUME NEW field, NEW value, Form!set(field, value),
               field = "symbol" => value # None
        PROVE  IsDraft(draft)'
    <3> DEFINE d == [draft EXCEPT ![field] = value]
    <3>1. Form!Renders(type, d, prices, offered)
      BY <2>4 DEF Form!set
    <3>2. IsDraft(d)
      BY <2>4 DEF FormInv, IsDraft, Form!Fields
    <3> HIDE DEF d
    <3> QED BY <2>1, <3>1, <3>2
  <2>5. ASSUME NEW e, Form!Open(e) PROVE IsDraft(draft)'
    BY <2>1, <2>2, <2>3, <2>5 DEF Form!Open
  <2>6. ASSUME NEW field \in Form!Fields \ {"symbol"}, NEW value, Form!Type(field, value)
        PROVE  IsDraft(draft)'
    BY <2>4, <2>6 DEF Form!Type
  <2>7. ASSUME NEW symbol \in Tickers, Form!TypeTicker(symbol) PROVE IsDraft(draft)'
    BY <2>4, <2>7 DEF Form!TypeTicker, FormIsApart
  <2>8. ASSUME NEW line, Form!Choose(line) PROVE IsDraft(draft)'
    <3>1. line \in Form!suggestions \cup Form!yahooLines /\ Form!set("symbol", line.symbol)
      BY <2>8 DEF Form!Choose
    <3>2. line \in Form!suggestions => line \in Titles
      BY SuggestedIsTitle
    <3>3. line.symbol # None
      BY <3>1, <3>2 DEF FormIsApart, Form!yahooLines
    <3> QED BY <2>4, <3>1, <3>3
  <2>9. CASE Form!TakeMeant
    <3>1. PICK t \in Form!didYouMean : Form!set("symbol", t.symbol)
      BY <2>9 DEF Form!TakeMeant
    <3>2. t \in Titles
      BY <3>1 DEF Form!didYouMean, FormInv
    <3> QED BY <2>4, <3>1, <3>2 DEF FormIsApart
  <2>10. CASE Form!PriceAnswered
    BY <2>1, <2>10 DEF Form!PriceAnswered, FormInv
  <2>11. ASSUME NEW candidate, Form!setType(candidate) PROVE IsDraft(draft)'
    BY <2>1, <2>11 DEF Form!setType, FormInv
  <2>12. CASE Form!Confirm \/ Form!Pause \/ Form!submit \/ Form!close \/ Form!TitlesRead
              \/ Form!AccountsRead \/ Form!WriteLands \/ Form!WriteRefused \/ UNCHANGED Form!vars
    BY <2>12 DEF FormInv, IsDraft, Form!Confirm, Form!Pause, Form!submit, Form!close,
       Form!TitlesRead, Form!AccountsRead, Form!WriteLands, Form!WriteRefused, Form!vars
  <2> QED BY <2>5, <2>6, <2>7, <2>8, <2>9, <2>10, <2>11, <2>12 DEF Form!Next
<1> QED BY <1>1, <1>2, <1>3 DEF FormInv


LEMMA FormHolds == ASSUME FormIsApart PROVE Form!Spec => []FormInv
<1>1. Form!Init => FormInv
  BY FormStart
<1>2. FormInv /\ [Form!Next]_Form!vars => FormInv'
  BY FormStep
<1> QED BY <1>1, <1>2, PTL DEF Form!Spec

(* What is sent fits its type, is agreed to, and books what was said.      *)
LEMMA SendsStep ==
    ASSUME FormIsApart, FormInv, [Form!Next]_Form!vars
    PROVE  /\ Form!Sends(Form!FitsItsType)
           /\ Form!Sends(Form!Agreed)
           /\ Form!Sends(Form!SaidBefore)
<1>1. \A w \in writes' \ writes : w.read => Checked(w)
  BY OnlySubmitSends
<1> QED BY <1>1, FitsStep, AgreedStep, CashStep DEF Form!Sends

(* A request holds the fields of its type and no other: what was typed     *)
(* before the type was changed never travels (EventForm.tsx).              *)
THEOREM SendsTheFieldsOfItsType ==
    ASSUME FormIsApart PROVE Form!Spec => Form!SentIsOfItsType
<1>1. FormInv /\ [Form!Next]_Form!vars => [Form!Sends(Form!FitsItsType)]_Form!vars
  BY SendsStep
<1> QED BY <1>1, FormHolds, PTL DEF Form!Spec, Form!SentIsOfItsType

(* A free ticker is stopped until it is confirmed: what is sent is named   *)
(* by the ledger, picked among Yahoo's lines, or agreed to (EventForm.tsx).*)
THEOREM SendsWhatIsAgreed ==
    ASSUME FormIsApart PROVE Form!Spec => Form!FreeTickerIsConfirmed
<1>1. FormInv /\ [Form!Next]_Form!vars => [Form!Sends(Form!Agreed)]_Form!vars
  BY SendsStep
<1> QED BY <1>1, FormHolds, PTL DEF Form!Spec, Form!FreeTickerIsConfirmed

(* The cash the form says is the cash of the event it sends, to the cent   *)
(* (EventForm.tsx).                                                        *)
THEOREM SaysTheCashItBooks ==
    ASSUME FormIsApart PROVE Form!Spec => Form!CashIsBooked
<1>1. FormInv /\ [Form!Next]_Form!vars => [Form!Sends(Form!SaidBefore)]_Form!vars
  BY SendsStep
<1> QED BY <1>1, FormHolds, PTL DEF Form!Spec, Form!CashIsBooked

(* A price the reader types is a figure, and no close says it; a row open  *)
(* is not a sheet closed.                                                  *)
PricesAreTyped ==
    /\ Empty \notin Typed["unitPrice"]
    /\ \A symbol, day : CloseOf(symbol, day) \notin Typed["unitPrice"]
    /\ Shut \notin Stored \cup {None}

(* No close is a typed price, answered or offered, and the question of the *)
(* fields has been asked.                                                  *)
Answers(answers) ==
    /\ answers = [q \in DOMAIN answers |-> answers[q]]
    /\ \A q \in DOMAIN answers :
          answers[q] # Unpriced => Form!Text(answers[q]) \notin Typed["unitPrice"]

PriceInv ==
    /\ offered \notin Typed["unitPrice"]
    /\ Answers(prices)
    /\ Form!Question(type, draft) \in DOMAIN prices \cup {None}

LEMMA AskedAreAnswers ==
    ASSUME NEW question, NEW answers, Answers(answers)
    PROVE  /\ Answers(Form!Asks(question, answers))
           /\ question = None \/ question \in DOMAIN Form!Asks(question, answers)
           /\ question \in DOMAIN answers => Form!Asks(question, answers) = answers
<1>1. CASE question = None
  BY <1>1 DEF Form!Asks
<1>2. CASE question # None
  <2> DEFINE known == [q \in DOMAIN answers \cup {question} |->
                          IF q \in DOMAIN answers THEN answers[q] ELSE Unpriced]
  <2>1. Form!Asks(question, answers) = known
    BY <1>2 DEF Form!Asks
  <2>2. Answers(known)
    BY DEF Answers
  <2>3. question \in DOMAIN answers => known = answers
    <3>1. SUFFICES ASSUME question \in DOMAIN answers PROVE known = answers
      OBVIOUS
    <3>2. known = [q \in DOMAIN answers |-> answers[q]]
      BY <3>1
    <3> QED BY <3>2 DEF Answers
  <2>4. question \in DOMAIN known
    OBVIOUS
  <2> QED BY <2>1, <2>2, <2>3, <2>4
<1> QED BY <1>1, <1>2

(* A render offers a close or leaves the price, and never a typed one.     *)
LEMMA RendersPrice ==
    ASSUME PricesAreTyped, NEW ty, NEW d, NEW answers, NEW put, Form!Renders(ty, d, answers, put),
           IsDraft(d), Answers(answers), put \notin Typed["unitPrice"]
    PROVE  /\ PriceInv'
           /\ prices' = Form!Asks(Form!Question(ty, d), answers)
           /\ d["unitPrice"] \in Typed["unitPrice"] => draft'["unitPrice"] = d["unitPrice"]
<1> DEFINE question == Form!Question(ty, d)
           known == Form!Asks(question, answers)
           next == IF question = None THEN Unpriced ELSE known[question]
           offers == next # suggested /\ next # Unpriced
<1>1. /\ prices' = known /\ type' = ty
      /\ draft' = (IF offers THEN Form!Offer(d, next, put) ELSE d)
      /\ offered' = (IF offers /\ Form!Replaceable(d, put) THEN Form!Text(next) ELSE put)
  BY DEF Form!Renders
<1>2. Answers(known) /\ (question = None \/ question \in DOMAIN known)
  BY AskedAreAnswers
<1>3. next # Unpriced => Form!Text(next) \notin Typed["unitPrice"]
  BY <1>2 DEF Answers
<1>4. offered' \notin Typed["unitPrice"]
  BY <1>1, <1>3
<1>5. /\ DOMAIN draft' = Form!Fields /\ draft'["symbol"] = d["symbol"] /\ draft'["date"] = d["date"]
      /\ d["unitPrice"] \in Typed["unitPrice"] => draft'["unitPrice"] = d["unitPrice"]
  <2>1. CASE draft' = d
    BY <2>1 DEF IsDraft
  <2>2. CASE draft' = Form!Offer(d, next, put)
    <3>1. CASE Form!Replaceable(d, put)
      <4>1. d["unitPrice"] \notin Typed["unitPrice"]
        BY <3>1 DEF Form!Replaceable, PricesAreTyped
      <4>2. draft' = [d EXCEPT !.unitPrice = Form!Text(next)]
        BY <2>2, <3>1 DEF Form!Offer
      <4> QED BY <4>1, <4>2 DEF IsDraft, Form!Fields
    <3>2. CASE ~Form!Replaceable(d, put)
      BY <2>1, <2>2, <3>2 DEF Form!Offer
    <3> QED BY <3>1, <3>2
  <2> QED BY <1>1, <2>1, <2>2
<1>6. (Form!Question(type, draft))' = question
  BY <1>1, <1>5 DEF Form!Question
<1> QED BY <1>1, <1>2, <1>4, <1>5, <1>6 DEF PriceInv

LEMMA PriceStart == ASSUME PricesAreTyped, Form!Init PROVE PriceInv
BY DEF PricesAreTyped, PriceInv, Answers, Form!Init, Form!Question

(* What a step does to the price, over the draft it renders.               *)
KeepsThePrice ==
    \A price \in Typed["unitPrice"] :
        draft["unitPrice"] = price /\ row' = row /\ prices' # prices =>
            draft'["unitPrice"] = price

LEMMA SetPrice ==
    ASSUME PricesAreTyped, FormInv, PriceInv, NEW field \in Form!Fields, NEW value,
           field = "symbol" => value # None, Form!set(field, value)
    PROVE  PriceInv' /\ KeepsThePrice
<1> DEFINE d == [draft EXCEPT ![field] = value]
<1>1. Form!Renders(type, d, prices, offered)
  BY DEF Form!set
<1>2. IsDraft(d)
  BY DEF FormInv, IsDraft, Form!Fields
<1>3. field # "unitPrice" => d["unitPrice"] = draft["unitPrice"]
  BY DEF FormInv, IsDraft, Form!Fields
<1>4. field = "unitPrice" => Form!Question(type, d) = Form!Question(type, draft)
  BY DEF FormInv, IsDraft, Form!Fields, Form!Question
<1> HIDE DEF d
<1>5. /\ PriceInv' /\ prices' = Form!Asks(Form!Question(type, d), prices)
      /\ d["unitPrice"] \in Typed["unitPrice"] => draft'["unitPrice"] = d["unitPrice"]
  BY <1>1, <1>2, RendersPrice DEF PriceInv
<1>6. CASE field = "unitPrice"
  <2>1. prices' = prices
    <3>1. Form!Question(type, d) = None => prices' = prices
      BY <1>5 DEF Form!Asks
    <3>2. Form!Question(type, d) \in DOMAIN prices => prices' = prices
      BY <1>5, AskedAreAnswers DEF PriceInv
    <3> QED BY <1>4, <1>6, <3>1, <3>2 DEF PriceInv
  <2> QED BY <1>5, <2>1 DEF KeepsThePrice
<1>7. CASE field # "unitPrice"
  BY <1>3, <1>5, <1>7 DEF KeepsThePrice
<1> QED BY <1>6, <1>7

LEMMA PriceStep ==
    ASSUME FormIsApart, PricesAreTyped, FormInv, PriceInv, [Form!Next]_Form!vars
    PROVE  PriceInv' /\ KeepsThePrice
<1>1. ASSUME NEW e \in Stored \cup {None}, Form!Open(e) PROVE PriceInv' /\ KeepsThePrice
  <2>1. row' # row
    BY <1>1 DEF Form!Open, PricesAreTyped
  <2>2. IsDraft(Form!EMPTY) /\ IsDraft(Form!draftOf(e))
    BY DEF FormIsApart, IsDraft, Form!EMPTY, Form!draftOf, Form!Fields
  <2>3. PriceInv'
    BY <1>1, <2>2, RendersPrice DEF Form!Open, PriceInv, PricesAreTyped
  <2> QED BY <2>1, <2>3 DEF KeepsThePrice
<1>2. ASSUME NEW candidate, Form!setType(candidate) PROVE PriceInv' /\ KeepsThePrice
  BY <1>2, RendersPrice DEF Form!setType, FormInv, PriceInv, KeepsThePrice
<1>3. ASSUME NEW field \in Form!Fields \ {"symbol"}, NEW value, Form!Type(field, value)
      PROVE  PriceInv' /\ KeepsThePrice
  BY <1>3, SetPrice DEF Form!Type
<1>4. ASSUME NEW symbol \in Tickers, Form!TypeTicker(symbol) PROVE PriceInv' /\ KeepsThePrice
  BY <1>4, SetPrice DEF Form!TypeTicker, FormIsApart, Form!Fields
<1>5. ASSUME NEW line, Form!Choose(line) PROVE PriceInv' /\ KeepsThePrice
  <2>1. line \in Form!suggestions \cup Form!yahooLines /\ Form!set("symbol", line.symbol)
    BY <1>5 DEF Form!Choose
  <2>2. line \in Form!suggestions => line \in Titles
    BY SuggestedIsTitle
  <2>3. line.symbol # None
    BY <2>1, <2>2 DEF FormIsApart, Form!yahooLines
  <2> QED BY <2>1, <2>3, SetPrice DEF Form!Fields
<1>6. CASE Form!TakeMeant
  <2>1. PICK t \in Form!didYouMean : Form!set("symbol", t.symbol)
    BY <1>6 DEF Form!TakeMeant
  <2>2. t.symbol # None
    BY <2>1 DEF Form!didYouMean, FormInv, FormIsApart
  <2> QED BY <2>1, <2>2, SetPrice DEF Form!Fields
<1>7. CASE Form!PriceAnswered
  <2>1. PICK q \in DOMAIN prices :
           /\ prices[q] = Unpriced
           /\ Form!Renders(type, draft, [prices EXCEPT ![q] = CloseOf(q[1], q[2])], offered)
    BY <1>7 DEF Form!PriceAnswered
  <2> DEFINE answers == [prices EXCEPT ![q] = CloseOf(q[1], q[2])]
  <2>2. Form!Text(CloseOf(q[1], q[2])) \notin Typed["unitPrice"]
    BY DEF Form!Text, PricesAreTyped
  <2>3. Answers(answers)
    BY <2>2 DEF PriceInv, Answers
  <2> HIDE DEF answers
  <2>4. PriceInv' /\ (draft["unitPrice"] \in Typed["unitPrice"] =>
                         draft'["unitPrice"] = draft["unitPrice"])
    BY <2>1, <2>3, RendersPrice DEF FormInv, PriceInv, answers
  <2> QED BY <2>4 DEF KeepsThePrice
<1>8. CASE Form!Confirm \/ Form!Pause \/ Form!submit \/ Form!close \/ Form!TitlesRead
            \/ Form!AccountsRead \/ Form!WriteLands \/ Form!WriteRefused \/ UNCHANGED Form!vars
  <2>1. UNCHANGED <<type, draft, prices, offered>>
    BY <1>8 DEF Form!Confirm, Form!Pause, Form!submit, Form!close, Form!TitlesRead,
       Form!AccountsRead, Form!WriteLands, Form!WriteRefused, Form!vars
  <2>2. PriceInv'
    BY <2>1 DEF PriceInv, Form!Question, Answers
  <2> QED BY <2>1, <2>2 DEF KeepsThePrice
<1> QED BY <1>1, <1>2, <1>3, <1>4, <1>5, <1>6, <1>7, <1>8 DEF Form!Next

(* A figure the reader typed is never replaced by the price suggested for  *)
(* a grant (EventForm.tsx).                                                *)
THEOREM KeepsTheTypedPrice ==
    ASSUME FormIsApart, PricesAreTyped PROVE Form!Spec => Form!TypedPriceIsKept
<1>1. FormInv /\ [Form!Next]_Form!vars => FormInv'
  BY FormStep
<1>2. Form!Init => PriceInv
  BY PriceStart
<1>3. FormInv /\ PriceInv /\ [Form!Next]_Form!vars => PriceInv' /\ [KeepsThePrice]_Form!vars
  BY PriceStep
<1>4. [KeepsThePrice]_Form!vars =>
         [\A price \in Typed["unitPrice"] :
             draft.unitPrice = price /\ row' = row /\ prices' # prices =>
                 draft'.unitPrice = price]_Form!vars
  BY DEF KeepsThePrice
<1> QED BY <1>2, <1>3, <1>4, FormHolds, PTL DEF Form!Spec, Form!TypedPriceIsKept

=============================================================================

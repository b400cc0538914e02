----------------------------- MODULE FileImport -----------------------------
(***************************************************************************)
(* useEventUpload (features/data/components/UploadZone.tsx): the import of *)
(* a batch of files, previewed by one request and written by another that  *)
(* sends the same files again.                                             *)
(*                                                                         *)
(* A mutation's callbacks run when its answer comes, even after the hook   *)
(* reset the mutation: reset and a new mutate only stop the hook from      *)
(* reading its state.  A request in flight has a flag, seen, for that.     *)
(*                                                                         *)
(* The server judges a reading of the files; that it accepts or refuses    *)
(* is its choice, what it counts is the constant FilesCensus.              *)
(***************************************************************************)
EXTENDS ImportAnswers

CONSTANTS
    Batches,           \* the sequences of files a reader hands over
    FilesCensus(_, _), \* files and correspondence -> the census of a reading
    MaxWrites,         \* bound: imports written
    MaxFlights         \* bound: readings of files in flight

VARIABLES
    held,      \* the files in hand, in the order they are sent
    answer,    \* what the reader answered about them
    standing,  \* the forecast on screen
    previews,  \* readings in flight
    previewError, \* the last reading's refusal, while the hook reads it
    writings,  \* writes in flight
    written,   \* write.data: the receipt of the last write the hook reads
    writeError,
    imports    \* writes that landed so far; names a receipt

fileVars == <<held, answer, standing, previews, previewError, writings, written,
              writeError, imports>>

FileInit ==
    /\ held = <<>> /\ answer = NO_ANSWER /\ standing = None
    /\ previews = {} /\ previewError = FALSE
    /\ writings = {} /\ written = None /\ writeError = FALSE
    /\ imports = 0

previewPending == \E p \in previews : p.seen
writePending == \E w \in writings : w.seen
filePending == previewPending \/ writePending

Unseen(flights) == {[f EXCEPT !.seen = FALSE] : f \in flights}

Handed(files, given) ==
    [subject |-> files, answer |-> given, census |-> None, seen |-> TRUE]

(* preview.mutate: the hook reads this mutation from now on.               *)
Preview(files, given) ==
    /\ Cardinality(previews) < MaxFlights
    /\ previews' = Unseen(previews) \cup {Handed(files, given)}
    /\ previewError' = FALSE

(* write.reset().                                                          *)
WriteReset ==
    /\ writings' = Unseen(writings)
    /\ written' = None
    /\ writeError' = FALSE

-----------------------------------------------------------------------------
(* What the reader does with the hook *)

(* A batch is handed over; a new one replaces the one in hand.             *)
Hand(files) ==
    /\ ~filePending
    /\ WriteReset
    /\ standing' = None
    /\ held' = files
    /\ answer' = NO_ANSWER
    /\ Preview(files, NO_ANSWER)
    /\ UNCHANGED imports

(* The batch is put down.  Nothing of it stops a request in flight.        *)
Discard ==
    /\ held' = <<>> /\ answer' = NO_ANSWER /\ standing' = None
    /\ previews' = Unseen(previews) /\ previewError' = FALSE
    /\ WriteReset
    /\ UNCHANGED imports

Without(files, index) ==
    SubSeq(files, 1, index - 1) \o SubSeq(files, index + 1, Len(files))

(* One file is taken out and the rest read again, unanswered; the last one *)
(* out puts the batch down.                                                *)
Drop(index) ==
    /\ ~filePending /\ index \in DOMAIN held
    /\ IF Len(held) = 1
       THEN Discard
       ELSE LET rest == Without(held, index) IN
            /\ WriteReset
            /\ standing' = None
            /\ held' = rest
            /\ answer' = NO_ANSWER
            /\ Preview(rest, NO_ANSWER)
            /\ UNCHANGED imports

(* An answer is kept and the same files are read again under it.           *)
Reconsider(next) ==
    /\ held # <<>> /\ ~filePending
    /\ answer' = next
    /\ Preview(held, next)
    /\ UNCHANGED <<held, standing, writings, written, writeError, imports>>

(* The files are sent again, to be written.                                *)
Commit(declineCurrency) ==
    /\ held # <<>> /\ standing # None /\ ~filePending
    /\ imports + Cardinality(writings) < MaxWrites
    /\ writings' = Unseen(writings) \cup
           {[request |-> WriteRequest(held, answer, standing),
             declineCurrency |-> declineCurrency,
             foreign |-> IF answer.amountsIn # None THEN standing.file.foreign ELSE {},
             census |-> standing.file,
             seen |-> TRUE]}
    /\ written' = None /\ writeError' = FALSE
    /\ UNCHANGED <<held, answer, standing, previews, previewError, imports>>

-----------------------------------------------------------------------------
(* What the server answers *)

Stands(p, forecast) ==
    /\ standing' = forecast
    /\ previews' = previews \ {p}
    /\ UNCHANGED <<held, answer, previewError, writings, written, writeError, imports>>

(* The first reading, accepted: the forecast, or a second reading under    *)
(* what the answer writes besides.                                         *)
CensusRead(p) ==
    LET census == FilesCensus(p.subject, p.answer.correspondence)
        request == CensusRequest(p.subject, p.answer) IN
    /\ p.census = None
    /\ IF OneReading(census, p.answer)
       THEN Stands(p, Forecast(census, Written(census, request), FALSE, request))
       ELSE /\ previews' = (previews \ {p}) \cup {[p EXCEPT !.census = census]}
            /\ UNCHANGED <<held, answer, standing, previewError, writings, written,
                           writeError, imports>>

SecondRequest(p) ==
    importEvents(p.subject, p.answer, p.answer.writeDuplicates,
                 repeatsToWrite(p.census, p.answer.collapsed))

SecondRead(p) ==
    /\ p.census # None
    /\ Stands(p, Forecast(p.census, Written(p.census, SecondRequest(p)), FALSE,
                          SecondRequest(p)))

(* The second reading refused stands beside the census.                    *)
SecondRefused(p) ==
    /\ p.census # None
    /\ Stands(p, Forecast(p.census, None, TRUE, None))

(* A mutant: no onError, the standing forecast keeps its writable half.    *)
CensusRefusedKept(p) ==
    /\ p.census = None
    /\ previewError' = IF p.seen THEN TRUE ELSE previewError
    /\ previews' = previews \ {p}
    /\ UNCHANGED <<held, answer, standing, writings, written, writeError, imports>>

(* The first reading refused takes the writable half of what stands.       *)
CensusRefused(p) ==
    /\ p.census = None
    /\ standing' = WithoutWriting(standing)
    /\ previewError' = IF p.seen THEN TRUE ELSE previewError
    /\ previews' = previews \ {p}
    /\ UNCHANGED <<held, answer, writings, written, writeError, imports>>

(* The write landed: every read is invalidated, the files are let go of.   *)
WriteLands(w) ==
    /\ imports' = imports + 1
    /\ held' = <<>>
    /\ writings' = writings \ {w}
    /\ written' = IF w.seen THEN [number |-> imports + 1, subject |-> w.request.subject,
                                  rows |-> Written(w.census, w.request)]
                  ELSE written
    /\ UNCHANGED <<answer, standing, previews, previewError, writeError>>

WriteRefused(w) ==
    /\ writings' = writings \ {w}
    /\ writeError' = IF w.seen THEN TRUE ELSE writeError
    /\ UNCHANGED <<held, answer, standing, previews, previewError, written, imports>>

-----------------------------------------------------------------------------
(* What the hook returns (ImportReview) *)

fileForecast == IF writePending \/ written # None THEN None ELSE standing
fileReceipt == IF filePending THEN None ELSE written
fileError ==
    /\ ~filePending /\ written = None
    /\ writeError \/ previewError \/ (standing # None /\ standing.refused)

FileReview ==
    [held |-> held # <<>>, names |-> Len(held), forecast |-> fileForecast,
     pending |-> filePending, error |-> fileError, statement |-> None]
=============================================================================

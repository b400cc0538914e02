--------------------------- MODULE ProposalImport ---------------------------
(***************************************************************************)
(* useProposalImport (features/data/lib/proposalImport.ts): the same       *)
(* window over the rows an agent proposed.  The server keeps the proposal  *)
(* and not the answers: every reading and the merge carry the answer and   *)
(* the edits of a statement (a ticker for a line, a price for a gap).      *)
(*                                                                         *)
(* The address names the proposal on screen; closing takes it out of the   *)
(* address.  A reading that lands for another proposal is let go of.       *)
(***************************************************************************)
EXTENDS ImportAnswers

CONSTANTS
    Proposals,             \* ids of proposals
    ProposalCensus(_, _),  \* proposal and edits -> the census of a reading
    Lines,                 \* lines of a statement without a ticker
    Gaps,                  \* symbols of a statement without a price
    MaxReads,              \* bound: readings of proposals in flight
    MaxMerges              \* bound: merges

VARIABLES
    id,         \* the proposal of the address
    given,      \* what the reader answered about it
    edits,      \* the tickers picked and the prices typed
    reading,    \* the forecast on screen
    reads,      \* readings in flight
    readError,
    merges,     \* merges in flight
    mergeError,
    fates       \* proposal -> what the server says of it

proposalVars == <<id, given, edits, reading, reads, readError, merges, mergeError, fates>>

(* A proposal can be merged, was decided (merged, ignored, expired), or    *)
(* was made against another ledger.                                        *)
Fates == {"ready", "decided", "stale"}

NO_EDITS == [symbols |-> {}, prices |-> {}]
StatementEdits == [symbols : SUBSET Lines, prices : SUBSET Gaps]

ProposalInit ==
    /\ id = None /\ given = NO_ANSWER /\ edits = NO_EDITS /\ reading = None
    /\ reads = {} /\ readError = FALSE /\ merges = {} /\ mergeError = FALSE
    /\ fates = [p \in Proposals |-> "ready"]

proposalPending == (\E r \in reads : r.seen) \/ (\E w \in merges : w.seen)

LetGo(flights) == {[f EXCEPT !.seen = FALSE] : f \in flights}

(* The parameters of /preview and /merge: no correspondence travels.       *)
Sent(next) == [next EXCEPT !.correspondence = NO_CORRESPONDENCE]
Subject(proposal, edited) == [proposal |-> proposal, edits |-> edited]

(* read.mutate.                                                            *)
Read(proposal, next, edited) ==
    /\ Cardinality(reads) < MaxReads
    /\ reads' = LetGo(reads) \cup
           {[proposal |-> proposal, subject |-> Subject(proposal, edited),
             answer |-> Sent(next), census |-> None, seen |-> TRUE]}
    /\ readError' = FALSE

-----------------------------------------------------------------------------
(* What the reader does *)

(* The address names a proposal: its first reading starts, from nothing.   *)
Review(proposal) ==
    /\ proposal # id
    /\ id' = proposal
    /\ reading' = None /\ given' = NO_ANSWER /\ edits' = NO_EDITS
    /\ merges' = LetGo(merges) /\ mergeError' = FALSE
    /\ Read(proposal, NO_ANSWER, NO_EDITS)
    /\ UNCHANGED fates

(* The address stops naming one: onClose, and the effect of the id.        *)
Closes ==
    /\ id' = None
    /\ reading' = None /\ given' = NO_ANSWER /\ edits' = NO_EDITS
    /\ readError' = FALSE /\ mergeError' = FALSE

DiscardProposal ==
    /\ id # None
    /\ Closes
    /\ reads' = LetGo(reads) /\ merges' = LetGo(merges)
    /\ UNCHANGED fates

ReconsiderProposal(next) ==
    /\ id # None /\ ~proposalPending
    /\ given' = next
    /\ Read(id, next, edits)
    /\ UNCHANGED <<id, edits, reading, merges, mergeError, fates>>

(* An edit is kept, and the proposal read again under it.                  *)
Edit(next) ==
    /\ id # None /\ ~proposalPending
    /\ edits' = next
    /\ Read(id, given, next)
    /\ UNCHANGED <<id, given, reading, merges, mergeError, fates>>

(* A ticker picked for a line that has none: once it has one the reading   *)
(* no longer lists it, and nothing takes it back.                          *)
Pick(line) == Edit([edits EXCEPT !.symbols = @ \cup {line}])

(* A price typed for a gap: GapPrice hands up a number and no withdrawal.  *)
Price(symbol) == Edit([edits EXCEPT !.prices = @ \cup {symbol}])

Merge ==
    /\ id # None /\ reading # None /\ ~proposalPending
    /\ Cardinality(merges) < MaxMerges
    /\ merges' = LetGo(merges) \cup
           {[proposal |-> id, seen |-> TRUE,
             request |-> WriteRequest(Subject(id, edits), Sent(given), reading),
             foreign |-> IF given.amountsIn # None THEN reading.file.foreign ELSE {}]}
    /\ mergeError' = FALSE
    /\ UNCHANGED <<id, given, edits, reading, reads, readError, fates>>

-----------------------------------------------------------------------------
(* What the server answers *)

ReadStands(r, forecast) ==
    /\ reads' = reads \ {r}
    /\ reading' = IF r.proposal = id THEN forecast ELSE reading
    /\ UNCHANGED <<id, given, edits, readError, merges, mergeError, fates>>

ProposalRead(r) ==
    LET census == ProposalCensus(r.proposal, r.subject.edits)
        request == CensusRequest(r.subject, r.answer) IN
    /\ r.census = None /\ fates[r.proposal] = "ready"
    /\ IF OneReading(census, r.answer)
       THEN ReadStands(r, Forecast(census, Written(census, request), FALSE, request))
       ELSE /\ reads' = (reads \ {r}) \cup {[r EXCEPT !.census = census]}
            /\ UNCHANGED <<id, given, edits, reading, readError, merges, mergeError, fates>>

SecondProposalRequest(r) ==
    importEvents(r.subject, r.answer, r.answer.writeDuplicates,
                 repeatsToWrite(r.census, r.answer.collapsed))

SecondProposalRead(r) ==
    /\ r.census # None /\ fates[r.proposal] = "ready"
    /\ ReadStands(r, Forecast(r.census, Written(r.census, SecondProposalRequest(r)), FALSE,
                              SecondProposalRequest(r)))

(* A second reading refused, for any reason, stands beside the census.     *)
SecondProposalRefused(r) ==
    /\ r.census # None
    /\ ReadStands(r, Forecast(r.census, None, TRUE, None))

(* The proposal cannot be acted on any more: the window closes, whichever  *)
(* proposal it is on by then.                                              *)
ReadClosed(r) ==
    /\ r.census = None /\ fates[r.proposal] # "ready"
    /\ reads' = LetGo(reads \ {r})
    /\ Closes
    /\ merges' = LetGo(merges)
    /\ UNCHANGED fates

(* Refused for another reason: the writable half leaves.                   *)
ReadRefused(r) ==
    /\ r.census = None
    /\ reading' = WithoutWriting(reading)
    /\ readError' = IF r.seen THEN TRUE ELSE readError
    /\ reads' = reads \ {r}
    /\ UNCHANGED <<id, given, edits, merges, mergeError, fates>>

MergeLands(w) ==
    /\ fates[w.proposal] = "ready"
    /\ fates' = [p \in Proposals |-> IF p = w.proposal THEN "decided"
                                     ELSE IF fates[p] = "ready" THEN "stale" ELSE fates[p]]
    /\ merges' = LetGo(merges \ {w})
    /\ Closes
    /\ reads' = LetGo(reads)

MergeClosed(w) ==
    /\ fates[w.proposal] # "ready"
    /\ merges' = LetGo(merges \ {w})
    /\ Closes
    /\ reads' = LetGo(reads)
    /\ UNCHANGED fates

MergeRefused(w) ==
    /\ merges' = merges \ {w}
    /\ mergeError' = IF w.seen THEN TRUE ELSE mergeError
    /\ UNCHANGED <<id, given, edits, reading, reads, readError, fates>>

(* The ledger is written elsewhere, or the proposal decided elsewhere.     *)
Elsewhere(p) ==
    /\ fates[p] = "ready"
    /\ \E fate \in {"decided", "stale"} : fates' = [fates EXCEPT ![p] = fate]
    /\ UNCHANGED <<id, given, edits, reading, reads, readError, merges, mergeError>>

-----------------------------------------------------------------------------
(* What the hook returns (ImportReview) *)

proposalError ==
    ~proposalPending /\ (mergeError \/ readError \/ (reading # None /\ reading.refused))

ProposalReview ==
    [held |-> id # None, names |-> IF reading = None THEN 0 ELSE 1, forecast |-> reading,
     pending |-> proposalPending, error |-> proposalError,
     statement |-> IF reading = None THEN None ELSE reading.file.statement]
=============================================================================

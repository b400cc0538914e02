--------------------------- MODULE ImportPreview ---------------------------
(***************************************************************************)
(* The import window (features/data/components/ImportPreview.tsx) over the *)
(* two hooks the ledger page mounts, of files and of the agent's proposal. *)
(*                                                                         *)
(* The window keeps the reader's answers for the screen; the hook keeps    *)
(* the answer it sends.  Every answer is read again by the server before   *)
(* the button can write it.  No refusal arrives after the button.          *)
(***************************************************************************)
EXTENDS FileImport, ProposalImport

VARIABLES
    window,     \* what the reader answered on screen
    declared,   \* the declared accounts, None until they are read
    base,       \* whether the reporting currency is known
    dismissed   \* the receipt the reader dismissed

windowVars == <<window, declared, base, dismissed>>
vars == <<fileVars, proposalVars, windowVars>>

Windows ==
    [chosen : [Labels -> Targets \cup {None}], writeDuplicates : BOOLEAN,
     collapsed : (SUBSET Nat) \cup {None}, adoptCurrency : BOOLEAN,
     amountsIn : AmountsIn \cup {None}, lastFile : BOOLEAN]

Unsaid ==
    [chosen |-> NothingChosen, writeDuplicates |-> FALSE, collapsed |-> None,
     adoptCurrency |-> TRUE, amountsIn |-> None, lastFile |-> FALSE]

(* The ledger mounts one window, over the proposal if the address has one. *)
Upload == IF id # None THEN ProposalReview ELSE FileReview

(* A mutant: the box of the duplicates stays ticked.                       *)
forgetAnswersButBox(w) ==
    [Unsaid EXCEPT !.lastFile = w.lastFile, !.writeDuplicates = w.writeDuplicates]

forgetAnswers(w) == [Unsaid EXCEPT !.lastFile = w.lastFile]

(* What a render makes of the answers: those of a batch that was put down  *)
(* or written are forgotten.                                               *)
Rendered(w, upload) ==
    IF ~upload.held /\ (w.lastFile \/ w.chosen # NothingChosen \/ w.amountsIn # None)
    THEN Unsaid
    ELSE IF upload.held /\ upload.forecast # None /\ ~w.lastFile
         THEN [w EXCEPT !.lastFile = TRUE]
         ELSE w

Renders(w) == window' = Rendered(w, Upload')

-----------------------------------------------------------------------------
(* What the window shows *)

forecast == Upload.forecast
Ready == Upload.held /\ forecast # None /\ declared # None
linesUnder(chosen) ==
    accountLines(IF forecast = None THEN {} ELSE forecast.file.names, declared, chosen)
lines == linesUnder(window.chosen)
missing == unanswered(lines)
asking == base /\ forecast.file.foreign # {}
currencyMissing == asking /\ window.amountsIn = None
kept == keptAsOne(window.collapsed, forecast.file.rows)

statementBlocked ==
    Upload.statement # None /\
    (Upload.statement.unresolved # {} \/ Upload.statement.unpriced # {})

(* The button of the footer is enabled.                                    *)
CanImport ==
    /\ Ready
    /\ forecast.writing # None
    /\ forecast.writing # 0
    /\ missing = {}
    /\ ~currencyMissing
    /\ ~statementBlocked
    /\ ~Upload.pending

(* The selectors of the accounts: shown unless every line is settled, and  *)
(* only a label that names an account can be declared.                     *)
AccountsBlock == \E name \in DOMAIN lines : ~Settled(name, declared)
AccountChoices(name) ==
    {Default} \cup declared \cup (IF name = Blank THEN {} ELSE {DECLARE})

(* A radio of the currency, one not checked or, after a refusal, either.   *)
ForeignBlock(value) == asking /\ (window.amountsIn # value \/ Upload.error)

(* One group kept once or written whole, or, from two groups on, all.      *)
RepeatsBlock ==
    LET groups == repeatGroups(forecast.file.rows) IN
    ({kept \cup {first} : first \in groups} \cup {kept \ {first} : first \in groups}
     \cup (IF Cardinality(groups) >= 2 THEN {{}, groups} ELSE {})) \ {kept}

(* The files are listed from two on, each with its remove button.          *)
FilesBlock == IF Upload.names > 1 /\ ~Upload.pending THEN 1 .. Upload.names ELSE {}

HeldBlock == heldRows(forecast.file.rows) # {}
CurrencyBlock == forecast.file.adopting

(* A mutant: a receipt is dismissed by the files it names.                 *)
UploadReceiptByName ==
    IF fileReceipt = None
       \/ (dismissed # None /\ dismissed.subject = fileReceipt.subject) THEN None
    ELSE receiptMessage(TRUE, FALSE, fileReceipt.rows, 0)

(* The sentence of the receipt under the ledger, None while there is none. *)
UploadReceipt ==
    IF fileReceipt = None \/ dismissed = fileReceipt THEN None
    ELSE receiptMessage(TRUE, FALSE, fileReceipt.rows, 0)

(* The sentence of the footer, None while there is none: what would be     *)
(* written, or that nothing would.                                         *)
foreseen ==
    IF ~Ready \/ forecast.writing = None THEN None
    ELSE receiptMessage(FALSE, forecast.writing = 0 /\ forecast.file.rows = {},
                        forecast.writing, Cardinality(forecast.file.rows))

(* What the button would ask the server to write.                          *)
ButtonRequest ==
    IF id # None THEN WriteRequest(Subject(id, edits), Sent(given), forecast)
    ELSE WriteRequest(held, answer, forecast)

-----------------------------------------------------------------------------
(* What the reader does in the window *)

keepFiles == UNCHANGED fileVars
keepProposal == UNCHANGED proposalVars
keepReads == UNCHANGED <<declared, base, dismissed>>

Reconsiders(w) ==
    LET next == Answer(correspondenceOf(linesUnder(w.chosen)), w.writeDuplicates,
                       w.amountsIn, w.collapsed) IN
    /\ IF id # None THEN ReconsiderProposal(next) /\ keepFiles
       ELSE Reconsider(next) /\ keepProposal
    /\ Renders(w)
    /\ keepReads

AnswerAccount(name, target) ==
    /\ Ready /\ AccountsBlock
    /\ name \in DOMAIN lines /\ target \in AccountChoices(name) /\ target # lines[name]
    /\ Reconsiders([window EXCEPT !.chosen[name] = target])

DecideDuplicates ==
    /\ Ready /\ HeldBlock
    /\ Reconsiders([window EXCEPT !.writeDuplicates = ~@])

DecideCurrency(value) ==
    /\ Ready /\ ForeignBlock(value)
    /\ Reconsiders([window EXCEPT !.amountsIn = value])

DecideRepeats(next) ==
    /\ Ready /\ next \in RepeatsBlock
    /\ Reconsiders([window EXCEPT !.collapsed = next])

ToggleAdoption ==
    /\ Ready /\ CurrencyBlock /\ ~Upload.pending
    /\ window' = [window EXCEPT !.adoptCurrency = ~@]
    /\ keepFiles /\ keepProposal /\ keepReads

(* A file taken out: what was said was about files no longer all there.    *)
Remove(index) ==
    /\ id = None /\ index \in FilesBlock
    /\ Drop(index) /\ keepProposal
    /\ Renders(forgetAnswers(window))
    /\ keepReads

Import ==
    /\ CanImport
    /\ IF id # None THEN Merge /\ keepFiles
       ELSE Commit(~window.adoptCurrency) /\ keepProposal
    /\ Renders(window)
    /\ keepReads

(* Closing is refusing, a request in flight or not.                        *)
Close ==
    /\ Upload.held
    /\ IF id # None THEN DiscardProposal /\ keepFiles
       ELSE Discard /\ keepProposal
    /\ Renders(window)
    /\ keepReads

(* The two edits of a statement's review.                                  *)
EditStatement ==
    /\ Ready /\ Upload.statement # None
    /\ \/ \E line \in Upload.statement.unresolved : Pick(line)
       \/ \E symbol \in Upload.statement.gaps : Price(symbol)
    /\ keepFiles
    /\ Renders(window)
    /\ keepReads

(* The page under the window: a batch is handed over, or a proposal comes  *)
(* into the address.  The window is modal, so both find it closed.         *)
HandOver(files) ==
    /\ ~Upload.held
    /\ Hand(files) /\ keepProposal
    /\ Renders(window)
    /\ keepReads

OpenReview(proposal) ==
    /\ ~Upload.held
    /\ Review(proposal) /\ keepFiles
    /\ Renders(window)
    /\ keepReads

DismissReceipt ==
    /\ UploadReceipt # None
    /\ dismissed' = fileReceipt
    /\ UNCHANGED <<fileVars, proposalVars, window, declared, base>>

-----------------------------------------------------------------------------
(* What the server answers, and what happens elsewhere *)

AccountsRead ==
    /\ declared' \in {a \in SUBSET Declarable : declared = None \/ declared \subseteq a}
    /\ declared' # declared
    /\ keepFiles /\ keepProposal
    /\ Renders(window)
    /\ UNCHANGED <<base, dismissed>>

(* A write moves the ledger: no open proposal was made against it any more.*)
FileWritten(w) ==
    /\ WriteLands(w)
    /\ fates' = [p \in Proposals |-> IF fates[p] = "ready" THEN "stale" ELSE fates[p]]
    /\ UNCHANGED <<id, given, edits, reading, reads, readError, merges, mergeError>>

FileAnswered ==
    /\ \/ \E p \in previews :
            CensusRead(p) \/ SecondRead(p) \/ SecondRefused(p) \/ CensusRefused(p)
       \/ \E w \in writings : WriteRefused(w)
    /\ keepProposal

ProposalAnswered ==
    /\ \/ \E r \in reads : ProposalRead(r) \/ SecondProposalRead(r)
                           \/ SecondProposalRefused(r) \/ ReadClosed(r) \/ ReadRefused(r)
       \/ \E w \in merges : MergeLands(w) \/ MergeClosed(w) \/ MergeRefused(w)
    /\ keepFiles

Answered ==
    /\ FileAnswered \/ ProposalAnswered \/ (\E w \in writings : FileWritten(w))
    /\ Renders(window)
    /\ keepReads

DecidedElsewhere ==
    /\ \E p \in Proposals : Elsewhere(p)
    /\ keepFiles
    /\ UNCHANGED windowVars

-----------------------------------------------------------------------------
Init ==
    /\ FileInit /\ ProposalInit
    /\ window = Unsaid /\ declared = None /\ base \in BOOLEAN /\ dismissed = None

Next ==
    \/ \E name \in Labels, target \in Targets : AnswerAccount(name, target)
    \/ DecideDuplicates
    \/ \E value \in AmountsIn : DecideCurrency(value)
    \/ Ready /\ \E next \in SUBSET repeatGroups(forecast.file.rows) : DecideRepeats(next)
    \/ ToggleAdoption
    \/ \E index \in 1 .. 2 : Remove(index)
    \/ Import
    \/ Close
    \/ EditStatement
    \/ \E files \in Batches : HandOver(files)
    \/ \E proposal \in Proposals : OpenReview(proposal)
    \/ DismissReceipt
    \/ AccountsRead
    \/ Answered
    \/ DecidedElsewhere

Spec == Init /\ [][Next]_vars

-----------------------------------------------------------------------------
(* What must hold *)

TypeOK ==
    /\ held \in Batches \cup {<<>>}
    /\ \A p \in previews : p.subject \in Batches /\ p.seen \in BOOLEAN
    /\ id \in Proposals \cup {None} /\ edits \in StatementEdits
    /\ fates \in [Proposals -> Fates]
    /\ window \in Windows
    /\ declared \in {None} \cup SUBSET Declarable
    /\ imports \in 0 .. MaxWrites

(* No refusal arrives after the button: while the button is enabled, the   *)
(* request it would send, of the files or of the proposal, is the one the  *)
(* server accepted in the forecast on screen: same rows, same accounts,    *)
(* same currency, same duplicates, same repeats.                           *)
ButtonIsJudged == CanImport => forecast.judged = ButtonRequest

(* What is ticked is what is sent: at rest the answers on screen are those *)
(* the hook would send, and none of them outlives its batch.  The accounts *)
(* are sent with files alone (proposalImport.ts, query).                   *)
ScreenIsSent ==
    Ready /\ ~Upload.pending =>
        LET sent == IF id # None THEN given ELSE answer IN
        /\ window.writeDuplicates = sent.writeDuplicates
        /\ window.amountsIn = sent.amountsIn
        /\ keptAsOne(window.collapsed, forecast.file.rows)
               = keptAsOne(sent.collapsed, forecast.file.rows)
        /\ id = None =>
               \A name \in DOMAIN lines :
                   window.chosen[name] # None =>
                       lines[name] = IF name \in sent.correspondence.declaring THEN DECLARE
                                     ELSE sent.correspondence.mapping[name]

(* The button is never grey without a reason on screen: a refusal, a line  *)
(* without an account, the question of the currency, a statement's line to *)
(* fill, or a footer that says there is nothing to write.                  *)
DisabledSaysWhy ==
    Ready /\ ~Upload.pending /\ ~CanImport =>
        \/ Upload.error \/ missing # {} \/ currencyMissing \/ statementBlocked
        \/ foreseen \in {"nothingNew", "import.forecast.empty"}

(* The files the button would send are those the forecast describes.       *)
ForecastIsOfHeld == CanImport /\ id = None => forecast.judged.subject = held

(* An import whose window was not closed on it says its sentence: the step *)
(* that lands its write shows a receipt, whatever was dismissed before.    *)
EveryImportSays ==
    [][\A w \in writings \ writings' :
           w.seen /\ imports' # imports
               => UploadReceipt' # None /\ fileReceipt' # fileReceipt]_vars

(* A reading of another proposal is let go of: what stands on screen was   *)
(* judged about the proposal of the address.                               *)
ReadingIsOfItsProposal ==
    reading # None /\ reading.judged # None => reading.judged.subject.proposal = id
=============================================================================

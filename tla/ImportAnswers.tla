--------------------------- MODULE ImportAnswers ---------------------------
(***************************************************************************)
(* What the import preview asks and what a request answers                 *)
(* (features/data/lib/imports.ts, the types of UploadZone.tsx, api.ts).    *)
(*                                                                         *)
(* A reading answers a census: the accounts the rows name, the rows that   *)
(* repeat another, the foreign lines.  An answer of the reader is four     *)
(* things judged together: where each account goes, whether the rows the   *)
(* ledger holds are written, the currency of the amounts, and the groups   *)
(* of identical lines kept once.                                           *)
(***************************************************************************)
EXTENDS Naturals, FiniteSets, Sequences

CONSTANTS
    Labels,       \* account names a file may carry
    Blank,        \* the blank account column, one of the labels
    Default,      \* the seeded account, none of the labels
    None          \* what is not there: no forecast, no answer, no row

(* The ids of the accounts that can be declared are the labels that name   *)
(* one: a declared account is named by its id in a file.                   *)
Declarable == Labels \ {Blank}
Ids == Declarable \cup {Default}

(* AccountTarget: not answered, an account, or declare this label.         *)
Unanswered == "unanswered"
DECLARE == "declare"
Targets == Ids \cup {Unanswered, DECLARE}

AmountsIn == {"base", "quote"}

(* A census read off the rows.  rows are the duplicate_rows: each repeats  *)
(* a stored row (held) or the group of another row of the batch.           *)
DuplicateRow(first, file, firstFile) ==
    [repeat_of |-> first, file |-> file, repeat_of_file |-> firstFile]
HeldRow(file) == DuplicateRow(None, file, None)

-----------------------------------------------------------------------------
(* The accounts *)

(* Whether the rows of a label land as they stand: a declared id does, the *)
(* blank column does while nothing is declared.                            *)
Settled(name, declared) ==
    IF name = Blank THEN declared = {} ELSE name \in declared

OwnTarget(name, declared) ==
    IF ~Settled(name, declared) THEN Unanswered
    ELSE IF name = Blank THEN Default ELSE name

(* One line per account the file names: the reader's choice, else where    *)
(* its rows land on their own.                                             *)
accountLines(names, declared, chosen) ==
    [name \in names |->
        IF chosen[name] # None THEN chosen[name] ELSE OwnTarget(name, declared)]

unanswered(lines) == {name \in DOMAIN lines : lines[name] = Unanswered}

NO_CORRESPONDENCE == [mapping |-> <<>>, declaring |-> {}]

(* Every answered line is stated, as a mapping or as a declaration.        *)
correspondenceOf(lines) ==
    [mapping   |-> [name \in {n \in DOMAIN lines : lines[n] \in Ids} |-> lines[name]],
     declaring |-> {name \in DOMAIN lines : lines[name] = DECLARE}]

NothingChosen == [name \in Labels |-> None]

-----------------------------------------------------------------------------
(* The repeats *)

repeatGroups(rows) == {row.repeat_of : row \in {r \in rows : r.repeat_of # None}}

(* The files a group's copies come from, its first copy's included.        *)
filesOfGroup(rows, first) ==
    UNION {{row.file} \cup ({row.repeat_of_file} \ {None}) :
               row \in {r \in rows : r.repeat_of = first}}

acrossFiles(rows) ==
    {row.repeat_of : row \in {r \in rows : /\ r.repeat_of # None
                                           /\ r.repeat_of_file # None
                                           /\ r.file # r.repeat_of_file}}

(* What the window shows kept once and what the request keeps once.        *)
keptAsOne(collapsed, rows) == IF collapsed = None THEN acrossFiles(rows) ELSE collapsed

repeatsToWrite(census, collapsed) ==
    repeatGroups(census.rows) \ keptAsOne(collapsed, census.rows)

heldRows(rows) == {row \in rows : row.repeat_of = None}

-----------------------------------------------------------------------------
(* Answers and requests *)

Answer(correspondence, writeDuplicates, amountsIn, collapsed) ==
    [correspondence |-> correspondence, writeDuplicates |-> writeDuplicates,
     amountsIn |-> amountsIn, collapsed |-> collapsed]

NO_ANSWER == Answer(NO_CORRESPONDENCE, FALSE, None, None)

(* The parameters of importEvents that decide what lands; subject is what  *)
(* the rows come from, the files or the proposal with its edits.           *)
importEvents(subject, answer, writeDuplicates, writeRepeats) ==
    [subject |-> subject, correspondence |-> answer.correspondence,
     writeDuplicates |-> writeDuplicates, writeRepeats |-> writeRepeats,
     amountsIn |-> answer.amountsIn]

(* The first reading carries no flag and no repeat.                        *)
CensusRequest(subject, answer) == importEvents(subject, answer, FALSE, {})

(* One reading is enough while duplicates are skipped and no repeat is     *)
(* written.                                                                *)
OneReading(census, answer) ==
    ~answer.writeDuplicates /\ repeatsToWrite(census, answer.collapsed) = {}

(* The request that writes, made from what stands on screen.               *)
WriteRequest(subject, answer, forecast) ==
    importEvents(subject, answer, answer.writeDuplicates,
                 repeatsToWrite(forecast.file, answer.collapsed))

(* A forecast: the census, what the answer would write (or None where it   *)
(* is refused), and the request that was judged.  judged is history.       *)
Forecast(census, writing, refused, judged) ==
    [file |-> census, writing |-> writing, refused |-> refused, judged |-> judged]

(* How many rows a judged request lands.                                   *)
Written(census, request) ==
    census.fresh
    + (IF request.writeDuplicates THEN Cardinality(heldRows(census.rows)) ELSE 0)
    + Cardinality({row \in census.rows : row.repeat_of \in request.writeRepeats})

(* What a refused reading leaves of the standing forecast: all but its     *)
(* writable half.                                                          *)
WithoutWriting(forecast) ==
    IF forecast = None THEN None
    ELSE [forecast EXCEPT !.writing = None, !.refused = TRUE]

-----------------------------------------------------------------------------
(* The sentence of a receipt *)

receiptMessage(done, empty, written, duplicates) ==
    CASE empty -> IF done THEN "import.empty" ELSE "import.forecast.empty"
      [] ~empty /\ written = 0 /\ duplicates > 0 ->
             IF done THEN "nothingNew.written" ELSE "nothingNew"
      [] OTHER -> IF done THEN "import.written" ELSE "import.forecast"
=============================================================================

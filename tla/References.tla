----------------------------- MODULE References -----------------------------
(***************************************************************************)
(* The reference ETFs: the two dials that follow and display them          *)
(* (settings.py), the list that keeps their series from the purge          *)
(* (ledger.py), what is complete and what downloads next                   *)
(* (benchmark_view.py), the sheet that follows them (ReferencesSheet.tsx,  *)
(* useReferences.ts) and the picker of the Benchmark page                  *)
(* (ReferenceSelect.tsx, BenchmarkPage.tsx).                               *)
(*                                                                         *)
(* A series is what the gates read of it: whether it was asked for, priced, *)
(* whether the backward pass is over and whether the splits were read.     *)
(***************************************************************************)
EXTENDS Integers, Sequences, FiniteSets, SequencesExt

CONSTANTS None,
    Offered,        \* the ETFs offered, a sequence without repetition
    Asked,          \* a read the server has not answered yet
    Starts,         \* what earlier sittings left: [followed, kept, complete, recorded]
    MaxWrites, MaxReads, MaxDays, MaxFaults

VARIABLES
    following, chosen,      \* benchmark_symbols, benchmark_symbol
    consulted,              \* the references whose series is kept
    series,                 \* what the store holds of each
    recorded,               \* whether the ledger has an event
    config, rows, shown,    \* what the page read: the list, the rows, the comparison
    reading,                \* the read of each on its way
    requests,               \* the writes on their way: of a switch, of a link under it, of the picker
    observed,               \* the save the open sheet waits for, None
    behind,                 \* whether the page may not have the list that is followed
    writes, reads, days, faults

referenceVars == <<following, chosen, consulted, series, recorded, config, rows, shown, reading,
    requests, observed, behind, writes, reads, days, faults>>
storeVars == <<following, chosen, consulted, series, recorded>>
pageVars == <<config, rows, shown, reading, requests, observed, behind>>
bounds == <<writes, reads, days, faults>>

ETFs == Range(Offered)
Nothing == [tried |-> FALSE, priced |-> FALSE, terminal |-> FALSE, splits |-> FALSE]
Complete == [tried |-> TRUE, priced |-> TRUE, terminal |-> TRUE, splits |-> TRUE]

-----------------------------------------------------------------------------
(* The server.                                                             *)

(* A window is the ledger's own first day: without an event there is none. *)
Terminal(symbol) == recorded /\ series[symbol].terminal
Ready(symbol) == Terminal(symbol) /\ series[symbol].priced /\ series[symbol].splits
never_priced(symbol) == Terminal(symbol) /\ series[symbol].tried /\ ~series[symbol].priced

(* One download at a time, in the order they were turned on.               *)
Incomplete == SelectSeq(following, LAMBDA one : ~Ready(one) /\ ~never_priced(one))
Downloading == IF Incomplete = <<>> THEN None ELSE Incomplete[1]

Row(symbol) ==
    LET followed == symbol \in Range(following)
        pending == followed /\ ~Ready(symbol)
        waiting == IF ~pending THEN None
                   ELSE IF ~recorded THEN "no_events"
                   ELSE IF symbol # Downloading /\ ~never_priced(symbol) THEN "queued" ELSE None
    IN [followed |-> followed,
        ready |-> followed /\ Ready(symbol),
        kept |-> ~followed /\ series[symbol].priced /\ symbol \in consulted,
        freed |-> ~followed /\ series[symbol].priced /\ symbol \notin consulted,
        waiting |-> waiting,
        after |-> IF waiting = "queued" THEN Downloading ELSE None,
        never_priced |-> followed /\ never_priced(symbol)]
references == [symbol \in ETFs |-> Row(symbol)]

(* The comparison displays the choice if it is ready, else the first ready *)
(* one, else the one downloading.                                          *)
comparison ==
    LET ready == SelectSeq(following, Ready)
        symbol == IF chosen \in Range(ready) THEN chosen
                  ELSE IF ready # <<>> THEN ready[1]
                  ELSE IF Downloading # None THEN Downloading
                  ELSE following[1]
    IN  IF following = <<>> THEN [state |-> "no_reference", reference |-> None, ready |-> <<>>]
        ELSE [reference |-> symbol, ready |-> ready,
              state |-> IF ~recorded \/ never_priced(symbol) THEN "nothing_to_compare"
                        ELSE IF ~Terminal(symbol) \/ ~series[symbol].priced THEN "rebuilding"
                        ELSE IF ~series[symbol].splits THEN "splits_unknown"
                        ELSE "comparable"]

(* A write of the followed list records them as consulted, and drops with  *)
(* it a choice that is no longer followed.                                 *)
KeepChosenFollowed(symbols) == IF chosen \in Range(symbols) THEN chosen ELSE None

Follow(symbols) ==
    /\ following' = symbols
    /\ chosen' = KeepChosenFollowed(symbols)
    /\ consulted' = IF symbols = following THEN consulted ELSE consulted \cup Range(symbols)
    /\ UNCHANGED <<series, recorded>>

(* A choice is of a followed ETF that is complete.                         *)
MayChoose(symbol) == symbol = chosen \/ (symbol \in Range(following) /\ Ready(symbol))
Choose(symbol) ==
    chosen' = symbol /\ UNCHANGED <<following, consulted, series, recorded>>

(* Keeping and forgetting are of the unfollowed ones.                      *)
MayForget(symbol) == symbol \notin Range(following)
Keep(symbol, kept) ==
    /\ consulted' = IF kept THEN consulted \cup {symbol} ELSE consulted \ {symbol}
    /\ UNCHANGED <<following, chosen, series, recorded>>

(* A purge takes the series nothing keeps (no event names a reference).    *)
Orphans == {symbol \in ETFs : symbol # chosen /\ symbol \notin consulted}
Purge ==
    /\ \E symbol \in Orphans : series[symbol] # Nothing
    /\ series' = [symbol \in ETFs |-> IF symbol \in Orphans THEN Nothing ELSE series[symbol]]
    /\ UNCHANGED <<following, chosen, consulted, recorded, pageVars, bounds>>

(* The backfill asks for what downloads, until its target: prices come or  *)
(* none ever does, and the splits with the first fetch that reads them.    *)
Backfill ==
    /\ recorded /\ Downloading # None
    /\ days < MaxDays /\ days' = days + 1
    /\ \E priced, terminal \in BOOLEAN :
        series' = [series EXCEPT ![Downloading] =
            [tried |-> TRUE, priced |-> @.priced \/ priced,
             terminal |-> @.terminal \/ terminal, splits |-> @.splits \/ priced \/ @.priced]]
    /\ UNCHANGED <<following, chosen, consulted, recorded, pageVars, writes, reads, faults>>

(* The ledger gets its first event, or an older one: the target moves back. *)
Record ==
    /\ days < MaxDays /\ days' = days + 1
    /\ recorded' = TRUE
    /\ series' = [symbol \in ETFs |-> [series[symbol] EXCEPT !.terminal = FALSE]]
    /\ UNCHANGED <<following, chosen, consulted, pageVars, writes, reads, faults>>

-----------------------------------------------------------------------------
(* The reads of the pages, taken as one page.                              *)

QUERIES == {"config", "references", "benchmark"}
Answer(query) ==
    CASE query = "config" -> following
      [] query = "references" -> references
      [] query = "benchmark" -> comparison
unread(query) ==
    CASE query = "config" -> config = None
      [] query = "references" -> rows = None
      [] query = "benchmark" -> shown = None

(* A read on its way is asked again, but for the first one: it goes on.    *)
Invalidated(queries) ==
    [q \in QUERIES |-> IF q \in queries /\ (reading[q] = None \/ ~unread(q)) THEN Asked ELSE reading[q]]

(* The rows are asked again while something followed is incomplete, the    *)
(* comparison while its reference is, any read as the pages are left and   *)
(* come back to.                                                           *)
downloading == rows # None /\ \E symbol \in ETFs : rows[symbol].followed /\ ~rows[symbol].ready
rebuilding == shown # None /\ shown.state \in {"rebuilding", "splits_unknown"}
AskAgain(query) ==
    /\ reads < MaxReads /\ reads' = reads + 1
    /\ reading[query] = None /\ reading' = [reading EXCEPT ![query] = Asked]
    /\ UNCHANGED <<storeVars, config, rows, shown, requests, observed, behind, writes, days, faults>>
Poll ==
    \/ downloading /\ AskAgain("references")
    \/ rebuilding /\ AskAgain("benchmark")
Revisit == \E query \in QUERIES : observed = None /\ AskAgain(query)

ServeRead(query) ==
    /\ reading[query] = Asked
    /\ reading' = [reading EXCEPT ![query] = Answer(query)]
    /\ UNCHANGED <<storeVars, config, rows, shown, requests, observed, behind, bounds>>

(* The list read or answered: it is the one followed, unless a save on its *)
(* way, or one the page did not hear of, is not in it.                     *)
Sending(others) == \E request \in others : request.kind = "switch"
BehindAfter(list, others) ==
    (list # None /\ list # following) \/ (behind /\ Sending(others))

ReadySet(answer) == {symbol \in ETFs : answer[symbol].ready}
Turned(answer) == rows # None /\ ReadySet(rows) # ReadySet(answer)
LandRead(query) ==
    /\ reading[query] \notin {None, Asked}
    /\ LET answer == reading[query]
           asked == IF query = "references" /\ Turned(answer) THEN Invalidated({"benchmark"})
                    ELSE reading
       IN  /\ config' = IF query = "config" THEN answer ELSE config
           /\ rows' = IF query = "references" THEN answer ELSE rows
           /\ shown' = IF query = "benchmark" THEN answer ELSE shown
           /\ behind' = IF query = "config" THEN BehindAfter(answer, requests) ELSE behind
           /\ reading' = [asked EXCEPT ![query] = None]
    /\ UNCHANGED <<storeVars, requests, observed, bounds>>

(* A read that fails leaves what was read.                                 *)
ReadFails(query) ==
    /\ reading[query] # None
    /\ faults < MaxFaults /\ faults' = faults + 1
    /\ reading' = [reading EXCEPT ![query] = None]
    /\ UNCHANGED <<storeVars, config, rows, shown, requests, observed, behind, writes, reads, days>>

-----------------------------------------------------------------------------
(* The writes of the page.                                                 *)

Send(kind, body) ==
    /\ writes < MaxWrites /\ writes' = writes + 1
    /\ requests' = requests \cup
           {[id |-> writes + 1, kind |-> kind, body |-> body, phase |-> "sent", answer |-> None]}
    /\ UNCHANGED <<storeVars, config, rows, shown, reading, behind, reads, days, faults>>

(* What a sheet waits for once its save is answered: the rows.             *)
Settling == 0

(* The switches are still before the list is known, and while the open     *)
(* sheet saves one.                                                        *)
Busy == observed # None \/ config = None
Others(symbol, list) == SelectSeq(list, LAMBDA one : one # symbol)
toggle(symbol) ==
    /\ rows # None /\ ~Busy
    /\ LET others == Others(symbol, config)
       IN  Send("switch", [symbol |-> symbol,
               list |-> IF rows[symbol].followed THEN others ELSE Append(others, symbol)])
    /\ observed' = writes + 1

(* The links and the picker stay alive while one of theirs is saved.       *)
onKeep(symbol, kept) ==
    /\ rows # None
    /\ IF kept THEN rows[symbol].freed ELSE rows[symbol].kept
    /\ Send("keep", [symbol |-> symbol, kept |-> kept])
    /\ UNCHANGED observed

(* The picker proposes the complete ones, none of them without a reference. *)
pick(symbol) ==
    /\ shown # None /\ symbol \in Range(shown.ready) \ {shown.reference}
    /\ Send("select", [symbol |-> symbol])
    /\ UNCHANGED observed

Becomes(request, phase, answer) ==
    requests' = (requests \ {request}) \cup {[request EXCEPT !.phase = phase, !.answer = answer]}

(* The lists go through, a keep of a followed ETF and a choice that is not *)
(* ready are refused.                                                      *)
ServeSwitch(request) ==
    /\ request.kind = "switch" /\ request.phase = "sent"
    /\ Follow(request.body.list)
    /\ Becomes(request, "written", None)
    /\ UNCHANGED <<config, rows, shown, reading, observed, behind, bounds>>
ServeKeep(request) ==
    /\ request.kind = "keep" /\ request.phase = "sent"
    /\ IF MayForget(request.body.symbol)
       THEN Keep(request.body.symbol, request.body.kept) /\ Becomes(request, "written", None)
       ELSE UNCHANGED storeVars /\ Becomes(request, "refused", None)
    /\ UNCHANGED <<config, rows, shown, reading, observed, behind, bounds>>
ServeSelect(request) ==
    /\ request.kind = "select" /\ request.phase = "sent"
    /\ IF MayChoose(request.body.symbol)
       THEN Choose(request.body.symbol) /\ Becomes(request, "answered", None)
       ELSE UNCHANGED storeVars /\ Becomes(request, "refused", None)
    /\ UNCHANGED <<config, rows, shown, reading, observed, behind, bounds>>

(* The answer is read after the write.                                     *)
ReadBack(request) ==
    /\ request.phase = "written"
    /\ Becomes(request, "answered", IF request.kind = "switch" THEN following ELSE references)
    /\ UNCHANGED <<storeVars, config, rows, shown, reading, observed, behind, bounds>>

(* Lost on its way, or written and its answer lost.                        *)
Lose(request) ==
    /\ request.phase # "refused"
    /\ faults < MaxFaults /\ faults' = faults + 1
    /\ Becomes(request, "refused", None)
    /\ UNCHANGED <<storeVars, config, rows, shown, reading, observed, behind, writes, reads, days>>

(* A save lands, in the sheet that waits for it or in none: the list is the *)
(* answer's, and the switches stay still until the rows are fresh.         *)
Landing(request, kind) == request.kind = kind /\ request.phase \in {"answered", "refused"}
LandSwitch(request) ==
    /\ Landing(request, "switch")
    /\ config' = IF request.phase = "answered" /\ config # None THEN request.answer ELSE config
    /\ reading' = Invalidated({"references", "benchmark"})
    /\ requests' = requests \ {request}
    /\ observed' = IF observed = request.id THEN Settling ELSE observed
    /\ behind' = BehindAfter(IF request.phase = "answered" THEN request.answer ELSE config, requests')
    /\ UNCHANGED <<storeVars, rows, shown, bounds>>
Settle ==
    /\ observed = Settling /\ reading["references"] = None
    /\ observed' = None
    /\ UNCHANGED <<storeVars, config, rows, shown, reading, requests, behind, bounds>>
LandKeep(request) ==
    /\ Landing(request, "keep")
    /\ LET answered == request.phase = "answered"
       IN  /\ rows' = IF answered THEN request.answer ELSE rows
           /\ reading' = IF answered /\ Turned(request.answer) THEN Invalidated({"benchmark"})
                         ELSE reading
    /\ requests' = requests \ {request}
    /\ UNCHANGED <<storeVars, config, shown, observed, behind, bounds>>
LandSelect(request) ==
    /\ Landing(request, "select")
    /\ reading' = IF request.phase = "answered" THEN Invalidated({"benchmark", "config"}) ELSE reading
    /\ requests' = requests \ {request}
    /\ UNCHANGED <<storeVars, config, rows, shown, observed, behind, bounds>>

(* The sheet is closed, or the page left: the save goes on, the switches   *)
(* of the sheet opened next do not wait for it.                            *)
CloseSheet ==
    /\ observed # None /\ observed' = None
    /\ behind' = (behind \/ observed # Settling)
    /\ UNCHANGED <<storeVars, config, rows, shown, reading, requests, bounds>>

Init ==
    /\ \E start \in Starts :
        /\ following = start.followed
        /\ consulted = Range(start.followed) \cup start.kept
        /\ series = [symbol \in ETFs |-> IF symbol \in start.complete THEN Complete ELSE Nothing]
        /\ recorded = start.recorded
    /\ chosen = None
    /\ config = None /\ rows = None /\ shown = None
    /\ reading = [q \in QUERIES |-> Asked]
    /\ requests = {} /\ observed = None /\ behind = FALSE
    /\ writes = 0 /\ reads = 0 /\ days = 0 /\ faults = 0

Next ==
    \/ Purge \/ Backfill \/ Record \/ Poll \/ Revisit
    \/ \E query \in QUERIES : ServeRead(query) \/ LandRead(query) \/ ReadFails(query)
    \/ \E symbol \in ETFs : toggle(symbol) \/ pick(symbol)
    \/ \E symbol \in ETFs, kept \in BOOLEAN : onKeep(symbol, kept)
    \/ \E request \in requests :
        \/ ServeSwitch(request) \/ ServeKeep(request) \/ ServeSelect(request)
        \/ ReadBack(request) \/ Lose(request)
        \/ LandSwitch(request) \/ LandKeep(request) \/ LandSelect(request)
    \/ Settle \/ CloseSheet

-----------------------------------------------------------------------------
(* The series of what is followed is never on the purge list, however a    *)
(* follow crosses a forget (ledger.py, orphan_symbols; settings.py,        *)
(* _remember_the_references).                                              *)
FollowedIsSpared == Orphans \cap Range(following) = {}

(* The displayed reference is followed, and what waits in the queue waits  *)
(* after one that downloads (settings.py, _keep_the_chosen_reference_followed; *)
(* benchmark_view.py, references).                                         *)
ChosenIsFollowed == chosen # None => chosen \in Range(following)
QueueWaitsForOne == \A symbol \in ETFs : Row(symbol).waiting = "queued" =>
    LET after == Row(symbol).after
    IN  /\ after # None /\ after # symbol
        /\ Row(after).waiting = None /\ ~Row(after).ready /\ ~Row(after).never_priced

(* A switch moves its ETF and no other: the list it sends is the server's  *)
(* with it on or off.  Set apart: a sheet closed on a save on its way, an  *)
(* answer lost and an older read that lands last, until the list is read   *)
(* or answered again (ReferencesSheet.tsx, toggle, busy).                  *)
ToggleMovesOne ==
    ~behind => \A request \in requests :
        (request.kind = "switch" /\ request.phase = "sent") =>
            Others(request.body.symbol, request.body.list) = Others(request.body.symbol, following)
=============================================================================

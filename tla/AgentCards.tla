----------------------------- MODULE AgentCards -----------------------------
(***************************************************************************)
(* What the agent proposes and the owner decides: the cards of a thread    *)
(* (EventsCard.tsx, FactCard and the chips of AgentProfile.tsx).           *)
(*                                                                         *)
(* The server holds the proposals and the facts; the page holds what it    *)
(* read of them.  A read is answered at one moment and lands at another,   *)
(* a decision writes the page before it is read again, and while a turn    *)
(* streams the thread's proposals are not read at all.                     *)
(***************************************************************************)
EXTENDS Integers, FiniteSets

CONSTANTS
    None, Failed, \* no value, and a read that was refused
    Kind,         \* of the card: "events" or "fact", "none" in a thread without
    MaxProposals, \* bound: proposals ever made
    MaxMoves,     \* bound: what happens elsewhere
    MaxTurns,     \* bound: turns that stream
    MaxSaves      \* bound: saves and removals of the fact

VARIABLES
    proposals,  \* the server: id -> its status, None until it is made
    madeOf,     \* id -> the proposals made from it
    fact,       \* the server: the writes so far, and whether the fact is held
    busy,       \* whether a turn of the thread streams
    read,       \* the page: query -> what it holds, None until it lands
    flight,     \* the reads in flight: query -> None, or what was answered
    invalidated,\* the queries to read again once they may be
    successor,  \* the proposal that took the card's place
    deciding,   \* the decision in flight, with its answer
    editor,     \* whether the fact's editor is open
    writing,    \* the saves and the removals of the fact in flight
    moves, turns, saves,
    decided,    \* proposals this card decided (history)
    crossed,    \* a read of the proposals outlived a decision's answer (history)
    newest,     \* the newest fact the page has held (history)
    unheard     \* writes whose answer the page did not use (history)

cardVars == <<successor, deciding, decided>>
chipVars == <<editor, writing, saves>>
serverVars == <<proposals, madeOf, fact>>
cacheVars == <<read, flight, invalidated, crossed, newest, unheard>>
vars == <<serverVars, busy, cacheVars, cardVars, chipVars, moves, turns>>

Queries == {"proposals", "successor", "profile"}
Asked == <<>>  \* a flight: None, Asked, or <<what was answered>>

Statuses == {"ready", "stale", "merged", "confirmed", "ignored", "expired"}
Undecided == {"ready", "stale"}

-----------------------------------------------------------------------------
(* The server *)

(* _ready: what still may be decided; a stale one only ignored or redone.  *)
mayDecide(id, how) ==
    \/ proposals[id] = "ready"
    \/ proposals[id] = "stale" /\ how \in {"ignore", "repropose", "rekind"}

made == Cardinality({id \in DOMAIN proposals : proposals[id] # None})
Outcome(how) == CASE how = "confirm" -> "confirmed"
                  [] how \in {"ignore", "repropose", "rekind"} -> "ignored"

(* repropose and rekind make a new proposal; the old one reads ignored.    *)
Decides(id, how) ==
    LET new == IF how \in {"repropose", "rekind"} THEN {made + 1} ELSE {}
    IN  /\ new \subseteq DOMAIN proposals
        /\ proposals' = [p \in DOMAIN proposals |->
               IF p = id THEN Outcome(how) ELSE IF p \in new THEN "ready" ELSE proposals[p]]
        /\ madeOf' = [madeOf EXCEPT ![id] = @ \cup new]

(* Elsewhere: the ledger moves, a day passes, the preview merges, another  *)
(* tab decides.                                                            *)
Elsewhere ==
    /\ moves < MaxMoves /\ moves' = moves + 1
    /\ \E id \in DOMAIN proposals :
        /\ proposals[id] \in Undecided
        /\ \/ /\ \E status \in (IF Kind = "events" THEN {"stale", "expired", "merged"} ELSE {"expired"}) :
                     proposals' = [proposals EXCEPT ![id] = status]
              /\ UNCHANGED madeOf
           \/ \E how \in {"ignore", "repropose"} :
                  (how = "repropose" => Kind = "events") /\ mayDecide(id, how) /\ Decides(id, how)
    /\ UNCHANGED <<fact, busy, cacheVars, cardVars, chipVars, turns>>

-----------------------------------------------------------------------------
(* The query cache *)

Source(q) ==
    CASE q = "proposals" -> proposals[1]
      [] q = "successor" -> <<successor, proposals[successor]>>
      [] q = "profile" -> fact

(* useProposals, and the successor's own read: what may be read now.       *)
enabled(q) ==
    CASE q = "proposals" -> ~busy /\ Kind # "none"
      [] q = "successor" -> successor # None
      [] q = "profile" -> TRUE

(* A first read under way goes on; any other is dropped and asked again.   *)
goesOn(q) == read[q] = None /\ flight[q] # None

(* invalidateQueries: read again at once, or when it may be.               *)
Invalidate(queries) ==
    /\ flight' = [q \in Queries |->
           IF q \in queries /\ enabled(q) /\ ~goesOn(q) THEN Asked ELSE flight[q]]
    /\ invalidated' = (invalidated \cup queries) \ {q \in queries : enabled(q)}

(* What a first read brings was answered before the write it should show.  *)
firstIsOlder ==
    goesOn("profile") /\ flight["profile"] # Asked /\ flight["profile"][1].at # fact.at
Newer(at) == IF at > newest THEN at ELSE newest

Fetch ==
    \E q \in Queries :
        /\ flight[q] = None /\ enabled(q)
        /\ read[q] = None \/ q \in invalidated
        /\ flight' = [flight EXCEPT ![q] = Asked] /\ invalidated' = invalidated \ {q}
        /\ UNCHANGED <<serverVars, busy, read, crossed, newest, unheard, cardVars, chipVars, moves, turns>>

Answer ==
    \E q \in Queries :
        /\ flight[q] = Asked
        /\ flight' = [flight EXCEPT ![q] = <<Source(q)>>]
        /\ UNCHANGED <<serverVars, busy, read, invalidated, crossed, newest, unheard, cardVars,
               chipVars, moves, turns>>

(* The chip of a fact the profile lacks goes, its popover and editor too;  *)
(* the writes that left them go on.                                        *)
Left(writes) == {[w EXCEPT !.from = IF @ = "editor" THEN "detail" ELSE @] : w \in writes}
Gone(writes) == {[w EXCEPT !.from = IF @ = "lost" THEN @ ELSE "gone"] : w \in writes}
Draws(profile) ==
    /\ newest' = Newer(read'["profile"].at)
    /\ IF profile.held THEN UNCHANGED <<editor, writing>>
       ELSE editor' = FALSE /\ writing' = Gone(writing)

(* A read that lands is the newest there is, to the cache.                 *)
Land ==
    \E q \in Queries :
        /\ flight[q] \notin {None, Asked}
        /\ read' = [read EXCEPT ![q] = flight[q][1]]
        /\ flight' = [flight EXCEPT ![q] = None] /\ invalidated' = invalidated \ {q}
        /\ IF q = "profile" THEN Draws(flight[q][1]) ELSE UNCHANGED <<newest, editor, writing>>
        /\ UNCHANGED <<serverVars, busy, crossed, unheard, cardVars, saves, moves, turns>>

(* A profile that could not be read leaves the chips as they were.         *)
ReadFails ==
    \E q \in Queries :
        /\ flight[q] # None
        /\ flight' = [flight EXCEPT ![q] = None]
        /\ read' = IF q = "profile" THEN read ELSE [read EXCEPT ![q] = Failed]
        /\ invalidated' = IF q = "profile" THEN invalidated \cup {q} ELSE invalidated
        /\ UNCHANGED <<serverVars, busy, crossed, newest, unheard, cardVars, chipVars, moves, turns>>

TurnStarts ==
    /\ ~busy /\ turns < MaxTurns
    /\ busy' = TRUE /\ turns' = turns + 1
    /\ UNCHANGED <<serverVars, cacheVars, cardVars, chipVars, moves>>

TurnEnds ==
    /\ busy /\ busy' = FALSE
    /\ UNCHANGED <<serverVars, cacheVars, cardVars, chipVars, moves, turns>>

-----------------------------------------------------------------------------
(* The card *)

(* A card is there once its proposal is read; Relancer puts another in its *)
(* place, and until that one is read the old one stands.                   *)
drawn == read["proposals"] \notin {None, Failed}
successorRead == successor # None /\ read["successor"] \notin {None, Failed}
                 /\ read["successor"][1] = successor
shown == IF successorRead THEN [id |-> successor, status |-> read["successor"][2]]
         ELSE [id |-> 1, status |-> read["proposals"]]
successorFailed == successor # None /\ read["successor"] = Failed

(* The frame of a card is a question's: its buttons.                       *)
framed == drawn /\ shown.status \in Undecided
Buttons ==
    IF Kind = "fact" THEN {"confirm", "ignore"}
    ELSE IF shown.status = "ready" THEN {"ignore", "rekind"}
    ELSE {"repropose", "ignore", "rekind"}

Decide ==
    /\ framed /\ deciding = None
    /\ \E how \in Buttons : deciding' = [how |-> how, id |-> shown.id, answer |-> None]
    /\ UNCHANGED <<serverVars, busy, cacheVars, successor, decided, chipVars, moves, turns>>

(* A write of the fact is one more, and puts it or removes it.             *)
written(how) == [at |-> fact.at + 1, held |-> how = "put"]

(* A confirmed fact takes the value it proposed.                           *)
DecisionTaken ==
    /\ deciding # None /\ deciding.answer = None
    /\ IF mayDecide(deciding.id, deciding.how)
       THEN /\ Decides(deciding.id, deciding.how)
            /\ deciding' = [deciding EXCEPT !.answer =
                   IF deciding.how \in {"repropose", "rekind"} THEN made + 1 ELSE deciding.id]
            /\ fact' = IF deciding.how = "confirm" THEN written("put") ELSE fact
       ELSE deciding' = [deciding EXCEPT !.answer = Failed] /\ UNCHANGED serverVars
    /\ UNCHANGED <<busy, cacheVars, successor, decided, chipVars, moves, turns>>

again == deciding.how \in {"repropose", "rekind"}
Settled(q) ==
    IF q = "proposals" /\ deciding.id = 1 THEN Outcome(deciding.how)
    ELSE IF q = "successor" /\ successorRead /\ deciding.id = successor
    THEN <<successor, Outcome(deciding.how)>> ELSE read[q]

(* What a decision reads back: the proposals, and the profile of a fact.   *)
ReadBack(q) ==
    \/ q = "proposals"
    \/ q = "profile" /\ Kind = "fact"
    \/ q = "successor" /\ (again \/ successor # None)

(* A mutant: the page waits for its reads to show the decision.            *)
WrittenLater == read

(* onSuccess writes the decision into what was read.                       *)
WrittenAtOnce == [q \in Queries |-> IF read[q] \in {None, Failed} THEN read[q] ELSE Settled(q)]

Decided ==
    /\ deciding # None /\ deciding.answer \notin {None, Failed}
    /\ deciding' = None
    /\ decided' = decided \cup {deciding.id}
    /\ successor' = IF again THEN deciding.answer ELSE successor
    /\ read' = IF again THEN [WrittenAtOnce EXCEPT !["successor"] = None] ELSE WrittenAtOnce
    /\ flight' = [q \in Queries |->
           IF ReadBack(q) /\ ~(q = "proposals" /\ busy) /\ ~(q = "profile" /\ goesOn(q))
           THEN Asked ELSE flight[q]]
    /\ invalidated' = IF busy THEN invalidated \cup {"proposals"} ELSE invalidated
    /\ crossed' = (crossed \/ (busy /\ flight["proposals"] # None))
    /\ unheard' = IF firstIsOlder THEN unheard \cup {fact.at} ELSE unheard
    /\ UNCHANGED <<serverVars, busy, newest, chipVars, moves, turns>>

(* A refusal, a 409 too, or a decision whose request or answer was lost:   *)
(* the card then reads what the server holds.                              *)
DecisionRefused ==
    /\ deciding # None
    /\ deciding' = None
    /\ Invalidate({"proposals", "successor"} \cup (IF Kind = "fact" THEN {"profile"} ELSE {}))
    /\ unheard' = IF firstIsOlder THEN unheard \cup {fact.at} ELSE unheard
    /\ UNCHANGED <<serverVars, busy, read, crossed, newest, successor, decided, chipVars, moves, turns>>

-----------------------------------------------------------------------------
(* The chips *)

(* A chip is there while its fact is confirmed.                            *)
ProfileChips == read["profile"] # None /\ read["profile"].held

(* Modifier opens the editor, whatever is in flight.                       *)
FactDetail ==
    /\ ProfileChips /\ ~editor
    /\ editor' = TRUE
    /\ UNCHANGED <<serverVars, busy, cacheVars, cardVars, writing, saves, moves, turns>>

(* Annuler leaves the save of the editor in flight; so does closing the    *)
(* popover, which forgets the whole of its detail.                         *)
CancelEdit ==
    /\ editor /\ editor' = FALSE
    /\ writing' = Left(writing)
    /\ UNCHANGED <<serverVars, busy, cacheVars, cardVars, saves, moves, turns>>

ClosePopover ==
    /\ editor \/ \E w \in writing : w.from = "detail"
    /\ editor' = FALSE /\ writing' = Gone(writing)
    /\ UNCHANGED <<serverVars, busy, cacheVars, cardVars, saves, moves, turns>>

(* A write waits for no other, but that its own button is disabled until   *)
(* it is answered.                                                         *)
Sends(how, from) ==
    /\ saves < MaxSaves /\ saves' = saves + 1
    /\ writing' = writing \cup
           {[id |-> saves', how |-> how, from |-> from, at |-> 0, answer |-> None]}
    /\ UNCHANGED <<serverVars, busy, cacheVars, cardVars, editor, moves, turns>>

FactEditor ==
    editor /\ (\A w \in writing : w.from # "editor") /\ Sends("put", "editor")

Forget ==
    /\ ProfileChips /\ ~editor
    /\ \A w \in writing : ~(w.how = "forget" /\ w.from = "detail")
    /\ Sends("forget", "detail")

Becomes(w, next) == writing' = (writing \ {w}) \cup {next}

(* The server takes a write, one the page gave up too; a fact that is gone *)
(* is not forgotten twice.                                                 *)
FactWritten ==
    \E w \in writing :
        /\ w.at = 0 /\ (w.how = "forget" => fact.held)
        /\ fact' = written(w.how)
        /\ IF w.from = "lost"
           THEN writing' = writing \ {w} /\ unheard' = unheard \cup {fact'.at}
           ELSE Becomes(w, [w EXCEPT !.at = fact'.at]) /\ UNCHANGED unheard
        /\ UNCHANGED <<proposals, madeOf, busy, read, flight, invalidated, crossed, newest,
               cardVars, editor, saves, moves, turns>>

(* A save answers the profile, read once it is stored.                     *)
ProfileAnswered ==
    \E w \in writing :
        /\ w.how = "put" /\ w.at # 0 /\ w.answer = None
        /\ Becomes(w, [w EXCEPT !.answer = fact])
        /\ UNCHANGED <<serverVars, busy, cacheVars, cardVars, editor, saves, moves, turns>>

(* The answer of a save is drawn, and closes the editor of its detail,     *)
(* that of another save too; a read that failed is not asked again for it. *)
(* A removal is read back.                                                 *)
FactSaved ==
    \E w \in writing :
        /\ w.at # 0
        /\ IF w.how = "put"
           THEN /\ w.answer # None
                /\ read' = [read EXCEPT !["profile"] = w.answer]
                /\ invalidated' = invalidated \ {"profile"} /\ newest' = Newer(read'["profile"].at)
                /\ editor' = (editor /\ w.from = "gone" /\ w.answer.held)
                /\ writing' = (IF ~w.answer.held THEN Gone(writing \ {w})
                               ELSE IF w.from # "gone" THEN Left(writing \ {w}) ELSE writing \ {w})
                /\ unheard' = IF "profile" \in invalidated /\ w.answer # fact
                              THEN unheard \cup {fact.at} ELSE unheard
                /\ UNCHANGED flight
           ELSE /\ writing' = writing \ {w}
                /\ Invalidate({"profile"})
                /\ UNCHANGED <<read, newest, unheard, editor>>
        /\ UNCHANGED <<serverVars, busy, crossed, cardVars, saves, moves, turns>>

(* A write refused, lost, or stored with its answer lost: a removal is     *)
(* read back, a save is not.  One lost on its way may still be taken.      *)
FactFailed ==
    \E w \in writing :
        /\ w.from # "lost"
        /\ \/ writing' = writing \ {w}
           \/ w.at = 0 /\ Becomes(w, [w EXCEPT !.from = "lost"])
        /\ unheard' = IF w.how = "put" /\ w.at # 0 THEN unheard \cup {w.at} ELSE unheard
        /\ IF w.how = "forget" THEN Invalidate({"profile"}) ELSE UNCHANGED <<flight, invalidated>>
        /\ UNCHANGED <<serverVars, busy, read, crossed, newest, cardVars, editor, saves, moves, turns>>

-----------------------------------------------------------------------------
Init ==
    /\ proposals = [id \in 1 .. MaxProposals |-> IF id = 1 THEN "ready" ELSE None]
    /\ madeOf = [id \in 1 .. MaxProposals |-> {}]
    /\ fact \in [at : {0}, held : IF Kind = "events" THEN {FALSE} ELSE BOOLEAN] /\ saves = 0
    /\ busy \in BOOLEAN
    /\ read = [q \in Queries |-> None] /\ flight = [q \in Queries |-> None]
    /\ invalidated = {} /\ crossed = FALSE /\ newest = 0 /\ unheard = {}
    /\ successor = None /\ deciding = None /\ decided = {}
    /\ editor = FALSE /\ writing = {}
    /\ moves = 0 /\ turns = 0

Next ==
    \/ Elsewhere
    \/ Fetch \/ Answer \/ Land \/ ReadFails
    \/ TurnStarts \/ TurnEnds
    \/ Decide \/ DecisionTaken \/ Decided \/ DecisionRefused
    \/ FactDetail \/ CancelEdit \/ ClosePopover \/ FactEditor \/ Forget
    \/ FactWritten \/ ProfileAnswered \/ FactSaved \/ FactFailed

Spec == Init /\ [][Next]_vars

-----------------------------------------------------------------------------
(* What must hold *)

TypeOK ==
    /\ proposals \in [1 .. MaxProposals -> Statuses \cup {None}]
    /\ DOMAIN read = Queries /\ invalidated \subseteq Queries
    /\ fact.at \in Nat /\ newest \in 0 .. fact.at /\ unheard \subseteq 1 .. fact.at
    /\ \A w \in writing : w.at <= fact.at /\ w.id <= saves
    /\ successor # None => proposals[successor] # None

(* A decision answered takes the buttons away at once, while a turn        *)
(* streams too, and the proposal it was about never has them again; but    *)
(* where a read asked before the decision lands after it.                  *)
DecidedHasNoButtons ==
    drawn /\ ~crossed /\ shown.id \in decided => ~framed

(* A proposal gives way to one other at most, two tabs notwithstanding.    *)
OneSuccessor == \A id \in DOMAIN madeOf : Cardinality(madeOf[id]) <= 1

(* Once nothing is in flight the chip is the fact the server holds,        *)
(* whatever of saves, removals and confirmations crossed on the way; but   *)
(* where an answer landed over a newer one, and where the last write was   *)
(* one the page read nothing after: a save stored with its answer lost, a  *)
(* confirmation during the profile's first read, a read that failed.       *)
Quiet ==
    /\ flight["profile"] = None /\ "profile" \notin invalidated
    /\ writing = {} /\ deciding = None
ChipIsTheFact ==
    /\ Quiet /\ read["profile"] # None
    /\ read["profile"].at = newest /\ fact.at \notin unheard
    => read["profile"] = fact
=============================================================================

---------------------------- MODULE AgentThreads ----------------------------
(***************************************************************************)
(* The agent's conversations: the page (features/agent, over pages/        *)
(* AgentPage.tsx) and the server that runs a turn (agent_routes.py).       *)
(*                                                                         *)
(* The address names a thread, one Chat is on screen and streams, the      *)
(* server holds a file per thread and runs one turn of it at a time.  A    *)
(* turn is its question, numbered, and how much of an answer it got.       *)
(***************************************************************************)
EXTENDS Integers, Sequences, FiniteSets, SequencesExt

CONSTANTS
    None,
    OffPage,  \* the address of another page
    Ids,        \* thread ids, numbers: generateId gives the next one
    Stored,     \* the threads the server holds at first
    MaxAsks,    \* bound: questions, statements included
    MaxReads,   \* bound: reads of a thread in flight
    MaxFaults,  \* bound: failures of the server and of the connection
    Statements, \* whether a statement is given
    Deletions   \* whether threads are deleted

VARIABLES
    threads,  \* the files: id -> its turns and whether the last one failed
    posts,    \* turns sent and not yet taken by the server
    runs,     \* id -> the turn in flight, None for none
    address,  \* the thread of the address, None for /agent, OffPage
    fresh,    \* the next id generateId gives
    chat,     \* the thread on screen
    opening,  \* the thread being read, and the refusal of its read
    reads,    \* reads in flight: awaited is the last asked for, a reload always shows
    failedOnReload, readFailed, \* the flag, and what the thread was last read with (history)
    notKept,  \* useNotKept
    text,     \* what the input holds, the number of a question
    statement,\* the statement being sent, and whether /agent was its address
    removals, \* deletions in flight, each with the address its list last drew
    asked, faults,
    astray    \* turns the page and the server do not agree on (history)

serverVars == <<threads, posts, runs>>
pageVars == <<address, fresh, chat, opening, reads, failedOnReload, readFailed, notKept>>
restVars == <<text, statement, removals>>
history == <<asked, faults, astray>>
vars == <<serverVars, pageVars, restVars, history>>

Turn(n, answer) == [n |-> n, answer |-> answer]
ButLast(turns) == IF turns = <<>> THEN <<>> ELSE Front(turns)
Answering(turns, answer) == [turns EXCEPT ![Len(turns)].answer = answer]

busy == chat.status \in {"submitted", "streaming"}
onPage == address # OffPage

(* The run the chat on screen still listens to.                            *)
Attached(n) == busy /\ Last(chat.turns).n = n

-----------------------------------------------------------------------------
(* The server *)

(* A mutant: a failed turn stays in the history the model is given.        *)
AnsweredFailed(thread) ==
    IF thread.turns # <<>> /\ Last(thread.turns).answer = "none"
    THEN ButLast(thread.turns) ELSE thread.turns

(* The history the model is given: the last turn is dropped when it failed *)
(* or when no answer followed its question.                                *)
Answered(thread) ==
    IF thread.turns # <<>> /\ (thread.failed \/ Last(thread.turns).answer = "none")
    THEN ButLast(thread.turns) ELSE thread.turns

Kept(turns, failed) == [turns |-> turns, failed |-> failed]
NoFile == Kept(<<>>, FALSE)
File(id) == IF threads[id] = None THEN NoFile ELSE threads[id]

(* What the page hears when its turn ends on an error.                     *)
ChatFails(n, error) ==
    chat' = IF Attached(n) THEN [chat EXCEPT !.status = "error", !.error = error] ELSE chat

(* A request reaches the server before those sent after it.                *)
InOrder(p) == ~\E q \in posts : q.id = p.id /\ q.n < p.n

(* _start: the question is written before the provider is called.          *)
TurnTaken ==
    \E p \in posts :
        /\ runs[p.id] = None /\ InOrder(p)
        /\ posts' = posts \ {p}
        /\ threads' = [threads EXCEPT
               ![p.id] = Kept(Append(Answered(File(p.id)), Turn(p.n, "none")), FALSE)]
        /\ runs' = [runs EXCEPT ![p.id] =
               [n |-> p.n, history |-> Answered(File(p.id)), answer |-> "none", left |-> p.left]]
        /\ UNCHANGED <<pageVars, restVars, asked, faults, astray>>

(* Before the stream: the thread has a turn in flight (409), the file      *)
(* cannot be written (500), or the session ended (401).                    *)
TurnRefused ==
    \E p \in posts, error \in {"busy", "unkept", "session"} :
        /\ IF error = "busy" THEN runs[p.id] # None /\ faults' = faults
           ELSE faults < MaxFaults /\ faults' = faults + 1
        /\ posts' = posts \ {p}
        /\ ChatFails(p.n, error)
        /\ notKept' = (notKept \/ (error = "unkept" /\ Attached(p.n)))
        /\ astray' = IF error = "unkept" THEN astray \cup {p.n} ELSE astray
        /\ UNCHANGED <<threads, runs, address, fresh, opening, reads, failedOnReload,
                       readFailed, restVars, asked>>

(* A request cut by the page before the server took it.                    *)
PostLost ==
    \E p \in posts :
        /\ p.left /\ posts' = posts \ {p}
        /\ UNCHANGED <<threads, runs, pageVars, restVars, history>>

(* The first word, or a tool call, of the answer.                          *)
Word(id) ==
    /\ runs[id] # None /\ runs[id].answer = "none" /\ ~runs[id].left
    /\ runs' = [runs EXCEPT ![id].answer = "part"]
    /\ chat' = IF Attached(runs[id].n)
               THEN [chat EXCEPT !.status = "streaming", !.turns = Answering(@, "part")] ELSE chat
    /\ UNCHANGED <<threads, posts, address, fresh, opening, reads, failedOnReload,
                   readFailed, notKept, restVars, history>>

(* on_complete: the run is written whole, or said not to be kept.          *)
Complete(id) ==
    /\ runs[id] # None /\ runs[id].answer = "part" /\ ~runs[id].left
    /\ runs' = [runs EXCEPT ![id] = None]
    /\ LET n == runs[id].n
           whole == [chat EXCEPT !.turns = Answering(@, "whole")]
       IN  \/ /\ threads' = [threads EXCEPT
                     ![id] = Kept(Append(runs[id].history, Turn(n, "whole")), FALSE)]
              /\ chat' = IF Attached(n) THEN [whole EXCEPT !.status = "ready"] ELSE chat
              /\ UNCHANGED <<notKept, faults, astray>>
           \/ /\ faults < MaxFaults /\ faults' = faults + 1
              /\ chat' = IF Attached(n)
                         THEN [whole EXCEPT !.status = "error", !.error = "unkept"] ELSE chat
              /\ notKept' = (notKept \/ Attached(n))
              /\ astray' = astray \cup {n}
              /\ UNCHANGED threads
    /\ UNCHANGED <<posts, address, fresh, opening, reads, failedOnReload, readFailed,
                   restVars, asked>>

(* The provider refuses or fails: keep_partial writes the turn as failed.  *)
ProviderFails(id) ==
    /\ runs[id] # None /\ ~runs[id].left
    /\ faults < MaxFaults /\ faults' = faults + 1
    /\ threads' = [threads EXCEPT
           ![id] = Kept(Append(runs[id].history, Turn(runs[id].n, runs[id].answer)), TRUE)]
    /\ runs' = [runs EXCEPT ![id] = None]
    /\ ChatFails(runs[id].n, "provider")
    /\ UNCHANGED <<posts, address, fresh, opening, reads, failedOnReload, readFailed,
                   notKept, restVars, asked, astray>>

(* The connection is lost: to the server the client left, to the page the  *)
(* turn failed.                                                            *)
ConnectionLost(id) ==
    /\ runs[id] # None /\ ~runs[id].left
    /\ faults < MaxFaults /\ faults' = faults + 1
    /\ runs' = [runs EXCEPT ![id].left = TRUE]
    /\ ChatFails(runs[id].n, "cut")
    /\ astray' = astray \cup {runs[id].n}
    /\ UNCHANGED <<threads, posts, address, fresh, opening, reads, failedOnReload,
                   readFailed, notKept, restVars, asked>>

(* The client left: keep_partial writes what the run held.  The turn that  *)
(* got no word stays a question nobody answered.                           *)
LeftEnds(id) ==
    /\ runs[id] # None /\ runs[id].left
    /\ threads' = [threads EXCEPT
           ![id] = Kept(Append(runs[id].history, Turn(runs[id].n, runs[id].answer)), FALSE)]
    /\ runs' = [runs EXCEPT ![id] = None]
    /\ UNCHANGED <<posts, pageVars, restVars, history>>

-----------------------------------------------------------------------------
(* The provider of the page: agentChatProvider.tsx *)

Chat(id, turns) == [id |-> id, turns |-> turns, status |-> "ready", error |-> None]

(* stop(): the request of the stream in flight is cut.                     *)
StopStream ==
    /\ posts' = {IF busy /\ p.n = Last(chat.turns).n THEN [p EXCEPT !.left = TRUE] ELSE p : p \in posts}
    /\ runs' = [id \in Ids |-> IF runs[id] # None /\ Attached(runs[id].n)
                               THEN [runs[id] EXCEPT !.left = TRUE] ELSE runs[id]]
    /\ astray' = IF busy /\ Last(chat.turns).answer = "none"
                 THEN astray \cup {Last(chat.turns).n} ELSE astray
    /\ UNCHANGED threads

replace(next) ==
    /\ StopStream
    /\ chat' = next
    /\ notKept' = (notKept /\ next.id = chat.id)

(* A mutant: the read before goes on being awaited.                        *)
StillAwaited == reads

(* The sequence of the reads moved on: the earlier ones are not awaited.   *)
Unawaited == {IF r.for = "opening" THEN [r EXCEPT !.awaited = FALSE] ELSE r : r \in reads}

(* A mutant: an empty thread keeps the failure of the one before.          *)
startThreadFailed ==
    /\ fresh \in Ids
    /\ opening' = None /\ reads' = Unawaited
    /\ readFailed' = FALSE /\ UNCHANGED failedOnReload
    /\ replace(Chat(fresh, <<>>)) /\ fresh' = fresh + 1

(* An empty thread under a fresh id.                                       *)
startThread ==
    /\ fresh \in Ids
    /\ opening' = None /\ reads' = Unawaited
    /\ failedOnReload' = FALSE /\ readFailed' = FALSE
    /\ replace(Chat(fresh, <<>>)) /\ fresh' = fresh + 1

Asking(id, for) ==
    /\ Cardinality(reads) < MaxReads
    /\ reads' = (IF for = "opening" THEN Unawaited ELSE reads)
                 \cup {[id |-> id, for |-> for, awaited |-> TRUE, thread |-> None]}

(* A mutant: a thread already on screen is read again like any other.      *)
openThreadAgain(id) ==
    /\ opening' = [id |-> id, error |-> None] /\ Asking(id, "opening")
    /\ UNCHANGED <<serverVars, fresh, chat, failedOnReload, readFailed, notKept, astray>>

(* Back to the thread on screen: its stream is left alone.                 *)
openThread(id) ==
    /\ IF id = chat.id THEN opening' = None /\ reads' = Unawaited
       ELSE opening' = [id |-> id, error |-> None] /\ Asking(id, "opening")
    /\ UNCHANGED <<serverVars, fresh, chat, failedOnReload, readFailed, notKept, astray>>

reloadThread == Asking(chat.id, "reload")

(* The effect of the page: the address moved, or what is on screen did.    *)
Asks == /\ address \in Ids
        /\ address # (IF opening = None THEN chat.id ELSE opening.id)
Clears == address = None /\ (chat.turns # <<>> \/ opening # None)
Settled == ~Asks /\ ~Clears

PageEffect ==
    /\ \/ Clears /\ startThread
       \/ Asks /\ openThread(address)
    /\ UNCHANGED <<address, restVars, asked, faults>>

(* The server answers a read with the file as it is then.                  *)
ThreadRead ==
    \E r \in reads :
        /\ r.thread = None /\ threads[r.id] # None
        /\ reads' = (reads \ {r}) \cup {[r EXCEPT !.thread = threads[r.id]]}
        /\ astray' = IF runs[r.id] # None THEN astray \cup {runs[r.id].n} ELSE astray
        /\ UNCHANGED <<serverVars, address, fresh, chat, opening, failedOnReload,
                       readFailed, notKept, restVars, asked, faults>>

Shows(r) ==
    /\ replace(Chat(r.id, r.thread.turns))
    /\ readFailed' = r.thread.failed

(* A mutant: the thread read keeps the failure of the one before.          *)
ThreadLandsUnset ==
    \E r \in reads :
        /\ r.thread # None /\ reads' = reads \ {r}
        /\ IF r.awaited
           THEN Shows(r) /\ opening' = None /\ UNCHANGED failedOnReload
           ELSE UNCHANGED <<serverVars, chat, notKept, readFailed, failedOnReload, opening, astray>>
        /\ UNCHANGED <<address, fresh, restVars, asked, faults>>

(* The answer of the last read asked for replaces the thread on screen; so *)
(* does the re-read a statement asked for, whatever was asked since.       *)
ThreadLands ==
    \E r \in reads :
        /\ r.thread # None /\ reads' = reads \ {r}
        /\ IF r.for = "reload" THEN Shows(r) /\ UNCHANGED <<failedOnReload, opening>>
           ELSE IF r.awaited
           THEN Shows(r) /\ failedOnReload' = r.thread.failed /\ opening' = None
           ELSE UNCHANGED <<serverVars, chat, notKept, readFailed, failedOnReload, opening, astray>>
        /\ UNCHANGED <<address, fresh, restVars, asked, faults>>

ReadRefused ==
    \E r \in reads :
        /\ r.thread = None
        /\ reads' = reads \ {r}
        /\ opening' = IF r.for = "opening" /\ r.awaited THEN [id |-> r.id, error |-> "refused"] ELSE opening
        /\ UNCHANGED <<serverVars, address, fresh, chat, failedOnReload, readFailed,
                       notKept, restVars, history>>

-----------------------------------------------------------------------------
(* The reader *)

(* What the conversation draws, and what takes a gesture of the reader.    *)
AgentConversation ==
    onPage /\ Settled /\ opening = None /\ statement = None /\ chat.error # "session"
streamFailed == chat.error \in {"provider", "busy", "cut"}
failed == streamFailed \/ failedOnReload

Goes(to) ==
    /\ address' = to
    /\ UNCHANGED <<serverVars, fresh, chat, opening, reads, failedOnReload, readFailed,
                   notKept, text, statement, history>>

(* The list of threads, Back, the entry of the sidebar, another page.      *)
NewThread == onPage /\ address # None /\ Goes(None) /\ UNCHANGED removals
ThreadLink ==
    /\ onPage
    /\ \E id \in Ids : threads[id] # None /\ address # id /\ Goes(id)
    /\ UNCHANGED removals
pageLink == ~onPage /\ Goes(IF chat.turns # <<>> THEN chat.id ELSE None) /\ UNCHANGED removals

(* The list unmounts: a deletion in flight keeps the address it drew last. *)
Leave ==
    /\ onPage /\ Goes(OffPage)
    /\ removals' = {IF r.drawn = None THEN [r EXCEPT !.drawn = address] ELSE r : r \in removals}

RetryRead ==
    /\ Settled /\ onPage /\ opening # None /\ opening.error # None
    /\ openThread(opening.id)
    /\ UNCHANGED <<address, restVars, asked, faults>>

(* The failed turn is dropped from the screen with the next question.      *)
Drawn == IF failed /\ chat.turns # <<>> THEN ButLast(chat.turns) ELSE chat.turns

ask(n) ==
    /\ address' = chat.id
    /\ chat' = [chat EXCEPT !.turns = Append(Drawn, Turn(n, "none")), !.status = "submitted",
                            !.error = None]
    /\ failedOnReload' = FALSE /\ readFailed' = FALSE
    /\ posts' = posts \cup {[id |-> chat.id, n |-> n, left |-> FALSE, drawn |-> Drawn]}
    /\ UNCHANGED <<threads, runs, fresh, opening, reads, notKept, removals, statement,
                   faults, astray>>

(* The input, with a question of the reader or the one handed back.        *)
Type ==
    /\ AgentConversation /\ text = None /\ asked < MaxAsks
    /\ asked' = asked + 1 /\ text' = asked + 1
    /\ UNCHANGED <<serverVars, pageVars, statement, removals, faults, astray>>

submit ==
    /\ AgentConversation /\ ~busy /\ text # None
    /\ text' = None
    /\ ask(text) /\ UNCHANGED asked

(* Reessayer asks the last question again, as a new turn in its place.     *)
retry ==
    /\ AgentConversation /\ ~busy /\ failed /\ chat.turns # <<>> /\ asked < MaxAsks
    /\ asked' = asked + 1
    /\ ask(asked + 1) /\ UNCHANGED text

Stop ==
    /\ AgentConversation /\ busy
    /\ StopStream
    /\ chat' = [chat EXCEPT !.status = "ready"]
    /\ UNCHANGED <<address, fresh, opening, reads, failedOnReload, readFailed, notKept,
                   restVars, asked, faults>>

(* A mutant: the refused question is taken away and not handed back.       *)
SessionLoses ==
    /\ onPage /\ Settled /\ opening = None /\ chat.error = "session"
    /\ chat' = [chat EXCEPT !.turns = ButLast(@), !.status = "ready", !.error = None]
    /\ UNCHANGED <<serverVars, address, fresh, opening, reads, failedOnReload,
                   readFailed, notKept, restVars, history>>

(* The session ended: the question goes back into the input.               *)
SessionReturns ==
    /\ onPage /\ Settled /\ opening = None /\ chat.error = "session"
    /\ text' = Last(chat.turns).n
    /\ chat' = [chat EXCEPT !.turns = ButLast(@), !.status = "ready", !.error = None]
    /\ UNCHANGED <<serverVars, address, fresh, opening, reads, failedOnReload,
                   readFailed, notKept, statement, removals, history>>

-----------------------------------------------------------------------------
(* A statement, and the deletion of a thread *)

SendStatement ==
    /\ Statements /\ AgentConversation /\ ~busy /\ asked < MaxAsks
    /\ asked' = asked + 1
    /\ statement' = [id |-> chat.id, n |-> asked + 1, fresh |-> address = None]
    /\ UNCHANGED <<serverVars, pageVars, text, removals, faults, astray>>

(* record(): the messages of the statement are written as a turn of their  *)
(* own; the page gives the thread its address and reads it again.          *)
StatementKept ==
    /\ statement # None /\ runs[statement.id] = None
    /\ threads' = [threads EXCEPT ![statement.id] =
           Kept(Append(Answered(File(statement.id)), Turn(statement.n, "whole")), FALSE)]
    /\ statement' = None
    /\ address' = IF statement.fresh THEN statement.id ELSE address
    /\ reloadThread
    /\ astray' = astray \cup {statement.n}
    /\ UNCHANGED <<posts, runs, fresh, chat, opening, failedOnReload, readFailed,
                   notKept, text, removals, asked, faults>>

StatementRefused ==
    /\ statement # None /\ statement' = None
    /\ UNCHANGED <<serverVars, pageVars, text, removals, history>>

Forget ==
    \E id \in Ids :
        /\ Deletions /\ onPage /\ Settled /\ threads[id] # None /\ removals = {}
        /\ removals' = {[id |-> id, drawn |-> None]}
        /\ UNCHANGED <<serverVars, pageVars, text, statement, history>>

(* Where the page goes once thread r.id is gone: off its address.          *)
After(r) ==
    IF (IF r.drawn = None THEN address ELSE r.drawn) = r.id THEN None ELSE address
Turns(id) == {File(id).turns[i].n : i \in DOMAIN File(id).turns}

(* A mutant: the file of a thread whose turn is in flight is deleted.      *)
ForgottenRunning ==
    \E r \in removals :
        /\ removals' = removals \ {r}
        /\ threads' = [threads EXCEPT ![r.id] = None] /\ address' = After(r)
        /\ astray' = astray \cup Turns(r.id)
        /\ UNCHANGED <<posts, runs, fresh, chat, opening, reads, failedOnReload,
                       readFailed, notKept, text, statement, asked, faults>>

(* forget(): a turn in flight keeps its file, and the page is told so.     *)
Forgotten ==
    \E r \in removals :
        /\ removals' = removals \ {r}
        /\ IF runs[r.id] # None THEN UNCHANGED <<threads, address, astray>>
           ELSE /\ threads' = [threads EXCEPT ![r.id] = None] /\ address' = After(r)
                /\ astray' = astray \cup Turns(r.id)
        /\ UNCHANGED <<posts, runs, fresh, chat, opening, reads, failedOnReload,
                       readFailed, notKept, text, statement, asked, faults>>

-----------------------------------------------------------------------------
Init ==
    /\ threads = [id \in Ids |-> IF id \in Stored THEN Kept(<<Turn(0, "whole")>>, FALSE) ELSE None]
    /\ posts = {} /\ runs = [id \in Ids |-> None]
    /\ address \in {None} \cup Stored
    /\ fresh = Cardinality(Stored) + 2
    /\ chat = Chat(Cardinality(Stored) + 1, <<>>)
    /\ opening = None /\ reads = {}
    /\ failedOnReload = FALSE /\ readFailed = FALSE /\ notKept = FALSE
    /\ text = None /\ statement = None /\ removals = {}
    /\ asked = 0 /\ faults = 0 /\ astray = {}

Next ==
    \/ TurnTaken \/ TurnRefused \/ PostLost
    \/ \E id \in Ids : \/ Word(id) \/ Complete(id) \/ ProviderFails(id)
                       \/ ConnectionLost(id) \/ LeftEnds(id)
    \/ PageEffect \/ ThreadRead \/ ThreadLands \/ ReadRefused
    \/ NewThread \/ ThreadLink \/ pageLink \/ Leave \/ RetryRead
    \/ Type \/ submit \/ retry \/ Stop \/ SessionReturns
    \/ SendStatement \/ StatementKept \/ StatementRefused
    \/ Forget \/ Forgotten

Spec == Init /\ [][Next]_vars

-----------------------------------------------------------------------------
(* What must hold *)

TypeOK ==
    /\ address \in Ids \cup {None, OffPage}
    /\ chat.status \in {"ready", "submitted", "streaming", "error"}
    /\ (chat.error # None) = (chat.status = "error")
    /\ busy => chat.turns # <<>>
    /\ Cardinality({r \in reads : r.for = "opening" /\ r.awaited}) <= 1
    /\ \A id \in Ids : runs[id] # None => runs[id].n \in 1 .. asked

(* "What is on screen is what the model will be given" (AgentChat.tsx, in  *)
(* ask): a turn is run on the turns drawn above its question, but for those*)
(* astray: stopped before a word, cut, said not to be kept, read while they*)
(* ran, forgotten, or a statement's.                                       *)
Agreed(turns) == SelectSeq(turns, LAMBDA t : t.n \notin astray)
Taken(p) == p \notin posts' /\ runs[p.id] = None /\ runs'[p.id] # None
GivenIsDrawn ==
    [][\A p \in posts : Taken(p) => Agreed(runs'[p.id].history) = Agreed(p.drawn)]_vars

(* "A failed turn is dropped by the server whatever is asked next"         *)
(* (AgentChat.tsx:442): the model is given no turn the screen dropped.     *)
Numbers(turns) == {turns[i].n : i \in DOMAIN turns}
FailedIsDropped ==
    [][\A p \in posts : Taken(p) => Numbers(runs'[p.id].history) \subseteq Numbers(p.drawn)]_vars

(* The thread that lands is the last one asked for: an answer to an        *)
(* earlier read never takes the screen (agentChatProvider.tsx, reading).   *)
LandedIsAsked ==
    [][chat'.id # chat.id =>
           \/ chat'.id = fresh
           \/ opening # None /\ opening.id = chat'.id
           \/ \E r \in reads \ reads' : r.for = "reload"]_vars

(* Coming back to the thread on screen leaves its stream alone: a turn in  *)
(* flight is left only by Stop, by another thread, by a lost connection or *)
(* by the re-read of a statement (agentChatProvider.tsx, openThread).      *)
StreamIsLeftAlone ==
    [][\A id \in Ids : runs[id] # None /\ ~runs[id].left /\ runs'[id] # None /\ runs'[id].left =>
           \/ chat'.id # chat.id
           \/ faults' > faults
           \/ chat' = [chat EXCEPT !.status = "ready"]
           \/ \E r \in reads \ reads' : r.for = "reload"]_vars

(* The failure said under a thread is its own: the thread was read with    *)
(* its last turn failed, and not asked again since (failedOnReload).       *)
FailureIsOfItsThread == failedOnReload => readFailed

(* A question refused for want of a session is handed back to the input,   *)
(* whatever page the reader was on when the refusal came (AgentChat.tsx,   *)
(* returned).                                                              *)
QuestionIsHandedBack ==
    [][chat.error = "session" /\ chat'.id = chat.id /\ chat' # chat /\ reads \subseteq reads' =>
           text' = Last(chat.turns).n]_vars

(* A turn written whole stays in its file until the file is deleted: no    *)
(* other write of the thread starts from a history read before it.         *)
WholeTurnIsKept ==
    [][\A id \in Ids : threads[id] # None /\ threads'[id] # None =>
           \A i \in DOMAIN threads[id].turns :
               threads[id].turns[i].answer = "whole" /\ ~(threads[id].failed /\ i = Len(threads[id].turns))
                   => \E j \in DOMAIN threads'[id].turns : threads'[id].turns[j] = threads[id].turns[i]]_vars

(* A deleted thread does not come back with what it held: the file that    *)
(* appears holds one turn, asked since.                                    *)
ForgottenStaysGone ==
    [][\A id \in Ids : threads[id] = None /\ threads'[id] # None => Len(threads'[id].turns) = 1]_vars
=============================================================================

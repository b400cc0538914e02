---------------------------- MODULE MCWebScreens ----------------------------
(***************************************************************************)
(* The other screens of the web client on small instances.  A behaviour is *)
(* about the surface chosen at the start.                                  *)
(*                                                                         *)
(* The agent's conversations in four instances: two turns and their        *)
(* faults, two reads and their faults, a deletion, statements; its cards   *)
(* in four: the events, a fact, a fact with a save of it, saves alone; the *)
(* grid of the dashboard in three: arranged by its menus, read again,      *)
(* arranged by a drag; the session in two: the code asked again, the       *)
(* procedures of the settings; the theme in two: its fields, its writes;   *)
(* the agent's connection in two: with its other rows, without; the        *)
(* references in two: complete, kept or queued, switched under faults; the *)
(* dials in one.                                                           *)
(***************************************************************************)
EXTENDS Integers, Sequences, TLC

CONSTANTS None, OffPage, Failed, Unread, Later, Sixes, Sevens, Outstanding, Blank, Garbage, k1, k2, lanAddress,
    Surfaces

VARIABLES
    surface,
    threads, posts, runs, address, fresh, chat, opening, reads, failedOnReload, readFailed,
    notKept, text, statement, removals, asked, faults, astray,
    proposals, madeOf, fact, busy, read, flight, invalidated, successor, deciding,
    editor, writing, moves, turns, saves, decided, crossed, newest, unheard,
    stored, layout, layoutRead, draft, toDelete, confirming, drag, columns, states, saving,
    saveFailed, orphan, touched, edits, drags, layoutSaves, layoutReads, resizes,
    gate, minted, jar, requests, known, unlocked, over, procedure, shownToken, lifetime,
    loggedOut, sends, passes, lapses, refusals,
    theme, themeRead, painted, themeForm, preview, dialog, leaving, writings, strokes, themeWrites,
    failures,
    following, chosen, consulted, series, recorded, config, rows, shown, awaited, saved, observed,
    behind, follows, polls, days, losses,
    table, withEvents, inForce, dials, dialsRead, drafts, receipts, sending, queued, base, wanted,
    dialSaves, gestures, configReads, others, lost,
    agent, typedFor, proved, agentRead, agentReading, sheet, tests, agentSaving, rowSaves, overtaken,
    connectionEdits, probes, agentSaves, sheets

threadVars == <<threads, posts, runs, address, fresh, chat, opening, reads, failedOnReload,
    readFailed, notKept, text, statement, removals, asked, faults, astray>>
cardVars == <<proposals, madeOf, fact, busy, read, flight, invalidated, successor, deciding,
    editor, writing, moves, turns, saves, decided, crossed, newest, unheard>>
gridVars == <<stored, layout, layoutRead, draft, toDelete, confirming, drag, columns, states,
    saving, saveFailed, orphan, touched, edits, drags, layoutSaves, layoutReads, resizes>>
sessionVars == <<gate, minted, jar, requests, known, unlocked, over, procedure, shownToken,
    lifetime, loggedOut, sends, passes, lapses, refusals>>
themeVars == <<theme, themeRead, painted, themeForm, preview, dialog, leaving, writings, strokes,
    themeWrites, failures>>
referenceVars == <<following, chosen, consulted, series, recorded, config, rows, shown, awaited,
    saved, observed, behind, follows, polls, days, losses>>
dialVars == <<table, withEvents, inForce, dials, dialsRead, drafts, receipts, sending, queued, base,
    wanted, dialSaves, gestures, configReads, others, lost>>
agentVars == <<agent, typedFor, proved, agentRead, agentReading, sheet, tests, agentSaving, rowSaves,
    overtaken, connectionEdits, probes, agentSaves, sheets>>
settingVars == <<themeVars, referenceVars, dialVars, agentVars>>
screenVars == <<threadVars, cardVars, gridVars, sessionVars>>

Chatting == INSTANCE AgentThreads WITH
    Ids <- {1, 2, 3}, Stored <- {1}, MaxAsks <- 2, MaxReads <- 1, MaxFaults <- 1,
    Statements <- FALSE, Deletions <- FALSE
Reopening == INSTANCE AgentThreads WITH
    Ids <- {1, 2, 3}, Stored <- {1}, MaxAsks <- 1, MaxReads <- 2, MaxFaults <- 1,
    Statements <- FALSE, Deletions <- FALSE
Forgetting == INSTANCE AgentThreads WITH
    Ids <- {1, 2, 3}, Stored <- {1}, MaxAsks <- 1, MaxReads <- 2, MaxFaults <- 0,
    Statements <- FALSE, Deletions <- TRUE
Giving == INSTANCE AgentThreads WITH
    Ids <- {1, 2, 3}, Stored <- {1}, MaxAsks <- 2, MaxReads <- 1, MaxFaults <- 1,
    Statements <- TRUE, Deletions <- FALSE

EventsCard == INSTANCE AgentCards WITH
    Kind <- "events", MaxProposals <- 3, MaxMoves <- 1, MaxTurns <- 1, MaxSaves <- 2
FactCard == INSTANCE AgentCards WITH
    Kind <- "fact", MaxProposals <- 1, MaxMoves <- 1, MaxTurns <- 1, MaxSaves <- 0
Confirming == INSTANCE AgentCards WITH
    Kind <- "fact", MaxProposals <- 1, MaxMoves <- 0, MaxTurns <- 0, MaxSaves <- 1
Chips == INSTANCE AgentCards WITH
    Kind <- "none", MaxProposals <- 1, MaxMoves <- 0, MaxTurns <- 0, MaxSaves <- 2

(* The grid: one card that arrives hidden, one that is hidden by default,  *)
(* one that renders nothing; a layout a later release wrote, one with an   *)
(* unknown card, a width refused and a card twice, and a plain one.        *)
Card(id, widths, arrivesHidden, hiddenByDefault) ==
    [id |-> id, width |-> "half", widths |-> widths, arrivesHidden |-> arrivesHidden,
     hiddenByDefault |-> hiddenByDefault]
Cards == <<Card("allocation", {"half", "full"}, TRUE, FALSE), Card("gain", {"half"}, FALSE, FALSE),
    Card("rhythm", {"half"}, FALSE, FALSE), Card("benchmark", {"half", "full"}, TRUE, TRUE)>>
Place(id, width, hidden) == [id |-> id, width |-> width, hidden |-> hidden]
Foreign == {Later,
    <<Place("movers", "half", FALSE), Place("benchmark", "full", FALSE),
      Place("gain", "full", FALSE), Place("gain", "half", TRUE), Place("rhythm", "half", TRUE)>>}
Plain == {
    <<Place("gain", "half", FALSE), Place("benchmark", "full", FALSE),
      Place("rhythm", "half", FALSE), Place("allocation", "half", FALSE)>>}
Rendered == [id \in {"allocation", "gain", "rhythm", "benchmark"} |->
    IF id = "gain" THEN "nothing" ELSE "renders"]

Arranging == INSTANCE DashboardGrid WITH
    Registry <- Cards, Layouts <- Foreign, States <- {Rendered}, Columns <- {2},
    MaxEdits <- 2, MaxDrags <- 0, MaxSaves <- 2, MaxReads <- 0, MaxResizes <- 0,
    crossed <- touched, saves <- layoutSaves, reads <- layoutReads
Rereading == INSTANCE DashboardGrid WITH
    Registry <- Cards, Layouts <- Foreign, States <- {Rendered}, Columns <- {2},
    MaxEdits <- 1, MaxDrags <- 0, MaxSaves <- 2, MaxReads <- 1, MaxResizes <- 0,
    crossed <- touched, saves <- layoutSaves, reads <- layoutReads
Dragging == INSTANCE DashboardGrid WITH
    Registry <- Cards, Layouts <- Plain, States <- {Rendered}, Columns <- {1, 3},
    MaxEdits <- 1, MaxDrags <- 1, MaxSaves <- 1, MaxReads <- 0, MaxResizes <- 1,
    crossed <- touched, saves <- layoutSaves, reads <- layoutReads

Unlocking == INSTANCE Session WITH
    Codes <- {Sixes, Sevens}, Lifetimes <- {900, 2592000}, DefaultLifetime <- 2592000,
    Gestures <- {"read", "pin", "lifetime", "logout"},
    MaxSends <- 2, MaxMoves <- 1, MaxLapses <- 1, MaxFaults <- 0
Securing == INSTANCE Session WITH
    Codes <- {Sixes, Sevens}, Lifetimes <- {900, 2592000}, DefaultLifetime <- 2592000,
    Gestures <- {"pin", "enable", "change", "disable", "regenerate"},
    MaxSends <- 2, MaxMoves <- 1, MaxLapses <- 0, MaxFaults <- 1

(* The settings.  A theme that links its colours on one ground only, and   *)
(* one whose keys are not on both grounds.                                 *)
Theme(both, light, dark) == [theme |-> both, light |-> light, dark |-> dark]
Linked == Theme("tracking-normal" :> 1, "background" :> 3 @@ "sidebar" :> 1,
    "background" :> 3 @@ "sidebar" :> 3)
Uneven == Theme("shadow" :> 3, "shadow" :> 2 @@ "tracking-normal" :> 2, "background" :> 3)
Shared == Theme("background" :> 3 @@ "sidebar" :> 3, "sidebar" :> 1 @@ "shadow" :> 1, "shadow" :> 2)

Painting == INSTANCE ThemeEditor WITH
    Themes <- {Linked, Uneven, Shared}, Values <- {1, 3},
    MaxEdits <- 3, MaxWrites <- 0, MaxFaults <- 0,
    row <- theme, cached <- themeRead, sheet <- painted, form <- themeForm, writes <- themeWrites
Applying == INSTANCE ThemeEditor WITH
    Themes <- {Linked, Uneven}, Values <- {3}, MaxEdits <- 1, MaxWrites <- 2, MaxFaults <- 1,
    row <- theme, cached <- themeRead, sheet <- painted, form <- themeForm, writes <- themeWrites
Start(followed, kept, complete, events) ==
    [followed |-> followed, kept |-> kept, complete |-> complete, recorded |-> events]
Following == INSTANCE References WITH
    Offered <- <<"world", "sp">>, MaxWrites <- 2, MaxReads <- 0, MaxDays <- 1, MaxFaults <- 0,
    Starts <- {Start(<<"world">>, {}, {"world"}, TRUE), Start(<<>>, {"world"}, {"world"}, TRUE),
               Start(<<"world", "sp">>, {}, {}, TRUE), Start(<<"world", "sp">>, {}, {"world", "sp"}, TRUE)},
    Asked <- Outstanding, reading <- awaited, requests <- saved, writes <- follows, reads <- polls,
    faults <- losses
Switching == INSTANCE References WITH
    Offered <- <<"world", "sp">>, MaxWrites <- 2, MaxReads <- 1, MaxDays <- 0, MaxFaults <- 1,
    Starts <- {Start(<<>>, {}, {}, FALSE), Start(<<"world">>, {}, {}, TRUE)},
    Asked <- Outstanding, reading <- awaited, requests <- saved, writes <- follows, reads <- polls,
    faults <- losses
Dialling == INSTANCE SettingsDials WITH
    Keys <- {"regular_interval", "base_currency", "update_check"},
    Texts <- [regular_interval |-> {5, 60, Blank}, base_currency |-> {"EUR", "USD"},
              update_check |-> {"true", "false"}],
    Asked <- Outstanding, MaxGestures <- 3, MaxReads <- 1, MaxOthers <- 1, MaxFaults <- 1,
    recorded <- withEvents, config <- dials, configRead <- dialsRead, requests <- dialSaves,
    losses <- lost
Connecting == INSTANCE AgentSettings WITH
    Providers <- {"anthropic", "openai_compatible"}, AgentKeys <- {k1, k2}, Addresses <- {lanAddress},
    Local <- lanAddress, Asked <- Outstanding, Rows <- {"enabled"},
    MaxEdits <- 2, MaxTests <- 2, MaxRowSaves <- 1, MaxSheets <- 1,
    row <- agent, cached <- agentRead, reading <- agentReading, saving <- agentSaving,
    edits <- connectionEdits, saves <- agentSaves
Testing == INSTANCE AgentSettings WITH
    Providers <- {"anthropic", "openai_compatible"}, AgentKeys <- {k1, k2}, Addresses <- {lanAddress},
    Local <- lanAddress, Asked <- Outstanding, Rows <- {"enabled"},
    MaxEdits <- 3, MaxTests <- 2, MaxRowSaves <- 0, MaxSheets <- 1,
    row <- agent, cached <- agentRead, reading <- agentReading, saving <- agentSaving,
    edits <- connectionEdits, saves <- agentSaves

-----------------------------------------------------------------------------
(* What is not of the surface chosen stands still, in one of its first     *)
(* states.  The two keys are alike: the one stored at the start is the     *)
(* first.                                                                  *)
OnThreads == surface \in {"chatting", "reopening", "forgetting", "giving"}
OnCards == surface \in {"events", "fact", "confirming", "chips"}
OnGrid == surface \in {"arranging", "rereading", "dragging"}
OnSession == surface \in {"unlocking", "securing"}
OnTheme == surface \in {"painting", "applying"}
OnAgent == surface \in {"connecting", "testing"}
OnReferences == surface \in {"following", "switching"}
OnSettings == OnTheme \/ OnAgent \/ OnReferences \/ surface = "dialling"

Init ==
    /\ surface \in Surfaces
    /\ Giving!Init /\ (OnThreads \/ address = None)
    /\ CASE surface = "fact" -> FactCard!Init
         [] surface \in {"confirming", "chips"} -> Confirming!Init
         [] OTHER -> EventsCard!Init
    /\ OnCards \/ ~busy
    /\ IF surface = "dragging" THEN Dragging!Init ELSE Arranging!Init
    /\ OnGrid \/ stored = Later
    /\ Unlocking!Init /\ (OnSession \/ ~gate.enabled)
    /\ IF surface = "painting" THEN Painting!Init ELSE Applying!Init
    /\ OnTheme \/ theme = None
    /\ IF surface = "following" THEN Following!Init
       ELSE Switching!Init /\ (surface = "switching" \/ following = <<>>)
    /\ Dialling!Init
    /\ Connecting!Init /\ agent.api_key # k2 /\ (OnAgent \/ agent = Connecting!EMPTY)

Next ==
    /\ UNCHANGED surface
    /\ \/ /\ ~OnSettings /\ UNCHANGED settingVars
          /\ \/ surface = "chatting" /\ UNCHANGED <<cardVars, gridVars, sessionVars>> /\ Chatting!Next
             \/ surface = "reopening" /\ UNCHANGED <<cardVars, gridVars, sessionVars>> /\ Reopening!Next
             \/ surface = "forgetting" /\ UNCHANGED <<cardVars, gridVars, sessionVars>> /\ Forgetting!Next
             \/ surface = "giving" /\ UNCHANGED <<cardVars, gridVars, sessionVars>> /\ Giving!Next
             \/ surface = "events" /\ UNCHANGED <<threadVars, gridVars, sessionVars>> /\ EventsCard!Next
             \/ surface = "fact" /\ UNCHANGED <<threadVars, gridVars, sessionVars>> /\ FactCard!Next
             \/ surface = "confirming" /\ UNCHANGED <<threadVars, gridVars, sessionVars>> /\ Confirming!Next
             \/ surface = "chips" /\ UNCHANGED <<threadVars, gridVars, sessionVars>> /\ Chips!Next
             \/ surface = "arranging" /\ UNCHANGED <<threadVars, cardVars, sessionVars>> /\ Arranging!Next
             \/ surface = "rereading" /\ UNCHANGED <<threadVars, cardVars, sessionVars>> /\ Rereading!Next
             \/ surface = "dragging" /\ UNCHANGED <<threadVars, cardVars, sessionVars>> /\ Dragging!Next
             \/ surface = "unlocking" /\ UNCHANGED <<threadVars, cardVars, gridVars>> /\ Unlocking!Next
             \/ surface = "securing" /\ UNCHANGED <<threadVars, cardVars, gridVars>> /\ Securing!Next
       \/ /\ OnSettings /\ UNCHANGED screenVars
          /\ \/ surface = "painting" /\ UNCHANGED <<referenceVars, dialVars, agentVars>> /\ Painting!Next
             \/ surface = "applying" /\ UNCHANGED <<referenceVars, dialVars, agentVars>> /\ Applying!Next
             \/ surface = "following" /\ UNCHANGED <<themeVars, dialVars, agentVars>> /\ Following!Next
             \/ surface = "switching" /\ UNCHANGED <<themeVars, dialVars, agentVars>> /\ Switching!Next
             \/ surface = "dialling" /\ UNCHANGED <<themeVars, referenceVars, agentVars>> /\ Dialling!Next
             \/ surface = "connecting" /\ UNCHANGED <<themeVars, referenceVars, dialVars>> /\ Connecting!Next
             \/ surface = "testing" /\ UNCHANGED <<themeVars, referenceVars, dialVars>> /\ Testing!Next

Spec == Init /\ [][Next]_<<surface, screenVars, settingVars>>

-----------------------------------------------------------------------------
(* The properties of the screens: a formula that reads the same in every   *)
(* instance is taken from one.                                             *)

(* The variables keep their types; one read of a thread is awaited at most. *)
TypeOK ==
    /\ OnThreads => Giving!TypeOK
    /\ surface \in {"fact", "confirming", "chips"} => FactCard!TypeOK
    /\ surface = "events" => EventsCard!TypeOK

(* What is drawn above a question is what the model is given (AgentChat.tsx, *)
(* ask), and one refused for want of a session returns to the input (returned). *)
QuestionIsCarried == Giving!GivenIsDrawn /\ Giving!QuestionIsHandedBack

(* The thread that lands is the last asked for, and coming back to a thread *)
(* leaves its stream alone (agentChatProvider.tsx, openThread).             *)
ScreenIsAsked == Giving!LandedIsAsked /\ Giving!StreamIsLeftAlone

(* A turn written whole stays in its file (agent_threads.py, saved), and a  *)
(* deleted thread does not come back with its turns (agent_routes.py).      *)
FileIsKept == Giving!WholeTurnIsKept /\ Giving!ForgottenStaysGone

(* The failure said under a thread is its own, where no statement is given *)
(* (agentChatProvider.tsx, failedOnReload).                                *)
FailureIsItsOwn == surface = "giving" \/ Chatting!FailureIsOfItsThread

(* The failure said under a thread is its own (agentChatProvider.tsx:42).  *)
FailureIsOfItsThread == Giving!FailureIsOfItsThread

(* A decided proposal has no buttons left (EventsCard.tsx, FactCard), gives *)
(* way to one other at most (event_proposals.py, _ready), and a chip at rest *)
(* is the fact the server holds, where the page could hear of it             *)
(* (AgentProfile.tsx, ProfileChips).                                         *)
CardIsTheServers ==
    /\ OnCards => EventsCard!DecidedHasNoButtons
    /\ EventsCard!OneSuccessor
    /\ FactCard!ChipIsTheFact

(* Every card is drawn once, in rows that are filled or at the spans a     *)
(* drag began with, and a layout being arranged is drawn as it is          *)
(* (dashboardLayout.ts, normalizeLayout, resolveLayout; DashboardGrid.tsx, *)
(* cells).                                                                 *)
CardsAreDrawnOnce == OnGrid => Arranging!CardsAreDrawnOnce /\ Arranging!DraftIsKept

(* A save that ends the session leaves the server with the layout on       *)
(* screen, and an edit moves rows whole (DashboardGrid.tsx, done; dropBlock). *)
LayoutIsAsDrawn == Arranging!SavedIsDrawn /\ Arranging!RowsMoveWhole

(* Nothing lands in a draft that is being written (DashboardGrid.tsx:264). *)
DraftIsSpent == Arranging!DraftIsSpent

(* A cookie the gate accepts was opened with the code in force, and by a   *)
(* session that did not sign out (auth_gate.py, _sign_in, _lifetime, _logout). *)
SessionsHold == OnSession => Unlocking!SessionIsOfTheCode /\ Unlocking!SignedOutStaysOut

(* The settings are the server's.  The preview paints the candidate and an *)
(* apply what its fields show (themeForm.ts); a followed reference is      *)
(* spared by the purge and its switch moves no other (ReferencesSheet.tsx); *)
(* a row at rest is the value saved last (useDial.ts); the connection kept *)
(* passed its test with its own key, and what may be saved is what is kept *)
(* (api/agent.py, AgentProviderSheet.tsx).                                 *)
SettingsAreStored ==
    /\ OnTheme => /\ Painting!ApplyPaintsTheFields
                  /\ Painting!PreviewIsTheCandidate /\ Painting!PreviewGoesWithItsForm
    /\ OnReferences => /\ Following!FollowedIsSpared /\ Following!ChosenIsFollowed
                       /\ Following!QueueWaitsForOne /\ Following!ToggleMovesOne
    /\ surface = "dialling" => Dialling!RowIsTheServers /\ Dialling!LastIsSaved
    /\ OnAgent => /\ Connecting!StoredWasTested /\ Connecting!EnabledCanRun
                  /\ Connecting!SavableIsStored
=============================================================================

------------------------------ MODULE Session ------------------------------
(***************************************************************************)
(* The session of one browser: the gate in front of the server             *)
(* (packages/app, auth_gate.py), the cookie between them, and the page --  *)
(* the status it caches (AuthBoot.tsx), the flag a 401 sets                *)
(* (lib/session.ts), the code asked (PinForm.tsx) and the procedures of    *)
(* the settings (SecuritySection.tsx, useRowSave.ts).                      *)
(*                                                                         *)
(* A request is Sent by the page, enters the gate, which captures its      *)
(* state, is finished under the gate's lock on the state of that moment,   *)
(* and lands: its answers cross.  Another browser moves in between.  A     *)
(* code, a secret, a token and a session's id are numbers or model values; *)
(* a cookie carries the code it was opened with, which nothing reads but   *)
(* the properties.  The throttle and the store are a bounded number of     *)
(* refusals.                                                               *)
(***************************************************************************)
EXTENDS Integers, FiniteSets

CONSTANTS None,
    Codes,          \* the six digits someone may type
    Gestures,       \* the routes the reader of this instance asks for
    Lifetimes,      \* the presets, of which one is the default
    DefaultLifetime,
    MaxSends,       \* requests of the page
    MaxMoves,       \* moves of another browser, or of another tab of this one
    MaxLapses,      \* times the cookie grows older than the lifetime
    MaxFaults       \* refusals of the throttle, the store or the network

VARIABLES
    gate,           \* AuthState: what the store and the gate hold
    minted,         \* the secrets, tokens and ids made so far
    jar,            \* the cookie of the browser
    requests,       \* what is between the page and the server
    known,          \* the status the page caches, never stale by itself
    unlocked,       \* the app is shown, and stays mounted
    over,           \* the session ended under the page
    procedure,      \* the dialog that is open, and the request it waits for
    shownToken,     \* the token in its dialog
    lifetime,       \* the auto-lock row: the run it follows, the value chosen
    loggedOut,      \* the ids this browser signed out of
    sends, passes, lapses, refusals

gateVars == <<gate, minted, loggedOut>>
pageVars == <<known, unlocked, over, procedure, shownToken, lifetime>>
boundVars == <<sends, passes, lapses, refusals>>
sessionVars == <<gateVars, jar, requests, pageVars, boundVars>>

-----------------------------------------------------------------------------
(* The gate.                                                               *)

Off == [enabled |-> FALSE, code |-> None, secret |-> 0, token |-> 0, revoked |-> {},
        seconds |-> DefaultLifetime]

Cookie(sid, secret, code) == [sid |-> sid, secret |-> secret, code |-> code, lapsed |-> FALSE]

(* _session: the cookie is signed with the secret of this state, young     *)
(* enough, and of no id that was revoked.                                  *)
Valid(cookie, state) ==
    /\ cookie # None
    /\ state.enabled
    /\ cookie.secret = state.secret /\ ~cookie.lapsed
    /\ cookie.sid \notin state.revoked

(* _enable, _change: a code is stored with a secret of its own; a change   *)
(* keeps the token and the lifetime, and has no session left to revoke.    *)
Enabled(code, secret, token) ==
    [Off EXCEPT !.enabled = TRUE, !.code = code, !.secret = secret, !.token = token]
Changed(state, code, secret) ==
    [state EXCEPT !.code = code, !.secret = secret, !.revoked = {}]

(* A session on the state it was checked against opens with the code that  *)
(* was typed (_sign_in), and a lifetime is stored for a session of the     *)
(* current secret only (_lifetime).                                        *)
SignedInLate(r, sid) == Cookie(sid, gate.secret, r.body.code)
SignedIn(r, sid) == Cookie(sid, r.state.secret, r.body.code)
KeepsSession(r) == gate.enabled /\ gate.secret = r.state.secret

-----------------------------------------------------------------------------
(* The traffic.                                                            *)

Guarded == {"change", "disable", "regenerate"}
Keep == [kind |-> "keep"]

Request(route, body) ==
    [id |-> sends + 1, route |-> route, body |-> body, cookie |-> jar, phase |-> "sent",
     state |-> Off, session |-> FALSE, answer |-> None, sets |-> Keep]

Send(route, body) ==
    /\ route \in Gestures
    /\ sends < MaxSends
    /\ sends' = sends + 1
    /\ requests' = requests \cup {Request(route, body)}

Answered(r, answer, sets) ==
    requests' = (requests \ {r})
        \cup {[r EXCEPT !.phase = "answered", !.answer = answer, !.sets = sets]}

Refuse(r, status) == Answered(r, [ok |-> FALSE, status |-> status], Keep)
Accept(r, body, sets) == Answered(r, [ok |-> TRUE, status |-> 200, body |-> body], sets)

(* _status: what a signed-in reader is told, and what any other is.        *)
StatusOf(state, session) ==
    [enabled |-> state.enabled, authenticated |-> session,
     token |-> IF session THEN state.token ELSE None,
     seconds |-> IF session THEN state.seconds ELSE None]

(* A request reaches the gate: __call__ and _auth capture the state and    *)
(* the session, and refuse at once what has none.  A page's request signs  *)
(* its cookie again when it is a minute old and somebody sent it.          *)
Enters(r) ==
    LET session == Valid(r.cookie, gate)
        entered == [r EXCEPT !.phase = "entered", !.state = gate, !.session = session]
    IN  /\ r.phase = "sent"
        /\ \/ /\ r.route = "read"
              /\ IF gate.enabled /\ ~session
                 THEN Refuse(r, 401)
                 ELSE \/ Accept(r, None, Keep)
                      \/ session /\ ~r.body.background
                         /\ Accept(r, None, Cookie(r.cookie.sid, gate.secret, r.cookie.code))
           \/ r.route = "status" /\ Accept(r, StatusOf(gate, session), Keep)
           \/ r.route \in Guarded \cup {"pin", "lifetime"} /\ ~gate.enabled /\ Refuse(r, 409)
           \/ /\ r.route \in Guarded \cup {"lifetime"}
              /\ gate.enabled /\ ~session
              /\ Refuse(r, 401)
           \/ /\ \/ r.route \in {"enable", "logout"}
                 \/ r.route = "pin" /\ gate.enabled
                 \/ r.route \in Guarded \cup {"lifetime"} /\ session
              /\ requests' = (requests \ {r}) \cup {entered}
        /\ UNCHANGED <<gateVars, jar, pageVars, boundVars>>

(* The throttle holds an attempt off, the store refuses a write, the       *)
(* network fails: the state stands.                                        *)
Faults(r) ==
    /\ refusals < MaxFaults
    /\ refusals' = refusals + 1
    /\ \/ r.phase = "sent" /\ Refuse(r, 0)
       \/ r.phase = "entered" /\ r.route \in Guarded \cup {"pin"} /\ Refuse(r, 429)
       \/ r.phase = "entered" /\ r.route # "pin" /\ Refuse(r, 503)
    /\ UNCHANGED <<gateVars, jar, pageVars, sends, passes, lapses>>

Signs(r) ==
    /\ r.route = "pin"
    /\ IF r.body.code = r.state.code
       THEN /\ Accept(r, None, SignedIn(r, minted + 1))
            /\ minted' = minted + 1
       ELSE Refuse(r, 401) /\ UNCHANGED minted
    /\ UNCHANGED <<gate, loggedOut>>

LogsOut(r) ==
    /\ r.route = "logout"
    /\ gate' = IF r.session /\ gate.enabled
               THEN [gate EXCEPT !.revoked = @ \cup {r.cookie.sid}] ELSE gate
    /\ loggedOut' = IF r.session THEN loggedOut \cup {r.cookie.sid} ELSE loggedOut
    /\ Accept(r, None, None)
    /\ UNCHANGED minted

Enables(r) ==
    /\ r.route = "enable"
    /\ IF gate.enabled
       THEN Refuse(r, 409) /\ UNCHANGED gateVars
       ELSE /\ gate' = Enabled(r.body.code, minted + 1, minted + 2)
            /\ minted' = minted + 3
            /\ Accept(r, minted + 2, Cookie(minted + 3, gate'.secret, r.body.code))
            /\ UNCHANGED loggedOut

(* A current code is checked against the state under the lock; a code that *)
(* was taken off since matches none.                                       *)
Proceeds(r) ==
    /\ r.route \in Guarded
    /\ IF r.body.current # gate.code
       THEN Refuse(r, 403) /\ UNCHANGED gateVars
       ELSE /\ \/ /\ r.route = "change"
                  /\ gate' = Changed(gate, r.body.code, minted + 1)
                  /\ minted' = minted + 2
                  /\ Accept(r, None, Cookie(minted + 2, gate'.secret, r.body.code))
               \/ /\ r.route = "disable"
                  /\ gate' = Off
                  /\ Accept(r, None, None)
                  /\ UNCHANGED minted
               \/ /\ r.route = "regenerate"
                  /\ gate' = [gate EXCEPT !.token = minted + 1]
                  /\ minted' = minted + 1
                  /\ Accept(r, minted + 1, Keep)
            /\ UNCHANGED loggedOut

StoresLifetime(r) ==
    /\ r.route = "lifetime"
    /\ gate' = IF KeepsSession(r) THEN [gate EXCEPT !.seconds = r.body.seconds] ELSE gate
    /\ IF ~gate.enabled THEN Refuse(r, 409)
       ELSE IF ~KeepsSession(r) \/ r.cookie.sid \in gate.revoked THEN Refuse(r, 401)
       ELSE Accept(r, gate'.seconds, Cookie(r.cookie.sid, gate.secret, r.cookie.code))
    /\ UNCHANGED <<minted, loggedOut>>

Finishes(r) ==
    /\ r.phase = "entered"
    /\ Signs(r) \/ LogsOut(r) \/ Enables(r) \/ Proceeds(r) \/ StoresLifetime(r)
    /\ UNCHANGED <<jar, pageVars, boundVars>>

-----------------------------------------------------------------------------
(* The page.                                                               *)

Idle == [open |-> None, awaits |-> None]
AtRest == [run |-> None, chosen |-> None]

(* The latch: the app is shown once the status allows it, and a status     *)
(* that says otherwise later does not take it away.                        *)
Shown(status) == unlocked \/ (status # None /\ (status.enabled => status.authenticated))
Learns(status) == known' = status /\ unlocked' = Shown(status)

Reading == {r \in requests : r.route = "status" /\ ~r.body.dropped}
Signing == {r \in requests : r.route = "pin" /\ r.body.on = IF unlocked THEN "dialog" ELSE "screen"}

(* The page as a reader can reach it: no dialog above it.                  *)
Clear == unlocked /\ ~over /\ procedure = Idle /\ shownToken = None

(* The status is read once at boot, and again by hand when it failed.      *)
Boots ==
    /\ known = None /\ Reading = {}
    /\ requests' = requests \cup {Request("status", [dropped |-> FALSE])}
    /\ UNCHANGED <<gateVars, jar, pageVars, boundVars>>

(* A read of the page, by somebody or by an idle tab (isBackground).       *)
ReadsPage ==
    /\ unlocked
    /\ \E background \in BOOLEAN : Send("read", [background |-> background])
    /\ UNCHANGED <<gateVars, jar, pageVars, passes, lapses, refusals>>

(* Six digits: on the PIN screen, or in the dialog of a session that ended. *)
Unlocks ==
    /\ known # None
    /\ unlocked => over
    /\ Signing = {}
    /\ \E code \in Codes :
        Send("pin", [code |-> code, on |-> IF unlocked THEN "dialog" ELSE "screen"])
    /\ UNCHANGED <<gateVars, jar, pageVars, passes, lapses, refusals>>

(* A procedure's dialog opens, is given up -- its mutation is let go of,   *)
(* not stopped -- and sends what was typed.                                *)
Opens(name) ==
    /\ Clear /\ name \in Gestures
    /\ name = "enable" <=> ~known.enabled
    /\ procedure' = [Idle EXCEPT !.open = name]
    /\ UNCHANGED <<gateVars, jar, requests, known, unlocked, over, shownToken, lifetime, boundVars>>

GivesUp ==
    /\ procedure.open # None /\ ~over
    /\ procedure' = Idle
    /\ UNCHANGED <<gateVars, jar, requests, known, unlocked, over, shownToken, lifetime, boundVars>>

Submits ==
    /\ procedure.open # None /\ procedure.awaits = None /\ ~over
    /\ \E current, code \in Codes :
        /\ procedure.open = "enable" => current = code
        /\ procedure.open \in {"disable", "regenerate"} => current = code
        /\ procedure.open = "change" => current # code
        /\ Send(procedure.open, [current |-> current, code |-> code])
    /\ procedure' = [procedure EXCEPT !.awaits = sends + 1]
    /\ UNCHANGED <<gateVars, jar, known, unlocked, over, shownToken, lifetime, passes, lapses, refusals>>

LogsOutHere ==
    /\ Clear /\ known.enabled
    /\ ~\E r \in requests : r.route = "logout"
    /\ Send("logout", None)
    /\ UNCHANGED <<gateVars, jar, pageVars, passes, lapses, refusals>>

CopiesToken ==
    /\ shownToken # None /\ ~over
    /\ shownToken' = None
    /\ UNCHANGED <<gateVars, jar, requests, known, unlocked, over, procedure, lifetime, boundVars>>

(* A lifetime is chosen: one save in flight, and what is chosen meanwhile  *)
(* is sent after it (useRowSave, save).                                    *)
Save(seconds, run, answer) ==
    [run |-> run, seconds |-> seconds, queued |-> None, answer |-> answer]

Chooses(seconds) ==
    /\ Clear /\ known.enabled
    /\ \/ /\ lifetime.run = None
          /\ Send("lifetime", Save(seconds, sends + 1, None))
          /\ lifetime' = [run |-> sends + 1, chosen |-> seconds]
       \/ \E r \in requests :
            /\ sends < MaxSends
            /\ r.route = "lifetime" /\ r.body.run = lifetime.run
            /\ requests' = (requests \ {r}) \cup {[r EXCEPT !.body.queued = seconds]}
            /\ lifetime' = [lifetime EXCEPT !.chosen = seconds]
            /\ UNCHANGED sends
    /\ UNCHANGED <<gateVars, jar, known, unlocked, over, procedure, shownToken, passes, lapses, refusals>>

-----------------------------------------------------------------------------
(* An answer lands.                                                        *)

Fails(r) == ~r.answer.ok
Ended(r) == Fails(r) /\ r.answer.status = 401
Leaves(r) == requests' = requests \ {r} /\ UNCHANGED sends

(* A page's 401 opens the dialog (authFetch); the procedures' do not.      *)
ReadLands(r) ==
    /\ r.route = "read"
    /\ over' = (over \/ Ended(r))
    /\ Leaves(r)
    /\ UNCHANGED <<known, unlocked, procedure, shownToken, lifetime>>

StatusLands(r) ==
    /\ r.route = "status"
    /\ IF Fails(r) \/ r.body.dropped THEN UNCHANGED <<known, unlocked>> ELSE Learns(r.answer.body)
    /\ Leaves(r)
    /\ UNCHANGED <<over, procedure, shownToken, lifetime>>

(* The code was right: the screen opens the app on the status it has, the  *)
(* dialog has the status asked again and drops a read on its way.          *)
SignInLands(r) ==
    /\ r.route = "pin"
    /\ IF Fails(r) THEN Leaves(r) /\ UNCHANGED <<known, unlocked, over>>
       ELSE /\ over' = FALSE
            /\ IF r.body.on = "screen"
               THEN /\ Learns([known EXCEPT !.enabled = TRUE, !.authenticated = TRUE])
                    /\ Leaves(r)
               ELSE /\ requests' = {[q EXCEPT !.body = [dropped |-> TRUE]] : q \in Reading}
                         \cup (requests \ (Reading \cup {r}))
                         \cup {[Request("status", [dropped |-> FALSE]) EXCEPT !.cookie = r.sets]}
                    /\ sends' = sends + 1
                    /\ UNCHANGED <<known, unlocked>>
    /\ UNCHANGED <<procedure, shownToken, lifetime>>

(* Signed out: nothing of the page is kept.                                *)
LogoutLands(r) ==
    /\ r.route = "logout"
    /\ IF Fails(r) THEN UNCHANGED pageVars
       ELSE /\ known' = [enabled |-> TRUE, authenticated |-> FALSE, token |-> None, seconds |-> None]
            /\ unlocked' = FALSE /\ over' = FALSE
            /\ procedure' = Idle /\ shownToken' = None /\ lifetime' = AtRest
    /\ Leaves(r)

(* A procedure succeeded: whichever dialog is open closes, and the status  *)
(* says what the gesture left true; a refusal is said in its own dialog.   *)
ProcedureLands(r) ==
    /\ r.route \in Guarded \cup {"enable"}
    /\ IF Fails(r)
       THEN /\ procedure' = IF procedure.awaits = r.id
                            THEN [procedure EXCEPT !.awaits = None] ELSE procedure
            /\ UNCHANGED <<known, unlocked, shownToken>>
       ELSE /\ procedure' = Idle
            /\ \/ /\ r.route \in {"enable", "regenerate"}
                  /\ shownToken' = r.answer.body
                  /\ Learns([known EXCEPT !.enabled = TRUE, !.authenticated = TRUE,
                                          !.token = r.answer.body])
               \/ /\ r.route = "disable"
                  /\ Learns(StatusOf(Off, FALSE))
                  /\ UNCHANGED shownToken
               \/ r.route = "change" /\ UNCHANGED <<known, unlocked, shownToken>>
    /\ Leaves(r)
    /\ UNCHANGED <<over, lifetime>>

(* run: the queued value is sent with the last answer that passed; at the  *)
(* end of the run that answer is what the status says.                     *)
LifetimeLands(r) ==
    LET passed == IF Fails(r) THEN r.body.answer ELSE r.answer.body
    IN  /\ r.route = "lifetime"
        /\ over' = (over \/ Ended(r))
        /\ IF r.body.queued # None
           THEN /\ requests' = (requests \ {r}) \cup
                       {[Request("lifetime", Save(r.body.queued, r.body.run, passed))
                            EXCEPT !.cookie = IF r.sets = Keep THEN jar ELSE r.sets]}
                /\ sends' = sends + 1
                /\ UNCHANGED <<known, unlocked, lifetime>>
           ELSE /\ Leaves(r)
                /\ IF passed = None \/ known = None THEN UNCHANGED <<known, unlocked>>
                   ELSE Learns([known EXCEPT !.seconds = passed])
                /\ lifetime' = IF lifetime.run = r.body.run THEN AtRest ELSE lifetime
        /\ UNCHANGED <<procedure, shownToken>>

Lands(r) ==
    /\ r.phase = "answered"
    /\ jar' = IF r.sets = Keep THEN jar ELSE r.sets
    /\ \/ ReadLands(r) \/ StatusLands(r) \/ SignInLands(r)
       \/ LogoutLands(r) \/ ProcedureLands(r) \/ LifetimeLands(r)
    /\ UNCHANGED <<gateVars, passes, lapses, refusals>>

-----------------------------------------------------------------------------
(* Around the page.                                                        *)

(* Another browser sets, changes or takes off the code; another tab of     *)
(* this one signs out, or opens a session.                                 *)
Elsewhere ==
    /\ passes < MaxMoves
    /\ passes' = passes + 1
    /\ minted' = minted + 2
    /\ \/ /\ ~gate.enabled
          /\ \E code \in Codes : gate' = Enabled(code, minted + 1, minted + 2)
          /\ UNCHANGED <<jar, loggedOut>>
       \/ /\ gate.enabled
          /\ \/ \E code \in Codes : gate' = Changed(gate, code, minted + 1)
             \/ gate' = Off
          /\ UNCHANGED <<jar, loggedOut>>
       \/ /\ Valid(jar, gate)
          /\ gate' = [gate EXCEPT !.revoked = @ \cup {jar.sid}]
          /\ loggedOut' = loggedOut \cup {jar.sid}
          /\ jar' = None
       \/ /\ gate.enabled
          /\ jar' = Cookie(minted + 1, gate.secret, gate.code)
          /\ UNCHANGED <<gate, loggedOut>>
    /\ UNCHANGED <<requests, pageVars, sends, lapses, refusals>>

(* Nobody touched the page for longer than the lifetime.                   *)
Lapses ==
    /\ lapses < MaxLapses
    /\ jar # None /\ ~jar.lapsed
    /\ jar' = [jar EXCEPT !.lapsed = TRUE]
    /\ lapses' = lapses + 1
    /\ UNCHANGED <<gateVars, requests, pageVars, sends, passes, refusals>>

(* The app is opened on a server with or without a code, with the cookie   *)
(* of a session or with none.                                              *)
Init ==
    /\ \/ gate = Off /\ jar = None
       \/ \E code \in {CHOOSE c \in Codes : TRUE} :
            /\ gate = Enabled(code, 1, 2)
            /\ jar \in {None, Cookie(3, 1, code)}
    /\ minted = 3
    /\ requests = {} /\ known = None
    /\ unlocked = FALSE /\ over = FALSE
    /\ procedure = Idle /\ shownToken = None /\ lifetime = AtRest
    /\ loggedOut = {}
    /\ sends = 0 /\ passes = 0 /\ lapses = 0 /\ refusals = 0

Next ==
    \/ Boots \/ ReadsPage \/ Unlocks
    \/ \E name \in Guarded \cup {"enable"} : Opens(name)
    \/ GivesUp \/ Submits \/ LogsOutHere \/ CopiesToken
    \/ \E seconds \in Lifetimes : Chooses(seconds)
    \/ \E r \in requests : Enters(r) \/ Faults(r) \/ Finishes(r) \/ Lands(r)
    \/ Elsewhere \/ Lapses

Spec == Init /\ [][Next]_sessionVars

-----------------------------------------------------------------------------
(* The cookies someone holds or is about to be given.                      *)
Cookies == {jar} \cup {r.cookie : r \in requests}
    \cup {r.sets : r \in {q \in requests : q.sets # Keep}}

(* A cookie the gate accepts was opened with the code in force: a change   *)
(* ends every session made before it, the ones a sign-in or a lifetime on  *)
(* its way would have opened or signed again included (auth_gate.py,       *)
(* _sign_in, _change, _lifetime).                                          *)
SessionIsOfTheCode == \A c \in Cookies : Valid(c, gate) => c.code = gate.code

(* A session that signed out is not opened again, by an answer that was on *)
(* its way or by a change that empties the list (auth_gate.py, _logout).   *)
SignedOutStaysOut == \A c \in Cookies : Valid(c, gate) => c.sid \notin loggedOut
=============================================================================

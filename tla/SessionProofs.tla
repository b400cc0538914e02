--------------------------- MODULE SessionProofs ---------------------------
(***************************************************************************)
(* A session is of the code in force and of nobody who signed out, for     *)
(* every set of codes, gestures and lifetimes and any number of requests,  *)
(* however their answers cross.                                            *)
(***************************************************************************)
EXTENDS Session, TLAPS

-----------------------------------------------------------------------------
(* The strengthening.  What is made is numbered, so that a new secret is   *)
(* nobody's yet; a cookie of the secret in force carries its code, and is  *)
(* revoked if it signed out.                                               *)

IsGate(state) ==
    state = [enabled |-> state.enabled, code |-> state.code, secret |-> state.secret,
             token |-> state.token, revoked |-> state.revoked, seconds |-> state.seconds]
GateInv ==
    /\ minted \in Nat
    /\ IsGate(gate)
    /\ gate.enabled => gate.secret \in 1 .. minted
    /\ loggedOut \subseteq 1 .. minted

IsCookie(c) == c = [sid |-> c.sid, secret |-> c.secret, code |-> c.code, lapsed |-> c.lapsed]
InForce(secret) == gate.enabled /\ secret = gate.secret
CookieInv(c) == c # None =>
    /\ IsCookie(c)
    /\ c.sid \in 1 .. minted /\ c.secret \in 1 .. minted
    /\ InForce(c.secret) => c.code = gate.code
    /\ InForce(c.secret) /\ c.sid \in loggedOut => c.sid \in gate.revoked

(* The state a request captured at the entry may be an old one, but an old *)
(* secret is not the one in force.                                         *)
IsRequest(r) ==
    r = [id |-> r.id, route |-> r.route, body |-> r.body, cookie |-> r.cookie, phase |-> r.phase,
         state |-> r.state, session |-> r.session, answer |-> r.answer, sets |-> r.sets]
CapturedInv(r) == r.phase = "entered" =>
    /\ r.state.enabled =>
          /\ r.state.secret \in 1 .. minted
          /\ InForce(r.state.secret) => r.state.code = gate.code
    /\ r.route = "pin" => r.state.enabled
    /\ r.route = "lifetime" => r.session
    /\ r.session => r.cookie # None /\ r.cookie.secret = r.state.secret
OpensInv(r) == r.phase = "answered" /\ r.route = "pin" /\ r.answer.ok => r.sets # Keep
RequestInv(r) ==
    /\ IsRequest(r)
    /\ OpensInv(r)
    /\ CookieInv(r.cookie)
    /\ r.sets # Keep => CookieInv(r.sets)
    /\ CapturedInv(r)

SessionInv ==
    /\ GateInv
    /\ CookieInv(jar)
    /\ \A r \in requests : RequestInv(r)

(* What a step may do to the gate: make nothing old new, and take the code *)
(* off, give a secret of its own to another one, or keep both and revoke   *)
(* whoever signs out.                                                      *)
Moves ==
    /\ minted' \in Nat /\ minted' >= minted
    /\ IsGate(gate)' /\ loggedOut' \subseteq 1 .. minted'
    /\ \/ ~gate'.enabled
       \/ gate'.enabled /\ gate'.secret \in (minted + 1) .. minted'
       \/ /\ gate.enabled /\ gate'.enabled
          /\ gate'.secret = gate.secret /\ gate'.code = gate.code
          /\ gate.revoked \subseteq gate'.revoked
          /\ loggedOut' \subseteq loggedOut \cup gate'.revoked

LEMMA MovesKeep ==
    ASSUME GateInv, Moves
    PROVE  /\ GateInv'
           /\ \A c : CookieInv(c) => CookieInv(c)'
           /\ \A r : RequestInv(r) => RequestInv(r)'
<1>1. GateInv'
  BY DEF GateInv, Moves
<1>2. ASSUME NEW c, CookieInv(c) PROVE CookieInv(c)'
  BY <1>2 DEF GateInv, Moves, CookieInv, InForce
<1>3. ASSUME NEW r, RequestInv(r) PROVE RequestInv(r)'
  <2>1. CookieInv(r.cookie)' /\ (r.sets # Keep => CookieInv(r.sets)')
    BY <1>2, <1>3 DEF RequestInv
  <2>2. CapturedInv(r)'
    BY <1>3 DEF GateInv, Moves, RequestInv, CapturedInv, InForce
  <2> QED
    BY <1>3, <2>1, <2>2 DEF RequestInv, OpensInv
<1> QED
  BY <1>1, <1>2, <1>3

LEMMA Unmoved ==
    ASSUME GateInv, UNCHANGED gateVars
    PROVE  Moves
BY DEF GateInv, Moves, gateVars, IsGate

(* What is left to show of a step: its new cookie and its new requests.    *)
LEMMA Kept ==
    ASSUME SessionInv, Moves, CookieInv(jar)',
           \A q \in requests' : q \in requests \/ RequestInv(q)'
    PROVE  SessionInv'
BY MovesKeep DEF SessionInv

LEMMA SameJar ==
    ASSUME SessionInv, Moves, UNCHANGED jar
    PROVE  CookieInv(jar)'
<1>1. \A c : CookieInv(c) => CookieInv(c)'
  BY MovesKeep DEF SessionInv
<1> QED
  BY <1>1 DEF SessionInv

-----------------------------------------------------------------------------
(* Requests *)

(* A request that leaves the page carries a cookie of the browser.         *)
LEMMA Asked ==
    ASSUME GateInv, NEW c, CookieInv(c), NEW q, IsRequest(q),
           q.cookie = c, q.phase = "sent", q.sets = Keep
    PROVE  RequestInv(q)
BY DEF RequestInv, CapturedInv, OpensInv

LEMMA SendKeeps ==
    ASSUME SessionInv, UNCHANGED <<gateVars, jar>>,
           NEW route, NEW body, Send(route, body)
    PROVE  SessionInv'
<1>1. GateInv /\ Moves /\ CookieInv(jar)
  BY Unmoved DEF SessionInv
<1>2. CookieInv(jar)'
  BY <1>1, SameJar
<1>3. ASSUME NEW q \in requests', q \notin requests PROVE RequestInv(q)'
  <2>1. q = Request(route, body)
    BY <1>3 DEF Send
  <2>2. IsRequest(q) /\ q.cookie = jar /\ q.phase = "sent" /\ q.sets = Keep
    BY <2>1 DEF Request, IsRequest
  <2>3. RequestInv(q)
    BY <1>1, <2>2, Asked
  <2> QED
    BY <1>1, <2>3, MovesKeep
<1> QED
  BY <1>1, <1>2, <1>3, Kept

(* An answer is of the cookie it came with, and of the one it sets.        *)
LEMMA AnswerKeeps ==
    ASSUME SessionInv, Moves, UNCHANGED jar, NEW r \in requests,
           NEW answer, NEW sets, Answered(r, answer, sets),
           sets # Keep => CookieInv(sets)',
           r.route = "pin" /\ answer.ok => sets # Keep
    PROVE  SessionInv'
<1>1. CookieInv(jar)'
  BY SameJar
<1>2. ASSUME NEW q \in requests', q \notin requests PROVE RequestInv(q)'
  <2>1. q = [r EXCEPT !.phase = "answered", !.answer = answer, !.sets = sets]
    BY <1>2 DEF Answered
  <2>2. RequestInv(r) /\ IsRequest(r)
    BY DEF SessionInv, RequestInv
  <2>3. /\ IsRequest(q) /\ q.cookie = r.cookie /\ q.phase = "answered" /\ q.sets = sets
        /\ q.route = r.route /\ q.answer = answer
    BY <2>1, <2>2 DEF IsRequest
  <2>4. CookieInv(q.cookie)'
    <3>1. CookieInv(r.cookie)
      BY <2>2 DEF RequestInv
    <3> QED
      BY <2>3, <3>1, MovesKeep DEF SessionInv
  <2> QED
    BY <2>3, <2>4 DEF RequestInv, CapturedInv, OpensInv
<1> QED
  BY <1>1, <1>2, Kept

LEMMA RefuseKeeps ==
    ASSUME SessionInv, Moves, UNCHANGED jar, NEW r \in requests, NEW status, Refuse(r, status)
    PROVE  SessionInv'
<1>1. PICK answer : answer.ok = FALSE /\ Answered(r, answer, Keep)
  BY DEF Refuse
<1> QED
  BY <1>1, AnswerKeeps

(* A cookie that is no marker.                                             *)
LEMMA CookieIsOne ==
    ASSUME NEW sid, NEW secret, NEW code, NEW c, c = Cookie(sid, secret, code)
    PROVE  /\ IsCookie(c) /\ c # Keep
           /\ c.sid = sid /\ c.secret = secret /\ c.code = code
BY DEF Cookie, IsCookie, Keep

LEMMA EntersKeeps ==
    ASSUME SessionInv, NEW r \in requests, Enters(r)
    PROVE  SessionInv'
<1> DEFINE session == Valid(r.cookie, gate)
           entered == [r EXCEPT !.phase = "entered", !.state = gate, !.session = session]
<1>1. Moves /\ UNCHANGED <<gateVars, jar>>
  BY Unmoved DEF SessionInv, Enters
<1>2. RequestInv(r) /\ IsRequest(r) /\ CookieInv(r.cookie)
  BY DEF SessionInv, RequestInv
<1>3. ASSUME NEW status, Refuse(r, status) PROVE SessionInv'
  BY <1>1, <1>3, RefuseKeeps
<1>4. ASSUME NEW body, Accept(r, body, Keep), r.route # "pin" PROVE SessionInv'
  BY <1>1, <1>4, AnswerKeeps DEF Accept
<1>5. ASSUME session, r.route = "read",
             Accept(r, None, Cookie(r.cookie.sid, gate.secret, r.cookie.code))
      PROVE  SessionInv'
  <2>1. PICK c : c = Cookie(r.cookie.sid, gate.secret, r.cookie.code) /\ Accept(r, None, c)
    BY <1>5
  <2>2. CookieInv(c)
    BY <1>2, <1>5, <2>1, CookieIsOne DEF CookieInv, Valid
  <2>3. CookieInv(c)'
    BY <1>1, <2>2, MovesKeep DEF SessionInv
  <2> QED
    BY <1>1, <1>5, <2>1, <2>3, AnswerKeeps DEF Accept
<1>6. ASSUME requests' = (requests \ {r}) \cup {entered},
             r.route = "pin" => gate.enabled,
             r.route = "lifetime" => session
      PROVE  SessionInv'
  <2>1. ASSUME NEW q \in requests', q \notin requests PROVE RequestInv(q)
    <3>1. q = entered
      BY <1>6, <2>1
    <3>2. /\ IsRequest(q) /\ q.cookie = r.cookie /\ q.sets = r.sets /\ q.route = r.route
          /\ q.phase = "entered" /\ q.state = gate /\ q.session = session
      BY <1>2, <3>1 DEF IsRequest
    <3>3. CapturedInv(q)
      BY <1>6, <3>2 DEF CapturedInv, InForce, SessionInv, GateInv, Valid
    <3> QED
      BY <1>2, <3>2, <3>3 DEF RequestInv, OpensInv
  <2>2. ASSUME NEW q \in requests', q \notin requests PROVE RequestInv(q)'
    BY <1>1, <2>1, <2>2, MovesKeep DEF SessionInv
  <2> QED
    BY <1>1, <2>2, SameJar, Kept
<1> QED
  BY <1>3, <1>4, <1>5, <1>6 DEF Enters, Guarded

LEMMA FaultsKeeps ==
    ASSUME SessionInv, NEW r \in requests, Faults(r)
    PROVE  SessionInv'
<1>1. Moves /\ UNCHANGED jar
  BY Unmoved DEF SessionInv, Faults
<1>2. \E status \in {0, 429, 503} : Refuse(r, status)
  BY DEF Faults
<1> QED
  BY <1>1, <1>2, RefuseKeeps

-----------------------------------------------------------------------------
(* The gate *)

(* A sign-in opens a session of the secret it was checked against: of no   *)
(* code, or of an older secret, when the gate moved on.                    *)
LEMMA SignsKeeps ==
    ASSUME SessionInv, UNCHANGED jar, NEW r \in requests, r.phase = "entered", Signs(r)
    PROVE  SessionInv'
<1>1. GateInv /\ RequestInv(r) /\ CapturedInv(r)
  BY DEF SessionInv, RequestInv
<1>2. Moves
  BY <1>1 DEF Signs, Moves, GateInv
<1>3. CASE r.body.code # r.state.code
  BY <1>2, <1>3, RefuseKeeps DEF Signs
<1>4. CASE r.body.code = r.state.code
  <2>1. PICK c : c = Cookie(minted + 1, r.state.secret, r.body.code) /\ Accept(r, None, c)
    BY <1>4 DEF Signs, SignedIn
  <2>2. gate' = gate /\ minted' = minted + 1 /\ loggedOut' = loggedOut
    BY <1>4 DEF Signs
  <2>3. IsCookie(c) /\ c.sid = minted + 1 /\ c.secret = r.state.secret /\ c.code = r.state.code
    BY <1>4, <2>1, CookieIsOne
  <2>4. CookieInv(c)'
    BY <1>1, <2>2, <2>3 DEF CookieInv, InForce, GateInv, CapturedInv, Signs
  <2>5. c # Keep
    BY <2>1, CookieIsOne
  <2> QED
    BY <1>2, <2>1, <2>4, <2>5, AnswerKeeps DEF Accept
<1> QED
  BY <1>3, <1>4

LEMMA LogsOutKeeps ==
    ASSUME SessionInv, UNCHANGED jar, NEW r \in requests, r.phase = "entered", LogsOut(r)
    PROVE  SessionInv'
<1>1. GateInv /\ RequestInv(r) /\ CapturedInv(r) /\ CookieInv(r.cookie)
  BY DEF SessionInv, RequestInv
<1>2. r.session => r.cookie.sid \in 1 .. minted
  BY <1>1 DEF CapturedInv, CookieInv
<1>3. Moves
  <2>1. IsGate(gate)
    BY <1>1 DEF GateInv
  <2>2. CASE r.session /\ gate.enabled
    <3>1. /\ gate' = [gate EXCEPT !.revoked = @ \cup {r.cookie.sid}]
          /\ loggedOut' = loggedOut \cup {r.cookie.sid} /\ minted' = minted
      BY <2>2 DEF LogsOut
    <3>2. /\ IsGate(gate)' /\ gate'.enabled = gate.enabled /\ gate'.secret = gate.secret
          /\ gate'.code = gate.code /\ gate'.revoked = gate.revoked \cup {r.cookie.sid}
      BY <2>1, <3>1 DEF IsGate
    <3> QED
      BY <1>1, <1>2, <2>2, <3>1, <3>2 DEF Moves, GateInv
  <2>3. CASE r.session /\ ~gate.enabled
    BY <1>1, <1>2, <2>3 DEF LogsOut, Moves, GateInv, IsGate
  <2>4. CASE ~r.session
    BY <1>1, <2>4 DEF LogsOut, Moves, GateInv, IsGate
  <2> QED
    BY <2>2, <2>3, <2>4
<1>4. CookieInv(None)'
  BY DEF CookieInv
<1>5. r.route # "pin" /\ Accept(r, None, None)
  BY DEF LogsOut
<1> QED
  BY <1>3, <1>4, <1>5, AnswerKeeps DEF Accept

LEMMA EnablesKeeps ==
    ASSUME SessionInv, UNCHANGED jar, NEW r \in requests, Enables(r)
    PROVE  SessionInv'
<1>1. GateInv
  BY DEF SessionInv
<1>2. CASE gate.enabled
  BY <1>1, <1>2, Unmoved, RefuseKeeps DEF Enables
<1>3. CASE ~gate.enabled
  <2>1. /\ gate' = Enabled(r.body.code, minted + 1, minted + 2)
        /\ minted' = minted + 3 /\ loggedOut' = loggedOut /\ r.route # "pin"
    BY <1>3 DEF Enables
  <2>2. /\ IsGate(gate)' /\ gate'.enabled /\ gate'.secret = minted + 1
        /\ gate'.code = r.body.code
    BY <2>1 DEF Enabled, Off, IsGate
  <2>3. Moves
    BY <1>1, <2>1, <2>2 DEF Moves, GateInv
  <2>4. PICK c : /\ c = Cookie(minted + 3, gate'.secret, r.body.code)
                 /\ Accept(r, minted + 2, c)
    BY <1>3, <2>1 DEF Enables
  <2>5. CookieInv(c)'
    BY <1>1, <2>1, <2>2, <2>4, CookieIsOne DEF CookieInv, InForce, GateInv
  <2> QED
    BY <2>1, <2>3, <2>4, <2>5, AnswerKeeps DEF Accept
<1> QED
  BY <1>2, <1>3

LEMMA ProceedsKeeps ==
    ASSUME SessionInv, UNCHANGED jar, NEW r \in requests, Proceeds(r)
    PROVE  SessionInv'
<1>1. GateInv /\ IsGate(gate) /\ r.route # "pin"
  BY DEF SessionInv, GateInv, Proceeds, Guarded
<1>2. CASE r.body.current # gate.code
  BY <1>1, <1>2, Unmoved, RefuseKeeps DEF Proceeds
<1>3. CASE /\ gate' = Changed(gate, r.body.code, minted + 1)
           /\ minted' = minted + 2 /\ loggedOut' = loggedOut
           /\ Accept(r, None, Cookie(minted + 2, gate'.secret, r.body.code))
  <2>1. /\ IsGate(gate)' /\ gate'.enabled = gate.enabled /\ gate'.secret = minted + 1
        /\ gate'.code = r.body.code
    BY <1>1, <1>3 DEF Changed, IsGate
  <2>2. Moves
    BY <1>1, <1>3, <2>1 DEF Moves, GateInv
  <2>3. PICK c : c = Cookie(minted + 2, gate'.secret, r.body.code) /\ Accept(r, None, c)
    BY <1>3
  <2>4. CookieInv(c)'
    BY <1>1, <1>3, <2>1, <2>3, CookieIsOne DEF CookieInv, InForce, GateInv
  <2> QED
    BY <1>1, <2>2, <2>3, <2>4, AnswerKeeps DEF Accept
<1>4. CASE gate' = Off /\ minted' = minted /\ loggedOut' = loggedOut /\ Accept(r, None, None)
  <2>1. Moves
    BY <1>1, <1>4 DEF Moves, GateInv, Off, IsGate
  <2>2. CookieInv(None)'
    BY DEF CookieInv
  <2> QED
    BY <1>1, <1>4, <2>1, <2>2, AnswerKeeps DEF Accept
<1>5. CASE /\ gate' = [gate EXCEPT !.token = minted + 1]
           /\ minted' = minted + 1 /\ loggedOut' = loggedOut
           /\ Accept(r, minted + 1, Keep)
  <2>1. Moves
    BY <1>1, <1>5 DEF Moves, GateInv, IsGate
  <2> QED
    BY <1>1, <1>5, <2>1, AnswerKeeps DEF Accept
<1> QED
  BY <1>2, <1>3, <1>4, <1>5 DEF Proceeds

(* A lifetime signs again a session of the secret in force.                *)
LEMMA StoresLifetimeKeeps ==
    ASSUME SessionInv, UNCHANGED jar, NEW r \in requests, r.phase = "entered", StoresLifetime(r)
    PROVE  SessionInv'
<1>1. GateInv /\ RequestInv(r) /\ CapturedInv(r) /\ CookieInv(r.cookie)
  BY DEF SessionInv, RequestInv
<1>2. /\ IsGate(gate)' /\ gate'.enabled = gate.enabled /\ gate'.secret = gate.secret
      /\ gate'.code = gate.code /\ gate'.revoked = gate.revoked
      /\ minted' = minted /\ loggedOut' = loggedOut
  BY <1>1 DEF StoresLifetime, GateInv, IsGate
<1>3. Moves
  BY <1>1, <1>2 DEF Moves, GateInv
<1>4. CASE \E status \in {401, 409} : Refuse(r, status)
  BY <1>3, <1>4, RefuseKeeps
<1>5. CASE /\ KeepsSession(r)
           /\ Accept(r, gate'.seconds, Cookie(r.cookie.sid, gate.secret, r.cookie.code))
  <2>1. PICK c : /\ c = Cookie(r.cookie.sid, gate.secret, r.cookie.code)
                 /\ Accept(r, gate'.seconds, c)
    BY <1>5
  <2>2. r.cookie # None /\ r.cookie.secret = gate.secret /\ gate.enabled
    BY <1>1, <1>5 DEF CapturedInv, KeepsSession, StoresLifetime
  <2>3. CookieInv(c)
    BY <1>1, <2>1, <2>2, CookieIsOne DEF CookieInv
  <2>4. CookieInv(c)' /\ r.route # "pin"
    BY <1>1, <1>3, <2>3, MovesKeep DEF StoresLifetime
  <2> QED
    BY <1>3, <2>1, <2>4, AnswerKeeps DEF Accept
<1> QED
  BY <1>4, <1>5 DEF StoresLifetime

LEMMA FinishesKeeps ==
    ASSUME SessionInv, NEW r \in requests, Finishes(r)
    PROVE  SessionInv'
BY SignsKeeps, LogsOutKeeps, EnablesKeeps, ProceedsKeeps, StoresLifetimeKeeps DEF Finishes

-----------------------------------------------------------------------------
(* The page *)

(* The page gives its requests other bodies, and asks again with a cookie   *)
(* that it has or was just given.                                          *)
LEMMA PageKeeps ==
    ASSUME SessionInv, UNCHANGED gateVars,
           NEW given, CookieInv(given), jar' \in {jar, given},
           \A q \in requests' :
               \/ \E r \in requests : q = [r EXCEPT !.body = q.body]
               \/ /\ IsRequest(q) /\ q.phase = "sent" /\ q.sets = Keep
                  /\ q.cookie \in {jar, given}
    PROVE  SessionInv'
<1>1. GateInv /\ Moves /\ CookieInv(jar)
  BY Unmoved DEF SessionInv
<1>2. \A c \in {jar, given} : CookieInv(c) /\ CookieInv(c)'
  BY <1>1, MovesKeep
<1>3. CookieInv(jar)'
  BY <1>2
<1>4. ASSUME NEW q \in requests' PROVE RequestInv(q)
  <2>1. ASSUME NEW r \in requests, q = [r EXCEPT !.body = q.body] PROVE RequestInv(q)
    <3>1. RequestInv(r) /\ IsRequest(r)
      BY DEF SessionInv, RequestInv
    <3>2. /\ IsRequest(q) /\ q.cookie = r.cookie /\ q.phase = r.phase /\ q.sets = r.sets
          /\ q.route = r.route /\ q.state = r.state /\ q.session = r.session
          /\ q.answer = r.answer
      BY <2>1, <3>1 DEF IsRequest
    <3> QED
      BY <3>1, <3>2 DEF RequestInv, CapturedInv, OpensInv
  <2> QED
    BY <1>1, <1>2, <2>1, Asked
<1>5. ASSUME NEW q \in requests' PROVE RequestInv(q)'
  BY <1>1, <1>4, MovesKeep
<1> QED
  BY <1>1, <1>3, <1>5, Kept

LEMMA LandsKeeps ==
    ASSUME SessionInv, NEW r \in requests, Lands(r)
    PROVE  SessionInv'
<1>1. GateInv /\ RequestInv(r) /\ UNCHANGED gateVars
  BY DEF SessionInv, Lands
<1>2. PICK given : /\ given = IF r.sets = Keep THEN jar ELSE r.sets
                   /\ CookieInv(given) /\ jar' = given
  BY DEF SessionInv, RequestInv, Lands
<1>3. \A q \in requests : q = [q EXCEPT !.body = q.body]
  BY DEF SessionInv, RequestInv, IsRequest
<1>4. ASSUME requests' \subseteq requests PROVE SessionInv'
  BY <1>1, <1>2, <1>3, <1>4, PageKeeps
<1>5. CASE SignInLands(r) /\ ~Fails(r)
  <2>1. r.sets # Keep
    BY <1>1, <1>5 DEF SignInLands, Fails, Lands, RequestInv, OpensInv
  <2>2. CASE r.body.on = "screen"
    BY <1>4, <1>5, <2>2 DEF SignInLands, Leaves
  <2>3. CASE r.body.on # "screen"
    <3>1. PICK again :
             /\ again = [Request("status", [dropped |-> FALSE]) EXCEPT !.cookie = r.sets]
             /\ requests' = {[q EXCEPT !.body = [dropped |-> TRUE]] : q \in Reading}
                               \cup (requests \ (Reading \cup {r})) \cup {again}
      BY <1>5, <2>3 DEF SignInLands
    <3>2. IsRequest(again) /\ again.phase = "sent" /\ again.sets = Keep /\ again.cookie = given
      BY <1>2, <2>1, <3>1 DEF IsRequest, Request
    <3>3. ASSUME NEW p \in Reading, NEW q, q = [p EXCEPT !.body = [dropped |-> TRUE]]
          PROVE  p \in requests /\ q = [p EXCEPT !.body = q.body]
      <4>1. p \in requests /\ IsRequest(p)
        BY DEF Reading, SessionInv, RequestInv
      <4>2. q.body = [dropped |-> TRUE]
        BY <3>3, <4>1 DEF IsRequest
      <4> QED
        BY <3>3, <4>1, <4>2
    <3>4. ASSUME NEW q \in requests', q # again
          PROVE  \E p \in requests : q = [p EXCEPT !.body = q.body]
      <4>1. CASE q \in requests
        BY <1>3, <4>1
      <4>2. CASE \E p \in Reading : q = [p EXCEPT !.body = [dropped |-> TRUE]]
        BY <3>3, <4>2
      <4> QED
        BY <3>1, <3>4, <4>1, <4>2
    <3> QED
      BY <1>1, <1>2, <3>2, <3>4, PageKeeps
  <2> QED
    BY <2>2, <2>3
<1>6. CASE LifetimeLands(r) /\ r.body.queued # None
  <2>1. PICK body, q : /\ q = [Request("lifetime", body)
                                  EXCEPT !.cookie = IF r.sets = Keep THEN jar ELSE r.sets]
                       /\ requests' = (requests \ {r}) \cup {q}
    BY <1>6 DEF LifetimeLands
  <2>2. IsRequest(q) /\ q.phase = "sent" /\ q.sets = Keep /\ q.cookie = given
    BY <1>2, <2>1 DEF IsRequest, Request
  <2> QED
    BY <1>1, <1>2, <1>3, <2>1, <2>2, PageKeeps
<1> QED
  BY <1>4, <1>5, <1>6 DEF Lands, Leaves, ReadLands, StatusLands, SignInLands, LogoutLands,
     ProcedureLands, LifetimeLands

LEMMA UnlocksKeeps ==
    ASSUME SessionInv, Unlocks
    PROVE  SessionInv'
<1>1. PICK body : Send("pin", body)
  BY DEF Unlocks
<1> QED
  BY <1>1, SendKeeps DEF Unlocks, gateVars

LEMMA SubmitsKeeps ==
    ASSUME SessionInv, Submits
    PROVE  SessionInv'
<1>1. PICK route, body : Send(route, body)
  BY DEF Submits
<1> QED
  BY <1>1, SendKeeps DEF Submits, gateVars

LEMMA ReadsPageKeeps ==
    ASSUME SessionInv, ReadsPage
    PROVE  SessionInv'
<1>1. PICK body : Send("read", body)
  BY DEF ReadsPage
<1> QED
  BY <1>1, SendKeeps DEF ReadsPage, gateVars

LEMMA ChoosesKeeps ==
    ASSUME SessionInv, NEW seconds, Chooses(seconds)
    PROVE  SessionInv'
<1>1. UNCHANGED <<gateVars, jar>>
  BY DEF Chooses
<1>2. ASSUME NEW body, Send("lifetime", body) PROVE SessionInv'
  BY <1>1, <1>2, SendKeeps
<1>3. ASSUME NEW r \in requests,
             requests' = (requests \ {r}) \cup {[r EXCEPT !.body.queued = seconds]}
      PROVE  SessionInv'
  <2>1. \A q \in requests : q = [q EXCEPT !.body = q.body]
    BY DEF SessionInv, RequestInv, IsRequest
  <2>2. PICK q : q = [r EXCEPT !.body.queued = seconds] /\ requests' = (requests \ {r}) \cup {q}
    BY <1>3
  <2>3. q = [r EXCEPT !.body = q.body]
    BY <2>2 DEF SessionInv, RequestInv, IsRequest
  <2>4. PICK given : given = jar /\ CookieInv(given)
    BY DEF SessionInv
  <2> QED
    BY <1>1, <2>1, <2>2, <2>3, <2>4, PageKeeps
<1> QED
  BY <1>2, <1>3 DEF Chooses

LEMMA BootsKeeps ==
    ASSUME SessionInv, Boots
    PROVE  SessionInv'
<1>1. PICK q : q = Request("status", [dropped |-> FALSE]) /\ requests' = requests \cup {q}
  BY DEF Boots
<1>2. PICK given : given = jar /\ CookieInv(given)
  BY DEF SessionInv
<1>3. IsRequest(q) /\ q.phase = "sent" /\ q.sets = Keep /\ q.cookie = given
  BY <1>1, <1>2 DEF Request, IsRequest
<1>4. \A r \in requests : r = [r EXCEPT !.body = r.body]
  BY DEF SessionInv, RequestInv, IsRequest
<1> QED
  BY <1>1, <1>2, <1>3, <1>4, PageKeeps DEF Boots

LEMMA StillKeeps ==
    ASSUME SessionInv, UNCHANGED <<gateVars, requests, jar>>
    PROVE  SessionInv'
BY Unmoved, SameJar, Kept DEF SessionInv

-----------------------------------------------------------------------------
(* Around the page *)

LEMMA ElsewhereKeeps ==
    ASSUME SessionInv, Elsewhere
    PROVE  SessionInv'
<1>1. GateInv /\ IsGate(gate) /\ CookieInv(jar)
  BY DEF SessionInv, GateInv
<1>2. minted' = minted + 2 /\ requests' = requests
  BY DEF Elsewhere
<1>3. ASSUME Moves, CookieInv(jar)' PROVE SessionInv'
  BY <1>2, <1>3, Kept
<1>4. ASSUME NEW code, gate' = Enabled(code, minted + 1, minted + 2), UNCHANGED <<jar, loggedOut>>
      PROVE  SessionInv'
  <2>1. IsGate(gate)' /\ gate'.enabled /\ gate'.secret = minted + 1
    BY <1>4 DEF Enabled, Off, IsGate
  <2> QED
    BY <1>1, <1>2, <1>3, <1>4, <2>1, SameJar DEF Moves, GateInv
<1>5. ASSUME NEW code, gate' = Changed(gate, code, minted + 1), UNCHANGED <<jar, loggedOut>>
      PROVE  SessionInv'
  <2>1. IsGate(gate)' /\ gate'.enabled = gate.enabled /\ gate'.secret = minted + 1
    BY <1>1, <1>5 DEF Changed, IsGate
  <2> QED
    BY <1>1, <1>2, <1>3, <1>5, <2>1, SameJar DEF Moves, GateInv
<1>6. CASE gate' = Off /\ UNCHANGED <<jar, loggedOut>>
  <2>1. IsGate(gate)' /\ ~gate'.enabled
    BY <1>6 DEF Off, IsGate
  <2> QED
    BY <1>1, <1>2, <1>3, <1>6, <2>1, SameJar DEF Moves, GateInv
<1>7. CASE /\ Valid(jar, gate)
           /\ gate' = [gate EXCEPT !.revoked = @ \cup {jar.sid}]
           /\ loggedOut' = loggedOut \cup {jar.sid}
           /\ jar' = None
  <2>1. /\ IsGate(gate)' /\ gate'.enabled /\ gate.enabled /\ gate'.secret = gate.secret
        /\ gate'.code = gate.code /\ gate'.revoked = gate.revoked \cup {jar.sid}
    BY <1>1, <1>7 DEF Valid, IsGate
  <2>2. jar.sid \in 1 .. minted
    BY <1>1, <1>7 DEF Valid, CookieInv
  <2>3. Moves
    BY <1>1, <1>2, <1>7, <2>1, <2>2 DEF Moves, GateInv
  <2>4. CookieInv(jar)'
    BY <1>7 DEF CookieInv
  <2> QED
    BY <1>3, <2>3, <2>4
<1>8. CASE /\ gate.enabled
           /\ jar' = Cookie(minted + 1, gate.secret, gate.code)
           /\ UNCHANGED <<gate, loggedOut>>
  <2>1. Moves
    BY <1>1, <1>2, <1>8 DEF Moves, GateInv, IsGate
  <2>2. PICK c : c = Cookie(minted + 1, gate.secret, gate.code) /\ c = jar'
    BY <1>8
  <2>3. CookieInv(jar)'
    BY <1>1, <1>2, <1>8, <2>2, CookieIsOne DEF CookieInv, IsCookie, InForce, GateInv
  <2> QED
    BY <1>3, <2>1, <2>3
<1> QED
  BY <1>4, <1>5, <1>6, <1>7, <1>8 DEF Elsewhere

LEMMA LapsesKeeps ==
    ASSUME SessionInv, Lapses
    PROVE  SessionInv'
<1>1. PICK given : given = [jar EXCEPT !.lapsed = TRUE] /\ given = jar'
  BY DEF Lapses
<1>2. CookieInv(given)
  BY <1>1 DEF SessionInv, CookieInv, IsCookie, Lapses
<1>3. requests' = requests /\ \A r \in requests : r = [r EXCEPT !.body = r.body]
  BY DEF SessionInv, RequestInv, IsRequest, Lapses
<1> QED
  BY <1>1, <1>2, <1>3, PageKeeps DEF Lapses

-----------------------------------------------------------------------------
LEMMA SessionStarts == ASSUME Init PROVE SessionInv
<1>1. requests = {} /\ minted = 3 /\ loggedOut = {}
  BY DEF Init
<1>2. ASSUME NEW code, gate = Enabled(code, 1, 2), jar \in {None, Cookie(3, 1, code)}
      PROVE  SessionInv
  <2>1. IsGate(gate) /\ gate.secret = 1 /\ gate.code = code
    BY <1>2 DEF Enabled, Off, IsGate
  <2>2. CookieInv(jar)
    BY <1>1, <1>2, <2>1, CookieIsOne DEF CookieInv
  <2> QED
    BY <1>1, <2>1, <2>2 DEF SessionInv, GateInv
<1>3. CASE gate = Off /\ jar = None
  BY <1>1, <1>3 DEF SessionInv, GateInv, CookieInv, Off, IsGate
<1> QED
  BY <1>2, <1>3 DEF Init

LEMMA SessionSteps == ASSUME SessionInv, [Next]_sessionVars PROVE SessionInv'
<1>1. CASE Boots \/ ReadsPage \/ Unlocks \/ Submits
  BY <1>1, BootsKeeps, ReadsPageKeeps, UnlocksKeeps, SubmitsKeeps
<1>2. CASE LogsOutHere
  BY <1>2, SendKeeps DEF LogsOutHere, gateVars
<1>3. CASE \/ \E name \in Guarded \cup {"enable"} : Opens(name)
           \/ GivesUp \/ CopiesToken \/ UNCHANGED sessionVars
  BY <1>3, StillKeeps DEF Opens, GivesUp, CopiesToken, sessionVars, gateVars
<1>4. CASE \E seconds \in Lifetimes : Chooses(seconds)
  BY <1>4, ChoosesKeeps
<1>5. CASE \E r \in requests : Enters(r) \/ Faults(r) \/ Finishes(r) \/ Lands(r)
  BY <1>5, EntersKeeps, FaultsKeeps, FinishesKeeps, LandsKeeps
<1>6. CASE Elsewhere \/ Lapses
  BY <1>6, ElsewhereKeeps, LapsesKeeps
<1> QED
  BY <1>1, <1>2, <1>3, <1>4, <1>5, <1>6 DEF Next

LEMMA SessionsHold ==
    ASSUME SessionInv
    PROVE  SessionIsOfTheCode /\ SignedOutStaysOut
<1>1. \A c \in Cookies : CookieInv(c)
  BY DEF SessionInv, RequestInv, Cookies
<1> QED
  BY <1>1 DEF SessionIsOfTheCode, SignedOutStaysOut, CookieInv, InForce, Valid

(* Whatever the gate accepts was opened with the code in force, and by     *)
(* nobody who signed out: of the cookies held and of those on their way,   *)
(* for any codes and any number of requests, changes of code and browsers  *)
(* (auth_gate.py, _sign_in, _change, _lifetime, _logout).                  *)
THEOREM SessionsAreOfTheCode == Spec => [](SessionIsOfTheCode /\ SignedOutStaysOut)
<1>1. SessionInv /\ [Next]_sessionVars => SessionInv'
  BY SessionSteps
<1> QED
  BY <1>1, SessionStarts, SessionsHold, PTL DEF Spec
=============================================================================

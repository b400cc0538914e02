------------------------- MODULE AgentThreadsProofs -------------------------
(***************************************************************************)
(* What the conversations keep, for every set of threads and any number of *)
(* questions, of reads and of failures; then what their cards keep, for    *)
(* any number of proposals, of turns and of saves of a fact.               *)
(***************************************************************************)
EXTENDS AgentThreads, FiniteSetTheorems, TLAPS

-----------------------------------------------------------------------------
(* Sequences of turns *)

IsSequence(s) == \E S : s \in Seq(S)

LEMMA Longer ==
    ASSUME NEW s, IsSequence(s), NEW e
    PROVE  /\ IsSequence(Append(s, e))
           /\ Len(s) \in Nat /\ DOMAIN s = 1 .. Len(s)
           /\ Len(Append(s, e)) = Len(s) + 1 /\ DOMAIN Append(s, e) = 1 .. (Len(s) + 1)
           /\ \A i \in 1 .. Len(s) : Append(s, e)[i] = s[i]
           /\ Append(s, e)[Len(s) + 1] = e
<1>1. PICK S : s \in Seq(S)
  BY DEF IsSequence
<1>2. s \in Seq(S \cup {e}) /\ e \in S \cup {e}
  BY <1>1
<1>3. Append(s, e) \in Seq(S \cup {e})
  BY <1>2
<1> QED
  BY <1>2, <1>3 DEF IsSequence

LEMMA Shorter ==
    ASSUME NEW s, IsSequence(s), s # <<>>
    PROVE  /\ IsSequence(ButLast(s))
           /\ Len(s) \in Nat \ {0} /\ DOMAIN s = 1 .. Len(s) /\ DOMAIN ButLast(s) = 1 .. (Len(s) - 1)
           /\ \A i \in 1 .. (Len(s) - 1) : ButLast(s)[i] = s[i]
<1>1. PICK S : s \in Seq(S)
  BY DEF IsSequence
<1>2. Len(s) \in Nat \ {0} /\ DOMAIN s = 1 .. Len(s)
  BY <1>1
<1>3. ButLast(s) = SubSeq(s, 1, Len(s) - 1)
  BY DEF ButLast, Front
<1>4. SubSeq(s, 1, Len(s) - 1) \in Seq(S)
  BY <1>1, <1>2
<1> QED
  BY <1>1, <1>2, <1>3, <1>4 DEF IsSequence

(* A file, and a turn of it that was written whole.                        *)
IsFile(f) == f = Kept(f.turns, f.failed) /\ IsSequence(f.turns)
Whole(f, i) == f.turns[i].answer = "whole" /\ ~(f.failed /\ i = Len(f.turns))

(* The history a model is given leaves no whole turn out.                  *)
LEMMA AnsweredIsWhole ==
    ASSUME NEW f, IsFile(f)
    PROVE  /\ IsSequence(Answered(f))
           /\ \A i \in DOMAIN f.turns : Whole(f, i) =>
                  i \in DOMAIN Answered(f) /\ Answered(f)[i] = f.turns[i]
<1>1. CASE f.turns # <<>> /\ (f.failed \/ Last(f.turns).answer = "none")
  BY <1>1, Shorter DEF Answered, IsFile, Whole, Last
<1>2. CASE ~(f.turns # <<>> /\ (f.failed \/ Last(f.turns).answer = "none"))
  BY <1>2 DEF Answered, IsFile
<1> QED
  BY <1>1, <1>2

-----------------------------------------------------------------------------
(* The files.  While a turn is in flight the file is what the model was    *)
(* given and the question, for nothing else writes it: what the end of the *)
(* turn writes over it is no older.                                        *)

IsRun(run) ==
    run = [n |-> run.n, history |-> run.history, answer |-> run.answer, left |-> run.left]
Asked(run) == Kept(Append(run.history, Turn(run.n, "none")), FALSE)
ThreadInv(id) ==
    /\ threads[id] # None => IsFile(threads[id])
    /\ runs[id] # None =>
          IsRun(runs[id]) /\ IsSequence(runs[id].history) /\ threads[id] = Asked(runs[id])
FilesInv ==
    /\ threads = [id \in Ids |-> threads[id]] /\ runs = [id \in Ids |-> runs[id]]
    /\ \A id \in Ids : ThreadInv(id)

(* What a step does to a thread: nothing that a property reads, a write    *)
(* over what the file held, or the end of the file.                        *)
Keeps(f, g) == \A i \in DOMAIN f.turns : Whole(f, i) =>
    \E j \in DOMAIN g.turns : g.turns[j] = f.turns[i]
Writes(id) ==
    /\ IsFile(threads'[id])
    /\ threads[id] # None => Keeps(threads[id], threads'[id])
    /\ threads[id] = None /\ runs[id] = None => Len(threads'[id].turns) = 1
Moves(id) == threads'[id] \in {threads[id], None} \/ Writes(id)

LEMMA HistoryIsSequence ==
    ASSUME FilesInv, NEW id \in Ids
    PROVE  IsSequence(Answered(File(id)))
<1>1. CASE threads[id] # None
  BY <1>1, AnsweredIsWhole DEF FilesInv, ThreadInv, File
<1>2. CASE threads[id] = None
  <2>1. Answered(File(id)) = <<>>
    BY <1>2 DEF Answered, File, NoFile, Kept
  <2>2. <<>> \in Seq({})
    OBVIOUS
  <2> QED
    BY <2>1, <2>2 DEF IsSequence
<1> QED
  BY <1>1, <1>2

(* A write over the history the file gives, and one over the history the   *)
(* turn in flight was given.                                               *)
LEMMA WrittenOver ==
    ASSUME FilesInv, NEW id \in Ids, NEW h, NEW turn, NEW mark,
           threads'[id] = Kept(Append(h, turn), mark),
           \/ h = Answered(File(id))
           \/ runs[id] # None /\ h = runs[id].history
    PROVE  Writes(id)
<1>1. ThreadInv(id)
  BY DEF FilesInv
<1>2. /\ IsSequence(h)
      /\ threads[id] # None => \A i \in DOMAIN threads[id].turns : Whole(threads[id], i) =>
             i \in DOMAIN h /\ h[i] = threads[id].turns[i]
      /\ threads[id] = None /\ runs[id] = None => h = <<>>
  <2>1. CASE h = Answered(File(id)) /\ threads[id] # None
    BY <1>1, <2>1, AnsweredIsWhole DEF ThreadInv, File
  <2>2. CASE h = Answered(File(id)) /\ threads[id] = None
    <3>1. h = <<>>
      BY <2>2 DEF Answered, File, NoFile, Kept
    <3> QED
      BY <2>2, <3>1, HistoryIsSequence
  <2>3. CASE runs[id] # None /\ h = runs[id].history
    <3> DEFINE question == Turn(runs[id].n, "none")
    <3>1. IsSequence(h) /\ threads[id].turns = Append(h, question) /\ question.answer = "none"
      BY <1>1, <2>3 DEF ThreadInv, Asked, Turn, Kept
    <3> HIDE DEF question
    <3>2. \A i \in DOMAIN threads[id].turns : Whole(threads[id], i) =>
             i \in DOMAIN h /\ h[i] = threads[id].turns[i]
      BY <3>1, Longer DEF Whole
    <3> QED
      BY <2>3, <3>1, <3>2
  <2> QED
    BY <2>1, <2>2, <2>3
<1>3. /\ IsSequence(Append(h, turn)) /\ \A i \in DOMAIN h : i \in DOMAIN Append(h, turn)
      /\ \A i \in DOMAIN h : Append(h, turn)[i] = h[i]
      /\ Len(Append(h, turn)) = Len(h) + 1
  BY <1>2, Longer
<1>4. threads'[id].turns = Append(h, turn) /\ IsFile(threads'[id])
  BY <1>3 DEF IsFile, Kept
<1>5. threads[id] # None => Keeps(threads[id], threads'[id])
  BY <1>2, <1>3, <1>4 DEF Keeps
<1> QED
  BY <1>2, <1>3, <1>4, <1>5 DEF Writes

Steps == FilesInv' /\ \A id \in Ids : Moves(id)

(* A step that is about one thread, and one that is about the turns only.  *)
LEMMA StepOfOne ==
    ASSUME FilesInv, NEW x, x \in Ids => ThreadInv(x)' /\ Moves(x),
           threads' = [threads EXCEPT ![x] = threads'[x]] \/ threads' = threads,
           runs' = [runs EXCEPT ![x] = runs'[x]] \/ runs' = runs
    PROVE  Steps
<1>1. /\ threads' = [id \in Ids |-> threads'[id]] /\ runs' = [id \in Ids |-> runs'[id]]
      /\ \A id \in Ids : id # x => threads'[id] = threads[id] /\ runs'[id] = runs[id]
  BY DEF FilesInv
<1>2. \A id \in Ids : ThreadInv(id)' /\ Moves(id)
  BY <1>1 DEF FilesInv, ThreadInv, Moves
<1> QED
  BY <1>1, <1>2 DEF FilesInv, Steps

LEMMA StepOfTurns ==
    ASSUME FilesInv, threads' = threads,
           runs' = [id \in Ids |-> runs'[id]],
           \A id \in Ids : runs'[id] # None =>
               /\ runs[id] # None /\ IsRun(runs'[id])
               /\ runs'[id].n = runs[id].n /\ runs'[id].history = runs[id].history
    PROVE  Steps
<1>1. \A id \in Ids : ThreadInv(id)'
  BY DEF FilesInv, ThreadInv, Asked
<1> QED
  BY <1>1 DEF FilesInv, Steps, Moves

LEMMA StandsStill ==
    ASSUME FilesInv, UNCHANGED <<threads, runs>>
    PROVE  Steps
BY StepOfTurns DEF FilesInv, ThreadInv

LEMMA StopsStream ==
    ASSUME FilesInv, StopStream
    PROVE  Steps
<1>1. runs' = [id \in Ids |-> IF runs[id] # None /\ Attached(runs[id].n)
                              THEN [runs[id] EXCEPT !.left = TRUE] ELSE runs[id]]
  BY DEF StopStream
<1>2. ASSUME NEW id \in Ids, runs'[id] # None
      PROVE  /\ runs[id] # None /\ IsRun(runs'[id])
             /\ runs'[id].n = runs[id].n /\ runs'[id].history = runs[id].history
  <2>1. runs[id] # None /\ IsRun(runs[id])
    BY <1>1, <1>2 DEF FilesInv, ThreadInv
  <2>2. runs'[id] \in {runs[id], [runs[id] EXCEPT !.left = TRUE]}
    BY <1>1
  <2> QED
    BY <2>1, <2>2 DEF IsRun
<1>3. runs' = [id \in Ids |-> runs'[id]] /\ threads' = threads
  BY <1>1 DEF StopStream
<1> QED
  BY <1>2, <1>3, StepOfTurns

-----------------------------------------------------------------------------
(* The steps *)

LEMMA TurnTakenSteps == ASSUME FilesInv, TurnTaken PROVE Steps
<1>1. PICK p \in posts :
        /\ runs[p.id] = None
        /\ threads' = [threads EXCEPT
               ![p.id] = Kept(Append(Answered(File(p.id)), Turn(p.n, "none")), FALSE)]
        /\ runs' = [runs EXCEPT ![p.id] =
               [n |-> p.n, history |-> Answered(File(p.id)), answer |-> "none", left |-> p.left]]
  BY DEF TurnTaken
<1>2. ASSUME p.id \in Ids PROVE ThreadInv(p.id)' /\ Moves(p.id)
  <2> DEFINE h == Answered(File(p.id))
  <2>1. /\ threads'[p.id] = Kept(Append(h, Turn(p.n, "none")), FALSE)
        /\ runs'[p.id] = [n |-> p.n, history |-> h, answer |-> "none", left |-> p.left]
    BY <1>1, <1>2 DEF FilesInv
  <2> HIDE DEF h
  <2>2. Writes(p.id)
    BY <1>2, <2>1, WrittenOver DEF h
  <2>3. IsSequence(h)
    BY <1>2, <2>1, HistoryIsSequence DEF h
  <2>4. /\ IsRun(runs'[p.id]) /\ runs'[p.id].history = h
        /\ threads'[p.id] = Asked(runs'[p.id])
    BY <2>1 DEF IsRun, Asked
  <2> QED
    BY <2>2, <2>3, <2>4 DEF ThreadInv, Moves, Writes
<1>3. threads' = [threads EXCEPT ![p.id] = threads'[p.id]] /\ runs' = [runs EXCEPT ![p.id] = runs'[p.id]]
  BY <1>1 DEF FilesInv
<1> QED
  BY <1>2, <1>3, StepOfOne

(* The end of a turn writes it over the history it was given.              *)
LEMMA RunEndsSteps ==
    ASSUME FilesInv, NEW id \in Ids, NEW answer, NEW mark, runs[id] # None,
           threads' = [threads EXCEPT
               ![id] = Kept(Append(runs[id].history, Turn(runs[id].n, answer)), mark)],
           runs' = [runs EXCEPT ![id] = None]
    PROVE  Steps
<1>1. threads'[id] = Kept(Append(runs[id].history, Turn(runs[id].n, answer)), mark) /\ runs'[id] = None
  BY DEF FilesInv
<1>2. Writes(id)
  BY <1>1, WrittenOver
<1>3. ThreadInv(id)' /\ Moves(id)
  BY <1>1, <1>2 DEF ThreadInv, Moves, Writes
<1>4. threads' = [threads EXCEPT ![id] = threads'[id]] /\ runs' = [runs EXCEPT ![id] = runs'[id]]
  BY <1>1
<1> QED
  BY <1>3, <1>4, StepOfOne

LEMMA CompleteSteps == ASSUME FilesInv, NEW id \in Ids, Complete(id) PROVE Steps
<1>1. runs[id] # None /\ runs' = [runs EXCEPT ![id] = None]
  BY DEF Complete
<1>2. CASE threads' = [threads EXCEPT
                 ![id] = Kept(Append(runs[id].history, Turn(runs[id].n, "whole")), FALSE)]
  BY <1>1, <1>2, RunEndsSteps
<1>3. CASE threads' = threads
  <2>1. \A i \in Ids : runs'[i] # None => runs'[i] = runs[i]
    BY <1>1 DEF FilesInv
  <2>2. runs' = [i \in Ids |-> runs'[i]]
    BY <1>1 DEF FilesInv
  <2> QED
    BY <1>3, <2>1, <2>2, StepOfTurns DEF FilesInv, ThreadInv
<1> QED
  BY <1>2, <1>3 DEF Complete

LEMMA RunMovesSteps ==
    ASSUME FilesInv, NEW id \in Ids, Word(id) \/ ConnectionLost(id)
    PROVE  Steps
<1>1. /\ runs[id] # None /\ threads' = threads
      /\ \/ runs' = [runs EXCEPT ![id].answer = "part"]
         \/ runs' = [runs EXCEPT ![id].left = TRUE]
  BY DEF Word, ConnectionLost
<1>2. ASSUME NEW i \in Ids, runs'[i] # None
      PROVE  /\ runs[i] # None /\ IsRun(runs'[i])
             /\ runs'[i].n = runs[i].n /\ runs'[i].history = runs[i].history
  <2>1. CASE i # id
    BY <1>1, <1>2, <2>1 DEF FilesInv, ThreadInv
  <2>2. CASE i = id
    <3>1. IsRun(runs[id])
      BY <1>1 DEF FilesInv, ThreadInv
    <3>2. runs'[id] \in {[runs[id] EXCEPT !.answer = "part"], [runs[id] EXCEPT !.left = TRUE]}
      BY <1>1 DEF FilesInv
    <3> QED
      BY <1>1, <2>2, <3>1, <3>2 DEF IsRun
  <2> QED
    BY <2>1, <2>2
<1>3. runs' = [i \in Ids |-> runs'[i]]
  BY <1>1 DEF FilesInv
<1> QED
  BY <1>1, <1>2, <1>3, StepOfTurns

LEMMA StatementKeptSteps == ASSUME FilesInv, StatementKept PROVE Steps
<1>1. PICK x, turn : /\ runs[x] = None /\ runs' = runs
                     /\ threads' = [threads EXCEPT ![x] = Kept(Append(Answered(File(x)), turn), FALSE)]
  BY DEF StatementKept
<1>2. ASSUME x \in Ids PROVE ThreadInv(x)' /\ Moves(x)
  <2>1. threads'[x] = Kept(Append(Answered(File(x)), turn), FALSE)
    BY <1>1, <1>2 DEF FilesInv
  <2>2. Writes(x)
    BY <1>2, <2>1, WrittenOver
  <2> QED
    BY <1>1, <2>2 DEF ThreadInv, Moves, Writes
<1>3. threads' = [threads EXCEPT ![x] = threads'[x]]
  BY <1>1 DEF FilesInv
<1> QED
  BY <1>1, <1>2, <1>3, StepOfOne

LEMMA ForgottenSteps == ASSUME FilesInv, Forgotten PROVE Steps
<1>1. PICK x : /\ runs' = runs
               /\ \/ threads' = threads
                  \/ runs[x] = None /\ threads' = [threads EXCEPT ![x] = None]
  BY DEF Forgotten
<1>2. CASE threads' = threads
  BY <1>1, <1>2, StandsStill
<1>3. CASE runs[x] = None /\ threads' = [threads EXCEPT ![x] = None]
  <2>1. x \in Ids => threads'[x] = None
    BY <1>3 DEF FilesInv
  <2>2. threads' = [threads EXCEPT ![x] = threads'[x]]
    BY <1>3, <2>1 DEF FilesInv
  <2> QED
    BY <1>1, <1>3, <2>1, <2>2, StepOfOne DEF ThreadInv, Moves
<1> QED
  BY <1>1, <1>2, <1>3

LEMMA FilesStart == ASSUME Init PROVE FilesInv
<1>1. <<Turn(0, "whole")>> \in Seq({Turn(0, "whole")})
  OBVIOUS
<1>2. IsFile(Kept(<<Turn(0, "whole")>>, FALSE))
  BY <1>1 DEF IsFile, IsSequence, Kept
<1> QED
  BY <1>2 DEF Init, FilesInv, ThreadInv

LEMMA FilesStep == ASSUME FilesInv, [Next]_vars PROVE Steps
<1>1. CASE TurnTaken
  BY <1>1, TurnTakenSteps
<1>2. CASE TurnRefused \/ PostLost \/ ThreadRead \/ ReadRefused
  BY <1>2, StandsStill DEF TurnRefused, PostLost, ThreadRead, ReadRefused, serverVars
<1>3. CASE NewThread \/ ThreadLink \/ pageLink \/ Leave \/ UNCHANGED vars
  BY <1>3, StandsStill DEF NewThread, ThreadLink, pageLink, Leave, Goes, vars, serverVars
<1>4. CASE Type \/ submit \/ retry \/ SessionReturns
  <2>1. CASE submit \/ retry
    BY <2>1, StandsStill DEF submit, retry, ask
  <2>2. CASE Type \/ SessionReturns
    BY <2>2, StandsStill DEF Type, SessionReturns, serverVars
  <2> QED
    BY <1>4, <2>1, <2>2
<1>5. CASE SendStatement \/ StatementRefused \/ Forget
  BY <1>5, StandsStill DEF SendStatement, StatementRefused, Forget, serverVars
<1>6. CASE RetryRead
  BY <1>6, StandsStill DEF RetryRead, openThread, serverVars
<1>7. CASE \E id \in Ids : Complete(id)
  BY <1>7, CompleteSteps
<1>8. ASSUME NEW id \in Ids, ProviderFails(id) \/ LeftEnds(id) PROVE Steps
  <2>1. PICK answer, mark :
          /\ runs[id] # None /\ runs' = [runs EXCEPT ![id] = None]
          /\ threads' = [threads EXCEPT
                 ![id] = Kept(Append(runs[id].history, Turn(runs[id].n, answer)), mark)]
    BY <1>8 DEF ProviderFails, LeftEnds
  <2> QED
    BY <2>1, RunEndsSteps
<1>9. CASE \E id \in Ids : Word(id) \/ ConnectionLost(id)
  BY <1>9, RunMovesSteps
<1>10. CASE PageEffect
  <2>1. startThread => StopStream
    BY DEF startThread, replace
  <2>2. \A id : openThread(id) => UNCHANGED <<threads, runs>>
    BY DEF openThread, serverVars
  <2> QED
    BY <1>10, <2>1, <2>2, StopsStream, StandsStill DEF PageEffect
<1>11. CASE ThreadLands
  BY <1>11, StopsStream, StandsStill DEF ThreadLands, Shows, replace, serverVars
<1>12. CASE Stop
  BY <1>12, StopsStream DEF Stop
<1>13. CASE StatementKept \/ Forgotten
  BY <1>13, StatementKeptSteps, ForgottenSteps
<1> QED
  BY <1>1, <1>2, <1>3, <1>4, <1>5, <1>6, <1>7, <1>8, <1>9, <1>10, <1>11, <1>12, <1>13 DEF Next

LEMMA FilesHold == Spec => []FilesInv
<1>1. FilesInv /\ [Next]_vars => FilesInv'
  BY FilesStep DEF Steps
<1> QED
  BY <1>1, FilesStart, PTL DEF Spec

(* A turn written whole stays in its file until the file is deleted,       *)
(* whichever of a turn that ends, a statement and the next question writes *)
(* it, and whatever failed meanwhile (agent_threads.py, saved;             *)
(* agent_routes.py, keep_partial).                                         *)
THEOREM WholeTurnsStay == Spec => WholeTurnIsKept
<1> DEFINE Step ==
      \A id \in Ids : threads[id] # None /\ threads'[id] # None =>
          \A i \in DOMAIN threads[id].turns :
              threads[id].turns[i].answer = "whole" /\ ~(threads[id].failed /\ i = Len(threads[id].turns))
                  => \E j \in DOMAIN threads'[id].turns : threads'[id].turns[j] = threads[id].turns[i]
<1>1. FilesInv /\ [Next]_vars => [Step]_vars
  BY FilesStep DEF Steps, Moves, Writes, Keeps, Whole
<1> QED
  BY <1>1, FilesHold, PTL DEF Spec, WholeTurnIsKept

(* A deleted thread does not come back with what it held, where no thread  *)
(* is a file and none at once: a turn in flight keeps its file, and what   *)
(* asks anew starts from nothing (agent_routes.py, forget).                *)
THEOREM ForgottenIsGone ==
    ASSUME \A turns, mark : None # Kept(turns, mark)
    PROVE  Spec => ForgottenStaysGone
<1> DEFINE Step ==
      \A id \in Ids : threads[id] = None /\ threads'[id] # None => Len(threads'[id].turns) = 1
<1>1. FilesInv => \A id \in Ids : threads[id] = None => runs[id] = None
  BY DEF FilesInv, ThreadInv, Asked
<1>2. FilesInv /\ [Next]_vars => [Step]_vars
  BY <1>1, FilesStep DEF Steps, Moves, Writes
<1> QED
  BY <1>2, FilesHold, PTL DEF Spec, ForgottenStaysGone

-----------------------------------------------------------------------------
(* The page.  The one read that is awaited is of the thread being opened,  *)
(* which is on screen only once its stream is over.                        *)

(* None is no value of another kind.                                       *)
NoneIsApart ==
    /\ None \notin Ids /\ None # "session"
    /\ \A turns, mark : None # Kept(turns, mark)
    /\ \A id, error : None # [id |-> id, error |-> error]

IsChat == chat = [id |-> chat.id, turns |-> chat.turns, status |-> chat.status, error |-> chat.error]
ChatInv ==
    /\ IsChat /\ faults \in Nat
    /\ chat.error = "session" => ~busy
IsRead(r) == r = [id |-> r.id, for |-> r.for, awaited |-> r.awaited, thread |-> r.thread]
Awaited(r) == r.for = "opening" /\ r.awaited
ReadsInv ==
    /\ \A r \in reads : IsRead(r) /\ r.for \in {"opening", "reload"}
    /\ \A r \in reads : Awaited(r) => opening # None /\ opening.id = r.id
    /\ \A q, r \in reads : Awaited(q) /\ Awaited(r) => q = r
OpeningInv == opening # None /\ opening.id = chat.id => ~busy
PageInv == ChatInv /\ ReadsInv /\ OpeningInv

LEMMA PageKept ==
    ASSUME PageInv, UNCHANGED <<opening, reads>>, IsChat', chat'.id = chat.id, faults' \in Nat,
           busy' => busy \/ opening = None,
           chat'.error = "session" => ~busy'
    PROVE  PageInv'
BY DEF PageInv, ChatInv, ReadsInv, OpeningInv

LEMMA PageStands ==
    ASSUME PageInv, UNCHANGED <<chat, opening, reads, faults>>
    PROVE  PageInv'
BY DEF PageInv, ChatInv, ReadsInv, OpeningInv, IsChat, busy

(* A turn that moves on leaves the thread on screen, and one that is asked *)
(* is asked of a thread that is not being opened.                          *)
Progress(next) ==
    /\ next = [id |-> chat.id, turns |-> next.turns, status |-> next.status, error |-> next.error]
    /\ \/ next.status \in {"error", "ready"}
       \/ busy /\ next.status = "streaming" /\ next.error = chat.error
       \/ opening = None /\ next.error = None

LEMMA TurnKeepsPage ==
    ASSUME PageInv, NoneIsApart, UNCHANGED <<opening, reads>>, faults' \in {faults, faults + 1},
           chat' = chat \/ Progress(chat')
    PROVE  PageInv' /\ chat'.id = chat.id
<1>1. IsChat /\ faults \in Nat /\ (chat.error = "session" => ~busy)
  BY DEF PageInv, ChatInv
<1>2. faults' \in Nat
  BY <1>1
<1>3. CASE chat' = chat
  BY <1>1, <1>2, <1>3, PageKept DEF IsChat, busy
<1>4. CASE Progress(chat')
  <2>1. IsChat' /\ chat'.id = chat.id
    BY <1>4 DEF Progress, IsChat
  <2>2. busy' => busy \/ opening = None
    BY <1>4 DEF Progress, busy
  <2>3. chat'.error = "session" => ~busy'
    BY <1>1, <1>4 DEF Progress, busy, NoneIsApart
  <2> QED
    BY <1>2, <2>1, <2>2, <2>3, PageKept
<1> QED
  BY <1>3, <1>4

(* The steps of a turn, as the page hears of them, and of the reader.      *)
LEMMA TurnsProgress ==
    ASSUME PageInv,
           \/ TurnRefused \/ (\E id \in Ids : Word(id) \/ Complete(id) \/ ProviderFails(id) \/ ConnectionLost(id))
           \/ submit \/ retry \/ Stop \/ SessionReturns
    PROVE  /\ UNCHANGED <<opening, reads>> /\ faults' \in {faults, faults + 1}
           /\ chat' = chat \/ Progress(chat')
<1>1. IsChat
  BY DEF PageInv, ChatInv
<1>2. ASSUME NEW n, NEW error, ChatFails(n, error)
      PROVE  chat' = chat \/ Progress(chat')
  BY <1>1, <1>2 DEF ChatFails, Progress, IsChat
<1>3. CASE TurnRefused
  BY <1>2, <1>3 DEF TurnRefused
<1>4. ASSUME NEW id \in Ids, Word(id) PROVE chat' = chat \/ Progress(chat')
  BY <1>1, <1>4 DEF Word, Attached, Progress, IsChat
<1>5. ASSUME NEW id \in Ids, Complete(id) PROVE chat' = chat \/ Progress(chat')
  BY <1>1, <1>5 DEF Complete, Progress, IsChat
<1>6. CASE \E id \in Ids : Word(id) \/ Complete(id)
  BY <1>4, <1>5, <1>6 DEF Word, Complete, history
<1>7. CASE \E id \in Ids : ProviderFails(id) \/ ConnectionLost(id)
  BY <1>2, <1>7 DEF ProviderFails, ConnectionLost
<1>8. CASE submit \/ retry
  BY <1>1, <1>8 DEF submit, retry, ask, AgentConversation, Progress, IsChat
<1>9. CASE Stop \/ SessionReturns
  BY <1>1, <1>9 DEF Stop, SessionReturns, Progress, IsChat, history
<1> QED
  BY <1>3, <1>6, <1>7, <1>8, <1>9

(* What leaves the page as it is.                                          *)
LEMMA PageIsLeft ==
    ASSUME \/ TurnTaken \/ PostLost \/ (\E id \in Ids : LeftEnds(id))
           \/ NewThread \/ ThreadLink \/ pageLink \/ Leave \/ Type
           \/ SendStatement \/ StatementRefused \/ Forget \/ Forgotten \/ UNCHANGED vars
    PROVE  UNCHANGED <<chat, opening, reads, faults>>
BY DEF TurnTaken, PostLost, LeftEnds, NewThread, ThreadLink, pageLink, Leave, Goes, Type,
   SendStatement, StatementRefused, Forget, Forgotten, vars, pageVars, history

(* Asking for a thread leaves the reads before it unawaited.               *)
LEMMA NoneAwaited ==
    ASSUME ReadsInv
    PROVE  \A r \in Unawaited : IsRead(r) /\ r.for \in {"opening", "reload"} /\ ~Awaited(r)
<1> SUFFICES ASSUME NEW r \in Unawaited
             PROVE  IsRead(r) /\ r.for \in {"opening", "reload"} /\ ~Awaited(r)
  OBVIOUS
<1>1. PICK q \in reads : r = IF q.for = "opening" THEN [q EXCEPT !.awaited = FALSE] ELSE q
  BY DEF Unawaited
<1>2. IsRead(q) /\ q.for \in {"opening", "reload"}
  BY DEF ReadsInv
<1> QED
  BY <1>1, <1>2 DEF IsRead, Awaited

LEMMA UnawaitedReads == ASSUME ReadsInv, reads' = Unawaited PROVE ReadsInv'
BY NoneAwaited DEF ReadsInv

LEMMA StartThreadPage ==
    ASSUME PageInv, NoneIsApart, startThread, faults' = faults
    PROVE  PageInv' /\ chat'.id = fresh
<1>1. chat' = Chat(fresh, <<>>) /\ opening' = None /\ reads' = Unawaited
  BY DEF startThread, replace
<1>2. IsChat' /\ ~busy' /\ chat'.error = None /\ chat'.id = fresh
  BY <1>1 DEF Chat, IsChat, busy
<1>3. ReadsInv'
  BY <1>1, UnawaitedReads DEF PageInv
<1> QED
  BY <1>1, <1>2, <1>3 DEF PageInv, ChatInv, OpeningInv, NoneIsApart

(* The read that is awaited is of the thread the page is opening, and back *)
(* on the thread on screen there is none.                                  *)
LEMMA OpenThreadPage ==
    ASSUME PageInv, NoneIsApart, NEW id, openThread(id), faults' = faults
    PROVE  PageInv' /\ chat' = chat
<1>1. chat' = chat
  BY DEF openThread
<1>2. CASE id = chat.id
  <2>1. opening' = None /\ reads' = Unawaited
    BY <1>2 DEF openThread
  <2> QED
    BY <1>1, <2>1, UnawaitedReads DEF PageInv, ChatInv, IsChat, busy, OpeningInv
<1>3. CASE id # chat.id
  <2> DEFINE next == [id |-> id, for |-> "opening", awaited |-> TRUE, thread |-> None]
  <2>1. opening' = [id |-> id, error |-> None] /\ reads' = Unawaited \cup {next}
    BY <1>3 DEF openThread, Asking
  <2>2. opening'.id = id /\ opening' # None
    BY <2>1 DEF NoneIsApart
  <2>3. IsRead(next) /\ next.for = "opening" /\ next.id = id
    BY DEF IsRead
  <2> HIDE DEF next
  <2>4. ReadsInv'
    <3>1. \A r \in Unawaited : IsRead(r) /\ r.for \in {"opening", "reload"} /\ ~Awaited(r)
      BY NoneAwaited DEF PageInv
    <3> QED
      BY <2>1, <2>2, <2>3, <3>1 DEF ReadsInv
  <2> QED
    BY <1>1, <1>3, <2>2, <2>4 DEF PageInv, ChatInv, IsChat, busy, OpeningInv
<1> QED
  BY <1>2, <1>3

(* A read that lands: a re-read, the one that is awaited, or another.      *)
LEMMA LandsAs ==
    ASSUME ReadsInv, ThreadLands
    PROVE  \E r \in reads :
               /\ reads' = reads \ {r} /\ faults' = faults
               /\ \/ r.for = "reload" /\ Shows(r) /\ opening' = opening
                  \/ Awaited(r) /\ Shows(r) /\ opening' = None
                  \/ UNCHANGED <<chat, opening, runs>>
<1>1. \A r \in reads : r.for \in {"opening", "reload"}
  BY DEF ReadsInv
<1> QED
  BY <1>1, ZenonT(30) DEF ThreadLands, Awaited, serverVars

(* The thread read takes the screen, and is no longer being opened unless  *)
(* it is a re-read that lands while another thread is.                     *)
LEMMA ThreadLandsPage ==
    ASSUME PageInv, NoneIsApart, ThreadLands
    PROVE  /\ PageInv'
           /\ chat'.id # chat.id => \/ opening # None /\ opening.id = chat'.id
                                    \/ \E r \in reads \ reads' : r.for = "reload"
<1>1. PICK r \in reads :
        /\ reads' = reads \ {r} /\ faults' = faults
        /\ \/ r.for = "reload" /\ Shows(r) /\ opening' = opening
           \/ Awaited(r) /\ Shows(r) /\ opening' = None
           \/ chat' = chat /\ opening' = opening
  BY LandsAs DEF PageInv
<1>2. r \in reads \ reads'
  BY <1>1
<1>3. ReadsInv'
  BY <1>1 DEF PageInv, ReadsInv
<1>4. CASE Shows(r)
  <2>1. chat' = Chat(r.id, r.thread.turns)
    BY <1>4 DEF Shows, replace
  <2>2. IsChat' /\ ~busy' /\ chat'.error = None /\ chat'.id = r.id
    BY <2>1 DEF Chat, IsChat, busy
  <2>3. PageInv'
    BY <1>1, <1>3, <2>2 DEF PageInv, ChatInv, OpeningInv, NoneIsApart
  <2> QED
    BY <1>1, <1>2, <2>2, <2>3 DEF PageInv, ReadsInv
<1>5. CASE chat' = chat /\ opening' = opening
  BY <1>1, <1>3, <1>5 DEF PageInv, ChatInv, IsChat, busy, OpeningInv
<1> QED
  BY <1>1, <1>4, <1>5

(* The server answers, or refuses, a read: the thread being opened stays   *)
(* the one asked for.                                                      *)
LEMMA ReadAnsweredPage ==
    ASSUME PageInv, NoneIsApart, ThreadRead \/ ReadRefused
    PROVE  PageInv' /\ chat' = chat
<1>1. chat' = chat /\ faults' = faults
  BY DEF ThreadRead, ReadRefused, history
<1>2. ChatInv' /\ busy' = busy
  BY <1>1 DEF PageInv, ChatInv, IsChat, busy
<1>3. CASE ThreadRead
  <2>1. PICK r \in reads : /\ reads' = (reads \ {r}) \cup {[r EXCEPT !.thread = threads[r.id]]}
                           /\ opening' = opening
    BY <1>3 DEF ThreadRead
  <2>2. PICK q : q = [r EXCEPT !.thread = threads[r.id]]
    OBVIOUS
  <2>3. IsRead(q) /\ q.for = r.for /\ q.awaited = r.awaited /\ q.id = r.id
    BY <2>2 DEF PageInv, ReadsInv, IsRead
  <2>4. reads' = (reads \ {r}) \cup {q}
    BY <2>1, <2>2
  <2>5. ReadsInv'
    BY <2>1, <2>3, <2>4 DEF PageInv, ReadsInv, Awaited
  <2> QED
    BY <1>1, <1>2, <2>1, <2>5 DEF PageInv, OpeningInv
<1>4. CASE ReadRefused
  <2>1. PICK r \in reads :
          /\ reads' = reads \ {r}
          /\ opening' = IF Awaited(r) THEN [id |-> r.id, error |-> "refused"] ELSE opening
    BY <1>4 DEF ReadRefused, Awaited
  <2>2. ReadsInv'
    BY <2>1 DEF PageInv, ReadsInv, Awaited
  <2>3. opening' # None => opening # None /\ opening'.id = opening.id
    BY <2>1 DEF PageInv, ReadsInv
  <2> QED
    BY <1>1, <1>2, <2>2, <2>3 DEF PageInv, OpeningInv
<1> QED
  BY <1>3, <1>4

LEMMA StatementKeptPage ==
    ASSUME PageInv, StatementKept
    PROVE  PageInv' /\ chat' = chat
<1> DEFINE next == [id |-> chat.id, for |-> "reload", awaited |-> TRUE, thread |-> None]
<1>1. /\ chat' = chat /\ opening' = opening /\ faults' = faults
      /\ reads' = reads \cup {next}
  BY DEF StatementKept, reloadThread, Asking
<1>2. IsRead(next) /\ next.for = "reload" /\ ~Awaited(next)
  BY DEF IsRead, Awaited
<1> HIDE DEF next
<1>3. ReadsInv'
  BY <1>1, <1>2 DEF PageInv, ReadsInv
<1> QED
  BY <1>1, <1>3 DEF PageInv, ChatInv, IsChat, busy, OpeningInv

LEMMA PageStart == ASSUME Init, NoneIsApart PROVE PageInv
<1>1. chat = Chat(Cardinality(Stored) + 1, <<>>) /\ opening = None /\ reads = {} /\ faults = 0
  BY DEF Init
<1>2. IsChat /\ ~busy
  BY <1>1 DEF Chat, IsChat, busy
<1> QED
  BY <1>1, <1>2 DEF PageInv, ChatInv, ReadsInv, OpeningInv

(* What takes the screen is a fresh thread, the thread being opened, or    *)
(* the one a statement had read again.                                     *)
Landed ==
    chat'.id # chat.id =>
        \/ chat'.id = fresh
        \/ opening # None /\ opening.id = chat'.id
        \/ \E r \in reads \ reads' : r.for = "reload"

LEMMA PageStep == ASSUME PageInv, NoneIsApart, [Next]_vars PROVE PageInv' /\ Landed
<1>1. CASE \/ TurnRefused
           \/ \E id \in Ids : Word(id) \/ Complete(id) \/ ProviderFails(id) \/ ConnectionLost(id)
           \/ submit \/ retry \/ Stop \/ SessionReturns
  BY <1>1, TurnsProgress, TurnKeepsPage DEF Landed
<1>2. CASE \/ TurnTaken \/ PostLost \/ (\E id \in Ids : LeftEnds(id))
           \/ NewThread \/ ThreadLink \/ pageLink \/ Leave \/ Type
           \/ SendStatement \/ StatementRefused \/ Forget \/ Forgotten \/ UNCHANGED vars
  BY <1>2, PageIsLeft, PageStands DEF Landed
<1>3. CASE PageEffect
  <2>1. faults' = faults
    BY <1>3 DEF PageEffect
  <2> QED
    BY <1>3, <2>1, StartThreadPage, OpenThreadPage DEF PageEffect, Landed
<1>4. CASE RetryRead
  <2>1. openThread(opening.id) /\ faults' = faults
    BY <1>4 DEF RetryRead
  <2> QED
    BY <2>1, OpenThreadPage DEF Landed
<1>5. CASE ThreadRead \/ ReadRefused \/ StatementKept
  BY <1>5, ReadAnsweredPage, StatementKeptPage DEF Landed
<1>6. CASE ThreadLands
  BY <1>6, ThreadLandsPage DEF Landed
<1> QED
  BY <1>1, <1>2, <1>3, <1>4, <1>5, <1>6 DEF Next

(* The thread that takes the screen is the last one asked for: an answer   *)
(* to an earlier read never does, where None is no value of another kind   *)
(* (agentChatProvider.tsx, reading).                                       *)
THEOREM LandsAsAsked ==
    ASSUME NoneIsApart
    PROVE  Spec => LandedIsAsked
<1>1. PageInv /\ [Next]_vars => PageInv' /\ [Landed]_vars
  BY PageStep
<1>2. Init => PageInv
  BY PageStart
<1>3. Spec => []PageInv
  BY <1>1, <1>2, PTL DEF Spec
<1>4. Spec => [][Landed]_vars
  BY <1>1, <1>3, PTL DEF Spec
<1> QED
  BY <1>4, PTL DEF LandedIsAsked, Landed

-----------------------------------------------------------------------------
(* The ids.  A fresh one is of no thread anyone holds, so that an empty    *)
(* thread is another than the one on screen.                               *)

NumbersAreIds ==
    /\ Ids \subseteq Nat /\ Stored \subseteq 1 .. Cardinality(Stored)
    /\ Cardinality(Stored) \in Nat /\ OffPage \notin Ids

IsPost(p) == p = [id |-> p.id, n |-> p.n, left |-> p.left, drawn |-> p.drawn]
Used(id) == id \in Int /\ id < fresh
UsedInv ==
    /\ fresh \in Int /\ Used(chat.id)
    /\ \A p \in posts : IsPost(p) /\ Used(p.id)
    /\ \A r \in reads : Used(r.id)
    /\ opening # None => Used(opening.id)
    /\ statement # None => Used(statement.id)
    /\ address \in Ids => Used(address)
    /\ \A id \in Ids : threads[id] # None => Used(id)

(* A step that names no thread it did not hold.                            *)
LEMMA NamesNoOther ==
    ASSUME UsedInv, NoneIsApart, NumbersAreIds, fresh' = fresh, chat'.id = chat.id,
           posts' \subseteq posts, UNCHANGED <<opening, reads>>,
           statement' \in {statement, None}, address' \in {address, None, OffPage},
           \A id \in Ids : threads'[id] # None => threads[id] # None
    PROVE  UsedInv'
BY DEF UsedInv, Used, NoneIsApart, NumbersAreIds

(* A turn that ends, or that is deleted, has its file.                     *)
LEMMA EndsNameNoOther ==
    ASSUME FilesInv, UsedInv, NoneIsApart, NumbersAreIds, chat'.id = chat.id,
           \/ TurnRefused \/ PostLost
           \/ \E id \in Ids : \/ Word(id) \/ Complete(id) \/ ProviderFails(id)
                              \/ ConnectionLost(id) \/ LeftEnds(id)
           \/ NewThread \/ Leave \/ Type \/ SessionReturns
           \/ StatementRefused \/ Forget \/ Forgotten
    PROVE  UsedInv'
<1>1. \A id \in Ids : runs[id] # None => threads[id] # None
  BY DEF FilesInv, ThreadInv, Asked, NoneIsApart
<1>2. CASE TurnRefused \/ PostLost
  BY <1>2, NamesNoOther DEF TurnRefused, PostLost, pageVars, restVars
<1>3. ASSUME NEW id \in Ids, Word(id) \/ ConnectionLost(id) PROVE UsedInv'
  BY <1>3, NamesNoOther DEF Word, ConnectionLost, restVars
<1>4. ASSUME NEW id \in Ids, Complete(id) PROVE UsedInv'
  <2>1. \A i \in Ids : threads'[i] # None => threads[i] # None
    BY <1>1, <1>4 DEF Complete, FilesInv
  <2> QED
    BY <1>4, <2>1, NamesNoOther DEF Complete, restVars
<1>5. ASSUME NEW id \in Ids, ProviderFails(id) PROVE UsedInv'
  <2>1. \A i \in Ids : threads'[i] # None => threads[i] # None
    BY <1>1, <1>5 DEF ProviderFails, FilesInv
  <2> QED
    BY <1>5, <2>1, NamesNoOther DEF ProviderFails, restVars
<1>6. ASSUME NEW id \in Ids, LeftEnds(id) PROVE UsedInv'
  <2>1. \A i \in Ids : threads'[i] # None => threads[i] # None
    BY <1>1, <1>6 DEF LeftEnds, FilesInv
  <2> QED
    BY <1>6, <2>1, NamesNoOther DEF LeftEnds, pageVars, restVars
<1>7. CASE NewThread \/ Leave \/ Type \/ SessionReturns \/ StatementRefused \/ Forget
  BY <1>7, NamesNoOther DEF NewThread, Leave, Goes, Type, SessionReturns, StatementRefused, Forget,
     pageVars, serverVars
<1>8. CASE Forgotten
  <2>1. PICK x \in removals :
          /\ \/ threads' = threads /\ address' = address
             \/ threads' = [threads EXCEPT ![x.id] = None] /\ address' = After(x)
          /\ UNCHANGED <<posts, fresh, opening, reads, statement>>
    BY <1>8 DEF Forgotten
  <2>2. address' \in {address, None} /\ \A i \in Ids : threads'[i] # None => threads[i] # None
    BY <2>1 DEF After, FilesInv
  <2> QED
    BY <2>1, <2>2, NamesNoOther
<1> QED
  BY <1>2, <1>3, <1>4, <1>5, <1>6, <1>7, <1>8

LEMMA CutKeepsIds == ASSUME UsedInv, StopStream PROVE \A p \in posts' : IsPost(p) /\ Used(p.id)
<1> SUFFICES ASSUME NEW p \in posts' PROVE IsPost(p) /\ Used(p.id)
  OBVIOUS
<1>1. PICK q \in posts : p = IF busy /\ q.n = Last(chat.turns).n THEN [q EXCEPT !.left = TRUE] ELSE q
  BY DEF StopStream
<1>2. IsPost(q) /\ Used(q.id)
  BY DEF UsedInv
<1>3. p \in {q, [q EXCEPT !.left = TRUE]}
  BY <1>1
<1> QED
  BY <1>2, <1>3 DEF IsPost

LEMMA UnawaitedIds == ASSUME ReadsInv, UsedInv PROVE \A r \in Unawaited : Used(r.id)
<1> SUFFICES ASSUME NEW r \in Unawaited PROVE Used(r.id)
  OBVIOUS
<1>1. PICK q \in reads : r = IF q.for = "opening" THEN [q EXCEPT !.awaited = FALSE] ELSE q
  BY DEF Unawaited
<1> QED
  BY <1>1 DEF ReadsInv, IsRead, UsedInv

(* The steps that name a thread: one on screen, held, listed or addressed. *)
LEMMA StartThreadIds ==
    ASSUME ReadsInv, UsedInv, NoneIsApart, startThread, UNCHANGED <<address, statement>>
    PROVE  UsedInv'
<1>1. /\ chat' = Chat(fresh, <<>>) /\ fresh' = fresh + 1 /\ opening' = None
      /\ reads' = Unawaited /\ threads' = threads /\ StopStream
  BY DEF startThread, replace, StopStream
<1>2. chat'.id = fresh
  BY <1>1 DEF Chat
<1>3. \A r \in reads' : Used(r.id)
  BY <1>1, UnawaitedIds
<1>4. \A p \in posts' : IsPost(p) /\ Used(p.id)
  BY <1>1, CutKeepsIds
<1> QED
  BY <1>1, <1>2, <1>3, <1>4 DEF UsedInv, Used

LEMMA OpenThreadIds ==
    ASSUME ReadsInv, UsedInv, NoneIsApart, NEW id, Used(id), openThread(id),
           UNCHANGED <<address, statement>>
    PROVE  UsedInv'
<1>1. UNCHANGED <<threads, posts, fresh, chat>>
  BY DEF openThread, serverVars
<1> DEFINE next == [id |-> id, for |-> "opening", awaited |-> TRUE, thread |-> None]
<1>2. /\ reads' \subseteq Unawaited \cup {next}
      /\ opening' # None => opening'.id = id
  BY DEF openThread, Asking
<1>3. next.id = id
  OBVIOUS
<1> HIDE DEF next
<1>4. \A r \in reads' : Used(r.id)
  BY <1>2, <1>3, UnawaitedIds
<1> QED
  BY <1>1, <1>2, <1>4 DEF UsedInv, Used

LEMMA ThreadLandsIds == ASSUME ReadsInv, UsedInv, ThreadLands PROVE UsedInv'
<1>1. PICK r \in reads :
        /\ reads' = reads \ {r} /\ UNCHANGED <<address, fresh, statement>>
        /\ \/ Shows(r) /\ opening' \in {opening, None}
           \/ UNCHANGED <<threads, posts, chat, opening>>
  BY DEF ThreadLands, restVars, serverVars
<1>2. CASE Shows(r) /\ opening' \in {opening, None}
  <2>1. chat' = Chat(r.id, r.thread.turns) /\ StopStream /\ threads' = threads
    BY <1>2 DEF Shows, replace, StopStream
  <2>2. chat'.id = r.id
    BY <2>1 DEF Chat
  <2>3. \A p \in posts' : IsPost(p) /\ Used(p.id)
    BY <2>1, CutKeepsIds
  <2> QED
    BY <1>1, <1>2, <2>1, <2>2, <2>3 DEF UsedInv, Used
<1>3. CASE UNCHANGED <<threads, posts, chat, opening>>
  BY <1>1, <1>3 DEF UsedInv, Used
<1> QED
  BY <1>1, <1>2, <1>3

LEMMA ReadAnsweredIds == ASSUME ReadsInv, UsedInv, ThreadRead \/ ReadRefused PROVE UsedInv'
<1>1. UNCHANGED <<threads, posts, address, fresh, chat, statement>>
  BY DEF ThreadRead, ReadRefused, serverVars, restVars
<1>2. \A r \in reads' : Used(r.id)
  <2>1. CASE ThreadRead
    <3>1. PICK r \in reads : reads' = (reads \ {r}) \cup {[r EXCEPT !.thread = threads[r.id]]}
      BY <2>1 DEF ThreadRead
    <3>2. [r EXCEPT !.thread = threads[r.id]].id = r.id
      BY DEF ReadsInv, IsRead
    <3> QED
      BY <3>1, <3>2 DEF UsedInv
  <2>2. CASE ReadRefused
    BY <2>2 DEF ReadRefused, UsedInv
  <2> QED
    BY <2>1, <2>2
<1>3. opening' # None => Used(opening'.id)
  BY DEF ThreadRead, ReadRefused, UsedInv
<1> QED
  BY <1>1, <1>2, <1>3 DEF UsedInv, Used

LEMMA StatementKeptIds == ASSUME FilesInv, UsedInv, StatementKept PROVE UsedInv'
<1> DEFINE next == [id |-> chat.id, for |-> "reload", awaited |-> TRUE, thread |-> None]
<1>1. /\ UNCHANGED <<posts, fresh, chat, opening>>
      /\ statement # None /\ statement' = None /\ reads' = reads \cup {next}
      /\ address' \in {address, statement.id}
  BY DEF StatementKept, reloadThread, Asking
<1>2. \A id \in Ids : id # statement.id => threads'[id] = threads[id]
  BY DEF StatementKept, FilesInv
<1>3. next.id = chat.id
  OBVIOUS
<1> HIDE DEF next
<1> QED
  BY <1>1, <1>2, <1>3 DEF UsedInv, Used

LEMMA AskIds ==
    ASSUME UsedInv, submit \/ retry
    PROVE  UsedInv'
<1>1. PICK n : ask(n)
  BY DEF submit, retry
<1> DEFINE next == [id |-> chat.id, n |-> n, left |-> FALSE, drawn |-> Drawn]
<1>2. /\ posts' = posts \cup {next} /\ address' = chat.id
      /\ chat'.id = chat.id /\ UNCHANGED <<threads, fresh, opening, reads, statement>>
  BY <1>1 DEF ask
<1>3. IsPost(next) /\ next.id = chat.id
  BY DEF IsPost
<1> HIDE DEF next
<1> QED
  BY <1>2, <1>3 DEF UsedInv, Used

LEMMA UsedStep ==
    ASSUME FilesInv, PageInv, UsedInv, NoneIsApart, NumbersAreIds, [Next]_vars
    PROVE  UsedInv'
<1>0. ReadsInv
  BY DEF PageInv
<1>1. CASE \/ TurnRefused \/ SessionReturns
           \/ \E id \in Ids : Word(id) \/ Complete(id) \/ ProviderFails(id) \/ ConnectionLost(id)
  BY <1>1, TurnsProgress, TurnKeepsPage, EndsNameNoOther
<1>2. CASE \/ PostLost \/ (\E id \in Ids : LeftEnds(id)) \/ NewThread \/ Leave \/ Type
           \/ StatementRefused \/ Forget \/ Forgotten
  BY <1>2, PageIsLeft, EndsNameNoOther
<1>3. CASE TurnTaken
  <2>1. PICK p \in posts :
          /\ posts' = posts \ {p}
          /\ threads' = [threads EXCEPT
                 ![p.id] = Kept(Append(Answered(File(p.id)), Turn(p.n, "none")), FALSE)]
    BY <1>3 DEF TurnTaken
  <2>2. UNCHANGED <<address, fresh, chat, opening, reads, statement>>
    BY <1>3 DEF TurnTaken, pageVars, restVars
  <2>3. \A id \in Ids : id # p.id => threads'[id] = threads[id]
    BY <2>1 DEF FilesInv
  <2> QED
    BY <2>1, <2>2, <2>3 DEF UsedInv, Used
<1>4. CASE ThreadLink
  BY <1>4 DEF ThreadLink, Goes, serverVars, UsedInv, Used
<1>5. CASE pageLink
  BY <1>5 DEF pageLink, Goes, serverVars, UsedInv, Used, NoneIsApart
<1>6. CASE SendStatement
  BY <1>6 DEF SendStatement, serverVars, pageVars, UsedInv, Used
<1>7. CASE submit \/ retry
  BY <1>7, AskIds
<1>8. CASE Stop
  BY <1>8, CutKeepsIds DEF Stop, StopStream, restVars, UsedInv, Used
<1>9. CASE PageEffect
  <2>1. UNCHANGED <<address, statement>>
    BY <1>9 DEF PageEffect, restVars
  <2>2. CASE startThread
    BY <1>0, <2>1, <2>2, StartThreadIds
  <2>3. CASE Asks /\ openThread(address)
    BY <1>0, <2>1, <2>3, OpenThreadIds DEF Asks, UsedInv
  <2> QED
    BY <1>9, <2>2, <2>3 DEF PageEffect
<1>10. CASE RetryRead
  BY <1>0, <1>10, OpenThreadIds DEF RetryRead, restVars, UsedInv
<1>11. CASE ThreadRead \/ ReadRefused \/ ThreadLands
  BY <1>0, <1>11, ReadAnsweredIds, ThreadLandsIds
<1>12. CASE StatementKept
  BY <1>12, StatementKeptIds
<1>13. CASE UNCHANGED vars
  BY <1>13 DEF vars, serverVars, pageVars, restVars, UsedInv, Used
<1> QED
  BY <1>1, <1>2, <1>3, <1>4, <1>5, <1>6, <1>7, <1>8, <1>9, <1>10, <1>11, <1>12, <1>13 DEF Next

LEMMA UsedStart == ASSUME Init, NoneIsApart, NumbersAreIds PROVE UsedInv
<1>1. chat.id = Cardinality(Stored) + 1 /\ fresh = Cardinality(Stored) + 2
  BY DEF Init, Chat
<1>2. \A id \in Stored : Used(id)
  BY <1>1 DEF Used, NumbersAreIds
<1>3. address \in Ids => Used(address)
  BY <1>2 DEF Init, NoneIsApart
<1>4. \A id \in Ids : threads[id] # None => Used(id)
  BY <1>2 DEF Init
<1>5. Used(chat.id) /\ fresh \in Int
  BY <1>1 DEF Used, NumbersAreIds
<1> QED
  BY <1>3, <1>4, <1>5 DEF Init, UsedInv

PagesInv == FilesInv /\ PageInv /\ UsedInv

LEMMA PagesHold ==
    ASSUME NoneIsApart, NumbersAreIds
    PROVE  Spec => []PagesInv
<1>1. Init => PagesInv
  BY FilesStart, PageStart, UsedStart DEF PagesInv
<1>2. PagesInv /\ [Next]_vars => PagesInv'
  BY FilesStep, PageStep, UsedStep DEF PagesInv, Steps
<1> QED
  BY <1>1, <1>2, PTL DEF Spec

(* Who leaves a turn in flight, and who hands a question back.             *)
Alone ==
    \A id \in Ids : runs[id] # None /\ ~runs[id].left /\ runs'[id] # None /\ runs'[id].left =>
        \/ chat'.id # chat.id
        \/ faults' > faults
        \/ chat' = [chat EXCEPT !.status = "ready"]
        \/ \E r \in reads \ reads' : r.for = "reload"
HandedBack ==
    chat.error = "session" /\ chat'.id = chat.id /\ chat' # chat /\ reads \subseteq reads' =>
        text' = Last(chat.turns).n

(* The steps that show a thread: the stream of the one before is cut, for  *)
(* a thread is read to be shown only while it is not the one that streams. *)
LEMMA ShownAlone ==
    ASSUME PagesInv, NoneIsApart, PageEffect \/ RetryRead \/ ThreadLands
    PROVE  Alone /\ HandedBack
<1>1. ASSUME startThread PROVE chat'.id # chat.id
  BY <1>1 DEF PagesInv, UsedInv, Used, startThread, replace, Chat
<1>2. ASSUME NEW id, openThread(id) PROVE runs' = runs /\ chat' = chat
  BY <1>2 DEF openThread, serverVars
<1>3. CASE PageEffect \/ RetryRead
  BY <1>1, <1>2, <1>3 DEF PageEffect, RetryRead, Alone, HandedBack
<1>4. CASE ThreadLands
  <2>1. PICK r \in reads :
          /\ reads' = reads \ {r}
          /\ \/ r.for = "reload"
             \/ Awaited(r) /\ Shows(r)
             \/ runs' = runs
    BY <1>4, LandsAs DEF PagesInv, PageInv
  <2>2. ~(reads \subseteq reads') /\ r \in reads \ reads'
    BY <2>1
  <2>3. CASE Awaited(r) /\ Shows(r)
    <3>1. chat'.id = r.id /\ StopStream
      BY <2>3 DEF Shows, replace, Chat
    <3>2. r.id = chat.id => ~busy
      BY <2>3 DEF PagesInv, PageInv, ReadsInv, OpeningInv
    <3>3. ~busy => \A id \in Ids : runs'[id] = runs[id]
      BY <3>1 DEF StopStream, Attached
    <3> QED
      BY <2>2, <3>1, <3>2, <3>3 DEF Alone, HandedBack
  <2> QED
    BY <2>1, <2>2, <2>3 DEF Alone, HandedBack
<1> QED
  BY <1>3, <1>4

(* The steps of the turns: a lost connection, or the reader's Stop.        *)
LEMMA TurnsAlone ==
    ASSUME PagesInv,
           \/ TurnTaken
           \/ \E id \in Ids : \/ Word(id) \/ Complete(id) \/ ProviderFails(id)
                              \/ ConnectionLost(id) \/ LeftEnds(id)
    PROVE  Alone /\ HandedBack
<1>1. /\ faults \in Nat /\ (chat.error = "session" => ~busy)
      /\ runs = [id \in Ids |-> runs[id]]
  BY DEF PagesInv, PageInv, ChatInv, FilesInv
<1>2. \A n, error : ChatFails(n, error) => HandedBack
  BY <1>1 DEF ChatFails, Attached, HandedBack
<1>3. CASE TurnTaken
  <2>1. PICK p \in posts : runs[p.id] = None /\ \E run : runs' = [runs EXCEPT ![p.id] = run]
    BY <1>3 DEF TurnTaken
  <2>2. \A id \in Ids : runs[id] # None => runs'[id] = runs[id]
    BY <1>1, <2>1
  <2>3. chat' = chat
    BY <1>3 DEF TurnTaken, pageVars
  <2> QED
    BY <2>2, <2>3 DEF Alone, HandedBack
<1>4. ASSUME NEW id \in Ids, Word(id) PROVE Alone /\ HandedBack
  <2>1. runs[id] = [runs[id] EXCEPT !.answer = runs[id].answer] /\ IsRun(runs[id])
    BY <1>4 DEF PagesInv, FilesInv, ThreadInv, Word, IsRun
  <2>2. runs'[id].left = runs[id].left /\ \A i \in Ids : i # id => runs'[i] = runs[i]
    BY <1>1, <1>4, <2>1 DEF Word, IsRun
  <2> QED
    BY <1>1, <1>4, <2>2 DEF Word, Attached, Alone, HandedBack
<1>5. ASSUME NEW id \in Ids, Complete(id) \/ ProviderFails(id) \/ LeftEnds(id) PROVE Alone /\ HandedBack
  <2>1. runs'[id] = None /\ \A i \in Ids : i # id => runs'[i] = runs[i]
    BY <1>1, <1>5 DEF Complete, ProviderFails, LeftEnds
  <2>2. HandedBack
    BY <1>1, <1>2, <1>5 DEF Complete, ProviderFails, LeftEnds, pageVars, Attached, HandedBack
  <2> QED
    BY <2>1, <2>2 DEF Alone
<1>6. ASSUME NEW id \in Ids, ConnectionLost(id) PROVE Alone /\ HandedBack
  BY <1>1, <1>2, <1>6 DEF ConnectionLost, Alone
<1> QED
  BY <1>3, <1>4, <1>5, <1>6

LEMMA AloneStep ==
    ASSUME PagesInv, NoneIsApart, [Next]_vars
    PROVE  Alone /\ HandedBack
<1>1. \A n, error : ChatFails(n, error) => HandedBack
  BY DEF PagesInv, PageInv, ChatInv, ChatFails, Attached, HandedBack
<1>2. CASE PageEffect \/ RetryRead \/ ThreadLands
  BY <1>2, ShownAlone
<1>3. CASE \/ TurnTaken
           \/ \E id \in Ids : \/ Word(id) \/ Complete(id) \/ ProviderFails(id)
                              \/ ConnectionLost(id) \/ LeftEnds(id)
  BY <1>3, TurnsAlone
<1>4. CASE TurnRefused
  BY <1>1, <1>4 DEF TurnRefused, Alone
<1>5. CASE Stop \/ SessionReturns
  BY <1>5 DEF Stop, SessionReturns, AgentConversation, serverVars, Alone, HandedBack
<1>6. CASE submit \/ retry
  BY <1>6 DEF submit, retry, ask, AgentConversation, Alone, HandedBack
<1>7. CASE \/ PostLost \/ NewThread \/ ThreadLink \/ pageLink \/ Leave \/ Type
           \/ SendStatement \/ StatementRefused \/ Forget \/ Forgotten \/ UNCHANGED vars
  BY <1>7, PageIsLeft DEF PostLost, NewThread, ThreadLink, pageLink, Leave, Goes, Type,
     SendStatement, StatementRefused, Forget, Forgotten, vars, serverVars, Alone, HandedBack
<1>8. CASE ThreadRead \/ ReadRefused \/ StatementKept
  BY <1>8 DEF ThreadRead, ReadRefused, StatementKept, serverVars, Alone, HandedBack
<1> QED
  BY <1>2, <1>3, <1>4, <1>5, <1>6, <1>7, <1>8 DEF Next

(* A turn in flight is left only by Stop, by another thread taking the     *)
(* screen, by a lost connection or by the re-read of a statement: coming   *)
(* back to the thread on screen leaves its stream alone                    *)
(* (agentChatProvider.tsx, openThread).                                    *)
THEOREM StreamsAreLeftAlone ==
    ASSUME NoneIsApart, NumbersAreIds
    PROVE  Spec => StreamIsLeftAlone
<1>1. PagesInv /\ [Next]_vars => [Alone]_vars
  BY AloneStep
<1>2. Spec => [][Alone]_vars
  BY <1>1, PagesHold, PTL DEF Spec
<1> QED
  BY <1>2, PTL DEF StreamIsLeftAlone, Alone

(* A question refused for want of a session is handed back to the input by *)
(* whatever next changes the thread on screen, short of another thread or  *)
(* of a read that lands (AgentChat.tsx, returned).                         *)
THEOREM QuestionsAreHandedBack ==
    ASSUME NoneIsApart, NumbersAreIds
    PROVE  Spec => QuestionIsHandedBack
<1>1. PagesInv /\ [Next]_vars => [HandedBack]_vars
  BY AloneStep
<1>2. Spec => [][HandedBack]_vars
  BY <1>1, PagesHold, PTL DEF Spec
<1> QED
  BY <1>2, PTL DEF QuestionIsHandedBack, HandedBack

(* Without a statement, every read opens a thread.                         *)
OwnFailureInv ==
    /\ statement = None
    /\ \A r \in reads : IsRead(r) /\ r.for = "opening"
    /\ failedOnReload => readFailed

LEMMA OwnFailureKept ==
    ASSUME OwnFailureInv, UNCHANGED statement,
           \A r \in reads' : IsRead(r) /\ r.for = "opening",
           UNCHANGED <<failedOnReload, readFailed>> \/ failedOnReload' = readFailed'
    PROVE  OwnFailureInv'
BY DEF OwnFailureInv

LEMMA OwnFailureStep ==
    ASSUME Statements = FALSE, OwnFailureInv, [Next]_vars
    PROVE  OwnFailureInv'
<1>1. \A r \in Unawaited : IsRead(r) /\ r.for = "opening"
  BY DEF OwnFailureInv, Unawaited, IsRead
<1>2. \A r \in reads : IsRead(r) /\ r.for = "opening"
  BY DEF OwnFailureInv
<1>3. ASSUME NEW id, openThread(id), UNCHANGED statement PROVE OwnFailureInv'
  <2>1. \A r \in reads' : IsRead(r) /\ r.for = "opening"
    BY <1>1, <1>3 DEF openThread, Asking, IsRead
  <2> QED BY <1>3, <2>1, OwnFailureKept DEF openThread
<1>4. CASE PageEffect
  <2>1. CASE startThread
    BY <1>1, <1>4, <2>1, OwnFailureKept DEF PageEffect, startThread, restVars
  <2> QED BY <1>3, <1>4, <2>1 DEF PageEffect, restVars
<1>5. CASE RetryRead
  BY <1>3, <1>5 DEF RetryRead, restVars
<1>6. CASE ThreadRead
  <2>1. PICK r \in reads : reads' = (reads \ {r}) \cup {[r EXCEPT !.thread = threads[r.id]]}
    BY <1>6 DEF ThreadRead
  <2>2. \A q \in reads' : IsRead(q) /\ q.for = "opening"
    BY <1>2, <2>1 DEF IsRead
  <2> QED BY <1>6, <2>2, OwnFailureKept DEF ThreadRead, restVars
<1>7. CASE ThreadLands
  BY <1>2, <1>7, OwnFailureKept DEF ThreadLands, Shows, restVars
<1>8. CASE ReadRefused
  BY <1>2, <1>8, OwnFailureKept DEF ReadRefused, restVars
<1>9. CASE submit \/ retry
  BY <1>2, <1>9, OwnFailureKept DEF submit, retry, ask
<1>10. CASE \/ TurnTaken \/ TurnRefused \/ PostLost
            \/ \E id \in Ids : \/ Word(id) \/ Complete(id) \/ ProviderFails(id)
                               \/ ConnectionLost(id) \/ LeftEnds(id)
            \/ NewThread \/ ThreadLink \/ pageLink \/ Leave \/ Type \/ Stop \/ SessionReturns
            \/ Forget \/ Forgotten \/ UNCHANGED vars
  BY <1>2, <1>10, OwnFailureKept DEF TurnTaken, TurnRefused, PostLost, Word, Complete,
     ProviderFails, ConnectionLost, LeftEnds, NewThread, ThreadLink, pageLink, Leave, Goes, Type,
     Stop, SessionReturns, Forget, Forgotten, vars, pageVars, restVars
<1>11. ~SendStatement /\ ~StatementKept /\ ~StatementRefused
  BY DEF SendStatement, StatementKept, StatementRefused, OwnFailureInv
<1> QED
  BY <1>4, <1>5, <1>6, <1>7, <1>8, <1>9, <1>10, <1>11 DEF Next

(* Where no statement is given, the failure said under a thread is its own:*)
(* a statement's re-read alone shows a thread and keeps the failure of     *)
(* what it replaces (agentChatProvider.tsx, failedOnReload).               *)
THEOREM FailuresAreOwn ==
    ASSUME Statements = FALSE
    PROVE  Spec => []FailureIsOfItsThread
<1>1. Init => OwnFailureInv
  BY DEF Init, OwnFailureInv
<1>2. OwnFailureInv /\ [Next]_vars => OwnFailureInv'
  BY OwnFailureStep
<1>3. OwnFailureInv => FailureIsOfItsThread
  BY DEF OwnFailureInv, FailureIsOfItsThread
<1> QED
  BY <1>1, <1>2, <1>3, PTL DEF Spec

-----------------------------------------------------------------------------
(* The cards *)

CONSTANTS Failed, Kind, MaxProposals, MaxMoves, MaxTurns, MaxSaves
VARIABLES proposals, madeOf, fact, streams, read, flight, invalidated, successor, deciding,
    editor, writing, moves, turns, saves, decided, crossed, newest, unheard
Cards == INSTANCE AgentCards WITH busy <- streams

(* There is a proposal to decide; None and Failed are no proposal, status, *)
(* answer, request or profile.                                             *)
CardsAreApart ==
    /\ MaxProposals \in Nat \ {0}
    /\ None \notin Nat \cup Cards!Statuses /\ Failed \notin Nat
    /\ None # <<>> /\ \A x : None # <<x>>
    /\ \A how, id, answer : None # [how |-> how, id |-> id, answer |-> answer]
    /\ \A at, held : None # [at |-> at, held |-> held]

Ways == {"confirm", "ignore", "repropose", "rekind"}
MayGo(id) == id \in 1 .. MaxProposals /\ proposals[id] \in Cards!Undecided
Gone(id) == id \in 1 .. MaxProposals /\ proposals[id] \notin Cards!Undecided \cup {None}
Given(answer) == answer \notin {None, Failed}

(* The proposals made are the first ones, and what gave way to another may *)
(* not be decided again.                                                   *)
MadeInv ==
    /\ proposals = [id \in 1 .. MaxProposals |-> proposals[id]]
    /\ madeOf = [id \in 1 .. MaxProposals |-> madeOf[id]]
    /\ \E n \in 1 .. MaxProposals :
           \A id \in 1 .. MaxProposals : proposals[id] # None <=> id <= n
    /\ \A id \in 1 .. MaxProposals : madeOf[id] = {} \/ (Gone(id) /\ \E new : madeOf[id] = {new})

(* The cards count with their own instance of FiniteSets.                  *)
LEMMA CountsAsOne == ASSUME NEW S PROVE Cards!Cardinality(S) = Cardinality(S)
BY DEF Cards!Cardinality, Cardinality

(* The next proposal is one that was not made.                             *)
LEMMA NextIsNew ==
    ASSUME CardsAreApart, MadeInv
    PROVE  /\ Cards!made \in Nat /\ Cards!made \in 1 .. MaxProposals
           /\ DOMAIN proposals = 1 .. MaxProposals
           /\ \A id \in 1 .. MaxProposals : proposals[id] # None <=> id <= Cards!made
<1>1. DOMAIN proposals = 1 .. MaxProposals
  BY DEF MadeInv
<1>2. PICK n \in 1 .. MaxProposals :
          \A id \in 1 .. MaxProposals : proposals[id] # None <=> id <= n
  BY DEF MadeInv
<1>3. n \in Nat /\ n >= 1 /\ {id \in DOMAIN proposals : proposals[id] # None} = 1 .. n
  BY <1>1, <1>2 DEF CardsAreApart
<1>4. Cardinality(1 .. n) = n
  BY <1>3, FS_Interval
<1>5. Cards!made = n
  BY <1>3, <1>4, CountsAsOne DEF Cards!made
<1> QED
  BY <1>1, <1>2, <1>3, <1>5

(* A decision ends its proposal, and makes one other at most.              *)
LEMMA DecidesOnce ==
    ASSUME CardsAreApart, MadeInv, NEW id, MayGo(id), NEW how \in Ways, Cards!Decides(id, how)
    PROVE  /\ MadeInv' /\ Gone(id)'
           /\ \A other : Gone(other) => Gone(other)'
           /\ how \in {"repropose", "rekind"} => Cards!made + 1 \in 1 .. MaxProposals
<1> DEFINE next == Cards!made + 1
           new == IF how \in {"repropose", "rekind"} THEN {next} ELSE {}
<1>1. /\ Cards!made \in Nat /\ Cards!made \in 1 .. MaxProposals
      /\ DOMAIN proposals = 1 .. MaxProposals
      /\ \A other \in 1 .. MaxProposals : proposals[other] # None <=> other <= Cards!made
  BY NextIsNew
<1>2. /\ new \subseteq 1 .. MaxProposals
      /\ proposals' = [p \in 1 .. MaxProposals |->
             IF p = id THEN Cards!Outcome(how) ELSE IF p \in new THEN "ready" ELSE proposals[p]]
      /\ madeOf' = [madeOf EXCEPT ![id] = @ \cup new]
  BY <1>1 DEF Cards!Decides
<1>3. Cards!Outcome(how) \in {"confirmed", "ignored"}
  BY DEF Cards!Outcome, Ways
<1>4. "ready" # None /\ "confirmed" # None /\ "ignored" # None
  BY DEF CardsAreApart, Cards!Statuses
<1>5. id <= Cards!made /\ id \in 1 .. MaxProposals /\ id # next /\ MaxProposals \in Nat
  <2>1. id \in 1 .. MaxProposals /\ proposals[id] # None /\ MaxProposals \in Nat
    BY DEF MayGo, CardsAreApart, Cards!Undecided, Cards!Statuses
  <2> QED BY <2>1, <1>1
<1>6. Gone(id)'
  BY <1>2, <1>3, <1>4, <1>5 DEF Gone, Cards!Undecided
<1>7. ASSUME NEW other, Gone(other) PROVE Gone(other)'
  <2>1. other # id
    BY <1>7 DEF Gone, MayGo
  <2>2. other <= Cards!made
    BY <1>1, <1>7 DEF Gone
  <2>3. other # next
    BY <1>1, <2>2, <1>7 DEF Gone
  <2> QED BY <1>2, <1>7, <2>1, <2>3 DEF Gone
<1>8. \E n \in 1 .. MaxProposals :
          \A other \in 1 .. MaxProposals : (proposals[other] # None)' <=> other <= n
  <2>1. CASE new = {}
    <3>1. \A other \in 1 .. MaxProposals : (proposals[other] # None)' <=> other <= Cards!made
      BY <1>1, <1>2, <1>3, <1>4, <1>5, <2>1
    <3> QED BY <1>1, <3>1
  <2>2. CASE new = {next}
    <3> next \in 1 .. MaxProposals
      BY <1>2, <2>2
    <3>1. \A other \in 1 .. MaxProposals : (proposals[other] # None)' <=> other <= next
      BY <1>1, <1>2, <1>3, <1>4, <1>5, <2>2
    <3> QED BY <3>1
  <2> QED BY <2>1, <2>2
<1>9. ASSUME NEW other \in 1 .. MaxProposals
      PROVE  (madeOf[other] = {} \/ (Gone(other) /\ \E made : madeOf[other] = {made}))'
  <2>1. CASE other = id
    <3>1. madeOf[id] = {}
      BY <1>5 DEF MadeInv, MayGo, Gone
    <3>2. madeOf'[id] = new
      BY <1>2, <1>5, <3>1 DEF MadeInv
    <3> QED BY <2>1, <3>2, <1>6
  <2>2. CASE other # id
    <3>1. madeOf'[other] = madeOf[other]
      BY <1>2, <2>2 DEF MadeInv
    <3> QED BY <3>1, <1>7 DEF MadeInv
  <2> QED BY <2>1, <2>2
<1>10. /\ proposals' = [p \in 1 .. MaxProposals |-> proposals'[p]]
       /\ madeOf' = [p \in 1 .. MaxProposals |-> madeOf'[p]]
  BY <1>2 DEF MadeInv
<1>11. MadeInv'
  BY <1>8, <1>9, <1>10 DEF MadeInv
<1> QED BY <1>2, <1>6, <1>7, <1>11

(* The proposal on screen, the one in flight and those decided here are    *)
(* the server's, and what was decided has no way back.                     *)
CardInv ==
    /\ successor # None => successor \in 1 .. MaxProposals
    /\ deciding # None =>
        /\ deciding = [how |-> deciding.how, id |-> deciding.id, answer |-> deciding.answer]
        /\ deciding.id \in 1 .. MaxProposals /\ deciding.how \in Ways
        /\ deciding.how = "confirm" => Kind = "fact"
        /\ Given(deciding.answer) => Gone(deciding.id) /\ deciding.answer \in 1 .. MaxProposals
    /\ \A id \in decided : Gone(id)

Forward == \A id : Gone(id) => Gone(id)'

(* What leaves the proposals and the card alone.                           *)
LEMMA CardsStill ==
    ASSUME MadeInv, CardInv, UNCHANGED <<proposals, madeOf, successor, deciding, decided>>
    PROVE  MadeInv' /\ CardInv' /\ Forward
BY DEF MadeInv, CardInv, Forward, Gone

LEMMA CardsKept ==
    ASSUME MadeInv, CardInv, UNCHANGED <<successor, deciding, decided>>, MadeInv', Forward
    PROVE  CardInv'
BY DEF CardInv, Forward

LEMMA CardsStart == CardsAreApart /\ Cards!Init => MadeInv /\ CardInv
<1> SUFFICES ASSUME CardsAreApart, Cards!Init PROVE MadeInv /\ CardInv
  OBVIOUS
<1>1. 1 \in 1 .. MaxProposals /\ "ready" # None
  BY DEF CardsAreApart, Cards!Statuses
<1>2. \A id \in 1 .. MaxProposals : proposals[id] # None <=> id <= 1
  BY <1>1 DEF Cards!Init, CardsAreApart
<1> QED
  BY <1>1, <1>2 DEF Cards!Init, MadeInv, CardInv

LEMMA ElsewhereKeeps ==
    ASSUME CardsAreApart, MadeInv, CardInv, Cards!Elsewhere
    PROVE  MadeInv' /\ CardInv' /\ Forward
<1>1. PICK id \in DOMAIN proposals :
          /\ proposals[id] \in Cards!Undecided
          /\ \/ /\ \E status \in {"stale", "expired", "merged"} :
                       proposals' = [proposals EXCEPT ![id] = status]
                /\ UNCHANGED madeOf
             \/ \E how \in {"ignore", "repropose"} : Cards!Decides(id, how)
  BY DEF Cards!Elsewhere
<1>2. MayGo(id) /\ UNCHANGED <<successor, deciding, decided>>
  BY <1>1 DEF MayGo, MadeInv, Cards!Elsewhere, Cards!cardVars
<1>3. CASE \E how \in {"ignore", "repropose"} : Cards!Decides(id, how)
  BY <1>2, <1>3, DecidesOnce, CardsKept DEF Ways, Forward
<1>4. ASSUME NEW status \in {"stale", "expired", "merged"}, UNCHANGED madeOf,
             proposals' = [proposals EXCEPT ![id] = status]
      PROVE  MadeInv' /\ Forward
  <2>1. status # None /\ proposals[id] # None
    BY <1>2 DEF CardsAreApart, Cards!Statuses, Cards!Undecided, MayGo
  <2>2. \A other \in 1 .. MaxProposals :
            proposals'[other] = IF other = id THEN status ELSE proposals[other]
    BY <1>4 DEF MadeInv
  <2>3. Forward
    BY <1>2, <2>2 DEF Forward, Gone, MayGo
  <2>4. /\ proposals' = [p \in 1 .. MaxProposals |-> proposals'[p]]
        /\ madeOf' = [p \in 1 .. MaxProposals |-> madeOf'[p]]
    BY <1>4 DEF MadeInv
  <2>5. \A other \in 1 .. MaxProposals : proposals'[other] # None <=> proposals[other] # None
    BY <2>1, <2>2
  <2>6. \A other \in 1 .. MaxProposals :
            madeOf'[other] = {} \/ (Gone(other)' /\ \E made : madeOf'[other] = {made})
    BY <1>4, <2>3 DEF MadeInv, Forward
  <2> QED
    BY <2>3, <2>4, <2>5, <2>6 DEF MadeInv
<1> QED
  BY <1>1, <1>2, <1>3, <1>4, CardsKept

LEMMA DecisionKeeps ==
    ASSUME CardsAreApart, MadeInv, CardInv, Cards!DecisionTaken
    PROVE  MadeInv' /\ CardInv' /\ Forward
<1>1. /\ deciding # None /\ UNCHANGED <<successor, decided>>
      /\ deciding = [how |-> deciding.how, id |-> deciding.id, answer |-> deciding.answer]
      /\ deciding.id \in 1 .. MaxProposals /\ deciding.how \in Ways
      /\ deciding.how = "confirm" => Kind = "fact"
  BY DEF CardInv, Cards!DecisionTaken
<1>2. CASE Cards!mayDecide(deciding.id, deciding.how)
  <2>1. PICK id, how : id = deciding.id /\ how = deciding.how
    OBVIOUS
  <2>2. MayGo(id) /\ how \in Ways
    BY <1>1, <1>2, <2>1 DEF Cards!mayDecide, MayGo, Cards!Undecided
  <2>3. /\ Cards!Decides(id, how)
        /\ deciding' = [deciding EXCEPT !.answer =
               IF how \in {"repropose", "rekind"} THEN Cards!made + 1 ELSE id]
    BY <1>2, <2>1 DEF Cards!DecisionTaken
  <2>4. /\ MadeInv' /\ Gone(id)' /\ \A other : Gone(other) => Gone(other)'
        /\ how \in {"repropose", "rekind"} => Cards!made + 1 \in 1 .. MaxProposals
    BY <2>2, <2>3, DecidesOnce
  <2>5. /\ deciding' = [how |-> how, id |-> id, answer |-> deciding'.answer]
        /\ deciding'.answer \in 1 .. MaxProposals
    BY <1>1, <2>1, <2>2, <2>3, <2>4 DEF MayGo
  <2>6. \A other \in decided' : Gone(other)'
    BY <1>1, <2>4 DEF CardInv
  <2>7. deciding'.how = how /\ deciding'.id = id /\ id \in 1 .. MaxProposals
    BY <1>1, <2>1, <2>5
  <2>8. successor' # None => successor' \in 1 .. MaxProposals
    BY <1>1 DEF CardInv
  <2> QED
    BY <1>1, <2>1, <2>2, <2>4, <2>5, <2>6, <2>7, <2>8 DEF CardInv, Forward
<1>3. CASE ~Cards!mayDecide(deciding.id, deciding.how)
  <2>1. deciding' = [deciding EXCEPT !.answer = Failed] /\ UNCHANGED <<proposals, madeOf>>
    BY <1>3 DEF Cards!DecisionTaken, Cards!serverVars
  <2>2. deciding' = [how |-> deciding.how, id |-> deciding.id, answer |-> Failed]
    BY <1>1, <2>1
  <2> QED
    BY <1>1, <2>1, <2>2 DEF CardInv, Forward, MadeInv, Gone, Given
<1> QED
  BY <1>2, <1>3

LEMMA CardsStep ==
    ASSUME CardsAreApart, MadeInv, CardInv, [Cards!Next]_Cards!vars
    PROVE  MadeInv' /\ CardInv' /\ Forward
<1>1. CASE Cards!Decide
  <2>1. PICK how \in Cards!Buttons : deciding' = [how |-> how, id |-> Cards!shown.id, answer |-> None]
    BY <1>1 DEF Cards!Decide
  <2>2. Cards!shown.id \in 1 .. MaxProposals
    BY DEF Cards!shown, Cards!successorRead, CardInv, CardsAreApart
  <2>3. how \in Ways /\ (how = "confirm" => Kind = "fact")
    BY DEF Cards!Buttons, Ways
  <2>4. UNCHANGED <<proposals, madeOf, successor, decided>>
    BY <1>1 DEF Cards!Decide, Cards!serverVars
  <2> QED
    BY <2>1, <2>2, <2>3, <2>4 DEF CardInv, MadeInv, Forward, Gone, Given
<1>2. CASE Cards!Decided
  <2>1. /\ deciding # None /\ deciding' = None /\ decided' = decided \cup {deciding.id}
        /\ Given(deciding.answer) /\ successor' \in {deciding.answer, successor}
        /\ UNCHANGED <<proposals, madeOf>>
    BY <1>2 DEF Cards!Decided, Given, Cards!serverVars
  <2> QED
    BY <2>1 DEF CardInv, MadeInv, Forward, Gone
<1>3. CASE Cards!DecisionRefused
  <2>1. deciding' = None /\ UNCHANGED <<proposals, madeOf, successor, decided>>
    BY <1>3 DEF Cards!DecisionRefused, Cards!serverVars
  <2> QED
    BY <2>1 DEF CardInv, MadeInv, Forward, Gone
<1>4. CASE Cards!Fetch \/ Cards!Answer \/ Cards!Land \/ Cards!ReadFails
  BY <1>4, CardsStill DEF Cards!Fetch, Cards!Answer, Cards!Land, Cards!ReadFails,
     Cards!serverVars, Cards!cardVars
<1>5. CASE Cards!TurnStarts \/ Cards!TurnEnds
  BY <1>5, CardsStill DEF Cards!TurnStarts, Cards!TurnEnds, Cards!serverVars, Cards!cardVars
<1>6. CASE Cards!FactDetail \/ Cards!CancelEdit \/ Cards!ClosePopover \/ Cards!FactEditor
           \/ Cards!Forget \/ Cards!FactWritten \/ Cards!ProfileAnswered \/ Cards!FactSaved
           \/ Cards!FactFailed
  BY <1>6, CardsStill DEF Cards!FactDetail, Cards!CancelEdit, Cards!ClosePopover,
     Cards!FactEditor, Cards!Forget, Cards!Sends, Cards!FactWritten, Cards!ProfileAnswered,
     Cards!FactSaved, Cards!FactFailed, Cards!serverVars, Cards!cardVars
<1>7. CASE UNCHANGED Cards!vars
  BY <1>7, CardsStill DEF Cards!vars, Cards!serverVars, Cards!cardVars
<1> QED
  BY <1>1, <1>2, <1>3, <1>4, <1>5, <1>6, <1>7, ElsewhereKeeps, DecisionKeeps DEF Cards!Next

CardsSpec == Cards!Init /\ [][Cards!Next]_Cards!vars

LEMMA CardsHold ==
    ASSUME CardsAreApart PROVE CardsSpec => [](MadeInv /\ CardInv)
<1>1. MadeInv /\ CardInv /\ [Cards!Next]_Cards!vars => (MadeInv /\ CardInv)'
  BY CardsStep
<1> QED
  BY <1>1, CardsStart, PTL DEF CardsSpec

(* A proposal gives way to one other at most, whoever decides it and from  *)
(* how many tabs (proposals.py, _ready: what gave way reads ignored).      *)
THEOREM SuccessorsAreOne == ASSUME CardsAreApart PROVE CardsSpec => []Cards!OneSuccessor
<1>1. MadeInv => Cards!OneSuccessor
  <2> SUFFICES ASSUME MadeInv, NEW id \in DOMAIN madeOf
               PROVE  Cards!Cardinality(madeOf[id]) <= 1
    BY DEF Cards!OneSuccessor
  <2>1. madeOf[id] = {} \/ \E new : madeOf[id] = {new}
    BY DEF MadeInv
  <2>2. CASE madeOf[id] = {}
    BY <2>2, FS_EmptySet, CountsAsOne
  <2>3. ASSUME NEW new, madeOf[id] = {new} PROVE Cards!Cardinality(madeOf[id]) <= 1
    <3>1. Cardinality({new}) = 1
      BY FS_Singleton
    <3> QED BY <2>3, <3>1, CountsAsOne
  <2> QED BY <2>1, <2>2, <2>3
<1> QED
  BY <1>1, CardsHold, PTL

-----------------------------------------------------------------------------
(* What the page reads of a proposal it decided never gives it back its    *)
(* buttons: every read under way when the answer lands is asked again, but *)
(* the one a turn keeps waiting.                                           *)
Over(status) == status \notin Cards!Undecided
Landing(query) == flight[query] \notin {None, Cards!Asked}
HasRead(query) == read[query] \notin {None, Failed}

(* The card of the thread, then the one that took its place.               *)
DrawnInv ==
    1 \in decided /\ ~crossed =>
        /\ HasRead("proposals") => Over(read["proposals"])
        /\ Landing("proposals") => Over(flight["proposals"][1])

SuccessorInv ==
    successor # None /\ successor \in decided =>
        /\ HasRead("successor") /\ read["successor"][1] = successor => Over(read["successor"][2])
        /\ Landing("successor") /\ flight["successor"][1][1] = successor
               => Over(flight["successor"][1][2])

(* A profile that was read is one of those stored so far: the newest of    *)
(* them is the fact.                                                       *)
Known(profile) ==
    /\ profile = [at |-> profile.at, held |-> profile.held]
    /\ profile.at \in Nat /\ profile.at <= fact.at
    /\ profile.at = fact.at => profile = fact

(* The last write of the fact has been read, is being answered or read     *)
(* back, or is one the page reads nothing after.                           *)
Confirmed == deciding # None /\ deciding.how = "confirm" /\ Given(deciding.answer)
Heard ==
    \/ newest = fact.at \/ fact.at \in unheard
    \/ (\E w \in writing : w.at = fact.at) \/ Confirmed
    \/ flight["profile"] = Cards!Asked
    \/ Landing("profile") /\ flight["profile"][1].at = fact.at
    \/ flight["profile"] = None /\ (read["profile"] = None \/ "profile" \in invalidated)

(* A write in flight is taken at a moment, and what it is answered was     *)
(* read no earlier.                                                        *)
WriteInv(w) ==
    /\ w = [id |-> w.id, how |-> w.how, from |-> w.from, at |-> w.at, answer |-> w.answer]
    /\ w.how \in {"put", "forget"} /\ w.at \in Nat /\ w.at <= fact.at
    /\ w.from = "lost" => w.at = 0
    /\ w.answer # None => w.at # 0 /\ Known(w.answer) /\ w.at <= w.answer.at

ChipInv ==
    /\ fact = [at |-> fact.at, held |-> fact.held] /\ fact.at \in Nat
    /\ newest \in Nat /\ newest <= fact.at
    /\ read["profile"] # None => Known(read["profile"])
    /\ Landing("profile") => Known(flight["profile"][1])
    /\ \A w \in writing : WriteInv(w)
    /\ editor \/ writing # {} => read["profile"] # None
    /\ fact.at # 0 => Heard

(* The shape of the cache.                                                 *)
CacheInv ==
    /\ read = [query \in Cards!Queries |-> read[query]]
    /\ flight = [query \in Cards!Queries |-> flight[query]]
PageReadInv == CacheInv /\ DrawnInv /\ SuccessorInv /\ ChipInv

LEMMA CacheStep ==
    ASSUME CacheInv, [Cards!Next]_Cards!vars PROVE CacheInv'
<1>1. UNCHANGED <<read, flight>> => CacheInv'
  BY DEF CacheInv
<1>2. CASE Cards!Fetch \/ Cards!Answer \/ Cards!Land \/ Cards!ReadFails
  BY <1>2 DEF CacheInv, Cards!Fetch, Cards!Answer, Cards!Land, Cards!ReadFails
<1>3. CASE Cards!Decided
  BY <1>3 DEF CacheInv, Cards!Decided, Cards!WrittenAtOnce
<1>4. CASE Cards!DecisionRefused \/ Cards!FactSaved \/ Cards!FactFailed
  BY <1>4 DEF CacheInv, Cards!DecisionRefused, Cards!FactSaved, Cards!FactFailed, Cards!Invalidate
<1>5. CASE Cards!Elsewhere \/ Cards!TurnStarts \/ Cards!TurnEnds \/ Cards!Decide
           \/ Cards!DecisionTaken \/ Cards!FactDetail \/ Cards!CancelEdit \/ Cards!ClosePopover
           \/ Cards!FactEditor \/ Cards!Forget \/ Cards!FactWritten \/ Cards!ProfileAnswered
           \/ UNCHANGED Cards!vars
  BY <1>1, <1>5 DEF Cards!Elsewhere, Cards!TurnStarts, Cards!TurnEnds, Cards!Decide,
     Cards!DecisionTaken, Cards!FactDetail, Cards!CancelEdit, Cards!ClosePopover,
     Cards!FactEditor, Cards!Forget, Cards!Sends, Cards!FactWritten, Cards!ProfileAnswered,
     Cards!cacheVars, Cards!vars
<1> QED
  BY <1>2, <1>3, <1>4, <1>5 DEF Cards!Next

(* A decision answered is written into what was read.                      *)
LEMMA DrawnStep ==
    ASSUME CardsAreApart, MadeInv, CardInv, PageReadInv, Cards!Decided
    PROVE  DrawnInv' /\ SuccessorInv'
<1>1. /\ deciding # None /\ deciding.answer \notin {None, Failed}
      /\ decided' = decided \cup {deciding.id}
      /\ successor' = IF Cards!again THEN deciding.answer ELSE successor
      /\ read' = IF Cards!again THEN [Cards!WrittenAtOnce EXCEPT !["successor"] = None]
                 ELSE Cards!WrittenAtOnce
      /\ flight' = [q \in Cards!Queries |->
             IF Cards!ReadBack(q) /\ ~(q = "proposals" /\ streams)
                /\ ~(q = "profile" /\ Cards!goesOn(q))
             THEN Cards!Asked ELSE flight[q]]
      /\ ~crossed' => ~crossed /\ ~(streams /\ flight["proposals"] # None)
  BY DEF Cards!Decided
<1>2. deciding.how \in Ways /\ deciding.id \in 1 .. MaxProposals
  BY <1>1 DEF CardInv
<1>3. Over(Cards!Outcome(deciding.how))
  BY <1>2 DEF Over, Cards!Outcome, Ways, Cards!Undecided
<1>4. DrawnInv'
  <2> SUFFICES ASSUME 1 \in decided', ~crossed'
               PROVE  /\ HasRead("proposals")' => Over(read'["proposals"])
                      /\ Landing("proposals")' => Over(flight'["proposals"][1])
    BY DEF DrawnInv, Over
  <2>1. Landing("proposals")' => FALSE
    BY <1>1 DEF Landing, Cards!ReadBack, Cards!Queries, Cards!Asked
  <2>2. read'["proposals"] = IF read["proposals"] \in {None, Failed} THEN read["proposals"]
                             ELSE Cards!Settled("proposals")
    BY <1>1 DEF Cards!WrittenAtOnce, Cards!Queries
  <2>3. Cards!Settled("proposals") =
            IF deciding.id = 1 THEN Cards!Outcome(deciding.how) ELSE read["proposals"]
    BY DEF Cards!Settled
  <2>4. deciding.id # 1 => 1 \in decided /\ ~crossed
    BY <1>1
  <2> QED
    BY <2>1, <2>2, <2>3, <2>4, <1>3 DEF HasRead, PageReadInv, DrawnInv
<1>5. SuccessorInv'
  <2> SUFFICES ASSUME successor' # None, successor' \in decided'
               PROVE  /\ HasRead("successor")' /\ read'["successor"][1] = successor'
                             => Over(read'["successor"][2])
                      /\ Landing("successor")' /\ flight'["successor"][1][1] = successor'
                             => Over(flight'["successor"][1][2])
    BY DEF SuccessorInv, Over
  <2>1. Landing("successor")' => FALSE
    BY <1>1 DEF Landing, Cards!ReadBack, Cards!Queries, Cards!Asked
  <2>2. CASE Cards!again
    BY <1>1, <2>1, <2>2 DEF HasRead, Cards!WrittenAtOnce, Cards!Queries
  <2>3. CASE ~Cards!again
    <3>1. read'["successor"] = IF read["successor"] \in {None, Failed} THEN read["successor"]
                               ELSE Cards!Settled("successor")
      BY <1>1, <2>3 DEF Cards!WrittenAtOnce, Cards!Queries
    <3>2. Cards!Settled("successor") =
              IF Cards!successorRead /\ deciding.id = successor
              THEN <<successor, Cards!Outcome(deciding.how)>> ELSE read["successor"]
      BY DEF Cards!Settled
    <3>3. successor' = successor
      BY <1>1, <2>3
    <3>4. CASE Cards!successorRead /\ deciding.id = successor
      BY <2>1, <3>1, <3>2, <3>4, <1>3 DEF HasRead
    <3>5. CASE Cards!successorRead /\ deciding.id # successor
      BY <1>1, <2>1, <3>1, <3>2, <3>3, <3>5 DEF HasRead, PageReadInv, SuccessorInv, Cards!successorRead
    <3>6. CASE ~Cards!successorRead
      BY <2>1, <3>1, <3>2, <3>3, <3>6 DEF HasRead, Cards!successorRead
    <3> QED BY <3>4, <3>5, <3>6
  <2> QED BY <2>2, <2>3
<1> QED BY <1>4, <1>5

(* A read asked again, or refused, shows nothing older.                    *)
LEMMA DrawnKept ==
    ASSUME CacheInv, DrawnInv, SuccessorInv, UNCHANGED <<successor, decided>>,
           crossed => crossed',
           \A query \in {"proposals", "successor"} :
               /\ read'[query] \in {read[query], None, Failed}
               /\ flight'[query] \in {flight[query], None, Cards!Asked}
    PROVE  DrawnInv' /\ SuccessorInv'
<1>1. /\ read'["proposals"] \in {read["proposals"], None, Failed}
      /\ flight'["proposals"] \in {flight["proposals"], None, Cards!Asked}
      /\ read'["successor"] \in {read["successor"], None, Failed}
      /\ flight'["successor"] \in {flight["successor"], None, Cards!Asked}
  OBVIOUS
<1>2. DrawnInv'
  BY <1>1 DEF DrawnInv, HasRead, Landing, Over
<1>3. SuccessorInv'
  BY <1>1 DEF SuccessorInv, HasRead, Landing, Over
<1> QED BY <1>2, <1>3

LEMMA ReadsStep ==
    ASSUME CardsAreApart, MadeInv, CardInv, PageReadInv, [Cards!Next]_Cards!vars
    PROVE  DrawnInv' /\ SuccessorInv'
<1>0. CacheInv /\ DrawnInv /\ SuccessorInv
  BY DEF PageReadInv
<1>1. CASE Cards!Decided
  BY <1>1, DrawnStep
<1>2. CASE UNCHANGED <<read, flight, crossed, successor, decided>>
  BY <1>0, <1>2, DrawnKept
<1>3. CASE Cards!Elsewhere \/ Cards!TurnStarts \/ Cards!TurnEnds \/ Cards!Decide
           \/ Cards!DecisionTaken \/ Cards!FactDetail \/ Cards!CancelEdit \/ Cards!ClosePopover
           \/ Cards!FactEditor \/ Cards!Forget \/ Cards!FactWritten \/ Cards!ProfileAnswered
           \/ UNCHANGED Cards!vars
  BY <1>2, <1>3 DEF Cards!Elsewhere, Cards!TurnStarts, Cards!TurnEnds, Cards!Decide,
     Cards!DecisionTaken, Cards!FactDetail, Cards!CancelEdit, Cards!ClosePopover,
     Cards!FactEditor, Cards!Forget, Cards!Sends, Cards!FactWritten, Cards!ProfileAnswered,
     Cards!cacheVars, Cards!cardVars, Cards!vars
<1>4. CASE Cards!Fetch \/ Cards!ReadFails
  <2>1. /\ UNCHANGED <<successor, decided, crossed>>
        /\ \A query \in Cards!Queries :
               /\ read'[query] \in {read[query], None, Failed}
               /\ flight'[query] \in {flight[query], None, Cards!Asked}
    BY <1>0, <1>4 DEF CacheInv, Cards!Fetch, Cards!ReadFails, Cards!cardVars
  <2> QED BY <1>0, <2>1, DrawnKept DEF Cards!Queries
<1>5. CASE Cards!DecisionRefused
  <2>1. /\ UNCHANGED <<successor, decided, crossed, read>>
        /\ \A query \in Cards!Queries : flight'[query] \in {flight[query], Cards!Asked}
    BY <1>5 DEF Cards!DecisionRefused, Cards!Invalidate
  <2> QED BY <1>0, <2>1, DrawnKept DEF Cards!Queries
<1>6. CASE Cards!FactSaved \/ Cards!FactFailed
  <2>1. /\ UNCHANGED <<successor, decided, crossed>>
        /\ \A query \in Cards!Queries :
               /\ query # "profile" => read'[query] = read[query]
               /\ flight'[query] \in {flight[query], Cards!Asked}
    BY <1>0, <1>6 DEF CacheInv, Cards!FactSaved, Cards!FactFailed, Cards!Invalidate, Cards!cardVars
  <2> QED BY <1>0, <2>1, DrawnKept DEF Cards!Queries
<1>7. CASE Cards!Land
  <2>1. PICK q \in Cards!Queries :
            /\ Landing(q) /\ UNCHANGED <<successor, decided, crossed>>
            /\ read' = [read EXCEPT ![q] = flight[q][1]]
            /\ flight' = [flight EXCEPT ![q] = None]
    BY <1>7 DEF Cards!Land, Cards!cardVars, Landing
  <2>2. /\ read'[q] = flight[q][1] /\ flight'[q] = None
        /\ \A query \in Cards!Queries \ {q} : read'[query] = read[query] /\ flight'[query] = flight[query]
    BY <1>0, <2>1 DEF CacheInv
  <2>3. DrawnInv'
    <3>1. CASE q = "proposals"
      BY <1>0, <2>1, <2>2, <3>1 DEF DrawnInv, HasRead, Landing, Over, Cards!Queries
    <3>2. CASE q # "proposals"
      BY <1>0, <2>1, <2>2, <3>2 DEF DrawnInv, HasRead, Landing, Over, Cards!Queries
    <3> QED BY <3>1, <3>2
  <2>4. SuccessorInv'
    <3>1. CASE q = "successor"
      BY <1>0, <2>1, <2>2, <3>1 DEF SuccessorInv, HasRead, Landing, Over, Cards!Queries
    <3>2. CASE q # "successor"
      BY <1>0, <2>1, <2>2, <3>2 DEF SuccessorInv, HasRead, Landing, Over, Cards!Queries
    <3> QED BY <3>1, <3>2
  <2> QED BY <2>3, <2>4
<1>8. CASE Cards!Answer
  <2>1. PICK q \in Cards!Queries :
            /\ UNCHANGED <<successor, decided, crossed, read>>
            /\ flight' = [flight EXCEPT ![q] = <<Cards!Source(q)>>]
    BY <1>8 DEF Cards!Answer, Cards!cardVars
  <2>2. /\ flight'[q] = <<Cards!Source(q)>>
        /\ \A query \in Cards!Queries \ {q} : flight'[query] = flight[query]
    BY <1>0, <2>1 DEF CacheInv
  <2>3. DrawnInv'
    <3>1. CASE q = "proposals"
      <4>1. flight'[q][1] = proposals[1] /\ (1 \in decided => Over(proposals[1]))
        BY <2>2, <3>1 DEF Cards!Source, CardInv, Gone, Over
      <4> QED BY <1>0, <2>1, <3>1, <4>1 DEF DrawnInv, HasRead, Landing, Over
    <3>2. CASE q # "proposals"
      BY <1>0, <2>1, <2>2, <3>2 DEF DrawnInv, HasRead, Landing, Over, Cards!Queries
    <3> QED BY <3>1, <3>2
  <2>4. SuccessorInv'
    <3>1. CASE q = "successor"
      <4>1. /\ flight'[q][1][2] = proposals[successor]
            /\ successor \in decided => Over(proposals[successor])
        BY <2>2, <3>1 DEF Cards!Source, CardInv, Gone, Over
      <4> QED BY <1>0, <2>1, <3>1, <4>1 DEF SuccessorInv, HasRead, Landing, Over
    <3>2. CASE q # "successor"
      BY <1>0, <2>1, <2>2, <3>2 DEF SuccessorInv, HasRead, Landing, Over, Cards!Queries
    <3> QED BY <3>1, <3>2
  <2> QED BY <2>3, <2>4
<1> QED
  BY <1>1, <1>3, <1>4, <1>5, <1>6, <1>7, <1>8 DEF Cards!Next

(* What the writes become when their detail closes is the same to the fact. *)
LEMMA WritesKept ==
    ASSUME NEW writes, NEW w \in Cards!Left(writes) \cup Cards!Gone(writes) \cup writes,
           \A other \in writes : WriteInv(other)
    PROVE  WriteInv(w) /\ \E other \in writes : w.at = other.at
<1>1. CASE w \in writes
  BY <1>1
<1>2. ASSUME NEW other \in writes, NEW from,
             other.from = "lost" \/ from # "lost",
             w = [other EXCEPT !.from = from]
      PROVE  WriteInv(w) /\ w.at = other.at
  <2>1. WriteInv(other)
    OBVIOUS
  <2>2. w = [id |-> other.id, how |-> other.how, from |-> from, at |-> other.at, answer |-> other.answer]
    BY <1>2, <2>1 DEF WriteInv
  <2>3. w.id = other.id /\ w.how = other.how /\ w.from = from /\ w.at = other.at /\ w.answer = other.answer
    BY <2>2
  <2> QED BY <1>2, <2>1, <2>2, <2>3 DEF WriteInv
<1>3. CASE w \in Cards!Left(writes)
  <2>1. PICK other \in writes : w = [other EXCEPT !.from = IF @ = "editor" THEN "detail" ELSE @]
    BY <1>3 DEF Cards!Left
  <2>2. PICK from : from = (IF other.from = "editor" THEN "detail" ELSE other.from)
    OBVIOUS
  <2>3. w = [other EXCEPT !.from = from]
    BY <2>1, <2>2
  <2>4. other.from = "lost" \/ from # "lost"
    BY <2>2
  <2> QED BY <1>2, <2>3, <2>4
<1>4. CASE w \in Cards!Gone(writes)
  <2>1. PICK other \in writes : w = [other EXCEPT !.from = IF @ = "lost" THEN @ ELSE "gone"]
    BY <1>4 DEF Cards!Gone
  <2>2. PICK from : from = (IF other.from = "lost" THEN other.from ELSE "gone")
    OBVIOUS
  <2>3. w = [other EXCEPT !.from = from]
    BY <2>1, <2>2
  <2>4. other.from = "lost" \/ from # "lost"
    BY <2>2
  <2> QED BY <1>2, <2>3, <2>4
<1> QED BY <1>1, <1>3, <1>4

LEMMA WritesStay ==
    ASSUME NEW writes, NEW w \in writes, WriteInv(w)
    PROVE  /\ \E other \in Cards!Left(writes) : other.at = w.at
           /\ \E other \in Cards!Gone(writes) : other.at = w.at
<1>1. w = [id |-> w.id, how |-> w.how, from |-> w.from, at |-> w.at, answer |-> w.answer]
  BY DEF WriteInv
<1>2. \A from : [w EXCEPT !.from = from].at = w.at
  BY <1>1
<1>3. [w EXCEPT !.from = IF @ = "editor" THEN "detail" ELSE @] \in Cards!Left(writes)
  BY DEF Cards!Left
<1>4. [w EXCEPT !.from = IF @ = "lost" THEN @ ELSE "gone"] \in Cards!Gone(writes)
  BY DEF Cards!Gone
<1> QED
  BY <1>2, <1>3, <1>4

LEMMA WriteStands ==
    ASSUME UNCHANGED fact, NEW w, WriteInv(w) PROVE WriteInv(w)'
<1>1. \A profile : Known(profile) => Known(profile)'
  BY DEF Known
<1>2. w.answer # None => Known(w.answer)'
  BY <1>1 DEF WriteInv
<1> QED
  BY <1>2 DEF WriteInv

(* What leaves the fact, the reads of the profile and the decision alone:  *)
(* the writes may move, one may come, those stored may be answered.        *)
LEMMA ChipKept ==
    ASSUME ChipInv, UNCHANGED <<fact, newest>>,
           read'["profile"] = read["profile"], flight'["profile"] = flight["profile"],
           unheard \subseteq unheard',
           "profile" \in invalidated => "profile" \in invalidated',
           Confirmed => Confirmed',
           \A w \in writing' : WriteInv(w),
           \A w \in writing : w.at # 0 => \E other \in writing' : other.at = w.at,
           editor' \/ writing' # {} => read["profile"] # None
    PROVE  ChipInv'
<1>1. \A w \in writing' : WriteInv(w)'
  BY WriteStands
<1>2. fact.at # 0 /\ (\E w \in writing : w.at = fact.at) => \E w \in writing' : w.at = fact.at
  OBVIOUS
<1>3. fact.at # 0 /\ Heard => Heard'
  BY <1>2 DEF Heard, Landing
<1> QED
  BY <1>1, <1>3 DEF ChipInv, Known, Landing

(* What reads the profile again, after a write or a decision.              *)
LEMMA ChipReread ==
    ASSUME CardsAreApart, ChipInv, UNCHANGED <<fact, newest, editor>>,
           read'["profile"] = read["profile"],
           flight'["profile"] = IF Cards!goesOn("profile") THEN flight["profile"] ELSE Cards!Asked,
           unheard' = IF Cards!firstIsOlder THEN unheard \cup {fact.at} ELSE unheard,
           writing' \subseteq writing
    PROVE  ChipInv'
<1>1. \A w \in writing' : WriteInv(w)'
  BY WriteStands DEF ChipInv
<1>2. Landing("profile")' => Landing("profile") /\ flight'["profile"] = flight["profile"]
  BY DEF Landing
<1>3. Heard'
  BY DEF Heard, Landing, Cards!goesOn, Cards!firstIsOlder
<1> QED
  BY <1>1, <1>2, <1>3 DEF ChipInv, Known

LEMMA ReadsKeepChips ==
    ASSUME CardsAreApart, CacheInv, ChipInv, Cards!Fetch \/ Cards!Answer \/ Cards!ReadFails
    PROVE  ChipInv'
<1>1. UNCHANGED <<fact, newest, unheard, editor, writing, deciding>>
  BY DEF Cards!Fetch, Cards!Answer, Cards!ReadFails, Cards!serverVars, Cards!cardVars, Cards!chipVars
<1>2. Cards!Asked # None
  BY DEF CardsAreApart, Cards!Asked
<1>3. read'["profile"] = read["profile"] /\ \A w \in writing' : WriteInv(w)'
  BY <1>1 DEF CacheInv, Cards!Fetch, Cards!Answer, Cards!ReadFails, Cards!Queries, ChipInv, WriteInv, Known
<1>4. CASE Cards!Fetch
  <2>1. PICK q \in Cards!Queries :
            /\ flight[q] = None /\ flight' = [flight EXCEPT ![q] = Cards!Asked]
            /\ invalidated' = invalidated \ {q}
    BY <1>4 DEF Cards!Fetch
  <2>2. CASE q = "profile"
    <3>1. flight'["profile"] = Cards!Asked
      BY <2>1, <2>2 DEF CacheInv, Cards!Queries
    <3> QED BY <1>1, <1>3, <3>1 DEF ChipInv, Heard, Landing, Known
  <2>3. CASE q # "profile"
    <3>1. flight'["profile"] = flight["profile"] /\ ("profile" \in invalidated => "profile" \in invalidated')
      BY <2>1, <2>3 DEF CacheInv, Cards!Queries
    <3> QED BY <1>1, <1>3, <3>1 DEF ChipInv, Heard, Confirmed, Landing, Known
  <2> QED BY <2>2, <2>3
<1>5. CASE Cards!Answer
  <2>1. PICK q \in Cards!Queries :
            /\ flight[q] = Cards!Asked /\ flight' = [flight EXCEPT ![q] = <<Cards!Source(q)>>]
            /\ UNCHANGED invalidated
    BY <1>5 DEF Cards!Answer
  <2>2. CASE q = "profile"
    <3>1. flight'["profile"] = <<fact>> /\ <<fact>> # None /\ <<fact>> # Cards!Asked
      BY <2>1, <2>2 DEF CacheInv, Cards!Source, Cards!Queries, CardsAreApart, Cards!Asked
    <3> QED BY <1>1, <1>2, <1>3, <3>1 DEF ChipInv, Heard, Landing, Known
  <2>3. CASE q # "profile"
    <3>1. flight'["profile"] = flight["profile"]
      BY <2>1, <2>3 DEF CacheInv, Cards!Queries
    <3> QED BY <1>1, <1>3, <2>1, <3>1 DEF ChipInv, Heard, Confirmed, Landing, Known
  <2> QED BY <2>2, <2>3
<1>6. CASE Cards!ReadFails
  <2>1. PICK q \in Cards!Queries :
            /\ flight[q] # None /\ flight' = [flight EXCEPT ![q] = None]
            /\ invalidated' = IF q = "profile" THEN invalidated \cup {q} ELSE invalidated
    BY <1>6 DEF Cards!ReadFails
  <2>2. CASE q = "profile"
    <3>1. flight'["profile"] = None /\ "profile" \in invalidated'
      BY <2>1, <2>2 DEF CacheInv, Cards!Queries
    <3> QED BY <1>1, <1>3, <3>1 DEF ChipInv, Heard, Landing, Known
  <2>3. CASE q # "profile"
    <3>1. flight'["profile"] = flight["profile"] /\ UNCHANGED invalidated
      BY <2>1, <2>3 DEF CacheInv, Cards!Queries
    <3> QED BY <1>1, <1>3, <3>1 DEF ChipInv, Heard, Confirmed, Landing, Known
  <2> QED BY <2>2, <2>3
<1> QED
  BY <1>4, <1>5, <1>6

(* A profile that lands is the newest the page has held, or an older one.  *)
LEMMA LandKeepsChips ==
    ASSUME CardsAreApart, CacheInv, ChipInv, Cards!Land PROVE ChipInv'
<1>1. PICK q \in Cards!Queries :
          /\ Landing(q) /\ UNCHANGED <<fact, unheard, deciding>>
          /\ read' = [read EXCEPT ![q] = flight[q][1]]
          /\ flight' = [flight EXCEPT ![q] = None] /\ invalidated' = invalidated \ {q}
          /\ IF q = "profile" THEN Cards!Draws(flight[q][1]) ELSE UNCHANGED <<newest, editor, writing>>
  BY DEF Cards!Land, Landing, Cards!serverVars, Cards!cardVars
<1>2. CASE q # "profile"
  <2>1. /\ read'["profile"] = read["profile"] /\ flight'["profile"] = flight["profile"]
        /\ "profile" \in invalidated => "profile" \in invalidated'
        /\ UNCHANGED <<newest, editor, writing>>
    BY <1>1, <1>2 DEF CacheInv, Cards!Queries
  <2> QED BY <1>1, <2>1, ChipKept DEF ChipInv, Confirmed
<1>3. CASE q = "profile"
  <2> DEFINE landed == flight["profile"][1]
  <2>1. /\ Known(landed) /\ read'["profile"] = landed /\ flight'["profile"] = None
        /\ newest' = Cards!Newer(landed.at)
        /\ writing' \in {writing, Cards!Gone(writing)}
    BY <1>1, <1>3 DEF CacheInv, ChipInv, Cards!Draws, Cards!Queries
  <2>2. /\ newest' \in Nat /\ newest' <= fact.at /\ newest' >= newest /\ newest' >= landed.at
    BY <2>1 DEF Cards!Newer, ChipInv, Known
  <2>3. landed # None
    BY <2>1 DEF Known, CardsAreApart
  <2>4. \A w \in writing' : WriteInv(w)'
    <3>1. \A w \in writing' : WriteInv(w)
      BY <2>1, WritesKept DEF ChipInv
    <3> QED BY <1>1, <3>1, WriteStands
  <2>5. (\E w \in writing : w.at = fact.at) => \E w \in writing' : w.at = fact.at
    BY <2>1, WritesStay DEF ChipInv
  <2>6. Heard => Heard'
    <3>1. flight["profile"] # None /\ flight["profile"] # Cards!Asked
      BY <1>1, <1>3 DEF Landing
    <3>2. newest = fact.at \/ landed.at = fact.at => newest' = fact'.at
      BY <1>1, <2>1, <2>2 DEF ChipInv, Known
    <3> QED BY <1>1, <2>5, <3>1, <3>2 DEF Heard, Confirmed, Landing
  <2>7. fact' = fact
    BY <1>1
  <2>8. ~Landing("profile")'
    BY <2>1 DEF Landing
  <2>9. read'["profile"] # None /\ Known(read["profile"])'
    BY <1>1, <2>1, <2>3 DEF Known
  <2> QED BY <2>2, <2>4, <2>6, <2>7, <2>8, <2>9 DEF ChipInv
<1> QED
  BY <1>2, <1>3

(* A save whose answer lands is drawn; a write that failed is drawn or     *)
(* not, a removal read back.                                               *)
LEMMA SavedKeepsChips ==
    ASSUME CardsAreApart, CacheInv, ChipInv, Cards!FactSaved PROVE ChipInv'
<1>1. PICK w \in writing :
          /\ w.at # 0
          /\ IF w.how = "put"
             THEN /\ w.answer # None
                  /\ read' = [read EXCEPT !["profile"] = w.answer]
                  /\ invalidated' = invalidated \ {"profile"}
                  /\ newest' = Cards!Newer(read'["profile"].at)
                  /\ writing' \in {Cards!Gone(writing \ {w}), Cards!Left(writing \ {w}), writing \ {w}}
                  /\ unheard' = IF "profile" \in invalidated /\ w.answer # fact
                                THEN unheard \cup {fact.at} ELSE unheard
                  /\ UNCHANGED flight
             ELSE /\ writing' = writing \ {w}
                  /\ Cards!Invalidate({"profile"})
                  /\ UNCHANGED <<read, newest, unheard, editor>>
  BY DEF Cards!FactSaved
<1>2. UNCHANGED <<fact, deciding>> /\ WriteInv(w)
  BY DEF Cards!FactSaved, Cards!serverVars, Cards!cardVars, ChipInv
<1>3. CASE w.how = "put"
  <2>1. /\ Known(w.answer) /\ w.at <= w.answer.at /\ w.answer.at \in Nat /\ w.answer # None
        /\ read'["profile"] = w.answer
    BY <1>1, <1>2, <1>3 DEF WriteInv, Known, CacheInv, Cards!Queries
  <2>2. /\ newest' \in Nat /\ newest' <= fact.at /\ newest' >= newest /\ newest' >= w.answer.at
    BY <1>1, <1>3, <2>1 DEF Cards!Newer, ChipInv, Known
  <2>3. /\ \A other \in writing' : WriteInv(other)
        /\ \A other \in writing \ {w} : \E next \in writing' : next.at = other.at
    BY <1>1, <1>3, WritesKept, WritesStay DEF ChipInv
  <2>4. \A other \in writing' : WriteInv(other)'
    BY <1>2, <2>3, WriteStands
  <2>5. fact.at # 0 /\ Heard => Heard'
    <3>1. w.at = fact.at \/ newest = fact.at \/ w.answer = fact => newest' = fact'.at
      BY <1>2, <2>1, <2>2 DEF ChipInv, WriteInv, Known
    <3>2. (\E other \in writing : other.at = fact.at) =>
              newest' = fact'.at \/ \E other \in writing' : other.at = fact'.at
      BY <1>2, <2>3, <3>1
    <3>3. "profile" \in invalidated => newest' = fact'.at \/ fact'.at \in unheard'
      BY <1>1, <1>2, <1>3, <3>1
    <3>4. read["profile"] # None /\ unheard \subseteq unheard'
      BY <1>1, <1>3 DEF ChipInv
    <3> QED BY <1>1, <1>2, <1>3, <3>1, <3>2, <3>3, <3>4 DEF Heard, Confirmed, Landing
  <2>6. /\ Known(read["profile"])'
        /\ Landing("profile")' => Known(flight["profile"][1])'
    BY <1>1, <1>2, <1>3, <2>1 DEF ChipInv, Known, Landing
  <2> QED BY <1>2, <2>1, <2>2, <2>4, <2>5, <2>6 DEF ChipInv
<1>4. CASE w.how # "put"
  <2>1. /\ read["profile"] # None /\ UNCHANGED <<read, newest, unheard, editor>>
        /\ writing' \subseteq writing
    BY <1>1, <1>4 DEF ChipInv
  <2>2. flight'["profile"] = Cards!Asked /\ ~Cards!goesOn("profile") /\ ~Cards!firstIsOlder
    BY <1>1, <1>4, <2>1 DEF Cards!Invalidate, Cards!enabled, Cards!Queries, Cards!goesOn, Cards!firstIsOlder
  <2> QED BY <1>2, <2>1, <2>2, ChipReread
<1> QED
  BY <1>3, <1>4

LEMMA FailedKeepsChips ==
    ASSUME CardsAreApart, CacheInv, ChipInv, Cards!FactFailed PROVE ChipInv'
<1>1. PICK w \in writing :
          /\ \/ writing' = writing \ {w}
             \/ w.at = 0 /\ Cards!Becomes(w, [w EXCEPT !.from = "lost"])
          /\ unheard' = IF w.how = "put" /\ w.at # 0 THEN unheard \cup {w.at} ELSE unheard
          /\ IF w.how = "forget" THEN Cards!Invalidate({"profile"}) ELSE UNCHANGED <<flight, invalidated>>
  BY DEF Cards!FactFailed
<1>2. /\ UNCHANGED <<fact, deciding, read, newest, editor>> /\ WriteInv(w)
      /\ read["profile"] # None
  BY <1>1 DEF Cards!FactFailed, Cards!serverVars, Cards!cardVars, ChipInv
<1>3. \A other \in writing' : WriteInv(other)
  <2>1. CASE writing' = writing \ {w}
    BY <2>1 DEF ChipInv
  <2>2. CASE w.at = 0 /\ Cards!Becomes(w, [w EXCEPT !.from = "lost"])
    <3> DEFINE lost == [w EXCEPT !.from = "lost"]
    <3>1. lost = [id |-> w.id, how |-> w.how, from |-> "lost", at |-> w.at, answer |-> w.answer]
      BY <1>2 DEF WriteInv
    <3>2. lost.id = w.id /\ lost.how = w.how /\ lost.from = "lost" /\ lost.at = w.at /\ lost.answer = w.answer
      BY <3>1
    <3> HIDE DEF lost
    <3>3. WriteInv(lost)
      BY <1>2, <2>2, <3>1, <3>2 DEF WriteInv
    <3> QED BY <2>2, <3>3 DEF Cards!Becomes, ChipInv, lost
  <2> QED BY <1>1, <2>1, <2>2
<1>4. \A other \in writing' : WriteInv(other)'
  BY <1>2, <1>3, WriteStands
<1>5. \A other \in writing : other # w => other \in writing'
  BY <1>1 DEF Cards!Becomes
<1>6. flight'["profile"] = (IF w.how = "forget" THEN Cards!Asked ELSE flight["profile"])
  BY <1>1, <1>2 DEF Cards!Invalidate, Cards!enabled, Cards!Queries, Cards!goesOn
<1>7. fact.at # 0 /\ Heard => Heard'
  <2>1. CASE w.how = "forget"
    BY <1>6, <2>1 DEF Heard
  <2>2. CASE w.how # "forget"
    <3>1. unheard \subseteq unheard' /\ UNCHANGED invalidated
      BY <1>1, <2>2
    <3>2. fact.at # 0 /\ w.at = fact.at => fact.at \in unheard' \/ w.how # "put"
      BY <1>1
    <3>3. w.how = "put"
      BY <1>2, <2>2 DEF WriteInv
    <3> QED BY <1>2, <1>5, <1>6, <2>2, <3>1, <3>2, <3>3 DEF Heard, Confirmed, Landing
  <2> QED BY <2>1, <2>2
<1>8. Landing("profile")' => Landing("profile") /\ flight'["profile"] = flight["profile"]
  BY <1>6 DEF Landing
<1> QED
  BY <1>2, <1>4, <1>7, <1>8 DEF ChipInv, Known

(* A write of the fact is the newest there is.                             *)
LEMMA WrittenIsNew ==
    ASSUME ChipInv, NEW how, fact' = Cards!written(how)
    PROVE  /\ fact' = [at |-> fact'.at, held |-> fact'.held]
           /\ fact'.at \in Nat /\ fact'.at = fact.at + 1
           /\ \A profile : Known(profile) => Known(profile)'
           /\ \A w : WriteInv(w) => WriteInv(w)'
<1>1. /\ fact' = [at |-> fact.at + 1, held |-> how = "put"]
      /\ fact.at \in Nat
  BY DEF Cards!written, ChipInv
<1>2. fact'.at = fact.at + 1 /\ fact' = [at |-> fact'.at, held |-> fact'.held]
  BY <1>1
<1>3. ASSUME NEW profile, Known(profile) PROVE Known(profile)'
  BY <1>1, <1>2, <1>3 DEF Known
<1>4. ASSUME NEW w, WriteInv(w) PROVE WriteInv(w)'
  <2>1. w.answer # None => Known(w.answer)'
    BY <1>3, <1>4 DEF WriteInv
  <2> QED BY <1>1, <1>2, <1>4, <2>1 DEF WriteInv
<1> QED
  BY <1>1, <1>2, <1>3, <1>4

LEMMA WrittenKeepsChips ==
    ASSUME CardsAreApart, CacheInv, ChipInv, Cards!FactWritten PROVE ChipInv'
<1>1. PICK w \in writing :
          /\ w.at = 0 /\ fact' = Cards!written(w.how)
          /\ IF w.from = "lost"
             THEN writing' = writing \ {w} /\ unheard' = unheard \cup {fact'.at}
             ELSE Cards!Becomes(w, [w EXCEPT !.at = fact'.at]) /\ UNCHANGED unheard
  BY DEF Cards!FactWritten
<1>2. UNCHANGED <<read, flight, newest, editor>> /\ WriteInv(w) /\ read["profile"] # None
  BY <1>1 DEF Cards!FactWritten, ChipInv
<1>3. /\ fact' = [at |-> fact'.at, held |-> fact'.held]
      /\ fact'.at \in Nat /\ fact'.at = fact.at + 1
      /\ \A profile : Known(profile) => Known(profile)'
      /\ \A other : WriteInv(other) => WriteInv(other)'
  BY <1>1, WrittenIsNew
<1>4. /\ \A other \in writing' : WriteInv(other)'
      /\ Heard'
  <2>1. CASE w.from = "lost"
    BY <1>1, <1>3, <2>1 DEF ChipInv, Heard
  <2>2. CASE w.from # "lost"
    <3> DEFINE stored == [w EXCEPT !.at = fact'.at]
    <3>1. stored = [id |-> w.id, how |-> w.how, from |-> w.from, at |-> fact'.at, answer |-> w.answer]
      BY <1>2 DEF WriteInv
    <3>2. stored.id = w.id /\ stored.how = w.how /\ stored.from = w.from /\ stored.at = fact'.at
          /\ stored.answer = w.answer
      BY <3>1
    <3>3. w.answer = None
      BY <1>1, <1>2 DEF WriteInv
    <3>4. writing' = (writing \ {w}) \cup {stored}
      BY <1>1, <2>2 DEF Cards!Becomes
    <3> HIDE DEF stored
    <3>5. PICK write : write = stored
      OBVIOUS
    <3>6. WriteInv(write)'
      BY <1>2, <1>3, <2>2, <3>1, <3>2, <3>3, <3>5 DEF WriteInv
    <3>7. Heard'
      BY <3>2, <3>4 DEF Heard
    <3> QED BY <1>3, <3>4, <3>5, <3>6, <3>7 DEF ChipInv
  <2> QED BY <2>1, <2>2
<1>5. newest' \in Nat /\ newest' <= fact'.at
  BY <1>2, <1>3 DEF ChipInv
<1>6. /\ Known(read["profile"])'
      /\ Landing("profile")' => Known(flight["profile"][1])'
  BY <1>2, <1>3 DEF ChipInv, Landing
<1> QED
  BY <1>2, <1>3, <1>4, <1>5, <1>6 DEF ChipInv

LEMMA ChipStep ==
    ASSUME CardsAreApart, MadeInv, CardInv, PageReadInv, [Cards!Next]_Cards!vars
    PROVE  ChipInv'
<1>0. CacheInv /\ ChipInv /\ \A w \in writing : WriteInv(w)
  BY DEF PageReadInv, ChipInv
<1>1. CASE Cards!Elsewhere \/ Cards!TurnStarts \/ Cards!TurnEnds \/ UNCHANGED Cards!vars
  <2>1. UNCHANGED <<fact, read, flight, invalidated, newest, unheard, editor, writing, deciding>>
    BY <1>1 DEF Cards!Elsewhere, Cards!TurnStarts, Cards!TurnEnds, Cards!serverVars,
       Cards!cacheVars, Cards!cardVars, Cards!chipVars, Cards!vars
  <2> QED BY <1>0, <2>1, ChipKept DEF ChipInv, Confirmed
<1>2. CASE Cards!Decide
  <2>1. /\ UNCHANGED <<fact, read, flight, invalidated, newest, unheard, editor, writing>>
        /\ deciding = None
    BY <1>2 DEF Cards!Decide, Cards!serverVars, Cards!cacheVars, Cards!chipVars
  <2> QED BY <1>0, <2>1, ChipKept DEF ChipInv, Confirmed
<1>3. CASE Cards!FactDetail \/ Cards!CancelEdit \/ Cards!ClosePopover
  <2>1. /\ UNCHANGED <<fact, read, flight, invalidated, newest, unheard, deciding>>
        /\ writing' \in {writing, Cards!Left(writing), Cards!Gone(writing)}
    BY <1>3 DEF Cards!FactDetail, Cards!CancelEdit, Cards!ClosePopover, Cards!serverVars,
       Cards!cacheVars, Cards!cardVars
  <2>2. \A w \in writing' : WriteInv(w) /\ writing # {}
    BY <1>0, <2>1, WritesKept
  <2>3. \A w \in writing : \E other \in writing' : other.at = w.at
    BY <1>0, <2>1, WritesStay
  <2>4. editor' \/ writing' # {} => read["profile"] # None
    <3>1. editor' => read["profile"] # None
      BY <1>0, <1>3 DEF Cards!FactDetail, Cards!CancelEdit, Cards!ClosePopover, Cards!ProfileChips
    <3> QED BY <1>0, <2>2, <3>1 DEF ChipInv
  <2> QED BY <1>0, <2>1, <2>2, <2>3, <2>4, ChipKept DEF Confirmed
<1>4. CASE Cards!FactEditor \/ Cards!Forget
  <2>1. PICK how \in {"put", "forget"}, from \in {"editor", "detail"} :
            Cards!Sends(how, from) /\ read["profile"] # None
    BY <1>0, <1>4 DEF Cards!FactEditor, Cards!Forget, Cards!ProfileChips, ChipInv
  <2> DEFINE sent == [id |-> saves', how |-> how, from |-> from, at |-> 0, answer |-> None]
  <2>2. /\ UNCHANGED <<fact, read, flight, invalidated, newest, unheard, deciding, editor>>
        /\ writing' = writing \cup {sent}
    BY <2>1 DEF Cards!Sends, Cards!serverVars, Cards!cacheVars, Cards!cardVars
  <2>3. WriteInv(sent)
    BY <1>0 DEF WriteInv, ChipInv
  <2> QED BY <1>0, <2>1, <2>2, <2>3, ChipKept DEF Confirmed
<1>5. CASE Cards!ProfileAnswered
  <2>1. PICK w \in writing :
            /\ w.how = "put" /\ w.at # 0 /\ Cards!Becomes(w, [w EXCEPT !.answer = fact])
            /\ UNCHANGED <<fact, read, flight, invalidated, newest, unheard, deciding, editor>>
    BY <1>5 DEF Cards!ProfileAnswered, Cards!serverVars, Cards!cacheVars, Cards!cardVars
  <2> DEFINE answered == [w EXCEPT !.answer = fact]
  <2>2. WriteInv(w)
    BY <1>0
  <2>3. answered = [id |-> w.id, how |-> w.how, from |-> w.from, at |-> w.at, answer |-> fact]
    BY <2>2 DEF WriteInv
  <2>4. /\ answered.id = w.id /\ answered.how = w.how /\ answered.from = w.from
        /\ answered.at = w.at /\ answered.answer = fact
    BY <2>3
  <2> HIDE DEF answered
  <2>5. Known(fact)
    BY <1>0 DEF ChipInv, Known
  <2>6. WriteInv(answered)
    BY <1>0, <2>1, <2>2, <2>3, <2>4, <2>5 DEF WriteInv, ChipInv
  <2>7. writing' = (writing \ {w}) \cup {answered}
    BY <2>1 DEF Cards!Becomes, answered
  <2>8. read["profile"] # None
    BY <1>0, <2>1 DEF ChipInv
  <2> QED BY <1>0, <2>1, <2>4, <2>6, <2>7, <2>8, ChipKept DEF Confirmed
<1>6. CASE Cards!DecisionTaken
  <2>1. /\ deciding # None /\ deciding.answer = None
        /\ deciding = [how |-> deciding.how, id |-> deciding.id, answer |-> deciding.answer]
        /\ deciding.id \in 1 .. MaxProposals
        /\ UNCHANGED <<read, flight, invalidated, newest, unheard, editor, writing>>
    BY <1>6 DEF Cards!DecisionTaken, Cards!cacheVars, Cards!chipVars, CardInv
  <2>2. CASE fact' = fact
    BY <1>0, <2>1, <2>2, ChipKept DEF Confirmed, Given, ChipInv
  <2>3. CASE fact' # fact
    <3>1. /\ deciding.how = "confirm" /\ fact' = Cards!written("put")
          /\ deciding' = [deciding EXCEPT !.answer = deciding.id]
      BY <1>6, <2>3 DEF Cards!DecisionTaken, Cards!serverVars
    <3>2. deciding' = [how |-> "confirm", id |-> deciding.id, answer |-> deciding.id]
      BY <2>1, <3>1
    <3>3. Confirmed'
      BY <2>1, <3>2 DEF Confirmed, Given, CardsAreApart
    <3>4. /\ fact' = [at |-> fact'.at, held |-> fact'.held]
          /\ fact'.at \in Nat /\ fact'.at = fact.at + 1
          /\ \A profile : Known(profile) => Known(profile)'
          /\ \A w : WriteInv(w) => WriteInv(w)'
      BY <1>0, <3>1, WrittenIsNew
    <3> QED BY <1>0, <2>1, <3>3, <3>4 DEF ChipInv, Heard, Landing
  <2> QED BY <2>2, <2>3
<1>7. CASE Cards!Decided \/ Cards!DecisionRefused
  <2>1. /\ UNCHANGED <<fact, newest, editor, writing>> /\ deciding # None
        /\ unheard' = IF Cards!firstIsOlder THEN unheard \cup {fact.at} ELSE unheard
        /\ read'["profile"] = read["profile"]
    <3>1. CASE Cards!Decided
      BY <3>1 DEF Cards!Decided, Cards!serverVars, Cards!chipVars, Cards!WrittenAtOnce,
         Cards!Settled, Cards!Queries
    <3>2. CASE Cards!DecisionRefused
      BY <3>2 DEF Cards!DecisionRefused, Cards!serverVars, Cards!chipVars
    <3> QED BY <1>7, <3>1, <3>2
  <2>2. CASE Kind = "fact"
    <3>1. flight'["profile"] = IF Cards!goesOn("profile") THEN flight["profile"] ELSE Cards!Asked
      BY <1>7, <2>2 DEF Cards!Decided, Cards!DecisionRefused, Cards!Invalidate, Cards!enabled,
         Cards!ReadBack, Cards!Queries
    <3> QED BY <1>0, <2>1, <3>1, ChipReread
  <2>3. CASE Kind # "fact"
    <3>1. /\ flight'["profile"] = flight["profile"] /\ ~Confirmed
          /\ "profile" \in invalidated => "profile" \in invalidated'
      BY <1>7, <2>3 DEF Cards!Decided, Cards!DecisionRefused, Cards!Invalidate, Cards!enabled,
         Cards!ReadBack, Cards!Queries, Confirmed, CardInv
    <3> QED BY <1>0, <2>1, <3>1, ChipKept DEF ChipInv
  <2> QED BY <2>2, <2>3
<1> QED
  BY <1>0, <1>1, <1>2, <1>3, <1>4, <1>5, <1>6, <1>7, ReadsKeepChips, LandKeepsChips,
     WrittenKeepsChips, SavedKeepsChips, FailedKeepsChips DEF Cards!Next

LEMMA PageReadHolds ==
    ASSUME CardsAreApart PROVE CardsSpec => [](CardInv /\ PageReadInv)
<1>1. Cards!Init => PageReadInv
  BY DEF Cards!Init, PageReadInv, CacheInv, DrawnInv, SuccessorInv, ChipInv, HasRead, Landing,
     Cards!Queries
<1>2. MadeInv /\ CardInv /\ PageReadInv /\ [Cards!Next]_Cards!vars => PageReadInv'
  BY CacheStep, ReadsStep, ChipStep DEF PageReadInv
<1> QED
  BY <1>1, <1>2, CardsHold, PTL DEF CardsSpec

(* A proposal answered here never has its buttons again, whatever was read *)
(* before, while a turn streams and after (AgentChat.tsx, EventsCard).     *)
THEOREM DecidedStaysDecided ==
    ASSUME CardsAreApart PROVE CardsSpec => []Cards!DecidedHasNoButtons
<1>1. PageReadInv => Cards!DecidedHasNoButtons
  BY DEF PageReadInv, DrawnInv, SuccessorInv, HasRead, Over, Cards!DecidedHasNoButtons,
     Cards!drawn, Cards!shown, Cards!successorRead, Cards!framed
<1> QED
  BY <1>1, PageReadHolds, PTL

(* A chip at rest is the stored fact, whatever of saves, removals and      *)
(* confirmations crossed, were refused or were lost on the way, but where  *)
(* an answer landed over a newer one and where the page read nothing after *)
(* the last write (AgentProfile.tsx, FactDetail, FactEditor, FactCard).    *)
THEOREM ChipsAreTheFacts == ASSUME CardsAreApart PROVE CardsSpec => []Cards!ChipIsTheFact
<1>1. PageReadInv => Cards!ChipIsTheFact
  <2> SUFFICES ASSUME ChipInv, Cards!Quiet, read["profile"] # None,
                      read["profile"].at = newest, fact.at \notin unheard
               PROVE  read["profile"] = fact
    BY DEF PageReadInv, Cards!ChipIsTheFact
  <2>1. flight["profile"] = None /\ "profile" \notin invalidated /\ writing = {} /\ deciding = None
    BY DEF Cards!Quiet
  <2>2. Heard => newest = fact.at
    BY <2>1 DEF Heard, Confirmed, Landing, CardsAreApart, Cards!Asked
  <2>3. newest = fact.at
    BY <2>2 DEF ChipInv
  <2> QED
    BY <2>3 DEF ChipInv, Known
<1> QED
  BY <1>1, PageReadHolds, PTL
=============================================================================

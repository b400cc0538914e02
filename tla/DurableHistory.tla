--------------------------- MODULE DurableHistory ---------------------------
(***************************************************************************)
(* What the job history promises, without saying how it keeps the promise: *)
(* the passes and the armings the process knows (live) reach the store one *)
(* batch at a time, and a crash brings the process back to what it knew at *)
(* the last batch that was written, never to a mixture of two moments.     *)
(*                                                                         *)
(* A fact is "key k ran pass p" or "symbol s was last armed so".           *)
(***************************************************************************)
CONSTANT Facts

VARIABLES
    live,      \* what the process knows
    taken,     \* what it knew when the batch now on its way was taken
    durable,   \* what the store would give back at a boot
    readable   \* could this process read the store when it booted?

vars == <<live, taken, durable, readable>>

Init ==
    /\ live = {} /\ taken = {} /\ durable = {}
    /\ readable = TRUE

(* A pass is recorded, a symbol is armed or forgotten: memory only. *)
Change ==
    /\ live' \in SUBSET Facts
    /\ UNCHANGED <<taken, durable, readable>>

(* A batch is taken: it brings the store to the present moment. *)
Take ==
    /\ taken' = live
    /\ UNCHANGED <<live, durable, readable>>

(* The batch is written. *)
Persist ==
    /\ durable' = taken
    /\ UNCHANGED <<live, taken, readable>>

(* The store refuses the batch: nothing of it is durable. *)
Refuse ==
    /\ taken' = durable
    /\ UNCHANGED <<live, durable, readable>>

(* Facts leave the 24 hours kept: they leave everywhere at once. *)
Age ==
    LET old == (live \ live') \cup (taken \ taken') \cup (durable \ durable')
    IN  /\ live' = live \ old
        /\ taken' = taken \ old
        /\ durable' = durable \ old
        /\ UNCHANGED readable

(* The process dies and boots again: it knows what the store gives back,   *)
(* but for the symbols that left meanwhile.                                *)
Restart ==
    /\ live' \in SUBSET durable
    /\ taken' = durable
    /\ durable' = durable
    /\ readable' = TRUE

(* A boot that cannot read the store promises nothing until the next one.  *)
Blind == readable' = FALSE

Sighted == readable /\ (Change \/ Take \/ Persist \/ Refuse \/ Age)

Next == Sighted \/ Restart \/ Blind

Spec == Init /\ [][Next]_vars
=============================================================================

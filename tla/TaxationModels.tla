--------------------------- MODULE TaxationModels ---------------------------
(***************************************************************************)
(* The taxation models: the kinds and their parameters, the form that      *)
(* writes one (TaxationModelEditor.tsx), the check of what is written      *)
(* (taxation.py) and the tax it projects (taxation_projection.py).         *)
(*                                                                         *)
(* A rate is a number of parts of FULL, the percentage typed and the       *)
(* fraction stored alike, that the form shows rounded to GRAIN; a tax is in *)
(* those parts too.  A day is a year of a calendar that ends at             *)
(* CALENDAR_END.  A field left blank, or whose text is no number, is None.  *)
(***************************************************************************)
EXTENDS Integers, Sequences, FiniteSets, SequencesExt

CONSTANTS None, FULL, GRAIN, MAX_THRESHOLD_YEARS, CALENDAR_END

Parameter(name, type, required) == [name |-> name, type |-> type, required |-> required]

PARAMETERS ==
    [none |-> {},
     flat_realised |-> {Parameter("rate", "rate", TRUE), Parameter("social_rate", "rate", FALSE)},
     aged_flat_realised |->
         {Parameter("rate_before", "rate", TRUE), Parameter("rate_after", "rate", TRUE),
          Parameter("threshold_years", "years", TRUE), Parameter("age_basis", "age_basis", TRUE),
          Parameter("social_rate", "rate", FALSE)},
     bracketed_realised |-> {Parameter("brackets", "brackets", TRUE)},
     withholding_income |-> {Parameter("rate", "rate", TRUE)}]

KINDS == DOMAIN PARAMETERS
AGE_BASES == {"opening", "first_payment"}
Names(kind) == {p.name : p \in PARAMETERS[kind]}
Member(f, name) == IF name \in DOMAIN f THEN f[name] ELSE None

-----------------------------------------------------------------------------
(* The form.  A draft is what is typed, a model what is stored.            *)
EMPTY_ROWS == <<[upper_bound |-> None, rate |-> None]>>
Draft(name, kind, fields, brackets) ==
    [name |-> name, kind |-> kind, fields |-> fields, brackets |-> brackets]
NO_FIELDS == [name \in {} |-> None]
Blank == Draft(None, "none", NO_FIELDS, EMPTY_ROWS)

(* Nothing typed in an optional field leaves it out; the last rung has no ceiling. *)
Ladder(rows) == [rows EXCEPT ![Len(rows)].upper_bound = None]
assemble(draft) ==
    [name \in {n \in Names(draft.kind) : n = "brackets" \/ Member(draft.fields, n) # None} |->
        IF name = "brackets" THEN Ladder(draft.brackets) ELSE draft.fields[name]]

Rounded(rate) == ((rate + GRAIN \div 2) \div GRAIN) * GRAIN
Shown(name, value) ==
    IF name \in {"rate", "rate_before", "rate_after", "social_rate"} THEN Rounded(value) ELSE value
disassemble(model) ==
    Draft(model.name, model.kind,
          [name \in (Names(model.kind) \cap DOMAIN model.parameters) \ {"brackets"} |->
              Shown(name, model.parameters[name])],
          IF "brackets" \notin DOMAIN model.parameters THEN EMPTY_ROWS
          ELSE [i \in DOMAIN model.parameters.brackets |->
                   [model.parameters.brackets[i] EXCEPT !.rate = Rounded(@)]])

draftOf(model) == IF model = None THEN Blank ELSE disassemble(model)
bodyOf(draft) == [name |-> draft.name, kind |-> draft.kind, parameters |-> assemble(draft)]

(* The gestures: the parameters belong to a kind, and a new rung goes under the top one. *)
Naming(draft, name) == [draft EXCEPT !.name = name]
ChooseKind(draft, kind) == Draft(draft.name, kind, NO_FIELDS, EMPTY_ROWS)
Fill(draft, name, typed) ==
    [draft EXCEPT !.fields = [n \in DOMAIN @ \cup {name} |-> IF n = name THEN typed ELSE @[n]]]
SetRung(draft, i, member, typed) == [draft EXCEPT !.brackets[i][member] = typed]
AddRung(draft) ==
    [draft EXCEPT !.brackets = InsertAt(@, Len(@), [upper_bound |-> None, rate |-> None])]
RemoveRung(draft, i) == [draft EXCEPT !.brackets = RemoveAt(@, i)]

-----------------------------------------------------------------------------
(* The check, made once as a model is written.                             *)
IsRate(value) == value # None /\ value \in 0..FULL
IsYears(value) == value \in 0..MAX_THRESHOLD_YEARS

IsLadder(rungs) ==
    /\ rungs # <<>>
    /\ \A i \in DOMAIN rungs :
           /\ IsRate(rungs[i].rate)
           /\ rungs[i].upper_bound = None <=> i = Len(rungs)
    /\ \A i \in 1..Len(rungs) - 1 :
           rungs[i].upper_bound > (IF i = 1 THEN 0 ELSE rungs[i - 1].upper_bound)

Check(type, value) ==
    CASE type = "rate" -> IsRate(value)
      [] type = "years" -> IsYears(value)
      [] type = "age_basis" -> value \in AGE_BASES
      [] type = "brackets" -> IsLadder(value)

social_rate(parameters) == IF "social_rate" \in DOMAIN parameters THEN parameters.social_rate ELSE 0

(* A gain cannot owe more than itself, and the levy adds to the rate.      *)
NoMoreThanEverything(parameters) ==
    \A name \in {"rate", "rate_before", "rate_after"} \cap DOMAIN parameters :
        parameters[name] + social_rate(parameters) <= FULL

validates(kind, parameters) ==
    /\ DOMAIN parameters \subseteq Names(kind)
    /\ \A p \in PARAMETERS[kind] :
           IF p.name \in DOMAIN parameters THEN Check(p.type, parameters[p.name]) ELSE ~p.required
    /\ NoMoreThanEverything(parameters)

-----------------------------------------------------------------------------
(* What an account would owe if it were emptied on a day.  Its facts are the *)
(* day it declares it was opened and the day of its first payment.          *)
PROJECTED_KINDS == {"flat_realised", "aged_flat_realised", "bracketed_realised"}
Positive(gain) == IF gain > 0 THEN gain ELSE 0

age_date(parameters, facts) ==
    IF parameters.age_basis = "opening" \/ facts.opened_on # None
    THEN facts.opened_on ELSE facts.first_payment

threshold_day(parameters, start) ==
    IF start = None \/ start + parameters.threshold_years > CALENDAR_END THEN None
    ELSE start + parameters.threshold_years

(* The levy is owed on both sides of the threshold, reached ON its day.    *)
RateOn(parameters, day, now) ==
    (IF now >= day THEN parameters.rate_after ELSE parameters.rate_before) + social_rate(parameters)

ThresholdOf(parameters, facts) == threshold_day(parameters, age_date(parameters, facts))
aged_rate(parameters, facts, now) ==
    IF ThresholdOf(parameters, facts) = None THEN None
    ELSE RateOn(parameters, ThresholdOf(parameters, facts), now)

(* Each rung taxes what falls inside it.                                   *)
Climb(walk, rung) ==
    LET slice == IF rung.upper_bound = None \/ walk.remaining <= rung.upper_bound - walk.floor
                 THEN walk.remaining ELSE rung.upper_bound - walk.floor
    IN [remaining |-> walk.remaining - slice, tax |-> walk.tax + slice * rung.rate,
        floor |-> IF rung.upper_bound = None THEN walk.floor ELSE rung.upper_bound]
bracketed(rungs, gain) ==
    Positive(FoldLeft(LAMBDA walk, rung : IF walk.remaining <= 0 THEN walk ELSE Climb(walk, rung),
                      [remaining |-> gain, tax |-> 0, floor |-> 0], rungs).tax)

Owed(gain, rate) == IF rate = None THEN None ELSE gain * rate
projected_tax(model, facts, gain, now) ==
    IF gain = None \/ model.kind \notin PROJECTED_KINDS THEN None
    ELSE CASE model.kind = "flat_realised" ->
                  Owed(Positive(gain), model.parameters.rate + social_rate(model.parameters))
           [] model.kind = "aged_flat_realised" ->
                  Owed(Positive(gain), aged_rate(model.parameters, facts, now))
           [] model.kind = "bracketed_realised" ->
                  bracketed(model.parameters.brackets, Positive(gain))

OneRate(rate) == IF rate = None THEN <<>> ELSE <<rate>>
applied_rates(model, facts, now) ==
    CASE model.kind = "flat_realised" -> <<model.parameters.rate + social_rate(model.parameters)>>
      [] model.kind = "aged_flat_realised" -> OneRate(aged_rate(model.parameters, facts, now))
      [] model.kind = "bracketed_realised" ->
             [i \in DOMAIN model.parameters.brackets |-> model.parameters.brackets[i].rate]
      [] OTHER -> <<>>

Ahead(day, now) == IF day = None \/ day <= now THEN None ELSE day
rate_changes_on(model, facts, now) ==
    IF model.kind # "aged_flat_realised" THEN None
    ELSE Ahead(ThresholdOf(model.parameters, facts), now)

-----------------------------------------------------------------------------
(* The card of the projected tax (AccountDetail.tsx, ProjectedTax): none    *)
(* without a model, no figure where it taxes something else, and a zero     *)
(* that the model states.                                                   *)
ProjectedTax(model, facts, gain, now) ==
    IF model.kind = "withholding_income" THEN [figure |-> "none", amount |-> None, rates |-> <<>>, on |-> None]
    ELSE [figure |-> IF model.kind = "none" \/ projected_tax(model, facts, gain, now) # None
                     THEN "amount" ELSE "dash",
          amount |-> IF model.kind = "none" THEN 0 ELSE projected_tax(model, facts, gain, now),
          rates |-> applied_rates(model, facts, now),
          on |-> rate_changes_on(model, facts, now)]

(* A card never contradicts itself: its amount is between those its lowest  *)
(* and its highest rate make of the gain, a loss owes nothing, one more of  *)
(* gain owes one of its rates, and the rate it names holds until the day it *)
(* says.                                                                   *)
AmountIsOfTheRates(model, facts, gain, now) ==
    LET tax == projected_tax(model, facts, gain, now)
        rates == ToSet(applied_rates(model, facts, now))
    IN tax # None =>
          /\ tax = 0 \/ gain > 0
          /\ tax <= Positive(gain) * FULL
          /\ \E low, high \in rates :
                 Positive(gain) * low <= tax /\ tax <= Positive(gain) * high
          /\ gain >= 0 => projected_tax(model, facts, gain + 1, now) \in {tax + rate : rate \in rates}

DayIsOfTheRates(model, facts, now) ==
    LET on == rate_changes_on(model, facts, now)
        levy == social_rate(model.parameters)
    IN on # None =>
          /\ \A day \in now..on - 1 : applied_rates(model, facts, day) = applied_rates(model, facts, now)
          /\ applied_rates(model, facts, now) = <<model.parameters.rate_before + levy>>
          /\ applied_rates(model, facts, on) = <<model.parameters.rate_after + levy>>
          /\ rate_changes_on(model, facts, on) = None

CardAgrees(model, facts, gains, days) ==
    validates(model.kind, model.parameters) =>
        \A now \in days :
            /\ DayIsOfTheRates(model, facts, now)
            /\ \A gain \in gains : AmountIsOfTheRates(model, facts, gain, now)

(* A model taken to the form and sent back untouched is the model, where the *)
(* form can show its rates (TaxationModelEditor.tsx, disassemble).          *)
Fine(model) ==
    /\ \A name \in Names(model.kind) \cap DOMAIN model.parameters :
           name # "brackets" => Shown(name, model.parameters[name]) = model.parameters[name]
    /\ "brackets" \in DOMAIN model.parameters =>
           \A rung \in ToSet(model.parameters.brackets) : Rounded(rung.rate) = rung.rate
FormKeeps(model) ==
    Fine(model) =>
    bodyOf(draftOf(model)) = [name |-> model.name, kind |-> model.kind, parameters |-> model.parameters]
=============================================================================

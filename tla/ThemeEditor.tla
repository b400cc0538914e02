---------------------------- MODULE ThemeEditor ----------------------------
(***************************************************************************)
(* The theme of the installation: the form that edits it with its preview  *)
(* (themeForm.ts, ThemeForm.tsx, themePreview.ts), the import, the JSON    *)
(* and the reset beside it (ThemeBlock.tsx), the question asked to who     *)
(* leaves (ThemeLeaveDialog.tsx), and the server that cleans, keeps and    *)
(* paints a theme (tweakcn.py, api/settings.py).                           *)
(*                                                                         *)
(* A theme gives values to keys on two grounds and on both at once.  Of    *)
(* the keys, one of each sort is kept: a colour and the one that follows   *)
(* it, a spacing and its mirror, an opacity and the string of shadows that *)
(* carries it.  A value is a number; the string of shadows is its alpha.   *)
(***************************************************************************)
EXTENDS Integers, FiniteSets

CONSTANTS None,
    Themes,         \* what may be stored, imported or pasted
    Values,         \* what a field may be given
    MaxEdits, MaxWrites, MaxFaults

VARIABLES
    row,            \* the theme of the store, None for Atelier
    cached,         \* what the page read of it
    sheet,          \* what /api/theme.css painted last
    form,           \* the form: its baseline, its edits, the write it waits for and leaves with
    preview,        \* the candidate painted over the page
    dialog,         \* the import or the JSON
    leaving,        \* the question asked to who leaves
    writings,       \* the writes on their way
    strokes, writes, failures

themeVars == <<row, cached, sheet, form, preview, dialog, leaving, writings,
    strokes, writes, failures>>

-----------------------------------------------------------------------------
(* A theme.                                                                *)

Grounds == {"light", "dark"}
Other(ground) == IF ground = "light" THEN "dark" ELSE "light"
Colours == {"background", "sidebar"}
Wide == {"tracking-normal", "letter-spacing", "shadow-opacity", "shadow"}
Keys == Colours \cup Wide
Nothing == [k \in {} |-> 0]

(* What f says, and what g says of the rest.                               *)
Over(f, g) == [k \in DOMAIN f \cup DOMAIN g |-> IF k \in DOMAIN f THEN f[k] ELSE g[k]]
One(key, value) == [k \in {key} |-> value]

(* Atelier says every colour on each ground and the rest on both at once;  *)
(* its sidebar is its background.                                          *)
atelier ==
    [theme |-> [k \in Wide |-> 0],
     light |-> [k \in Colours |-> 1], dark |-> [k \in Colours |-> 2]]

FOLLOWERS(key) == IF key = "background" THEN {"sidebar"} ELSE {}

(* What a key says on a ground: the theme's own, else Atelier's.           *)
Said(vars, ground, key) ==
    IF key \in DOMAIN vars[ground] THEN vars[ground][key] ELSE vars.theme[key]
Says(vars, ground, key) == key \in DOMAIN vars[ground] \cup DOMAIN vars.theme
read(vars, ground, key) ==
    IF Says(vars, ground, key) THEN Said(vars, ground, key) ELSE Said(atelier, ground, key)

(* render_css, previewCss: a key is painted when both grounds say it.      *)
Emits(vars, key) == \A ground \in Grounds : Says(vars, ground, key)
Painted(vars, ground, key) ==
    IF Emits(vars, key) THEN Said(vars, ground, key) ELSE Said(atelier, ground, key)

(* normalize: a key one ground only says is dropped, but for the spacing a *)
(* theme writes in light; validate: a theme that would lose one is refused. *)
Only(f, keys) == [k \in DOMAIN f \cap keys |-> f[k]]
normalize(vars) ==
    LET spaced == "tracking-normal" \in DOMAIN vars.light
                  /\ "tracking-normal" \notin DOMAIN vars.dark \cup DOMAIN vars.theme
        theme == IF spaced
                 THEN Over(vars.theme, One("tracking-normal", vars.light["tracking-normal"]))
                 ELSE vars.theme
        light == IF spaced THEN Only(vars.light, Keys \ {"tracking-normal"}) ELSE vars.light
        shared == (DOMAIN light \cap DOMAIN vars.dark) \cup DOMAIN theme
    IN  [theme |-> theme, light |-> Only(light, shared), dark |-> Only(vars.dark, shared)]
valid(vars) == normalize(vars) = vars

-----------------------------------------------------------------------------
(* The form as data.                                                       *)

NO_EDITS == [scope \in Grounds \cup {"theme"} |-> Nothing]
Fields(scope) == IF scope = "theme" THEN {"tracking-normal", "shadow-opacity"} ELSE {"background"}
GroundOf(scope) == IF scope = "theme" THEN "light" ELSE scope

valueOf(baseline, edits, scope, key) ==
    IF key \in DOMAIN edits[scope] THEN edits[scope][key]
    ELSE read(baseline, GroundOf(scope), key)

(* An edit back to the baseline's own value is no edit.                    *)
setEdit(baseline, edits, scope, key, value) ==
    LET rest == Only(edits[scope], Keys \ {key})
        same == value \in {None, read(baseline, GroundOf(scope), key)}
    IN  [edits EXCEPT ![scope] = IF same THEN rest ELSE Over(One(key, value), rest)]

count(edits) == Cardinality({at \in (DOMAIN edits) \X Keys : at[2] \in DOMAIN edits[at[1]]})

(* An edit of a ground lands on it with what follows it there; a key the   *)
(* other ground lacks is filled from Atelier.                              *)
Linked(baseline, ground, key) ==
    {key} \cup {f \in FOLLOWERS(key) : read(baseline, ground, f) = read(baseline, ground, key)}

GroundEdits(baseline, edits, ground) ==
    [k \in UNION {Linked(baseline, ground, key) : key \in DOMAIN edits[ground]} |->
        edits[ground][CHOOSE key \in DOMAIN edits[ground] : k \in Linked(baseline, ground, key)]]
FilledNot(baseline, edits, ground) == Nothing
Filled(baseline, edits, ground) ==
    LET given == DOMAIN GroundEdits(baseline, edits, Other(ground))
        missing == {k \in given : ~Says(baseline, ground, k)}
    IN  [k \in missing |-> Said(atelier, ground, k)]

(* An edit of both grounds is written once, and wins over what a ground    *)
(* says of its key; the spacing has its mirror, the opacity its shadows.   *)
Mirrored(key) == IF key = "letter-spacing" THEN "tracking-normal" ELSE "shadow-opacity"
Everywhere(edits) ==
    LET wide == edits.theme
        mirrors == {key \in {"letter-spacing", "shadow"} : Mirrored(key) \in DOMAIN wide}
    IN  Over(wide, [key \in mirrors |-> wide[Mirrored(key)]])

candidate(baseline, edits) ==
    LET wide == Everywhere(edits)
        given(g) == Over(GroundEdits(baseline, edits, g), Filled(baseline, edits, g))
        ground(g) == Only(Over(given(g), baseline[g]), Keys \ DOMAIN wide)
    IN  [theme |-> Over(wide, baseline.theme), light |-> ground("light"), dark |-> ground("dark")]

-----------------------------------------------------------------------------
(* The section.                                                            *)

Closed == [open |-> FALSE, baseline |-> atelier, edits |-> NO_EDITS, awaits |-> None, leaves |-> FALSE]
OrAtelier(theme) == IF theme = None THEN atelier ELSE theme
Open == form.open
Proposed == candidate(form.baseline, form.edits)
Shut == form' = Closed /\ preview' = None /\ leaving' = FALSE

Write(kind, body) ==
    /\ writes < MaxWrites
    /\ writes' = writes + 1
    /\ writings' = writings \cup
        {[id |-> writes + 1, kind |-> kind, body |-> body, phase |-> "sent"]}

(* The form opens on what the section shows, pinned.                       *)
Modify ==
    /\ ~Open /\ dialog = None
    /\ form' = [Closed EXCEPT !.open = TRUE, !.baseline = OrAtelier(cached)]
    /\ UNCHANGED <<row, cached, sheet, preview, dialog, leaving, writings, strokes, writes, failures>>

(* A field changes, or goes back; nothing is edited while an apply is in   *)
(* flight.  The preview shows the candidate, and comes off with the last   *)
(* edit.                                                                   *)
edit(scope, key, value) ==
    /\ Open /\ form.awaits = None /\ ~leaving
    /\ strokes < MaxEdits /\ strokes' = strokes + 1
    /\ form' = [form EXCEPT !.edits = setEdit(form.baseline, @, scope, key, value)]
    /\ preview' = IF count(form'.edits) = 0 THEN None
                  ELSE candidate(form.baseline, form'.edits)
    /\ UNCHANGED <<row, cached, sheet, dialog, leaving, writings, writes, failures>>

(* The bar applies edits; the question asked to who leaves applies too.    *)
Apply ==
    /\ Open /\ form.awaits = None
    /\ leaving \/ count(form.edits) > 0
    /\ Write("apply", Proposed)
    /\ form' = [form EXCEPT !.awaits = writes + 1, !.leaves = leaving]
    /\ UNCHANGED <<row, cached, sheet, preview, dialog, leaving, strokes, failures>>

(* Closing, cancelling and leaving a page without an edit take the form    *)
(* off; its write goes on.                                                 *)
Close ==
    /\ Open /\ ~leaving
    /\ Shut
    /\ UNCHANGED <<row, cached, sheet, dialog, writings, strokes, writes, failures>>

(* Leaving with edits asks: stay, drop them, or apply them and leave.  Who *)
(* stays while it is applied does not leave with it.                       *)
Leave ==
    /\ Open /\ ~leaving /\ count(form.edits) > 0
    /\ leaving' = TRUE
    /\ UNCHANGED <<row, cached, sheet, form, preview, dialog, writings, strokes, writes, failures>>
Stay ==
    /\ leaving /\ leaving' = FALSE
    /\ form' = [form EXCEPT !.leaves = FALSE]
    /\ UNCHANGED <<row, cached, sheet, preview, dialog, writings, strokes, writes, failures>>
Discard ==
    /\ leaving /\ form.awaits = None
    /\ Shut
    /\ UNCHANGED <<row, cached, sheet, dialog, writings, strokes, writes, failures>>

(* The import and the JSON are hidden while the form is open; the reset is *)
(* offered once a theme is stored.  A dialog closed, typed in or left with *)
(* its page lets its write go on, and may send another.                    *)
OpenDialog ==
    /\ ~Open /\ dialog = None
    /\ dialog' \in {"import", "json"}
    /\ UNCHANGED <<row, cached, sheet, form, preview, leaving, writings, strokes, writes, failures>>
CloseDialog ==
    /\ dialog # None /\ dialog' = None
    /\ UNCHANGED <<row, cached, sheet, form, preview, leaving, writings, strokes, writes, failures>>
SendDialog ==
    /\ dialog # None
    /\ \E theme \in Themes : Write(dialog, theme)
    /\ UNCHANGED <<row, cached, sheet, form, preview, dialog, leaving, strokes, failures>>
Reset ==
    /\ ~Open /\ dialog = None /\ cached # None
    /\ Write("reset", None)
    /\ UNCHANGED <<row, cached, sheet, form, preview, dialog, leaving, strokes, failures>>

-----------------------------------------------------------------------------
(* A write is kept by the server, which cleans what was imported and       *)
(* refuses a theme it would not paint whole; or it fails, and so does the  *)
(* answer to one that was kept.                                            *)
Kept(w) == IF w.kind = "import" THEN normalize(w.body) ELSE w.body
Serve(w) ==
    /\ w.phase = "sent"
    /\ IF w.kind # "reset" /\ ~valid(Kept(w))
       THEN /\ writings' = (writings \ {w}) \cup {[w EXCEPT !.phase = "refused"]}
            /\ UNCHANGED row
       ELSE /\ row' = Kept(w)
            /\ writings' = (writings \ {w}) \cup {[w EXCEPT !.phase = "kept", !.body = Kept(w)]}
    /\ UNCHANGED <<cached, sheet, form, preview, dialog, leaving, strokes, writes, failures>>
Fail(w) ==
    /\ w.phase \in {"sent", "kept"} /\ failures < MaxFaults
    /\ failures' = failures + 1
    /\ writings' = (writings \ {w}) \cup {[w EXCEPT !.phase = "refused"]}
    /\ UNCHANGED <<row, cached, sheet, form, preview, dialog, leaving, strokes, writes>>

(* kept, dialogKept: the answer is what the section shows, the dialog      *)
(* closes, and the page fetches its stylesheet again.                      *)
Land(w) ==
    /\ w.phase = "kept"
    /\ cached' = w.body
    /\ dialog' = IF w.kind \in {"import", "json"} THEN None ELSE dialog
    /\ writings' = (writings \ {w}) \cup {[w EXCEPT !.phase = "painting"]}
    /\ UNCHANGED <<row, sheet, form, preview, leaving, strokes, writes, failures>>

(* The stylesheet is loaded: an apply is over, its answer the baseline,    *)
(* its edits spent, the preview off; who leaves with it leaves, and a      *)
(* question the bar's apply crossed is still to answer.                    *)
Repaint(w) ==
    /\ w.phase = "painting"
    /\ sheet' = row
    /\ preview' = IF w.kind = "apply" THEN None ELSE preview
    /\ IF w.id = form.awaits
       THEN /\ form' = IF form.leaves THEN Closed
                       ELSE [form EXCEPT !.baseline = w.body, !.edits = NO_EDITS, !.awaits = None]
            /\ leaving' = (leaving /\ ~form.leaves)
       ELSE UNCHANGED <<form, leaving>>
    /\ writings' = writings \ {w}
    /\ UNCHANGED <<row, cached, dialog, strokes, writes, failures>>

(* A refusal, or a stylesheet that did not load, is said in the bar: the   *)
(* edits and the preview stay, and so does who was leaving with it.        *)
Refused(w) ==
    /\ \/ w.phase = "refused" /\ UNCHANGED failures
       \/ w.phase = "painting" /\ failures < MaxFaults /\ failures' = failures + 1
    /\ IF w.id = form.awaits
       THEN /\ form' = [form EXCEPT !.awaits = None, !.leaves = FALSE]
            /\ leaving' = (leaving /\ ~form.leaves)
       ELSE UNCHANGED <<form, leaving>>
    /\ writings' = writings \ {w}
    /\ UNCHANGED <<row, cached, sheet, preview, dialog, strokes, writes>>

Init ==
    /\ row \in {None} \cup {theme \in Themes : valid(theme)}
    /\ cached = row /\ sheet = row
    /\ form = Closed /\ preview = None /\ dialog = None /\ leaving = FALSE
    /\ writings = {}
    /\ strokes = 0 /\ writes = 0 /\ failures = 0

Next ==
    \/ Modify \/ Apply \/ Close \/ Leave \/ Stay \/ Discard
    \/ \E scope \in DOMAIN NO_EDITS : \E key \in Fields(scope), value \in Values \cup {None} :
        edit(scope, key, value)
    \/ OpenDialog \/ CloseDialog \/ SendDialog \/ Reset
    \/ \E w \in writings : Serve(w) \/ Fail(w) \/ Land(w) \/ Repaint(w) \/ Refused(w)

-----------------------------------------------------------------------------
(* What the edits reach on a ground: their keys, what was linked to them,  *)
(* and what both grounds share.                                            *)
Reached(ground) ==
    DOMAIN Everywhere(form.edits)
    \cup UNION {Linked(form.baseline, ground, key) : key \in DOMAIN form.edits[ground]}

(* An apply is never refused for what the form made, paints on each ground *)
(* what its fields show, and leaves every key it did not reach as it was   *)
(* painted, on both grounds (themeForm.ts, candidate; tweakcn.py, validate). *)
ApplyPaintsTheFields == Open =>
    /\ valid(Proposed)
    /\ \A scope \in DOMAIN NO_EDITS : \A key \in Fields(scope) :
        Painted(Proposed, GroundOf(scope), key) = valueOf(form.baseline, form.edits, scope, key)
    /\ \A ground \in Grounds : \A key \in Keys \ Reached(ground) :
        Painted(Proposed, ground, key) = Painted(form.baseline, ground, key)

(* What is on screen: the preview over the stylesheet over the bundle.     *)
Screen(ground, key) ==
    IF preview # None /\ Emits(preview, key) THEN Said(preview, ground, key)
    ELSE Painted(OrAtelier(sheet), ground, key)

(* The page under the form is the candidate, on both grounds, as long as   *)
(* the stylesheet is the one the form opened on (themePreview.ts).         *)
PreviewIsTheCandidate ==
    (Open /\ OrAtelier(sheet) = form.baseline /\ preview # None) =>
        \A ground \in Grounds, key \in Keys : Screen(ground, key) = Painted(Proposed, ground, key)

(* Nothing of a candidate stays on the page once its form is gone          *)
(* (ThemeForm.tsx, clearPreview).                                          *)
PreviewGoesWithItsForm == preview # None => Open
=============================================================================

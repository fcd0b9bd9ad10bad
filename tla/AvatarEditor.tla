------------------------------ MODULE AvatarEditor ------------------------------
(***************************************************************************)
(* The avatar editor of the settings (components/features/settings/           *)
(* profile-picture-editor.tsx): a form whose values are drawn by the API,      *)
(* debounced and then throttled, and saved by another action.                *)
(*                                                                         *)
(* Time is in ticks, Delay of them are the 500 ms of both hooks. A timer may   *)
(* fire late, and so may the effect of the render it asks for. Server actions  *)
(* are sent one after another, in the order they were called.                 *)
(***************************************************************************)
EXTENDS Naturals, Sequences

CONSTANTS Looks,         \* what the inputs can say
          NoLook,         \* none
          Delay,         \* of the debounce and of the throttle
          MaxPicks       \* bound: changes and saves

VARIABLES form,          \* the values of the form
          debounced,     \* useDebounce's value
          throttled,     \* useThrottle's value, and what it was last asked for
          wait,          \* ticks until the debounce's timer is due, or none
          rest,          \* ticks since the throttle let a value through
          pending,       \* a render with a new debounced value
          actions,       \* server actions called and not answered
          preview,       \* the picture on the page
          stored,        \* the account's avatar
          missed,        \* the last picture asked for was not drawn
          skipped,       \* the last value was dropped by the throttle
          picks

vars == <<form, debounced, throttled, wait, rest, pending, actions, preview, stored,
          missed, skipped, picks>>

NoTimer == Delay + 1

Actions == [what : {"preview", "save"}, look : Looks]

TypeOK ==
    /\ form \in Looks /\ picks \in Nat
    /\ {debounced, throttled, preview, stored} \subseteq Looks \union {NoLook}
    /\ wait \in 0 .. NoTimer /\ rest \in 0 .. Delay
    /\ {pending, missed, skipped} \subseteq BOOLEAN
    /\ actions \in Seq(Actions)

\* Mutant: an action overtakes those before it.
AskFirst(what, look) == <<[what |-> what, look |-> look]>> \o actions

Ask(what, look) == Append(actions, [what |-> what, look |-> look])

\* The mount: the throttle lets the form's emptiness through, then the form is given
\* random values.
Init ==
    /\ form \in Looks
    /\ debounced = NoLook /\ throttled = NoLook /\ wait = Delay /\ rest = 0 /\ pending = FALSE
    /\ actions = <<[what |-> "preview", look |-> form]>>
    /\ preview = NoLook /\ stored = NoLook /\ missed = FALSE /\ skipped = FALSE /\ picks = 0

\* form.subscribe: any value set makes new values, and the debounce starts again.
Change(look) ==
    /\ picks < MaxPicks /\ picks' = picks + 1
    /\ form' = look /\ wait' = Delay
    /\ UNCHANGED <<debounced, throttled, rest, pending, preview, stored, missed, skipped>>

\* A mood or a hair style other than the selected one, or a colour that is dragged.
Choose == \E l \in Looks \ {form} : Change(l) /\ UNCHANGED actions

\* A swatch of a skin, the selected one too.
Swatch == \E l \in Looks : Change(l) /\ UNCHANGED actions

\* handleRandomValue: drawn at once, and again when the debounce ends.
Roll == \E l \in Looks : Change(l) /\ actions' = Ask("preview", l)

\* handleSubmit.
Submit ==
    /\ picks < MaxPicks /\ picks' = picks + 1
    /\ actions' = Ask("save", form)
    /\ UNCHANGED <<form, debounced, throttled, wait, rest, pending, preview, stored, missed, skipped>>

\* useDebounce: the timer fires.
Settle ==
    /\ wait = 0 /\ wait' = NoTimer
    /\ debounced' = form /\ pending' = TRUE
    /\ UNCHANGED <<form, throttled, rest, actions, preview, stored, missed, skipped, picks>>

\* useThrottle with a leading edge and no trailing one: a value that comes too soon
\* after the last is dropped. One that passes is drawn.
Throttle ==
    /\ pending /\ pending' = FALSE
    /\ IF rest >= Delay
       THEN /\ throttled' = debounced /\ rest' = 0 /\ skipped' = FALSE
            /\ actions' = Ask("preview", debounced)
       ELSE skipped' = TRUE /\ UNCHANGED <<throttled, rest, actions>>
    /\ UNCHANGED <<form, debounced, wait, preview, stored, missed, picks>>

Tick ==
    /\ wait' = IF wait \in 1 .. Delay THEN wait - 1 ELSE wait
    /\ rest' = IF rest < Delay THEN rest + 1 ELSE rest
    /\ UNCHANGED <<form, debounced, throttled, pending, actions, preview, stored, missed,
                   skipped, picks>>

\* The API draws the picture, or does not.
Draw ==
    /\ actions # <<>> /\ Head(actions).what = "preview"
    /\ actions' = Tail(actions)
    /\ \/ preview' = Head(actions).look /\ missed' = FALSE
       \/ missed' = TRUE /\ UNCHANGED preview
    /\ UNCHANGED <<form, debounced, throttled, wait, rest, pending, stored, skipped, picks>>

\* updateUserAvatar, or a failure.
Save ==
    /\ actions # <<>> /\ Head(actions).what = "save"
    /\ actions' = Tail(actions)
    /\ stored' \in {stored, Head(actions).look}
    /\ UNCHANGED <<form, debounced, throttled, wait, rest, pending, preview, missed, skipped, picks>>

Next == Choose \/ Swatch \/ Roll \/ Submit \/ Settle \/ Throttle \/ Tick \/ Draw \/ Save

Spec == Init /\ [][Next]_vars

\* The spinner over the picture: the form's values are not the very object that was drawn.
Spinning == wait # NoTimer \/ pending \/ skipped \/ throttled # form

-----------------------------------------------------------------------------
\* Once no timer, render or action is under way, the picture is that of the form and
\* the spinner is gone; but for a picture that could not be drawn, and for a change
\* made while the render of the one before was due: the two come to the throttle less
\* than a delay apart and, as it has no trailing edge, the second is never drawn.
PreviewSettles ==
    (wait = NoTimer /\ ~pending /\ actions = <<>> /\ ~skipped) =>
        ~Spinning /\ (preview = form \/ missed)
=============================================================================

---------------------------- MODULE ObjectiveWizard ----------------------------
(***************************************************************************)
(* The ephemeral wizard behind "Add Objective" (bot/objectives.py): a view *)
(* kept in memory, whose step decides which controls it carries.  A click  *)
(* changes the view at once; the message the user clicks on shows the new  *)
(* controls only when the edit has arrived, so a click can belong to the   *)
(* controls of an earlier step; a modal, once opened, can be sent in at any *)
(* later step.  Confirm validates the view, but what is announced is read   *)
(* from it later: until then clicks are answered as before.                 *)
(*                                                                         *)
(* Abstractions.  Vortex and Core have the same steps and are one type.  A *)
(* field is filled in or not; a select only gives valid values.  Cancel     *)
(* empties the message but does not stop the view, which it leaves as it is. *)
(***************************************************************************)
EXTENDS Sequences, FiniteSets, Naturals

CONSTANTS
    Asked,  \* per type of objective, the fields its steps ask for
    Typed   \* those that are typed into a modal; it may be left blank

Types  == DOMAIN Asked
Fields == UNION {{Asked[t][i] : i \in DOMAIN Asked[t]} : t \in Types}

ASSUME WizardAssumption ==
    /\ \A t \in Types : Asked[t] \in Seq(Fields) /\ Asked[t] # <<>>
    /\ Typed \subseteq Fields

VARIABLE wizard  \* [step, type, set, modals, shown, outcome, late]

Needed(t) == {Asked[t][i] : i \in DOMAIN Asked[t]}
LastStep(t) == IF t \in Types THEN Len(Asked[t]) + 2 ELSE 1

\* _build_items: a step the type does not have is the first one.
Built(step, t) == IF step > LastStep(t) THEN 1 ELSE step

Control(step, t) ==
    CASE step = 1           -> "type"
      [] step = LastStep(t) -> "confirm"
      [] OTHER              -> Asked[t][step - 1]

NoWizard == [step |-> 0, type |-> "none", set |-> {}, modals |-> {},
             shown |-> [step |-> 0, type |-> "none"], outcome |-> "none", late |-> FALSE]
WizardInit == wizard = NoWizard
Working    == wizard.step # 0
Confirmed  == wizard.outcome = "confirmed"

OpenWizard ==
    /\ wizard = NoWizard
    /\ wizard' = [NoWizard EXCEPT !.step = 1, !.shown.step = 1]

Shown == Control(wizard.shown.step, wizard.shown.type)

\* The edit that follows a click reaches the user.
Rendered ==
    wizard' = [wizard EXCEPT !.shown = [step |-> wizard.step, type |-> wizard.type]]

\* late, a history variable: what was validated was taken back or changed its type.
ChooseType ==
    /\ Shown = "type"
    /\ \E t \in Types :
         wizard' = [wizard EXCEPT !.type = t, !.step = Built(wizard.step, t),
                                  !.late = @ \/ (Confirmed /\ t # wizard.type)]

Select ==
    /\ Shown \in Fields \ Typed
    /\ wizard' = [wizard EXCEPT !.set = @ \union {Shown}]

OpenModal ==
    /\ Shown \in Typed
    /\ wizard' = [wizard EXCEPT !.modals = @ \union {Shown}]

SendModal ==
    \E f \in wizard.modals :
        \E set \in {wizard.set \union {f}, wizard.set \ {f}} :
            wizard' = [wizard EXCEPT !.set = set, !.modals = @ \ {f},
                                     !.late = @ \/ (Confirmed /\ f \notin set)]

\* _validate_step looks at the step of the view, not at the one shown.
StepIsValid ==
    CASE wizard.step = 1 -> wizard.type \in Types
      [] wizard.step = LastStep(wizard.type) -> TRUE
      [] OTHER -> Control(wizard.step, wizard.type) \in wizard.set

SaveAndContinue ==
    /\ Shown # "confirm"
    /\ StepIsValid
    /\ wizard' = [wizard EXCEPT !.step = Built(wizard.step + 1, wizard.type)]

Back ==
    /\ Shown # "type"
    /\ wizard' = [wizard EXCEPT !.step = IF wizard.step > 1 THEN wizard.step - 1 ELSE 1]

\* Every field the type needs.
Complete == Needed(wizard.type) \subseteq wizard.set

\* Mutant: the last step stands for those before it.
FinalIsValid_Step == wizard.type \in Types /\ StepIsValid

\* _validate_final: every field of the type, whatever the path to the last step.
FinalIsValid == wizard.type \in Types /\ Complete

\* The confirm button, once: _submitting is never reset.
Submit ==
    /\ Working /\ ~Confirmed
    /\ Shown = "confirm"
    /\ FinalIsValid
    /\ wizard' = [wizard EXCEPT !.outcome = "confirmed"]

\* The payload is built, or given up; what is clicked afterwards is of no account.
Leave(outcome) ==
    wizard' = [NoWizard EXCEPT !.outcome = outcome]

\* The view times out.
CloseWizard ==
    /\ Working /\ ~Confirmed
    /\ Leave("closed")

WizardNext ==
    /\ Working
    /\ \/ Rendered \/ ChooseType \/ Select \/ OpenModal \/ SendModal
       \/ SaveAndContinue \/ Back \/ CloseWizard

WizardTypeOK ==
    /\ wizard \in [step : Nat, type : Types \union {"none"}, set : SUBSET Fields, modals : SUBSET Typed,
                   shown : [step : Nat, type : Types \union {"none"}],
                   outcome : {"none", "confirmed", "submitted", "closed"}, late : BOOLEAN]
    /\ wizard.step <= LastStep(wizard.type)
    /\ wizard.shown.step <= LastStep(wizard.shown.type)
=============================================================================

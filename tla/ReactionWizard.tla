---------------------------- MODULE ReactionWizard ----------------------------
(***************************************************************************)
(* The wizard of /role-reaction-setup (bot/reaction_roles.py): five steps   *)
(* that collect a name, a text, the reactions and a channel, with a picker  *)
(* for one reaction at a time.  A click acts on the view as it is now, even  *)
(* one on a control of an earlier step that is still on the screen.         *)
(*                                                                         *)
(* Abstractions: a name or text is filled in by its modal or keeps its      *)
(* default, so it is never blank; an emoji is an emoji, whatever way it was  *)
(* typed; only the administrator who opened the wizard can use it.          *)
(***************************************************************************)
EXTENDS Naturals, Sequences, SequencesExt

CONSTANTS
    Emoji, Role,
    MaxReactions   \* _MAX_REACTIONS_PER_PANEL

ASSUME WizardAssumption == MaxReactions \in Nat

VARIABLES
    wizard,  \* the view: its step, the steps shown so far, and what was chosen
    unsafe   \* roles that may not be handed out (role_security)

wizardVars == <<wizard, unsafe>>

Steps    == 1 .. 5
None     == "none"
Picker   == [open : BOOLEAN, emoji : Emoji \union {None}, role : Role \union {None}]
NoPicker == [open |-> FALSE, emoji |-> None, role |-> None]
NoWizard == [step |-> 0, shown |-> {}, reactions |-> <<>>, channel |-> FALSE,
             picker |-> NoPicker]

WizardInit == wizard = NoWizard /\ unsafe = {}

Reactions == ToSet(wizard.reactions)
OnStep(s) == wizard.step # 0 /\ s \in wizard.shown

OpenWizard ==
    /\ wizard = NoWizard
    /\ wizard' = [NoWizard EXCEPT !.step = 1, !.shown = {1}]

Enter(s) == wizard' = [wizard EXCEPT !.step = s, !.shown = @ \union {s}]

\* The checks of the step the view is on, and the next one.
Continue ==
    /\ wizard.step # 0
    /\ wizard.step = 3 => wizard.reactions # <<>>
    /\ wizard.step = 4 => wizard.channel
    /\ Enter(IF wizard.step < 5 THEN wizard.step + 1 ELSE 5)

Back ==
    /\ OnStep(2)
    /\ Enter(IF wizard.step > 1 THEN wizard.step - 1 ELSE 1)

CancelWizard ==
    /\ OnStep(1)
    /\ wizard' = NoWizard

ChooseChannel ==
    /\ OnStep(4)
    /\ wizard' = [wizard EXCEPT !.channel = TRUE]

AddReaction ==
    /\ OnStep(3)
    /\ wizard' = [wizard EXCEPT !.picker = [NoPicker EXCEPT !.open = TRUE]]

PickEmoji ==
    /\ wizard.picker.open
    /\ \E e \in Emoji : wizard' = [wizard EXCEPT !.picker.emoji = e]

\* A role that may not be handed out is refused at once.
PickRole ==
    /\ wizard.picker.open
    /\ \E r \in Role \ unsafe : wizard' = [wizard EXCEPT !.picker.role = r]

\* Room for one more, and neither the emoji nor the role is taken.
Fits(e, r) ==
    /\ Len(wizard.reactions) < MaxReactions
    /\ \A x \in Reactions : x.emoji # e /\ x.role # r

SaveReaction ==
    LET p == wizard.picker IN
    /\ p.open /\ p.emoji # None /\ p.role # None
    /\ Fits(p.emoji, p.role)
    /\ wizard' = [wizard EXCEPT !.reactions = Append(@, [emoji |-> p.emoji, role |-> p.role]),
                                !.picker = NoPicker]

LeavePicker ==
    /\ wizard.picker.open
    /\ wizard' = [wizard EXCEPT !.picker = NoPicker]

\* What "Confirm and Send Panel" asks of the wizard before the panel is posted, and
\* of the roles once more before it is stored.
MayConfirm ==
    /\ OnStep(5)
    /\ wizard.channel
    /\ wizard.reactions # <<>>
    /\ \A x \in Reactions : x.role \notin unsafe

\* emoji -> role of the panel that is stored.
Chosen == [e \in Emoji |->
             IF \E x \in Reactions : x.emoji = e
             THEN (CHOOSE x \in Reactions : x.emoji = e).role
             ELSE None]

WizardSteps ==
    \/ OpenWizard \/ Continue \/ Back \/ CancelWizard \/ ChooseChannel
    \/ AddReaction \/ PickEmoji \/ PickRole \/ SaveReaction \/ LeavePicker

WizardTypeOK ==
    /\ wizard \in [step : {0} \union Steps, shown : SUBSET Steps,
                   reactions : Seq([emoji : Emoji, role : Role]), channel : BOOLEAN,
                   picker : Picker]
    /\ unsafe \subseteq Role
    /\ Len(wizard.reactions) <= MaxReactions
=============================================================================

---------------------------- MODULE ReactionPanels ----------------------------
(***************************************************************************)
(* The publication of one reaction-role panel (bot/reaction_roles.py and   *)
(* the adapter bot/reaction_configuration.py).  Publication o sends message *)
(* o and keeps a runtime record until it is over: creating the panel,      *)
(* "Send panel again", and the editor's move to another channel.  Where the *)
(* panel stays, the editor brings its message up to date in place.         *)
(*                                                                         *)
(* Only the editor and the removal of the setup take the lifecycle lock:   *)
(* the other publications, the Delete button and the sweep that runs each  *)
(* minute interleave at every await.  Code between two awaits is one action; *)
(* a failed call or a crash uses up one of MaxFailures.  The status of a    *)
(* record is never read, so a record is only what its payload knows.  All   *)
(* pending resets are one, cleared and stored in one step; the summary for  *)
(* the administrators is left out.                                         *)
(***************************************************************************)
EXTENDS Integers

CONSTANTS
    MaxOps,     \* bound: publications ever started
    MaxOverlaps,\* bound: commands given while an earlier one is not finished
    MaxChanges, \* bound: edits of the panel
    MaxFailures \* bound: failed calls, crashes, lost rights

ASSUME ReactionPanelAssumption ==
    /\ MaxOps \in Nat \ {0}
    /\ MaxFailures \in Nat /\ MaxOverlaps \in Nat /\ MaxChanges \in Nat

VARIABLES
    configured, \* the server has a bot setup
    panel,      \* the stored panel: its message, whether it must move, and whether
                \* reactions wait to be cleared
    refreshDue, \* its refresh was never done, or is pending
    record,     \* the record of each publication: none, unknown message, known
    plan,       \* what each publication is, and the message it replaces
    message,    \* the message of each publication
    task,       \* where the code of each publication is
    job,        \* the records the sweep and the editor still go through
    lifecycle,  \* holder of the lifecycle lock
    teardown,   \* the removal: none, to do, at the message, done
    deleter,    \* the Delete button: idle, or about to forget the panel
    changes, failures,
    raced,      \* history: the sweep judged a publication that was running
    reverted,   \* history: the editor stored an outdated panel over another, or over none
    overlaps,   \* history: commands given while another was not finished
    removed     \* history: Delete was pressed, the panel was forgotten

publicationVars == <<configured, panel, refreshDue, record, plan, message, task, job, lifecycle,
                     teardown, deleter, changes, failures, raced, reverted, overlaps, removed>>

Op       == 1 .. MaxOps
Cleaner  == {"sweep", "editor"}
NoPanel  == [state |-> "none", msg |-> 0, moving |-> FALSE, resets |-> FALSE]
NoJob    == [active |-> FALSE, seen |-> [o \in Op |-> "none"], step |-> "judge", op |-> 0,
             read |-> NoPanel]
NoPlan   == [kind |-> "none", prev |-> 0]
Over     == {"idle", "done"}

PanelInit ==
    /\ configured = TRUE
    /\ panel = NoPanel
    /\ refreshDue = TRUE
    /\ record = [o \in Op |-> "none"]
    /\ plan = [o \in Op |-> NoPlan]
    /\ message = [o \in Op |-> "unsent"]
    /\ task = [o \in Op |-> "idle"]
    /\ job = [c \in Cleaner |-> NoJob]
    /\ lifecycle = "none"
    /\ teardown = "none"
    /\ deleter = "idle"
    /\ changes = 0
    /\ failures = 0
    /\ raced = FALSE
    /\ reverted = FALSE
    /\ overlaps = 0
    /\ removed = "no"

Failure   == failures < MaxFailures /\ failures' = failures + 1
NoFailure == UNCHANGED failures

\* _get_panel_by_id: a disabled entry has no panels.
Stored      == panel.state = "set"
InForce(o)  == Stored /\ panel.msg = o
Running(o)  == task[o] \notin Over
SomeRunning == deleter # "idle" \/ \E o \in Op : Running(o)
Unsettled   == SomeRunning \/ lifecycle # "none" \/ \E o \in Op : record[o] # "none"

\* A command of an administrator, given in the middle of another or not.
Command(inside) ==
    /\ inside => overlaps < MaxOverlaps
    /\ overlaps' = IF inside THEN overlaps + 1 ELSE overlaps

Record(o, r)  == record' = [record EXCEPT ![o] = r]
Post(o, s)    == message' = [message EXCEPT ![o] = s]
Step(o, s)    == task' = [task EXCEPT ![o] = s]

\* The publication is over; the editor's gives the lock back.
End(o) ==
    /\ Step(o, "done")
    /\ lifecycle' = IF plan[o].kind = "move" THEN "none" ELSE lifecycle

Noted       == UNCHANGED <<raced, reverted, removed>>
RefreshKept == UNCHANGED <<refreshDue, changes>>

-----------------------------------------------------------------------------
(* Starting a publication: the record first, then the send.                *)

Start(o, kind, prev) ==
    /\ task[o] = "idle"
    /\ \A p \in Op : p < o => task[p] # "idle"
    /\ plan' = [plan EXCEPT ![o] = [kind |-> kind, prev |-> prev]]
    /\ Step(o, "send")

\* The candidate has no coordinates of its own yet.
Prepared(o) == record' = [record EXCEPT ![o] = "unknown"]

\* One panel is modelled: another one is created where the first came to nothing.
Create(o) ==
    /\ configured
    /\ panel = NoPanel /\ removed = "no" /\ \A p \in Op : ~Running(p)
    /\ Start(o, "create", 0)
    /\ Prepared(o)
    /\ Command(Unsettled)
    /\ UNCHANGED <<configured, panel, message, job, lifecycle, teardown, deleter, failures>>
    /\ RefreshKept /\ Noted

\* A Manage view is opened in a server with a setup, and dies with the process.
Managed == Stored /\ (configured \/ lifecycle = "removal")

SendAgain(o) ==
    /\ Managed
    /\ Start(o, "resend", panel.msg)
    /\ Command(Unsettled)
    /\ Prepared(o)
    /\ UNCHANGED <<configured, panel, message, job, lifecycle, teardown, deleter, failures>>
    /\ RefreshKept /\ Noted

\* The editor stores a new text, other mappings or another destination; the refresh
\* is owed from then on.  With another destination every mapping is reset.
EditPanel ==
    /\ configured /\ Stored /\ lifecycle = "none"
    /\ changes < MaxChanges /\ changes' = changes + 1
    /\ \E moving, resets \in BOOLEAN :
         /\ moving => \E o \in Op : task[o] = "idle"
         /\ panel' = [panel EXCEPT !.moving = moving, !.resets = @ \/ moving \/ resets]
         /\ panel' # panel \/ ~refreshDue
    /\ refreshDue' = TRUE
    /\ Command(SomeRunning)
    /\ UNCHANGED <<configured, record, plan, message, task, job, lifecycle, teardown, deleter,
                   failures>>
    /\ Noted

EditorTurn == job["editor"].active /\ job["editor"].op = 0

\* refresh, at once or by the reconciler: it keeps the panel it has read.  (The
\* bound MaxOps leaves one more publication for a move.)
Refresh ==
    /\ configured /\ Stored /\ lifecycle = "none" /\ refreshDue
    /\ panel.moving => \E o \in Op : task[o] = "idle"
    /\ lifecycle' = "editor"
    /\ job' = [job EXCEPT !["editor"] =
                   [NoJob EXCEPT !.active = TRUE, !.seen = record, !.read = panel]]
    /\ Command(SomeRunning)
    /\ UNCHANGED <<configured, panel, record, plan, message, task, teardown, deleter, failures>>
    /\ RefreshKept /\ Noted

EditorGivesUp ==
    /\ job' = [job EXCEPT !["editor"] = NoJob]
    /\ lifecycle' = "none"

\* A call of the editor fails (or MaxOps is reached): the refresh stays owed.
EditorFails ==
    /\ EditorTurn
    /\ Failure \/ (NoFailure /\ job["editor"].read.moving /\ \A o \in Op : task[o] # "idle")
    /\ EditorGivesUp
    /\ UNCHANGED <<configured, panel, record, plan, message, task, teardown, deleter,
                   overlaps>>
    /\ RefreshKept /\ Noted

\* The records are behind it.
Tidied == \A p \in Op : job["editor"].seen[p] = "none"

\* The editor posts the panel it has read elsewhere.
Move(o) ==
    /\ EditorTurn /\ job["editor"].step = "judge" /\ Tidied
    /\ job["editor"].read.moving
    /\ Start(o, "move", job["editor"].read.msg)
    /\ Prepared(o)
    /\ job' = [job EXCEPT !["editor"] = NoJob]
    /\ UNCHANGED <<configured, panel, message, lifecycle, teardown, deleter, failures,
                   overlaps>>
    /\ RefreshKept /\ Noted

InPlaceFrame == UNCHANGED <<configured, record, plan, task, teardown, deleter, changes, overlaps,
                            raced, removed>>

RefreshDone == EditorGivesUp /\ refreshDue' = FALSE

\* The panel stays where it is: its message is fetched; without one there is nothing
\* to refresh, and nothing to try again.
FetchMessage ==
    /\ EditorTurn /\ job["editor"].step = "judge" /\ Tidied
    /\ ~job["editor"].read.moving
    /\ IF message[job["editor"].read.msg] = "gone" THEN RefreshDone
       ELSE job' = [job EXCEPT !["editor"].step = "refresh"] /\ UNCHANGED <<lifecycle, refreshDue>>
    /\ UNCHANGED <<panel, message, failures, reverted>>
    /\ InPlaceFrame

\* A reset is carried out, and the panel that was read before is stored without it.
ResetReactions ==
    /\ EditorTurn /\ job["editor"].step = "refresh" /\ job["editor"].read.resets
    /\ LET done == [job["editor"].read EXCEPT !.resets = FALSE] IN
       IF message[done.msg] = "gone"
       THEN EditorGivesUp /\ UNCHANGED <<panel, reverted>>
       ELSE /\ panel' = done
            /\ reverted' = (reverted \/ ~InForce(done.msg))
            /\ job' = [job EXCEPT !["editor"].read = done]
            /\ UNCHANGED lifecycle
    /\ UNCHANGED <<refreshDue, message, failures>>
    /\ InPlaceFrame

\* Text, buttons and reactions of that message, whatever became of it.
EditMessage ==
    /\ EditorTurn /\ job["editor"].step = "refresh" /\ ~job["editor"].read.resets
    /\ LET o == job["editor"].read.msg IN
       \/ message[o] = "gone" /\ UNCHANGED message /\ NoFailure /\ EditorGivesUp
          /\ UNCHANGED refreshDue
       \/ message[o] # "gone" /\ Post(o, "live") /\ NoFailure /\ RefreshDone
       \/ message[o] # "gone" /\ Post(o, "live") /\ Failure /\ EditorGivesUp
          /\ UNCHANGED refreshDue
    /\ UNCHANGED <<panel, reverted>>
    /\ InPlaceFrame

-----------------------------------------------------------------------------
(* The steps of a publication                                              *)

Crash ==
    /\ task' = [o \in Op |-> IF Running(o) THEN "done" ELSE task[o]]
    /\ job' = [c \in Cleaner |-> NoJob]
    /\ lifecycle' = "none"
    /\ teardown' = IF teardown = "message" THEN "todo" ELSE teardown
    /\ deleter' = "idle"

BotRestart ==
    /\ SomeRunning \/ lifecycle # "none" \/ job["sweep"].active
    /\ Failure
    /\ Crash
    /\ UNCHANGED <<configured, panel, record, plan, message, overlaps>>
    /\ RefreshKept /\ Noted

PublicationFrame ==
    UNCHANGED <<configured, plan, teardown, deleter, overlaps>> /\ RefreshKept /\ Noted

\* A placeholder without buttons; its id is recorded before anything else.
Send(o) ==
    /\ task[o] = "send"
    /\ Post(o, "placeholder")
    /\ Record(o, "known")
    /\ Step(o, "fill")
    /\ NoFailure
    /\ UNCHANGED <<panel, job, lifecycle>>
    /\ PublicationFrame

\* The process dies before the id is recorded.
SendCrash(o) ==
    /\ task[o] = "send"
    /\ Failure
    /\ Post(o, "placeholder")
    /\ Crash
    /\ UNCHANGED <<configured, panel, record, plan, overlaps>>
    /\ RefreshKept /\ Noted

\* The call raises, with or without a message: there is nothing to take back,
\* the record is deleted, and the placeholder stays as a line of text.
SendLost(o) ==
    /\ task[o] = "send"
    /\ Failure
    /\ message[o] = "unsent"
    /\ Post(o, "inert") \/ UNCHANGED message
    /\ Record(o, "none")
    /\ End(o)
    /\ UNCHANGED <<panel, job>>
    /\ PublicationFrame

\* _abort_publish: marked for cleanup, whatever the sweep did with the record.
BeginAbort(o) ==
    /\ Record(o, "known")
    /\ Step(o, "abort")

\* Embed and buttons, then the reactions.
Fill(o) ==
    /\ task[o] = "fill"
    /\ \/ message[o] = "placeholder" /\ Post(o, "live") /\ Step(o, "react")
          /\ NoFailure /\ UNCHANGED record
       \/ (IF message[o] = "placeholder" THEN Failure ELSE NoFailure)
          /\ BeginAbort(o) /\ UNCHANGED message
    /\ UNCHANGED <<panel, job, lifecycle>>
    /\ PublicationFrame

React(o) ==
    /\ task[o] = "react"
    /\ \/ message[o] = "live" /\ Record(o, "known") /\ Step(o, "confirm") /\ NoFailure
       \/ (IF message[o] = "live" THEN Failure ELSE NoFailure) /\ BeginAbort(o)
    /\ UNCHANGED <<panel, message, job, lifecycle>>
    /\ PublicationFrame

\* Mutant: a message that is not there any more is an error.
Compensated_There(o) ==
    /\ message[o] \notin {"unsent", "gone"}
    /\ \/ Post(o, "gone") /\ NoFailure
       \/ Post(o, "inert") /\ Failure

\* _compensate_publish_message: deleted, or at least without buttons.
Compensated(o) ==
    IF message[o] \in {"unsent", "gone"} THEN UNCHANGED message /\ NoFailure
    ELSE \/ Post(o, "gone") /\ NoFailure
         \/ Post(o, "inert") /\ Failure

NotCompensated(o) == message[o] \notin {"unsent", "gone"} /\ Failure /\ UNCHANGED message

Abort(o) ==
    /\ task[o] = "abort"
    /\ \/ Compensated(o) /\ Record(o, "none")
       \/ NotCompensated(o) /\ UNCHANGED record
    /\ End(o)
    /\ UNCHANGED <<panel, job>>
    /\ PublicationFrame

\* Mutant: a resend stores its candidate without looking for the panel again.
MayCommit_Blind(o) == plan[o].kind = "create" => configured

\* The server still has a setup; the panel still exists; the editor does not look.
MayCommit(o) ==
    CASE plan[o].kind = "create" -> configured
      [] plan[o].kind = "resend" -> Stored
      [] OTHER                   -> TRUE

\* _save_panel.  A resend takes over a panel that was edited meanwhile, with its
\* resets, and may have used the channel stored before or after the edit.
Commit(o) ==
    LET taken(was) == plan[o].kind = "resend" /\ was IN
    \E moving \in {FALSE, taken(panel.moving)} :
        panel' = [state |-> "set", msg |-> o, moving |-> moving, resets |-> taken(panel.resets)]

Confirm(o) ==
    /\ task[o] = "confirm"
    /\ MayCommit(o)
    /\ Commit(o)
    /\ IF plan[o].kind = "create"
       THEN Record(o, "none") /\ End(o)
       ELSE Step(o, "retire") /\ UNCHANGED <<record, lifecycle>>
    /\ UNCHANGED <<message, job, failures>>
    /\ PublicationFrame

\* The process dies after the panel was stored.
ConfirmCrash(o) ==
    /\ task[o] = "confirm"
    /\ MayCommit(o)
    /\ Failure
    /\ Commit(o)
    /\ Crash
    /\ UNCHANGED <<configured, record, plan, message, overlaps>>
    /\ RefreshKept /\ Noted

\* The setup or the panel is gone, or the administrator has lost his rights.
Refuse(o) ==
    /\ task[o] = "confirm" /\ plan[o].kind # "move"
    /\ IF MayCommit(o) THEN Failure ELSE NoFailure
    /\ BeginAbort(o)
    /\ UNCHANGED <<panel, message, job, lifecycle>>
    /\ PublicationFrame

\* _disable_previous_reaction_panel_message
Disabled(p) ==
    message' = [o \in Op |-> IF o = p /\ message[o] # "gone" THEN "inert" ELSE message[o]]

\* The editor goes on to bring the new message up to date.
GoesOn(o) ==
    IF plan[o].kind # "move" THEN UNCHANGED <<job, lifecycle>>
    ELSE /\ job' = [job EXCEPT !["editor"] =
                       [NoJob EXCEPT !.active = TRUE, !.step = "refresh",
                                     !.read = [NoPanel EXCEPT !.state = "set", !.msg = o]]]
         /\ UNCHANGED lifecycle

Retire(o) ==
    /\ task[o] = "retire"
    /\ \/ /\ Disabled(plan[o].prev) /\ Record(o, "none") /\ NoFailure
          /\ Step(o, "done") /\ GoesOn(o)
       \/ /\ Failure /\ UNCHANGED <<message, job>>
          /\ IF plan[o].kind = "resend" THEN Record(o, "known") ELSE UNCHANGED record
          /\ End(o)
    /\ UNCHANGED panel
    /\ PublicationFrame

-----------------------------------------------------------------------------
(* The sweep, and the editor cleaning up before it refreshes the panel      *)

\* All records are read at once.
SweepRecords ==
    /\ ~job["sweep"].active
    /\ \E o \in Op : record[o] # "none"
    /\ job' = [job EXCEPT !["sweep"] = [NoJob EXCEPT !.active = TRUE, !.seen = record]]
    /\ UNCHANGED <<configured, panel, record, plan, message, task, lifecycle, teardown, deleter,
                   failures, overlaps>>
    /\ RefreshKept /\ Noted

CleaningFrame ==
    /\ UNCHANGED <<configured, panel, plan, task, teardown, deleter, reverted, overlaps, removed>>
    /\ RefreshKept

\* With this record done, the sweep ends when there is no other.
Passed(c, o) ==
    LET seen == [job[c].seen EXCEPT ![o] = "none"] IN
    job' = [job EXCEPT ![c] =
               [@ EXCEPT !.seen = seen, !.op = 0, !.step = "judge",
                         !.active = c = "editor" \/ \E p \in Op : seen[p] # "none"]]

\* Mutant: the candidate keeps the coordinates of the panel it is to replace.
Committed_Active(o, known) ==
    \/ known = "known" /\ InForce(o)
    \/ known = "unknown" /\ InForce(plan[o].prev)

\* _publication_was_committed: the coordinates the record had when it was read.
Committed(o, known) == known = "known" /\ InForce(o)

\* By the id, or by the marker that only the placeholder has.
Resolved(o, known) == known = "known" \/ message[o] = "placeholder"

Judge(c) ==
    /\ job[c].active /\ job[c].op = 0
    /\ \E o \in Op :
         LET seen == job[c].seen[o]
             Then(step) == /\ job' = [job EXCEPT ![c].op = o, ![c].step = step]
                           /\ UNCHANGED record
         IN
         /\ seen # "none"
         /\ \A p \in Op : p < o => job[c].seen[p] = "none"
         /\ raced' = (raced \/ (~Committed(o, seen) /\
                        (Running(o) \/ record[o] \notin {"none", seen})))
         /\ CASE Committed(o, seen) /\ plan[o].kind # "create"   -> Then("retire")
              [] ~Committed(o, seen) /\ Resolved(o, seen)        -> Then("undo")
              [] OTHER -> Record(o, "none") /\ Passed(c, o)
    /\ UNCHANGED <<message, lifecycle, failures>>
    /\ CleaningFrame

\* The sweep tries again in a minute; the editor does not touch the panel.
CleaningFailed(c, o) ==
    /\ UNCHANGED <<record, message>>
    /\ IF c = "editor" THEN EditorGivesUp ELSE Passed(c, o) /\ UNCHANGED lifecycle

Clean(c) ==
    /\ job[c].active /\ job[c].op # 0
    /\ LET o == job[c].op IN
       \/ /\ job[c].step = "retire"
          /\ \/ Disabled(plan[o].prev) /\ NoFailure /\ Record(o, "none")
                /\ Passed(c, o) /\ UNCHANGED lifecycle
             \/ Failure /\ CleaningFailed(c, o)
       \/ /\ job[c].step = "undo"
          /\ \/ Compensated(o) /\ Record(o, "none") /\ Passed(c, o) /\ UNCHANGED lifecycle
             \/ NotCompensated(o) /\ CleaningFailed(c, o)
    /\ UNCHANGED raced
    /\ CleaningFrame

-----------------------------------------------------------------------------
(* Deleting the panel, and removing the setup                               *)

\* The message goes first; an error is ignored.
DeleteMessage ==
    /\ deleter = "idle"
    /\ Managed
    /\ \/ Post(panel.msg, "gone") /\ NoFailure
       \/ Failure /\ UNCHANGED message
    /\ Command(Unsettled)
    /\ deleter' = "forget"
    /\ removed' = IF removed = "no" THEN "pressed" ELSE removed
    /\ UNCHANGED <<configured, panel, record, plan, task, job, lifecycle, teardown, raced, reverted>>
    /\ RefreshKept

\* The panel of that id, whatever its message is by now.
ForgetPanel ==
    /\ deleter = "forget"
    /\ deleter' = "idle"
    /\ \/ Stored /\ panel' = NoPanel /\ removed' = "yes" /\ NoFailure
       \/ (IF Stored THEN Failure ELSE NoFailure) /\ UNCHANGED <<panel, removed>>
    /\ UNCHANGED <<configured, record, plan, message, task, job, lifecycle, teardown, raced,
                   reverted, overlaps>>
    /\ RefreshKept

RemovalFrame ==
    /\ UNCHANGED <<record, plan, task, job, deleter>>
    /\ RefreshKept /\ Noted

RemoveSetup ==
    /\ configured /\ lifecycle = "none"
    /\ configured' = FALSE
    /\ lifecycle' = "removal"
    /\ teardown' = "todo"
    /\ Command(Unsettled)
    /\ UNCHANGED <<panel, message, failures>>
    /\ RemovalFrame

\* At once, or by the reconciler after a restart.
DisableEntry ==
    /\ teardown = "todo" /\ lifecycle \in {"none", "removal"}
    /\ IF panel.state = "none"
       THEN teardown' = "done" /\ lifecycle' = "none" /\ UNCHANGED panel
       ELSE teardown' = "message" /\ lifecycle' = "removal"
            /\ panel' = [panel EXCEPT !.state = "disabled"]
    /\ UNCHANGED <<configured, message, failures, overlaps>>
    /\ RemovalFrame

\* A panel that cannot be cleaned leaves the disabled entry behind, for good.
DisableMessage ==
    /\ teardown = "message"
    /\ teardown' = "done"
    /\ lifecycle' = "none"
    /\ \/ Disabled(panel.msg) /\ panel' = NoPanel /\ NoFailure
       \/ Failure /\ UNCHANGED <<panel, message>>
    /\ UNCHANGED <<configured, overlaps>>
    /\ RemovalFrame

-----------------------------------------------------------------------------
Publishing(o) ==
    Send(o) \/ Fill(o) \/ React(o) \/ Abort(o) \/ Confirm(o) \/ Refuse(o) \/ Retire(o)
Cleaning      == SweepRecords \/ \E c \in Cleaner : Judge(c) \/ Clean(c)
Editing       ==
    Refresh \/ EditorFails \/ FetchMessage \/ ResetReactions \/ EditMessage \/ \E o \in Op : Move(o)

\* What the program goes on with by itself.
PanelBackground ==
    \/ \E o \in Op : Publishing(o)
    \/ Cleaning
    \/ Editing
    \/ ForgetPanel
    \/ DisableEntry
    \/ DisableMessage

PanelNext ==
    \/ PanelBackground
    \/ \E o \in Op : Create(o) \/ SendAgain(o) \/ SendCrash(o) \/ SendLost(o) \/ ConfirmCrash(o)
    \/ EditPanel
    \/ BotRestart
    \/ DeleteMessage
    \/ RemoveSetup

PanelSpec     == PanelInit /\ [][PanelNext]_publicationVars
FairPanelSpec == PanelSpec /\ WF_publicationVars(PanelBackground)

-----------------------------------------------------------------------------
(* Every variable keeps its type, and the editor holds the lock for as long as it
   cleans up and refreshes or moves the panel, and no longer. *)
PanelTypeOK ==
    LET Panel == [state : {"none", "set", "disabled"}, msg : Op \union {0}, moving : BOOLEAN,
                  resets : BOOLEAN]
    IN
    /\ configured \in BOOLEAN
    /\ panel \in Panel
    /\ refreshDue \in BOOLEAN
    /\ record \in [Op -> {"none", "unknown", "known"}]
    /\ plan \in [Op -> [kind : {"none", "create", "resend", "move"}, prev : Op \union {0}]]
    /\ message \in [Op -> {"unsent", "placeholder", "live", "inert", "gone"}]
    /\ task \in [Op -> {"idle", "send", "fill", "react", "abort", "confirm", "retire", "done"}]
    /\ job \in [Cleaner -> [active : BOOLEAN, seen : [Op -> {"none", "unknown", "known"}],
                            step : {"judge", "retire", "undo", "refresh"},
                            op : Op \union {0}, read : Panel]]
    /\ lifecycle \in {"none", "editor", "removal"}
    /\ teardown \in {"none", "todo", "message", "done"}
    /\ deleter \in {"idle", "forget"}
    /\ changes \in 0 .. MaxChanges
    /\ failures \in 0 .. MaxFailures
    /\ overlaps \in 0 .. MaxOverlaps
    /\ raced \in BOOLEAN /\ reverted \in BOOLEAN
    /\ removed \in {"no", "pressed", "yes"}
    /\ lifecycle = "editor" <=>
         job["editor"].active \/ \E o \in Op : Running(o) /\ plan[o].kind = "move"

(* The panel in force is a message with working buttons: neither the clean-up of
   an interrupted publication nor the retirement of a replaced message takes it
   down, nor does the editor, as long as the sweep judged no publication while it
   was running, the editor stored no panel it had read before another was put in
   force, and nobody pressed Delete. *)
PanelInForceIsLive ==
    Stored /\ ~raced /\ ~reverted /\ removed = "no" => message[panel.msg] = "live"

(* A message with buttons (or on its way to have them) is the panel in force, or
   somebody still has to retire it: its own publication, or the one that replaces
   it.  It can be lost only when commands overlap, when the sweep judges a running
   publication, or when Delete cannot delete the message. *)
LiveIsOwned ==
    \A o \in Op :
        message[o] \in {"placeholder", "live"} /\ ~raced /\ overlaps = 0 /\ removed = "no" =>
            \/ panel.state # "none" /\ panel.msg = o
            \/ record[o] # "none" \/ Running(o)
            \/ \E q \in Op : plan[q].prev = o /\ (record[q] # "none" \/ Running(q))

(* The stored panel and the messages agree: what is in force works, and what works is
   in force or will be retired. *)
PanelsAgree == PanelTypeOK /\ PanelInForceIsLive /\ LiveIsOwned

(* "Send panel again" does not bring back a panel that was deleted while it was
   being sent; only the editor can, which does not look again before it stores the
   panel of a move, or the one it has read, without a reset it carried out. *)
DeletedStaysDeleted ==
    removed = "yes" /\ Stored => reverted \/ \E o \in Op : plan[o].kind = "move"

(* Again and again no publication has a record left: the publication itself, the
   sweep or the editor finishes or compensates it, whatever crashed. *)
PublicationsSettle == []<>(\A o \in Op : record[o] = "none")

(* "Compensate interrupted publishes without deleting committed panels": the
   message of a stored panel is never taken down by the bot.  (A panel the editor
   put back is not what the sentence is about.) *)
CommittedPanelIsKept ==
    Stored /\ ~reverted /\ removed = "no" => message[panel.msg] = "live"
=============================================================================

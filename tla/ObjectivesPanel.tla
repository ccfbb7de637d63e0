---------------------------- MODULE ObjectivesPanel ----------------------------
(***************************************************************************)
(* The objectives panel of one server (bot/objectives.py and the adapter   *)
(* bot/objective_configuration.py): a message with buttons, published with *)
(* a runtime record so that a publication that broke off is completed or   *)
(* undone by the reconciler.                                               *)
(*                                                                         *)
(* Every operation runs under the objectives lock of the server (runner    *)
(* Lock).  The teardown of the configuration (runner Removal) does not take *)
(* it.  Code between two awaits is one action; a failed Discord call or a  *)
(* crash between two commits uses up one of MaxFaults.                     *)
(***************************************************************************)
EXTENDS Integers, FiniteSets

CONSTANTS
    Lock, Removal,  \* the runners
    MaxPanels,      \* bound: panel messages ever sent
    MaxFaults       \* bound: failed calls, crashes, deeds of moderators

ASSUME PanelAssumption ==
    /\ MaxPanels \in Nat
    /\ MaxFaults \in Nat
    /\ Lock # Removal

VARIABLES
    configured,  \* the server has a bot setup
    entry,       \* the stored objectives entry, without its objectives
    pub,         \* the publication record; mark is the message carrying its marker
    panels,      \* the panel messages
    run,         \* what each runner is doing, and for whom
    faults,
    replaced     \* history variable: an unfinished publication was overwritten

panelVars == <<entry, pub, panels, replaced>>

Panel   == 1 .. MaxPanels
NoEntry == [exists |-> FALSE, disabled |-> FALSE, panel |-> 0]
NoPub   == [status |-> "none", msg |-> 0, prev |-> 0, mark |-> 0]
Idle    == [step |-> "idle", for |-> "bot"]

Unfinished == {"pending", "message_ready", "old_cleanup_pending"}
PubStatus  == Unfinished \union {"none", "completed", "cancelled", "compensation_pending"}

PanelInit ==
    /\ configured = TRUE
    /\ entry = NoEntry
    /\ pub = NoPub
    /\ panels = [p \in Panel |-> "unsent"]
    /\ run = [r \in {Lock, Removal} |-> Idle]
    /\ faults = 0
    /\ replaced = FALSE

At(r, s)   == run[r].step = s
Go(r, s)   == run' = [run EXCEPT ![r].step = s]
Begin(r, s, f) == run' = [run EXCEPT ![r] = [step |-> s, for |-> f]]
Stop(r)    == run' = [run EXCEPT ![r] = Idle]
Crash      == run' = [r \in {Lock, Removal} |-> Idle]
Free       == At(Lock, "idle")
Fault      == faults < MaxFaults /\ faults' = faults + 1
NoFault    == UNCHANGED faults

\* No setup, or an entry that is being retired: nothing new is published.
Active == configured /\ ~entry.disabled

\* The panel a button or a creation was made for is the one in force.
Current(p) == Active /\ entry.exists /\ entry.panel = p /\ p # 0

-----------------------------------------------------------------------------
(* Publication                                                             *)

\* _persist_panel_publication("pending"): a new marker, the panel in force as
\* the previous one, and whatever the record said before is gone.
Publish(for) ==
    /\ \E p \in Panel : panels[p] = "unsent"
    /\ pub' = [NoPub EXCEPT !.status = "pending", !.prev = entry.panel]
    /\ replaced' = (replaced \/ pub.status \in Unfinished \union {"compensation_pending"})
    /\ Begin(Lock, "check", for)
    /\ UNCHANGED <<configured, panels, faults>>

\* /set-objective-panel in another channel, or where the message is gone.
PostPanel ==
    /\ Free
    /\ Active
    /\ entry' = [entry EXCEPT !.exists = TRUE]
    /\ Publish("admin")

\* The editor moves the panel; it completes an unfinished publication first.
MovePanel ==
    /\ Free
    /\ entry.panel # 0 /\ Current(entry.panel)
    /\ panels[entry.panel] = "live"
    /\ pub.status \notin Unfinished
    /\ Publish("editor")
    /\ UNCHANGED entry

ResumePanel ==
    /\ Free
    /\ \/ pub.status \in Unfinished /\ Begin(Lock, "check", "bot")
       \/ pub.status = "compensation_pending" /\ Begin(Lock, "undo", "bot")
    /\ UNCHANGED <<configured, panelVars, faults>>

CheckPanel ==
    /\ At(Lock, "check")
    /\ Go(Lock, IF Active THEN "send" ELSE "undo")
    /\ UNCHANGED <<configured, panelVars, faults>>

There(p) == p # 0 /\ panels[p] \in {"live", "inert"}

\* By its id, then by the marker in the history of the channel.
Located ==
    CASE There(pub.msg)  -> {pub.msg}
      [] There(pub.mark) -> {pub.mark}
      [] OTHER           -> {}

\* discover_existing: the first attempt does not search.
Discovered == IF run[Lock].for = "bot" THEN Located ELSE {}

NewPanel(p) == panels[p] = "unsent" /\ \A q \in Panel : panels[q] = "unsent" => p <= q

\* The message there is, or a new one.
Sent(p) ==
    IF Discovered # {}
    THEN p \in Discovered /\ UNCHANGED panels
    ELSE NewPanel(p) /\ panels' = [panels EXCEPT ![p] = "live"]

Ready(p) == [pub EXCEPT !.status = "message_ready", !.msg = p, !.mark = p]

SetPanel(p) == entry' = [entry EXCEPT !.exists = TRUE, !.panel = p]

\* The id is stored and the panel put in force, or, if the setup went away or the
\* administrator lost his rights meanwhile, the message is taken back.
SendPanel ==
    /\ At(Lock, "send")
    /\ \E p \in Panel :
         /\ Sent(p)
         /\ pub' = Ready(p)
         /\ \/ Active /\ SetPanel(p) /\ Go(Lock, "swap") /\ NoFault
            \/ ~Active /\ Go(Lock, "undo") /\ NoFault /\ UNCHANGED entry
            \/ run[Lock].for = "admin" /\ Fault /\ Go(Lock, "undo") /\ UNCHANGED entry
    /\ UNCHANGED <<configured, replaced>>

\* The call raises, with or without a message; the record stays as it was.
SendLost ==
    /\ At(Lock, "send")
    /\ Fault
    /\ \/ UNCHANGED <<panels, pub>>
       \/ Discovered = {} /\ \E p \in Panel :
            Sent(p) /\ pub' = [pub EXCEPT !.mark = p]
    /\ Stop(Lock)
    /\ UNCHANGED <<configured, entry, replaced>>

\* The process dies after the first or the second commit that follows the send.
SendCrash ==
    /\ At(Lock, "send")
    /\ Fault
    /\ \E p \in Panel :
         /\ Sent(p)
         /\ pub' = Ready(p)
         /\ (Active /\ SetPanel(p)) \/ UNCHANGED entry
    /\ Crash
    /\ UNCHANGED <<configured, replaced>>

Settle(status) == pub' = [pub EXCEPT !.status = status]

\* Mutant: the old panel is the one stored, read after the new one was stored.
Swapped_Stored == panels' = [panels EXCEPT ![entry.panel] = "inert"]

\* The previous message is deleted, or made inert where deleting is forbidden.
Swapped ==
    IF There(pub.prev)
    THEN \E s \in {"gone", "inert"} : panels' = [panels EXCEPT ![pub.prev] = s]
    ELSE UNCHANGED panels

SwapPanel ==
    /\ At(Lock, "swap")
    /\ \/ Swapped /\ Settle("completed") /\ NoFault
       \/ Fault /\ Settle("old_cleanup_pending") /\ UNCHANGED panels
    /\ Stop(Lock)
    /\ UNCHANGED <<configured, entry, replaced>>

\* _compensate_panel_publication
UndoPanel ==
    /\ At(Lock, "undo")
    /\ \/ /\ panels' = [p \in Panel |-> IF p \in Located THEN "gone" ELSE panels[p]]
          /\ Settle("cancelled") /\ NoFault
       \/ Fault /\ Settle("compensation_pending") /\ UNCHANGED panels
    /\ Stop(Lock)
    /\ UNCHANGED <<configured, entry, replaced>>

PanelSteps == CheckPanel \/ SendPanel \/ SendLost \/ SendCrash \/ SwapPanel \/ UndoPanel
PanelWork  == ResumePanel \/ CheckPanel \/ SendPanel \/ SwapPanel \/ UndoPanel
PanelNext  == PostPanel \/ MovePanel \/ ResumePanel \/ PanelSteps

PanelTypeOK ==
    /\ configured \in BOOLEAN
    /\ entry \in [exists : BOOLEAN, disabled : BOOLEAN, panel : Panel \union {0}]
    /\ pub \in [status : PubStatus, msg : Panel \union {0}, prev : Panel \union {0},
                mark : Panel \union {0}]
    /\ panels \in [Panel -> {"unsent", "live", "inert", "gone"}]
    /\ faults \in 0 .. MaxFaults
    /\ replaced \in BOOLEAN

(* The panel in force is a message with working buttons: no undo or clean-up
   takes down the panel that a publication has put in force. *)
PanelInForceIsLive == Active /\ entry.panel # 0 => panels[entry.panel] = "live"

(* A panel that was replaced does not keep its buttons: a message that is not
   in force is retired by a publication that still has work to do. *)
ReplacedPanelIsRetired ==
    \A p \in Panel :
        panels[p] = "live" /\ p # entry.panel /\ configured /\ ~replaced =>
            /\ pub.status \in Unfinished \union {"compensation_pending"}
            /\ p \in {pub.msg, pub.prev, pub.mark}
=============================================================================

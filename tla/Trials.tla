------------------------------- MODULE Trials -------------------------------
(***************************************************************************)
(* The trial of one player (bot/trials.py): a role, a private channel with *)
(* a panel, and at the end the archive of TicketArchive and the role taken *)
(* back.  Commands, button and reconciler run the same two functions under *)
(* the lifecycle lock of the server, each from the record as it is then;   *)
(* a call that raises ends the attempt and leaves the record to the next.  *)
(*                                                                         *)
(* The configuration is there and valid; what a refused validation does is *)
(* the attempt that is given up (GiveUp).  ChannelSpec puts tickets and    *)
(* trials together: the channel that is archived belongs to one of them.   *)
(***************************************************************************)
EXTENDS TicketArchive

VARIABLES
    trial,     \* its record: status, channel and message ids stored
    doing,     \* what the holder of the lifecycle lock does
    member,    \* the player is in the server
    role,      \* and has the trial role
    topic,     \* the channel carries the trial id as its topic
    panels,    \* panel messages in the channel
    fresh,     \* the newest panel message has its marker
    channels   \* channels that were created for the trial

trialVars == <<trial, doing, member, role, topic, panels, fresh, channels>>
allVars   == <<vars, trialVars>>

Working == {"role", "channel", "panel", "scrub", "archive", "wait", "unrole"}
NoTrial == [status |-> "none", channel |-> FALSE, message |-> FALSE]

\* No trial has begun.
Unbegun ==
    /\ trial = NoTrial
    /\ doing = "nothing"
    /\ member = TRUE
    /\ role = FALSE
    /\ topic = FALSE
    /\ panels = 0
    /\ fresh = FALSE
    /\ channels = 0

\* Its channel does not exist.
TrialInit ==
    /\ mode = "trial"
    /\ record = NoRecord
    /\ source = "none"
    /\ writable = FALSE
    /\ said = 0
    /\ sent = 0
    /\ archive = [a \in Anchors |-> Untold]
    /\ shredded = {}
    /\ run = [r \in Runners |-> Idle]
    /\ list = {}
    /\ raced = FALSE
    /\ reopened = FALSE
    /\ faults = 0

-----------------------------------------------------------------------------
(* Beginning                                                               *)

\* The player is reserved before Discord is asked for anything.
Begin ==
    /\ doing = "nothing"
    /\ trial.status = "none"
    /\ trial' = [trial EXCEPT !.status = "creating"]
    /\ doing' = "role"
    /\ UNCHANGED <<vars, member, role, topic, panels, fresh, channels>>

\* Mutant: only unfinished creations are taken up.
TakenUp_Creating == trial.status = "creating"

TakenUp == trial.status \in {"creating", "ending", "removing_role"}

\* The reconciler, or the End button again, takes the trial up.
TakeUp ==
    /\ doing = "nothing"
    /\ TakenUp
    /\ doing' = CASE trial.status = "creating" -> "role"
                  [] trial.status = "ending" -> "archive"
                  [] trial.status = "removing_role" -> "unrole"
    /\ UNCHANGED <<vars, trial, member, role, topic, panels, fresh, channels>>

GiveRole ==
    /\ doing = "role"
    /\ member
    /\ role' = TRUE
    /\ doing' = "channel"
    /\ UNCHANGED <<vars, trial, member, topic, panels, fresh, channels>>

\* Mutant: a channel is looked for by its stored id only.
Unmarked_ById == TRUE

\* No channel of the server carries the trial id.
Unmarked == ~(Exists /\ topic)

\* The channel of the record, or one with the trial id as its topic.
FindChannel ==
    /\ doing = "channel"
    /\ IF trial.channel THEN Exists ELSE ~Unmarked
    /\ trial' = [trial EXCEPT !.channel = TRUE]
    /\ doing' = "panel"
    /\ UNCHANGED <<vars, member, role, topic, panels, fresh, channels>>

NewChannel ==
    /\ ~trial.channel /\ Unmarked
    /\ source' = "open"
    /\ writable' = TRUE
    /\ topic' = TRUE
    /\ panels' = 0
    /\ fresh' = FALSE
    /\ channels' = channels + 1

CreateChannel ==
    /\ doing = "channel"
    /\ NewChannel
    /\ trial' = [trial EXCEPT !.channel = TRUE]
    /\ doing' = "panel"
    /\ UNCHANGED <<mode, record, said, threads, run, list, ghosts, faults, member, role>>

ChannelLost ==
    /\ doing = "channel"
    /\ NewChannel
    /\ Fault
    /\ doing' = "nothing"
    /\ UNCHANGED <<mode, record, said, threads, run, list, ghosts, trial, member, role>>

Posted == trial.message \/ fresh

PostPanel == IF Posted THEN UNCHANGED <<panels, fresh>>
             ELSE panels' = panels + 1 /\ fresh' = TRUE

PublishPanel ==
    /\ doing = "panel"
    /\ Exists
    /\ PostPanel
    /\ trial' = [trial EXCEPT !.message = TRUE]
    /\ doing' = "scrub"
    /\ UNCHANGED <<vars, member, role, topic, channels>>

PanelLost ==
    /\ doing = "panel"
    /\ Exists
    /\ PostPanel
    /\ Fault
    /\ doing' = "nothing"
    /\ UNCHANGED <<mode, record, channel, threads, run, list, ghosts,
                   trial, member, role, topic, channels>>

\* The marker and the topic are removed; the trial is active.
Scrub ==
    /\ doing = "scrub"
    /\ Exists
    /\ fresh' = FALSE
    /\ topic' = FALSE
    /\ trial' = [trial EXCEPT !.status = "active"]
    /\ doing' = "nothing"
    /\ UNCHANGED <<vars, member, role, panels, channels>>

\* Only the marker is removed.
ScrubLost ==
    /\ doing = "scrub"
    /\ Fault
    /\ fresh' \in {fresh, FALSE}
    /\ topic' \in {topic, FALSE}
    /\ topic' # topic => ~fresh'
    /\ doing' = "nothing"
    /\ UNCHANGED <<mode, record, channel, threads, run, list, ghosts,
                   trial, member, role, panels, channels>>

-----------------------------------------------------------------------------
(* Ending                                                                  *)

EndClick ==
    /\ doing = "nothing"
    /\ trial.status = "active"
    /\ source = "open"
    /\ trial' = [trial EXCEPT !.status = "ending"]
    /\ doing' = "archive"
    /\ UNCHANGED <<vars, member, role, topic, panels, fresh, channels>>

Unchanging == UNCHANGED <<member, role, topic, panels, fresh, channels>>

\* archive_trial_channel, with the channel there: by the state of the record.
ArchiveChannel ==
    /\ doing = "archive"
    /\ Exists
    /\ doing' = "wait"
    /\ CASE record.status = "none" ->
              Persist("closing") /\ Enter(Trial, "freeze") /\ UNCHANGED archive
         [] record.status \in {"closing", "archiving"} ->
              Enter(Trial, "freeze") /\ UNCHANGED <<record, archive>>
         [] record.status = "archived_source_remaining" ->
              /\ archive' = IF record.clean THEN archive ELSE Stripped(record.anchor, {})
              /\ record' = [record EXCEPT !.clean = TRUE]
              /\ Enter(Trial, "delete")
    /\ UNCHANGED <<mode, channel, sent, shredded, list, reopened, faults, trial>>
    /\ Unchanging

\* Mutant: a missing channel passes for an archived one.
Recovered_Always == TRUE

\* The channel is gone: the trial goes on if its transcript is complete.
Recovered == record.status = "archived_source_remaining" \/ CompleteArchives(record) # {}

ArchiveMissing ==
    /\ doing = "archive"
    /\ ~Exists
    /\ record.status \in {"archiving", "closing", "archived_source_remaining"}
    /\ Recovered
    /\ archive' = IF record.clean THEN archive ELSE Stripped(record.anchor, {})
    /\ record' = [record EXCEPT !.status = "closed", !.clean = TRUE]
    /\ trial' = [trial EXCEPT !.status = "removing_role"]
    /\ doing' = "unrole"
    /\ UNCHANGED <<mode, channel, sent, shredded, run, list, ghosts, faults>>
    /\ Unchanging

\* The archive was closed, by this attempt or by an earlier one.
Archive ==
    /\ \/ doing = "archive"
       \/ doing = "wait" /\ At(Trial, "idle")
    /\ record.status = "closed"
    /\ trial' = [trial EXCEPT !.status = "removing_role"]
    /\ doing' = "unrole"
    /\ UNCHANGED vars
    /\ Unchanging

TakeRole ==
    /\ doing = "unrole"
    /\ role' = FALSE
    /\ trial' = [trial EXCEPT !.status = "closed"]
    /\ doing' = "nothing"
    /\ UNCHANGED <<vars, member, topic, panels, fresh, channels>>

\* Nothing can be done now: the player or the channel is gone, the archive is
\* not complete.  The record stays as it is.
GiveUp ==
    /\ \/ doing = "role" /\ ~member
       \/ doing = "channel" /\ trial.channel /\ ~Exists
       \/ doing \in {"panel", "scrub"} /\ ~Exists
       \/ doing = "archive" /\ ~Exists /\ record.status # "closed" /\ ~Recovered
       \/ doing = "wait" /\ At(Trial, "idle") /\ record.status # "closed"
    /\ doing' = "nothing"
    /\ UNCHANGED <<vars, trial>>
    /\ Unchanging

\* Discord raises while a role is given or taken.
RoleLost ==
    /\ doing \in {"role", "unrole"}
    /\ Fault
    /\ role' \in {role, doing = "role" /\ member}
    /\ doing' = "nothing"
    /\ UNCHANGED <<mode, record, channel, threads, run, list, ghosts,
                   trial, member, topic, panels, fresh, channels>>

\* The player leaves the server, and the roles with it.
Leave ==
    /\ member
    /\ Fault
    /\ member' = FALSE
    /\ role' = FALSE
    /\ UNCHANGED <<mode, record, channel, threads, run, list, ghosts,
                   trial, doing, topic, panels, fresh, channels>>

\* A step of the archive engine, or of the channel's members.
ArchiveStep ==
    /\ \/ Works(Trial)
       \/ Fails(Trial)
       \/ Say
       \/ DeletedByModerator
       \/ \E a \in Anchors : ThreadDeleted(a)
    /\ UNCHANGED trialVars

Restart ==
    /\ Crash
    /\ doing' = "nothing"
    /\ UNCHANGED <<trial, member, role, topic, panels, fresh, channels>>

Proceeds == \/ GiveRole \/ FindChannel \/ CreateChannel \/ PublishPanel \/ Scrub
            \/ ArchiveChannel \/ ArchiveMissing \/ Archive \/ TakeRole \/ GiveUp

TrialNext ==
    \/ Begin \/ TakeUp \/ EndClick \/ Proceeds
    \/ ChannelLost \/ PanelLost \/ ScrubLost \/ RoleLost \/ Leave
    \/ ArchiveStep \/ Restart

ChannelInit == Unbegun /\ (Init \/ TrialInit)
ChannelNext ==
    \/ mode = "trial" /\ TrialNext
    \/ mode # "trial" /\ Next /\ UNCHANGED trialVars

\* A call ends, and the reconciler takes a trial up again and again; the
\* tickets are fair as in TicketArchive.
ChannelSpec ==
    /\ ChannelInit /\ [][ChannelNext]_allVars
    /\ Fairness
    /\ WF_allVars(TakeUp)
    /\ WF_allVars(Proceeds)

-----------------------------------------------------------------------------
(* Properties                                                              *)

\* Values stay in their domains.
TrialTypeOK ==
    /\ TypeOK
    /\ trial \in [status : {"none", "creating", "active", "ending", "removing_role", "closed"},
                  channel : BOOLEAN, message : BOOLEAN]
    /\ doing \in Working \union {"nothing"}
    /\ member \in BOOLEAN /\ role \in BOOLEAN /\ topic \in BOOLEAN /\ fresh \in BOOLEAN
    /\ panels \in Nat /\ channels \in Nat

\* A second channel is never made for a trial that has one, nor a second panel
\* in the channel, however often its creation is taken up.
TrialMadeOnce ==
    [][(channels' > channels => ~Exists) /\ (panels' > panels => panels = 0)]_allVars

\* The role is not taken back, and the trial not closed, before the transcript
\* is complete, and a closed trial leaves no role behind.
TrialEndsInOrder ==
    /\ trial.status \in {"removing_role", "closed"} =>
           ~Exists /\ \A p \in 1 .. said : Archived(p)
    /\ trial.status = "closed" => ~role

\* The stored state, the channel and the role of a trial agree: each is given up
\* only after the one that depends on it.
TrialAgrees == TrialTypeOK /\ ClosedIsLocked /\ TrialEndsInOrder

\* A trial that is being ended is ended, unless a moderator deletes the channel
\* before its transcript is complete ("manual recovery is required").
TrialEnds ==
    trial.status = "ending" ~> trial.status = "closed" \/ source = "deleted"
=============================================================================

---------------------------- MODULE ReactionRoles ----------------------------
(***************************************************************************)
(* What a reaction-role panel does for the members (bot/reaction_roles.py): *)
(* reactions come in as gateway events, a sweep repairs what was missed     *)
(* while the bot was away, and the editor (bot/reaction_configuration.py)   *)
(* changes the mapping of emojis to roles.  All three hold the lifecycle    *)
(* lock of the server, in the order they asked for it.                     *)
(*                                                                         *)
(* "Send panel again" takes no lock, and the message may be deleted by hand. *)
(*                                                                         *)
(* Abstractions. The publication is ReactionPanels: here the panel is       *)
(* posted, posted again and moved in one step each; it is posted again      *)
(* during a sweep, but not while the editor is at work, which is left to    *)
(* ReactionPanels. A message that was replaced is not used any more. The    *)
(* refresh that a new panel gets once is left out: all it does is send the  *)
(* next sweep over the panel again. A panel has at most 500 reactions per   *)
(* emoji, so the list of those who reacted is complete. An event is handled *)
(* in one action: nothing else runs under the lock meanwhile.               *)
(***************************************************************************)
EXTENDS ReactionWizard, FiniteSets

CONSTANTS
    Member,
    MaxClicks,  \* bound: reactions set or taken back
    MaxEdits,   \* bound: changes of the mapping or of the channel, and resends
    MaxFaults   \* bound: failed calls, crashes, deleted messages, roles that become unsafe

ASSUME RolesAssumption ==
    MaxClicks \in Nat /\ MaxEdits \in Nat /\ MaxFaults \in Nat /\ None \notin Member

VARIABLES
    msg,       \* number of the panel's message; 0: no panel yet
    there,     \* it has not been deleted
    mapping,   \* emoji -> role
    tracked,   \* tracked_member_ids of a mapping the editor made; NoList before
    pending,   \* pending_reaction_resets: emojis whose old reactions must go
    owed,      \* the refresh is queued: none, refresh, move
    reacted,   \* who has reacted with what on the panel's message
    queue,     \* gateway events waiting for the lock
    holds,     \* who has which role
    cache      \* the version of the panel that was reconciled under its message, or NoVersion

VARIABLES
    lock,      \* none, sweep, editor
    sweep,     \* the message it reads, the emojis to do, the one at hand with its
               \* users, a failure, and the reactions of a message replaced meanwhile
    clicks, edits, faults,
    missed,    \* history: a refused event no sweep has made up for
    late,      \* history: a reaction was in flight when its mapping changed
    orphaned,  \* history: resets are pending, and their refresh was completed
    kept       \* history: roles members had before the panel mapped them

panelVars == <<msg, there, mapping, tracked, pending, owed, orphaned>>
rolesVars == <<panelVars, reacted, queue, holds, cache, lock, sweep, clicks, edits, faults,
               missed, late, kept>>
vars      == <<wizardVars, rolesVars>>

NoList    == {None}
NoVersion == [msg |-> 0, mapping |-> [e \in Emoji |-> None]]
Version   == [msg |-> msg, mapping |-> mapping]
NoSweep   == [msg |-> 0, todo |-> {}, emoji |-> None, users |-> {}, failed |-> FALSE, old |-> {}]

Init ==
    /\ WizardInit
    /\ msg = 0
    /\ there = TRUE
    /\ mapping = [e \in Emoji |-> None]
    /\ tracked = [e \in Emoji |-> NoList]
    /\ pending = {}
    /\ owed = "none"
    /\ reacted = {}
    /\ queue = <<>>
    /\ holds \in SUBSET (Member \X Role)
    /\ cache = NoVersion
    /\ lock = "none"
    /\ sweep = NoSweep
    /\ clicks = 0 /\ edits = 0 /\ faults = 0
    /\ missed = FALSE
    /\ late = FALSE
    /\ orphaned = FALSE
    /\ kept = {}

Fault   == faults < MaxFaults /\ faults' = faults + 1
Mapped  == {e \in Emoji : mapping[e] # None}

-----------------------------------------------------------------------------
(* The panel is created                                                     *)

Wizard ==
    /\ msg = 0
    /\ WizardSteps
    /\ UNCHANGED <<unsafe, rolesVars>>

\* A mapping from the wizard has no list of members.
Publish ==
    /\ msg = 0
    /\ MayConfirm
    /\ msg' = 1
    /\ mapping' = Chosen
    /\ wizard' = NoWizard
    /\ UNCHANGED <<unsafe, there, tracked, pending, owed, orphaned, reacted, queue, holds, cache,
                   lock, sweep, clicks, edits, faults, missed, late, kept>>

-----------------------------------------------------------------------------
(* Gateway events                                                           *)

Toggled(x) == IF x \in reacted THEN reacted \ {x} ELSE reacted \union {x}

\* A member who reacts to a mapping, or takes it back, settles what he holds by it.
Decided(m, e) == IF e \in pending THEN kept ELSE kept \ {<<m, mapping[e]>>}

Click(m, e) ==
    /\ clicks < MaxClicks /\ clicks' = clicks + 1
    /\ msg # 0 /\ there /\ e \in Mapped \union pending
    /\ reacted' = Toggled(<<m, e>>)
    /\ queue' = Append(queue, [member |-> m, emoji |-> e, add |-> <<m, e>> \notin reacted,
                               msg |-> msg, old |-> e \in pending])
    /\ kept' = Decided(m, e)
    /\ UNCHANGED <<wizardVars, panelVars, holds, cache, lock, sweep, edits, faults, missed, late>>

\* The panel, the emoji and the role must still be there, and no reset pending.
Heard(ev) ==
    /\ ev.msg = msg
    /\ ev.emoji \in Mapped \ pending
    /\ mapping[ev.emoji] \notin unsafe

\* _track_mapping_member: only a mapping that the editor made keeps a list.
Track(e, added, removed) ==
    IF tracked[e] = NoList THEN tracked
    ELSE [tracked EXCEPT ![e] = (@ \ removed) \union added]

\* The role follows the event; a call that is refused is not repeated.
HandleEvent ==
    /\ lock = "none"
    /\ queue # <<>>
    /\ queue' = Tail(queue)
    /\ LET ev == Head(queue)
           x  == <<ev.member, mapping[ev.emoji]>>
       IN
       \/ /\ Heard(ev)
          /\ holds' = IF ev.add THEN holds \union {x} ELSE holds \ {x}
          /\ tracked' = IF ev.add THEN Track(ev.emoji, {ev.member}, {})
                                  ELSE Track(ev.emoji, {}, {ev.member})
          /\ late' = (late \/ ev.old)
          /\ UNCHANGED <<faults, missed>>
       \/ /\ Heard(ev) /\ Fault
          /\ missed' = (missed \/ cache = Version)
          /\ UNCHANGED <<holds, tracked, late>>
       \/ ~Heard(ev) /\ UNCHANGED <<holds, tracked, faults, missed, late>>
    /\ UNCHANGED <<wizardVars, msg, there, mapping, pending, owed, orphaned, reacted, cache, lock,
                   sweep, clicks, edits, kept>>

-----------------------------------------------------------------------------
(* The sweep                                                                *)

SweepFrame == UNCHANGED <<wizardVars, msg, there, mapping, pending, owed, orphaned, reacted, queue,
                          clicks, edits, late, kept>>

Sweep ==
    /\ lock = "none"
    /\ msg # 0 /\ there /\ cache # Version
    /\ lock' = "sweep"
    /\ sweep' = [NoSweep EXCEPT !.msg = msg, !.todo = Mapped]
    /\ UNCHANGED <<tracked, holds, cache, faults, missed>>
    /\ SweepFrame

\* The users of the message that was fetched; one that was replaced meanwhile may
\* have been cleared.
Listed(e) ==
    LET By(seen) == {m \in Member : <<m, e>> \in seen} IN
    IF sweep.msg = msg THEN {By(reacted)} ELSE {By(sweep.old), {}}

\* A reset that is pending, or a role that became unsafe, is not touched; nor are
\* the members when they cannot be listed.
SweepFetch ==
    /\ lock = "sweep" /\ sweep.emoji = None
    /\ \E e \in sweep.todo :
         LET skip == [sweep EXCEPT !.todo = @ \ {e}, !.failed = TRUE] IN
         IF e \in pending \/ mapping[e] \in unsafe
         THEN sweep' = skip /\ UNCHANGED faults
         ELSE \/ /\ \E users \in Listed(e) :
                      sweep' = [sweep EXCEPT !.emoji = e, !.users = users]
                 /\ UNCHANGED faults
              \/ Fault /\ sweep' = skip
    /\ UNCHANGED <<tracked, holds, cache, lock, missed>>
    /\ SweepFrame

\* Those who hold the role without a reaction; of an edited mapping, the listed ones.
Leavers(e) ==
    {m \in Member \ sweep.users :
        <<m, mapping[e]>> \in holds /\ (tracked[e] = NoList \/ m \in tracked[e])}

\* Each member in turn; one call may be refused, and the panel is not reconciled.
SweepApply ==
    /\ lock = "sweep" /\ sweep.emoji # None
    /\ LET e == sweep.emoji
           r == mapping[e]
           joiners == {m \in sweep.users : <<m, r>> \notin holds}
       IN
       \E refused \in {{}} \union {{m} : m \in joiners \union Leavers(e)} :
         LET given == sweep.users \ refused
             taken == Leavers(e) \ refused
         IN
         /\ IF refused = {} THEN UNCHANGED faults ELSE Fault
         /\ holds' = (holds \ {<<m, r>> : m \in taken}) \union {<<m, r>> : m \in given}
         /\ tracked' = Track(e, given, taken)
         /\ sweep' = [sweep EXCEPT !.todo = @ \ {e}, !.emoji = None, !.users = {},
                                   !.failed = @ \/ refused # {}]
    /\ UNCHANGED <<cache, lock, missed>>
    /\ SweepFrame

\* Mutant: a panel counts as reconciled however the sweep went.
Reconciled_Anyway == Version

\* The version is remembered when nothing failed, under the message that was swept.
Reconciled == IF sweep.failed \/ sweep.msg # msg THEN cache ELSE Version

SweepEnd ==
    /\ lock = "sweep" /\ sweep.todo = {}
    /\ cache' = Reconciled
    /\ lock' = "none"
    /\ sweep' = NoSweep
    /\ UNCHANGED <<tracked, holds, faults, missed>>
    /\ SweepFrame

-----------------------------------------------------------------------------
(* The editor                                                               *)

\* ReactionConfigurationAdapter.validate
Valid(new) ==
    LET on == {e \in Emoji : new[e] # None} IN
    /\ Cardinality(on) \in 1 .. MaxReactions
    /\ \A e, f \in on : e # f => new[e] # new[f]
    /\ \A e \in on : new[e] \notin unsafe

\* Mutant: the dictionary of an old mapping is kept when its role changes.
Relisted_Kept(changed) == tracked

\* A changed mapping has no authority over roles that were handed out before.
Relisted(changed) == [e \in Emoji |-> IF e \in changed THEN {} ELSE tracked[e]]

\* queue_refresh: what the panel's message needs.
Queued(away) == IF away THEN "move" ELSE "refresh"

\* save, with the refresh queued before it: one field at a time.
Edit(new, moving) ==
    LET away    == moving \/ owed = "move"
        changed == {e \in Emoji : new[e] # mapping[e] \/ (away /\ new[e] # None)}
    IN
    /\ lock = "none" /\ msg # 0
    /\ edits < MaxEdits /\ edits' = edits + 1
    /\ moving <=> new = mapping
    /\ Valid(new)
    /\ mapping' = new
    /\ tracked' = Relisted(changed)
    /\ pending' = pending \union changed
    /\ owed' = Queued(away)
    /\ orphaned' = FALSE
    /\ lock' = "editor"
    /\ queue' = [i \in DOMAIN queue |->
                   [queue[i] EXCEPT !.old = @ \/ queue[i].emoji \in changed]]
    /\ kept' = kept \union {x \in holds : \E e \in changed : x[2] \in {mapping[e], new[e]}}
    /\ UNCHANGED <<wizardVars, msg, there, reacted, holds, cache, sweep, clicks, faults, missed,
                   late>>

EditorFrame == UNCHANGED <<wizardVars, mapping, holds, sweep, clicks, edits, missed, late, kept>>

\* reconcile_configuration_updates, after a failure or a restart.
RetryRefresh ==
    /\ lock = "none" /\ owed # "none"
    /\ lock' = "editor"
    /\ UNCHANGED <<msg, there, tracked, pending, owed, orphaned, reacted, queue, cache, faults>>
    /\ EditorFrame

\* A move: a new message, with nothing to reset and nobody listed.
Repost ==
    /\ lock = "editor" /\ owed = "move"
    /\ msg' = msg + 1
    /\ reacted' = {}
    /\ tracked' = [e \in Emoji |-> {}]
    /\ pending' = {}
    /\ owed' = "refresh"
    /\ there' = TRUE
    /\ cache' = NoVersion
    /\ UNCHANGED <<orphaned, queue, lock, faults>>
    /\ EditorFrame

\* clear_reaction, which sends no events to the handlers.
Cleared(e) == reacted' = {x \in reacted : x[2] # e}

ClearReset ==
    /\ lock = "editor" /\ owed = "refresh" /\ there
    /\ \E e \in pending :
         /\ Cleared(e)
         /\ pending' = pending \ {e}
    /\ UNCHANGED <<msg, there, tracked, owed, orphaned, queue, cache, lock, faults>>
    /\ EditorFrame

\* Mutant: the panel still counts as reconciled.
Refreshed_Cached == cache

\* _offline_reconciled_panel_versions.pop
Refreshed == NoVersion

\* Text, buttons and reactions of the message are brought up to date.
EndRefresh ==
    /\ lock = "editor" /\ owed = "refresh" /\ there /\ pending = {}
    /\ cache' = Refreshed
    /\ owed' = "none"
    /\ lock' = "none"
    /\ UNCHANGED <<msg, there, tracked, pending, orphaned, reacted, queue, faults>>
    /\ EditorFrame

\* The message was deleted: there is nothing to refresh and nothing to retry, and the
\* record is completed with the resets still pending.
NothingToRefresh ==
    /\ lock = "editor" /\ owed = "refresh" /\ ~there
    /\ owed' = "none"
    /\ orphaned' = (pending # {})
    /\ lock' = "none"
    /\ UNCHANGED <<msg, there, tracked, pending, reacted, queue, cache, faults>>
    /\ EditorFrame

\* Any call of the refresh fails: it stays owed.
RefreshFails ==
    /\ lock = "editor"
    /\ Fault
    /\ lock' = "none"
    /\ UNCHANGED <<msg, there, tracked, pending, owed, orphaned, reacted, queue, cache>>
    /\ EditorFrame

-----------------------------------------------------------------------------
(* Other things that happen                                                 *)

\* "Send panel again": the same mapping under a new message.  One that was to be
\* posted in another channel now is.  A sweep goes on with the message it fetched.
Resend ==
    /\ lock \in {"none", "sweep"} /\ msg # 0
    /\ edits < MaxEdits /\ edits' = edits + 1
    /\ msg' = msg + 1
    /\ there' = TRUE
    /\ reacted' = {}
    /\ cache' = NoVersion
    /\ owed' = IF owed = "move" THEN "refresh" ELSE owed
    /\ sweep' = IF lock = "sweep" /\ sweep.msg = msg
                THEN [sweep EXCEPT !.old = {x \in reacted : x[2] \in sweep.todo}] ELSE sweep
    /\ UNCHANGED <<wizardVars, mapping, tracked, pending, orphaned, queue, holds, lock,
                   clicks, faults, missed, late, kept>>

\* Somebody deletes the panel's message.  The rest of a sweep of it fails.
MessageDeleted ==
    /\ Fault
    /\ msg # 0 /\ there
    /\ there' = FALSE
    /\ sweep' = IF lock = "sweep" /\ sweep.msg = msg
                THEN [sweep EXCEPT !.todo = @ \intersect {sweep.emoji}, !.failed = TRUE]
                ELSE sweep
    /\ UNCHANGED <<wizardVars, msg, mapping, tracked, pending, owed, orphaned, reacted, queue,
                   holds, cache, lock, clicks, edits, missed, late, kept>>

\* The bot is away: events are lost, somebody may use the panel, and what was
\* kept in memory is gone.
Restart ==
    /\ Fault
    /\ msg # 0
    /\ \/ UNCHANGED <<reacted, kept, clicks>>
       \/ there /\ \E m \in Member, e \in Mapped :
            /\ clicks < MaxClicks /\ clicks' = clicks + 1
            /\ reacted' = Toggled(<<m, e>>)
            /\ kept' = Decided(m, e)
    /\ queue' = <<>>
    /\ cache' = NoVersion
    /\ lock' = "none"
    /\ sweep' = NoSweep
    /\ missed' = FALSE
    /\ UNCHANGED <<wizardVars, panelVars, holds, edits, late>>

\* A role is moved above the bot, or given permissions it may not hand out.
MakeUnsafe ==
    /\ Fault
    /\ \E r \in Role \ unsafe : unsafe' = unsafe \union {r}
    /\ UNCHANGED <<wizard, panelVars, reacted, queue, holds, cache, lock, sweep, clicks, edits,
                   missed, late, kept>>

\* What the program goes on with by itself.
Background ==
    \/ HandleEvent
    \/ Sweep \/ SweepFetch \/ SweepApply \/ SweepEnd
    \/ RetryRefresh \/ Repost \/ ClearReset \/ EndRefresh \/ NothingToRefresh

Next ==
    \/ Wizard \/ Publish
    \/ \E m \in Member, e \in Emoji : Click(m, e)
    \/ \E new \in [Emoji -> Role \union {None}], moving \in BOOLEAN : Edit(new, moving)
    \/ RefreshFails
    \/ Resend
    \/ MessageDeleted
    \/ Restart
    \/ MakeUnsafe
    \/ Background

Spec == Init /\ [][Next]_vars

\* Those who wait for the lock get it in turn: a sweep that cannot finish because of
\* a reset comes back each minute, but it does not keep the refresh from its turn.
FairSpec == Spec /\ WF_vars(Background) /\ SF_vars(RetryRefresh)

-----------------------------------------------------------------------------
(* Every variable keeps its type, only the holder of the lock is at work, and resets
   that are pending are owed, unless the message was gone when their turn came. *)
TypeOK ==
    /\ WizardTypeOK
    /\ msg \in 0 .. MaxEdits + 1
    /\ mapping \in [Emoji -> Role \union {None}]
    /\ \A e \in Emoji : tracked[e] = NoList \/ tracked[e] \subseteq Member
    /\ pending \subseteq Emoji
    /\ there \in BOOLEAN /\ orphaned \in BOOLEAN
    /\ owed \in {"none", "refresh", "move"}
    /\ reacted \subseteq Member \X Emoji
    /\ \A i \in DOMAIN queue : queue[i] \in [member : Member, emoji : Emoji, add : BOOLEAN,
                                             msg : 1 .. MaxEdits + 1, old : BOOLEAN]
    /\ holds \subseteq Member \X Role
    /\ lock \in {"none", "sweep", "editor"}
    /\ lock # "sweep" => sweep = NoSweep
    /\ lock = "editor" => owed # "none"
    /\ pending # {} => owed # "none" \/ orphaned

(* The panel that members use has between one and six mappings, and no emoji or role
   twice: with one role under two emojis, taking back one reaction would take away
   the role the other one still stands for. *)
OneEmojiPerRole ==
    msg # 0 => /\ Cardinality(Mapped) \in 1 .. MaxReactions
               /\ \A e, f \in Mapped : e # f => mapping[e] # mapping[f]

Governed == {e \in Mapped : mapping[e] \notin unsafe}

Agree(e) ==
    \A m \in Member :
        /\ <<m, e>> \in reacted => <<m, mapping[e]>> \in holds
        /\ <<m, e>> \notin reacted /\ (tracked[e] = NoList \/ m \in tracked[e]) =>
              <<m, mapping[e]>> \notin holds

(* When the events are handled and the panel counts as reconciled, the members have
   the roles they reacted for and, as far as the mapping is in charge of them, no
   others: neither events, nor sweeps, nor edits of the mapping, nor restarts in
   between leave a difference that no sweep will look for.  (An emoji whose reset was
   never carried out is ignored by the bot.) *)
SettledRolesAgree ==
    msg # 0 /\ there /\ queue = <<>> /\ lock = "none" /\ owed = "none" /\ cache = Version
        /\ ~missed /\ ~late
      => \A e \in Governed \ pending : Agree(e)

(* The mapping is one that events can be applied to one by one, and what was settled
   agrees with the reactions. *)
RolesAgree == TypeOK /\ OneEmojiPerRole /\ SettledRolesAgree

(* "Mapping changes do not revoke previously assigned roles": a role a member had when
   it was mapped to an emoji, or when its emoji got another one, is his until he
   reacts with that emoji himself. *)
MappedRolesAreKept == ~late => kept \subseteq holds

(* Again and again everything is settled: resets are carried out, unless the message was
   deleted before they were, and the roles agree with the reactions, unless the message
   is gone, a call was refused or a role may not be handed out. *)
RolesSettle ==
    []<>(/\ pending = {} \/ ~there \/ orphaned
         /\ ~there \/ missed \/ late \/ Governed # Mapped \/ \A e \in Mapped \ pending : Agree(e))
=============================================================================

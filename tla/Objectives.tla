------------------------------- MODULE Objectives -------------------------------
(***************************************************************************)
(* One objective, from the wizard to its removal (bot/objectives.py): its  *)
(* message, its notification role, the ping before it pops, and the panel  *)
(* it was added from.  Creation and ping each have a runtime record, so    *)
(* that the reconciler can find by id or marker what a crash or a lost     *)
(* answer left behind.  The scheduler works every ten seconds.             *)
(*                                                                         *)
(* Abstractions.  Objectives share only the lock, so there is one.  Time   *)
(* is before the notification, after it, after the pop, and past the       *)
(* removal time.  Subscribers are left out.  Updates of a message's text   *)
(* are left out.  The removal button is one action: only the teardown      *)
(* could run between its awaits, and all that both do is delete.           *)
(***************************************************************************)
EXTENDS ObjectivesPanel, ObjectiveWizard

VARIABLES
    clock,     \* "before", "notice", "pop" or "over"
    creation,  \* the record of kind objective_creation
    notice,    \* the record of kind objective_notification
    stored,    \* the objective in the entry
    copy,      \* what the lock holder and the teardown read of it
    discord,   \* its message, its ping and its role
    count,     \* how many of each were ever made
    tampered,  \* history variable: a moderator touched one of them
    torn,      \* history variable: died between storing it and completing its record
    forgot,    \* history variable: Notify Me dropped the id of a ping that was out
    ended      \* history variable: it was in the entry and was removed

ghosts    == <<tampered, torn, forgot, ended>>
records   == <<creation, notice>>
made      == <<discord, count>>
objective == <<records, stored, copy, made, ghosts>>
vars      == <<configured, panelVars, run, faults, wizard, clock, objective>>

Times   == {"before", "notice", "pop", "over"}
Missing == [in |-> FALSE, role |-> FALSE, ping |-> FALSE, notified |-> FALSE, removing |-> FALSE]
Objective == [in : BOOLEAN, role : BOOLEAN, ping : BOOLEAN, notified : BOOLEAN, removing : BOOLEAN]
NoCreation == [status |-> "none", panel |-> 0, tried |-> FALSE, role |-> FALSE, msg |-> FALSE]
NoNotice   == [status |-> "none", msg |-> FALSE]
Creating   == {"pending", "role_ready", "message_ready"}
Settled    == {"completed", "cancelled"}
Unread     == [obj |-> Missing, entry |-> NoEntry, now |-> "before"]

Init ==
    /\ PanelInit
    /\ WizardInit
    /\ clock = "before"
    /\ creation = NoCreation
    /\ notice = NoNotice
    /\ stored = Missing
    /\ copy = [r \in {Lock, Removal} |-> Unread]
    /\ discord = [post |-> "none", ping |-> "none", role |-> "none"]
    /\ count = [post |-> 0, ping |-> 0, role |-> 0]
    /\ tampered = FALSE
    /\ torn = FALSE
    /\ forgot = FALSE
    /\ ended = FALSE

Upright == discord.role \in {"pending", "clean"}   \* a role the bot still takes for its own
Posted  == discord.post \in {"marked", "clean"}
Pinged  == discord.ping \in {"marked", "clean"}

Note(s) == creation' = [creation EXCEPT !.status = s]
Make(kind, state) ==
    /\ discord' = [discord EXCEPT ![kind] = state]
    /\ count' = [count EXCEPT ![kind] = @ + 1]

-----------------------------------------------------------------------------
(* Creation                                                                *)

\* The wizard is opened from the panel in force.  Its clicks touch the view only, and
\* only Confirm and BeginCreation read it: those before Confirm are put together, and
\* so are those after it, when the lock is held.  Nothing else moves meanwhile.
Clickable == Working /\ (Confirmed => At(Lock, "payload"))

Wizard ==
    /\ \/ entry.panel # 0 /\ Current(entry.panel) /\ OpenWizard
       \/ Clickable /\ WizardNext
    /\ UNCHANGED <<configured, panelVars, run, faults, clock, objective>>

\* Confirm: the panel in force is noted, then the lock is waited for.
Confirm ==
    /\ entry.panel # 0 /\ Current(entry.panel)
    /\ Submit
    /\ creation' = [creation EXCEPT !.panel = entry.panel]
    /\ UNCHANGED <<configured, panelVars, run, faults, clock, notice, stored, copy, made, ghosts>>

TakeLock ==
    /\ Free
    /\ Confirmed
    /\ Go(Lock, "payload")
    /\ UNCHANGED <<configured, panelVars, faults, wizard, clock, objective>>

\* Under the lock: refused, without a record, if the panel cannot be fetched or has
\* changed meanwhile; otherwise the record is made of the view as it is by now.
BeginCreation ==
    LET p == creation.panel
    IN  /\ At(Lock, "payload")
        /\ \/ /\ Current(p) /\ There(p)
              /\ Note("pending")
              /\ Leave("submitted")
              /\ Begin(Lock, "begin", "caller")
              /\ NoFault
           \/ /\ IF Current(p) /\ There(p) THEN Fault ELSE NoFault
              /\ Note("cancelled")
              /\ Leave("closed")
              /\ Stop(Lock)
        /\ UNCHANGED <<configured, panelVars, clock, notice, stored, copy, made, ghosts>>

\* The role of the creation bears another name: it is not the bot's to delete.
Withheld == discord.role = "foreign" /\ creation.role

\* The reconciler; an objective that is in the entry completes its record.
ResumeCreation ==
    /\ Free
    /\ \/ /\ creation.status \in Creating \union {"compensation_pending"}
          /\ configured /\ ~entry.disabled /\ stored.in
          /\ Note("completed") /\ UNCHANGED run
       \/ /\ ~(Active /\ stored.in)
          /\ creation.status \in Creating
          /\ Begin(Lock, "begin", "bot") /\ UNCHANGED creation
       \/ /\ ~(Active /\ stored.in)
          /\ creation.status = "compensation_pending"
          /\ Posted \/ ~Withheld   \* or there is nothing to do
          /\ Begin(Lock, "takeback", "bot") /\ UNCHANGED creation
    /\ UNCHANGED <<configured, panelVars, faults, wizard, clock, notice, stored, copy, made, ghosts>>

\* _complete_pending_objective_creation: the panel has to be there.
CheckCreation ==
    LET p == creation.panel
    IN  /\ At(Lock, "begin")
        /\ \/ /\ Go(Lock, IF Current(p) /\ There(p)
                          THEN IF creation.tried THEN "name" ELSE "role"
                          ELSE "takeback")
              /\ creation' = [creation EXCEPT
                    !.role = @ /\ (Upright \/ ~creation.tried \/ ~Current(p))]
              /\ NoFault
           \/ Fault /\ Stop(Lock) /\ UNCHANGED creation
        /\ UNCHANGED <<configured, panelVars, wizard, clock, notice, stored, copy, made, ghosts>>

WithRole(known) ==
    /\ creation' = [creation EXCEPT !.status = "role_ready", !.tried = TRUE, !.role = known]
    /\ Go(Lock, "name")

\* _ensure_notify_role: a role under the name that carries the marker.
FoundRole == discord.role = "pending"

\* The role is found or created; if that fails the objective goes without, even
\* when Discord did create it.
EnsureRole ==
    /\ At(Lock, "role")
    /\ \/ FoundRole /\ WithRole(TRUE) /\ NoFault /\ UNCHANGED made
       \/ ~FoundRole /\ Make("role", "pending") /\ WithRole(TRUE) /\ NoFault
       \/ ~FoundRole /\ Fault /\ WithRole(FALSE) /\ (Make("role", "pending") \/ UNCHANGED made)
    /\ UNCHANGED <<configured, panelVars, wizard, clock, notice, stored, copy, ghosts>>

RoleCrash ==
    /\ At(Lock, "role")
    /\ ~FoundRole
    /\ Fault
    /\ Make("role", "pending")
    /\ Crash
    /\ UNCHANGED <<configured, panelVars, wizard, clock, records, stored, copy, ghosts>>

\* The marker leaves the name of the role once its id is stored.
Renamed == [discord EXCEPT !.role = IF @ = "pending" THEN "clean" ELSE @]

NameRole ==
    /\ At(Lock, "name")
    /\ \/ discord' = (IF creation.role THEN Renamed ELSE discord) /\ NoFault
       \/ creation.role /\ Fault /\ UNCHANGED discord
    /\ Go(Lock, "post")
    /\ UNCHANGED <<configured, panelVars, wizard, clock, records, stored, copy, count, ghosts>>

\* By its id; by its marker too, unless this is the first attempt.
FoundPost == Posted /\ (creation.msg \/ run[Lock].for = "bot")

NewPost == IF FoundPost THEN UNCHANGED made ELSE Make("post", "marked")

AddObjective == stored' = [Missing EXCEPT !.in = TRUE, !.role = creation.role]

\* Mutant: the record is left to the reconciler.
Announced_Later == [creation EXCEPT !.status = "message_ready", !.msg = TRUE]

Announced == [creation EXCEPT !.status = "completed", !.msg = TRUE]

\* Posted, its id stored, the objective added and the record completed without an
\* await in between; or, if the panel changed during the send, taken back.
PostObjective ==
    /\ At(Lock, "post")
    /\ NewPost
    /\ \/ /\ Current(creation.panel)
          /\ AddObjective
          /\ creation' = Announced
          /\ Go(Lock, "tidy")
       \/ /\ ~Current(creation.panel)
          /\ UNCHANGED stored
          /\ creation' = [creation EXCEPT !.status = "message_ready", !.msg = TRUE]
          /\ Go(Lock, "takeback")
    /\ UNCHANGED <<configured, panelVars, faults, wizard, clock, notice, copy, ghosts>>

PostLost ==
    /\ At(Lock, "post")
    /\ Fault
    /\ NewPost \/ UNCHANGED made
    /\ Stop(Lock)
    /\ UNCHANGED <<configured, panelVars, wizard, clock, records, stored, copy, ghosts>>

\* The process dies after the first commit, or after the objective was added.
PostCrash ==
    /\ At(Lock, "post")
    /\ Fault
    /\ NewPost
    /\ creation' = [creation EXCEPT !.status = "message_ready", !.msg = TRUE]
    /\ \/ Current(creation.panel) /\ AddObjective /\ torn' = TRUE
       \/ UNCHANGED <<stored, torn>>
    /\ Crash
    /\ UNCHANGED <<configured, panelVars, wizard, clock, notice, copy, tampered, forgot, ended>>

TidyCreation ==
    /\ At(Lock, "tidy")
    /\ \/ discord' = [discord EXCEPT !.post = IF @ = "marked" THEN "clean" ELSE @] /\ NoFault
       \/ UNCHANGED discord /\ Fault
    /\ Stop(Lock)
    /\ UNCHANGED <<configured, panelVars, wizard, clock, records, stored, copy, count, ghosts>>

Deleted(x) == IF x = "none" THEN x ELSE "gone"

\* _compensate_pending_objective_creation: a role under another name is left, and
\* the compensation waits for an administrator.
TakeBack ==
    /\ At(Lock, "takeback")
    /\ \/ /\ discord' = [discord EXCEPT !.post = Deleted(@),
                            !.role = IF Upright THEN "gone" ELSE @]
          /\ Note(IF Withheld THEN "compensation_pending" ELSE "cancelled")
          /\ NoFault
       \/ /\ Fault
          /\ \/ UNCHANGED discord
             \/ discord' = [discord EXCEPT !.post = Deleted(@)]
             \/ discord' = [discord EXCEPT !.role = IF Upright THEN "gone" ELSE @]
          /\ Note("compensation_pending")
    /\ Stop(Lock)
    /\ UNCHANGED <<configured, panelVars, wizard, clock, notice, stored, copy, count, ghosts>>

\* The sweeps over completed records: markers, and the name of the role.
SweepCompleted ==
    /\ Free
    /\ \/ creation.status = "completed"
       \/ notice.status = "completed"
    /\ discord' = [discord EXCEPT
          !.post = IF @ = "marked" /\ creation.status = "completed" THEN "clean" ELSE @,
          !.ping = IF @ = "marked" /\ notice.status = "completed" THEN "clean" ELSE @,
          !.role = IF @ = "pending" /\ creation.status = "completed" /\ stored.role
                   THEN "clean" ELSE @]
    /\ discord' # discord
    /\ UNCHANGED <<configured, panelVars, run, faults, wizard, clock, records, stored, copy,
                   count, ghosts>>

\* _reconcile_active_notify_role_names reads the entry, renames, and saves the
\* entry it read.
SweepNames ==
    /\ Free
    /\ Active /\ entry.exists
    /\ stored.in /\ stored.role /\ discord.role = "pending"
    /\ copy' = [copy EXCEPT ![Lock] = [Unread EXCEPT !.obj = stored, !.entry = entry]]
    /\ Go(Lock, "rename")
    /\ UNCHANGED <<configured, panelVars, faults, wizard, clock, records, stored, made, ghosts>>

SaveNames ==
    /\ At(Lock, "rename")
    /\ \/ /\ Upright
          /\ discord' = Renamed
          /\ entry' = copy[Lock].entry
          /\ stored' = copy[Lock].obj
          /\ NoFault
       \/ ~Upright /\ NoFault /\ UNCHANGED <<discord, entry, stored>>
       \/ Fault /\ UNCHANGED <<discord, entry, stored>>
    /\ Stop(Lock)
    /\ copy' = [copy EXCEPT ![Lock] = Unread]
    /\ UNCHANGED <<configured, pub, panels, replaced, wizard, clock, records, count, ghosts>>

-----------------------------------------------------------------------------
(* The scheduler                                                           *)

Advance ==
    /\ wizard.outcome = "submitted"
    /\ \/ clock = "before" /\ clock' = "notice"
       \/ clock = "notice" /\ clock' = "pop"
       \/ clock = "pop" /\ stored.removing /\ clock' = "over"
    /\ UNCHANGED <<configured, panelVars, run, faults, wizard, objective>>

\* Mutant: only while there are assets to clean up.
ToExpire_Assets == stored.role \/ stored.ping

\* Assets to clean up, or the time to remove it has come.
ToExpire == stored.role \/ stored.ping \/ clock = "over"

\* The entry is read under the lock, the time before that; nothing to do is a stutter.
Tick ==
    /\ Free
    /\ Active /\ stored.in
    /\ \/ /\ clock = "notice" /\ ~stored.notified /\ ~stored.removing /\ stored.role
          /\ Go(Lock, "ping")
       \/ /\ clock \in {"pop", "over"} /\ ~stored.removing
          /\ Go(Lock, "popped")
       \/ /\ clock \in {"pop", "over"} /\ stored.removing
          /\ ToExpire
          /\ Go(Lock, "expire")
    /\ copy' = [copy EXCEPT ![Lock] = [Unread EXCEPT !.obj = stored, !.now = clock]]
    /\ UNCHANGED <<configured, panelVars, faults, wizard, clock, records, stored, made, ghosts>>

EndTick == Stop(Lock) /\ copy' = [copy EXCEPT ![Lock] = Unread]

\* _apply_objective_deltas works on the newest entry.
Detach(obj) == [obj EXCEPT !.role = FALSE, !.ping = FALSE]
Told(obj)   == IF obj.in THEN [obj EXCEPT !.notified = TRUE, !.ping = TRUE] ELSE obj

\* A role that was deleted or renamed is no longer used; otherwise the intent is stored.
PreparePing ==
    /\ At(Lock, "ping")
    /\ IF Upright
       THEN /\ notice' = [notice EXCEPT !.status = "pending"]
            /\ Begin(Lock, "call", IF notice.status = "none" THEN "first" ELSE "bot")
            /\ UNCHANGED <<stored, copy>>
       ELSE /\ stored' = IF stored.in THEN Detach(stored) ELSE stored
            /\ EndTick
            /\ UNCHANGED notice
    /\ UNCHANGED <<configured, panelVars, faults, wizard, clock, creation, made, ghosts>>

\* Mutant: a retry sends at once.
FoundPing_Never == FALSE

\* By its id or its marker, if there was a record already.
FoundPing == Pinged /\ run[Lock].for = "bot"

NewPing == IF FoundPing THEN UNCHANGED made ELSE Make("ping", "marked")

SendPing ==
    /\ At(Lock, "call")
    /\ NewPing
    /\ notice' = [status |-> IF stored.in THEN "completed" ELSE "sent", msg |-> TRUE]
    /\ stored' = Told(stored)
    /\ EndTick
    /\ UNCHANGED <<configured, panelVars, faults, wizard, clock, creation, ghosts>>

PingLost ==
    /\ At(Lock, "call")
    /\ Fault
    /\ NewPing \/ UNCHANGED made
    /\ EndTick
    /\ UNCHANGED <<configured, panelVars, wizard, clock, records, stored, ghosts>>

\* The process dies after the id was stored, or after the objective was marked.
PingCrash ==
    /\ At(Lock, "call")
    /\ Fault
    /\ NewPing
    /\ notice' = [status |-> "sent", msg |-> TRUE]
    /\ stored' = Told(stored) \/ UNCHANGED stored
    /\ Crash
    /\ copy' = [r \in {Lock, Removal} |-> Unread]
    /\ UNCHANGED <<configured, panelVars, wizard, clock, creation, ghosts>>

\* Mutant: the role is deleted even if it is no longer the bot's.
Swept_Any(obj) ==
    [discord EXCEPT !.ping = IF obj.ping THEN Deleted(@) ELSE @,
                    !.role = IF obj.role THEN Deleted(@) ELSE @]

\* _cleanup_objective_notification_assets, for the objective as it was read.
Swept(obj) ==
    [discord EXCEPT !.ping = IF obj.ping THEN Deleted(@) ELSE @,
                    !.role = IF obj.role /\ Upright THEN "gone" ELSE @]

\* Part of it, when a call fails.
SweptInPart(obj) ==
    {discord, [discord EXCEPT !.ping = Swept(obj).ping], [discord EXCEPT !.role = Swept(obj).role]}

\* The pop is marked even if the clean-up fails; it is retried on later ticks.
Popped ==
    LET obj == copy[Lock].obj
    IN  /\ At(Lock, "popped")
        /\ \/ /\ discord' = Swept(obj)
              /\ stored' = IF stored.in THEN [Detach(stored) EXCEPT !.removing = TRUE] ELSE stored
              /\ NoFault
           \/ /\ Fault
              /\ discord' \in SweptInPart(obj)
              /\ stored' = IF stored.in THEN [stored EXCEPT !.removing = TRUE] ELSE stored
        /\ EndTick
        /\ UNCHANGED <<configured, panelVars, wizard, clock, records, count, ghosts>>

\* remove_keys: only with the assets and the message deleted.
Dropped(clean) == clean

Expire ==
    LET obj  == copy[Lock].obj
        over == copy[Lock].now = "over"
        Unposted(d) == [d EXCEPT !.post = IF over THEN Deleted(@) ELSE @]
        Drop(clean) ==
            IF stored.in /\ over /\ Dropped(clean)
            THEN stored' = Missing /\ ended' = TRUE
            ELSE UNCHANGED <<stored, ended>>
    IN  /\ At(Lock, "expire")
        /\ \/ /\ over
              /\ discord' = Unposted(Swept(obj)) /\ Drop(TRUE) /\ NoFault
           \/ /\ (~over /\ NoFault) \/ (over /\ Fault)  \* its message could not be deleted
              /\ discord' = Swept(obj)
              /\ stored' = IF stored.in THEN Detach(stored) ELSE stored
              /\ UNCHANGED ended
           \/ /\ Fault
              /\ \E d \in SweptInPart(obj) : discord' \in {d, Unposted(d)}
              /\ Drop(FALSE)
        /\ EndTick
        /\ UNCHANGED <<configured, panelVars, wizard, clock, records, count, tampered, torn, forgot>>

\* A crash while assets are being cleaned up loses what was done.
TickCrash ==
    /\ At(Lock, "popped") \/ At(Lock, "expire")
    /\ Fault
    /\ \E d \in SweptInPart(copy[Lock].obj) \union {Swept(copy[Lock].obj)} :
         \/ discord' = d
         \/ copy[Lock].now = "over" /\ discord' = [d EXCEPT !.post = Deleted(@)]
    /\ Crash
    /\ copy' = [r \in {Lock, Removal} |-> Unread]
    /\ UNCHANGED <<configured, panelVars, wizard, clock, records, stored, count, ghosts>>

-----------------------------------------------------------------------------
(* Notifications that were left                                            *)

Cancelled == ~Active \/ ~stored.in
Late      == clock \in {"pop", "over"} \/ stored.removing

\* _cancel_pending_notification deletes the ping it finds.
TakenDown == Deleted(discord.ping)

ResumeNotice ==
    /\ Free
    /\ notice.status \in {"pending", "sent"}
    /\ \/ /\ Cancelled \/ (~stored.notified /\ Late)
          /\ \/ /\ discord' = [discord EXCEPT !.ping = TakenDown]
                /\ notice' = [notice EXCEPT !.status = "cancelled"]
                /\ NoFault
             \/ Fault /\ UNCHANGED <<notice, discord>>
          /\ UNCHANGED <<stored, run>>
       \/ /\ ~Cancelled /\ stored.notified
          /\ notice' = [notice EXCEPT !.status = "completed"]
          /\ UNCHANGED <<stored, discord, run, faults>>
       \/ /\ ~Cancelled /\ ~stored.notified /\ ~Late
          /\ IF Pinged
             THEN /\ notice' = [status |-> "completed", msg |-> TRUE]
                  /\ stored' = Told(stored)
                  /\ UNCHANGED <<discord, run, faults>>
             ELSE /\ stored.role /\ Upright
                  /\ Begin(Lock, "call", "bot")
                  /\ UNCHANGED <<stored, discord, notice, faults>>
    /\ UNCHANGED <<configured, panelVars, wizard, clock, creation, copy, count, ghosts>>

-----------------------------------------------------------------------------
(* Members and moderators                                                  *)

\* Notify Me gives the role, or detaches one that was deleted or renamed.
NotifyMe ==
    /\ Free
    /\ Active /\ stored.in /\ Posted /\ stored.role /\ ~Upright
    /\ stored' = Detach(stored)
    /\ forgot' = (forgot \/ (stored.ping /\ Pinged))
    /\ UNCHANGED <<configured, panelVars, run, faults, wizard, clock, records, copy, made,
                   tampered, torn, ended>>

\* The button: the objective is kept unless its assets could be deleted; its own
\* message may stay behind.
RemoveObjective ==
    /\ Free
    /\ Active /\ stored.in /\ Posted
    /\ \/ /\ \E d \in {Swept(stored), [Swept(stored) EXCEPT !.post = "gone"]} : discord' = d
          /\ stored' = Missing
          /\ ended' = TRUE
          /\ NoFault
       \/ /\ Fault
          /\ discord' \in SweptInPart(stored)
          /\ UNCHANGED <<stored, ended>>
    /\ UNCHANGED <<configured, panelVars, run, wizard, clock, records, copy, count, tampered, torn, forgot>>

Moderate ==
    /\ Fault
    /\ tampered' = TRUE
    /\ \/ Upright /\ \E s \in {"foreign", "gone"} : discord' = [discord EXCEPT !.role = s]
       \/ Posted /\ discord' = [discord EXCEPT !.post = "gone"]
    /\ UNCHANGED <<configured, panelVars, run, wizard, clock, records, stored, copy, count, torn,
                   forgot, ended>>

-----------------------------------------------------------------------------
(* Retirement                                                              *)

\* deactivate_guild_objective_configuration: the entry is disabled, then the panel
\* and every objective that was read are cleaned up, then the entry is deleted.
Retire(r) ==
    /\ entry.exists
    /\ entry' = [entry EXCEPT !.disabled = TRUE]
    /\ copy' = [copy EXCEPT ![r] = [Unread EXCEPT !.obj = stored, !.entry = entry]]
    /\ Go(r, "retire")
    /\ UNCHANGED <<pub, panels, replaced, faults, wizard, clock, records, stored, made, ghosts>>

\* /bot-remove; it takes no objectives lock.
RemoveConfiguration ==
    /\ configured
    /\ At(Removal, "idle")
    /\ configured' = FALSE
    /\ IF entry.exists THEN Retire(Removal)
       ELSE UNCHANGED <<panelVars, run, faults, wizard, clock, objective>>

\* Mutant: only an entry that says so.
ToRetire_Disabled == entry.disabled

ToRetire == ~Active

\* The scheduler, or /set-objective-panel, over an entry that is to be retired.
RetireLocked ==
    /\ Free
    /\ ToRetire
    /\ Retire(Lock)
    /\ UNCHANGED configured

InertPanel(p) == [panels EXCEPT ![p] = IF @ = "live" THEN "inert" ELSE @]

Retired(r) ==
    LET p   == copy[r].entry.panel
        obj == copy[r].obj
        Cleaned == [Swept(obj) EXCEPT !.post = IF obj.in /\ @ = "marked" THEN "clean" ELSE @]
    IN  /\ At(r, "retire")
        /\ \/ /\ panels' = IF p # 0 THEN InertPanel(p) ELSE panels
              /\ discord' = Cleaned
              /\ entry' = NoEntry
              /\ stored' = Missing
              /\ NoFault
           \/ /\ Fault
              /\ discord' \in SweptInPart(obj) \union {Cleaned}
              /\ UNCHANGED panels \/ (p # 0 /\ panels' = InertPanel(p))
              /\ entry' = IF entry.exists THEN [entry EXCEPT !.disabled = TRUE] ELSE entry
              /\ UNCHANGED stored
        /\ Stop(r)
        /\ copy' = [copy EXCEPT ![r] = Unread]
        /\ UNCHANGED <<configured, pub, replaced, wizard, clock, records, count, ghosts>>

\* Nothing of the work in hand survives; a wizard that waits for the lock dies with
\* it in the code and goes on here.
Restart ==
    /\ Fault
    /\ \E r \in {Lock, Removal} : ~At(r, "idle")
    /\ Crash
    /\ copy' = [r \in {Lock, Removal} |-> Unread]
    /\ UNCHANGED <<configured, panelVars, wizard, clock, records, stored, made, ghosts>>

-----------------------------------------------------------------------------

Panels ==
    /\ PanelNext
    /\ UNCHANGED <<wizard, clock, objective>>

Discord ==
    \/ Panels
    \/ TakeLock \/ ResumeCreation
    \/ CheckCreation \/ EnsureRole \/ RoleCrash \/ NameRole
    \/ PostObjective \/ PostLost \/ PostCrash \/ TidyCreation \/ TakeBack
    \/ SweepCompleted \/ SweepNames \/ SaveNames
    \/ Advance \/ Tick \/ PreparePing \/ SendPing \/ PingLost \/ PingCrash
    \/ Popped \/ Expire \/ TickCrash \/ ResumeNotice
    \/ NotifyMe \/ RemoveObjective \/ Moderate
    \/ RemoveConfiguration \/ RetireLocked \/ (\E r \in {Lock, Removal} : Retired(r))
    \/ Restart

Next == Wizard \/ Confirm \/ BeginCreation \/ (~Clickable /\ Discord)

Spec == Init /\ [][Next]_vars

\* What goes on without members and administrators: the view times out, tasks run on
\* until they release the lock, the scheduler ticks, time passes.
Background ==
    \/ CloseWizard /\ UNCHANGED <<configured, panelVars, run, faults, clock, objective>>
    \/ BeginCreation
    \/ /\ ~Clickable
       /\ \/ PanelWork /\ UNCHANGED <<wizard, clock, objective>>
          \/ TakeLock \/ ResumeCreation
          \/ CheckCreation \/ EnsureRole \/ NameRole \/ PostObjective \/ TidyCreation \/ TakeBack
          \/ SweepCompleted \/ SweepNames \/ SaveNames
          \/ Advance \/ Tick \/ PreparePing \/ SendPing \/ Popped \/ Expire \/ ResumeNotice
          \/ RetireLocked \/ (\E r \in {Lock, Removal} : Retired(r))

FairSpec == Spec /\ WF_vars(Background)

-----------------------------------------------------------------------------

TypeOK ==
    /\ PanelTypeOK
    /\ WizardTypeOK
    /\ clock \in Times
    /\ creation \in [status : Creating \union Settled \union {"none", "compensation_pending"},
                     panel : Panel \union {0}, tried : BOOLEAN, role : BOOLEAN, msg : BOOLEAN]
    /\ notice \in [status : {"none", "pending", "sent"} \union Settled, msg : BOOLEAN]
    /\ stored \in Objective
    /\ discord.role \in {"none", "pending", "clean", "foreign", "gone"}
    /\ {discord.post, discord.ping} \subseteq {"none", "marked", "clean", "gone"}

(* The view an objective is made from, when its turn has come, has every field of the
   type, whatever order the clicks of the wizard came in, unless one of them took back
   after Confirm what Confirm had validated. *)
MadeFromCompleteView == At(Lock, "payload") /\ ~wizard.late => Complete

(* One objective is one ping to its subscribers, one message and one role, however
   often a call is lost or the process dies; moderators may make the bot replace
   what they deleted. *)
MadeOnce ==
    /\ count.ping <= 1
    /\ ~tampered => count.role <= 1
    /\ ~tampered /\ ~torn => count.post <= 1

(* What is announced is complete, but for a field that was taken back at the last
   moment, and it is announced once. *)
AnnouncedOnce == MadeFromCompleteView /\ MadeOnce

(* Once the objective and the work on it are gone, its ping and the role whose id
   was recorded are gone, too, unless a moderator or Notify Me found the role missing. *)
NothingLeftBehind ==
    /\ configured /\ ~tampered /\ ~forgot
    /\ ~stored.in
    /\ creation.status \in Settled
    /\ notice.status \notin {"pending", "sent"}
    => /\ ~Pinged
       /\ creation.role => ~Upright

(* An objective that was removed does not come back. *)
RemovedStaysRemoved == configured /\ ended /\ ~torn => ~stored.in

(* A removal is for good: the objective stays away, and nothing of it is left. *)
RemovedForGood == NothingLeftBehind /\ RemovedStaysRemoved

(* The stored entry, the publication record and the panel messages agree. *)
PanelsAgree == TypeOK /\ PanelInForceIsLive /\ ReplacedPanelIsRetired

(* An objective whose creation was begun, or that was announced, is over in the end:
   no record of it stays in progress and it leaves the entry. *)
ObjectiveEnds ==
    creation.status \in Creating \union {"completed"} ~>
        creation.status \notin Creating /\ ~stored.in

(* After the configuration is removed, which is for good, the entry goes, in the end, and
   no panel publication stays unfinished, although the removal may fail or die and does
   not wait for the lock. *)
RetirementCompletes ==
    []<>(~configured => ~entry.exists /\ pub.status \in {"none", "completed", "cancelled"})

(* A role that a moderator renamed is never deleted. *)
ForeignRoleIsKept ==
    [][discord.role = "foreign" => discord'.role # "gone"]_vars
=============================================================================

--------------------------- MODULE ObjectivesProofs ---------------------------
(***************************************************************************)
(* Safety of the objectives, for every wizard and any number of panels,    *)
(* failed calls, crashes and deeds of moderators.                          *)
(*                                                                         *)
(* Two ideas carry the proof.  While the server is configured only the     *)
(* holder of the lock changes the entry and the objective, so what he read *)
(* is what is stored.  And a role that was deleted or renamed is not made  *)
(* again once its creation was tried: an objective that was removed, or    *)
(* that comes back after a crash, has no role to ping with.                *)
(***************************************************************************)
EXTENDS Objectives, TLAPS

USE PanelAssumption DEF PanelAssumption, panelVars, ghosts, records, made, objective

-----------------------------------------------------------------------------
(* The invariant: types and the lock                                       *)

Runners == {Lock, Removal}
Publishing == {"check", "send", "swap", "undo"}
Founding   == {"begin", "role", "name", "post"}
Ticking    == {"rename", "ping", "popped", "expire"}
Steps == Publishing \union Founding \union Ticking
           \union {"idle", "payload", "takeback", "tidy", "call", "retire"}
Tasks   == [step : Steps, for : {"bot", "admin", "editor", "caller", "first"}]
Entries == [exists : BOOLEAN, disabled : BOOLEAN, panel : Panel \union {0}]
Views   == [obj : Objective, entry : Entries, now : Times]
Things  == {"none", "marked", "clean", "gone"}
Roles   == {"none", "pending", "clean", "foreign", "gone"}

Kept ==
    /\ run \in [Runners -> Tasks]
    /\ copy \in [Runners -> Views]
    /\ discord \in [post : Things, ping : Things, role : Roles]
    /\ count \in [post : Nat, ping : Nat, role : Nat]
    /\ tampered \in BOOLEAN /\ torn \in BOOLEAN /\ forgot \in BOOLEAN /\ ended \in BOOLEAN

AtAny(steps) == run[Lock].step \in steps

\* An objective that is not in the entry has nothing; a ping is of one notified.
WellFormed(obj) == (obj.in \/ obj = Missing) /\ (obj.ping => obj.notified)

\* As long as the server is configured, the lock holder knows what is stored.
HolderInv ==
    /\ WellFormed(stored) /\ \A r \in Runners : WellFormed(copy[r].obj)
    /\ run[Removal].step \in {"idle", "retire"}
    /\ AtAny(Ticking) => copy[Lock].obj.in
    /\ AtAny({"popped", "expire"}) => clock \in {"pop", "over"}
    /\ AtAny({"ping", "call"}) /\ At(Removal, "retire") => ~copy[Removal].obj.ping
    /\ configured =>
          /\ ~entry.disabled
          /\ At(Removal, "idle") /\ ~At(Lock, "retire")
          /\ AtAny(Ticking) => copy[Lock].obj = stored
          /\ At(Lock, "rename") => copy[Lock].entry = entry
          /\ AtAny({"ping", "call"}) => stored.in /\ ~stored.notified
          /\ AtAny(Founding) => ~stored.in

-----------------------------------------------------------------------------
(* The invariant: the panel                                                *)

Open == Unfinished \union {"compensation_pending"}

\* Message, previous panel and marker of an open record, and where the entry is.
OpenRecord ==
    /\ pub.msg # 0 => pub.mark = pub.msg
    /\ pub.mark # 0 => panels[pub.mark] = "live" /\ pub.mark # pub.prev
    /\ pub.prev # 0 => panels[pub.prev] # "unsent"
    /\ pub.status = "pending" => pub.msg = 0 /\ entry.panel = pub.prev
    /\ pub.status = "message_ready" => pub.msg # 0 /\ entry.panel \in {pub.prev, pub.msg}
    /\ pub.status = "old_cleanup_pending" => pub.msg # 0 /\ entry.panel = pub.msg
    /\ pub.status = "compensation_pending" => pub.msg # 0 /\ entry.panel = pub.prev

Publisher ==
    /\ AtAny({"check", "send"}) =>
          /\ pub.status \in Unfinished
          /\ run[Lock].for # "bot" => pub.status = "pending" /\ pub.mark = 0
    /\ At(Lock, "swap") => pub.status = "message_ready" /\ entry.panel = pub.msg
    /\ At(Lock, "undo") => pub.status \in {"message_ready", "compensation_pending"}
                           /\ entry.panel = pub.prev

PanelInv ==
    configured =>
        /\ entry.panel # 0 => panels[entry.panel] = "live"
        /\ ~replaced => ReplacedPanelIsRetired
        /\ pub.status \in Open => OpenRecord
        /\ Publisher

-----------------------------------------------------------------------------
(* The invariant: creation, role and message                               *)

Spent == creation.role => ~Upright

CreationInv ==
    /\ AtAny(Founding) => creation.status \in Creating
    /\ At(Lock, "takeback") => creation.status \in Creating \union {"compensation_pending"}
    /\ At(Lock, "role") => ~creation.tried
    /\ AtAny({"name", "post"}) => creation.tried
    /\ stored.in \/ ended \/ (\E r \in Runners : copy[r].obj.in) => creation.tried
    /\ creation.status = "none" =>
          ~creation.tried /\ ~creation.role /\ count.post = 0 /\ count.role = 0
    /\ ~torn /\ (stored.in \/ ended \/ copy[Lock].obj.in) => creation.status = "completed"
    /\ creation.status = "cancelled" => Spent
    /\ configured =>
          /\ creation.status = "completed" => stored.in \/ ended
          /\ stored.in /\ ~stored.role => Spent
          /\ ended /\ ~stored.in => Spent
          /\ ended /\ ~torn => ~stored.in

OnceInv ==
    /\ ~tampered =>
          /\ count.role <= 1
          /\ creation.status \in Creating /\ ~creation.tried /\ count.role >= 1
                => discord.role = "pending"
    /\ ~tampered /\ ~torn =>
          /\ count.post <= 1
          /\ creation.status \in Creating /\ count.post >= 1 => Posted
          /\ AtAny(Founding) /\ run[Lock].for # "bot" => count.post = 0

-----------------------------------------------------------------------------
(* The invariant: the ping                                                 *)

Early == clock \in {"before", "notice"}

PingInv ==
    /\ count.ping <= 1
    /\ Pinged => count.ping >= 1
    /\ notice.status = "none" => count.ping = 0
    /\ notice.status = "cancelled" => ~Pinged
    /\ At(Lock, "ping") => (count.ping >= 1 /\ Upright => Pinged)
    /\ At(Lock, "call") =>
          /\ notice.status \in {"pending", "sent"}
          /\ count.ping >= 1 => Pinged /\ run[Lock].for = "bot"
    /\ configured =>
          /\ notice.status # "none" => stored.in \/ ended
          /\ stored.in /\ count.ping >= 1 /\ ~Pinged /\ Early =>
                stored.notified \/ stored.removing \/ (stored.role => ~Upright)
          /\ ~forgot /\ Pinged =>
                /\ stored.in /\ (notice.status = "completed" \/ stored.notified) => stored.ping
                /\ ~stored.in => notice.status # "completed"

-----------------------------------------------------------------------------
(* The invariant: the wizard                                               *)

WizardInv ==
    /\ Working => wizard.outcome \in {"none", "confirmed"}
    /\ wizard.outcome \in {"none", "confirmed"} => creation.status = "none"
    /\ Confirmed => wizard.type \in Types /\ (~wizard.late => Complete)
    /\ At(Lock, "payload") => Confirmed

Inv == TypeOK /\ Kept /\ HolderInv /\ PanelInv /\ CreationInv /\ OnceInv /\ PingInv /\ WizardInv

-----------------------------------------------------------------------------
(* Types                                                                   *)

Well == TypeOK /\ Kept

\* What the runners do next.
LEMMA Went ==
  ASSUME Kept, NEW r \in Runners, NEW s \in Steps, Go(r, s)
  PROVE  /\ run' \in [Runners -> Tasks]
         /\ run'[r].step = s /\ run'[r].for = run[r].for
         /\ \A q \in Runners : q # r => run'[q] = run[q]
BY DEF Kept, Go, Tasks, Runners

LEMMA Began ==
  ASSUME Kept, NEW s \in Steps, NEW f \in {"bot", "admin", "editor", "caller", "first"},
         Begin(Lock, s, f)
  PROVE  /\ run' \in [Runners -> Tasks]
         /\ run'[Lock].step = s /\ run'[Lock].for = f
         /\ run'[Removal] = run[Removal]
BY DEF Kept, Begin, Tasks, Runners

LEMMA Stopped ==
  ASSUME Kept, NEW r \in Runners, Stop(r)
  PROVE  /\ run' \in [Runners -> Tasks]
         /\ run'[r].step = "idle"
         /\ \A q \in Runners : q # r => run'[q] = run[q]
BY DEF Kept, Stop, Tasks, Runners, Idle, Steps

LEMMA Crashed ==
  ASSUME Crash
  PROVE  /\ run' \in [Runners -> Tasks]
         /\ run'[Lock].step = "idle" /\ run'[Removal].step = "idle"
BY DEF Crash, Tasks, Runners, Idle, Steps

LEMMA Unseen == Unread \in Views /\ WellFormed(Unread.obj) /\ ~Unread.obj.in /\ ~Unread.obj.ping
BY DEF Unread, Views, Missing, Objective, Entries, NoEntry, Times, WellFormed

LEMMA Faults ==
  ASSUME TypeOK, Fault \/ NoFault
  PROVE  faults' \in 0 .. MaxFaults
BY DEF TypeOK, PanelTypeOK, Fault, NoFault

\* The steps of a type are counted from one.
LEMMA StepCount ==
  /\ \A t : LastStep(t) \in Nat /\ LastStep(t) >= 1
  /\ \A t : \A n \in Nat : Built(n, t) \in Nat /\ Built(n, t) <= LastStep(t)
<1>1. \A t : LastStep(t) \in Nat /\ LastStep(t) >= 1
  BY WizardAssumption DEF WizardAssumption, LastStep
<1> QED
  BY <1>1 DEF Built

LEMMA WizardTypes ==
  ASSUME WizardTypeOK, OpenWizard \/ WizardNext \/ Submit \/ (\E o \in {"submitted", "closed"} : Leave(o))
  PROVE  WizardTypeOK'
<1> DEFINE Shows == [step : Nat, type : Types \union {"none"}]
           W == [step : Nat, type : Types \union {"none"}, set : SUBSET Fields,
                 modals : SUBSET Typed, shown : Shows,
                 outcome : {"none", "confirmed", "submitted", "closed"}, late : BOOLEAN]
<1>1. /\ wizard \in W
      /\ wizard.step <= LastStep(wizard.type)
      /\ wizard.shown.step <= LastStep(wizard.shown.type)
  BY DEF WizardTypeOK
<1>2. \A w \in W : /\ w.step <= LastStep(w.type)
                   /\ w.shown.step <= LastStep(w.shown.type)
                   /\ wizard' = w
                   => WizardTypeOK'
  BY DEF WizardTypeOK
<1>3. NoWizard \in W /\ [NoWizard EXCEPT !.step = 1, !.shown.step = 1] \in W
  BY DEF NoWizard
<1>4. Typed \subseteq Fields
  BY WizardAssumption DEF WizardAssumption
<1>5. CASE OpenWizard
  BY <1>2, <1>3, <1>5, StepCount DEF OpenWizard, NoWizard
<1>6. CASE CloseWizard \/ (\E o \in {"submitted", "closed"} : Leave(o))
  <2>1. \A o \in {"submitted", "closed"} : [NoWizard EXCEPT !.outcome = o] \in W
    BY DEF NoWizard
  <2> QED
    BY <1>2, <1>6, <2>1, StepCount DEF Leave, CloseWizard, NoWizard
<1>14. CASE Submit
  BY <1>1, <1>2, <1>14 DEF Submit
<1>7. CASE Rendered
  BY <1>1, <1>2, <1>7 DEF Rendered
<1>8. CASE ChooseType
  <2>1. PICK t \in Types, late \in BOOLEAN :
            wizard' = [wizard EXCEPT !.type = t, !.step = Built(wizard.step, t), !.late = late]
    BY <1>1, <1>8 DEF ChooseType
  <2>2. Built(wizard.step, t) \in Nat /\ Built(wizard.step, t) <= LastStep(t)
    BY <1>1, StepCount
  <2> DEFINE v == [wizard EXCEPT !.type = t, !.step = Built(wizard.step, t), !.late = late]
  <2>3. v \in W /\ v.step = Built(wizard.step, t) /\ v.type = t /\ v.shown = wizard.shown
    BY <1>1, <2>2
  <2> HIDE DEF W, v
  <2> QED
    BY <1>1, <1>2, <2>1, <2>2, <2>3 DEF v
<1>9. CASE Select
  BY <1>1, <1>2, <1>9 DEF Select
<1>10. CASE OpenModal
  BY <1>1, <1>2, <1>10 DEF OpenModal
<1>11. CASE SendModal
  <2>1. PICK f \in wizard.modals : \E set \in {wizard.set \union {f}, wizard.set \ {f}} :
            wizard' = [wizard EXCEPT !.set = set, !.modals = wizard.modals \ {f},
                                     !.late = wizard.late \/ (Confirmed /\ f \notin set)]
    BY <1>11 DEF SendModal
  <2>2. PICK set \in {wizard.set \union {f}, wizard.set \ {f}}, late \in BOOLEAN :
            wizard' = [wizard EXCEPT !.set = set, !.modals = wizard.modals \ {f}, !.late = late]
    BY <1>1, <2>1
  <2>3. set \in SUBSET Fields /\ wizard.modals \ {f} \in SUBSET Typed
    BY <1>1, <1>4
  <2> DEFINE v == [wizard EXCEPT !.set = set, !.modals = wizard.modals \ {f}, !.late = late]
  <2>4. v \in W /\ v.step = wizard.step /\ v.type = wizard.type /\ v.shown = wizard.shown
    BY <1>1, <2>3
  <2>5. wizard' = v
    BY <2>2
  <2> HIDE DEF W, v
  <2> QED
    BY <1>1, <1>2, <2>4, <2>5
<1>12. CASE SaveAndContinue
  BY <1>1, <1>2, <1>12, StepCount DEF SaveAndContinue
<1>13. CASE Back
  <2>1. wizard.step \in Nat /\ LastStep(wizard.type) \in Nat /\ LastStep(wizard.type) >= 1
    BY <1>1, StepCount
  <2>2. PICK n : n = IF wizard.step > 1 THEN wizard.step - 1 ELSE 1
    OBVIOUS
  <2>3. n \in Nat /\ n <= LastStep(wizard.type)
    BY <1>1, <2>1, <2>2
  <2> QED
    BY <1>1, <1>2, <1>13, <2>2, <2>3 DEF Back
<1> QED
  BY <1>5, <1>6, <1>7, <1>8, <1>9, <1>10, <1>11, <1>12, <1>13, <1>14 DEF WizardNext

-----------------------------------------------------------------------------
(* Publications of the panel                                               *)

Pubs   == [status : PubStatus, msg : Panel \union {0}, prev : Panel \union {0},
           mark : Panel \union {0}]
States == {"unsent", "live", "inert", "gone"}

LEMMA Numbers == 0 \notin Panel
BY DEF Panel

\* What a step of the publication leaves alone.
Beside ==
    /\ UNCHANGED <<configured, wizard, clock, objective>>
    /\ entry'.disabled = entry.disabled
    /\ run[Lock].step \in {"idle"} \union Publishing
    /\ run'[Lock].step \in {"idle"} \union Publishing
    /\ run'[Removal] = run[Removal] \/ run'[Removal].step = "idle"

\* The parts that a publication changes.
PanelWell ==
    /\ entry' \in Entries /\ pub' \in Pubs /\ panels' \in [Panel -> States]
    /\ replaced' \in BOOLEAN /\ faults' \in 0 .. MaxFaults
    /\ run' \in [Runners -> Tasks]

LEMMA PanelTyped ==
  ASSUME Well
  PROVE  /\ entry \in Entries /\ pub \in Pubs /\ panels \in [Panel -> States]
         /\ configured \in BOOLEAN /\ replaced \in BOOLEAN /\ faults \in 0 .. MaxFaults
         /\ run \in [Runners -> Tasks]
BY DEF Well, Kept, TypeOK, PanelTypeOK, Entries, Pubs, States

LEMMA PanelWellKeeps ==
  ASSUME Well, PanelWell, Beside
  PROVE  Well'
BY DEF Well, Kept, TypeOK, PanelTypeOK, WizardTypeOK, LastStep, PanelWell, Beside, Entries, Pubs, States,
       Upright, Pinged, Posted

LEMMA EntryTypes ==
  ASSUME entry \in Entries
  PROVE  /\ entry.panel \in Panel \union {0} /\ entry.disabled \in BOOLEAN
         /\ entry' = [entry EXCEPT !.exists = TRUE] =>
               entry' \in Entries /\ entry'.disabled = entry.disabled /\ entry'.panel = entry.panel
         /\ entry' = [entry EXCEPT !.disabled = TRUE] =>
               entry' \in Entries /\ entry'.disabled /\ entry'.panel = entry.panel
         /\ \A p \in Panel : SetPanel(p) =>
               entry' \in Entries /\ entry'.disabled = entry.disabled /\ entry'.panel = p
BY DEF Entries, SetPanel

LEMMA PubTypes ==
  /\ NoPub \in Pubs
  /\ \A x \in Pubs, s \in PubStatus : [x EXCEPT !.status = s] \in Pubs
  /\ \A p \in Panel \union {0} : [NoPub EXCEPT !.status = "pending", !.prev = p] \in Pubs
  /\ \A x \in Pubs, p \in Panel : [x EXCEPT !.status = "message_ready", !.msg = p, !.mark = p] \in Pubs
  /\ \A x \in Pubs, p \in Panel : [x EXCEPT !.mark = p] \in Pubs
BY DEF Pubs, NoPub, PubStatus, Unfinished

\* The message found, or a new one.
LEMMA SentTypes ==
  ASSUME Well, NEW p \in Panel, Sent(p)
  PROVE  /\ panels' \in [Panel -> States]
         /\ \/ p \in Discovered /\ panels' = panels
            \/ Discovered = {} /\ panels[p] = "unsent" /\ panels' = [panels EXCEPT ![p] = "live"]
BY PanelTyped DEF Sent, NewPanel, States

\* Until the clean-up no panel but those of the record has buttons, and the message
\* of the record is not the panel it follows.
LEMMA SentLive ==
  ASSUME Well, configured, PanelInv, At(Lock, "send"), NEW p \in Panel, Sent(p)
  PROVE  /\ panels'[p] = "live" /\ p # pub.prev
         /\ entry.panel # 0 => panels'[entry.panel] = "live"
         /\ pub.prev # 0 => panels'[pub.prev] # "unsent"
         /\ entry.panel \in {pub.prev, p}
         /\ ~replaced => \A q \in Panel : panels'[q] = "live" => q \in {entry.panel, pub.prev, p}
<1> DEFINE P == Panel
<1>1. /\ entry.panel \in Panel \union {0} /\ pub.prev \in Panel \union {0}
      /\ pub.msg \in Panel \union {0} /\ pub.mark \in Panel \union {0}
      /\ panels \in [Panel -> States] /\ replaced \in BOOLEAN
  BY PanelTyped DEF Entries, Pubs
<1>2. /\ entry.panel # 0 => panels[entry.panel] = "live"
      /\ ~replaced => \A q \in Panel : panels[q] = "live" => q \in {entry.panel, pub.msg, pub.prev, pub.mark}
      /\ OpenRecord /\ pub.status \in Unfinished
      /\ run[Lock].for # "bot" => pub.mark = 0
  BY DEF PanelInv, Publisher, AtAny, At, ReplacedPanelIsRetired, Open
<1>3. /\ pub.msg # 0 => pub.mark = pub.msg
      /\ pub.mark # 0 => panels[pub.mark] = "live" /\ pub.mark # pub.prev
      /\ pub.prev # 0 => panels[pub.prev] # "unsent"
      /\ entry.panel # pub.prev => entry.panel = pub.msg /\ pub.msg # 0
  <2>1. pub.status = "pending" \/ pub.status = "message_ready" \/ pub.status = "old_cleanup_pending"
    BY <1>2 DEF Unfinished
  <2> QED
    BY <1>2, <2>1 DEF OpenRecord
<1>4. CASE p \in Discovered /\ panels' = panels
  <2>1. p = pub.mark /\ pub.mark # 0
    BY <1>1, <1>3, <1>4 DEF Discovered, Located, There
  <2> QED
    BY <1>1, <1>2, <1>3, <1>4, <2>1, Numbers
<1>5. CASE Discovered = {} /\ panels[p] = "unsent" /\ panels' = [panels EXCEPT ![p] = "live"]
  <2>1. pub.mark = 0
    BY <1>1, <1>2, <1>3, <1>5 DEF Discovered, Located, There
  <2>2. pub.msg = 0 /\ entry.panel = pub.prev
    BY <1>3, <2>1
  <2>3. \A q \in Panel : panels'[q] = IF q = p THEN "live" ELSE panels[q]
    BY <1>1, <1>5
  <2> QED
    BY <1>1, <1>2, <1>3, <1>5, <2>1, <2>2, <2>3, Numbers
<1> QED
  BY <1>4, <1>5, SentTypes

\* The types, and what a publication leaves alone.
LEMMA PanelTypes ==
  ASSUME Well, Panels
  PROVE  PanelWell /\ Beside
<1>1. /\ entry \in Entries /\ pub \in Pubs /\ panels \in [Panel -> States]
      /\ configured \in BOOLEAN /\ replaced \in BOOLEAN /\ Kept /\ TypeOK
  BY PanelTyped DEF Well
<1>2. UNCHANGED <<wizard, clock, objective>>
  BY DEF Panels
<1>3. ASSUME NEW f \in {"admin", "editor"}, Publish(f), At(Lock, "idle"),
             entry' = [entry EXCEPT !.exists = TRUE] \/ entry' = entry
      PROVE  PanelWell /\ Beside
  <2>1. entry' \in Entries /\ entry'.disabled = entry.disabled /\ entry.panel \in Panel \union {0}
    BY <1>1, <1>3, EntryTypes
  <2>2. pub' \in Pubs /\ replaced' \in BOOLEAN
    BY <1>1, <1>3, <2>1, PubTypes DEF Publish
  <2>3. Begin(Lock, "check", f) /\ UNCHANGED <<configured, panels, faults>>
    BY <1>3 DEF Publish
  <2>4. /\ run' \in [Runners -> Tasks] /\ run'[Lock].step = "check" /\ run'[Removal] = run[Removal]
    BY <1>1, <2>3, Began DEF Steps, Publishing
  <2> QED
    BY <1>1, <1>2, <1>3, <2>1, <2>2, <2>3, <2>4, PanelTyped
       DEF PanelWell, Beside, At, Publishing, Well
<1>4. CASE PostPanel
  BY <1>3, <1>4 DEF PostPanel, Free
<1>5. CASE MovePanel
  BY <1>3, <1>5 DEF MovePanel, Free
<1>6. CASE ResumePanel
  <2>1. PICK s \in {"check", "undo"} : Begin(Lock, s, "bot")
    BY <1>6 DEF ResumePanel
  <2>2. /\ run' \in [Runners -> Tasks] /\ run'[Lock].step = s /\ run'[Removal] = run[Removal]
    BY <1>1, <2>1, Began DEF Steps, Publishing
  <2> QED
    BY <1>1, <1>2, <1>6, <2>2, PanelTyped DEF ResumePanel, PanelWell, Beside, Free, At, Publishing
<1>7. CASE CheckPanel
  <2>1. PICK s \in {"send", "undo"} : Go(Lock, s)
    BY <1>7 DEF CheckPanel
  <2>2. /\ run' \in [Runners -> Tasks] /\ run'[Lock].step = s /\ run'[Removal] = run[Removal]
    BY <1>1, <2>1, Went DEF Steps, Publishing, Runners
  <2> QED
    BY <1>1, <1>2, <1>7, <2>2, PanelTyped DEF CheckPanel, PanelWell, Beside, At, Publishing
<1>8. CASE SendPanel
  <2>1. PICK p \in Panel :
           /\ Sent(p)
           /\ pub' = Ready(p)
           /\ \/ SetPanel(p) /\ Go(Lock, "swap") /\ NoFault
              \/ Go(Lock, "undo") /\ (NoFault \/ Fault) /\ UNCHANGED entry
    BY <1>8 DEF SendPanel
  <2>2. panels' \in [Panel -> States] /\ pub' \in Pubs
    BY <1>1, <2>1, SentTypes, PubTypes DEF Ready
  <2>3. entry' \in Entries /\ entry'.disabled = entry.disabled /\ faults' \in 0 .. MaxFaults
    BY <1>1, <2>1, EntryTypes, Faults
  <2>4. PICK s \in {"swap", "undo"} : Go(Lock, s)
    BY <2>1
  <2>5. /\ run' \in [Runners -> Tasks] /\ run'[Lock].step = s /\ run'[Removal] = run[Removal]
    BY <1>1, <2>4, Went DEF Steps, Publishing, Runners
  <2> QED
    BY <1>1, <1>2, <1>8, <2>2, <2>3, <2>5 DEF SendPanel, PanelWell, Beside, At, Publishing
<1>9. CASE SendLost
  <2>1. panels' \in [Panel -> States] /\ pub' \in Pubs
    <3>1. CASE UNCHANGED <<panels, pub>>
      BY <1>1, <3>1
    <3>2. CASE \E p \in Panel : Sent(p) /\ pub' = [pub EXCEPT !.mark = p]
      <4>1. PICK p \in Panel : Sent(p) /\ pub' = [pub EXCEPT !.mark = p]
        BY <3>2
      <4> QED
        BY <1>1, <4>1, SentTypes, PubTypes
    <3> QED
      BY <1>9, <3>1, <3>2 DEF SendLost
  <2>2. Stop(Lock) /\ Fault
    BY <1>9 DEF SendLost
  <2>3. /\ run' \in [Runners -> Tasks] /\ run'[Lock].step = "idle" /\ run'[Removal] = run[Removal]
    BY <1>1, <2>2, Stopped DEF Runners
  <2> QED
    BY <1>1, <1>2, <1>9, <2>1, <2>2, <2>3, Faults DEF SendLost, PanelWell, Beside, At, Publishing
<1>10. CASE SendCrash
  <2>1. PICK p \in Panel :
           /\ Sent(p)
           /\ pub' = Ready(p)
           /\ SetPanel(p) \/ UNCHANGED entry
    BY <1>10 DEF SendCrash
  <2>2. panels' \in [Panel -> States] /\ pub' \in Pubs
    BY <1>1, <2>1, SentTypes, PubTypes DEF Ready
  <2>3. entry' \in Entries /\ entry'.disabled = entry.disabled
    BY <1>1, <2>1, EntryTypes
  <2>4. Crash /\ Fault
    BY <1>10 DEF SendCrash
  <2>5. /\ run' \in [Runners -> Tasks] /\ run'[Lock].step = "idle" /\ run'[Removal].step = "idle"
    BY <2>4, Crashed
  <2> QED
    BY <1>1, <1>2, <1>10, <2>2, <2>3, <2>4, <2>5, Faults DEF SendCrash, PanelWell, Beside, At, Publishing
<1>11. CASE SwapPanel \/ UndoPanel
  <2>1. Stop(Lock) /\ (NoFault \/ Fault) /\ UNCHANGED <<configured, entry, replaced>>
    BY <1>11 DEF SwapPanel, UndoPanel
  <2>2. /\ run' \in [Runners -> Tasks] /\ run'[Lock].step = "idle" /\ run'[Removal] = run[Removal]
    BY <1>1, <2>1, Stopped DEF Runners
  <2>3. pub' \in Pubs
    <3>1. PICK s \in PubStatus : Settle(s)
      BY <1>11 DEF SwapPanel, UndoPanel, PubStatus, Unfinished
    <3> QED
      BY <1>1, <3>1, PubTypes DEF Settle
  <2>4. panels' \in [Panel -> States]
    BY <1>1, <1>11 DEF SwapPanel, UndoPanel, Swapped, States
  <2>5. run[Lock].step \in Publishing
    BY <1>11 DEF SwapPanel, UndoPanel, At, Publishing
  <2> QED
    BY <1>1, <1>2, <2>1, <2>2, <2>3, <2>4, <2>5, Faults DEF PanelWell, Beside
<1> QED
  BY <1>4, <1>5, <1>6, <1>7, <1>8, <1>9, <1>10, <1>11 DEF Panels, PanelNext, PanelSteps

\* While the server is configured the panel in force has buttons and no other panel
\* is forgotten.
LEMMA PanelStep ==
  ASSUME Well, HolderInv, PanelInv, Panels
  PROVE  PanelInv'
<1> SUFFICES ASSUME configured'
             PROVE  /\ entry'.panel # 0 => panels'[entry'.panel] = "live"
                    /\ ~replaced' => ReplacedPanelIsRetired'
                    /\ pub'.status \in Open => OpenRecord'
                    /\ Publisher'
  BY DEF PanelInv
<1>1. /\ PanelWell /\ Beside /\ PanelWell /\ configured /\ ~entry.disabled /\ Active
      /\ entry.panel # 0 => panels[entry.panel] = "live"
      /\ ~replaced => ReplacedPanelIsRetired
      /\ pub.status \in Open => OpenRecord
      /\ Publisher
  BY PanelTypes DEF Beside, HolderInv, PanelInv, Active
<1>2. /\ entry \in Entries /\ pub \in Pubs /\ panels \in [Panel -> States]
      /\ entry.panel \in Panel \union {0} /\ pub.prev \in Panel \union {0}
      /\ pub.msg \in Panel \union {0} /\ pub.mark \in Panel \union {0}
      /\ replaced \in BOOLEAN /\ run \in [Runners -> Tasks]
  BY PanelTyped, EntryTypes DEF Pubs
<1>3. ASSUME NEW f \in {"admin", "editor"}, Publish(f), entry'.panel = entry.panel
      PROVE  PanelInv'
  <2>1. /\ run'[Lock].step = "check" /\ run'[Lock].for = f
    BY <1>3, Began DEF Publish, Well, Steps, Publishing
  <2>2. /\ pub'.status = "pending" /\ pub'.msg = 0 /\ pub'.mark = 0 /\ pub'.prev = entry.panel
        /\ panels' = panels /\ (~replaced' => ~replaced /\ pub.status \notin Open)
    BY <1>2, <1>3 DEF Publish, NoPub, Open
  <2>3. ~replaced' => \A p \in Panel : panels[p] = "live" => p = entry.panel
    BY <1>1, <2>2 DEF ReplacedPanelIsRetired, Open
  <2>4. OpenRecord' /\ Publisher'
    BY <1>1, <1>3, <2>1, <2>2 DEF OpenRecord, Publisher, AtAny, At, Unfinished
  <2>5. ~replaced' => ReplacedPanelIsRetired'
    BY <1>3, <2>2, <2>3 DEF ReplacedPanelIsRetired, Unfinished
  <2> QED
    BY <1>1, <1>3, <2>2, <2>4, <2>5 DEF PanelInv
<1>4. CASE PostPanel
  BY <1>2, <1>3, <1>4, EntryTypes DEF PostPanel, PanelInv
<1>5. CASE MovePanel
  BY <1>3, <1>5 DEF MovePanel, PanelInv
<1>6. CASE ResumePanel
  <2>1. \/ pub.status \in Unfinished /\ Begin(Lock, "check", "bot")
        \/ pub.status = "compensation_pending" /\ Begin(Lock, "undo", "bot")
    BY <1>6 DEF ResumePanel
  <2>2. \/ pub.status \in Unfinished /\ run'[Lock].step = "check" /\ run'[Lock].for = "bot"
        \/ pub.status = "compensation_pending" /\ run'[Lock].step = "undo"
    BY <2>1, Began DEF Well, Steps, Publishing
  <2>3. UNCHANGED <<configured, entry, pub, panels, replaced>>
    BY <1>6 DEF ResumePanel
  <2>4. Publisher'
    BY <1>1, <2>2, <2>3 DEF Publisher, AtAny, At, OpenRecord, Open, Unfinished
  <2> QED
    BY <1>1, <2>3, <2>4 DEF ReplacedPanelIsRetired, OpenRecord
<1>7. CASE CheckPanel
  <2>1. run'[Lock].step = "send" /\ run'[Lock].for = run[Lock].for /\ run[Lock].step = "check"
    BY <1>1, <1>7, Went DEF CheckPanel, At, Well, Steps, Publishing, Runners
  <2>2. UNCHANGED <<configured, entry, pub, panels, replaced>>
    BY <1>7 DEF CheckPanel
  <2>3. Publisher'
    BY <1>1, <2>1, <2>2 DEF Publisher, AtAny, At
  <2> QED
    BY <1>1, <2>2, <2>3 DEF ReplacedPanelIsRetired, OpenRecord
<1>8. ASSUME NEW p \in Panel, At(Lock, "send"), Sent(p), pub' = Ready(p), UNCHANGED replaced,
             \/ entry'.panel = p /\ run'[Lock].step \in {"swap", "idle"}
             \/ entry'.panel = entry.panel /\ run'[Lock].step = "idle"
             \/ entry'.panel = entry.panel /\ run'[Lock].step = "undo" /\ run[Lock].for # "bot"
      PROVE  PanelInv'
  <2>1. /\ panels'[p] = "live" /\ p # pub.prev /\ p # 0
        /\ entry.panel # 0 => panels'[entry.panel] = "live"
        /\ pub.prev # 0 => panels'[pub.prev] # "unsent"
        /\ entry.panel \in {pub.prev, p}
        /\ ~replaced => \A q \in Panel : panels'[q] = "live" => q \in {entry.panel, pub.prev, p}
    BY <1>1, <1>8, SentLive, Numbers
  <2>2. /\ pub'.status = "message_ready" /\ pub'.msg = p /\ pub'.mark = p /\ pub'.prev = pub.prev
    BY <1>2, <1>8 DEF Ready, Pubs
  <2>3. run[Lock].for # "bot" => entry.panel = pub.prev
    BY <1>1, <1>8 DEF Publisher, AtAny, At, OpenRecord, Open, Unfinished
  <2>4. OpenRecord'
    BY <1>8, <2>1, <2>2 DEF OpenRecord
  <2>5. Publisher'
    BY <1>8, <2>2, <2>3 DEF Publisher, AtAny, At
  <2>6. ~replaced' => ReplacedPanelIsRetired'
    BY <1>8, <2>1, <2>2 DEF ReplacedPanelIsRetired, Unfinished
  <2> QED
    BY <1>8, <2>1, <2>4, <2>5, <2>6 DEF PanelInv
<1>9. CASE SendPanel
  <2>1. PICK p \in Panel :
           /\ Sent(p)
           /\ pub' = Ready(p)
           /\ \/ SetPanel(p) /\ Go(Lock, "swap")
              \/ run[Lock].for = "admin" /\ Go(Lock, "undo") /\ UNCHANGED entry
    BY <1>1, <1>9 DEF SendPanel
  <2>2. At(Lock, "send") /\ UNCHANGED replaced
    BY <1>9 DEF SendPanel
  <2>3. SetPanel(p) => entry'.panel = p
    BY <1>2, EntryTypes
  <2>4. /\ Go(Lock, "swap") => run'[Lock].step = "swap"
        /\ Go(Lock, "undo") => run'[Lock].step = "undo"
    BY Went DEF Well, Steps, Publishing, Runners
  <2>5. PanelInv'
    BY <1>8, <2>1, <2>2, <2>3, <2>4
  <2> QED
    BY <2>5 DEF PanelInv
<1>10. CASE SendCrash
  <2>1. PICK p \in Panel :
           /\ Sent(p)
           /\ pub' = Ready(p)
           /\ SetPanel(p) \/ UNCHANGED entry
    BY <1>10 DEF SendCrash
  <2>2. At(Lock, "send") /\ UNCHANGED replaced /\ run'[Lock].step = "idle"
    BY <1>10, Crashed DEF SendCrash
  <2>3. SetPanel(p) => entry'.panel = p
    BY <1>2, EntryTypes
  <2>5. PanelInv'
    BY <1>8, <2>1, <2>2, <2>3
  <2> QED
    BY <2>5 DEF PanelInv
<1>11. CASE SendLost
  <2>1. At(Lock, "send") /\ UNCHANGED <<configured, entry, replaced>> /\ run'[Lock].step = "idle"
    BY <1>11, Stopped DEF SendLost, Well, Runners
  <2>2. Publisher'
    BY <2>1 DEF Publisher, AtAny, At
  <2>3. CASE UNCHANGED <<panels, pub>>
    BY <1>1, <2>1, <2>2, <2>3 DEF ReplacedPanelIsRetired, OpenRecord
  <2>4. CASE Discovered = {} /\ \E p \in Panel : Sent(p) /\ pub' = [pub EXCEPT !.mark = p]
    <3>1. PICK p \in Panel : Sent(p) /\ pub' = [pub EXCEPT !.mark = p]
      BY <2>4
    <3>2. /\ panels'[p] = "live" /\ p # pub.prev /\ p # 0
          /\ entry.panel # 0 => panels'[entry.panel] = "live"
          /\ pub.prev # 0 => panels'[pub.prev] # "unsent"
          /\ ~replaced => \A q \in Panel : panels'[q] = "live" => q \in {entry.panel, pub.prev, p}
      BY <1>1, <2>1, <3>1, SentLive, Numbers
    <3>3. /\ pub'.status = pub.status /\ pub'.msg = pub.msg /\ pub'.mark = p /\ pub'.prev = pub.prev
      BY <1>2, <3>1 DEF Pubs
    <3>4. pub.status \in Unfinished /\ OpenRecord /\ (run[Lock].for # "bot" => pub.mark = 0)
      BY <1>1, <2>1 DEF Publisher, AtAny, At, Open
    <3>5. pub.mark = 0 /\ pub.msg = 0
      BY <1>2, <2>4, <3>4, Numbers DEF Discovered, Located, There, OpenRecord
    <3>6. pub.status = "pending" /\ entry.panel = pub.prev
      BY <3>4, <3>5 DEF OpenRecord, Unfinished
    <3>7. OpenRecord'
      BY <2>1, <3>2, <3>3, <3>5, <3>6 DEF OpenRecord
    <3>8. ~replaced' => ReplacedPanelIsRetired'
      BY <2>1, <3>2, <3>3, <3>6 DEF ReplacedPanelIsRetired, Unfinished
    <3> QED
      BY <1>1, <2>1, <2>2, <3>2, <3>7, <3>8
  <2> QED
    BY <1>11, <2>3, <2>4 DEF SendLost
<1>12. CASE SwapPanel
  <2>1. /\ At(Lock, "swap") /\ UNCHANGED <<configured, entry, replaced>> /\ run'[Lock].step = "idle"
        /\ \/ Swapped /\ Settle("completed")
           \/ Settle("old_cleanup_pending") /\ UNCHANGED panels
    BY <1>12, Stopped DEF SwapPanel, Well, Runners
  <2>2. Publisher'
    BY <2>1 DEF Publisher, AtAny, At
  <2>3. /\ pub.status = "message_ready" /\ entry.panel = pub.msg /\ pub.msg # 0
        /\ pub.mark = pub.msg /\ pub.msg # pub.prev /\ OpenRecord
    BY <1>1, <2>1 DEF Publisher, OpenRecord, Open, Unfinished
  <2>4. ~replaced => \A q \in Panel : panels[q] = "live" => q \in {pub.msg, pub.prev}
    BY <1>1, <2>3 DEF ReplacedPanelIsRetired
  <2>5. CASE Swapped /\ Settle("completed")
    <3>1. pub'.status = "completed"
      BY <1>2, <2>5 DEF Settle, Pubs
    <3>2. \A q \in Panel : /\ q # pub.prev => panels'[q] = panels[q]
                           /\ q = pub.prev => panels'[q] # "live"
      BY <1>2, <2>5, Numbers DEF Swapped, There
    <3>3. panels'[entry.panel] = "live"
      BY <1>1, <1>2, <2>3, <3>2
    <3>4. ~replaced => \A q \in Panel : panels'[q] = "live" => q = entry.panel
      BY <2>3, <2>4, <3>2
    <3> QED
      BY <2>1, <2>2, <3>1, <3>3, <3>4 DEF ReplacedPanelIsRetired, Open, Unfinished
  <2>6. CASE Settle("old_cleanup_pending") /\ UNCHANGED panels
    <3>1. /\ pub'.status = "old_cleanup_pending"
          /\ pub'.msg = pub.msg /\ pub'.mark = pub.mark /\ pub'.prev = pub.prev
      BY <1>2, <2>6 DEF Settle, Pubs
    <3>2. OpenRecord'
      BY <2>1, <2>3, <2>6, <3>1 DEF OpenRecord
    <3>3. ~replaced' => ReplacedPanelIsRetired'
      BY <2>1, <2>3, <2>4, <2>6, <3>1 DEF ReplacedPanelIsRetired, Unfinished
    <3> QED
      BY <1>1, <2>1, <2>2, <2>6, <3>2, <3>3
  <2> QED
    BY <2>1, <2>5, <2>6
<1>13. CASE UndoPanel
  <2>1. /\ At(Lock, "undo") /\ UNCHANGED <<configured, entry, replaced>> /\ run'[Lock].step = "idle"
        /\ \/ /\ panels' = [p \in Panel |-> IF p \in Located THEN "gone" ELSE panels[p]]
              /\ Settle("cancelled")
           \/ Settle("compensation_pending") /\ UNCHANGED panels
    BY <1>13, Stopped DEF UndoPanel, Well, Runners
  <2>2. Publisher'
    BY <2>1 DEF Publisher, AtAny, At
  <2>3. /\ entry.panel = pub.prev /\ pub.msg # 0
        /\ pub.mark = pub.msg /\ pub.msg # pub.prev /\ OpenRecord
    BY <1>1, <2>1 DEF Publisher, OpenRecord, Open, Unfinished
  <2>4. ~replaced => \A q \in Panel : panels[q] = "live" => q \in {pub.msg, pub.prev}
    BY <1>1, <2>3 DEF ReplacedPanelIsRetired
  <2>5. CASE /\ panels' = [p \in Panel |-> IF p \in Located THEN "gone" ELSE panels[p]]
             /\ Settle("cancelled")
    <3>1. pub'.status = "cancelled"
      BY <1>2, <2>5 DEF Settle, Pubs
    <3>2. Located = {pub.msg}
      BY <2>3 DEF Located, There, OpenRecord
    <3>3. \A q \in Panel : /\ q # pub.msg => panels'[q] = panels[q]
                           /\ q = pub.msg => panels'[q] = "gone"
      BY <2>5, <3>2
    <3>4. entry.panel # 0 => panels'[entry.panel] = "live"
      BY <1>1, <1>2, <2>3, <3>3
    <3>5. ~replaced => \A q \in Panel : panels'[q] = "live" => q = entry.panel
      BY <2>3, <2>4, <3>3
    <3> QED
      BY <2>1, <2>2, <3>1, <3>4, <3>5 DEF ReplacedPanelIsRetired, Open, Unfinished
  <2>6. CASE Settle("compensation_pending") /\ UNCHANGED panels
    <3>1. /\ pub'.status = "compensation_pending"
          /\ pub'.msg = pub.msg /\ pub'.mark = pub.mark /\ pub'.prev = pub.prev
      BY <1>2, <2>6 DEF Settle, Pubs
    <3>2. OpenRecord'
      BY <2>1, <2>3, <2>6, <3>1 DEF OpenRecord
    <3>3. ~replaced' => ReplacedPanelIsRetired'
      BY <2>1, <2>3, <2>4, <2>6, <3>1 DEF ReplacedPanelIsRetired, Unfinished
    <3> QED
      BY <1>1, <2>1, <2>2, <2>6, <3>2, <3>3
  <2> QED
    BY <2>1, <2>5, <2>6
<1> QED
  BY <1>4, <1>5, <1>6, <1>7, <1>9, <1>10, <1>11, <1>12, <1>13 DEF Panels, PanelNext, PanelSteps

-----------------------------------------------------------------------------
(* The objective                                                           *)

Creations == [status : Creating \union Settled \union {"none", "compensation_pending"},
              panel : Panel \union {0}, tried : BOOLEAN, role : BOOLEAN,
              msg : BOOLEAN]
Notices   == [status : {"none", "pending", "sent"} \union Settled, msg : BOOLEAN]
Messages  == [post : Things, ping : Things, role : Roles]
Counts    == [post : Nat, ping : Nat, role : Nat]

\* The parts a step of the objective may change; the wizard and the panel stay.
ObjectiveWell ==
    /\ creation' \in Creations /\ notice' \in Notices /\ stored' \in Objective
    /\ discord' \in Messages /\ count' \in Counts
    /\ run' \in [Runners -> Tasks] /\ copy' \in [Runners -> Views]
    /\ tampered' \in BOOLEAN /\ torn' \in BOOLEAN /\ forgot' \in BOOLEAN /\ ended' \in BOOLEAN
    /\ faults' \in 0 .. MaxFaults

LEMMA ObjectiveTyped ==
  ASSUME Well
  PROVE  /\ creation \in Creations /\ notice \in Notices /\ stored \in Objective
         /\ discord \in Messages /\ count \in Counts
         /\ run \in [Runners -> Tasks] /\ copy \in [Runners -> Views]
         /\ tampered \in BOOLEAN /\ torn \in BOOLEAN /\ forgot \in BOOLEAN /\ ended \in BOOLEAN
         /\ faults \in 0 .. MaxFaults /\ clock \in Times
BY DEF Well, Kept, TypeOK, PanelTypeOK, Creations, Notices, Messages, Counts

LEMMA ObjectiveWellKeeps ==
  ASSUME Well, ObjectiveWell, UNCHANGED <<configured, panelVars, wizard, clock>>
  PROVE  Well'
<1>1. TypeOK'
  BY DEF Well, TypeOK, PanelTypeOK, WizardTypeOK, LastStep, ObjectiveWell, Creations, Notices,
         Messages, Things, Roles
<1>2. Kept'
  BY DEF ObjectiveWell, Kept, Messages, Counts
<1> QED
  BY <1>1, <1>2 DEF Well

\* The panel stays as it is.
LEMMA PanelFrame ==
  ASSUME PanelInv, UNCHANGED panelVars, configured' => configured,
         run'[Lock] = run[Lock] \/ run'[Lock].step \notin Publishing
  PROVE  PanelInv'
BY DEF PanelInv, Publisher, AtAny, At, OpenRecord, ReplacedPanelIsRetired, Publishing

Others == HolderInv /\ CreationInv /\ OnceInv /\ PingInv

\* A publication does not touch the objective.
LEMMA BesideKeeps ==
  ASSUME Well, Others, Beside
  PROVE  Others'
<1>1. HolderInv'
  BY DEF Others, HolderInv, Beside, AtAny, At, Ticking, Founding, Publishing
<1>2. CreationInv'
  BY DEF Others, CreationInv, Beside, AtAny, At, Founding, Publishing, Spent, Upright
<1>3. OnceInv'
  BY DEF Others, OnceInv, Beside, AtAny, At, Founding, Publishing, Posted
<1>4. PingInv'
  BY DEF Others, PingInv, Beside, AtAny, At, Publishing, Pinged, Upright, Early
<1> QED
  BY <1>1, <1>2, <1>3, <1>4 DEF Others

\* What a step that stays beside the panel and does not end the configuration keeps.
Good == Well' /\ Others' /\ PanelInv'

LEMMA BeginCreationStep ==
  ASSUME Well, Others, PanelInv, WizardInv, BeginCreation
  PROVE  Good
<1> USE ObjectiveTyped
<1>1. \/ /\ creation' = [creation EXCEPT !.status = "pending"]
         /\ run'[Lock].step = "begin" /\ run'[Lock].for = "caller" /\ run'[Removal] = run[Removal]
         /\ run' \in [Runners -> Tasks]
      \/ /\ creation' = [creation EXCEPT !.status = "cancelled"]
         /\ run'[Lock].step = "idle" /\ run'[Removal] = run[Removal]
         /\ run' \in [Runners -> Tasks]
  BY Began, Stopped, PanelAssumption DEF BeginCreation, Note, Well, Steps, Founding, Runners
<1>2. /\ run[Lock].step = "payload" /\ creation.status = "none"
      /\ UNCHANGED <<configured, panelVars, clock, notice, stored, copy, made, ghosts>>
      /\ \E o \in {"submitted", "closed"} : Leave(o)
      /\ Fault \/ NoFault
  BY DEF BeginCreation, At, WizardInv, Confirmed
<1>3. Well'
  <2>1. creation' \in Creations /\ faults' \in 0 .. MaxFaults
    BY <1>1, <1>2, Faults DEF Creations, Creating, Settled, Well
  <2>2. WizardTypeOK'
    BY <1>2, WizardTypes DEF Well, TypeOK
  <2>3. TypeOK'
    BY <1>1, <1>2, <2>1, <2>2 DEF Well, TypeOK, PanelTypeOK, Creations
  <2>4. Kept'
    BY <1>1, <1>2 DEF Well, Kept
  <2> QED
    BY <2>3, <2>4 DEF Well
<1>4. PanelInv'
  BY <1>1, <1>2, PanelFrame DEF Publishing
<1>5. HolderInv'
  BY <1>1, <1>2 DEF Others, HolderInv, CreationInv, AtAny, At, Ticking, Founding
<1>6. CreationInv'
  BY <1>1, <1>2 DEF Others, CreationInv, AtAny, At, Founding, Creating, Spent, Upright, Creations
<1>7. OnceInv'
  BY <1>1, <1>2 DEF Others, OnceInv, CreationInv, AtAny, At, Founding, Creating, Posted, Creations
<1>8. PingInv'
  BY <1>1, <1>2 DEF Others, PingInv, AtAny, At, Pinged, Upright, Early
<1> QED
  BY <1>3, <1>4, <1>5, <1>6, <1>7, <1>8 DEF Good, Others

LEMMA TakeLockStep ==
  ASSUME Well, Others, PanelInv, TakeLock
  PROVE  Good
<1> USE ObjectiveTyped
<1>1. /\ run[Lock].step = "idle"
      /\ UNCHANGED <<configured, panelVars, faults, wizard, clock, objective>>
  BY DEF TakeLock, Free, At
<1>2. /\ run' \in [Runners -> Tasks] /\ run'[Lock].step = "payload"
      /\ run'[Removal] = run[Removal]
  BY Went, PanelAssumption DEF TakeLock, Well, Steps, Runners
<1>3. Well'
  BY <1>1, <1>2, ObjectiveWellKeeps DEF ObjectiveWell
<1>4. PanelInv'
  BY <1>1, <1>2, PanelFrame DEF Publishing
<1>5. HolderInv'
  BY <1>1, <1>2 DEF Others, HolderInv, AtAny, At, Ticking, Founding
<1>6. CreationInv'
  BY <1>1, <1>2 DEF Others, CreationInv, AtAny, At, Founding, Spent, Upright
<1>7. OnceInv'
  BY <1>1, <1>2 DEF Others, OnceInv, AtAny, At, Founding, Posted
<1>8. PingInv'
  BY <1>1, <1>2 DEF Others, PingInv, AtAny, At, Pinged, Upright, Early
<1> QED
  BY <1>3, <1>4, <1>5, <1>6, <1>7, <1>8 DEF Good, Others

LEMMA ResumeCreationStep ==
  ASSUME Well, Others, PanelInv, ResumeCreation
  PROVE  Good
<1> USE ObjectiveTyped
<1>1. /\ run[Lock].step = "idle"
      /\ UNCHANGED <<configured, panelVars, faults, wizard, clock, notice, stored, copy, made, ghosts>>
  BY DEF ResumeCreation, Free, At
<1>2. \/ /\ creation' = [creation EXCEPT !.status = "completed"] /\ run' = run
         /\ stored.in /\ creation.status # "cancelled" /\ creation.status # "none"
      \/ /\ creation' = creation /\ creation.status \in Creating
         /\ run'[Lock].step = "begin" /\ run'[Lock].for = "bot" /\ run'[Removal] = run[Removal]
         /\ run' \in [Runners -> Tasks] /\ ~(Active /\ stored.in)
      \/ /\ creation' = creation /\ creation.status = "compensation_pending"
         /\ run'[Lock].step = "takeback" /\ run'[Removal] = run[Removal]
         /\ run' \in [Runners -> Tasks]
  BY Began DEF ResumeCreation, Note, Well, Steps, Founding, Creating
<1>3. Well'
  <2>1. creation' \in Creations
    BY <1>2 DEF Creations, Creating, Settled
  <2> QED
    BY <1>1, <1>2, <2>1, ObjectiveWellKeeps DEF ObjectiveWell
<1>4. PanelInv'
  BY <1>1, <1>2, PanelFrame DEF Publishing
<1>5. HolderInv'
  BY <1>1, <1>2 DEF Others, HolderInv, AtAny, At, Ticking, Founding, Active
<1>6. CreationInv'
  BY <1>1, <1>2 DEF Others, CreationInv, AtAny, At, Founding, Creating, Spent, Upright, Creations
<1>7. OnceInv'
  BY <1>1, <1>2 DEF Others, OnceInv, CreationInv, AtAny, At, Founding, Creating, Posted, Creations
<1>8. PingInv'
  BY <1>1, <1>2 DEF Others, PingInv, AtAny, At, Pinged, Upright, Early
<1> QED
  BY <1>3, <1>4, <1>5, <1>6, <1>7, <1>8 DEF Good, Others

LEMMA CheckCreationStep ==
  ASSUME Well, Others, PanelInv, CheckCreation
  PROVE  Good
<1> USE ObjectiveTyped
<1>1. /\ run[Lock].step = "begin"
      /\ UNCHANGED <<configured, panelVars, wizard, clock, notice, stored, copy, made, ghosts>>
  BY DEF CheckCreation, At
<1>2. PICK b \in BOOLEAN : b = (creation.role /\ (Upright \/ ~creation.tried \/ ~Current(creation.panel)))
  OBVIOUS
<1>3. \/ /\ creation' = [creation EXCEPT !.role = b] /\ NoFault
         /\ \/ Go(Lock, "name") /\ creation.tried
            \/ Go(Lock, "role") /\ ~creation.tried
            \/ Go(Lock, "takeback")
      \/ creation' = creation /\ Fault /\ Stop(Lock)
  BY <1>2, Zenon DEF CheckCreation
<1>4. /\ \/ creation' = creation
         \/ creation' = [creation EXCEPT !.role = b]
      /\ run' \in [Runners -> Tasks] /\ run'[Removal] = run[Removal]
      /\ run'[Lock].step # "idle" => run'[Lock].for = run[Lock].for
      /\ \/ run'[Lock].step = "name" /\ creation.tried
         \/ run'[Lock].step = "role" /\ ~creation.tried
         \/ run'[Lock].step \in {"takeback", "idle"}
  BY <1>3, Went, Stopped, PanelAssumption DEF Well, Steps, Founding, Runners
<1>5. creation' \in Creations /\ (creation'.role => creation.role) /\ creation'.status = creation.status
      /\ creation'.tried = creation.tried
  BY <1>2, <1>4 DEF Creations
<1>6. faults' \in 0 .. MaxFaults
  BY <1>3, Faults DEF Well
<1>7. Well'
  BY <1>1, <1>4, <1>5, <1>6, ObjectiveWellKeeps DEF ObjectiveWell
<1>8. PanelInv'
  BY <1>1, <1>4, PanelFrame DEF Publishing
<1>9. HolderInv'
  BY <1>1, <1>4 DEF Others, HolderInv, AtAny, At, Ticking, Founding, Active
<1>10. CreationInv'
  BY <1>1, <1>4, <1>5 DEF Others, CreationInv, AtAny, At, Founding, Creating, Spent, Upright
<1>11. OnceInv'
  BY <1>1, <1>4, <1>5 DEF Others, OnceInv, CreationInv, AtAny, At, Founding, Creating, Posted
<1>12. PingInv'
  BY <1>1, <1>4 DEF Others, PingInv, AtAny, At, Pinged, Upright, Early
<1> QED
  BY <1>7, <1>8, <1>9, <1>10, <1>11, <1>12 DEF Good, Others

LEMMA RoleMade ==
  ASSUME Well, Make("role", "pending")
  PROVE  /\ discord' \in Messages /\ count' \in Counts
         /\ discord'.role = "pending" /\ count'.role = count.role + 1
         /\ discord'.post = discord.post /\ discord'.ping = discord.ping
         /\ count'.post = count.post /\ count'.ping = count.ping
BY ObjectiveTyped DEF Make, Messages, Counts, Things, Roles

LEMMA PostMade ==
  ASSUME Well, Make("post", "marked")
  PROVE  /\ discord' \in Messages /\ count' \in Counts
         /\ discord'.post = "marked" /\ count'.post = count.post + 1
         /\ discord'.role = discord.role /\ discord'.ping = discord.ping
         /\ count'.role = count.role /\ count'.ping = count.ping
BY ObjectiveTyped DEF Make, Messages, Counts, Things, Roles

LEMMA PingMade ==
  ASSUME Well, Make("ping", "marked")
  PROVE  /\ discord' \in Messages /\ count' \in Counts
         /\ discord'.ping = "marked" /\ count'.ping = count.ping + 1
         /\ discord'.role = discord.role /\ discord'.post = discord.post
         /\ count'.role = count.role /\ count'.post = count.post
BY ObjectiveTyped DEF Make, Messages, Counts, Things, Roles

LEMMA EnsureRoleStep ==
  ASSUME Well, Others, PanelInv, EnsureRole
  PROVE  Good
<1> USE ObjectiveTyped
<1>1. /\ run[Lock].step = "role"
      /\ UNCHANGED <<configured, panelVars, wizard, clock, notice, stored, copy, ghosts>>
  BY DEF EnsureRole, At
<1>2. PICK known \in BOOLEAN :
         /\ WithRole(known)
         /\ UNCHANGED made \/ (~FoundRole /\ Make("role", "pending"))
         /\ FoundRole => known /\ UNCHANGED made
         /\ NoFault \/ Fault
  BY DEF EnsureRole
<1>3. /\ run' \in [Runners -> Tasks] /\ run'[Removal] = run[Removal]
      /\ run'[Lock].step = "name" /\ run'[Lock].for = run[Lock].for
  BY <1>2, Went, PanelAssumption DEF Well, Steps, Founding, Runners, WithRole
<1>4. /\ creation' \in Creations /\ creation'.status = "role_ready" /\ creation'.tried
  BY <1>2 DEF WithRole, Creations, Creating
<1>5. /\ discord' \in Messages /\ count' \in Counts
      /\ discord'.post = discord.post /\ discord'.ping = discord.ping
      /\ count'.post = count.post /\ count'.ping = count.ping
      /\ \/ count'.role = count.role
         \/ count'.role = count.role + 1 /\ discord.role # "pending"
  BY <1>2, RoleMade DEF FoundRole
<1>6. faults' \in 0 .. MaxFaults
  BY <1>2, Faults DEF Well
<1>7. Well'
  BY <1>1, <1>3, <1>4, <1>5, <1>6, ObjectiveWellKeeps DEF ObjectiveWell
<1>8. PanelInv'
  BY <1>1, <1>3, PanelFrame DEF Publishing
<1>9. HolderInv'
  BY <1>1, <1>3 DEF Others, HolderInv, AtAny, At, Ticking, Founding
<1>10. ~creation.tried /\ ~stored.in /\ ~ended /\ creation.status \in Creating
  BY <1>1 DEF Others, CreationInv, AtAny, At, Founding
<1>11. CreationInv'
  BY <1>1, <1>3, <1>4, <1>10 DEF Others, CreationInv, AtAny, At, Founding, Creating
<1>12. OnceInv'
  BY <1>1, <1>3, <1>4, <1>5, <1>10 DEF Others, OnceInv, AtAny, At, Founding, Creating, Posted, Counts
<1>13. PingInv'
  BY <1>1, <1>3, <1>5, <1>10 DEF Others, PingInv, AtAny, At, Pinged, Early
<1> QED
  BY <1>7, <1>8, <1>9, <1>11, <1>12, <1>13 DEF Good, Others

LEMMA RoleCrashStep ==
  ASSUME Well, Others, PanelInv, RoleCrash
  PROVE  Good
<1> USE ObjectiveTyped
<1>1. /\ run[Lock].step = "role" /\ discord.role # "pending"
      /\ UNCHANGED <<configured, panelVars, wizard, clock, records, stored, copy, ghosts>>
      /\ Make("role", "pending") /\ Fault /\ Crash
  BY DEF RoleCrash, At, FoundRole
<1>2. /\ run' \in [Runners -> Tasks] /\ run'[Removal].step = "idle" /\ run'[Lock].step = "idle"
  BY <1>1, Crashed
<1>3. /\ discord' \in Messages /\ count' \in Counts /\ discord'.role = "pending"
      /\ discord'.post = discord.post /\ discord'.ping = discord.ping
      /\ count'.post = count.post /\ count'.ping = count.ping
      /\ count'.role = count.role + 1
  BY <1>1, RoleMade
<1>4. Well'
  BY <1>1, <1>2, <1>3, ObjectiveWellKeeps, Faults DEF ObjectiveWell, Well
<1>5. PanelInv'
  BY <1>1, <1>2, PanelFrame DEF Publishing
<1>6. HolderInv'
  BY <1>1, <1>2 DEF Others, HolderInv, AtAny, At, Ticking, Founding
<1>7. ~creation.tried /\ ~stored.in /\ ~ended /\ creation.status \in Creating
  BY <1>1 DEF Others, CreationInv, AtAny, At, Founding
<1>8. CreationInv'
  BY <1>1, <1>2, <1>7 DEF Others, CreationInv, AtAny, At, Founding, Creating
<1>9. OnceInv'
  BY <1>1, <1>2, <1>3, <1>7 DEF Others, OnceInv, AtAny, At, Founding, Creating, Posted, Counts
<1>10. PingInv'
  BY <1>1, <1>2, <1>3, <1>7 DEF Others, PingInv, AtAny, At, Pinged, Early
<1> QED
  BY <1>4, <1>5, <1>6, <1>8, <1>9, <1>10 DEF Good, Others

LEMMA NameRoleStep ==
  ASSUME Well, Others, PanelInv, NameRole
  PROVE  Good
<1> USE ObjectiveTyped
<1>1. /\ run[Lock].step = "name"
      /\ UNCHANGED <<configured, panelVars, wizard, clock, records, stored, copy, count, ghosts>>
      /\ discord' = Renamed \/ discord' = discord
      /\ NoFault \/ Fault
      /\ Go(Lock, "post")
  BY DEF NameRole, At
<1>2. /\ run' \in [Runners -> Tasks] /\ run'[Removal] = run[Removal]
      /\ run'[Lock].step = "post" /\ run'[Lock].for = run[Lock].for
  BY <1>1, Went, PanelAssumption DEF Well, Steps, Founding, Runners
<1>3. /\ discord' \in Messages /\ discord'.post = discord.post /\ discord'.ping = discord.ping
      /\ Upright' = Upright
  BY <1>1 DEF Renamed, Messages, Upright, Roles
<1>4. Well'
  BY <1>1, <1>2, <1>3, ObjectiveWellKeeps, Faults DEF ObjectiveWell, Well
<1>5. PanelInv'
  BY <1>1, <1>2, PanelFrame DEF Publishing
<1>6. HolderInv'
  BY <1>1, <1>2 DEF Others, HolderInv, AtAny, At, Ticking, Founding
<1>7. creation.tried /\ creation.status \in Creating
  BY <1>1 DEF Others, CreationInv, AtAny, At, Founding
<1>8. CreationInv'
  BY <1>1, <1>2, <1>3, <1>7 DEF Others, CreationInv, AtAny, At, Founding, Creating, Spent
<1>9. OnceInv'
  BY <1>1, <1>2, <1>3, <1>7 DEF Others, OnceInv, AtAny, At, Founding, Creating, Posted
<1>10. PingInv'
  BY <1>1, <1>2, <1>3, <1>7 DEF Others, PingInv, AtAny, At, Pinged, Early
<1> QED
  BY <1>4, <1>5, <1>6, <1>8, <1>9, <1>10 DEF Good, Others

\* What posting leaves of the message, and how often it was posted.
LEMMA PostTypes ==
  ASSUME Well, NewPost
  PROVE  /\ discord' \in Messages /\ count' \in Counts
         /\ discord'.role = discord.role /\ discord'.ping = discord.ping
         /\ count'.role = count.role /\ count'.ping = count.ping
         /\ discord'.post \in {"marked", "clean"}
         /\ count'.post = count.post \/ (count'.post = count.post + 1 /\ ~FoundPost)
<1>1. CASE FoundPost
  BY <1>1, ObjectiveTyped DEF NewPost, FoundPost, Posted, Counts
<1>2. CASE ~FoundPost
  BY <1>2, PostMade DEF NewPost
<1> QED
  BY <1>1, <1>2

LEMMA PostOnce ==
  ASSUME Well, Others, At(Lock, "post"), ~tampered, ~torn, NewPost
  PROVE  count'.post <= 1
<1>1. /\ creation.status \in Creating /\ count.post \in Nat
      /\ count.post <= 1
      /\ count.post >= 1 => Posted
      /\ run[Lock].for # "bot" => count.post = 0
  BY ObjectiveTyped DEF Others, CreationInv, OnceInv, AtAny, At, Founding, Counts
<1> QED
  BY <1>1, PostTypes DEF FoundPost

LEMMA PostObjectiveStep ==
  ASSUME Well, Others, PanelInv, PostObjective
  PROVE  Good
<1> USE ObjectiveTyped
<1>1. /\ run[Lock].step = "post" /\ At(Lock, "post") /\ NewPost
      /\ UNCHANGED <<configured, panelVars, faults, wizard, clock, notice, copy, ghosts>>
  BY DEF PostObjective, At
<1>2. \/ /\ configured /\ AddObjective
         /\ creation' = [creation EXCEPT !.status = "completed", !.msg = TRUE]
         /\ Go(Lock, "tidy")
      \/ /\ stored' = stored
         /\ creation' = [creation EXCEPT !.status = "message_ready", !.msg = TRUE]
         /\ Go(Lock, "takeback")
  BY DEF PostObjective, Current, Active, Announced
<1>3. /\ run' \in [Runners -> Tasks] /\ run'[Removal] = run[Removal]
      /\ run'[Lock].step \in {"tidy", "takeback"}
      /\ run'[Lock].step = "tidy" => /\ AddObjective /\ configured
                                     /\ creation' = [creation EXCEPT !.status = "completed", !.msg = TRUE]
      /\ run'[Lock].step = "takeback" =>
            /\ stored' = stored
            /\ creation' = [creation EXCEPT !.status = "message_ready", !.msg = TRUE]
  BY <1>2, Went, PanelAssumption DEF Well, Steps, Runners
<1>4. creation.tried /\ creation.status \in Creating /\ (configured => ~stored.in)
  BY <1>1 DEF Others, CreationInv, HolderInv, AtAny, At, Founding
<1>5. /\ creation' \in Creations /\ creation'.tried
      /\ creation'.role = creation.role
      /\ run'[Lock].step = "tidy" => creation'.status = "completed"
      /\ run'[Lock].step = "takeback" => creation'.status = "message_ready"
  BY <1>3, <1>4 DEF Creations, Creating, Settled
<1>6. /\ stored' \in Objective /\ WellFormed(stored')
      /\ run'[Lock].step = "tidy" =>
            stored'.in /\ stored'.role = creation.role /\ ~stored'.notified /\ ~stored'.ping
  <2>1. CASE run'[Lock].step = "tidy"
    BY <1>3, <2>1 DEF AddObjective, Missing, Objective, WellFormed, Creations
  <2>2. CASE run'[Lock].step = "takeback"
    <3>1. WellFormed(stored) /\ stored \in Objective
      BY DEF Others, HolderInv
    <3> HIDE DEF WellFormed
    <3> QED
      BY <1>3, <2>2, <3>1
  <2> QED
    BY <1>3, <2>1, <2>2
<1>7. /\ discord' \in Messages /\ count' \in Counts
      /\ discord'.role = discord.role /\ discord'.ping = discord.ping
      /\ count'.role = count.role /\ count'.ping = count.ping
      /\ discord'.post \in {"marked", "clean"}
      /\ ~tampered /\ ~torn => count'.post <= 1
  BY <1>1, PostTypes, PostOnce
<1>8. Well'
  BY <1>1, <1>3, <1>5, <1>6, <1>7, ObjectiveWellKeeps DEF ObjectiveWell
<1>9. PanelInv'
  BY <1>1, <1>3, PanelFrame DEF Publishing
<1>10. HolderInv'
  BY <1>1, <1>3, <1>6 DEF Others, HolderInv, AtAny, At, Ticking, Founding
<1>11. CreationInv'
  BY <1>1, <1>3, <1>4, <1>5, <1>6, <1>7 DEF Others, CreationInv, AtAny, At, Founding, Creating, Spent, Upright
<1>12. OnceInv'
  BY <1>1, <1>3, <1>4, <1>5, <1>7 DEF Others, OnceInv, AtAny, At, Founding, Posted
<1>13. PingInv'
  <2>1. Pinged' = Pinged /\ Upright' = Upright /\ Early' = Early
    BY <1>1, <1>7 DEF Pinged, Upright, Early
  <2>2. CASE run'[Lock].step = "takeback"
    BY <1>1, <1>3, <1>7, <2>1, <2>2 DEF Others, PingInv, AtAny, At
  <2>3. CASE run'[Lock].step = "tidy"
    <3>1. configured /\ count.ping >= 1 => Spent
      BY <1>3, <1>4, <2>3 DEF Others, PingInv, CreationInv
    <3>2. configured /\ ~forgot /\ Pinged => notice.status # "completed"
      BY <1>3, <1>4, <2>3 DEF Others, PingInv
    <3> QED
      BY <1>1, <1>3, <1>6, <1>7, <2>1, <2>3, <3>1, <3>2 DEF Others, PingInv, AtAny, At, Spent
  <2> QED
    BY <1>3, <2>2, <2>3
<1> QED
  BY <1>8, <1>9, <1>10, <1>11, <1>12, <1>13 DEF Good, Others

LEMMA PostLostStep ==
  ASSUME Well, Others, PanelInv, PostLost
  PROVE  Good
<1> USE ObjectiveTyped
<1>1. /\ run[Lock].step = "post" /\ At(Lock, "post") /\ (NewPost \/ UNCHANGED made)
      /\ UNCHANGED <<configured, panelVars, wizard, clock, records, stored, copy, ghosts>>
      /\ Fault /\ Stop(Lock)
  BY DEF PostLost, At
<1>2. /\ run' \in [Runners -> Tasks] /\ run'[Removal] = run[Removal] /\ run'[Lock].step = "idle"
  BY <1>1, Stopped, PanelAssumption DEF Well, Runners
<1>3. creation.tried /\ creation.status \in Creating
  BY <1>1 DEF Others, CreationInv, AtAny, At, Founding
<1>4. /\ discord' \in Messages /\ count' \in Counts
      /\ discord'.role = discord.role /\ discord'.ping = discord.ping
      /\ count'.role = count.role /\ count'.ping = count.ping
      /\ \/ discord'.post \in {"marked", "clean"} /\ (~tampered /\ ~torn => count'.post <= 1)
         \/ UNCHANGED made
  BY <1>1, PostTypes, PostOnce
<1>5. Well'
  BY <1>1, <1>2, <1>4, ObjectiveWellKeeps, Faults DEF ObjectiveWell, Well
<1>6. PanelInv'
  BY <1>1, <1>2, PanelFrame DEF Publishing
<1>7. HolderInv'
  BY <1>1, <1>2 DEF Others, HolderInv, AtAny, At, Ticking, Founding
<1>8. CreationInv'
  BY <1>1, <1>2, <1>3, <1>4 DEF Others, CreationInv, AtAny, At, Founding, Creating, Spent, Upright
<1>9. OnceInv'
  BY <1>1, <1>2, <1>3, <1>4 DEF Others, OnceInv, AtAny, At, Founding, Posted
<1>10. PingInv'
  BY <1>1, <1>2, <1>4 DEF Others, PingInv, AtAny, At, Pinged, Early, Upright
<1> QED
  BY <1>5, <1>6, <1>7, <1>8, <1>9, <1>10 DEF Good, Others

LEMMA PostCrashStep ==
  ASSUME Well, Others, PanelInv, PostCrash
  PROVE  Good
<1> USE ObjectiveTyped
<1>1. /\ run[Lock].step = "post" /\ At(Lock, "post") /\ NewPost
      /\ creation' = [creation EXCEPT !.status = "message_ready", !.msg = TRUE]
      /\ UNCHANGED <<configured, panelVars, wizard, clock, notice, copy, tampered, forgot, ended>>
      /\ Fault /\ Crash
  BY DEF PostCrash, At
<1>2. \/ configured /\ AddObjective /\ torn' = TRUE
      \/ UNCHANGED <<stored, torn>>
  BY DEF PostCrash, Current, Active
<1>3. /\ run' \in [Runners -> Tasks] /\ run'[Removal].step = "idle" /\ run'[Lock].step = "idle"
  BY <1>1, Crashed
<1>4. creation.tried /\ creation.status \in Creating /\ (configured => ~stored.in)
  BY <1>1 DEF Others, CreationInv, HolderInv, AtAny, At, Founding
<1>5. /\ creation' \in Creations /\ creation'.tried
      /\ creation'.role = creation.role /\ creation'.status = "message_ready"
  BY <1>1, <1>4 DEF Creations, Creating, Settled
<1>6. /\ stored' \in Objective /\ WellFormed(stored')
      /\ (stored' = stored) \/ (stored'.in /\ stored'.role = creation.role)
  <2>1. CASE AddObjective
    BY <2>1 DEF AddObjective, Missing, Objective, WellFormed, Creations
  <2>2. CASE stored' = stored
    <3>1. WellFormed(stored) /\ stored \in Objective
      BY DEF Others, HolderInv
    <3> QED
      BY <2>2, <3>1
  <2> QED
    BY <1>2, <2>1, <2>2
<1>7. /\ discord' \in Messages /\ count' \in Counts
      /\ discord'.role = discord.role /\ discord'.ping = discord.ping
      /\ count'.role = count.role /\ count'.ping = count.ping
      /\ discord'.post \in {"marked", "clean"}
      /\ ~tampered /\ ~torn => count'.post <= 1
  BY <1>1, PostTypes, PostOnce
<1>8. Well'
  BY <1>1, <1>2, <1>3, <1>5, <1>6, <1>7, ObjectiveWellKeeps, Faults DEF ObjectiveWell, Well
<1>9. PanelInv'
  BY <1>1, <1>3, PanelFrame DEF Publishing
<1>10. HolderInv'
  BY <1>1, <1>3, <1>6 DEF Others, HolderInv, AtAny, At, Ticking, Founding
<1>11. ~torn => ~stored.in /\ ~ended /\ ~copy[Lock].obj.in
  BY <1>4 DEF Others, CreationInv, Creating
<1>12. CreationInv'
  BY <1>1, <1>2, <1>3, <1>4, <1>5, <1>6, <1>7, <1>11
     DEF Others, CreationInv, AtAny, At, Founding, Creating, Spent, Upright
<1>13. OnceInv'
  BY <1>1, <1>2, <1>3, <1>4, <1>5, <1>7 DEF Others, OnceInv, AtAny, At, Founding, Posted
<1>14. PingInv'
  <2>1. Pinged' = Pinged /\ Upright' = Upright /\ Early' = Early
    BY <1>1, <1>7 DEF Pinged, Upright, Early
  <2>2. CASE stored' = stored
    BY <1>1, <1>3, <1>7, <2>1, <2>2 DEF Others, PingInv, AtAny, At
  <2>3. CASE stored' # stored
    <3>1. configured /\ AddObjective
      BY <1>2, <2>3
    <3>2. /\ count.ping >= 1 => Spent
          /\ ~forgot /\ Pinged => notice.status # "completed"
      BY <1>4, <3>1 DEF Others, PingInv, CreationInv
    <3>3. stored'.in /\ stored'.role = creation.role /\ ~stored'.notified
      BY <3>1 DEF AddObjective, Missing, Creations
    <3> QED
      BY <1>1, <1>3, <1>7, <2>1, <3>1, <3>2, <3>3 DEF Others, PingInv, AtAny, At, Spent
  <2> QED
    BY <2>2, <2>3
<1> QED
  BY <1>8, <1>9, <1>10, <1>12, <1>13, <1>14 DEF Good, Others

LEMMA TidyCreationStep ==
  ASSUME Well, Others, PanelInv, TidyCreation
  PROVE  Good
<1> USE ObjectiveTyped
<1>1. /\ run[Lock].step = "tidy"
      /\ UNCHANGED <<configured, panelVars, wizard, clock, records, stored, copy, count, ghosts>>
      /\ \/ discord' = [discord EXCEPT !.post = IF @ = "marked" THEN "clean" ELSE @]
         \/ discord' = discord
      /\ NoFault \/ Fault
      /\ Stop(Lock)
  BY DEF TidyCreation, At
<1>2. /\ run' \in [Runners -> Tasks] /\ run'[Removal] = run[Removal] /\ run'[Lock].step = "idle"
  BY <1>1, Stopped, PanelAssumption DEF Well, Runners
<1>3. /\ discord' \in Messages /\ discord'.role = discord.role /\ discord'.ping = discord.ping
      /\ Posted' = Posted
  BY <1>1 DEF Messages, Posted, Things
<1>4. Well'
  BY <1>1, <1>2, <1>3, ObjectiveWellKeeps, Faults DEF ObjectiveWell, Well
<1>5. PanelInv'
  BY <1>1, <1>2, PanelFrame DEF Publishing
<1>6. HolderInv'
  BY <1>1, <1>2 DEF Others, HolderInv, AtAny, At, Ticking, Founding
<1>7. CreationInv'
  BY <1>1, <1>2, <1>3 DEF Others, CreationInv, AtAny, At, Founding, Spent, Upright
<1>8. OnceInv'
  BY <1>1, <1>2, <1>3 DEF Others, OnceInv, AtAny, At, Founding
<1>9. PingInv'
  BY <1>1, <1>2, <1>3 DEF Others, PingInv, AtAny, At, Pinged, Early, Upright
<1> QED
  BY <1>4, <1>5, <1>6, <1>7, <1>8, <1>9 DEF Good, Others

LEMMA TakeBackStep ==
  ASSUME Well, Others, PanelInv, TakeBack
  PROVE  Good
<1> USE ObjectiveTyped
<1>1. /\ run[Lock].step = "takeback"
      /\ UNCHANGED <<configured, panelVars, wizard, clock, notice, stored, copy, count, ghosts>>
      /\ NoFault \/ Fault
      /\ Stop(Lock)
  BY DEF TakeBack, At
<1>2. \E post \in {discord.post, Deleted(discord.post)},
         role \in {discord.role, IF Upright THEN "gone" ELSE discord.role},
         s \in {"cancelled", "compensation_pending"} :
         /\ discord' = [discord EXCEPT !.post = post, !.role = role]
         /\ creation' = [creation EXCEPT !.status = s]
         /\ s = "cancelled" => role = IF Upright THEN "gone" ELSE discord.role
  <2>1. \A d \in Messages : /\ d = [d EXCEPT !.post = d.post, !.role = d.role]
                            /\ \A x : [d EXCEPT !.post = x] = [d EXCEPT !.post = x, !.role = d.role]
                            /\ \A x : [d EXCEPT !.role = x] = [d EXCEPT !.post = d.post, !.role = x]
    BY DEF Messages
  <2> QED
    BY <2>1 DEF TakeBack, Note
<1>3. PICK post \in {discord.post, Deleted(discord.post)},
           role \in {discord.role, IF Upright THEN "gone" ELSE discord.role},
           s \in {"cancelled", "compensation_pending"} :
         /\ discord' = [discord EXCEPT !.post = post, !.role = role]
         /\ creation' = [creation EXCEPT !.status = s]
         /\ s = "cancelled" => role = IF Upright THEN "gone" ELSE discord.role
  BY <1>2
<1>4. /\ run' \in [Runners -> Tasks] /\ run'[Removal] = run[Removal] /\ run'[Lock].step = "idle"
  BY <1>1, Stopped, PanelAssumption DEF Well, Runners
<1>5. /\ discord' \in Messages /\ discord'.ping = discord.ping
      /\ Upright' => Upright
      /\ s = "cancelled" => ~Upright'
  BY <1>3 DEF Messages, Things, Roles, Deleted, Upright
<1>6. creation.status \in Creating \union {"compensation_pending"}
  BY <1>1 DEF Others, CreationInv, At
<1>7. /\ creation' \in Creations /\ creation'.status = s /\ creation'.tried = creation.tried
      /\ creation'.role = creation.role
  BY <1>3 DEF Creations, Creating, Settled
<1>8. Well'
  BY <1>1, <1>4, <1>5, <1>7, ObjectiveWellKeeps, Faults DEF ObjectiveWell, Well
<1>9. PanelInv'
  BY <1>1, <1>4, PanelFrame DEF Publishing
<1>10. HolderInv'
  BY <1>1, <1>4 DEF Others, HolderInv, AtAny, At, Ticking, Founding
<1>11. CreationInv'
  BY <1>1, <1>4, <1>5, <1>6, <1>7 DEF Others, CreationInv, AtAny, At, Founding, Creating, Spent
<1>12. OnceInv'
  BY <1>1, <1>4, <1>7 DEF Others, OnceInv, AtAny, At, Founding, Creating
<1>13. PingInv'
  BY <1>1, <1>4, <1>5 DEF Others, PingInv, AtAny, At, Pinged, Early
<1> QED
  BY <1>8, <1>9, <1>10, <1>11, <1>12, <1>13 DEF Good, Others


\* A step that only tidies up what Discord shows, or the work in hand.
LEMMA SweepCompletedStep ==
  ASSUME Well, Others, PanelInv, SweepCompleted
  PROVE  Good
<1> USE ObjectiveTyped
<1>1. /\ run[Lock].step = "idle"
      /\ UNCHANGED <<configured, panelVars, run, faults, wizard, clock, records, stored, copy,
                     count, ghosts>>
  BY DEF SweepCompleted, Free, At
<1>2. /\ discord' \in Messages /\ Posted' = Posted /\ Pinged' = Pinged /\ Upright' = Upright
      /\ creation.status # "completed" => discord'.role = discord.role
  <2>1. PICK post \in Things, ping \in Things, role \in Roles :
           /\ post = discord.post \/ (post = "clean" /\ discord.post = "marked")
           /\ ping = discord.ping \/ (ping = "clean" /\ discord.ping = "marked")
           /\ role = discord.role \/ (role = "clean" /\ discord.role = "pending"
                                      /\ creation.status = "completed")
           /\ discord' = [discord EXCEPT !.post = post, !.ping = ping, !.role = role]
    <3> DEFINE post == IF discord.post = "marked" /\ creation.status = "completed"
                       THEN "clean" ELSE discord.post
               ping == IF discord.ping = "marked" /\ notice.status = "completed"
                       THEN "clean" ELSE discord.ping
               role == IF discord.role = "pending" /\ creation.status = "completed" /\ stored.role
                       THEN "clean" ELSE discord.role
    <3>1. discord' = [discord EXCEPT !.post = post, !.ping = ping, !.role = role]
      BY DEF SweepCompleted
    <3>2. post \in Things /\ ping \in Things /\ role \in Roles
      BY DEF Messages, Things, Roles
    <3> QED
      BY <3>1, <3>2, Zenon
  <2>2. discord' \in Messages /\ discord'.post = post /\ discord'.ping = ping /\ discord'.role = role
    BY <2>1 DEF Messages
  <2> QED
    BY <2>1, <2>2 DEF Posted, Pinged, Upright
<1>3. Well'
  BY <1>1, <1>2, ObjectiveWellKeeps DEF ObjectiveWell
<1>4. PanelInv'
  BY <1>1, PanelFrame
<1>5. HolderInv'
  BY <1>1 DEF Others, HolderInv, AtAny, At
<1>6. CreationInv'
  BY <1>1, <1>2 DEF Others, CreationInv, AtAny, At, Spent
<1>7. OnceInv'
  BY <1>1, <1>2 DEF Others, OnceInv, AtAny, At, Creating
<1>8. PingInv'
  BY <1>1, <1>2 DEF Others, PingInv, AtAny, At, Early
<1> QED
  BY <1>3, <1>4, <1>5, <1>6, <1>7, <1>8 DEF Good, Others

\* A view of what is stored is a view.
LEMMA ViewTypes ==
  ASSUME Well
  PROVE  \A t \in Times : \A e \in Entries :
           /\ [Unread EXCEPT !.obj = stored, !.entry = e, !.now = t] \in Views
           /\ [Unread EXCEPT !.obj = stored, !.entry = e] \in Views
           /\ [Unread EXCEPT !.obj = stored, !.now = t] \in Views
BY ObjectiveTyped, Unseen DEF Views

LEMMA SweepNamesStep ==
  ASSUME Well, Others, PanelInv, SweepNames
  PROVE  Good
<1> USE ObjectiveTyped
<1>1. /\ run[Lock].step = "idle" /\ configured /\ stored.in
      /\ Go(Lock, "rename")
      /\ copy' = [copy EXCEPT ![Lock] = [Unread EXCEPT !.obj = stored, !.entry = entry]]
      /\ UNCHANGED <<configured, panelVars, faults, wizard, clock, records, stored, made, ghosts>>
  BY DEF SweepNames, Free, At, Active
<1>2. /\ run' \in [Runners -> Tasks] /\ run'[Removal] = run[Removal] /\ run'[Lock].step = "rename"
  BY <1>1, Went, PanelAssumption DEF Well, Runners, Steps, Ticking
<1>3. /\ copy' \in [Runners -> Views] /\ copy'[Lock].obj = stored /\ copy'[Lock].entry = entry
      /\ copy'[Removal] = copy[Removal]
  <2>1. [Unread EXCEPT !.obj = stored, !.entry = entry] \in Views
    BY ViewTypes, PanelTyped, Unseen DEF Times
  <2> QED
    BY <1>1, <2>1, Unseen, PanelAssumption DEF Runners, Views
<1>4. Well'
  BY <1>1, <1>2, <1>3, ObjectiveWellKeeps DEF ObjectiveWell
<1>5. PanelInv'
  BY <1>1, <1>2, PanelFrame DEF Publishing
<1>6. HolderInv'
  BY <1>1, <1>2, <1>3 DEF Others, HolderInv, AtAny, At, Ticking, Founding, Runners
<1>7. CreationInv'
  BY <1>1, <1>2, <1>3 DEF Others, CreationInv, AtAny, At, Founding, Spent, Upright, Runners
<1>8. OnceInv'
  BY <1>1, <1>2 DEF Others, OnceInv, AtAny, At, Founding, Posted
<1>9. PingInv'
  BY <1>1, <1>2 DEF Others, PingInv, AtAny, At, Pinged, Early, Upright
<1> QED
  BY <1>4, <1>5, <1>6, <1>7, <1>8, <1>9 DEF Good, Others

\* The lock holder is done and forgets what he read.
LEMMA TickEnded ==
  ASSUME Well, EndTick
  PROVE  /\ run' \in [Runners -> Tasks] /\ run'[Removal] = run[Removal] /\ run'[Lock].step = "idle"
         /\ copy' \in [Runners -> Views] /\ copy'[Lock] = Unread /\ copy'[Removal] = copy[Removal]
<1>1. Stop(Lock) /\ copy' = [copy EXCEPT ![Lock] = Unread]
  BY DEF EndTick
<1> QED
  BY <1>1, Stopped, ObjectiveTyped, Unseen, PanelAssumption DEF Well, Runners

\* Nothing that was read survives a crash.
LEMMA CrashEnded ==
  ASSUME Well, Crash, copy' = [r \in {Lock, Removal} |-> Unread]
  PROVE  /\ run' \in [Runners -> Tasks] /\ run'[Removal].step = "idle" /\ run'[Lock].step = "idle"
         /\ copy' \in [Runners -> Views] /\ copy'[Lock] = Unread /\ copy'[Removal] = Unread
BY Crashed, Unseen DEF Runners

LEMMA SaveNamesStep ==
  ASSUME Well, Others, PanelInv, SaveNames
  PROVE  Good
<1> USE ObjectiveTyped
<1>1. /\ run[Lock].step = "rename"
      /\ \/ discord' = Renamed /\ entry' = copy[Lock].entry /\ stored' = copy[Lock].obj
         \/ UNCHANGED <<discord, entry, stored>>
      /\ NoFault \/ Fault
      /\ EndTick
      /\ UNCHANGED <<configured, pub, panels, replaced, wizard, clock, records, count, ghosts>>
  BY DEF SaveNames, At, EndTick
<1>2. /\ run' \in [Runners -> Tasks] /\ run'[Removal] = run[Removal] /\ run'[Lock].step = "idle"
      /\ copy' \in [Runners -> Views] /\ copy'[Lock] = Unread /\ copy'[Removal] = copy[Removal]
  BY <1>1, TickEnded
<1>3. /\ discord' \in Messages /\ Posted' = Posted /\ Pinged' = Pinged /\ Upright' = Upright
      /\ discord'.role = "pending" => discord.role = "pending"
  BY <1>1 DEF Messages, Things, Roles, Posted, Pinged, Upright, Renamed
<1>4. configured => stored' = stored /\ entry' = entry
  BY <1>1 DEF Others, HolderInv, AtAny, At, Ticking
<1>5. /\ stored' \in Objective /\ entry' \in Entries /\ WellFormed(stored')
  BY <1>1, PanelTyped, PanelAssumption DEF Others, HolderInv, Views, Runners, WellFormed
<1>6. faults' \in 0 .. MaxFaults
  BY <1>1, Faults DEF Well
<1>7. Well'
  <2>1. TypeOK'
    BY <1>1, <1>3, <1>5, <1>6 DEF Well, TypeOK, PanelTypeOK, WizardTypeOK, LastStep, Messages, Things, Roles,
       Entries
  <2>2. Kept'
    BY <1>1, <1>2, <1>3 DEF Well, Kept, Messages
  <2> QED
    BY <2>1, <2>2 DEF Well
<1>8. PanelInv'
  BY <1>1, <1>2, <1>4 DEF PanelInv, Publisher, AtAny, At, OpenRecord, ReplacedPanelIsRetired, Publishing
<1>9. stored'.in => creation.tried /\ (~torn => creation.status = "completed")
  BY <1>1, PanelAssumption DEF Others, CreationInv, Runners
<1>10. HolderInv'
  BY <1>1, <1>2, <1>4, <1>5, Unseen DEF Others, HolderInv, AtAny, At, Ticking, Founding, Runners
<1>11. CreationInv'
  BY <1>1, <1>2, <1>3, <1>4, <1>9, Unseen DEF Others, CreationInv, AtAny, At, Founding, Spent, Runners
<1>12. OnceInv'
  <2>1. creation.tried
    BY <1>1, PanelAssumption DEF Others, CreationInv, HolderInv, AtAny, At, Ticking, Runners
  <2> QED
    BY <1>1, <1>2, <1>3, <2>1 DEF Others, OnceInv, AtAny, At, Founding
<1>13. PingInv'
  BY <1>1, <1>2, <1>3, <1>4 DEF Others, PingInv, AtAny, At, Early
<1> QED
  BY <1>7, <1>8, <1>10, <1>11, <1>12, <1>13 DEF Good, Others

-----------------------------------------------------------------------------
(* The scheduler                                                           *)

LEMMA AdvanceStep ==
  ASSUME Well, Others, PanelInv, Advance
  PROVE  Good
<1> USE ObjectiveTyped
<1>1. /\ UNCHANGED <<configured, panelVars, run, faults, wizard, objective>>
      /\ clock' \in Times
      /\ clock \in {"pop", "over"} => clock' \in {"pop", "over"}
      /\ Early' => Early
  BY DEF Advance, Times, Early
<1>2. Well'
  BY <1>1 DEF Well, Kept, TypeOK, PanelTypeOK, WizardTypeOK, LastStep
<1>3. PanelInv'
  BY <1>1, PanelFrame
<1>4. HolderInv'
  BY <1>1 DEF Others, HolderInv, AtAny, At
<1>5. CreationInv'
  BY <1>1 DEF Others, CreationInv, AtAny, At, Spent, Upright
<1>6. OnceInv'
  BY <1>1 DEF Others, OnceInv, AtAny, At, Posted
<1>7. PingInv'
  BY <1>1 DEF Others, PingInv, AtAny, At, Pinged, Upright
<1> QED
  BY <1>2, <1>3, <1>4, <1>5, <1>6, <1>7 DEF Good, Others

LEMMA TickStep ==
  ASSUME Well, Others, PanelInv, Tick
  PROVE  Good
<1> USE ObjectiveTyped
<1>1. /\ run[Lock].step = "idle" /\ configured /\ stored.in
      /\ copy' = [copy EXCEPT ![Lock] = [Unread EXCEPT !.obj = stored, !.now = clock]]
      /\ UNCHANGED <<configured, panelVars, faults, wizard, clock, records, stored, made, ghosts>>
  BY DEF Tick, Free, At, Active
<1>2. PICK s \in Ticking :
         /\ Go(Lock, s)
         /\ s \in {"popped", "expire"} => clock \in {"pop", "over"}
         /\ s = "ping" => clock = "notice" /\ ~stored.notified /\ ~stored.removing /\ stored.role
         /\ s # "rename"
  BY DEF Tick, Ticking
<1>3. /\ run' \in [Runners -> Tasks] /\ run'[Removal] = run[Removal] /\ run'[Lock].step = s
  BY <1>2, Went, PanelAssumption DEF Well, Runners, Steps, Ticking
<1>4. /\ copy' \in [Runners -> Views] /\ copy'[Lock].obj = stored /\ copy'[Removal] = copy[Removal]
  <2>1. [Unread EXCEPT !.obj = stored, !.now = clock] \in Views
    BY ViewTypes, PanelTyped
  <2> QED
    BY <1>1, <2>1, Unseen, PanelAssumption DEF Runners, Views
<1>5. Well'
  BY <1>1, <1>3, <1>4, ObjectiveWellKeeps DEF ObjectiveWell
<1>6. PanelInv'
  BY <1>1, <1>2, <1>3, PanelFrame DEF Publishing, Ticking
<1>7. HolderInv'
  BY <1>1, <1>2, <1>3, <1>4 DEF Others, HolderInv, AtAny, At, Ticking, Founding, Runners
<1>8. CreationInv'
  BY <1>1, <1>2, <1>3, <1>4 DEF Others, CreationInv, AtAny, At, Ticking, Founding, Spent, Upright, Runners
<1>9. OnceInv'
  BY <1>1, <1>2, <1>3 DEF Others, OnceInv, AtAny, At, Ticking, Founding, Posted
<1>10. PingInv'
  BY <1>1, <1>2, <1>3 DEF Others, PingInv, AtAny, At, Ticking, Pinged, Early, Upright
<1> QED
  BY <1>5, <1>6, <1>7, <1>8, <1>9, <1>10 DEF Good, Others

\* An objective that lost its role and its ping, or that was announced.
LEMMA DetachTypes ==
  ASSUME Well, WellFormed(stored)
  PROVE  /\ Detach(stored) \in Objective
         /\ stored.in => WellFormed(Detach(stored))
         /\ Detach(stored).in = stored.in /\ Detach(stored).notified = stored.notified
         /\ Detach(stored).removing = stored.removing
         /\ ~Detach(stored).role /\ ~Detach(stored).ping
         /\ Told(stored) \in Objective /\ WellFormed(Told(stored))
         /\ Told(stored).in = stored.in /\ Told(stored).role = stored.role
         /\ Told(stored).removing = stored.removing
         /\ stored.in => Told(stored).notified /\ Told(stored).ping
         /\ ~stored.in => Told(stored) = stored
BY ObjectiveTyped DEF Detach, Told, Objective, WellFormed, Missing

LEMMA PreparePingStep ==
  ASSUME Well, Others, PanelInv, PreparePing
  PROVE  Good
<1> USE ObjectiveTyped
<1>1. /\ run[Lock].step = "ping"
      /\ UNCHANGED <<configured, panelVars, faults, wizard, clock, creation, made, ghosts>>
  BY DEF PreparePing, At
<1>2. WellFormed(stored)
  BY DEF Others, HolderInv
<1>3. CASE Upright
  <2>1. PICK f \in {"first", "bot"} : Begin(Lock, "call", f) /\ (f = "first" => notice.status = "none")
    BY <1>3 DEF PreparePing
  <2>2. /\ notice' = [notice EXCEPT !.status = "pending"]
        /\ UNCHANGED <<stored, copy>>
    BY <1>3 DEF PreparePing
  <2>3. /\ run' \in [Runners -> Tasks] /\ run'[Removal] = run[Removal]
        /\ run'[Lock].step = "call" /\ run'[Lock].for = f
    BY <2>1, Began DEF Well, Steps
  <2>4. notice' \in Notices /\ notice'.status = "pending"
    BY <2>2 DEF Notices
  <2>5. Well'
    BY <1>1, <2>2, <2>3, <2>4, ObjectiveWellKeeps DEF ObjectiveWell
  <2>6. PanelInv'
    BY <1>1, <2>3, PanelFrame DEF Publishing
  <2>7. HolderInv'
    BY <1>1, <2>2, <2>3 DEF Others, HolderInv, AtAny, At, Ticking, Founding
  <2>8. CreationInv'
    BY <1>1, <2>2, <2>3 DEF Others, CreationInv, AtAny, At, Founding, Spent, Upright
  <2>9. OnceInv'
    BY <1>1, <2>2, <2>3 DEF Others, OnceInv, AtAny, At, Founding, Posted
  <2>10. PingInv'
    <3>1. /\ count.ping >= 1 => Pinged /\ f = "bot"
          /\ configured => stored.in /\ ~stored.notified
      BY <1>1, <1>3, <2>1 DEF Others, PingInv, HolderInv, AtAny, At, Messages, Counts
    <3> QED
      BY <1>1, <2>2, <2>3, <2>4, <3>1 DEF Others, PingInv, AtAny, At, Pinged, Upright, Early
  <2> QED
    BY <2>5, <2>6, <2>7, <2>8, <2>9, <2>10 DEF Good, Others
<1>4. CASE ~Upright
  <2>1. /\ stored' = IF stored.in THEN Detach(stored) ELSE stored
        /\ EndTick /\ notice' = notice
    BY <1>4 DEF PreparePing
  <2>2. /\ run' \in [Runners -> Tasks] /\ run'[Removal] = run[Removal] /\ run'[Lock].step = "idle"
        /\ copy' \in [Runners -> Views] /\ copy'[Lock] = Unread /\ copy'[Removal] = copy[Removal]
    BY <2>1, TickEnded
  <2>3. /\ stored' \in Objective /\ WellFormed(stored') /\ stored'.in = stored.in
        /\ stored'.notified = stored.notified
    BY <1>2, <2>1, DetachTypes
  <2>4. Well'
    BY <1>1, <2>1, <2>2, <2>3, ObjectiveWellKeeps DEF ObjectiveWell
  <2>5. PanelInv'
    BY <1>1, <2>2, PanelFrame DEF Publishing
  <2>6. HolderInv'
    BY <1>1, <2>2, <2>3, Unseen DEF Others, HolderInv, AtAny, At, Ticking, Founding, Runners
  <2>7. CreationInv'
    BY <1>1, <1>4, <2>1, <2>2, <2>3, Unseen
       DEF Others, CreationInv, AtAny, At, Founding, Spent, Upright, Runners
  <2>8. OnceInv'
    BY <1>1, <2>2 DEF Others, OnceInv, AtAny, At, Founding, Posted
  <2>9. PingInv'
    <3>1. configured /\ ~forgot /\ Pinged => notice.status # "completed" /\ ~stored.notified /\ stored.in
      BY <1>1, <1>2 DEF Others, PingInv, HolderInv, AtAny, At, WellFormed
    <3> QED
      BY <1>1, <1>4, <2>1, <2>2, <2>3, <3>1 DEF Others, PingInv, AtAny, At, Pinged, Upright, Early
  <2> QED
    BY <2>4, <2>5, <2>6, <2>7, <2>8, <2>9 DEF Good, Others
<1> QED
  BY <1>3, <1>4

\* The call sends a ping only when there is none.
LEMMA PingTypes ==
  ASSUME Well, Others, At(Lock, "call"), NewPing
  PROVE  /\ discord' \in Messages /\ count' \in Counts
         /\ discord'.role = discord.role /\ discord'.post = discord.post
         /\ count'.role = count.role /\ count'.post = count.post
         /\ discord'.ping \in {"marked", "clean"} /\ count'.ping = 1
<1>1. /\ count.ping \in Nat /\ count.ping <= 1
      /\ count.ping >= 1 => FoundPing
      /\ FoundPing => count.ping >= 1
  BY ObjectiveTyped DEF Others, PingInv, Counts, FoundPing, Pinged
<1>2. CASE FoundPing
  BY <1>1, <1>2, ObjectiveTyped DEF NewPing, FoundPing, Pinged, Counts
<1>3. CASE ~FoundPing
  BY <1>1, <1>3, PingMade DEF NewPing
<1> QED
  BY <1>2, <1>3

LEMMA SendPingStep ==
  ASSUME Well, Others, PanelInv, SendPing
  PROVE  Good
<1> USE ObjectiveTyped
<1>1. /\ run[Lock].step = "call" /\ At(Lock, "call") /\ NewPing /\ EndTick
      /\ stored' = Told(stored)
      /\ notice' = [status |-> IF stored.in THEN "completed" ELSE "sent", msg |-> TRUE]
      /\ UNCHANGED <<configured, panelVars, faults, wizard, clock, creation, ghosts>>
  BY DEF SendPing, At
<1>2. WellFormed(stored) /\ (configured => stored.in)
  BY <1>1 DEF Others, HolderInv, AtAny
<1>3. /\ run' \in [Runners -> Tasks] /\ run'[Removal] = run[Removal] /\ run'[Lock].step = "idle"
      /\ copy' \in [Runners -> Views] /\ copy'[Lock] = Unread /\ copy'[Removal] = copy[Removal]
  BY <1>1, TickEnded
<1>4. /\ stored' \in Objective /\ WellFormed(stored') /\ stored'.in = stored.in
      /\ stored'.role = stored.role
      /\ stored.in => stored'.notified /\ stored'.ping
  BY <1>1, <1>2, DetachTypes
<1>5. notice' \in Notices /\ notice'.status \in {"completed", "sent"}
  BY <1>1 DEF Notices, Settled
<1>6. /\ discord' \in Messages /\ count' \in Counts
      /\ discord'.role = discord.role /\ discord'.post = discord.post
      /\ count'.role = count.role /\ count'.post = count.post
      /\ discord'.ping \in {"marked", "clean"} /\ count'.ping = 1
  BY <1>1, PingTypes
<1>7. Well'
  BY <1>1, <1>3, <1>4, <1>5, <1>6, ObjectiveWellKeeps DEF ObjectiveWell
<1>8. PanelInv'
  BY <1>1, <1>3, PanelFrame DEF Publishing
<1>9. HolderInv'
  BY <1>1, <1>2, <1>3, <1>4, Unseen DEF Others, HolderInv, AtAny, At, Ticking, Founding, Runners
<1>10. CreationInv'
  BY <1>1, <1>3, <1>4, <1>6, Unseen DEF Others, CreationInv, AtAny, At, Founding, Spent, Upright, Runners
<1>11. OnceInv'
  BY <1>1, <1>3, <1>6 DEF Others, OnceInv, AtAny, At, Founding, Posted
<1>12. PingInv'
  BY <1>1, <1>2, <1>3, <1>4, <1>5, <1>6 DEF PingInv, AtAny, At, Pinged
<1> QED
  BY <1>7, <1>8, <1>9, <1>10, <1>11, <1>12 DEF Good, Others

LEMMA PingLostStep ==
  ASSUME Well, Others, PanelInv, PingLost
  PROVE  Good
<1> USE ObjectiveTyped
<1>1. /\ run[Lock].step = "call" /\ At(Lock, "call") /\ (NewPing \/ UNCHANGED made) /\ EndTick
      /\ Fault
      /\ UNCHANGED <<configured, panelVars, wizard, clock, records, stored, ghosts>>
  BY DEF PingLost, At
<1>2. /\ run' \in [Runners -> Tasks] /\ run'[Removal] = run[Removal] /\ run'[Lock].step = "idle"
      /\ copy' \in [Runners -> Views] /\ copy'[Lock] = Unread /\ copy'[Removal] = copy[Removal]
  BY <1>1, TickEnded
<1>3. /\ discord' \in Messages /\ count' \in Counts
      /\ discord'.role = discord.role /\ discord'.post = discord.post
      /\ count'.role = count.role /\ count'.post = count.post
      /\ \/ discord'.ping \in {"marked", "clean"} /\ count'.ping = 1
         \/ UNCHANGED made
  BY <1>1, PingTypes
<1>4. Well'
  BY <1>1, <1>2, <1>3, ObjectiveWellKeeps, Faults DEF ObjectiveWell, Well
<1>5. PanelInv'
  BY <1>1, <1>2, PanelFrame DEF Publishing
<1>6. HolderInv'
  BY <1>1, <1>2, Unseen DEF Others, HolderInv, AtAny, At, Ticking, Founding, Runners
<1>7. CreationInv'
  BY <1>1, <1>2, <1>3, Unseen DEF Others, CreationInv, AtAny, At, Founding, Spent, Upright, Runners
<1>8. OnceInv'
  BY <1>1, <1>2, <1>3 DEF Others, OnceInv, AtAny, At, Founding, Posted
<1>9. PingInv'
  <2>1. /\ notice.status \in {"pending", "sent"}
        /\ configured => stored.in /\ ~stored.notified
    BY <1>1 DEF Others, PingInv, HolderInv, AtAny
  <2> QED
    BY <1>1, <1>2, <1>3, <2>1 DEF Others, PingInv, AtAny, At, Pinged, Upright, Early
<1> QED
  BY <1>4, <1>5, <1>6, <1>7, <1>8, <1>9 DEF Good, Others

LEMMA PingCrashStep ==
  ASSUME Well, Others, PanelInv, PingCrash
  PROVE  Good
<1> USE ObjectiveTyped
<1>1. /\ run[Lock].step = "call" /\ At(Lock, "call") /\ NewPing
      /\ Fault /\ Crash /\ copy' = [r \in {Lock, Removal} |-> Unread]
      /\ stored' = Told(stored) \/ stored' = stored
      /\ notice' = [status |-> "sent", msg |-> TRUE]
      /\ UNCHANGED <<configured, panelVars, wizard, clock, creation, ghosts>>
  BY DEF PingCrash, At
<1>2. WellFormed(stored) /\ (configured => stored.in /\ ~stored.notified)
  BY <1>1 DEF Others, HolderInv, AtAny
<1>3. /\ run' \in [Runners -> Tasks] /\ run'[Removal].step = "idle" /\ run'[Lock].step = "idle"
      /\ copy' \in [Runners -> Views] /\ copy'[Lock] = Unread /\ copy'[Removal] = Unread
  BY <1>1, CrashEnded
<1>4. /\ stored' \in Objective /\ WellFormed(stored') /\ stored'.in = stored.in
      /\ stored'.role = stored.role
      /\ configured => stored'.ping \/ ~stored'.notified
  BY <1>1, <1>2, DetachTypes
<1>5. notice' \in Notices /\ notice'.status = "sent"
  BY <1>1 DEF Notices, Settled
<1>6. /\ discord' \in Messages /\ count' \in Counts
      /\ discord'.role = discord.role /\ discord'.post = discord.post
      /\ count'.role = count.role /\ count'.post = count.post
      /\ discord'.ping \in {"marked", "clean"} /\ count'.ping = 1
  BY <1>1, PingTypes
<1>7. Well'
  BY <1>1, <1>3, <1>4, <1>5, <1>6, ObjectiveWellKeeps, Faults DEF ObjectiveWell, Well
<1>8. PanelInv'
  BY <1>1, <1>3, PanelFrame DEF Publishing
<1>9. HolderInv'
  BY <1>1, <1>2, <1>3, <1>4, Unseen DEF Others, HolderInv, AtAny, At, Ticking, Founding, Runners
<1>10. CreationInv'
  BY <1>1, <1>3, <1>4, <1>6, Unseen DEF Others, CreationInv, AtAny, At, Founding, Spent, Upright, Runners
<1>11. OnceInv'
  BY <1>1, <1>3, <1>6 DEF Others, OnceInv, AtAny, At, Founding, Posted
<1>12. PingInv'
  BY <1>1, <1>2, <1>3, <1>4, <1>5, <1>6 DEF PingInv, AtAny, At, Pinged
<1> QED
  BY <1>7, <1>8, <1>9, <1>10, <1>11, <1>12 DEF Good, Others

\* A clean-up takes away only the ping and the role of the objective, and the role
\* only if it is the bot's; one that succeeds takes both.
Less(obj) ==
    /\ discord' \in Messages
    /\ discord'.ping = discord.ping \/ (obj.ping /\ discord'.ping = "gone")
    /\ discord'.role = discord.role \/ (obj.role /\ Upright /\ discord'.role = "gone")
Clean(obj) == (obj.ping => ~Pinged') /\ (obj.role => ~Upright')

LEMMA SweptTypes ==
  ASSUME Well, NEW obj \in Objective, NEW d \in SweptInPart(obj) \union {Swept(obj)},
         NEW post \in Things, discord' = [d EXCEPT !.post = post]
  PROVE  Less(obj) /\ discord'.post = post /\ (d = Swept(obj) => Clean(obj))
<1> DEFINE Fewer(e) == /\ e \in Messages
                       /\ e.ping = discord.ping \/ (obj.ping /\ e.ping = "gone")
                       /\ e.role = discord.role \/ (obj.role /\ Upright /\ e.role = "gone")
           s == Swept(obj)
<1>1. discord \in Messages
  BY ObjectiveTyped
<1>2. /\ s \in Messages
      /\ s.ping = IF obj.ping THEN Deleted(discord.ping) ELSE discord.ping
      /\ s.role = IF obj.role /\ Upright THEN "gone" ELSE discord.role
  <2>1. PICK ping, role : /\ ping = IF obj.ping THEN Deleted(discord.ping) ELSE discord.ping
                          /\ role = IF obj.role /\ Upright THEN "gone" ELSE discord.role
    OBVIOUS
  <2>2. s = [discord EXCEPT !.ping = ping, !.role = role]
    BY <2>1, Zenon DEF Swept
  <2>3. ping \in Things /\ role \in Roles
    BY <1>1, <2>1 DEF Messages, Deleted, Things, Roles
  <2> QED
    BY <1>1, <2>1, <2>2, <2>3 DEF Messages
<1>3. Fewer(s) /\ Fewer(discord)
  BY <1>1, <1>2 DEF Deleted, Messages
<1>4. /\ s.ping \in Things /\ s.role \in Roles
  BY <1>2 DEF Messages
<1> HIDE DEF s
<1>5. \A x \in Things, y \in Roles :
         /\ [discord EXCEPT !.ping = x] \in Messages /\ [discord EXCEPT !.ping = x].ping = x
         /\ [discord EXCEPT !.ping = x].role = discord.role
         /\ [discord EXCEPT !.role = y] \in Messages /\ [discord EXCEPT !.role = y].role = y
         /\ [discord EXCEPT !.role = y].ping = discord.ping
  BY <1>1 DEF Messages
<1>6. d \in {discord, [discord EXCEPT !.ping = s.ping], [discord EXCEPT !.role = s.role], s}
  BY DEF SweptInPart, s
<1>7. Fewer(d)
  <2>1. Fewer([discord EXCEPT !.ping = s.ping])
    BY <1>3, <1>4, <1>5
  <2>2. Fewer([discord EXCEPT !.role = s.role])
    BY <1>3, <1>4, <1>5
  <2> HIDE DEF Fewer
  <2> QED
    BY <1>3, <1>6, <2>1, <2>2
<1>8. /\ discord' \in Messages /\ discord'.post = post /\ discord'.ping = d.ping
      /\ discord'.role = d.role
  BY <1>7 DEF Messages
<1>9. Less(obj)
  BY <1>7, <1>8 DEF Less
<1>10. d = s => Clean(obj)
  BY <1>1, <1>2, <1>8 DEF Clean, Pinged, Upright, Deleted, Messages, Things
<1> QED
  BY <1>8, <1>9, <1>10 DEF s

\* With its own message as it was.
LEMMA SweptKeepsPost ==
  ASSUME Well, NEW obj \in Objective, NEW d \in SweptInPart(obj) \union {Swept(obj)}
  PROVE  d = [d EXCEPT !.post = discord.post]
<1>1. discord \in Messages
  BY ObjectiveTyped
<1>2. Swept(obj) = [Swept(obj) EXCEPT !.post = discord.post]
  BY <1>1 DEF Swept, Messages
<1>3. \A x : /\ [discord EXCEPT !.ping = x] = [[discord EXCEPT !.ping = x] EXCEPT !.post = discord.post]
             /\ [discord EXCEPT !.role = x] = [[discord EXCEPT !.role = x] EXCEPT !.post = discord.post]
             /\ discord = [discord EXCEPT !.post = discord.post]
             /\ [discord EXCEPT !.ping = x].post = discord.post
             /\ [discord EXCEPT !.role = x].post = discord.post
  BY <1>1 DEF Messages
<1> QED
  BY <1>2, <1>3 DEF SweptInPart

\* Its own message after a clean-up, or after one that takes the message as well.
LEMMA SweptPost ==
  ASSUME Well, NEW obj \in Objective, NEW d \in SweptInPart(obj) \union {Swept(obj)}
  PROVE  d.post = discord.post
<1>1. discord \in Messages
  BY ObjectiveTyped
<1>2. Swept(obj).post = discord.post
  BY <1>1 DEF Swept, Messages
<1> QED
  BY <1>1, <1>2 DEF SweptInPart, Messages

LEMMA PoppedStep ==
  ASSUME Well, Others, PanelInv, Popped
  PROVE  Good
<1> USE ObjectiveTyped
<1> DEFINE obj == copy[Lock].obj
<1>1. /\ run[Lock].step = "popped" /\ EndTick
      /\ UNCHANGED <<configured, panelVars, wizard, clock, records, count, ghosts>>
      /\ NoFault \/ Fault
  BY DEF Popped, At
<1>2. /\ obj \in Objective /\ obj.in /\ WellFormed(stored)
      /\ configured => obj = stored
      /\ ~Early
  BY <1>1, PanelAssumption DEF Others, HolderInv, AtAny, Ticking, Runners, Views, Early
<1>3. PICK d \in SweptInPart(obj) \union {Swept(obj)} :
         /\ discord' = d
         /\ \/ d = Swept(obj)
               /\ stored' = IF stored.in THEN [Detach(stored) EXCEPT !.removing = TRUE] ELSE stored
            \/ stored' = IF stored.in THEN [stored EXCEPT !.removing = TRUE] ELSE stored
  BY DEF Popped
<1>4. /\ Less(obj) /\ discord'.post = discord.post
      /\ d = Swept(obj) => Clean(obj)
  <2>1. discord' = [d EXCEPT !.post = discord.post] /\ discord.post \in Things
    BY <1>2, <1>3, SweptKeepsPost DEF Messages
  <2> QED
    BY <1>2, <2>1, SweptTypes
<1>5. /\ stored' \in Objective /\ WellFormed(stored') /\ stored'.in = stored.in
      /\ stored'.notified = stored.notified
      /\ (stored'.role = stored.role /\ stored'.ping = stored.ping) \/ d = Swept(obj)
  BY <1>2, <1>3 DEF Detach, Objective, WellFormed
<1>6. /\ run' \in [Runners -> Tasks] /\ run'[Removal] = run[Removal] /\ run'[Lock].step = "idle"
      /\ copy' \in [Runners -> Views] /\ copy'[Lock] = Unread /\ copy'[Removal] = copy[Removal]
  BY <1>1, TickEnded
<1> HIDE DEF obj
<1>7. Well'
  BY <1>1, <1>4, <1>5, <1>6, ObjectiveWellKeeps, Faults DEF ObjectiveWell, Well, Less
<1>8. PanelInv'
  BY <1>1, <1>6, PanelFrame DEF Publishing
<1>9. HolderInv'
  BY <1>1, <1>5, <1>6, Unseen DEF Others, HolderInv, AtAny, At, Ticking, Founding, Runners
<1>10. /\ Upright' => Upright
       /\ Pinged' => Pinged
  BY <1>4 DEF Less, Upright, Pinged
<1>11. CreationInv'
  <2>1. configured /\ stored.in /\ ~stored'.role => Spent'
    BY <1>1, <1>2, <1>4, <1>5, <1>10 DEF Others, CreationInv, Spent, Clean
  <2> QED
    BY <1>1, <1>5, <1>6, <1>10, <2>1, Unseen DEF Others, CreationInv, AtAny, At, Founding, Spent, Runners
<1>12. OnceInv'
  <2>1. creation.tried
    BY <1>1, PanelAssumption DEF Others, CreationInv, HolderInv, AtAny, Ticking, Runners
  <2> QED
    BY <1>1, <1>4, <1>6, <2>1 DEF Others, OnceInv, AtAny, At, Founding, Posted
<1>13. PingInv'
  <2>1. /\ configured => stored.in
        /\ configured /\ Pinged' /\ d = Swept(obj) => ~stored.ping
    BY <1>2, <1>4 DEF Clean
  <2> QED
    BY <1>1, <1>2, <1>4, <1>5, <1>6, <1>10, <2>1 DEF Others, PingInv, AtAny, At, Early
<1> QED
  BY <1>7, <1>8, <1>9, <1>11, <1>12, <1>13 DEF Good, Others

LEMMA ExpireStep ==
  ASSUME Well, Others, PanelInv, Expire
  PROVE  Good
<1> USE ObjectiveTyped
<1> DEFINE obj == copy[Lock].obj
<1>1. /\ run[Lock].step = "expire" /\ EndTick
      /\ UNCHANGED <<configured, panelVars, wizard, clock, records, count, tampered, torn, forgot>>
      /\ NoFault \/ Fault
  BY DEF Expire, At
<1>2. /\ obj \in Objective /\ obj.in /\ WellFormed(stored)
      /\ configured => obj = stored
      /\ ~Early
  BY <1>1, PanelAssumption DEF Others, HolderInv, AtAny, Ticking, Runners, Views, Early
<1>3. \E d \in SweptInPart(obj) \union {Swept(obj)} :
         /\ \/ discord' = d
            \/ discord' = [d EXCEPT !.post = IF copy[Lock].now = "over" THEN Deleted(@) ELSE @]
         /\ \/ d = Swept(obj) /\ stored' = Missing /\ ended' = TRUE
            \/ d = Swept(obj) /\ stored' = (IF stored.in THEN Detach(stored) ELSE stored) /\ ended' = ended
            \/ stored' = stored /\ ended' = ended
  BY DEF Expire, Dropped
<1>4. PICK d \in SweptInPart(obj) \union {Swept(obj)} :
         /\ \/ discord' = d
            \/ discord' = [d EXCEPT !.post = IF copy[Lock].now = "over" THEN Deleted(@) ELSE @]
         /\ \/ d = Swept(obj) /\ stored' = Missing /\ ended' = TRUE
            \/ d = Swept(obj) /\ stored' = (IF stored.in THEN Detach(stored) ELSE stored) /\ ended' = ended
            \/ stored' = stored /\ ended' = ended
  BY <1>3
<1>5. Less(obj) /\ (d = Swept(obj) => Clean(obj))
  <2>1. d = [d EXCEPT !.post = discord.post] /\ discord.post \in Things /\ d.post = discord.post
    BY <1>2, SweptKeepsPost, SweptPost DEF Messages
  <2>2. PICK post \in Things : discord' = [d EXCEPT !.post = post]
    BY <1>4, <2>1 DEF Deleted, Things
  <2> QED
    BY <1>2, <2>2, SweptTypes
<1>6. /\ stored' \in Objective /\ WellFormed(stored') /\ (stored'.in => stored.in)
      /\ ended' \in BOOLEAN /\ (ended => ended')
      /\ \/ stored' = stored /\ ended' = ended
         \/ d = Swept(obj) /\ stored'.in = stored.in /\ ended' = ended /\ stored'.notified = stored.notified
         \/ d = Swept(obj) /\ ~stored'.in /\ ended'
  <2>1. CASE stored' = Missing /\ d = Swept(obj) /\ ended' = TRUE
    BY <2>1 DEF Missing, Objective, WellFormed
  <2>2. CASE d = Swept(obj) /\ stored' = (IF stored.in THEN Detach(stored) ELSE stored) /\ ended' = ended
    BY <1>2, <2>2, DetachTypes
  <2>3. CASE stored' = stored /\ ended' = ended
    BY <1>2, <2>3
  <2> QED
    BY <1>4, <2>1, <2>2, <2>3
<1>7. /\ run' \in [Runners -> Tasks] /\ run'[Removal] = run[Removal] /\ run'[Lock].step = "idle"
      /\ copy' \in [Runners -> Views] /\ copy'[Lock] = Unread /\ copy'[Removal] = copy[Removal]
  BY <1>1, TickEnded
<1>8. /\ configured => stored.in /\ ~(ended /\ ~torn)
      /\ creation.tried
      /\ ~torn => creation.status = "completed"
      /\ ~stored.role /\ configured => Spent
  BY <1>1, <1>2, PanelAssumption DEF Others, CreationInv, Runners
<1>9. /\ Upright' => Upright
      /\ Pinged' => Pinged
      /\ configured /\ d = Swept(obj) => Spent' /\ (stored.ping => ~Pinged')
  BY <1>1, <1>2, <1>5, <1>8 DEF Less, Upright, Pinged, Clean, Spent
<1> HIDE DEF obj
<1>10. Well'
  BY <1>1, <1>5, <1>6, <1>7, ObjectiveWellKeeps, Faults DEF ObjectiveWell, Well, Less
<1>11. PanelInv'
  BY <1>1, <1>7, PanelFrame DEF Publishing
<1>12. HolderInv'
  BY <1>1, <1>6, <1>7, Unseen DEF Others, HolderInv, AtAny, At, Ticking, Founding, Runners
<1>13. CreationInv'
  BY <1>1, <1>6, <1>7, <1>8, <1>9, Unseen DEF Others, CreationInv, AtAny, At, Founding, Spent, Runners
<1>14. OnceInv'
  BY <1>1, <1>7, <1>8 DEF Others, OnceInv, AtAny, At, Founding, Creating
<1>15. PingInv'
  BY <1>1, <1>2, <1>6, <1>7, <1>8, <1>9 DEF Others, PingInv, AtAny, At, Early
<1> QED
  BY <1>10, <1>11, <1>12, <1>13, <1>14, <1>15 DEF Good, Others

LEMMA TickCrashStep ==
  ASSUME Well, Others, PanelInv, TickCrash
  PROVE  Good
<1> USE ObjectiveTyped
<1> DEFINE obj == copy[Lock].obj
<1>1. /\ run[Lock].step \in {"popped", "expire"}
      /\ Fault /\ Crash /\ copy' = [r \in {Lock, Removal} |-> Unread]
      /\ UNCHANGED <<configured, panelVars, wizard, clock, records, stored, count, ghosts>>
  BY DEF TickCrash, At
<1>2. /\ obj \in Objective /\ obj.in
      /\ configured => obj = stored
  BY <1>1, PanelAssumption DEF Others, HolderInv, AtAny, Ticking, Runners, Views
<1>3. PICK d \in SweptInPart(obj) \union {Swept(obj)} :
         discord' = d \/ discord' = [d EXCEPT !.post = Deleted(@)]
  BY DEF TickCrash
<1>4. Less(obj)
  <2>1. d = [d EXCEPT !.post = discord.post] /\ discord.post \in Things /\ d.post = discord.post
    BY <1>2, SweptKeepsPost, SweptPost DEF Messages
  <2>2. PICK post \in Things : discord' = [d EXCEPT !.post = post]
    BY <1>3, <2>1 DEF Deleted, Things
  <2> QED
    BY <1>2, <2>2, SweptTypes
<1>5. /\ run' \in [Runners -> Tasks] /\ run'[Removal].step = "idle" /\ run'[Lock].step = "idle"
      /\ copy' \in [Runners -> Views] /\ copy'[Lock] = Unread /\ copy'[Removal] = Unread
  BY <1>1, CrashEnded
<1>6. (Upright' => Upright) /\ (Pinged' => Pinged)
  BY <1>4 DEF Less, Upright, Pinged
<1>7. creation.tried /\ (~torn => creation.status = "completed")
  BY <1>2, PanelAssumption DEF Others, CreationInv, Runners
<1>8. ~Early
  BY <1>1 DEF Others, HolderInv, AtAny, Early
<1> HIDE DEF obj
<1>9. Well'
  BY <1>1, <1>4, <1>5, ObjectiveWellKeeps, Faults DEF ObjectiveWell, Well, Less
<1>10. PanelInv'
  BY <1>1, <1>5, PanelFrame DEF Publishing
<1>11. HolderInv'
  BY <1>1, <1>5, Unseen DEF Others, HolderInv, AtAny, At, Ticking, Founding, Runners
<1>12. CreationInv'
  BY <1>1, <1>5, <1>6, Unseen DEF Others, CreationInv, AtAny, At, Founding, Spent, Runners
<1>13. OnceInv'
  BY <1>1, <1>5, <1>7 DEF Others, OnceInv, AtAny, At, Founding, Creating
<1>14. PingInv'
  BY <1>1, <1>5, <1>6, <1>8 DEF Others, PingInv, AtAny, At, Early
<1> QED
  BY <1>9, <1>10, <1>11, <1>12, <1>13, <1>14 DEF Good, Others

-----------------------------------------------------------------------------
(* Notifications that were left, members, moderators                       *)

LEMMA ResumeNoticeStep ==
  ASSUME Well, Others, PanelInv, ResumeNotice
  PROVE  Good
<1> USE ObjectiveTyped
<1>1. /\ run[Lock].step = "idle" /\ notice.status \in {"pending", "sent"}
      /\ UNCHANGED <<configured, panelVars, wizard, clock, creation, copy, count, ghosts>>
  BY DEF ResumeNotice, Free, At
<1>2. WellFormed(stored) /\ (configured => Active) /\ (Active => configured)
  BY DEF Others, HolderInv, Active
<1>3. CASE /\ Cancelled \/ (~stored.notified /\ Late)
           /\ \/ /\ discord' = [discord EXCEPT !.ping = TakenDown]
                 /\ notice' = [notice EXCEPT !.status = "cancelled"]
                 /\ NoFault
              \/ Fault /\ UNCHANGED <<notice, discord>>
           /\ UNCHANGED <<stored, run>>
  <2>1. /\ notice' \in Notices /\ discord' \in Messages
        /\ discord'.post = discord.post /\ discord'.role = discord.role
        /\ \/ notice'.status = "cancelled" /\ ~Pinged'
           \/ UNCHANGED <<notice, discord>>
    BY <1>3 DEF Notices, Settled, Messages, Pinged, TakenDown, Deleted, Things
  <2>2. configured /\ stored.in => stored.removing \/ ~Early
    BY <1>2, <1>3 DEF Cancelled, Late, Early
  <2>3. Well'
    BY <1>1, <1>3, <2>1, ObjectiveWellKeeps, Faults DEF ObjectiveWell, Well
  <2>4. PanelInv'
    BY <1>1, <1>3, PanelFrame
  <2>5. HolderInv'
    BY <1>1, <1>3 DEF Others, HolderInv, AtAny, At
  <2>6. CreationInv'
    BY <1>1, <1>3, <2>1 DEF Others, CreationInv, AtAny, At, Spent, Upright
  <2>7. OnceInv'
    BY <1>1, <1>3, <2>1 DEF Others, OnceInv, AtAny, At, Posted
  <2>8. PingInv'
    BY <1>1, <1>3, <2>1, <2>2 DEF Others, PingInv, AtAny, At, Pinged, Upright, Early
  <2> QED
    BY <2>3, <2>4, <2>5, <2>6, <2>7, <2>8 DEF Good, Others
<1>4. CASE /\ configured /\ stored.in
           /\ notice'.status = "completed" /\ notice' \in Notices
           /\ \/ stored.notified /\ stored' = stored
              \/ stored' = Told(stored)
           /\ UNCHANGED <<discord, run, faults>>
  <2>1. /\ stored' \in Objective /\ WellFormed(stored') /\ stored'.in
        /\ stored'.notified /\ stored'.role = stored.role
        /\ stored'.ping \/ (stored.notified /\ stored' = stored)
    BY <1>2, <1>4, DetachTypes
  <2>2. Well'
    BY <1>1, <1>4, <2>1, ObjectiveWellKeeps DEF ObjectiveWell
  <2>3. PanelInv'
    BY <1>1, <1>4, PanelFrame
  <2>4. HolderInv'
    BY <1>1, <1>4, <2>1 DEF Others, HolderInv, AtAny, At, Ticking, Founding
  <2>5. CreationInv'
    BY <1>1, <1>4, <2>1 DEF Others, CreationInv, AtAny, At, Spent, Upright
  <2>6. OnceInv'
    BY <1>1, <1>4 DEF Others, OnceInv, AtAny, At, Posted
  <2>7. PingInv'
    BY <1>1, <1>4, <2>1 DEF Others, PingInv, AtAny, At, Pinged
  <2> QED
    BY <2>2, <2>3, <2>4, <2>5, <2>6, <2>7 DEF Good, Others
<1>5. CASE /\ configured /\ stored.in /\ ~stored.notified /\ ~Late /\ ~Pinged
           /\ stored.role /\ Upright
           /\ Begin(Lock, "call", "bot")
           /\ UNCHANGED <<stored, discord, notice, faults>>
  <2>1. /\ run' \in [Runners -> Tasks] /\ run'[Removal] = run[Removal]
        /\ run'[Lock].step = "call" /\ run'[Lock].for = "bot"
    BY <1>5, Began DEF Well, Steps
  <2>2. Well'
    BY <1>1, <1>5, <2>1, ObjectiveWellKeeps DEF ObjectiveWell
  <2>3. PanelInv'
    BY <1>1, <1>5, <2>1, PanelFrame DEF Publishing
  <2>4. HolderInv'
    BY <1>1, <1>5, <2>1 DEF Others, HolderInv, AtAny, At, Ticking, Founding
  <2>5. CreationInv'
    BY <1>1, <1>5, <2>1 DEF Others, CreationInv, AtAny, At, Founding, Spent, Upright
  <2>6. OnceInv'
    BY <1>1, <1>5, <2>1 DEF Others, OnceInv, AtAny, At, Founding, Posted
  <2>7. PingInv'
    <3>1. ~(count.ping >= 1)
      BY <1>5 DEF Others, PingInv, Late, Early, Times
    <3> QED
      BY <1>1, <1>5, <2>1, <3>1 DEF Others, PingInv, AtAny, At, Pinged, Upright, Early
  <2> QED
    BY <2>2, <2>3, <2>4, <2>5, <2>6, <2>7 DEF Good, Others
<1>6. CASE ~Cancelled /\ stored.notified
           /\ notice' = [notice EXCEPT !.status = "completed"]
           /\ UNCHANGED <<stored, discord, run, faults>>
  BY <1>2, <1>4, <1>6 DEF Cancelled, Notices, Settled
<1>7. CASE /\ ~Cancelled /\ ~stored.notified /\ ~Late
           /\ IF Pinged
              THEN /\ notice' = [status |-> "completed", msg |-> TRUE]
                   /\ stored' = Told(stored)
                   /\ UNCHANGED <<discord, run, faults>>
              ELSE /\ stored.role /\ Upright
                   /\ Begin(Lock, "call", "bot")
                   /\ UNCHANGED <<stored, discord, notice, faults>>
  <2>1. configured /\ stored.in
    BY <1>2, <1>7 DEF Cancelled
  <2>2. CASE Pinged
    <3>1. /\ notice' = [status |-> "completed", msg |-> TRUE]
          /\ stored' = Told(stored)
          /\ UNCHANGED <<discord, run, faults>>
      BY <1>7, <2>2, Zenon
    <3>2. notice' \in Notices /\ notice'.status = "completed"
      BY <3>1 DEF Notices, Settled
    <3> QED
      BY <1>4, <2>1, <3>1, <3>2
  <2>3. CASE ~Pinged
    BY <1>5, <1>7, <2>1, <2>3
  <2> QED
    BY <2>2, <2>3
<1> QED
  BY <1>3, <1>6, <1>7 DEF ResumeNotice

LEMMA NotifyMeStep ==
  ASSUME Well, Others, PanelInv, NotifyMe
  PROVE  Good
<1> USE ObjectiveTyped
<1>1. /\ run[Lock].step = "idle" /\ configured /\ stored.in /\ ~Upright
      /\ stored' = Detach(stored)
      /\ UNCHANGED <<configured, panelVars, run, faults, wizard, clock, records, copy, made,
                     tampered, torn, ended>>
  BY DEF NotifyMe, Free, At, Active
<1>2. forgot' \in BOOLEAN /\ (~forgot' => ~forgot /\ ~(stored.ping /\ Pinged))
  BY DEF NotifyMe
<1>3. WellFormed(stored)
  BY DEF Others, HolderInv
<1>4. /\ stored' \in Objective /\ WellFormed(stored') /\ stored'.in
      /\ stored'.notified = stored.notified
  BY <1>1, <1>3, DetachTypes
<1>5. Well'
  BY <1>1, <1>2, <1>4, ObjectiveWellKeeps DEF ObjectiveWell
<1>6. PanelInv'
  BY <1>1, PanelFrame
<1>7. HolderInv'
  BY <1>1, <1>4 DEF Others, HolderInv, AtAny, At, Ticking, Founding
<1>8. CreationInv'
  BY <1>1, <1>4 DEF Others, CreationInv, AtAny, At, Spent, Upright
<1>9. OnceInv'
  BY <1>1 DEF Others, OnceInv, AtAny, At, Posted
<1>10. PingInv'
  <2>1. ~forgot' /\ Pinged => ~(notice.status = "completed" \/ stored.notified)
    BY <1>1, <1>2 DEF Others, PingInv
  <2> QED
    BY <1>1, <1>4, <2>1 DEF Others, PingInv, AtAny, At, Pinged, Upright, Early
<1> QED
  BY <1>5, <1>6, <1>7, <1>8, <1>9, <1>10 DEF Good, Others

LEMMA RemoveObjectiveStep ==
  ASSUME Well, Others, PanelInv, RemoveObjective
  PROVE  Good
<1> USE ObjectiveTyped
<1>1. /\ run[Lock].step = "idle" /\ configured /\ stored.in
      /\ NoFault \/ Fault
      /\ UNCHANGED <<configured, panelVars, run, wizard, clock, records, copy, count, tampered, torn, forgot>>
  BY DEF RemoveObjective, Free, At, Active
<1>2. PICK d \in SweptInPart(stored) \union {Swept(stored)} :
         /\ discord' = d \/ discord' = [d EXCEPT !.post = "gone"]
         /\ \/ d = Swept(stored) /\ stored' = Missing /\ ended' = TRUE
            \/ stored' = stored /\ ended' = ended
  BY DEF RemoveObjective
<1>3. Less(stored) /\ (d = Swept(stored) => Clean(stored))
  <2>1. d = [d EXCEPT !.post = discord.post] /\ discord.post \in Things
    BY SweptKeepsPost DEF Messages
  <2>2. PICK post \in Things : discord' = [d EXCEPT !.post = post]
    BY <1>2, <2>1 DEF Things
  <2> QED
    BY <2>2, SweptTypes
<1>4. /\ stored' \in Objective /\ WellFormed(stored') /\ ended' \in BOOLEAN
      /\ \/ stored' = stored /\ ended' = ended
         \/ d = Swept(stored) /\ ~stored'.in /\ ended'
  <2>1. Missing \in Objective /\ WellFormed(Missing) /\ ~Missing.in
    BY DEF Missing, Objective, WellFormed
  <2>2. WellFormed(stored)
    BY DEF Others, HolderInv
  <2> HIDE DEF WellFormed, Missing
  <2> QED
    BY <1>2, <2>1, <2>2
<1>5. /\ WellFormed(stored) /\ creation.tried
      /\ ~(ended /\ ~torn)
      /\ ~torn => creation.status = "completed"
      /\ ~stored.role => Spent
  BY <1>1 DEF Others, CreationInv, HolderInv
<1>6. /\ Upright' => Upright
      /\ Pinged' => Pinged
      /\ stored.ping \/ Pinged' = Pinged
      /\ d = Swept(stored) => Spent' /\ (stored.ping => ~Pinged')
  BY <1>1, <1>3, <1>5 DEF Less, Upright, Pinged, Clean, Spent
<1>7. Well'
  BY <1>1, <1>3, <1>4, ObjectiveWellKeeps, Faults DEF ObjectiveWell, Well, Less
<1>8. PanelInv'
  BY <1>1, PanelFrame
<1>9. HolderInv'
  BY <1>1, <1>4 DEF Others, HolderInv, AtAny, At, Ticking, Founding
<1>10. CreationInv'
  BY <1>1, <1>4, <1>5, <1>6 DEF Others, CreationInv, AtAny, At, Founding, Spent
<1>11. OnceInv'
  BY <1>1, <1>5 DEF Others, OnceInv, AtAny, At, Founding, Creating
<1>12. PingInv'
  BY <1>1, <1>4, <1>5, <1>6 DEF Others, PingInv, AtAny, At, Early, WellFormed
<1> QED
  BY <1>7, <1>8, <1>9, <1>10, <1>11, <1>12 DEF Good, Others

LEMMA ModerateStep ==
  ASSUME Well, Others, PanelInv, Moderate
  PROVE  Good
<1> USE ObjectiveTyped
<1>1. /\ tampered' = TRUE /\ Fault
      /\ UNCHANGED <<configured, panelVars, run, wizard, clock, records, stored, copy, count, torn,
                     forgot, ended>>
  BY DEF Moderate
<1>2. discord' \in Messages /\ Pinged' = Pinged /\ (Upright' => Upright)
  <2>1. CASE Posted /\ discord' = [discord EXCEPT !.post = "gone"]
    BY <2>1 DEF Messages, Things, Pinged, Upright
  <2>2. CASE \E s \in {"foreign", "gone"} : discord' = [discord EXCEPT !.role = s]
    BY <2>2 DEF Messages, Roles, Pinged, Upright
  <2> QED
    BY <2>1, <2>2 DEF Moderate
<1>3. Well'
  BY <1>1, <1>2, ObjectiveWellKeeps, Faults DEF ObjectiveWell, Well
<1>4. PanelInv'
  BY <1>1, PanelFrame
<1>5. HolderInv'
  BY <1>1 DEF Others, HolderInv, AtAny, At
<1>6. CreationInv'
  BY <1>1, <1>2 DEF Others, CreationInv, AtAny, At, Spent
<1>7. OnceInv'
  BY <1>1 DEF OnceInv
<1>8. PingInv'
  BY <1>1, <1>2 DEF Others, PingInv, AtAny, At, Early
<1> QED
  BY <1>3, <1>4, <1>5, <1>6, <1>7, <1>8 DEF Good, Others

LEMMA RestartStep ==
  ASSUME Well, Others, PanelInv, Restart
  PROVE  Good
<1> USE ObjectiveTyped
<1>1. /\ Fault /\ Crash /\ copy' = [r \in {Lock, Removal} |-> Unread]
      /\ UNCHANGED <<configured, panelVars, wizard, clock, records, stored, made, ghosts>>
  BY DEF Restart
<1>2. /\ run' \in [Runners -> Tasks] /\ run'[Removal].step = "idle" /\ run'[Lock].step = "idle"
      /\ copy' \in [Runners -> Views] /\ copy'[Lock] = Unread /\ copy'[Removal] = Unread
  BY <1>1, CrashEnded
<1>3. Well'
  BY <1>1, <1>2, ObjectiveWellKeeps, Faults DEF ObjectiveWell, Well
<1>4. PanelInv'
  BY <1>1, <1>2, PanelFrame DEF Publishing
<1>5. HolderInv'
  BY <1>1, <1>2, Unseen DEF Others, HolderInv, AtAny, At, Ticking, Founding, Runners
<1>6. CreationInv'
  BY <1>1, <1>2, Unseen DEF Others, CreationInv, AtAny, At, Founding, Spent, Upright, Runners
<1>7. OnceInv'
  BY <1>1, <1>2 DEF Others, OnceInv, AtAny, At, Founding, Posted
<1>8. PingInv'
  BY <1>1, <1>2 DEF Others, PingInv, AtAny, At, Pinged, Upright, Early
<1> QED
  BY <1>3, <1>4, <1>5, <1>6, <1>7, <1>8 DEF Good, Others

-----------------------------------------------------------------------------
(* Retirement and the wizard                                               *)

\* A step may change the entry and the panels, too.
LEMMA RetirementKeeps ==
  ASSUME Well, ObjectiveWell, entry' \in Entries, panels' \in [Panel -> States],
         configured' \in BOOLEAN, UNCHANGED <<pub, replaced, wizard, clock>>
  PROVE  Well'
<1>1. TypeOK'
  BY DEF Well, TypeOK, PanelTypeOK, WizardTypeOK, LastStep, ObjectiveWell, Creations, Notices,
         Messages, Things, Roles, Entries, States
<1>2. Kept'
  BY DEF ObjectiveWell, Kept, Messages, Counts
<1> QED
  BY <1>1, <1>2 DEF Well

LEMMA RetireStep ==
  ASSUME Well, Others, PanelInv, NEW r \in Runners, At(r, "idle"), Retire(r),
         configured' = FALSE, r = Lock => ~configured, r = Removal => configured
  PROVE  Good
<1> USE ObjectiveTyped
<1>1. /\ UNCHANGED <<pub, panels, replaced, faults, wizard, clock, records, stored, made, ghosts>>
      /\ Go(r, "retire")
      /\ copy' = [copy EXCEPT ![r] = [Unread EXCEPT !.obj = stored, !.entry = entry]]
  BY DEF Retire
<1>2. /\ run' \in [Runners -> Tasks] /\ run'[r].step = "retire"
      /\ \A q \in Runners : q # r => run'[q] = run[q]
  BY <1>1, Went DEF Well, Steps
<1>3. /\ copy' \in [Runners -> Views] /\ copy'[r].obj = stored
      /\ \A q \in Runners : q # r => copy'[q] = copy[q]
  <2>1. [Unread EXCEPT !.obj = stored, !.entry = entry] \in Views
    BY ViewTypes, PanelTyped, Unseen DEF Times
  <2> QED
    BY <1>1, <2>1, Unseen DEF Runners, Views
<1>4. entry' \in Entries
  BY PanelTyped DEF Retire, Entries
<1>5. Well'
  BY <1>1, <1>2, <1>3, <1>4, RetirementKeeps, PanelTyped DEF ObjectiveWell
<1>6. PanelInv'
  BY DEF PanelInv
<1>7. WellFormed(stored)
  BY DEF Others, HolderInv
<1>8. CASE r = Lock
  <2>1. /\ run'[Lock].step = "retire" /\ run'[Removal] = run[Removal] /\ run[Lock].step = "idle"
        /\ copy'[Lock].obj = stored /\ copy'[Removal] = copy[Removal]
    BY <1>2, <1>3, <1>8 DEF Runners, At
  <2>2. HolderInv'
    BY <1>1, <1>7, <2>1 DEF Others, HolderInv, AtAny, At, Ticking, Founding, Runners
  <2>3. CreationInv'
    BY <1>1, <2>1 DEF Others, CreationInv, AtAny, At, Founding, Spent, Upright, Runners
  <2>4. OnceInv'
    BY <1>1, <2>1 DEF Others, OnceInv, AtAny, At, Founding, Posted
  <2>5. PingInv'
    BY <1>1, <2>1 DEF Others, PingInv, AtAny, At, Pinged
  <2> QED
    BY <1>5, <1>6, <2>2, <2>3, <2>4, <2>5 DEF Good, Others
<1>9. CASE r = Removal
  <2>1. /\ run'[Removal].step = "retire" /\ run'[Lock] = run[Lock]
        /\ copy'[Removal].obj = stored /\ copy'[Lock] = copy[Lock]
    BY <1>2, <1>3, <1>9 DEF Runners
  <2>2. HolderInv'
    BY <1>1, <1>7, <1>9, <2>1 DEF Others, HolderInv, AtAny, At, Ticking, Founding, Runners, WellFormed
  <2>3. CreationInv'
    BY <1>1, <2>1 DEF Others, CreationInv, AtAny, At, Founding, Spent, Upright, Runners
  <2>4. OnceInv'
    BY <1>1, <2>1 DEF Others, OnceInv, AtAny, At, Founding, Posted
  <2>5. PingInv'
    BY <1>1, <2>1 DEF Others, PingInv, AtAny, At, Pinged, Upright
  <2> QED
    BY <1>5, <1>6, <2>2, <2>3, <2>4, <2>5 DEF Good, Others
<1> QED
  BY <1>8, <1>9 DEF Runners

LEMMA RemoveConfigurationStep ==
  ASSUME Well, Others, PanelInv, RemoveConfiguration
  PROVE  Good
<1>1. CASE entry.exists
  BY <1>1, RetireStep DEF RemoveConfiguration, Runners
<1>2. CASE ~entry.exists
  <2>1. /\ UNCHANGED <<panelVars, run, faults, wizard, clock, objective>>
        /\ configured' = FALSE
    BY <1>2 DEF RemoveConfiguration
  <2>2. Well'
    BY <2>1, ObjectiveTyped, PanelTyped, RetirementKeeps DEF ObjectiveWell
  <2>3. PanelInv'
    BY <2>1 DEF PanelInv
  <2>4. HolderInv'
    BY <2>1 DEF Others, HolderInv, AtAny, At
  <2>5. CreationInv'
    BY <2>1 DEF Others, CreationInv, AtAny, At, Spent, Upright
  <2>6. OnceInv'
    BY <2>1 DEF Others, OnceInv, AtAny, At, Posted
  <2>7. PingInv'
    BY <2>1 DEF Others, PingInv, AtAny, At, Pinged, Upright
  <2> QED
    BY <2>2, <2>3, <2>4, <2>5, <2>6, <2>7 DEF Good, Others
<1> QED
  BY <1>1, <1>2

LEMMA RetireLockedStep ==
  ASSUME Well, Others, PanelInv, RetireLocked
  PROVE  Good
<1>1. ~configured /\ configured' = FALSE
  BY ObjectiveTyped, PanelTyped DEF RetireLocked, ToRetire, Active, Others, HolderInv
<1> QED
  BY <1>1, RetireStep, PanelAssumption DEF RetireLocked, Free, Runners

LEMMA RetiredStep ==
  ASSUME Well, Others, PanelInv, NEW r \in Runners, Retired(r)
  PROVE  Good
<1> USE ObjectiveTyped
<1> DEFINE obj == copy[r].obj
<1>1. /\ run[r].step = "retire" /\ Stop(r)
      /\ copy' = [copy EXCEPT ![r] = Unread]
      /\ NoFault \/ Fault
      /\ UNCHANGED <<configured, pub, replaced, wizard, clock, records, count, ghosts>>
  BY DEF Retired, At
<1>2. /\ ~configured /\ ~configured' /\ obj \in Objective /\ WellFormed(obj)
      /\ r = Lock \/ r = Removal
  BY <1>1 DEF Others, HolderInv, At, Runners, Views
<1>3. \E d \in SweptInPart(obj) \union {Swept(obj)} :
         discord' = d \/ discord' = [d EXCEPT !.post = IF obj.in /\ @ = "marked" THEN "clean" ELSE @]
  BY DEF Retired
<1>4. PICK d \in SweptInPart(obj) \union {Swept(obj)} :
         discord' = d \/ discord' = [d EXCEPT !.post = IF obj.in /\ @ = "marked" THEN "clean" ELSE @]
  BY <1>3
<1>5. Less(obj) /\ Posted' = Posted
  <2>1. d = [d EXCEPT !.post = discord.post] /\ discord.post \in Things /\ d.post = discord.post
    BY <1>2, SweptKeepsPost, SweptPost DEF Messages
  <2>2. PICK post \in Things : /\ discord' = [d EXCEPT !.post = post]
                               /\ post = discord.post \/ (post = "clean" /\ discord.post = "marked")
    <3>1. CASE discord' = d
      BY <2>1, <3>1
    <3>2. CASE discord' = [d EXCEPT !.post = IF obj.in /\ @ = "marked" THEN "clean" ELSE @]
      <4>1. PICK post : post = IF obj.in /\ discord.post = "marked" THEN "clean" ELSE discord.post
        OBVIOUS
      <4>2. discord' = [d EXCEPT !.post = post]
        BY <2>1, <3>2, <4>1, Zenon
      <4>3. post \in Things
        BY <2>1, <4>1 DEF Things
      <4> QED
        BY <4>1, <4>2, <4>3
    <3> QED
      BY <1>4, <3>1, <3>2
  <2>3. Less(obj) /\ discord'.post = post
    BY <1>2, <2>2, SweptTypes
  <2> QED
    BY <2>2, <2>3 DEF Posted
<1>6. /\ stored' \in Objective /\ WellFormed(stored') /\ (stored'.in => stored' = stored)
  <2>1. Missing \in Objective /\ WellFormed(Missing) /\ ~Missing.in
    BY DEF Missing, Objective, WellFormed
  <2>2. WellFormed(stored)
    BY DEF Others, HolderInv
  <2>3. stored' = Missing \/ stored' = stored
    BY DEF Retired
  <2> HIDE DEF WellFormed, Missing
  <2> QED
    BY <2>1, <2>2, <2>3
<1>7. entry' \in Entries /\ panels' \in [Panel -> States]
  <2>1. entry' = NoEntry \/ entry' = entry \/ entry' = [entry EXCEPT !.disabled = TRUE]
    BY DEF Retired
  <2>2. panels' = panels \/ panels' = InertPanel(copy[r].entry.panel)
    BY DEF Retired
  <2>3. entry' \in Entries
    <3>1. NoEntry \in Entries
      BY DEF NoEntry, Entries
    <3> QED
      BY <2>1, <3>1, PanelTyped, EntryTypes
  <2>4. InertPanel(copy[r].entry.panel) \in [Panel -> States]
    <3>1. PICK p : p = copy[r].entry.panel
      OBVIOUS
    <3>2. \A f \in [Panel -> States], s \in States : [f EXCEPT ![p] = s] \in [Panel -> States]
      OBVIOUS
    <3>3. CASE p \in Panel
      BY <3>1, <3>3, PanelTyped DEF InertPanel, States
    <3>4. CASE p \notin Panel
      <4>1. DOMAIN panels = Panel
        BY PanelTyped
      <4>2. InertPanel(copy[r].entry.panel) = panels
        BY <3>1, <3>4, <4>1, PanelTyped DEF InertPanel
      <4> QED
        BY <4>2, PanelTyped
    <3> QED
      BY <3>3, <3>4
  <2> QED
    BY <2>2, <2>3, <2>4, PanelTyped
<1>8. /\ run' \in [Runners -> Tasks] /\ run'[r].step = "idle"
      /\ \A q \in Runners : q # r => run'[q] = run[q]
      /\ copy' \in [Runners -> Views] /\ copy'[r] = Unread
      /\ \A q \in Runners : q # r => copy'[q] = copy[q]
  BY <1>1, Stopped, Unseen DEF Well
<1>9. obj.role => creation.tried
  BY <1>2 DEF Others, CreationInv, WellFormed, Missing
<1>10. At(Lock, "ping") \/ At(Lock, "call") => ~obj.ping
  BY <1>1, <1>2 DEF Others, HolderInv, AtAny, At
<1>11. /\ Upright' => Upright
       /\ Pinged' => Pinged
       /\ obj.ping \/ Pinged' = Pinged
       /\ obj.role \/ discord'.role = discord.role
  BY <1>2, <1>5 DEF Less, Upright, Pinged
<1> HIDE DEF obj
<1>12. Well'
  BY <1>1, <1>2, <1>5, <1>6, <1>7, <1>8, RetirementKeeps, Faults, PanelTyped DEF ObjectiveWell, Well, Less
<1>13. PanelInv'
  BY <1>2 DEF PanelInv
<1>14. HolderInv'
  BY <1>1, <1>2, <1>6, <1>8, Unseen DEF Others, HolderInv, AtAny, At, Ticking, Runners
<1>15. CreationInv'
  BY <1>1, <1>2, <1>6, <1>8, <1>11, Unseen DEF Others, CreationInv, AtAny, At, Founding, Spent, Runners
<1>16. OnceInv'
  BY <1>1, <1>2, <1>5, <1>8, <1>9, <1>11 DEF Others, OnceInv, AtAny, At, Founding, Runners
<1>17. PingInv'
  BY <1>1, <1>2, <1>8, <1>10, <1>11 DEF Others, PingInv, AtAny, At, Runners
<1> QED
  BY <1>12, <1>13, <1>14, <1>15, <1>16, <1>17 DEF Good, Others

LEMMA WizardStep ==
  ASSUME Well, Others, PanelInv, Wizard
  PROVE  Good
<1>1. /\ UNCHANGED <<configured, panelVars, run, faults, clock, objective>>
      /\ OpenWizard \/ WizardNext
  BY DEF Wizard
<1>2. WizardTypeOK'
  BY <1>1, WizardTypes DEF Well, TypeOK
<1>3. Well'
  BY <1>1, <1>2 DEF Well, Kept, TypeOK, PanelTypeOK
<1>4. PanelInv'
  BY <1>1, PanelFrame
<1>5. HolderInv'
  BY <1>1 DEF Others, HolderInv, AtAny, At
<1>6. CreationInv'
  BY <1>1 DEF Others, CreationInv, AtAny, At, Spent, Upright
<1>7. OnceInv'
  BY <1>1 DEF Others, OnceInv, AtAny, At, Posted
<1>8. PingInv'
  BY <1>1 DEF Others, PingInv, AtAny, At, Pinged, Upright, Early
<1> QED
  BY <1>3, <1>4, <1>5, <1>6, <1>7, <1>8 DEF Good, Others

LEMMA ConfirmStep ==
  ASSUME Well, Others, PanelInv, Confirm
  PROVE  Good
<1> USE ObjectiveTyped
<1>1. /\ UNCHANGED <<configured, panelVars, run, faults, clock, notice, stored, copy, made, ghosts>>
      /\ Submit
      /\ creation' = [creation EXCEPT !.panel = entry.panel]
  BY DEF Confirm
<1>2. WizardTypeOK'
  BY <1>1, WizardTypes DEF Well, TypeOK
<1>4. /\ creation' \in Creations /\ creation'.status = creation.status
      /\ creation'.tried = creation.tried /\ creation'.role = creation.role
  BY <1>1, PanelTyped DEF Creations, Entries
<1>5. Well'
  <2>1. TypeOK'
    BY <1>1, <1>2, <1>4 DEF Well, TypeOK, PanelTypeOK, Creations
  <2>2. Kept'
    BY <1>1 DEF Well, Kept
  <2> QED
    BY <2>1, <2>2 DEF Well
<1>6. PanelInv'
  BY <1>1, PanelFrame
<1>7. HolderInv'
  BY <1>1 DEF Others, HolderInv, AtAny, At
<1>8. CreationInv'
  BY <1>1, <1>4 DEF Others, CreationInv, AtAny, At, Spent, Upright
<1>9. OnceInv'
  BY <1>1, <1>4 DEF Others, OnceInv, AtAny, At, Posted
<1>10. PingInv'
  BY <1>1 DEF Others, PingInv, AtAny, At, Pinged, Upright, Early
<1> QED
  BY <1>5, <1>6, <1>7, <1>8, <1>9, <1>10 DEF Good, Others

\* The view is read while no record has been made of it, and what was validated
\* is only lost by taking it back.
LEMMA ClicksKeep ==
  ASSUME WizardTypeOK, WizardNext, UNCHANGED <<run, creation>>, WizardInv
  PROVE  WizardInv'
<1> DEFINE Shows == [step : Nat, type : Types \union {"none"}]
           W == [step : Nat, type : Types \union {"none"}, set : SUBSET Fields,
                 modals : SUBSET Typed, shown : Shows,
                 outcome : {"none", "confirmed", "submitted", "closed"}, late : BOOLEAN]
<1>1. wizard \in W
  BY DEF WizardTypeOK
<1>2. ASSUME wizard'.outcome = wizard.outcome, wizard'.type = wizard.type \/ wizard'.late,
             wizard'.type \in Types \union {"none"}, wizard.type \in Types => wizard'.type \in Types,
             wizard.set \subseteq wizard'.set \/ wizard'.late \/ ~Confirmed,
             wizard.late => wizard'.late
      PROVE  WizardInv'
  BY <1>2 DEF WizardInv, Confirmed, Complete, Needed, At, Working, WizardNext
<1>3. CASE Rendered
  BY <1>1, <1>2, <1>3 DEF Rendered
<1>4. CASE ChooseType
  <2>1. CASE Confirmed
    BY <1>1, <1>2, <1>4, <2>1 DEF ChooseType
  <2>2. CASE ~Confirmed
    <3>1. wizard'.outcome = wizard.outcome
      BY <1>1, <1>4 DEF ChooseType
    <3> QED
      BY <2>2, <3>1 DEF WizardInv, Confirmed, At, Working, WizardNext
  <2> QED
    BY <2>1, <2>2
<1>5. CASE Select \/ OpenModal \/ SaveAndContinue \/ Back
  BY <1>1, <1>2, <1>5 DEF Select, OpenModal, SaveAndContinue, Back
<1>6. CASE SendModal
  <2>0. PICK f \in wizard.modals : \E set \in {wizard.set \union {f}, wizard.set \ {f}} :
            wizard' = [wizard EXCEPT !.set = set, !.modals = wizard.modals \ {f},
                                     !.late = wizard.late \/ (Confirmed /\ f \notin set)]
    BY <1>6 DEF SendModal
  <2>1. PICK set \in {wizard.set \union {f}, wizard.set \ {f}} :
            wizard' = [wizard EXCEPT !.set = set, !.modals = wizard.modals \ {f},
                                     !.late = wizard.late \/ (Confirmed /\ f \notin set)]
    BY <2>0
  <2>2. /\ wizard'.outcome = wizard.outcome /\ wizard'.type = wizard.type /\ wizard'.set = set
        /\ wizard'.late = (wizard.late \/ (Confirmed /\ f \notin set))
    BY <1>1, <2>1
  <2>3. wizard.set \subseteq set \/ f \notin set
    BY <2>1
  <2> QED
    BY <1>1, <1>2, <2>2, <2>3
<1>7. CASE CloseWizard
  <2>1. wizard'.outcome = "closed" /\ ~Confirmed /\ wizard'.step = 0
    BY <1>7 DEF CloseWizard, Leave, NoWizard
  <2> QED
    BY <2>1 DEF WizardInv, Confirmed, At, Working
<1> QED
  BY <1>3, <1>4, <1>5, <1>6, <1>7 DEF WizardNext

\* What a step of the lock holder, of the removal or of a moderator leaves alone.
Apart ==
    /\ wizard' = wizard
    /\ creation' = creation \/ creation.status # "none"
    /\ run'[Lock].step # "payload" \/ run'[Lock] = run[Lock]

LEMMA ApartKeeps ==
  ASSUME WizardInv, Apart
  PROVE  WizardInv'
BY DEF WizardInv, Apart, Confirmed, Complete, At, Working

LEMMA NoPayload ==
  ASSUME Kept, NEW r \in Runners,
         \/ \E t \in Steps \ {"payload"} : Go(r, t)
         \/ \E t \in Steps \ {"payload"} : \E f : Begin(Lock, t, f)
         \/ Stop(r) \/ Crash \/ run' = run
  PROVE  run'[Lock].step # "payload" \/ run'[Lock] = run[Lock]
BY PanelAssumption DEF Kept, Go, Begin, Stop, Crash, Idle, Runners, Tasks, Steps

\* A record that is not there yet is only made by the wizard.
LEMMA Recorded ==
  ASSUME Others,
         \/ AtAny(Founding) \/ At(Lock, "takeback")
         \/ creation.status \in Creating \union {"compensation_pending"}
  PROVE  creation.status # "none"
BY DEF Others, CreationInv, Creating

LEMMA CreationApart ==
  ASSUME Well, Others,
         \/ ResumeCreation \/ CheckCreation \/ EnsureRole \/ RoleCrash \/ NameRole
         \/ PostObjective \/ PostLost \/ PostCrash \/ TidyCreation \/ TakeBack
  PROVE  Apart
<1> USE Recorded DEF Apart, Founding, AtAny, At, Steps, Runners
<1>0. Kept /\ {Lock, Removal} \subseteq Runners
  BY DEF Well
<1>1. CASE ResumeCreation
  BY <1>0, <1>1, NoPayload DEF ResumeCreation
<1>2. CASE CheckCreation
  BY <1>0, <1>2, NoPayload DEF CheckCreation
<1>3. CASE EnsureRole
  BY <1>0, <1>3, NoPayload DEF EnsureRole, WithRole
<1>4. CASE RoleCrash \/ NameRole
  BY <1>0, <1>4, NoPayload DEF RoleCrash, NameRole
<1>5. CASE PostObjective
  BY <1>0, <1>5, NoPayload DEF PostObjective
<1>6. CASE PostLost \/ PostCrash
  BY <1>0, <1>6, NoPayload DEF PostLost, PostCrash
<1>7. CASE TidyCreation \/ TakeBack
  BY <1>0, <1>7, NoPayload DEF TidyCreation, TakeBack
<1> QED
  BY <1>1, <1>2, <1>3, <1>4, <1>5, <1>6, <1>7

LEMMA OthersApart ==
  ASSUME Well, Others,
         \/ SweepCompleted \/ SweepNames \/ SaveNames
         \/ Advance \/ Tick \/ PreparePing \/ SendPing \/ PingLost \/ PingCrash
         \/ Popped \/ Expire \/ TickCrash
         \/ ResumeNotice \/ NotifyMe \/ RemoveObjective \/ Moderate
         \/ RemoveConfiguration \/ RetireLocked \/ (\E r \in {Lock, Removal} : Retired(r)) \/ Restart
  PROVE  Apart
<1> USE DEF Apart, Steps, Ticking, Founding, Publishing, Runners
<1>0. Kept /\ {Lock, Removal} \subseteq Runners
  BY DEF Well
<1>1. CASE SweepCompleted \/ Advance \/ NotifyMe \/ RemoveObjective \/ Moderate
  BY <1>1 DEF SweepCompleted, Advance, NotifyMe, RemoveObjective, Moderate
<1>2. CASE SweepNames \/ SaveNames \/ Tick
  BY <1>0, <1>2, NoPayload DEF SweepNames, SaveNames, Tick
<1>3. CASE PreparePing \/ SendPing \/ PingLost \/ PingCrash
  BY <1>0, <1>3, NoPayload DEF PreparePing, SendPing, PingLost, PingCrash, EndTick
<1>4. CASE Popped
  BY <1>0, <1>4, NoPayload DEF Popped, EndTick
<1>5. CASE Expire \/ TickCrash
  BY <1>0, <1>5, NoPayload DEF Expire, EndTick, TickCrash
<1>6. CASE ResumeNotice
  BY <1>0, <1>6, NoPayload DEF ResumeNotice
<1>7. CASE RemoveConfiguration \/ RetireLocked
  BY <1>0, <1>7, NoPayload DEF RemoveConfiguration, RetireLocked, Retire
<1>8. CASE (\E r \in {Lock, Removal} : Retired(r)) \/ Restart
  BY <1>0, <1>8, NoPayload DEF Retired, Restart
<1> QED
  BY <1>1, <1>2, <1>3, <1>4, <1>5, <1>6, <1>7, <1>8

LEMMA WizardInvStep ==
  ASSUME Well, Others, WizardInv,
         \/ Wizard \/ Confirm \/ BeginCreation \/ TakeLock
  PROVE  WizardInv'
<1>1. CASE Wizard
  <2>1. CASE OpenWizard
    <3>1. wizard.outcome = "none" /\ wizard'.outcome = "none" /\ UNCHANGED <<run, creation>>
      BY <1>1, <2>1 DEF Wizard, OpenWizard, NoWizard
    <3> QED
      BY <3>1 DEF WizardInv, Confirmed, At, Working
  <2>2. CASE WizardNext
    BY <1>1, <2>2, ClicksKeep DEF Wizard, Well, TypeOK
  <2> QED
    BY <1>1, <2>1, <2>2 DEF Wizard
<1>2. CASE Confirm
  <2>1. /\ UNCHANGED run /\ creation' = [creation EXCEPT !.panel = entry.panel]
        /\ Submit /\ creation \in Creations
    BY <1>2, ObjectiveTyped DEF Confirm
  <2>2. creation'.status = creation.status
    BY <2>1 DEF Creations
  <2>3. wizard.outcome \in {"none", "confirmed"}
    BY <2>1 DEF Submit, Working, Well, TypeOK, WizardTypeOK, Confirmed, WizardInv
  <2> QED
    BY <2>1, <2>2, <2>3 DEF Submit, WizardInv, Working, Confirmed, FinalIsValid, Complete, Needed, At, Well, TypeOK, WizardTypeOK
<1>3. CASE BeginCreation
  <2>1. wizard'.outcome \in {"submitted", "closed"} /\ wizard'.step = 0
    BY <1>3 DEF BeginCreation, Leave, NoWizard
  <2>2. run'[Lock].step # "payload"
    BY <1>3, PanelAssumption DEF BeginCreation, Begin, Stop, Idle, Well, Kept, Runners, Tasks
  <2> QED
    BY <2>1, <2>2 DEF WizardInv, Confirmed, At, Working
<1>4. CASE TakeLock
  BY <1>4 DEF TakeLock, WizardInv, Confirmed, Complete, At, Working
<1> QED
  BY <1>1, <1>2, <1>3, <1>4

-----------------------------------------------------------------------------
(* The theorems                                                            *)

LEMMA InvParts == Inv <=> Well /\ Others /\ PanelInv /\ WizardInv
BY DEF Inv, Well, Others

LEMMA InvInit == Init => Inv
<1> SUFFICES ASSUME Init PROVE Inv
  OBVIOUS
<1>1. TypeOK
  <2>1. PanelTypeOK
    <3>1. /\ configured \in BOOLEAN /\ replaced \in BOOLEAN
          /\ pub \in Pubs /\ panels \in [Panel -> States]
      BY PubTypes DEF Init, PanelInit, States
    <3>2. entry \in [exists : BOOLEAN, disabled : BOOLEAN, panel : Panel \union {0}]
      BY DEF Init, PanelInit, NoEntry
    <3>3. faults \in 0 .. MaxFaults
      BY DEF Init, PanelInit
    <3> QED
      BY <3>1, <3>2, <3>3 DEF PanelTypeOK, Pubs, States
  <2>2. WizardTypeOK
    BY StepCount DEF Init, WizardInit, WizardTypeOK, NoWizard
  <2>3. creation \in [status : Creating \union Settled \union {"none", "compensation_pending"},
             panel : Panel \union {0}, tried : BOOLEAN, role : BOOLEAN, msg : BOOLEAN]
    BY DEF Init, NoCreation
  <2> QED
    BY <2>1, <2>2, <2>3 DEF Init, TypeOK, Times, NoNotice, Missing, Objective
<1>2. Kept
  BY Unseen DEF Init, PanelInit, Kept, Runners, Tasks, Idle, Steps, Things, Roles
<1>3. HolderInv
  BY Unseen DEF Init, PanelInit, HolderInv, Runners, Idle, NoEntry, AtAny, At, Ticking, Founding,
     WellFormed, Missing
<1>4. PanelInv
  BY DEF Init, PanelInit, PanelInv, NoEntry, NoPub, Open, Unfinished, Publisher, AtAny, At, Idle,
     ReplacedPanelIsRetired
<1>5. CreationInv
  BY Unseen DEF Init, PanelInit, CreationInv, Runners, Idle, AtAny, At, Founding, NoCreation, Missing, Spent
<1>6. OnceInv
  BY DEF Init, PanelInit, OnceInv, Idle, AtAny, At, Founding, NoCreation, Creating
<1>7. PingInv
  BY DEF Init, PanelInit, PingInv, Idle, AtAny, At, NoNotice, Pinged, Missing
<1>8. WizardInv
  BY DEF Init, PanelInit, WizardInit, WizardInv, NoWizard, NoCreation, Idle, Confirmed, At, Working
<1> QED
  BY <1>1, <1>2, <1>3, <1>4, <1>5, <1>6, <1>7, <1>8 DEF Inv

LEMMA InvStep ==
  ASSUME Inv, [Next]_vars
  PROVE  Inv'
<1>1. Well /\ Others /\ PanelInv /\ WizardInv
  BY InvParts
<1>2. CASE Wizard \/ Confirm \/ BeginCreation \/ TakeLock
  <2>1. Good
    BY <1>1, <1>2, WizardStep, ConfirmStep, BeginCreationStep, TakeLockStep
  <2>2. WizardInv'
    BY <1>1, <1>2, WizardInvStep
  <2> QED
    BY <2>1, <2>2 DEF Good, Inv, Well, Others
<1>3. CASE Panels
  <2>1. Well' /\ Beside
    BY <1>1, <1>3, PanelTypes, PanelWellKeeps
  <2>2. Others'
    BY <1>1, <2>1, BesideKeeps
  <2>3. PanelInv'
    BY <1>1, <1>3, PanelStep DEF Others
  <2>4. WizardInv'
    BY <1>1, <2>1, ApartKeeps DEF Apart, Beside, Publishing
  <2> QED
    BY <2>1, <2>2, <2>3, <2>4 DEF Inv, Well, Others
<1>4. CASE \/ ResumeCreation \/ CheckCreation \/ EnsureRole \/ RoleCrash \/ NameRole
           \/ PostObjective \/ PostLost \/ PostCrash \/ TidyCreation \/ TakeBack
  <2>1. Good
    BY <1>1, <1>4, ResumeCreationStep, CheckCreationStep, EnsureRoleStep, RoleCrashStep,
       NameRoleStep, PostObjectiveStep, PostLostStep, PostCrashStep, TidyCreationStep, TakeBackStep
  <2>2. WizardInv'
    BY <1>1, <1>4, CreationApart, ApartKeeps
  <2> QED
    BY <2>1, <2>2 DEF Good, Inv, Well, Others
<1>5. CASE \/ SweepCompleted \/ SweepNames \/ SaveNames
           \/ Advance \/ Tick \/ PreparePing \/ SendPing \/ PingLost \/ PingCrash
           \/ Popped \/ Expire \/ TickCrash
  <2>1. Good
    BY <1>1, <1>5, SweepCompletedStep, SweepNamesStep, SaveNamesStep, AdvanceStep, TickStep, PreparePingStep,
       SendPingStep, PingLostStep, PingCrashStep, PoppedStep, ExpireStep, TickCrashStep
  <2>2. WizardInv'
    BY <1>1, <1>5, OthersApart, ApartKeeps
  <2> QED
    BY <2>1, <2>2 DEF Good, Inv, Well, Others
<1>6. CASE \/ ResumeNotice \/ NotifyMe \/ RemoveObjective \/ Moderate
           \/ RemoveConfiguration \/ RetireLocked \/ (\E r \in {Lock, Removal} : Retired(r)) \/ Restart
  <2>1. Good
    BY <1>1, <1>6, ResumeNoticeStep, NotifyMeStep, RemoveObjectiveStep, ModerateStep, RemoveConfigurationStep,
       RetireLockedStep, RetiredStep, RestartStep DEF Runners
  <2>2. WizardInv'
    BY <1>1, <1>6, OthersApart, ApartKeeps
  <2> QED
    BY <2>1, <2>2 DEF Good, Inv, Well, Others
<1>7. CASE UNCHANGED vars
  <2>1. Good
    <3>1. UNCHANGED <<configured, panelVars, run, faults, wizard, clock, objective>>
      BY <1>7 DEF vars
    <3>2. Well'
      BY <1>1, <3>1, ObjectiveTyped, ObjectiveWellKeeps DEF ObjectiveWell
    <3>3. PanelInv'
      BY <1>1, <3>1, PanelFrame
    <3>4. HolderInv'
      BY <1>1, <3>1 DEF Others, HolderInv, AtAny, At
    <3>5. CreationInv'
      BY <1>1, <3>1 DEF Others, CreationInv, AtAny, At, Spent, Upright
    <3>6. OnceInv'
      BY <1>1, <3>1 DEF Others, OnceInv, AtAny, At, Posted
    <3>7. PingInv'
      BY <1>1, <3>1 DEF Others, PingInv, AtAny, At, Pinged, Upright, Early
    <3> QED
      BY <3>2, <3>3, <3>4, <3>5, <3>6, <3>7 DEF Good, Others
  <2>2. WizardInv'
    BY <1>1, <1>7, ApartKeeps DEF Apart, vars
  <2> QED
    BY <2>1, <2>2 DEF Good, Inv, Well, Others
<1> QED
  BY <1>2, <1>3, <1>4, <1>5, <1>6, <1>7 DEF Next, Discord

THEOREM Invariant == Spec => []Inv
<1>1. Init => Inv
  BY InvInit
<1>2. Inv /\ [Next]_vars => Inv'
  BY InvStep
<1> QED
  BY <1>1, <1>2, PTL DEF Spec

(* The panel in force always has working buttons, and a message that was replaced
   keeps its buttons only while a publication still has to retire it, whatever
   publication, editor, clean-up, crash or removal of the setup comes between. *)
THEOREM PanelsAgreeAlways == Spec => []PanelsAgree
<1>1. Inv => PanelsAgree
  <2> SUFFICES ASSUME Inv PROVE PanelsAgree
    OBVIOUS
  <2>1. TypeOK /\ PanelInv
    BY DEF Inv
  <2>2. PanelInForceIsLive
    BY <2>1 DEF PanelInv, PanelInForceIsLive, Active
  <2>3. ReplacedPanelIsRetired
    BY <2>1 DEF PanelInv, ReplacedPanelIsRetired
  <2> QED
    BY <2>1, <2>2, <2>3 DEF PanelsAgree
<1> QED
  BY <1>1, Invariant, PTL

(* The view that an objective is made from is complete, unless a click after Confirm took
   something back, and the objective is announced once: one message and
   one role as long as no moderator interferes, and never a second ping, although
   every call may be lost and the process may die between any two of them. *)
THEOREM AnnouncedOnceAlways == Spec => []AnnouncedOnce
<1>1. Inv => AnnouncedOnce
  BY DEF Inv, WizardInv, OnceInv, PingInv, AnnouncedOnce, MadeFromCompleteView, MadeOnce
<1> QED
  BY <1>1, Invariant, PTL

(* An objective that was removed does not come back, and once the work on it is done
   neither its ping nor the role that was recorded for it is left. *)
THEOREM RemovedForGoodAlways == Spec => []RemovedForGood
<1>1. Inv => RemovedForGood
  <2> SUFFICES ASSUME Inv PROVE RemovedForGood
    OBVIOUS
  <2>1. Kept /\ CreationInv /\ PingInv /\ TypeOK
    BY DEF Inv
  <2>2. RemovedStaysRemoved
    BY <2>1 DEF CreationInv, RemovedStaysRemoved
  <2>3. NothingLeftBehind
    <3> SUFFICES ASSUME configured, ~tampered, ~forgot, ~stored.in, creation.status \in Settled,
                        notice.status \notin {"pending", "sent"}
                 PROVE  ~Pinged /\ (creation.role => ~Upright)
      BY DEF NothingLeftBehind
    <3>1. Spent
      BY <2>1 DEF CreationInv, Settled
    <3>2. ~Pinged
      BY <2>1 DEF PingInv, TypeOK, Settled, Kept
    <3> QED
      BY <3>1, <3>2 DEF Spent
  <2> QED
    BY <2>2, <2>3 DEF RemovedForGood
<1> QED
  BY <1>1, Invariant, PTL

-----------------------------------------------------------------------------
(* The role of a moderator                                                 *)

\* A clean-up leaves a role that bears another name.
LEMMA ForeignSwept ==
  ASSUME Well, discord.role = "foreign", NEW obj, NEW d \in SweptInPart(obj) \union {Swept(obj)}
  PROVE  d.role = "foreign" /\ \A x : [d EXCEPT !.post = x].role = "foreign"
<1>1. discord \in Messages /\ ~Upright
  BY ObjectiveTyped DEF Upright
<1>2. Swept(obj).role = "foreign"
  BY <1>1 DEF Swept, Messages
<1>3. \A x : [discord EXCEPT !.ping = x].role = "foreign"
  BY <1>1 DEF Messages
<1>4. [discord EXCEPT !.role = Swept(obj).role].role = "foreign"
  BY <1>1, <1>2 DEF Messages
<1>5. d.role = "foreign"
  BY <1>2, <1>3, <1>4 DEF SweptInPart
<1>6. "role" \in DOMAIN d
  <2>1. "role" \in DOMAIN discord
    BY <1>1 DEF Messages
  <2>2. \A x : "role" \in DOMAIN [discord EXCEPT !.ping = x] /\ "role" \in DOMAIN [discord EXCEPT !.role = x]
    BY <2>1
  <2>3. "role" \in DOMAIN Swept(obj)
    BY <2>1 DEF Swept
  <2> QED
    BY <2>1, <2>2, <2>3 DEF SweptInPart
<1>7. \A x : [d EXCEPT !.post = x].role = d.role
  BY <1>6
<1> QED
  BY <1>5, <1>7

LEMMA ForeignStep ==
  ASSUME Inv, Next, discord.role = "foreign"
  PROVE  discord'.role # "gone"
<1>1. Well /\ Others /\ discord \in Messages /\ ~Upright
  BY InvParts, ObjectiveTyped DEF Upright
<1>2. CASE \/ Wizard \/ Confirm \/ Panels \/ TakeLock \/ BeginCreation \/ ResumeCreation \/ CheckCreation
           \/ SweepNames \/ Advance \/ Tick \/ PreparePing
           \/ NotifyMe \/ RemoveConfiguration \/ RetireLocked \/ Restart
  <2>1. discord' = discord
    BY <1>2 DEF Wizard, Confirm, Panels, TakeLock, BeginCreation, ResumeCreation, CheckCreation, SweepNames, Advance,
       Tick, PreparePing, NotifyMe, RemoveConfiguration, RetireLocked, Retire, Restart
  <2> QED
    BY <2>1
<1>3. CASE EnsureRole \/ RoleCrash
  BY <1>1, <1>3, RoleMade DEF EnsureRole, RoleCrash
<1>4. CASE NameRole \/ SaveNames
  BY <1>1, <1>4 DEF NameRole, SaveNames, Renamed, Messages
<1>5. CASE PostObjective \/ PostLost \/ PostCrash
  BY <1>1, <1>5, PostTypes DEF PostObjective, PostLost, PostCrash
<1>6. CASE TidyCreation
  BY <1>1, <1>6 DEF TidyCreation, Messages
<1>7. CASE TakeBack
  <2>1. \A x : [discord EXCEPT !.post = x].role = "foreign"
    BY <1>1 DEF Messages
  <2>2. \A x : [discord EXCEPT !.role = IF Upright THEN "gone" ELSE @].role = "foreign"
               /\ [discord EXCEPT !.post = x, !.role = IF Upright THEN "gone" ELSE @].role = "foreign"
    BY <1>1 DEF Messages
  <2> QED
    BY <1>7, <2>1, <2>2 DEF TakeBack
<1>8. CASE SweepCompleted
  <2>1. \A x, y, z : discord' = [discord EXCEPT !.post = x, !.ping = y, !.role = z] => discord'.role = z
    BY <1>1 DEF Messages
  <2>2. \E x, y : discord' = [discord EXCEPT !.post = x, !.ping = y, !.role = "foreign"]
    BY <1>8, Zenon DEF SweepCompleted
  <2> QED
    BY <2>1, <2>2
<1>9. CASE SendPing \/ PingLost \/ PingCrash
  <2>1. At(Lock, "call") /\ (NewPing \/ discord' = discord)
    BY <1>9 DEF SendPing, PingLost, PingCrash
  <2> QED
    BY <1>1, <2>1, PingTypes
<1>10. CASE \/ Popped \/ Expire \/ TickCrash \/ RemoveObjective
            \/ (\E r \in {Lock, Removal} : Retired(r))
  <2>1. PICK obj : \E d \in SweptInPart(obj) \union {Swept(obj)} :
           discord' = d \/ \E x : discord' = [d EXCEPT !.post = x]
    <3>1. CASE Popped
      BY <3>1 DEF Popped
    <3>2. CASE Expire
      BY <3>2 DEF Expire
    <3>3. CASE TickCrash
      BY <3>3 DEF TickCrash
    <3>4. CASE RemoveObjective
      BY <3>4 DEF RemoveObjective
    <3>5. CASE \E r \in {Lock, Removal} : Retired(r)
      BY <3>5 DEF Retired
    <3> QED
      BY <1>10, <3>1, <3>2, <3>3, <3>4, <3>5
  <2> QED
    BY <1>1, <2>1, ForeignSwept
<1>11. CASE ResumeNotice
  BY <1>1, <1>11 DEF ResumeNotice, Messages
<1>12. CASE Moderate
  BY <1>1, <1>12 DEF Moderate, Messages
<1> QED
  BY <1>2, <1>3, <1>4, <1>5, <1>6, <1>7, <1>8, <1>9, <1>10, <1>11, <1>12 DEF Next, Discord

(* A role that a moderator renamed is never deleted, not by a clean-up, a compensation,
   an expiry or a retirement that goes by what it read before. *)
THEOREM ForeignRoleIsKeptAlways == Spec => ForeignRoleIsKept
<1>1. Inv /\ [Next]_vars => [discord.role = "foreign" => discord'.role # "gone"]_vars
  BY ForeignStep
<1> QED
  BY <1>1, Invariant, PTL DEF Spec, ForeignRoleIsKept
=============================================================================

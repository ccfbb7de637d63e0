---------------------------- MODULE ReactionProofs ----------------------------
(***************************************************************************)
(* Proofs about reaction roles.  First ReactionRoles: for every set of      *)
(* members, emojis and roles and every bound, the settled roles agree with  *)
(* the reactions, and a role a member had before it was mapped is not taken *)
(* from him.  Then ReactionPanels: for every number of publications,        *)
(* failures and overlapping commands, the stored panel and the messages     *)
(* agree.                                                                  *)
(*                                                                         *)
(* The idea of the first: what a member holds by an emoji is right, or an   *)
(* event of his waits whose newest says what is right (Due).  That is so    *)
(* of every emoji a running sweep has passed, and of all once it remembers  *)
(* the version.  The idea of the second: a role that is to be kept belongs  *)
(* to no event that counts, no list and no member the sweep has read.  The  *)
(* third starts at PublicationInv.                                          *)
(***************************************************************************)
EXTENDS ReactionRoles, ReactionPanels, FiniteSetTheorems, TLAPS

USE RolesAssumption, WizardAssumption

-----------------------------------------------------------------------------
(* The invariant                                                           *)

Event   == [member : Member, emoji : Emoji, add : BOOLEAN, msg : Nat \ {0}, old : BOOLEAN]
Mapping == [Emoji -> Role \union {None}]
Lists   == [Emoji -> (SUBSET Member) \union {NoList}]
Sweeps  == [todo : SUBSET Emoji, emoji : Emoji \union {None}, users : SUBSET Member,
            failed : BOOLEAN, msg : Nat, old : SUBSET (Member \X Emoji)]

Typed ==
    /\ msg \in Nat
    /\ mapping \in Mapping
    /\ tracked \in Lists
    /\ pending \in SUBSET Emoji
    /\ owed \in {"none", "refresh", "move"}
    /\ reacted \in SUBSET (Member \X Emoji)
    /\ queue \in Seq(Event)
    /\ holds \in SUBSET (Member \X Role)
    /\ kept \in SUBSET (Member \X Role)
    /\ cache \in [msg : Nat, mapping : Mapping]
    /\ lock \in {"none", "sweep", "editor"}
    /\ sweep \in Sweeps
    /\ edits \in 0 .. MaxEdits
    /\ missed \in BOOLEAN /\ late \in BOOLEAN
    /\ there \in BOOLEAN /\ orphaned \in BOOLEAN

\* The wizard never has an emoji or a role twice.
WizardInv ==
    /\ WizardTypeOK
    /\ \A i, j \in 1 .. Len(wizard.reactions) : i # j =>
          /\ wizard.reactions[i].emoji # wizard.reactions[j].emoji
          /\ wizard.reactions[i].role # wizard.reactions[j].role
    /\ \A i \in 1 .. Len(wizard.reactions) : wizard.reactions[i].role # None

\* Messages are numbered: an event or a remembered version is never of a later one.
Counted ==
    /\ msg + (IF owed = "move" THEN 1 ELSE 0) <= edits + 1
    /\ cache.msg <= msg
    /\ \A i \in 1 .. Len(queue) : queue[i].msg <= msg
    /\ msg = 0 => lock = "none" /\ owed = "none" /\ pending = {} /\ kept = {}

\* Only the holder of the lock is at work, and a sweep on what is not reconciled.
AtWork ==
    /\ lock # "sweep" => sweep = NoSweep
    /\ lock = "editor" => owed # "none"
    /\ pending # {} => owed # "none" \/ orphaned
    /\ lock = "sweep" => /\ cache # Version
                         /\ sweep.msg <= msg
                         /\ sweep.todo \subseteq Mapped
                         /\ sweep.emoji # None => sweep.emoji \in sweep.todo \ pending

\* The newest event of a member and an emoji says what the reaction is now; those
\* that a reset is to override are marked as old.
EventsTell ==
    /\ \A i \in 1 .. Len(queue) :
          queue[i].msg = msg /\ ~queue[i].old =>
             \/ queue[i].add <=> <<queue[i].member, queue[i].emoji>> \in reacted
             \/ \E j \in i + 1 .. Len(queue) :
                   /\ queue[j].msg = msg
                   /\ queue[j].member = queue[i].member /\ queue[j].emoji = queue[i].emoji
    /\ \A i \in 1 .. Len(queue) :
          queue[i].msg = msg /\ queue[i].emoji \in pending => queue[i].old

\* A role that is to be kept is held, and no event that counts, no list, and no
\* member the sweep has read, would take it away or list it.
KeptHeld == kept \subseteq holds

KeptEvents ==
    \A i \in 1 .. Len(queue) :
        queue[i].msg = msg /\ ~queue[i].old /\ queue[i].emoji \in Mapped =>
           <<queue[i].member, mapping[queue[i].emoji]>> \notin kept

KeptLists ==
    \A e \in Mapped, m \in Member :
        <<m, mapping[e]>> \in kept => tracked[e] # NoList /\ m \notin tracked[e]

KeptReacted ==
    \A e \in Mapped \ pending, m \in Member :
        <<m, e>> \in reacted => <<m, mapping[e]>> \notin kept

KeptUsers ==
    lock = "sweep" /\ sweep.emoji # None =>
        \A m \in sweep.users : <<m, mapping[sweep.emoji]>> \notin kept

KeptOld ==
    lock = "sweep" =>
        \A e \in Mapped \ pending, m \in Member :
            <<m, e>> \in sweep.old => <<m, mapping[e]>> \notin kept

Keeps == KeptHeld /\ KeptEvents /\ KeptLists /\ KeptReacted /\ KeptUsers /\ KeptOld

KeepsInv == ~late => Keeps

Waiting(m, e) ==
    \E i \in 1 .. Len(queue) :
        queue[i].msg = msg /\ queue[i].member = m /\ queue[i].emoji = e

\* Agree, of one member.
AgreeOf(m, e) ==
    /\ <<m, e>> \in reacted => <<m, mapping[e]>> \in holds
    /\ <<m, e>> \notin reacted /\ (tracked[e] = NoList \/ m \in tracked[e]) =>
          <<m, mapping[e]>> \notin holds

Due(m, e) == Waiting(m, e) \/ AgreeOf(m, e)

\* Of a version that is remembered, of what a sweep of the message has passed, and of
\* whom it has read, while no refresh is owed and the message is there.
CacheTrue ==
    msg # 0 /\ ~missed /\ cache = Version => \A e \in Governed \ pending, m \in Member : Due(m, e)

SweepTrue ==
    lock = "sweep" /\ ~sweep.failed /\ sweep.msg = msg =>
        \A e \in Governed \ sweep.todo, m \in Member : Due(m, e)

Read(m, e) == Waiting(m, e) \/ (m \in sweep.users <=> <<m, e>> \in reacted)

UsersTrue ==
    lock = "sweep" /\ sweep.emoji # None /\ sweep.msg = msg =>
        \A m \in Member : Read(m, sweep.emoji)

DueInv == owed = "none" /\ there /\ ~late => CacheTrue /\ SweepTrue /\ UsersTrue

Inv == /\ Typed /\ WizardInv /\ Counted /\ AtWork /\ OneEmojiPerRole
       /\ EventsTell /\ KeepsInv /\ DueInv

-----------------------------------------------------------------------------
(* The queue                                                               *)

LEMMA Elements ==
  ASSUME NEW S, NEW s \in Seq(S)
  PROVE  Len(s) \in Nat /\ DOMAIN s = 1 .. Len(s) /\ \A i \in 1 .. Len(s) : s[i] \in S
OBVIOUS

LEMMA Appended ==
  ASSUME queue \in Seq(Event), NEW ev \in Event, queue' = Append(queue, ev)
  PROVE  /\ queue' \in Seq(Event)
         /\ Len(queue') = Len(queue) + 1 /\ Len(queue) \in Nat
         /\ \A i \in 1 .. Len(queue) : queue'[i] = queue[i] /\ queue[i] \in Event
         /\ queue'[Len(queue) + 1] = ev
OBVIOUS

LEMMA Popped ==
  ASSUME queue \in Seq(Event), queue # <<>>, queue' = Tail(queue)
  PROVE  /\ queue' \in Seq(Event)
         /\ Len(queue') = Len(queue) - 1 /\ Len(queue) \in Nat \ {0}
         /\ \A i \in 1 .. Len(queue) - 1 : queue'[i] = queue[i + 1]
         /\ Head(queue) = queue[1] /\ Head(queue) \in Event
OBVIOUS

LEMMA Marked ==
  ASSUME queue \in Seq(Event), NEW changed \in SUBSET Emoji,
         queue' = [i \in DOMAIN queue |->
                     [queue[i] EXCEPT !.old = @ \/ queue[i].emoji \in changed]]
  PROVE  /\ queue' \in Seq(Event)
         /\ Len(queue') = Len(queue) /\ Len(queue) \in Nat
         /\ \A i \in 1 .. Len(queue) :
               /\ queue'[i].msg = queue[i].msg /\ queue'[i].add = queue[i].add
               /\ queue'[i].member = queue[i].member /\ queue'[i].emoji = queue[i].emoji
               /\ queue'[i].old <=> queue[i].old \/ queue[i].emoji \in changed
<1>1. \A i \in 1 .. Len(queue) : queue[i] \in Event
  OBVIOUS
<1>2. \A i \in 1 .. Len(queue) :
         [queue[i] EXCEPT !.old = @ \/ queue[i].emoji \in changed] \in Event
  BY <1>1 DEF Event
<1>3. Len(queue') = Len(queue) /\ Len(queue) \in Nat /\ DOMAIN queue = 1 .. Len(queue)
  OBVIOUS
<1>4. queue' \in [1 .. Len(queue) -> Event]
  BY <1>2, <1>3
<1>5. queue' \in Seq(Event)
  BY <1>3, <1>4
<1>6. ASSUME NEW i \in 1 .. Len(queue)
      PROVE  /\ queue'[i].msg = queue[i].msg /\ queue'[i].add = queue[i].add
             /\ queue'[i].member = queue[i].member /\ queue'[i].emoji = queue[i].emoji
             /\ queue'[i].old <=> queue[i].old \/ queue[i].emoji \in changed
  <2>1. queue'[i] = [queue[i] EXCEPT !.old = @ \/ queue[i].emoji \in changed]
    BY <1>3
  <2> QED
    BY <1>1, <2>1 DEF Event
<1> QED
  BY <1>3, <1>5, <1>6

\* What a click waits as.
LEMMA Clicked ==
  ASSUME Typed, NEW m \in Member, NEW e \in Emoji, Click(m, e)
  PROVE  /\ queue' \in Seq(Event)
         /\ Len(queue') = Len(queue) + 1 /\ Len(queue) \in Nat
         /\ \A i \in 1 .. Len(queue) : queue'[i] = queue[i] /\ queue[i] \in Event
         /\ LET ev == queue'[Len(queue) + 1] IN
               /\ ev \in Event
               /\ ev.member = m /\ ev.emoji = e /\ ev.msg = msg
               /\ ev.add <=> <<m, e>> \notin reacted
               /\ ev.old <=> e \in pending
<1> DEFINE ev == [member |-> m, emoji |-> e, add |-> <<m, e>> \notin reacted,
                  msg |-> msg, old |-> e \in pending]
<1>1. ev \in Event /\ ev.member = m /\ ev.emoji = e /\ ev.msg = msg
      /\ (ev.add <=> <<m, e>> \notin reacted) /\ (ev.old <=> e \in pending)
  <2>1. msg \in Nat \ {0}
    BY DEF Typed, Click
  <2>2. (<<m, e>> \notin reacted) \in BOOLEAN /\ (e \in pending) \in BOOLEAN
    OBVIOUS
  <2>3. \A a \in BOOLEAN, b \in BOOLEAN :
           [member |-> m, emoji |-> e, add |-> a, msg |-> msg, old |-> b] \in Event
    BY <2>1 DEF Event
  <2>4. ev \in Event
    BY <2>2, <2>3, Zenon
  <2>5. ev.member = m /\ ev.emoji = e /\ ev.msg = msg
    OBVIOUS
  <2>6. ev.add = (<<m, e>> \notin reacted) /\ ev.old = (e \in pending)
    BY Zenon
  <2> QED
    BY <2>4, <2>5, <2>6
<1>2. queue \in Seq(Event) /\ queue' = Append(queue, ev)
  BY DEF Typed, Click
<1> HIDE DEF ev
<1> QED
  BY <1>1, <1>2, Appended

\* A reaction is set or taken back: that of this member, with this emoji.
LEMMA Toggles ==
  ASSUME Typed, NEW m \in Member, NEW e \in Emoji, reacted' = Toggled(<<m, e>>)
  PROVE  /\ reacted' \in SUBSET (Member \X Emoji)
         /\ <<m, e>> \in reacted' <=> <<m, e>> \notin reacted
         /\ \A n \in Member, f \in Emoji :
               <<n, f>> # <<m, e>> => (<<n, f>> \in reacted' <=> <<n, f>> \in reacted)
         /\ \A n \in Member, f \in Emoji : <<n, f>> # <<m, e>> <=> n # m \/ f # e
BY DEF Typed, Toggled
\* A list is of members, so it is never taken for no list.
LEMMA Tracks ==
  ASSUME Typed, NEW e \in Emoji, NEW added \in SUBSET Member, NEW dropped \in SUBSET Member,
         tracked' = Track(e, added, dropped)
  PROVE  /\ tracked' \in Lists
         /\ \A f \in Emoji : f # e => tracked'[f] = tracked[f]
         /\ tracked[e] = NoList => tracked'[e] = NoList
         /\ tracked[e] # NoList => /\ tracked'[e] = (tracked[e] \ dropped) \union added
                                   /\ tracked'[e] # NoList
<1>1. tracked \in Lists /\ tracked[e] \in (SUBSET Member) \union {NoList}
  BY DEF Typed, Lists
<1>2. tracked[e] # NoList => /\ (tracked[e] \ dropped) \union added \in SUBSET Member
                             /\ (tracked[e] \ dropped) \union added # NoList
  BY <1>1 DEF NoList
<1> QED
  BY <1>1, <1>2 DEF Track, Lists

-----------------------------------------------------------------------------
(* The wizard                                                              *)

LEMMA WizardInit0 == WizardInit => WizardInv
<1>1. /\ NoWizard.reactions = <<>> /\ Len(NoWizard.reactions) = 0
      /\ <<>> \in Seq([emoji : Emoji, role : Role])
  BY DEF NoWizard
<1>2. WizardInit => WizardTypeOK
  BY <1>1 DEF WizardInit, WizardTypeOK, NoWizard, NoPicker, Picker, Steps
<1> QED
  BY <1>1, <1>2 DEF WizardInit, WizardInv

\* The reactions and the roles that may not be handed out.
LEMMA WizardKeeps ==
  ASSUME WizardInv, wizard' \in [step : {0} \union Steps, shown : SUBSET Steps,
                                 reactions : Seq([emoji : Emoji, role : Role]), channel : BOOLEAN,
                                 picker : Picker],
         wizard'.reactions = wizard.reactions \/ wizard' = NoWizard,
         unsafe' \in SUBSET Role
  PROVE  WizardInv'
<1>1. NoWizard.reactions = <<>> /\ Len(NoWizard.reactions) = 0
  BY DEF NoWizard
<1>2. CASE wizard'.reactions = wizard.reactions
  BY <1>2 DEF WizardInv, WizardTypeOK
<1>3. CASE wizard' = NoWizard
  BY <1>1, <1>3 DEF WizardInv, WizardTypeOK
<1> QED
  BY <1>2, <1>3

LEMMA WizardStep ==
  ASSUME WizardInv, WizardSteps, unsafe' = unsafe
  PROVE  WizardInv'
<1> DEFINE R == [emoji : Emoji, role : Role]
           W == [step : {0} \union Steps, shown : SUBSET Steps, reactions : Seq(R),
                 channel : BOOLEAN, picker : Picker]
<1>1. wizard \in W /\ unsafe \in SUBSET Role /\ NoWizard \in W
  BY DEF WizardInv, WizardTypeOK, NoWizard, NoPicker, Picker, Steps
<1>2. CASE OpenWizard \/ CancelWizard
  <2>1. CASE OpenWizard
    <3>1. wizard' = [wizard EXCEPT !.step = 1, !.shown = {1}]
      BY <2>1 DEF OpenWizard
    <3>2. wizard' \in W /\ wizard'.reactions = wizard.reactions
      <4>1. [wizard EXCEPT !.step = 1, !.shown = {1}].reactions = wizard.reactions
        BY <1>1
      <4>2. [wizard EXCEPT !.step = 1, !.shown = {1}] \in W
        <5> DEFINE Q == Seq(R)
        <5>1. wizard \in [step : {0} \union Steps, shown : SUBSET Steps, reactions : Q,
                          channel : BOOLEAN, picker : Picker]
          BY <1>1
        <5> HIDE DEF Q, R
        <5>2. [wizard EXCEPT !.step = 1, !.shown = {1}] \in
                 [step : {0} \union Steps, shown : SUBSET Steps, reactions : Q,
                  channel : BOOLEAN, picker : Picker]
          <6>1. 1 \in {0} \union Steps /\ {1} \in SUBSET Steps
            BY DEF Steps
          <6> QED
            BY <5>1, <6>1
        <5> QED
          BY <5>2 DEF Q
      <4> QED
        BY <3>1, <4>1, <4>2
    <3> QED
      BY <1>1, <3>2, WizardKeeps
  <2> QED
    BY <1>1, <1>2, <2>1, WizardKeeps DEF CancelWizard
<1>3. CASE Continue \/ Back
  <2>1. PICK s \in Steps : Enter(s)
    BY <1>1, <1>3 DEF Continue, Back, Steps
  <2> QED
    BY <1>1, <2>1, WizardKeeps DEF Enter
<1>4. CASE ChooseChannel
  BY <1>1, <1>4, WizardKeeps DEF ChooseChannel
<1>5. CASE AddReaction \/ LeavePicker
  <2>1. PICK p \in Picker : wizard' = [wizard EXCEPT !.picker = p]
    BY <1>5 DEF AddReaction, LeavePicker, NoPicker, Picker
  <2>2. wizard' \in W /\ wizard'.reactions = wizard.reactions
    BY <1>1, <2>1
  <2> QED
    BY <1>1, <2>2, WizardKeeps
<1>6. CASE PickEmoji \/ PickRole
  BY <1>1, <1>6, WizardKeeps DEF PickEmoji, PickRole, Picker
<1>7. CASE SaveReaction
  <2> DEFINE x == [emoji |-> wizard.picker.emoji, role |-> wizard.picker.role]
             s == wizard.reactions
  <2>1. x \in R /\ x.emoji = wizard.picker.emoji /\ x.role = wizard.picker.role /\ x.role # None
    BY <1>1, <1>7 DEF SaveReaction, Picker
  <2>2. s \in Seq(R) /\ Len(s) \in Nat /\ Len(s) < MaxReactions
    BY <1>1, <1>7 DEF SaveReaction, Fits
  <2>3. \A i \in 1 .. Len(s) : s[i].emoji # x.emoji /\ s[i].role # x.role
    BY <1>7, <2>1, <2>2 DEF SaveReaction, Fits, Reactions, ToSet
  <2>4. /\ wizard'.reactions = Append(s, x) /\ wizard' \in W
    <3>1. NoPicker \in Picker
      BY DEF NoPicker, Picker
    <3>2. wizard' = [wizard EXCEPT !.reactions = Append(s, x), !.picker = NoPicker]
      BY <1>7 DEF SaveReaction
    <3>3. Append(s, x) \in Seq(R)
      BY <2>1, <2>2
    <3> HIDE DEF x
    <3> QED
      BY <1>1, <3>1, <3>2, <3>3
  <2> HIDE DEF x
  <2>5. /\ Len(Append(s, x)) = Len(s) + 1 /\ Append(s, x)[Len(s) + 1] = x
        /\ \A i \in 1 .. Len(s) : Append(s, x)[i] = s[i]
    BY <2>1, <2>2
  <2>6. \A i \in 1 .. Len(s) + 1 : Append(s, x)[i].role # None
    BY <2>1, <2>2, <2>5 DEF WizardInv
  <2>7. \A i, j \in 1 .. Len(s) + 1 : i # j => /\ Append(s, x)[i].emoji # Append(s, x)[j].emoji
                                               /\ Append(s, x)[i].role # Append(s, x)[j].role
    <3> SUFFICES ASSUME NEW i \in 1 .. Len(s) + 1, NEW j \in 1 .. Len(s) + 1, i # j
                 PROVE  /\ Append(s, x)[i].emoji # Append(s, x)[j].emoji
                        /\ Append(s, x)[i].role # Append(s, x)[j].role
      OBVIOUS
    <3>1. CASE i = Len(s) + 1
      BY <2>2, <2>3, <2>5, <3>1
    <3>2. CASE j = Len(s) + 1
      BY <2>2, <2>3, <2>5, <3>2
    <3>3. CASE i \in 1 .. Len(s) /\ j \in 1 .. Len(s)
      BY <2>2, <2>5, <3>3 DEF WizardInv
    <3> QED
      BY <2>2, <3>1, <3>2, <3>3
  <2>8. WizardTypeOK'
    BY <1>1, <2>2, <2>4, <2>5 DEF WizardTypeOK
  <2> QED
    BY <2>4, <2>5, <2>6, <2>7, <2>8 DEF WizardInv
<1> QED
  BY <1>2, <1>3, <1>4, <1>5, <1>6, <1>7 DEF WizardSteps

\* What "Confirm and Send Panel" stores: each of the reactions, under its emoji.
LEMMA ChosenMeans ==
  ASSUME WizardInv, MayConfirm
  PROVE  /\ Chosen \in Mapping
         /\ Cardinality({e \in Emoji : Chosen[e] # None}) \in 1 .. MaxReactions
         /\ \A e, f \in Emoji :
               Chosen[e] # None /\ Chosen[f] # None /\ e # f => Chosen[e] # Chosen[f]
<1> DEFINE s == wizard.reactions
           on == {e \in Emoji : Chosen[e] # None}
<1>1. s \in Seq([emoji : Emoji, role : Role]) /\ Len(s) \in 1 .. MaxReactions
  BY DEF WizardInv, WizardTypeOK, MayConfirm
<1>2. \A i \in 1 .. Len(s) : s[i].emoji \in Emoji /\ s[i].role \in Role /\ s[i].role # None
  <2>1. \A i \in 1 .. Len(s) : s[i] \in [emoji : Emoji, role : Role]
    BY <1>1, Elements
  <2> QED
    BY <2>1 DEF WizardInv
<1>3. ASSUME NEW i \in 1 .. Len(s) PROVE Chosen[s[i].emoji] = s[i].role
  <2>1. s[i] \in Reactions
    BY <1>1 DEF Reactions, ToSet
  <2>2. \A x \in Reactions : x.emoji = s[i].emoji => x = s[i]
    BY <1>1 DEF Reactions, ToSet, WizardInv
  <2>3. (CHOOSE x \in Reactions : x.emoji = s[i].emoji) = s[i]
    BY <2>1, <2>2
  <2> QED
    BY <1>2, <2>1, <2>3 DEF Chosen
<1>4. ASSUME NEW e \in Emoji, Chosen[e] # None
      PROVE  \E i \in 1 .. Len(s) : s[i].emoji = e
  BY <1>1, <1>4 DEF Chosen, Reactions, ToSet
<1>5. Chosen \in Mapping
  <2>1. \A e \in Emoji : Chosen[e] \in Role \union {None}
    BY <1>2, <1>3, <1>4
  <2> QED
    BY <2>1 DEF Chosen, Mapping
<1>6. \A e, f \in Emoji : Chosen[e] # None /\ Chosen[f] # None /\ e # f => Chosen[e] # Chosen[f]
  BY <1>1, <1>3, <1>4 DEF WizardInv
<1>7. IsFiniteSet(on) /\ Cardinality(on) <= Len(s)
  <2> DEFINE f == [i \in 1 .. Len(s) |-> s[i].emoji]
  <2>1. f \in [1 .. Len(s) -> on]
    BY <1>2, <1>3
  <2>2. \A e \in on : \E i \in 1 .. Len(s) : f[i] = e
    BY <1>4
  <2>3. f \in Surjection(1 .. Len(s), on)
    BY <2>1, <2>2 DEF Surjection
  <2>4. IsFiniteSet(1 .. Len(s)) /\ Cardinality(1 .. Len(s)) = Len(s)
    BY <1>1, FS_Interval
  <2> HIDE DEF f, on
  <2> QED
    BY <2>3, <2>4, FS_Surjection
<1>8. s[1].emoji \in on
  BY <1>1, <1>2, <1>3
<1>9. Cardinality(on) \in Nat /\ Cardinality(on) # 0
  BY <1>7, <1>8, FS_CardinalityType, FS_EmptySet
<1> QED
  BY <1>1, <1>5, <1>6, <1>7, <1>9
-----------------------------------------------------------------------------
(* Types                                                                   *)

LEMMA Blank ==
  /\ NoSweep \in Sweeps
  /\ NoVersion \in [msg : Nat, mapping : Mapping] /\ NoVersion.msg = 0
  /\ Typed => Version \in [msg : Nat, mapping : Mapping] /\ Version.msg = msg
BY DEF Typed, Sweeps, NoSweep, NoVersion, Version, Mapping

LEMMA TypedInit == Init => Typed
<1> SUFFICES ASSUME Init PROVE Typed
  OBVIOUS
<1>1. mapping \in Mapping
  BY DEF Init, Mapping
<1>2. tracked \in Lists
  BY DEF Init, Lists
<1>3. queue \in Seq(Event)
  BY DEF Init
<1>4. 0 \in 0 .. MaxEdits /\ 0 \in Nat
  OBVIOUS
<1>5. cache \in [msg : Nat, mapping : Mapping] /\ sweep \in Sweeps
  BY Blank DEF Init
<1>6. holds \in SUBSET (Member \X Role)
  BY DEF Init
<1>7. reacted \in SUBSET (Member \X Emoji) /\ kept \in SUBSET (Member \X Role)
      /\ pending \in SUBSET Emoji
  BY DEF Init
<1> QED
  BY <1>1, <1>2, <1>3, <1>4, <1>5, <1>6, <1>7 DEF Init, Typed

\* The actions of the sweep and of the editor.
Sweeping == Sweep \/ SweepFetch \/ SweepApply \/ SweepEnd
Refreshing ==
    RetryRefresh \/ Repost \/ ClearReset \/ EndRefresh \/ NothingToRefresh \/ RefreshFails

\* What the sweep does for one emoji, with the calls that are refused.
Applies(e, refused) ==
    /\ e \in Mapped /\ e \in sweep.todo
    /\ \A m \in Member :
          <<m, mapping[e]>> \in holds' <=>
             \/ m \in sweep.users \ refused
             \/ <<m, mapping[e]>> \in holds /\ m \notin Leavers(e) \ refused
    /\ \A m \in Member, f \in Mapped :
          mapping[f] # mapping[e] =>
             (<<m, mapping[f]>> \in holds' <=> <<m, mapping[f]>> \in holds)
    /\ \A x \in holds : x \in holds' \/ \E m \in Leavers(e) \ refused : x = <<m, mapping[e]>>
    /\ tracked' = Track(e, sweep.users \ refused, Leavers(e) \ refused)
    /\ sweep' = [sweep EXCEPT !.todo = @ \ {e}, !.emoji = None, !.users = {},
                              !.failed = @ \/ refused # {}]

LEMMA Applied ==
  ASSUME Typed, AtWork, SweepApply
  PROVE  /\ holds' \in SUBSET (Member \X Role)
         /\ \E refused \in SUBSET Member : Applies(sweep.emoji, refused)
<1> DEFINE e == sweep.emoji
<1>1. /\ e \in Mapped /\ e \in sweep.todo
      /\ sweep.users \in SUBSET Member /\ Leavers(e) \in SUBSET Member
  BY DEF SweepApply, AtWork, Typed, Sweeps, Leavers
<1>2. PICK refused \in {{}} \union {{m} : m \in {n \in sweep.users : <<n, mapping[e]>> \notin holds}
                                                   \union Leavers(e)} :
         /\ holds' = (holds \ {<<m, mapping[e]>> : m \in Leavers(e) \ refused})
                        \union {<<m, mapping[e]>> : m \in sweep.users \ refused}
         /\ tracked' = Track(e, sweep.users \ refused, Leavers(e) \ refused)
         /\ sweep' = [sweep EXCEPT !.todo = @ \ {e}, !.emoji = None, !.users = {},
                                   !.failed = @ \/ refused # {}]
  BY Zenon DEF SweepApply
<1>9. refused \in SUBSET Member
  <2>1. refused = {} \/ \E m \in sweep.users \union Leavers(e) : refused = {m}
    BY <1>2
  <2>2. sweep.users \union Leavers(e) \subseteq Member
    BY <1>1
  <2> HIDE DEF e
  <2> QED
    BY <2>1, <2>2
<1>3. mapping[e] \in Role /\ holds \in SUBSET (Member \X Role)
  BY <1>1 DEF Mapped, Typed, Mapping
<1> HIDE DEF e
<1>4. holds' \in SUBSET (Member \X Role)
  BY <1>1, <1>2, <1>3
<1>5. \A m \in Member :
         <<m, mapping[e]>> \in holds' <=>
            \/ m \in sweep.users \ refused
            \/ <<m, mapping[e]>> \in holds /\ m \notin Leavers(e) \ refused
  BY <1>1, <1>2, <1>3
<1>6. \A m \in Member, f \in Mapped :
         mapping[f] # mapping[e] =>
            (<<m, mapping[f]>> \in holds' <=> <<m, mapping[f]>> \in holds)
  BY <1>2
<1>7. \A x \in holds : x \in holds' \/ \E m \in Leavers(e) \ refused : x = <<m, mapping[e]>>
  BY <1>2
<1>8. Applies(e, refused)
  BY <1>1, <1>2, <1>5, <1>6, <1>7 DEF Applies
<1> QED
  BY <1>4, <1>8, <1>9 DEF e

\* What the sweep reads for one emoji: of the message it fetched.
LEMMA Fetched ==
  ASSUME Typed, SweepFetch
  PROVE  \E e \in sweep.todo :
            \/ sweep' = [sweep EXCEPT !.todo = @ \ {e}, !.failed = TRUE]
            \/ \E users \in SUBSET Member :
                  /\ e \notin pending
                  /\ sweep' = [sweep EXCEPT !.emoji = e, !.users = users]
                  /\ sweep.msg = msg => users = {m \in Member : <<m, e>> \in reacted}
                  /\ sweep.msg # msg => users \subseteq {m \in Member : <<m, e>> \in sweep.old}
<1>1. PICK e \in sweep.todo :
         \/ sweep' = [sweep EXCEPT !.todo = @ \ {e}, !.failed = TRUE]
         \/ /\ e \notin pending
            /\ \E users \in Listed(e) : sweep' = [sweep EXCEPT !.emoji = e, !.users = users]
  BY DEF SweepFetch
<1>2. \A users \in Listed(e) :
         /\ users \in SUBSET Member
         /\ sweep.msg = msg => users = {m \in Member : <<m, e>> \in reacted}
         /\ sweep.msg # msg => users \subseteq {m \in Member : <<m, e>> \in sweep.old}
  BY DEF Listed
<1>3. CASE sweep' = [sweep EXCEPT !.todo = @ \ {e}, !.failed = TRUE]
  BY <1>1, <1>3
<1>4. ASSUME e \notin pending, NEW users \in Listed(e),
             sweep' = [sweep EXCEPT !.emoji = e, !.users = users]
      PROVE  \E u \in SUBSET Member :
                  /\ e \notin pending
                  /\ sweep' = [sweep EXCEPT !.emoji = e, !.users = u]
                  /\ sweep.msg = msg => u = {m \in Member : <<m, e>> \in reacted}
                  /\ sweep.msg # msg => u \subseteq {m \in Member : <<m, e>> \in sweep.old}
  BY <1>2, <1>4
<1> QED
  BY <1>1, <1>3, <1>4

\* What the bot remembers of a sweep: the panel as it is, or nothing new.
LEMMA Remembered ==
  ASSUME Typed, SweepEnd
  PROVE  /\ cache' \in [msg : Nat, mapping : Mapping]
         /\ cache' = cache \/ (~sweep.failed /\ sweep.msg = msg /\ cache' = Version)
BY DEF SweepEnd, Reconciled, Typed, Version

LEMMA SweepTypes ==
  ASSUME Typed, AtWork, Sweeping
  PROVE  Typed'
<1>1. sweep' \in Sweeps
  <2>1. CASE Sweep
    <3>1. sweep' = [NoSweep EXCEPT !.msg = msg, !.todo = Mapped] /\ Mapped \in SUBSET Emoji
      BY <2>1 DEF Sweep, Mapped
    <3> QED
      BY <3>1 DEF NoSweep, Sweeps, Typed
  <2>2. CASE SweepFetch
    <3>1. PICK e \in sweep.todo :
             \/ sweep' = [sweep EXCEPT !.todo = @ \ {e}, !.failed = TRUE]
             \/ \E users \in SUBSET Member : sweep' = [sweep EXCEPT !.emoji = e, !.users = users]
      BY <2>2, Fetched
    <3>2. sweep \in Sweeps /\ sweep.todo \in SUBSET Emoji
      BY DEF Typed, Sweeps
    <3>3. \A x \in Sweeps, todo \in SUBSET Emoji :
            [x EXCEPT !.todo = todo, !.failed = TRUE] \in Sweeps
      BY DEF Sweeps
    <3>4. \A x \in Sweeps, f \in Emoji, users \in SUBSET Member :
             [x EXCEPT !.emoji = f, !.users = users] \in Sweeps
      BY DEF Sweeps
    <3>5. sweep.todo \ {e} \in SUBSET Emoji /\ e \in Emoji
      BY <3>1, <3>2
    <3> QED
      BY <3>1, <3>2, <3>3, <3>4, <3>5
  <2>3. CASE SweepApply
    <3>1. PICK refused \in SUBSET Member : Applies(sweep.emoji, refused)
      BY <2>3, Applied
    <3> QED
      BY <3>1 DEF Applies, Typed, Sweeps
  <2>4. CASE SweepEnd
    BY <2>4, Blank DEF SweepEnd
  <2> QED
    BY <2>1, <2>2, <2>3, <2>4 DEF Sweeping
<1>2. tracked' \in Lists /\ holds' \in SUBSET (Member \X Role)
  <2>1. CASE SweepApply
    <3>1. PICK refused \in SUBSET Member : Applies(sweep.emoji, refused)
      BY <2>1, Applied
    <3>2. /\ sweep.emoji \in Emoji /\ sweep.users \ refused \in SUBSET Member
          /\ Leavers(sweep.emoji) \ refused \in SUBSET Member
          /\ tracked' = Track(sweep.emoji, sweep.users \ refused, Leavers(sweep.emoji) \ refused)
      BY <3>1 DEF Applies, Mapped, Typed, Sweeps, Leavers
    <3> QED
      BY <2>1, <3>2, Applied, Tracks
  <2>2. CASE ~SweepApply
    BY <2>2 DEF Sweeping, Sweep, SweepFetch, SweepEnd, Typed
  <2> QED
    BY <2>1, <2>2
<1>3. cache' \in [msg : Nat, mapping : Mapping] /\ lock' \in {"none", "sweep"}
      /\ missed' = missed
  BY Remembered DEF Sweeping, Sweep, SweepFetch, SweepApply, SweepEnd, Typed
<1>4. SweepFrame
  BY DEF Sweeping, Sweep, SweepFetch, SweepApply, SweepEnd
<1> QED
  BY <1>1, <1>2, <1>3, <1>4 DEF Typed, SweepFrame

LEMMA EditTypes ==
  ASSUME Typed, \/ Refreshing
                \/ \E new \in Mapping, moving \in BOOLEAN : Edit(new, moving)
  PROVE  Typed'
<1>1. CASE Refreshing
  <2>1. EditorFrame
    BY <1>1 DEF Refreshing, RetryRefresh, Repost, ClearReset, EndRefresh, NothingToRefresh,
                RefreshFails
  <2>2. tracked' \in Lists
    <3>1. {} \in SUBSET Member
      OBVIOUS
    <3> QED
      BY <1>1, <3>1 DEF Refreshing, RetryRefresh, Repost, ClearReset, EndRefresh,
                        NothingToRefresh, RefreshFails, Typed, Lists
  <2>3. /\ msg' \in Nat /\ pending' \in SUBSET Emoji /\ owed' \in {"none", "refresh", "move"}
        /\ lock' \in {"none", "editor"} /\ queue' = queue
        /\ cache' \in [msg : Nat, mapping : Mapping]
        /\ reacted' \in SUBSET (Member \X Emoji)
    BY <1>1, Blank DEF Refreshing, RetryRefresh, Repost, ClearReset, EndRefresh, NothingToRefresh,
                       RefreshFails, Typed, Refreshed, Cleared
  <2>4. there' \in BOOLEAN /\ orphaned' \in BOOLEAN
    <3>1. (pending # {}) \in BOOLEAN
      OBVIOUS
    <3>2. orphaned' = orphaned \/ orphaned' = (pending # {})
      BY <1>1, Zenon DEF Refreshing, RetryRefresh, Repost, ClearReset, EndRefresh, NothingToRefresh,
                         RefreshFails
    <3>3. there' = there \/ there' = TRUE
      BY <1>1 DEF Refreshing, RetryRefresh, Repost, ClearReset, EndRefresh, NothingToRefresh,
                  RefreshFails
    <3> QED
      BY <3>1, <3>2, <3>3, Zenon DEF Typed
  <2> QED
    BY <2>1, <2>2, <2>3, <2>4 DEF Typed, EditorFrame
<1>2. ASSUME NEW new \in Mapping, NEW moving \in BOOLEAN, Edit(new, moving)
      PROVE  Typed'
  <2>1. PICK changed \in SUBSET Emoji :
           /\ tracked' = Relisted(changed)
           /\ pending' = pending \union changed
           /\ queue' = [i \in DOMAIN queue |->
                          [queue[i] EXCEPT !.old = @ \/ queue[i].emoji \in changed]]
           /\ kept' = kept \union {x \in holds : \E e \in changed : x[2] \in {mapping[e], new[e]}}
    <3> DEFINE changed == {e \in Emoji : new[e] # mapping[e]
                                           \/ ((moving \/ owed = "move") /\ new[e] # None)}
    <3>1. changed \in SUBSET Emoji
      OBVIOUS
    <3>2. /\ tracked' = Relisted(changed)
          /\ pending' = pending \union changed
          /\ queue' = [i \in DOMAIN queue |->
                         [queue[i] EXCEPT !.old = @ \/ queue[i].emoji \in changed]]
          /\ kept' = kept \union {x \in holds : \E e \in changed : x[2] \in {mapping[e], new[e]}}
      BY <1>2, Zenon DEF Edit
    <3> HIDE DEF changed
    <3> QED
      BY <3>1, <3>2, Zenon
  <2>2. tracked' \in Lists
    BY <2>1 DEF Relisted, Lists, Typed
  <2>3. queue' \in Seq(Event)
    BY <2>1, Marked DEF Typed
  <2>4. edits' \in 0 .. MaxEdits
    BY <1>2 DEF Edit, Typed
  <2> QED
    BY <1>2, <2>1, <2>2, <2>3, <2>4 DEF Edit, Queued, Typed
<1> QED
  BY <1>1, <1>2
\* The steps, in the groups the proofs are made of.
LEMMA Steps0 ==
  ASSUME Next
  PROVE  \/ Wizard \/ Publish
         \/ \E m \in Member, e \in Emoji : Click(m, e)
         \/ HandleEvent \/ Sweeping
         \/ \E new \in Mapping, moving \in BOOLEAN : Edit(new, moving)
         \/ Refreshing \/ Resend \/ MessageDeleted \/ Restart \/ MakeUnsafe
BY DEF Next, Background, Sweeping, Refreshing, Mapping

\* What the bot hears of an event, and what it does.
Obeys ==
    LET ev == queue[1]
        x  == <<ev.member, mapping[ev.emoji]>>
    IN
    /\ Heard(ev)
    /\ holds' = IF ev.add THEN holds \union {x} ELSE holds \ {x}
    /\ tracked' = IF ev.add THEN Track(ev.emoji, {ev.member}, {})
                            ELSE Track(ev.emoji, {}, {ev.member})
    /\ late' = (late \/ ev.old)
    /\ UNCHANGED <<faults, missed>>

Misses ==
    /\ Heard(queue[1])
    /\ missed' = (missed \/ cache = Version)
    /\ UNCHANGED <<holds, tracked, late>>

Ignores == ~Heard(queue[1]) /\ UNCHANGED <<holds, tracked, missed, late>>

LEMMA Handled ==
  ASSUME Typed, HandleEvent
  PROVE  /\ Obeys \/ Misses \/ Ignores
         /\ queue' \in Seq(Event)
         /\ Len(queue') = Len(queue) - 1 /\ Len(queue) \in Nat \ {0}
         /\ \A i \in 1 .. Len(queue) - 1 : queue'[i] = queue[i + 1]
         /\ queue[1] \in Event
<1>1. queue \in Seq(Event) /\ queue # <<>> /\ queue' = Tail(queue)
  BY DEF Typed, HandleEvent
<1>2. Head(queue) = queue[1]
  BY <1>1
<1>3. Obeys \/ Misses \/ Ignores
  BY <1>2, Zenon DEF HandleEvent, Obeys, Misses, Ignores
<1> QED
  BY <1>1, <1>2, <1>3, Popped

\* What the event of a member changes for him and his emoji.
Followed(ev) ==
    /\ ev.emoji \in Governed \ pending
    /\ \A m \in Member, r \in Role :
          <<m, r>> # <<ev.member, mapping[ev.emoji]>> =>
             (<<m, r>> \in holds' <=> <<m, r>> \in holds)
    /\ <<ev.member, mapping[ev.emoji]>> \in holds' <=> ev.add
    /\ \A f \in Emoji : f # ev.emoji => tracked'[f] = tracked[f]
    /\ \A m \in Member : m # ev.member =>
          (m \in tracked'[ev.emoji] <=> m \in tracked[ev.emoji])
    /\ tracked'[ev.emoji] = NoList <=> tracked[ev.emoji] = NoList

LEMMA Obeyed ==
  ASSUME Typed, Obeys, queue[1] \in Event
  PROVE  /\ holds' \in SUBSET (Member \X Role) /\ tracked' \in Lists /\ late' \in BOOLEAN
         /\ Followed(queue[1])
<1> DEFINE ev == queue[1]
<1>1. ev.emoji \in Emoji /\ ev.member \in Member /\ ev.emoji \in Governed \ pending
  BY DEF Event, Obeys, Heard, Governed, Mapped
<1>2. mapping[ev.emoji] \in Role
  BY <1>1 DEF Governed, Mapped, Typed, Mapping
<1>3. PICK added \in SUBSET Member, dropped \in SUBSET Member :
         /\ tracked' = Track(ev.emoji, added, dropped)
         /\ added \union dropped = {ev.member}
  <2>1. {ev.member} \in SUBSET Member /\ {} \in SUBSET Member
    BY <1>1
  <2> QED
    BY <2>1 DEF Obeys
<1>4. holds' = IF ev.add THEN holds \union {<<ev.member, mapping[ev.emoji]>>}
               ELSE holds \ {<<ev.member, mapping[ev.emoji]>>}
  BY DEF Obeys
<1>5. late' \in BOOLEAN
  BY DEF Obeys
<1> HIDE DEF ev
<1>6. holds' \in SUBSET (Member \X Role)
  BY <1>1, <1>2, <1>4 DEF Typed
<1>7. /\ \A m \in Member, r \in Role :
            <<m, r>> # <<ev.member, mapping[ev.emoji]>> =>
               (<<m, r>> \in holds' <=> <<m, r>> \in holds)
      /\ <<ev.member, mapping[ev.emoji]>> \in holds' <=> ev.add
  BY <1>4
<1>8. /\ tracked' \in Lists
      /\ \A f \in Emoji : f # ev.emoji => tracked'[f] = tracked[f]
      /\ tracked[ev.emoji] = NoList => tracked'[ev.emoji] = NoList
      /\ tracked[ev.emoji] # NoList =>
            /\ tracked'[ev.emoji] = (tracked[ev.emoji] \ dropped) \union added
            /\ tracked'[ev.emoji] # NoList
  BY <1>1, <1>3, Tracks
<1>9. \A m \in Member : m # ev.member =>
         (m \in tracked'[ev.emoji] <=> m \in tracked[ev.emoji])
  BY <1>3, <1>8
<1>10. Followed(ev)
  BY <1>1, <1>7, <1>8, <1>9 DEF Followed
<1> QED
  BY <1>5, <1>6, <1>8, <1>10 DEF ev

\* What a sweep that is under way learns of a new message, or of a deleted one.
LEMMA Displaced ==
  ASSUME Typed, Resend \/ MessageDeleted
  PROVE  /\ sweep' \in Sweeps
         /\ sweep'.msg = sweep.msg /\ sweep'.emoji = sweep.emoji /\ sweep'.users = sweep.users
         /\ sweep'.todo \subseteq sweep.todo
         /\ sweep.emoji \in sweep.todo => sweep.emoji \in sweep'.todo
         /\ sweep'.old \subseteq sweep.old \union reacted
         /\ lock # "sweep" => sweep' = sweep
<1>1. sweep \in Sweeps /\ reacted \in SUBSET (Member \X Emoji)
  BY DEF Typed
<1>2. CASE sweep' = sweep
  BY <1>1, <1>2 DEF Sweeps
<1>3. CASE sweep' = [sweep EXCEPT !.old = {x \in reacted : x[2] \in sweep.todo}] /\ lock = "sweep"
  BY <1>1, <1>3 DEF Sweeps
<1>4. CASE /\ sweep' = [sweep EXCEPT !.todo = @ \intersect {sweep.emoji}, !.failed = TRUE]
           /\ lock = "sweep"
  BY <1>1, <1>4 DEF Sweeps
<1> QED
  BY <1>2, <1>3, <1>4 DEF Resend, MessageDeleted

LEMMA TypedStep ==
  ASSUME Typed, AtWork, WizardInv, [Next]_vars
  PROVE  Typed'
<1> USE DEF panelVars, wizardVars
<1>1. CASE Wizard
  BY <1>1 DEF Wizard, rolesVars, Typed
<1>2. CASE Publish
  BY <1>2, ChosenMeans DEF Publish, Typed
<1>3. ASSUME NEW m \in Member, NEW e \in Emoji, Click(m, e) PROVE Typed'
  <2>1. queue' \in Seq(Event)
    BY <1>3, Clicked
  <2>2. reacted' \in SUBSET (Member \X Emoji)
    BY <1>3, Toggles DEF Click
  <2>3. kept' \in SUBSET (Member \X Role)
    BY <1>3 DEF Click, Decided, Typed
  <2> QED
    BY <1>3, <2>1, <2>2, <2>3 DEF Click, Typed
<1>4. CASE HandleEvent
  <2>1. queue' \in Seq(Event)
    BY <1>4, Handled
  <2>2. holds' \in SUBSET (Member \X Role) /\ tracked' \in Lists /\ late' \in BOOLEAN
        /\ missed' \in BOOLEAN
    BY <1>4, Handled, Obeyed DEF Misses, Ignores, Typed, Obeys
  <2> QED
    BY <1>4, <2>1, <2>2 DEF HandleEvent, Typed
<1>5. CASE Sweeping
  BY <1>5, SweepTypes
<1>6. CASE Refreshing \/ \E new \in Mapping, moving \in BOOLEAN : Edit(new, moving)
  BY <1>6, EditTypes
<1>7. CASE Resend \/ MessageDeleted
  <2>1. sweep' \in Sweeps
    BY <1>7, Displaced
  <2>2. msg' \in Nat /\ there' \in BOOLEAN /\ edits' \in 0 .. MaxEdits
        /\ owed' \in {"none", "refresh", "move"} /\ reacted' \in SUBSET (Member \X Emoji)
    <3>1. CASE Resend
      <4>1. edits \in Nat /\ edits < MaxEdits /\ edits' = edits + 1 /\ msg' = msg + 1
        BY <3>1 DEF Resend, Typed
      <4> QED
        BY <3>1, <4>1 DEF Resend, Typed
    <3>2. CASE MessageDeleted
      BY <3>2 DEF MessageDeleted, Typed
    <3> QED
      BY <1>7, <3>1, <3>2
  <2>3. UNCHANGED <<mapping, tracked, pending, orphaned, queue, holds, lock, missed, late, kept>>
    BY <1>7 DEF Resend, MessageDeleted
  <2>4. cache' \in [msg : Nat, mapping : Mapping]
    BY <1>7, Blank DEF Resend, MessageDeleted, Typed
  <2> QED
    BY <2>1, <2>2, <2>3, <2>4 DEF Typed
<1>8. CASE Restart
  <2>1. reacted' \in SUBSET (Member \X Emoji) /\ kept' \in SUBSET (Member \X Role)
    BY <1>8, Toggles DEF Restart, Decided, Mapped, Typed
  <2>2. queue' \in Seq(Event)
    BY <1>8 DEF Restart
  <2>3. cache' \in [msg : Nat, mapping : Mapping] /\ sweep' \in Sweeps
    BY <1>8, Blank DEF Restart
  <2> QED
    BY <1>8, <2>1, <2>2, <2>3 DEF Restart, Typed
<1>9. CASE MakeUnsafe
  BY <1>9 DEF MakeUnsafe, Typed
<1>10. CASE UNCHANGED vars
  BY <1>10 DEF vars, rolesVars, Typed
<1> QED
  BY <1>1, <1>2, <1>3, <1>4, <1>5, <1>6, <1>7, <1>8, <1>9, <1>10, Steps0

LEMMA WizardInvStep ==
  ASSUME WizardInv, [Next]_vars
  PROVE  WizardInv'
<1> DEFINE W == [step : {0} \union Steps, shown : SUBSET Steps,
                 reactions : Seq([emoji : Emoji, role : Role]), channel : BOOLEAN,
                 picker : Picker]
<1>1. wizard \in W /\ unsafe \in SUBSET Role /\ NoWizard \in W
  BY DEF WizardInv, WizardTypeOK, NoWizard, NoPicker, Picker, Steps
<1>2. CASE Wizard
  BY <1>2, WizardStep DEF Wizard
<1>3. CASE Publish
  BY <1>1, <1>3, WizardKeeps DEF Publish
<1>4. CASE MakeUnsafe
  <2>1. wizard' = wizard /\ unsafe' \in SUBSET Role
    BY <1>1, <1>4 DEF MakeUnsafe
  <2> QED
    BY <1>1, <2>1, WizardKeeps
<1>5. CASE UNCHANGED <<wizard, unsafe>>
  BY <1>1, <1>5, WizardKeeps
<1>6. \/ Wizard \/ Publish \/ MakeUnsafe \/ UNCHANGED <<wizard, unsafe>>
  BY Steps0
     DEF Click, HandleEvent, Sweeping, Sweep, SweepFetch, SweepApply, SweepEnd, SweepFrame, Edit,
         Refreshing, RetryRefresh, Repost, ClearReset, EndRefresh, NothingToRefresh, RefreshFails,
         EditorFrame, Resend, MessageDeleted, Restart, vars, wizardVars
<1> QED
  BY <1>2, <1>3, <1>4, <1>5, <1>6
-----------------------------------------------------------------------------
(* Numbers, the lock and the mapping                                       *)

LEMMA CountedStep ==
  ASSUME Typed, Counted, AtWork, [Next]_vars
  PROVE  Counted'
<1> USE DEF panelVars, wizardVars
<1>1. /\ msg \in Nat /\ edits \in Nat /\ cache.msg \in Nat /\ queue \in Seq(Event)
      /\ \A i \in 1 .. Len(queue) : queue[i] \in Event /\ queue[i].msg \in Nat
  <2>1. \A i \in 1 .. Len(queue) : queue[i] \in Event
    BY Elements DEF Typed
  <2> QED
    BY <2>1 DEF Typed, Event
\* The queue is as it was, or shorter.
<1>2. ASSUME msg' \in Nat, msg' >= msg, queue' = queue \/ queue' = <<>>,
             msg' + (IF owed' = "move" THEN 1 ELSE 0) <= edits' + 1,
             cache'.msg <= msg', msg' # 0
      PROVE  Counted'
  BY <1>1, <1>2 DEF Counted
<1>3. CASE Wizard
  BY <1>1, <1>3 DEF Wizard, rolesVars, Counted
<1>4. CASE Publish
  BY <1>1, <1>2, <1>4 DEF Publish, Counted, Typed
<1>5. ASSUME NEW m \in Member, NEW e \in Emoji, Click(m, e) PROVE Counted'
  <2>1. \A i \in 1 .. Len(queue') : queue'[i].msg <= msg'
    BY <1>1, <1>5, Clicked DEF Click, Counted
  <2> QED
    BY <1>5, <2>1 DEF Click, Counted
<1>6. CASE HandleEvent
  <2>1. \A i \in 1 .. Len(queue') : queue'[i].msg <= msg'
    BY <1>1, <1>6, Handled DEF HandleEvent, Counted
  <2> QED
    BY <1>6, <2>1 DEF HandleEvent, Counted
<1>7. CASE Sweeping
  <2>1. msg # 0 /\ SweepFrame /\ cache'.msg <= msg
    <3>1. cache' = cache \/ cache' = Version
      BY <1>7, Remembered DEF Sweeping, Sweep, SweepFetch, SweepApply
    <3>2. cache'.msg \in {cache.msg, msg}
      BY <3>1, Blank
    <3>3. msg # 0 /\ SweepFrame
      BY <1>7 DEF Sweeping, Sweep, SweepFetch, SweepApply, SweepEnd, Counted
    <3> QED
      BY <1>1, <3>2, <3>3 DEF Counted
  <2> QED
    BY <1>1, <1>2, <2>1, Blank DEF SweepFrame, Counted
<1>8. ASSUME NEW new \in Mapping, NEW moving \in BOOLEAN, Edit(new, moving) PROVE Counted'
  <2>1. PICK changed \in SUBSET Emoji :
           queue' = [i \in DOMAIN queue |->
                       [queue[i] EXCEPT !.old = @ \/ queue[i].emoji \in changed]]
    BY <1>8 DEF Edit
  <2>2. \A i \in 1 .. Len(queue') : queue'[i].msg <= msg'
    BY <1>1, <1>8, <2>1, Marked DEF Edit, Counted
  <2>3. msg' # 0 /\ msg' = msg /\ cache' = cache /\ edits' = edits + 1
    BY <1>8 DEF Edit
  <2>4. msg + 0 <= edits + 1 /\ msg \in Nat /\ edits \in Nat
    BY <1>1 DEF Counted, Typed
  <2>5. msg' + (IF owed' = "move" THEN 1 ELSE 0) <= edits' + 1
    BY <2>3, <2>4
  <2> QED
    BY <1>1, <2>2, <2>3, <2>5 DEF Counted
<1>9. CASE Refreshing
  <2>1. msg # 0 /\ EditorFrame /\ queue' = queue
    BY <1>9 DEF Refreshing, RetryRefresh, Repost, ClearReset, EndRefresh, NothingToRefresh,
                RefreshFails, Counted, AtWork
  <2>2. \/ msg' = msg /\ owed' \in {owed, "none"}
        \/ owed = "move" /\ msg' = msg + 1 /\ owed' = "refresh"
    BY <1>9 DEF Refreshing, RetryRefresh, Repost, ClearReset, EndRefresh, NothingToRefresh,
                RefreshFails
  <2>3. cache' = cache \/ cache'.msg = 0
    BY <1>9, Blank DEF Refreshing, RetryRefresh, Repost, ClearReset, EndRefresh, NothingToRefresh,
                       RefreshFails, Refreshed
  <2>4. edits' = edits
    BY <2>1 DEF EditorFrame
  <2> QED
    BY <1>1, <1>2, <2>1, <2>2, <2>3, <2>4 DEF Counted
<1>10. CASE Resend \/ MessageDeleted
  <2>1. cache'.msg \in {cache.msg, 0}
    BY <1>10, Blank DEF Resend, MessageDeleted
  <2> QED
    BY <1>1, <1>2, <1>10, <2>1 DEF Resend, MessageDeleted, Counted
<1>11. CASE Restart
  BY <1>1, <1>2, <1>11, Blank DEF Restart, Counted
<1>12. CASE MakeUnsafe
  BY <1>12 DEF MakeUnsafe, Counted
<1>13. CASE UNCHANGED vars
  BY <1>13 DEF vars, rolesVars, Counted
<1> QED
  BY <1>3, <1>4, <1>5, <1>6, <1>7, <1>8, <1>9, <1>10, <1>11, <1>12, <1>13, Steps0

LEMMA AtWorkStep ==
  ASSUME Typed, Counted, AtWork, [Next]_vars
  PROVE  AtWork'
<1> USE DEF panelVars, wizardVars
<1>1. ASSUME UNCHANGED <<msg, mapping, pending, owed, orphaned, cache, lock, sweep>> PROVE AtWork'
  <2>1. Mapped' = Mapped /\ Version' = Version
    BY <1>1 DEF Mapped, Version
  <2> QED
    BY <1>1, <2>1 DEF AtWork
<1>3. CASE Publish
  BY <1>3 DEF Publish, AtWork, Counted
<1>4. CASE Sweep
  <2>1. Mapped' = Mapped /\ Version' = Version /\ msg \in Nat /\ msg' = msg
    BY <1>4 DEF Sweep, SweepFrame, Mapped, Version, Typed
  <2>2. sweep'.msg = msg /\ sweep'.todo = Mapped /\ sweep'.emoji = None
    BY <1>4 DEF Sweep, NoSweep
  <2> QED
    BY <1>4, <2>1, <2>2 DEF Sweep, SweepFrame, AtWork
<1>5. CASE SweepFetch
  <2>1. PICK e \in sweep.todo :
           \/ sweep' = [sweep EXCEPT !.todo = @ \ {e}, !.failed = TRUE]
           \/ \E users \in SUBSET Member :
                 e \notin pending /\ sweep' = [sweep EXCEPT !.emoji = e, !.users = users]
    BY <1>5, Fetched
  <2>2. sweep.emoji = None /\ lock = "sweep"
    BY <1>5 DEF SweepFetch
  <2>3. /\ sweep'.todo \subseteq sweep.todo /\ sweep'.msg = sweep.msg
        /\ sweep'.emoji # None => sweep'.emoji \in sweep'.todo \ pending
    <3>1. CASE sweep' = [sweep EXCEPT !.todo = @ \ {e}, !.failed = TRUE]
      BY <2>2, <3>1 DEF Typed, Sweeps
    <3>2. CASE \E users \in SUBSET Member :
                  e \notin pending /\ sweep' = [sweep EXCEPT !.emoji = e, !.users = users]
      BY <3>2 DEF Typed, Sweeps
    <3> QED
      BY <2>1, <3>1, <3>2
  <2>4. Mapped' = Mapped /\ Version' = Version
    BY <1>5 DEF SweepFetch, SweepFrame, Mapped, Version
  <2> QED
    BY <1>5, <2>2, <2>3, <2>4 DEF SweepFetch, SweepFrame, AtWork
<1>6. CASE SweepApply
  <2>1. PICK refused : Applies(sweep.emoji, refused)
    BY <1>6, Applied
  <2>2. sweep'.todo \subseteq sweep.todo /\ sweep'.emoji = None /\ sweep'.msg = sweep.msg
    BY <2>1 DEF Applies, Typed, Sweeps
  <2> QED
    BY <1>6, <2>2 DEF SweepApply, SweepFrame, AtWork, Version, Mapped
<1>7. CASE SweepEnd
  BY <1>7 DEF SweepEnd, SweepFrame, AtWork
<1>8. CASE \E new \in Mapping, moving \in BOOLEAN : Edit(new, moving)
  BY <1>8 DEF Edit, Queued, AtWork
<1>9. CASE Refreshing
  BY <1>9 DEF Refreshing, RetryRefresh, Repost, ClearReset, EndRefresh, NothingToRefresh,
              RefreshFails, EditorFrame, AtWork
<1>10. CASE Resend \/ MessageDeleted
  <2>1. /\ Mapped' = Mapped /\ UNCHANGED <<pending, orphaned, lock>>
        /\ msg' \in Nat /\ (msg' = msg \/ msg' > msg) /\ (owed # "none" => owed' # "none")
        /\ lock # "editor" \/ owed' = owed
    BY <1>10 DEF Resend, MessageDeleted, Mapped, Typed
  <2>2. msg \in Nat /\ sweep.msg \in Nat
    BY DEF Typed, Sweeps
  <2>3. lock = "sweep" => cache' # Version'
    <3>1. CASE Resend
      BY <2>1, <3>1 DEF Resend, NoVersion, Version, Typed
    <3>2. CASE MessageDeleted
      BY <3>2 DEF MessageDeleted, AtWork, Version
    <3> QED
      BY <1>10, <3>1, <3>2
  <2>4. lock = "sweep" => sweep'.msg <= msg' /\ sweep'.todo \subseteq Mapped'
    BY <1>10, <2>1, <2>2, Displaced DEF AtWork
  <2>5. lock = "sweep" /\ sweep'.emoji # None => sweep'.emoji \in sweep'.todo \ pending'
    BY <1>10, <2>1, Displaced DEF AtWork
  <2> QED
    BY <1>10, <2>1, <2>3, <2>4, <2>5, Displaced DEF AtWork
<1>11. CASE Restart
  BY <1>11 DEF Restart, AtWork
<1>12. \/ Publish \/ Sweeping \/ (\E new \in Mapping, moving \in BOOLEAN : Edit(new, moving))
       \/ Refreshing \/ Resend \/ MessageDeleted \/ Restart
       \/ UNCHANGED <<msg, mapping, pending, owed, orphaned, cache, lock, sweep>>
  BY Steps0 DEF Wizard, Click, HandleEvent, MakeUnsafe, vars, rolesVars
<1> QED
  BY <1>1, <1>3, <1>4, <1>5, <1>6, <1>7, <1>8, <1>9, <1>10, <1>11, <1>12 DEF Sweeping

LEMMA OneEmojiStep ==
  ASSUME WizardInv, Counted, AtWork, OneEmojiPerRole, Typed, [Next]_vars
  PROVE  OneEmojiPerRole'
<1> USE DEF panelVars, wizardVars
<1>1. CASE Publish
  BY <1>1, ChosenMeans DEF Publish, OneEmojiPerRole, Mapped
<1>2. CASE \E new \in Mapping, moving \in BOOLEAN : Edit(new, moving)
  BY <1>2 DEF Edit, Valid, OneEmojiPerRole, Mapped
<1>3. CASE mapping' = mapping /\ (msg = 0 => msg' = 0)
  BY <1>3 DEF OneEmojiPerRole, Mapped
<1>4. CASE Refreshing
  <2>1. mapping' = mapping /\ msg # 0
    BY <1>4 DEF Refreshing, RetryRefresh, Repost, ClearReset, EndRefresh, NothingToRefresh,
                RefreshFails, EditorFrame, Counted, AtWork
  <2> QED
    BY <1>3, <2>1
<1>5. \/ Publish \/ (\E new \in Mapping, moving \in BOOLEAN : Edit(new, moving)) \/ Refreshing
      \/ mapping' = mapping /\ (msg = 0 => msg' = 0)
  BY Steps0 DEF Wizard, Click, HandleEvent, Sweeping, Sweep, SweepFetch, SweepApply, SweepEnd,
       SweepFrame, Resend, MessageDeleted, Restart, MakeUnsafe, vars, rolesVars
<1> QED
  BY <1>1, <1>2, <1>3, <1>4, <1>5
-----------------------------------------------------------------------------
(* Events                                                                  *)

\* The queue as the proofs read it.
LEMMA QueueTyped ==
  ASSUME Typed
  PROVE  /\ Len(queue) \in Nat
         /\ \A i \in 1 .. Len(queue) :
               /\ queue[i] \in Event /\ queue[i].member \in Member /\ queue[i].emoji \in Emoji
               /\ queue[i].msg \in Nat \ {0} /\ queue[i].add \in BOOLEAN /\ queue[i].old \in BOOLEAN
<1>1. Len(queue) \in Nat /\ \A i \in 1 .. Len(queue) : queue[i] \in Event
  BY Elements DEF Typed
<1> QED
  BY <1>1 DEF Event

\* No event is of a message that was only just posted.
LEMMA NewMessage ==
  ASSUME Typed, Counted, queue' = queue, msg' \in Nat, msg' > msg
  PROVE  \A i \in 1 .. Len(queue') : queue'[i].msg # msg'
BY QueueTyped DEF Typed, Counted

LEMMA EventsStep ==
  ASSUME Typed, Counted, EventsTell, [Next]_vars
  PROVE  EventsTell'
<1> USE DEF panelVars, wizardVars
<1>1. Len(queue) \in Nat /\ \A i \in 1 .. Len(queue) : queue[i] \in Event
  BY QueueTyped
<1>2. CASE UNCHANGED <<msg, queue, reacted, pending>>
  BY <1>2 DEF EventsTell
<1>3. CASE queue' = queue /\ msg' \in Nat /\ msg' > msg
  BY <1>3, NewMessage DEF EventsTell
<1>4. CASE queue' = <<>>
  BY <1>4 DEF EventsTell
<1>5. ASSUME NEW m \in Member, NEW e \in Emoji, Click(m, e) PROVE EventsTell'
  <2> DEFINE n == Len(queue) + 1
  <2>1. /\ Len(queue') = n
        /\ \A i \in 1 .. Len(queue) : queue'[i] = queue[i]
        /\ queue'[n].member = m /\ queue'[n].emoji = e /\ queue'[n].msg = msg
        /\ queue'[n].add <=> <<m, e>> \notin reacted
        /\ queue'[n].old <=> e \in pending
    BY <1>5, Clicked
  <2>2. msg' = msg /\ pending' = pending /\ reacted' = Toggled(<<m, e>>)
    BY <1>5 DEF Click
  <2>3. /\ <<m, e>> \in reacted' <=> <<m, e>> \notin reacted
        /\ \A k \in Member, f \in Emoji :
              k # m \/ f # e => (<<k, f>> \in reacted' <=> <<k, f>> \in reacted)
    BY <2>2, Toggles
  <2>4. ASSUME NEW i \in 1 .. Len(queue), queue[i].msg = msg, ~queue[i].old
        PROVE  \/ queue[i].add <=> <<queue[i].member, queue[i].emoji>> \in reacted'
               \/ \E j \in i + 1 .. n :
                     /\ queue'[j].msg = msg
                     /\ queue'[j].member = queue[i].member /\ queue'[j].emoji = queue[i].emoji
    <3>1. CASE queue[i].member = m /\ queue[i].emoji = e
      BY <1>1, <2>1, <3>1
    <3>2. CASE queue[i].member # m \/ queue[i].emoji # e
      <4>1. <<queue[i].member, queue[i].emoji>> \in reacted'
               <=> <<queue[i].member, queue[i].emoji>> \in reacted
        BY <2>3, <3>2, QueueTyped
      <4>2. CASE queue[i].add <=> <<queue[i].member, queue[i].emoji>> \in reacted
        BY <4>1, <4>2
      <4>3. CASE \E j \in i + 1 .. Len(queue) :
                    /\ queue[j].msg = msg
                    /\ queue[j].member = queue[i].member /\ queue[j].emoji = queue[i].emoji
        BY <1>1, <2>1, <4>3
      <4> QED
        BY <2>4, <4>2, <4>3 DEF EventsTell
    <3> QED
      BY <3>1, <3>2
  <2>5. \A i \in 1 .. n : queue'[i].msg = msg' /\ queue'[i].emoji \in pending' => queue'[i].old
    BY <1>1, <2>1, <2>2 DEF EventsTell
  <2>6. \A i \in 1 .. n : queue'[i].msg = msg' /\ ~queue'[i].old =>
           \/ queue'[i].add <=> <<queue'[i].member, queue'[i].emoji>> \in reacted'
           \/ \E j \in i + 1 .. n :
                 /\ queue'[j].msg = msg'
                 /\ queue'[j].member = queue'[i].member /\ queue'[j].emoji = queue'[i].emoji
    BY <1>1, <2>1, <2>2, <2>3, <2>4
  <2> HIDE DEF n
  <2> QED
    BY <2>1, <2>5, <2>6 DEF EventsTell
<1>6. CASE HandleEvent
  <2>1. /\ Len(queue') = Len(queue) - 1
        /\ \A i \in 1 .. Len(queue) - 1 : queue'[i] = queue[i + 1]
        /\ UNCHANGED <<msg, reacted, pending>>
    BY <1>6, Handled DEF HandleEvent
  <2>2. \A i \in 1 .. Len(queue') :
          queue'[i].msg = msg' /\ queue'[i].emoji \in pending' => queue'[i].old
    BY <1>1, <2>1 DEF EventsTell
  <2>3. ASSUME NEW i \in 1 .. Len(queue'), queue'[i].msg = msg', ~queue'[i].old
        PROVE  \/ queue'[i].add <=> <<queue'[i].member, queue'[i].emoji>> \in reacted'
               \/ \E j \in i + 1 .. Len(queue') :
                     /\ queue'[j].msg = msg'
                     /\ queue'[j].member = queue'[i].member /\ queue'[j].emoji = queue'[i].emoji
    <3>1. i + 1 \in 1 .. Len(queue) /\ queue'[i] = queue[i + 1]
      BY <1>1, <2>1
    <3>2. CASE queue'[i].add <=> <<queue'[i].member, queue'[i].emoji>> \in reacted
      BY <2>1, <3>2
    <3>3. CASE \E j \in (i + 1) + 1 .. Len(queue) :
                  /\ queue[j].msg = msg
                  /\ queue[j].member = queue[i + 1].member /\ queue[j].emoji = queue[i + 1].emoji
      <4>1. PICK j \in (i + 1) + 1 .. Len(queue) :
                  /\ queue[j].msg = msg
                  /\ queue[j].member = queue[i + 1].member /\ queue[j].emoji = queue[i + 1].emoji
        BY <3>3
      <4>2. j - 1 \in i + 1 .. Len(queue') /\ queue'[j - 1] = queue[j]
        BY <1>1, <2>1
      <4> QED
        BY <2>1, <3>1, <4>1, <4>2
    <3> QED
      BY <2>1, <2>3, <3>1, <3>2, <3>3 DEF EventsTell
  <2> QED
    BY <2>2, <2>3 DEF EventsTell
<1>7. ASSUME NEW new \in Mapping, NEW moving \in BOOLEAN, Edit(new, moving) PROVE EventsTell'
  <2>1. PICK changed \in SUBSET Emoji :
           /\ pending' = pending \union changed
           /\ queue' = [i \in DOMAIN queue |->
                          [queue[i] EXCEPT !.old = @ \/ queue[i].emoji \in changed]]
    BY <1>7 DEF Edit
  <2>2. /\ Len(queue') = Len(queue)
        /\ \A i \in 1 .. Len(queue) :
              /\ queue'[i].msg = queue[i].msg /\ queue'[i].add = queue[i].add
              /\ queue'[i].member = queue[i].member /\ queue'[i].emoji = queue[i].emoji
              /\ queue'[i].old <=> queue[i].old \/ queue[i].emoji \in changed
    BY <2>1, Marked DEF Typed
  <2>3. msg' = msg /\ reacted' = reacted
    BY <1>7 DEF Edit
  <2>4. \A i \in 1 .. Len(queue') :
          queue'[i].msg = msg' /\ queue'[i].emoji \in pending' => queue'[i].old
    <3> SUFFICES ASSUME NEW i \in 1 .. Len(queue'), queue'[i].msg = msg',
                        queue'[i].emoji \in pending'
                 PROVE  queue'[i].old
      OBVIOUS
    <3>3. i \in 1 .. Len(queue) /\ queue[i].msg = msg /\ queue[i].emoji \in pending \union changed
      BY <2>1, <2>2, <2>3
    <3>1. CASE queue[i].emoji \in pending
      BY <2>2, <3>1, <3>3 DEF EventsTell
    <3>2. CASE queue[i].emoji \in changed
      BY <2>2, <3>2, <3>3
    <3> QED
      BY <3>1, <3>2, <3>3
  <2>5. ASSUME NEW i \in 1 .. Len(queue'), queue'[i].msg = msg', ~queue'[i].old
        PROVE  \/ queue'[i].add <=> <<queue'[i].member, queue'[i].emoji>> \in reacted'
               \/ \E j \in i + 1 .. Len(queue') :
                     /\ queue'[j].msg = msg'
                     /\ queue'[j].member = queue'[i].member /\ queue'[j].emoji = queue'[i].emoji
    BY <1>1, <2>2, <2>3, <2>5 DEF EventsTell
  <2> QED
    BY <2>4, <2>5 DEF EventsTell
<1>8. CASE ClearReset
  <2>1. PICK e \in pending : Cleared(e) /\ pending' = pending \ {e}
    BY <1>8 DEF ClearReset
  <2>2. UNCHANGED <<msg, queue>>
    BY <1>8 DEF ClearReset
  <2>3. \A i \in 1 .. Len(queue) : queue[i].msg = msg /\ ~queue[i].old =>
           (<<queue[i].member, queue[i].emoji>> \in reacted'
              <=> <<queue[i].member, queue[i].emoji>> \in reacted)
    BY <2>1 DEF EventsTell, Cleared
  <2> QED
    BY <2>1, <2>2, <2>3 DEF EventsTell
<1>9. \/ \E m \in Member, e \in Emoji : Click(m, e)
      \/ HandleEvent \/ ClearReset
      \/ \E new \in Mapping, moving \in BOOLEAN : Edit(new, moving)
      \/ UNCHANGED <<msg, queue, reacted, pending>>
      \/ queue' = queue /\ msg' \in Nat /\ msg' > msg
      \/ queue' = <<>>
  <2>1. Sweeping => UNCHANGED <<msg, queue, reacted, pending>>
    BY DEF Sweeping, Sweep, SweepFetch, SweepApply, SweepEnd, SweepFrame
  <2>2. RetryRefresh \/ EndRefresh \/ NothingToRefresh \/ RefreshFails
           => UNCHANGED <<msg, queue, reacted, pending>>
    BY DEF RetryRefresh, EndRefresh, NothingToRefresh, RefreshFails, EditorFrame
  <2>3. Publish \/ Repost \/ Resend => queue' = queue /\ msg' \in Nat /\ msg' > msg
    BY DEF Publish, Repost, Resend, Typed
  <2>4. Wizard \/ MakeUnsafe \/ MessageDeleted \/ UNCHANGED vars
           => UNCHANGED <<msg, queue, reacted, pending>>
    BY DEF Wizard, MakeUnsafe, MessageDeleted, vars, rolesVars
  <2>5. Restart => queue' = <<>>
    BY DEF Restart
  <2> QED
    BY <2>1, <2>2, <2>3, <2>4, <2>5, Steps0 DEF Refreshing
<1> QED
  BY <1>2, <1>3, <1>4, <1>5, <1>6, <1>7, <1>8, <1>9
-----------------------------------------------------------------------------
(* Roles that are kept                                                     *)

LEMMA KeptClick ==
  ASSUME Typed, Keeps, NEW m \in Member, NEW e \in Emoji, Click(m, e)
  PROVE  Keeps'
<1>1. /\ Len(queue') = Len(queue) + 1 /\ Len(queue) \in Nat
      /\ \A i \in 1 .. Len(queue) : queue'[i] = queue[i]
      /\ LET ev == queue'[Len(queue) + 1] IN
            ev.member = m /\ ev.emoji = e /\ (ev.old <=> e \in pending)
  BY Clicked
<1>2. /\ kept' = Decided(m, e) /\ reacted' = Toggled(<<m, e>>)
      /\ UNCHANGED <<msg, mapping, tracked, pending, holds, lock, sweep>>
  BY DEF Click, panelVars
<1>3. kept' \subseteq kept /\ (e \notin pending => <<m, mapping[e]>> \notin kept')
  BY <1>2 DEF Decided
<1>4. KeptHeld' /\ KeptLists' /\ KeptUsers' /\ KeptOld'
  BY <1>2, <1>3 DEF Keeps, KeptHeld, KeptLists, KeptUsers, KeptOld, Mapped
<1>5. KeptEvents'
  <2> SUFFICES ASSUME NEW i \in 1 .. Len(queue'), queue'[i].msg = msg', ~queue'[i].old,
                      queue'[i].emoji \in Mapped'
               PROVE  <<queue'[i].member, mapping'[queue'[i].emoji]>> \notin kept'
    BY DEF KeptEvents
  <2>1. CASE i = Len(queue) + 1
    BY <1>1, <1>2, <1>3, <2>1
  <2>2. CASE i \in 1 .. Len(queue)
    BY <1>1, <1>2, <1>3, <2>2 DEF Keeps, KeptEvents, Mapped
  <2> QED
    BY <1>1, <2>1, <2>2
<1>6. KeptReacted'
  <2>1. \A k \in Member, f \in Emoji :
           k # m \/ f # e => (<<k, f>> \in reacted' <=> <<k, f>> \in reacted)
    BY <1>2, Toggles
  <2> SUFFICES ASSUME NEW f \in Mapped \ pending, NEW k \in Member, <<k, f>> \in reacted'
               PROVE  <<k, mapping[f]>> \notin kept'
    BY <1>2 DEF KeptReacted, Mapped
  <2>2. CASE k = m /\ f = e
    BY <1>3, <2>2
  <2>3. CASE k # m \/ f # e
    BY <1>3, <2>1, <2>3 DEF Keeps, KeptReacted, Mapped
  <2> QED
    BY <2>2, <2>3
<1> QED
  BY <1>4, <1>5, <1>6 DEF Keeps

\* The rest of the queue.
LEMMA KeptPop ==
  ASSUME Typed, KeptEvents, HandleEvent
  PROVE  KeptEvents'
<1>1. /\ Len(queue') = Len(queue) - 1 /\ Len(queue) \in Nat
      /\ \A i \in 1 .. Len(queue) - 1 : queue'[i] = queue[i + 1]
  BY Handled
<1>2. UNCHANGED <<msg, mapping, kept>>
  BY DEF HandleEvent
<1> SUFFICES ASSUME NEW i \in 1 .. Len(queue'), queue'[i].msg = msg', ~queue'[i].old,
                    queue'[i].emoji \in Mapped'
             PROVE  <<queue'[i].member, mapping'[queue'[i].emoji]>> \notin kept'
  BY DEF KeptEvents
<1>3. i + 1 \in 1 .. Len(queue) /\ queue'[i] = queue[i + 1]
  BY <1>1
<1> QED
  BY <1>2, <1>3 DEF KeptEvents, Mapped

LEMMA KeptHandle ==
  ASSUME Typed, Keeps, HandleEvent, ~late'
  PROVE  Keeps'
<1>1. UNCHANGED <<msg, mapping, pending, reacted, kept, lock, sweep>> /\ lock = "none"
  BY DEF HandleEvent
<1>2. KeptEvents'
  BY KeptPop DEF Keeps
<1>3. KeptUsers' /\ KeptReacted' /\ KeptOld'
  BY <1>1 DEF Keeps, KeptUsers, KeptReacted, KeptOld, Mapped
<1>4. CASE Obeys
  <2> DEFINE ev == queue[1]
  <2>1. /\ ev \in Event /\ ev.member \in Member /\ ev.emoji \in Emoji /\ 1 \in 1 .. Len(queue)
    BY Handled DEF Event
  <2>2. Followed(ev) /\ ev.msg = msg /\ ~ev.old
    BY <1>4, <2>1, Obeyed DEF Obeys, Heard
  <2>3. <<ev.member, mapping[ev.emoji]>> \notin kept
    BY <2>1, <2>2 DEF Followed, Governed, Keeps, KeptEvents
  <2> HIDE DEF ev
  <2>4. KeptHeld'
    BY <1>1, <2>2, <2>3 DEF Followed, Keeps, KeptHeld, Typed
  <2>5. KeptLists'
    <3> SUFFICES ASSUME NEW e \in Mapped, NEW m \in Member, <<m, mapping[e]>> \in kept
                 PROVE  tracked'[e] # NoList /\ m \notin tracked'[e]
      BY <1>1 DEF KeptLists, Mapped
    <3>1. tracked[e] # NoList /\ m \notin tracked[e] /\ e \in Emoji
      BY DEF Keeps, KeptLists, Mapped
    <3> QED
      BY <2>2, <2>3, <3>1 DEF Followed
  <2> QED
    BY <1>2, <1>3, <2>4, <2>5 DEF Keeps
<1>5. CASE Misses \/ Ignores
  BY <1>1, <1>2, <1>3, <1>5 DEF Misses, Ignores, Keeps, KeptHeld, KeptLists, Mapped
<1> QED
  BY <1>4, <1>5, Handled

LEMMA KeptSweep ==
  ASSUME Typed, AtWork, Keeps, Sweeping
  PROVE  Keeps'
<1>1. UNCHANGED <<msg, mapping, pending, reacted, queue, kept>>
  BY DEF Sweeping, Sweep, SweepFetch, SweepApply, SweepEnd, SweepFrame
<1>2. KeptEvents' /\ KeptReacted'
  BY <1>1 DEF Keeps, KeptEvents, KeptReacted, Mapped
<1>3. CASE Sweep \/ SweepEnd
  <2>1. sweep'.emoji = None /\ sweep'.old = {} /\ UNCHANGED <<tracked, holds>>
    <3>1. CASE Sweep
      <4>1. sweep' = [NoSweep EXCEPT !.msg = msg, !.todo = Mapped]
        BY <3>1 DEF Sweep
      <4>2. sweep'.emoji = None /\ sweep'.old = {}
        BY <4>1 DEF NoSweep
      <4> QED
        BY <3>1, <4>2 DEF Sweep
    <3>2. CASE SweepEnd
      BY <3>2 DEF SweepEnd, NoSweep
    <3> QED
      BY <1>3, <3>1, <3>2
  <2> QED
    BY <1>1, <1>2, <2>1 DEF Keeps, KeptHeld, KeptLists, KeptUsers, KeptOld, Mapped
<1>4. CASE SweepFetch
  <2>1. PICK e \in sweep.todo :
           \/ sweep' = [sweep EXCEPT !.todo = @ \ {e}, !.failed = TRUE]
           \/ \E users \in SUBSET Member :
                 /\ e \notin pending
                 /\ sweep' = [sweep EXCEPT !.emoji = e, !.users = users]
                 /\ users \subseteq {m \in Member : <<m, e>> \in reacted \union sweep.old}
    BY <1>4, Fetched
  <2>2. sweep.emoji = None /\ lock = "sweep" /\ lock' = "sweep" /\ UNCHANGED <<tracked, holds>>
    BY <1>4 DEF SweepFetch
  <2>3. /\ sweep'.old = sweep.old
        /\ \/ sweep'.emoji = None
           \/ /\ sweep'.emoji = e /\ e \notin pending
              /\ \A m \in sweep'.users : m \in Member /\ <<m, e>> \in reacted \union sweep.old
    <3>1. CASE sweep' = [sweep EXCEPT !.todo = @ \ {e}, !.failed = TRUE]
      BY <2>2, <3>1 DEF Typed, Sweeps
    <3>2. ASSUME NEW users \in SUBSET Member, e \notin pending,
                 sweep' = [sweep EXCEPT !.emoji = e, !.users = users],
                 users \subseteq {m \in Member : <<m, e>> \in reacted \union sweep.old}
          PROVE  /\ sweep'.old = sweep.old /\ sweep'.emoji = e
                 /\ \A m \in sweep'.users : m \in Member /\ <<m, e>> \in reacted \union sweep.old
      <4>1. sweep'.users = users /\ sweep'.old = sweep.old /\ sweep'.emoji = e
        BY <3>2 DEF Typed, Sweeps
      <4> QED
        BY <3>2, <4>1
    <3> QED
      BY <2>1, <3>1, <3>2
  <2>4. e \in Mapped
    BY <2>2 DEF AtWork
  <2>5. KeptUsers'
    BY <1>1, <2>2, <2>3, <2>4 DEF Keeps, KeptUsers, KeptReacted, KeptOld
  <2>6. KeptOld'
    BY <1>1, <2>2, <2>3 DEF Keeps, KeptOld, Mapped
  <2> QED
    BY <1>1, <1>2, <2>2, <2>5, <2>6 DEF Keeps, KeptHeld, KeptLists, Mapped
<1>5. CASE SweepApply
  <2> DEFINE e == sweep.emoji
  <2>1. PICK refused \in SUBSET Member : Applies(e, refused)
    BY <1>5, Applied
  <2>2. e \in Mapped /\ e \in Emoji /\ sweep.users \in SUBSET Member /\ Leavers(e) \in SUBSET Member
    BY <2>1 DEF Applies, Mapped, Typed, Sweeps, Leavers
  <2>3. \A m \in sweep.users : <<m, mapping[e]>> \notin kept
    BY <1>5 DEF SweepApply, Keeps, KeptUsers
  <2>4. \A m \in Leavers(e) : <<m, mapping[e]>> \notin kept
    BY <2>2 DEF Keeps, KeptLists, Leavers
  <2>5. /\ \A x \in holds : x \in holds' \/ \E m \in Leavers(e) \ refused : x = <<m, mapping[e]>>
        /\ tracked' = Track(e, sweep.users \ refused, Leavers(e) \ refused)
        /\ sweep'.emoji = None /\ sweep'.old = sweep.old /\ lock' = lock
    BY <1>5, <2>1 DEF Applies, SweepApply, Typed, Sweeps
  <2> HIDE DEF e
  <2>6. KeptHeld' /\ KeptUsers' /\ KeptOld'
    BY <1>1, <2>4, <2>5 DEF Keeps, KeptHeld, KeptUsers, KeptOld, Mapped
  <2>7. sweep.users \ refused \in SUBSET Member /\ Leavers(e) \ refused \in SUBSET Member
    BY <2>2
  <2>8. /\ \A f \in Emoji : f # e => tracked'[f] = tracked[f]
        /\ tracked[e] # NoList => /\ tracked'[e] # NoList
                                  /\ tracked'[e] = (tracked[e] \ (Leavers(e) \ refused))
                                                       \union (sweep.users \ refused)
    BY <2>2, <2>5, <2>7, Tracks
  <2>9. KeptLists'
    <3> SUFFICES ASSUME NEW f \in Mapped, NEW m \in Member, <<m, mapping[f]>> \in kept
                 PROVE  tracked'[f] # NoList /\ m \notin tracked'[f]
      BY <1>1 DEF KeptLists, Mapped
    <3>1. tracked[f] # NoList /\ m \notin tracked[f] /\ f \in Emoji
      BY DEF Keeps, KeptLists, Mapped
    <3> QED
      BY <2>3, <2>8, <3>1
  <2> QED
    BY <1>2, <2>6, <2>9 DEF Keeps
<1> QED
  BY <1>3, <1>4, <1>5 DEF Sweeping

\* An emoji that an edit leaves alone has a role that no other had, or gets.
LEMMA KeptEdit ==
  ASSUME Typed, OneEmojiPerRole, Keeps, NEW new \in Mapping, NEW moving \in BOOLEAN,
         Edit(new, moving)
  PROVE  Keeps'
<1>1. PICK changed \in SUBSET Emoji :
         /\ \A e \in Emoji \ changed : new[e] = mapping[e]
         /\ tracked' = Relisted(changed)
         /\ pending' = pending \union changed
         /\ queue' = [i \in DOMAIN queue |->
                        [queue[i] EXCEPT !.old = @ \/ queue[i].emoji \in changed]]
         /\ kept' = kept \union {x \in holds : \E e \in changed : x[2] \in {mapping[e], new[e]}}
  BY DEF Edit
<1>2. /\ mapping' = new /\ lock' = "editor" /\ Valid(new) /\ msg # 0
      /\ UNCHANGED <<msg, reacted, holds>>
  BY DEF Edit
<1>3. ASSUME NEW f \in Mapped', f \notin changed, NEW m \in Member, <<m, mapping'[f]>> \in kept'
      PROVE  f \in Mapped /\ mapping'[f] = mapping[f] /\ <<m, mapping[f]>> \in kept
  <2>1. f \in Mapped /\ mapping'[f] = mapping[f] /\ new[f] = mapping[f] /\ f \in Emoji
    BY <1>1, <1>2, <1>3 DEF Mapped
  <2>2. \A e \in changed : mapping[e] # mapping[f] /\ new[e] # new[f]
    BY <1>2, <1>3, <2>1 DEF OneEmojiPerRole, Valid, Mapped
  <2>3. <<m, mapping[f]>> \in kept
    BY <1>1, <1>3, <2>1, <2>2
  <2> QED
    BY <2>1, <2>3
<1>4. /\ Len(queue') = Len(queue)
      /\ \A i \in 1 .. Len(queue) :
            /\ queue'[i].msg = queue[i].msg /\ queue'[i].member = queue[i].member
            /\ queue'[i].emoji = queue[i].emoji
            /\ queue'[i].old <=> queue[i].old \/ queue[i].emoji \in changed
  BY <1>1, Marked DEF Typed
<1>5. KeptHeld' /\ KeptUsers' /\ KeptOld'
  BY <1>1, <1>2 DEF Keeps, KeptHeld, KeptUsers, KeptOld
<1>6. KeptEvents'
  <2> SUFFICES ASSUME NEW i \in 1 .. Len(queue'), queue'[i].msg = msg', ~queue'[i].old,
                      queue'[i].emoji \in Mapped'
               PROVE  <<queue'[i].member, mapping'[queue'[i].emoji]>> \notin kept'
    BY DEF KeptEvents
  <2>1. /\ i \in 1 .. Len(queue) /\ queue[i].msg = msg /\ ~queue[i].old
        /\ queue[i].emoji \notin changed /\ queue'[i].emoji = queue[i].emoji
        /\ queue'[i].member = queue[i].member /\ queue[i].member \in Member
    BY <1>2, <1>4, QueueTyped
  <2> QED
    BY <1>3, <2>1 DEF Keeps, KeptEvents
<1>7. KeptLists'
  <2> SUFFICES ASSUME NEW e \in Mapped', NEW m \in Member, <<m, mapping'[e]>> \in kept'
               PROVE  tracked'[e] # NoList /\ m \notin tracked'[e]
    BY DEF KeptLists
  <2>1. CASE e \in changed
    <3>1. tracked'[e] = {}
      BY <1>1, <2>1 DEF Relisted
    <3> QED
      BY <3>1 DEF NoList
  <2>2. CASE e \notin changed
    <3>1. e \in Mapped /\ <<m, mapping[e]>> \in kept
      BY <1>3, <2>2
    <3>2. tracked'[e] = tracked[e]
      BY <1>1, <2>2, <3>1 DEF Relisted, Mapped
    <3> QED
      BY <3>1, <3>2 DEF Keeps, KeptLists
  <2> QED
    BY <2>1, <2>2
<1>8. KeptReacted'
  <2> SUFFICES ASSUME NEW e \in Mapped' \ pending', NEW m \in Member, <<m, e>> \in reacted',
                      <<m, mapping'[e]>> \in kept'
               PROVE  FALSE
    BY DEF KeptReacted
  <2>1. e \in Mapped /\ <<m, mapping[e]>> \in kept /\ e \notin pending /\ <<m, e>> \in reacted
    BY <1>1, <1>2, <1>3
  <2> QED
    BY <2>1 DEF Keeps, KeptReacted
<1> QED
  BY <1>5, <1>6, <1>7, <1>8 DEF Keeps

LEMMA KeptRefresh ==
  ASSUME Typed, Counted, Keeps, Refreshing
  PROVE  Keeps'
<1>1. UNCHANGED <<mapping, holds, kept, sweep, queue>> /\ lock' # "sweep"
  BY DEF Refreshing, RetryRefresh, Repost, ClearReset, EndRefresh, NothingToRefresh, RefreshFails,
         EditorFrame
<1>2. KeptHeld' /\ KeptUsers' /\ KeptOld'
  BY <1>1 DEF Keeps, KeptHeld, KeptUsers, KeptOld
<1>3. CASE UNCHANGED <<msg, tracked, pending, reacted>>
  BY <1>1, <1>2, <1>3 DEF Keeps, KeptEvents, KeptLists, KeptReacted, Mapped
<1>4. CASE Repost
  <2>1. queue' = queue /\ msg' \in Nat /\ msg' > msg
    BY <1>4 DEF Repost, Typed
  <2>2. \A i \in 1 .. Len(queue') : queue'[i].msg # msg'
    BY <2>1, NewMessage
  <2>3. KeptEvents'
    BY <2>2 DEF KeptEvents
  <2>4. KeptLists' /\ KeptReacted'
    BY <1>4 DEF Repost, KeptLists, KeptReacted, Mapped, NoList
  <2> QED
    BY <1>2, <2>3, <2>4 DEF Keeps
<1>5. CASE ClearReset
  <2>1. PICK e \in pending : Cleared(e) /\ pending' = pending \ {e}
    BY <1>5 DEF ClearReset
  <2>2. UNCHANGED <<msg, tracked>>
    BY <1>5 DEF ClearReset
  <2>3. KeptEvents' /\ KeptLists'
    BY <1>1, <2>2 DEF Keeps, KeptEvents, KeptLists, Mapped
  <2>4. KeptReacted'
    BY <1>1, <2>1 DEF Keeps, KeptReacted, Mapped, Cleared
  <2> QED
    BY <1>2, <2>3, <2>4 DEF Keeps
<1> QED
  BY <1>3, <1>4, <1>5 DEF Refreshing, RetryRefresh, EndRefresh, NothingToRefresh, RefreshFails

LEMMA KeepsStep ==
  ASSUME Typed, Counted, AtWork, OneEmojiPerRole, KeepsInv, [Next]_vars
  PROVE  KeepsInv'
<1> SUFFICES ASSUME ~late' PROVE Keeps'
  BY DEF KeepsInv
<1>1. ~late
  BY Steps0
     DEF Wizard, Publish, Click, HandleEvent, Sweeping, Sweep, SweepFetch, SweepApply, SweepEnd,
         SweepFrame, Edit, Refreshing, RetryRefresh, Repost, ClearReset, EndRefresh,
         NothingToRefresh, RefreshFails, EditorFrame, Resend, MessageDeleted, Restart, MakeUnsafe,
         vars, rolesVars
<1>2. Keeps
  BY <1>1 DEF KeepsInv
<1> USE DEF panelVars, wizardVars
<1>3. CASE Wizard \/ MakeUnsafe \/ UNCHANGED vars
  <2>1. UNCHANGED <<msg, mapping, tracked, pending, reacted, queue, holds, kept, lock, sweep>>
    BY <1>3 DEF Wizard, MakeUnsafe, vars, rolesVars
  <2> QED
    BY <1>2, <2>1 DEF Keeps, KeptHeld, KeptEvents, KeptLists, KeptReacted, KeptUsers, KeptOld,
                      Mapped
<1>4. CASE Publish
  <2>1. kept' = {}
    BY <1>4 DEF Publish, Counted
  <2> QED
    BY <2>1 DEF Keeps, KeptHeld, KeptEvents, KeptLists, KeptReacted, KeptUsers, KeptOld
<1>5. ASSUME NEW m \in Member, NEW e \in Emoji, Click(m, e) PROVE Keeps'
  BY <1>2, <1>5, KeptClick
<1>6. CASE HandleEvent
  BY <1>2, <1>6, KeptHandle
<1>7. CASE Sweeping
  BY <1>2, <1>7, KeptSweep
<1>8. ASSUME NEW new \in Mapping, NEW moving \in BOOLEAN, Edit(new, moving) PROVE Keeps'
  BY <1>2, <1>8, KeptEdit
<1>9. CASE Refreshing
  BY <1>2, <1>9, KeptRefresh
<1>10. CASE Resend \/ MessageDeleted
  <2>1. /\ UNCHANGED <<mapping, tracked, pending, queue, holds, kept, lock>>
        /\ \/ reacted' = reacted /\ msg' = msg
           \/ reacted' = {} /\ msg' \in Nat /\ msg' > msg
    BY <1>10 DEF Resend, MessageDeleted, Typed
  <2>2. KeptEvents'
    <3>1. CASE msg' = msg
      BY <1>2, <2>1, <3>1 DEF Keeps, KeptEvents, Mapped
    <3>2. CASE msg' \in Nat /\ msg' > msg
      BY <2>1, <3>2, NewMessage DEF KeptEvents
    <3> QED
      BY <2>1, <3>1, <3>2
  <2>3. KeptHeld' /\ KeptLists' /\ KeptReacted'
    BY <1>2, <2>1 DEF Keeps, KeptHeld, KeptLists, KeptReacted, Mapped
  <2>4. /\ sweep'.emoji = sweep.emoji /\ sweep'.users = sweep.users
        /\ sweep'.old \subseteq sweep.old \union reacted
    BY <1>10, Displaced
  <2>5. KeptUsers'
    BY <1>2, <2>1, <2>4 DEF Keeps, KeptUsers
  <2>6. KeptOld'
    BY <1>2, <2>1, <2>4 DEF Keeps, KeptOld, KeptReacted, Mapped
  <2> QED
    BY <2>2, <2>3, <2>5, <2>6 DEF Keeps
<1>11. CASE Restart
  <2>1. /\ UNCHANGED <<mapping, tracked, pending, holds>> /\ queue' = <<>> /\ lock' = "none"
        /\ kept' \subseteq kept
    BY <1>11 DEF Restart, Decided
  <2>2. KeptHeld' /\ KeptEvents' /\ KeptLists' /\ KeptUsers' /\ KeptOld'
    BY <1>2, <2>1 DEF Keeps, KeptHeld, KeptEvents, KeptLists, KeptUsers, KeptOld, Mapped
  <2>3. CASE reacted' = reacted
    BY <1>2, <2>1, <2>2, <2>3 DEF Keeps, KeptReacted, Mapped
  <2>4. ASSUME NEW m \in Member, NEW e \in Mapped, reacted' = Toggled(<<m, e>>),
               kept' = Decided(m, e)
        PROVE  Keeps'
    <3>1. \A k \in Member, f \in Emoji :
             k # m \/ f # e => (<<k, f>> \in reacted' <=> <<k, f>> \in reacted)
      BY <2>4, Toggles DEF Mapped
    <3>2. e \notin pending => <<m, mapping[e]>> \notin kept'
      BY <2>4 DEF Decided
    <3>3. KeptReacted'
      <4> SUFFICES ASSUME NEW f \in Mapped \ pending, NEW k \in Member, <<k, f>> \in reacted'
                   PROVE  <<k, mapping[f]>> \notin kept'
        BY <2>1 DEF KeptReacted, Mapped
      <4>1. CASE k = m /\ f = e
        BY <3>2, <4>1
      <4>2. CASE k # m \/ f # e
        BY <1>2, <2>1, <3>1, <4>2 DEF Keeps, KeptReacted, Mapped
      <4> QED
        BY <4>1, <4>2
    <3> QED
      BY <2>2, <3>3 DEF Keeps
  <2> QED
    BY <1>11, <2>3, <2>4 DEF Restart
<1> QED
  BY <1>3, <1>4, <1>5, <1>6, <1>7, <1>8, <1>9, <1>10, <1>11, Steps0
-----------------------------------------------------------------------------
(* Roles that are settled                                                  *)

LEMMA DueFrame ==
  ASSUME UNCHANGED <<msg, mapping, tracked, reacted, queue, holds>>
  PROVE  /\ \A m \in Member, e \in Emoji : Waiting(m, e)' <=> Waiting(m, e)
         /\ \A m \in Member, e \in Emoji : Due(m, e)' <=> Due(m, e)
BY DEF Due, Waiting, AgreeOf

LEMMA DueClick ==
  ASSUME Typed, NEW m \in Member, NEW e \in Emoji, Click(m, e)
  PROVE  /\ Waiting(m, e)'
         /\ \A n \in Member, f \in Emoji : Waiting(n, f) => Waiting(n, f)'
         /\ \A n \in Member, f \in Emoji : Due(n, f) => Due(n, f)'
         /\ \A n \in Member, f \in Emoji : Read(n, f) => Read(n, f)'
<1>1. /\ Len(queue') = Len(queue) + 1 /\ Len(queue) \in Nat
      /\ \A i \in 1 .. Len(queue) : queue'[i] = queue[i]
      /\ LET ev == queue'[Len(queue) + 1] IN ev.member = m /\ ev.emoji = e /\ ev.msg = msg
  BY Clicked
<1>2. /\ reacted' = Toggled(<<m, e>>)
      /\ UNCHANGED <<msg, mapping, tracked, holds, sweep>>
  BY DEF Click, panelVars
<1>3. Waiting(m, e)'
  BY <1>1, <1>2 DEF Waiting
<1>4. \A n \in Member, f \in Emoji : Waiting(n, f) => Waiting(n, f)'
  BY <1>1, <1>2 DEF Waiting
<1>5. \A n \in Member, f \in Emoji :
         n # m \/ f # e => (<<n, f>> \in reacted' <=> <<n, f>> \in reacted)
  BY <1>2, Toggles
<1>6. ASSUME NEW n \in Member, NEW f \in Emoji PROVE Due(n, f) => Due(n, f)'
  <2>1. CASE n = m /\ f = e
    BY <1>3, <2>1 DEF Due
  <2>2. CASE n # m \/ f # e
    <3>1. AgreeOf(n, f)' <=> AgreeOf(n, f)
      BY <1>2, <1>5, <2>2 DEF AgreeOf
    <3> QED
      BY <1>4, <3>1 DEF Due
  <2> QED
    BY <2>1, <2>2
<1>7. ASSUME NEW n \in Member, NEW f \in Emoji PROVE Read(n, f) => Read(n, f)'
  <2>1. CASE n = m /\ f = e
    BY <1>3, <2>1 DEF Read
  <2>2. CASE n # m \/ f # e
    BY <1>2, <1>4, <1>5, <2>2 DEF Read
  <2> QED
    BY <2>1, <2>2
<1> QED
  BY <1>3, <1>4, <1>6, <1>7

\* An event that counts is the newest of its member and emoji, or another waits.
LEMMA DueHandle ==
  ASSUME Typed, OneEmojiPerRole, EventsTell, HandleEvent, Obeys \/ Ignores, ~late', msg # 0,
         NEW e \in Governed, e \notin pending, NEW m \in Member, Due(m, e)
  PROVE  Due(m, e)'
<1> DEFINE ev == queue[1]
<1>1. /\ Len(queue') = Len(queue) - 1 /\ Len(queue) \in Nat \ {0}
      /\ \A i \in 1 .. Len(queue) - 1 : queue'[i] = queue[i + 1]
      /\ ev \in Event
  BY Handled
<1>2. /\ UNCHANGED <<msg, mapping, pending, reacted, lock, sweep>>
      /\ e \in Emoji /\ mapping[e] # None /\ mapping[e] \in Role /\ mapping[e] \notin unsafe
  BY DEF HandleEvent, Governed, Mapped, Typed, Mapping
<1>3. ASSUME NEW j \in 2 .. Len(queue), queue[j].msg = msg, queue[j].member = m, queue[j].emoji = e
      PROVE  Waiting(m, e)'
  <2>1. j - 1 \in 1 .. Len(queue') /\ queue'[j - 1] = queue[j]
    BY <1>1, <1>3
  <2> QED
    BY <1>2, <1>3, <2>1 DEF Waiting
<1>4. ASSUME Waiting(m, e), ~(ev.msg = msg /\ ev.member = m /\ ev.emoji = e)
      PROVE  Due(m, e)'
  <2>1. PICK j \in 1 .. Len(queue) : queue[j].msg = msg /\ queue[j].member = m /\ queue[j].emoji = e
    BY <1>4 DEF Waiting
  <2>2. j \in 2 .. Len(queue)
    BY <1>1, <1>4, <2>1
  <2> QED
    BY <1>3, <2>1, <2>2 DEF Due
<1>5. CASE Ignores
  <2>1. ~(ev.msg = msg /\ ev.emoji = e)
    BY <1>2, <1>5 DEF Ignores, Heard, Mapped
  <2>2. AgreeOf(m, e) => AgreeOf(m, e)'
    BY <1>2, <1>5 DEF Ignores, AgreeOf
  <2> QED
    BY <1>4, <2>1, <2>2 DEF Due
<1>6. CASE Obeys
  <2>1. Followed(ev) /\ ev.msg = msg /\ ~ev.old
    BY <1>1, <1>6, Obeyed DEF Obeys, Heard, Event
  <2>2. ev.member \in Member /\ ev.emoji \in Emoji /\ ev.emoji \in Mapped
    BY <1>1, <2>1 DEF Event, Followed, Governed
  <2>3. CASE ev.member = m /\ ev.emoji = e
    <3>1. \/ ev.add <=> <<m, e>> \in reacted
          \/ \E j \in 2 .. Len(queue) :
                queue[j].msg = msg /\ queue[j].member = m /\ queue[j].emoji = e
      BY <1>1, <2>1, <2>3 DEF EventsTell
    <3>2. CASE ev.add <=> <<m, e>> \in reacted
      <4>1. <<m, mapping[e]>> \in holds' <=> <<m, e>> \in reacted
        BY <2>1, <2>3, <3>2 DEF Followed
      <4> QED
        BY <1>2, <4>1 DEF Due, AgreeOf
    <3> QED
      BY <1>3, <3>1, <3>2 DEF Due
  <2>4. CASE ~(ev.member = m /\ ev.emoji = e)
    <3>1. <<m, mapping[e]>> # <<ev.member, mapping[ev.emoji]>>
      BY <1>2, <2>2, <2>4 DEF OneEmojiPerRole, Mapped
    <3>2. <<m, mapping[e]>> \in holds' <=> <<m, mapping[e]>> \in holds
      BY <1>2, <2>1, <3>1 DEF Followed
    <3>3. (tracked'[e] = NoList <=> tracked[e] = NoList) /\ (m \in tracked'[e] <=> m \in tracked[e])
      <4>1. CASE e = ev.emoji
        BY <2>1, <2>4, <4>1 DEF Followed
      <4>2. CASE e # ev.emoji
        BY <1>2, <2>1, <4>2 DEF Followed
      <4> QED
        BY <4>1, <4>2
    <3>4. AgreeOf(m, e) => AgreeOf(m, e)'
      BY <1>2, <3>2, <3>3 DEF AgreeOf
    <3> QED
      BY <1>4, <2>4, <3>4 DEF Due
  <2> QED
    BY <2>3, <2>4
<1> QED
  BY <1>5, <1>6

\* One emoji is put right; the others are as they were.
LEMMA DueApply ==
  ASSUME Typed, OneEmojiPerRole, msg # 0, SweepApply, Applies(sweep.emoji, {}),
         \A m \in Member : Read(m, sweep.emoji),
         NEW f \in Mapped, NEW m \in Member, f # sweep.emoji => Due(m, f)
  PROVE  Due(m, f)'
<1>1. PICK e : e = sweep.emoji
  OBVIOUS
<1>2. /\ UNCHANGED <<msg, mapping, reacted, queue>>
      /\ e \in Mapped /\ e \in Emoji /\ f \in Emoji /\ sweep.users \in SUBSET Member
      /\ Leavers(e) \in SUBSET Member
  BY <1>1 DEF SweepApply, SweepFrame, Applies, Mapped, Typed, Sweeps, Leavers
<1>3. /\ tracked' = Track(e, sweep.users, Leavers(e))
      /\ \A n \in Member :
            <<n, mapping[e]>> \in holds' <=>
               n \in sweep.users \/ (<<n, mapping[e]>> \in holds /\ n \notin Leavers(e))
      /\ \A n \in Member, g \in Mapped :
            mapping[g] # mapping[e] =>
               (<<n, mapping[g]>> \in holds' <=> <<n, mapping[g]>> \in holds)
  <2>1. sweep.users \ {} = sweep.users /\ Leavers(e) \ {} = Leavers(e)
    OBVIOUS
  <2> QED
    BY <1>1, <2>1 DEF Applies
<1>4. /\ \A g \in Emoji : g # e => tracked'[g] = tracked[g]
      /\ tracked[e] = NoList => tracked'[e] = NoList
      /\ tracked[e] # NoList => /\ tracked'[e] = (tracked[e] \ Leavers(e)) \union sweep.users
                                /\ tracked'[e] # NoList
  BY <1>2, <1>3, Tracks
<1>5. Waiting(m, f)' <=> Waiting(m, f)
  BY <1>2 DEF Waiting
<1>6. CASE f = e
  <2>1. CASE Waiting(m, f)
    BY <1>5, <2>1 DEF Due
  <2>2. CASE ~Waiting(m, f)
    <3>1. m \in sweep.users <=> <<m, e>> \in reacted
      BY <1>1, <1>6, <2>2 DEF Read
    <3>2. m \notin sweep.users /\ (tracked'[e] = NoList \/ m \in tracked'[e]) =>
             <<m, mapping[e]>> \notin holds'
      BY <1>3, <1>4 DEF Leavers
    <3>3. m \in sweep.users => <<m, mapping[e]>> \in holds'
      BY <1>3
    <3>4. AgreeOf(m, e)'
      BY <1>2, <3>1, <3>2, <3>3 DEF AgreeOf
    <3> QED
      BY <1>6, <3>4 DEF Due
  <2> QED
    BY <2>1, <2>2
<1>7. CASE f # e
  <2>1. mapping[f] # mapping[e]
    BY <1>2, <1>7 DEF OneEmojiPerRole
  <2>2. AgreeOf(m, f)' <=> AgreeOf(m, f)
    BY <1>2, <1>3, <1>4, <1>7, <2>1 DEF AgreeOf
  <2> QED
    BY <1>1, <1>5, <1>7, <2>2 DEF Due
<1> QED
  BY <1>6, <1>7
LEMMA DueSweep ==
  ASSUME Typed, Counted, AtWork, OneEmojiPerRole, DueInv, Sweeping, owed' = "none", there', ~late'
  PROVE  CacheTrue' /\ SweepTrue' /\ UsersTrue'
<1>1. /\ UNCHANGED <<msg, there, mapping, pending, reacted, queue, unsafe, owed, late, missed>>
      /\ msg # 0
  BY DEF Sweeping, Sweep, SweepFetch, SweepApply, SweepEnd, SweepFrame, wizardVars, Counted
<1>2. CacheTrue /\ SweepTrue /\ UsersTrue
  BY <1>1 DEF DueInv
<1>3. Governed' = Governed /\ Governed \subseteq Mapped /\ Mapped \subseteq Emoji
      /\ Version' = Version /\ Mapped' = Mapped
  BY <1>1 DEF Governed, Mapped, Version
<1>4. CASE Sweep
  <2>1. /\ sweep' = [NoSweep EXCEPT !.msg = msg, !.todo = Mapped]
        /\ UNCHANGED <<cache, holds, tracked>> /\ cache # Version
    BY <1>4 DEF Sweep
  <2>2. sweep'.todo = Mapped /\ sweep'.emoji = None
    BY <2>1 DEF NoSweep
  <2>3. CacheTrue'
    BY <1>3, <2>1 DEF CacheTrue
  <2> QED
    BY <1>3, <2>2, <2>3 DEF SweepTrue, UsersTrue
<1>5. CASE SweepFetch
  <2>1. PICK e \in sweep.todo :
           \/ sweep' = [sweep EXCEPT !.todo = @ \ {e}, !.failed = TRUE]
           \/ \E users \in SUBSET Member :
                 /\ sweep' = [sweep EXCEPT !.emoji = e, !.users = users]
                 /\ sweep.msg = msg => users = {m \in Member : <<m, e>> \in reacted}
    BY <1>5, Fetched
  <2>2. UNCHANGED <<cache, holds, tracked, lock>> /\ lock = "sweep" /\ sweep.emoji = None
        /\ cache # Version
    BY <1>5 DEF SweepFetch, AtWork
  <2>3. \A m \in Member, f \in Emoji : Due(m, f)' <=> Due(m, f)
    BY <1>1, <2>2, DueFrame
  <2>4. CacheTrue'
    BY <1>3, <2>2 DEF CacheTrue
  <2>5. CASE sweep' = [sweep EXCEPT !.todo = @ \ {e}, !.failed = TRUE]
    <3>1. sweep'.failed = TRUE /\ sweep'.emoji = None
      BY <2>2, <2>5 DEF Typed, Sweeps
    <3> QED
      BY <2>4, <3>1 DEF SweepTrue, UsersTrue
  <2>6. ASSUME NEW users \in SUBSET Member, sweep' = [sweep EXCEPT !.emoji = e, !.users = users],
               sweep.msg = msg => users = {m \in Member : <<m, e>> \in reacted}
        PROVE  CacheTrue' /\ SweepTrue' /\ UsersTrue'
    <3>1. /\ sweep'.failed = sweep.failed /\ sweep'.todo = sweep.todo /\ sweep'.emoji = e
          /\ sweep'.users = users /\ sweep'.msg = sweep.msg
      BY <2>6 DEF Typed, Sweeps
    <3>2. SweepTrue'
      BY <1>1, <1>2, <1>3, <2>2, <2>3, <3>1 DEF SweepTrue
    <3>3. UsersTrue'
      BY <1>1, <2>6, <3>1 DEF UsersTrue, Read
    <3> QED
      BY <2>4, <3>2, <3>3
  <2> QED
    BY <2>1, <2>5, <2>6
<1>6. CASE SweepApply
  <2>1. PICK refused \in SUBSET Member : Applies(sweep.emoji, refused)
    BY <1>6, Applied
  <2>2. /\ sweep'.emoji = None /\ sweep'.todo = sweep.todo \ {sweep.emoji}
        /\ sweep'.msg = sweep.msg
        /\ ~sweep'.failed => ~sweep.failed /\ refused = {}
    <3>1. sweep' = [sweep EXCEPT !.todo = @ \ {sweep.emoji}, !.emoji = None, !.users = {},
                                 !.failed = @ \/ refused # {}]
      BY <2>1 DEF Applies
    <3>2. /\ sweep'.emoji = None /\ sweep'.todo = sweep.todo \ {sweep.emoji}
          /\ sweep'.msg = sweep.msg
      BY <3>1 DEF Typed, Sweeps
    <3>3. sweep'.failed = (sweep.failed \/ refused # {})
      BY <3>1, Zenon DEF Typed, Sweeps
    <3> QED
      BY <3>2, <3>3
  <2>3. cache' = cache /\ cache # Version /\ lock = "sweep" /\ sweep.emoji # None
    BY <1>6 DEF SweepApply, AtWork
  <2>4. CacheTrue' /\ UsersTrue'
    BY <1>3, <2>2, <2>3 DEF CacheTrue, UsersTrue
  <2>5. ASSUME ~sweep'.failed, sweep.msg = msg, NEW f \in Governed \ sweep'.todo, NEW m \in Member
        PROVE  Due(m, f)'
    <3>1. Applies(sweep.emoji, {}) /\ ~sweep.failed
      BY <2>1, <2>2, <2>5
    <3>2. \A n \in Member : Read(n, sweep.emoji)
      BY <1>2, <2>3, <2>5 DEF UsersTrue
    <3>3. f \in Mapped /\ (f # sweep.emoji => Due(m, f))
      BY <1>2, <1>3, <2>2, <2>3, <2>5, <3>1 DEF SweepTrue
    <3> QED
      BY <1>1, <1>6, <3>1, <3>2, <3>3, DueApply
  <2>6. SweepTrue'
    BY <1>1, <1>3, <2>2, <2>5 DEF SweepTrue
  <2> QED
    BY <2>4, <2>6
<1>7. CASE SweepEnd
  <2>1. /\ UNCHANGED <<holds, tracked>> /\ lock = "sweep" /\ sweep.todo = {} /\ lock' = "none"
        /\ cache # Version
    BY <1>7 DEF SweepEnd, AtWork
  <2>2. \A m \in Member, f \in Emoji : Due(m, f)' <=> Due(m, f)
    BY <1>1, <2>1, DueFrame
  <2>3. SweepTrue' /\ UsersTrue'
    BY <2>1 DEF SweepTrue, UsersTrue
  <2>4. CASE ~sweep.failed /\ sweep.msg = msg
    <3>1. \A f \in Governed, m \in Member : Due(m, f)
      BY <1>2, <2>1, <2>4 DEF SweepTrue
    <3> QED
      BY <1>3, <2>2, <2>3, <3>1 DEF CacheTrue
  <2>5. CASE sweep.failed \/ sweep.msg # msg
    <3>1. cache' # Version'
      BY <1>3, <1>7, <2>1, <2>5, Remembered
    <3> QED
      BY <2>3, <3>1 DEF CacheTrue
  <2> QED
    BY <2>4, <2>5
<1> QED
  BY <1>4, <1>5, <1>6, <1>7 DEF Sweeping

LEMMA DueStep ==
  ASSUME Typed, Counted, AtWork, OneEmojiPerRole, EventsTell, DueInv, [Next]_vars
  PROVE  DueInv'
<1> SUFFICES ASSUME owed' = "none", there', ~late' PROVE CacheTrue' /\ SweepTrue' /\ UsersTrue'
  BY DEF DueInv
<1> USE DEF panelVars, wizardVars
\* Where no version is remembered and no sweep is under way, nothing is said.
<1>1. ASSUME lock' = "none", msg' \in Nat, cache'.msg < msg',
             cache' \in [msg : Nat, mapping : Mapping]
      PROVE  CacheTrue' /\ SweepTrue' /\ UsersTrue'
  <2>1. cache' # Version'
    BY <1>1 DEF Version
  <2> QED
    BY <1>1, <2>1 DEF CacheTrue, SweepTrue, UsersTrue
<1>2. CASE Wizard \/ MakeUnsafe \/ UNCHANGED vars
  <2>1. /\ UNCHANGED <<msg, there, mapping, tracked, pending, reacted, queue, holds, cache, owed,
                       lock, sweep, missed, late>>
        /\ unsafe \subseteq unsafe'
    BY <1>2 DEF Wizard, MakeUnsafe, vars, rolesVars
  <2>2. Governed' \subseteq Governed /\ Governed \subseteq Emoji /\ Version' = Version
    BY <2>1 DEF Governed, Mapped, Version
  <2>3. /\ \A m \in Member, e \in Emoji : Due(m, e)' <=> Due(m, e)
        /\ \A m \in Member, e \in Emoji : Waiting(m, e)' <=> Waiting(m, e)
    BY <2>1, DueFrame
  <2>4. CacheTrue /\ SweepTrue /\ UsersTrue
    BY <2>1 DEF DueInv
  <2>5. CacheTrue' /\ SweepTrue'
    BY <2>1, <2>2, <2>3, <2>4 DEF CacheTrue, SweepTrue
  <2>6. UsersTrue'
    BY <2>1, <2>4 DEF UsersTrue, Read, Waiting
  <2> QED
    BY <2>5, <2>6
<1>3. CASE Publish
  BY <1>1, <1>3 DEF Publish, Counted, Typed
<1>4. ASSUME NEW m \in Member, NEW e \in Emoji, Click(m, e)
      PROVE  CacheTrue' /\ SweepTrue' /\ UsersTrue'
  <2>1. UNCHANGED <<msg, there, mapping, tracked, pending, holds, cache, owed, lock, sweep, missed,
                    late, unsafe>>
    BY <1>4 DEF Click
  <2>2. Governed' = Governed /\ Governed \subseteq Emoji /\ Version' = Version
    BY <2>1 DEF Governed, Mapped, Version
  <2>3. CacheTrue /\ SweepTrue /\ UsersTrue
    BY <2>1 DEF DueInv
  <2>4. /\ \A n \in Member, f \in Emoji : Due(n, f) => Due(n, f)'
        /\ \A n \in Member, f \in Emoji : Read(n, f) => Read(n, f)'
    BY <1>4, DueClick
  <2>5. CacheTrue' /\ SweepTrue'
    BY <2>1, <2>2, <2>3, <2>4 DEF CacheTrue, SweepTrue
  <2>6. UsersTrue'
    <3>1. PICK f : f = sweep.emoji
      OBVIOUS
    <3>2. CASE lock = "sweep" /\ f # None /\ sweep.msg = msg
      <4>1. f \in Emoji
        BY <3>1, <3>2 DEF AtWork, Mapped
      <4>2. \A n \in Member : Read(n, f)'
        BY <2>3, <2>4, <3>1, <3>2, <4>1 DEF UsersTrue
      <4> QED
        BY <2>1, <3>1, <4>2 DEF UsersTrue, Read
    <3> QED
      BY <2>1, <3>1, <3>2 DEF UsersTrue
  <2> QED
    BY <2>5, <2>6
<1>5. CASE HandleEvent
  <2>1. /\ UNCHANGED <<msg, there, mapping, pending, cache, owed, lock, sweep, unsafe>>
        /\ lock = "none"
    BY <1>5 DEF HandleEvent
  <2>2. Governed' = Governed /\ Version' = Version
    BY <2>1 DEF Governed, Mapped, Version
  <2>3. SweepTrue' /\ UsersTrue'
    BY <2>1 DEF SweepTrue, UsersTrue
  <2>4. (late => late') /\ (missed => missed')
    <3>1. CASE Obeys
      <4>1. missed' = missed
        BY <3>1 DEF Obeys
      <4>2. late' = (late \/ queue[1].old)
        BY <3>1, Zenon DEF Obeys
      <4> QED
        BY <4>1, <4>2
    <3>2. CASE Misses
      <4>1. late' = late
        BY <3>2 DEF Misses
      <4>2. missed' = (missed \/ cache = Version)
        BY <3>2, Zenon DEF Misses
      <4> QED
        BY <4>1, <4>2
    <3>3. CASE Ignores
      BY <3>3 DEF Ignores
    <3> QED
      BY <1>5, <3>1, <3>2, <3>3, Handled
  <2>5. CASE Misses
    BY <2>2, <2>1, <2>3, <2>5 DEF Misses, CacheTrue
  <2>6. ASSUME Obeys \/ Ignores, msg # 0, ~missed', cache = Version,
               NEW e \in Governed \ pending, NEW m \in Member
        PROVE  Due(m, e)'
    <3>1. CacheTrue /\ ~missed
      BY <2>1, <2>4, <2>6 DEF DueInv
    <3>2. Due(m, e)
      BY <2>6, <3>1 DEF CacheTrue
    <3> QED
      BY <1>5, <2>6, <3>1, <3>2, DueHandle
  <2>7. Obeys \/ Ignores => CacheTrue'
    BY <2>1, <2>2, <2>6 DEF CacheTrue
  <2> QED
    BY <1>5, <2>3, <2>5, <2>7, Handled
<1>6. CASE Sweeping
  BY <1>6, DueSweep
<1>7. CASE \E new \in Mapping, moving \in BOOLEAN : Edit(new, moving)
  BY <1>7 DEF Edit, Queued
<1>8. CASE Refreshing
  <2>1. EndRefresh /\ msg # 0
    BY <1>8 DEF Refreshing, RetryRefresh, Repost, ClearReset, EndRefresh, NothingToRefresh,
                RefreshFails, AtWork, Counted
  <2> QED
    BY <1>1, <2>1, Blank DEF EndRefresh, Refreshed, Typed
<1>9. CASE Resend
  <2>1. /\ msg \in Nat /\ msg' = msg + 1
        /\ sweep'.msg = sweep.msg /\ lock' = lock /\ (lock = "sweep" => sweep.msg <= msg)
        /\ sweep.msg \in Nat
    BY <1>9, Displaced DEF Resend, AtWork, Typed, Sweeps
  <2>2. cache' # Version'
    BY <1>9, <2>1 DEF Resend, NoVersion, Version
  <2>3. lock' = "sweep" => sweep'.msg # msg'
    BY <2>1
  <2> QED
    BY <2>2, <2>3 DEF CacheTrue, SweepTrue, UsersTrue
<1>11. CASE MessageDeleted
  BY <1>11 DEF MessageDeleted
<1>10. CASE Restart
  BY <1>1, <1>10, Blank DEF Restart, Typed
<1> QED
  BY <1>2, <1>3, <1>4, <1>5, <1>6, <1>7, <1>8, <1>9, <1>10, <1>11, Steps0

-----------------------------------------------------------------------------
(* The theorems                                                            *)

LEMMA InvInit == Init => Inv
<1> SUFFICES ASSUME Init PROVE Inv
  OBVIOUS
<1>1. Typed
  BY TypedInit
<1>2. WizardInv
  BY WizardInit0 DEF Init
<1>3. queue = <<>> /\ Len(queue) = 0 /\ msg = 0 /\ edits = 0 /\ cache.msg = 0 /\ kept = {}
      /\ lock = "none" /\ owed = "none" /\ pending = {} /\ sweep = NoSweep
  BY Blank DEF Init
<1>4. Counted /\ AtWork /\ OneEmojiPerRole
  BY <1>3 DEF Counted, AtWork, OneEmojiPerRole
<1>5. EventsTell
  BY <1>3 DEF EventsTell
<1>6. KeepsInv
  BY <1>3 DEF KeepsInv, Keeps, KeptHeld, KeptEvents, KeptLists, KeptReacted, KeptUsers, KeptOld
<1>7. DueInv
  BY <1>3 DEF DueInv, CacheTrue, SweepTrue, UsersTrue
<1> QED
  BY <1>1, <1>2, <1>4, <1>5, <1>6, <1>7 DEF Inv

\* What is said of the lock, the events, the lists and the sweep holds always.
THEOREM Invariant == Spec => []Inv
<1>1. Inv /\ [Next]_vars => Inv'
  BY TypedStep, WizardInvStep, CountedStep, AtWorkStep, OneEmojiStep, EventsStep, KeepsStep, DueStep
     DEF Inv
<1> QED
  BY InvInit, <1>1, PTL DEF Spec

LEMMA InvTypes == Inv => TypeOK
<1> SUFFICES ASSUME Inv PROVE TypeOK
  OBVIOUS
<1>1. Typed /\ Counted /\ AtWork /\ WizardTypeOK
  BY DEF Inv, WizardInv
<1>2. msg \in 0 .. MaxEdits + 1
  BY <1>1 DEF Typed, Counted
<1>3. \A i \in DOMAIN queue : queue[i] \in [member : Member, emoji : Emoji, add : BOOLEAN,
                                            msg : 1 .. MaxEdits + 1, old : BOOLEAN]
  <2> SUFFICES ASSUME NEW i \in DOMAIN queue
               PROVE  queue[i] \in [member : Member, emoji : Emoji, add : BOOLEAN,
                                    msg : 1 .. MaxEdits + 1, old : BOOLEAN]
    OBVIOUS
  <2>1. queue[i] \in Event /\ queue[i].msg <= msg
    BY <1>1, Elements DEF Typed, Counted
  <2>2. queue[i].msg \in 1 .. MaxEdits + 1
    BY <1>2, <2>1 DEF Event
  <2> QED
    BY <2>1, <2>2 DEF Event
<1>4. \A e \in Emoji : tracked[e] = NoList \/ tracked[e] \subseteq Member
  BY <1>1 DEF Typed, Lists
<1>5. mapping \in [Emoji -> Role \union {None}]
  BY <1>1 DEF Typed, Mapping
<1> QED
  BY <1>1, <1>2, <1>3, <1>4, <1>5 DEF TypeOK, Typed, AtWork

\* What members hold by a panel that counts as reconciled (handle_raw_reaction,
\* the offline sweep, reconcile_configuration_updates) agrees with the reactions.
THEOREM Agreement == Spec => []RolesAgree
<1>1. ASSUME Inv PROVE SettledRolesAgree
  <2> SUFFICES ASSUME msg # 0, there, queue = <<>>, lock = "none", owed = "none", cache = Version,
                      ~missed, ~late, NEW e \in Governed \ pending
               PROVE  Agree(e)
    BY DEF SettledRolesAgree
  <2>1. \A m \in Member : Due(m, e)
    BY <1>1 DEF Inv, DueInv, CacheTrue
  <2>2. \A m \in Member : AgreeOf(m, e)
    BY <2>1 DEF Due, Waiting
  <2> QED
    BY <2>2 DEF Agree, AgreeOf
<1>2. Inv => RolesAgree
  BY <1>1, InvTypes DEF RolesAgree, Inv
<1> QED
  BY Invariant, <1>2, PTL

\* "Mapping changes do not revoke previously assigned roles": neither the events
\* that are still on their way nor the sweep takes such a role away.
THEOREM NothingRevoked == Spec => []MappedRolesAreKept
<1>1. Inv => MappedRolesAreKept
  BY DEF Inv, KeepsInv, Keeps, KeptHeld, MappedRolesAreKept
<1> QED
  BY Invariant, <1>1, PTL

-----------------------------------------------------------------------------
(***************************************************************************)
(* The panels: what is in force works, and what works is in force or will   *)
(* be retired.                                                             *)
(*                                                                         *)
(* The idea.  What was put in force is past: its publication never stores   *)
(* it again, so what it replaced cannot be in force any more when somebody  *)
(* retires it (ReplacedIsPast, JudgedRight).  A clean-up that takes a       *)
(* message down found its publication finished and not committed, or it     *)
(* raced.  The editor stores and shows the panel it has read; unless it     *)
(* stored it over another one, that is the panel in force.                 *)
(* For the other half: while nobody gives a command in the middle           *)
(* of another, there is one publication at a time, and only the last one,   *)
(* or the one it replaces, is in force as long as it has a record (InTurn). *)
(***************************************************************************)

Tasks == {"idle", "send", "fill", "react", "abort", "confirm", "retire", "done"}
Marks == {"none", "unknown", "known"}
Plans == [kind : {"none", "create", "resend", "move"}, prev : Op \union {0}]
Panels == [state : {"none", "set", "disabled"}, msg : Op \union {0}, moving : BOOLEAN,
           resets : BOOLEAN]
Jobs == [active : BOOLEAN, seen : [Op -> Marks],
         step : {"judge", "retire", "undo", "refresh"}, op : Op \union {0}, read : Panels]

PublicationsTyped ==
    /\ record \in [Op -> Marks]
    /\ plan \in [Op -> Plans]
    /\ message \in [Op -> {"unsent", "placeholder", "live", "inert", "gone"}]
    /\ task \in [Op -> Tasks]

PanelTyped == panel \in Panels
JobsTyped  == job \in [Cleaner -> Jobs]

ServerTyped ==
    /\ configured \in BOOLEAN
    /\ lifecycle \in {"none", "editor", "removal"}
    /\ teardown \in {"none", "todo", "message", "done"}
    /\ deleter \in {"idle", "forget"}
    /\ refreshDue \in BOOLEAN
    /\ raced \in BOOLEAN /\ reverted \in BOOLEAN
    /\ removed \in {"no", "pressed", "yes"}

CountsTyped ==
    /\ failures \in 0 .. MaxFailures /\ overlaps \in 0 .. MaxOverlaps
    /\ changes \in 0 .. MaxChanges

Quiet == ~raced /\ ~reverted /\ removed = "no"
Calm  == Quiet /\ overlaps = 0

Fresh == {"send", "fill", "react", "confirm", "abort"}
Past  == {"retire", "done"}
Shown == {"placeholder", "live"}

EditorActive == job["editor"].active
Moving(o)    == Running(o) /\ plan[o].kind = "move"

\* A publication that was not started has left nothing anywhere.
NotBegun ==
    \A o \in Op : task[o] = "idle" =>
        /\ record[o] = "none" /\ message[o] = "unsent" /\ plan[o] = NoPlan
        /\ \A c \in Cleaner : job[c].seen[o] = "none" /\ job[c].op # o

InForceIsPast ==
    /\ panel.state # "none" => panel.msg # 0
    /\ panel.state = "none" => panel = NoPanel
    /\ panel.msg # 0 => task[panel.msg] \in Past
    /\ EditorActive => /\ job["editor"].read.state = "set" /\ job["editor"].read.msg # 0
                       /\ task[job["editor"].read.msg] \in Past

ReplacedIsPast ==
    \A o \in Op :
        /\ plan[o].kind = "none" <=> task[o] = "idle"
        /\ plan[o].kind = "create" => plan[o].prev = 0
        /\ plan[o].kind \in {"resend", "move"} => plan[o].prev # 0
        /\ plan[o].prev # 0 => plan[o].prev # o /\ task[plan[o].prev] \in Past
        /\ task[o] = "retire" =>
              plan[o].kind # "create" /\ (reverted \/ panel.msg # plan[o].prev)

\* The editor holds the lock while it cleans up, and then for one move.
LockHeld ==
    /\ lifecycle = "editor" <=> EditorActive \/ \E o \in Op : Moving(o)
    /\ EditorActive => \A o \in Op : ~Moving(o)
    /\ \A o, p \in Op : Moving(o) /\ Moving(p) => o = p

\* The editor works in a server with a setup, and only Delete takes its panel away.
ServerInv ==
    /\ EditorActive => configured /\ (removed # "yes" => Stored)
    /\ configured <=> teardown = "none"
    /\ \A o \in Op : Moving(o) => configured /\ (removed # "yes" => Stored)
    /\ removed = "no" => deleter = "idle"
    /\ reverted => raced \/ overlaps # 0 \/ removed # "no"
    /\ lifecycle = "removal" => ~configured

\* Nothing else goes on while the panel is created.
CreateIsAlone ==
    \A o \in Op : Running(o) /\ plan[o].kind = "create" =>
        /\ panel = NoPanel /\ removed = "no" /\ ~EditorActive
        /\ \A p \in Op : Running(p) => p = o

\* What a clean-up found still holds when it acts on it.
JudgedRight ==
    \A c \in Cleaner : job[c].op # 0 =>
        /\ job[c].active /\ job[c].step \in {"retire", "undo"}
        /\ job[c].step = "retire" =>
              /\ task[job[c].op] \in Past
              /\ plan[job[c].op].prev # 0
              /\ reverted \/ panel.msg # plan[job[c].op].prev
        /\ job[c].step = "undo" /\ Quiet =>
              task[job[c].op] = "done" /\ (Stored => panel.msg # job[c].op)

\* A publication is behind its record, and confirms only what works.
LiveInv ==
    Quiet =>
        /\ Stored => message[panel.msg] = "live"
        /\ EditorActive => record[job["editor"].read.msg] # "unknown"
        /\ \A o \in Op :
            /\ task[o] = "confirm" => message[o] = "live"
            /\ task[o] = "send" => record[o] = "unknown"
            /\ task[o] \in Fresh \ {"send"} => record[o] = "known"
            /\ record[o] = "unknown" =>
                  task[o] \in {"send", "done"} /\ panel.msg # o /\ message[o] # "live"
            /\ task[o] = "retire" /\ overlaps = 0 =>
                  record[o] = "known" \/ message[plan[o].prev] \notin Shown

\* One publication at a time, and all that is left of it is known to who comes next.
InTurn ==
    Calm =>
        /\ ~configured => \A o \in Op : record[o] = "none" /\ ~Running(o)
        /\ EditorActive =>
              /\ panel.msg = job["editor"].read.msg
              /\ \A o \in Op :
                    ~Running(o) /\ (record[o] # "none" => job["editor"].seen[o] # "none")
        /\ \A o \in Op :
              /\ Running(o) => \A p \in Op : p # o => ~Running(p) /\ record[p] = "none"
              /\ plan[o].kind \in {"resend", "move"} =>
                    /\ task[o] \in Fresh => Stored /\ panel.msg = plan[o].prev
                    /\ task[o] = "retire" => Stored /\ panel.msg = o
                    /\ record[o] # "none" => Stored /\ panel.msg \in {o, plan[o].prev}

\* LiveIsOwned; and the one who is to retire a message is the one in force.
OwnedInv ==
    Calm =>
        \A o \in Op : message[o] \in Shown =>
            \/ panel.state # "none" /\ panel.msg = o
            \/ record[o] # "none" \/ Running(o)
            \/ \E q \in Op : /\ plan[q].prev = o /\ Stored /\ panel.msg = q
                             /\ record[q] # "none" \/ Running(q)

PublicationInv ==
    /\ PublicationsTyped /\ PanelTyped /\ JobsTyped /\ ServerTyped /\ CountsTyped
    /\ NotBegun /\ InForceIsPast /\ ReplacedIsPast
    /\ LockHeld /\ ServerInv /\ CreateIsAlone
    /\ JudgedRight /\ LiveInv /\ InTurn /\ OwnedInv
    /\ DeletedStaysDeleted

LEMMA NoPublication == 0 \notin Op
BY DEF Op

LEMMA NoPanelTyped == NoPanel \in Panels
BY DEF NoPanel, Panels

LEMMA NoJobTyped == NoJob \in Jobs
BY NoPanelTyped DEF NoJob, Jobs, Marks

\* What the editor has read is a panel of the past.
LEMMA EditorReads ==
  ASSUME PublicationInv, EditorActive
  PROVE  job["editor"].read.msg \in Op /\ task[job["editor"].read.msg] \in Past
BY DEF PublicationInv, InForceIsPast, JobsTyped, Jobs, Panels, Cleaner

\* What the sweep and the editor do to their list of records.
PassedOver(c, o) ==
    /\ \A d \in Cleaner : d # c => job'[d] = job[d]
    /\ job'[c].op = 0 /\ job'[c].step = "judge" /\ job'[c].read = job[c].read
    /\ job'[c].seen = [job[c].seen EXCEPT ![o] = "none"]
    /\ c = "editor" => job'[c].active

TakenUp(c, o, step) ==
    /\ \A d \in Cleaner : d # c => job'[d] = job[d]
    /\ job'[c].op = o /\ job'[c].step = step /\ job'[c].active
    /\ job'[c].seen = job[c].seen /\ job'[c].read = job[c].read
    /\ UNCHANGED record

\* A record is judged: the three outcomes.
Judged(c, o) ==
    /\ job[c].active /\ job[c].op = 0 /\ job[c].seen[o] # "none"
    /\ raced' = (raced \/ (~Committed(o, job[c].seen[o]) /\
                              (Running(o) \/ record[o] \notin {"none", job[c].seen[o]})))
    /\ UNCHANGED <<message, lifecycle, failures>>
    /\ CleaningFrame

ToRetire(c, o) ==
    /\ Committed(o, job[c].seen[o]) /\ plan[o].kind # "create"
    /\ TakenUp(c, o, "retire")

ToUndo(c, o) ==
    /\ ~Committed(o, job[c].seen[o]) /\ Resolved(o, job[c].seen[o])
    /\ TakenUp(c, o, "undo")

Dropped(c, o) ==
    /\ Committed(o, job[c].seen[o]) => plan[o].kind = "create"
    /\ Resolved(o, job[c].seen[o]) => Committed(o, job[c].seen[o])
    /\ Record(o, "none") /\ PassedOver(c, o)

\* The record at hand is cleaned: the four outcomes.
Cleaned(c, o) ==
    /\ job[c].active /\ job[c].op = o
    /\ failures' = failures \/ Failure
    /\ UNCHANGED raced
    /\ CleaningFrame

Retired(c, o) ==
    /\ job[c].step = "retire"
    /\ Disabled(plan[o].prev) /\ Record(o, "none") /\ PassedOver(c, o) /\ UNCHANGED lifecycle

Undone(c, o) ==
    /\ job[c].step = "undo"
    /\ Compensated(o) /\ Record(o, "none") /\ PassedOver(c, o) /\ UNCHANGED lifecycle

PutOff(c, o) ==
    /\ c = "sweep"
    /\ UNCHANGED <<record, message, lifecycle>> /\ PassedOver(c, o)

GivenUp(c, o) ==
    /\ c = "editor"
    /\ UNCHANGED <<record, message>>
    /\ job'["editor"] = NoJob /\ job'["sweep"] = job["sweep"] /\ lifecycle' = "none"

LEMMA JobUpdate ==
  ASSUME NEW c \in Cleaner, NEW j \in Jobs, JobsTyped, job' = [job EXCEPT ![c] = j]
  PROVE  JobsTyped' /\ job'[c] = j /\ \A d \in Cleaner : d # c => job'[d] = job[d]
BY DEF JobsTyped

LEMMA JobValue ==
  ASSUME NEW a \in BOOLEAN, NEW r \in [Op -> Marks], NEW m \in Panels
  PROVE  /\ [NoJob EXCEPT !.active = a, !.seen = r, !.read = m] \in Jobs
         /\ [NoJob EXCEPT !.active = a, !.seen = r] \in Jobs
         /\ [NoJob EXCEPT !.active = a, !.step = "refresh", !.read = m] \in Jobs
BY NoPanelTyped DEF NoJob, Jobs, Marks

LEMMA CommitEffect ==
  ASSUME NEW o \in Op, PanelTyped, Commit(o)
  PROVE  PanelTyped' /\ panel'.state = "set" /\ panel'.msg = o
<1> DEFINE taken(was) == plan[o].kind = "resend" /\ was
<1>1. PICK moving \in {FALSE, taken(panel.moving)} :
         panel' = [state |-> "set", msg |-> o, moving |-> moving, resets |-> taken(panel.resets)]
  BY Zenon DEF Commit
<1>2. moving \in BOOLEAN /\ taken(panel.resets) \in BOOLEAN
  OBVIOUS
<1> HIDE DEF taken
<1> QED
  BY <1>1, <1>2 DEF PanelTyped, Panels

LEMMA PassedEffect ==
  ASSUME NEW c \in Cleaner, NEW o \in Op, JobsTyped, Passed(c, o)
  PROVE  JobsTyped' /\ PassedOver(c, o)
<1> DEFINE seen == [job[c].seen EXCEPT ![o] = "none"]
           goes == c = "editor" \/ \E p \in Op : seen[p] # "none"
           j == [job[c] EXCEPT !.seen = seen, !.op = 0, !.step = "judge", !.active = goes]
<1>1. goes \in BOOLEAN /\ (c = "editor" => goes)
  OBVIOUS
<1>2. job' = [job EXCEPT ![c] = j]
  BY Zenon DEF Passed
<1>3. seen \in [Op -> Marks]
  BY DEF JobsTyped, Jobs, Marks
<1> HIDE DEF seen, goes
<1>4. /\ j \in Jobs
      /\ j.op = 0 /\ j.step = "judge" /\ j.read = job[c].read
      /\ j.seen = seen /\ j.active = goes
  BY <1>1, <1>3 DEF JobsTyped, Jobs
<1> HIDE DEF j
<1>5. JobsTyped' /\ job'[c] = j /\ \A d \in Cleaner : d # c => job'[d] = job[d]
  BY <1>2, <1>4, JobUpdate
<1> QED
  BY <1>1, <1>4, <1>5 DEF seen, PassedOver

LEMMA GivesUpEffect ==
  ASSUME JobsTyped, EditorGivesUp
  PROVE  /\ JobsTyped'
         /\ job'["editor"] = NoJob /\ job'["sweep"] = job["sweep"] /\ lifecycle' = "none"
BY NoJobTyped, JobUpdate DEF EditorGivesUp, Cleaner

LEMMA JudgeEffect ==
  ASSUME NEW c \in Cleaner, JobsTyped, Judge(c)
  PROVE  /\ JobsTyped'
         /\ \E o \in Op : Judged(c, o) /\ (ToRetire(c, o) \/ ToUndo(c, o) \/ Dropped(c, o))
<1>1. PICK o \in Op :
         LET seen == job[c].seen[o]
             Then(step) == /\ job' = [job EXCEPT ![c].op = o, ![c].step = step]
                           /\ UNCHANGED record
         IN
         /\ seen # "none"
         /\ raced' = (raced \/ (~Committed(o, seen) /\
                        (Running(o) \/ record[o] \notin {"none", seen})))
         /\ CASE Committed(o, seen) /\ plan[o].kind # "create"   -> Then("retire")
              [] ~Committed(o, seen) /\ Resolved(o, seen)        -> Then("undo")
              [] OTHER -> Record(o, "none") /\ Passed(c, o)
  BY Zenon DEF Judge
<1>2. job[c].active /\ job[c].op = 0
  BY Zenon DEF Judge
<1>3. UNCHANGED <<message, lifecycle, failures>> /\ CleaningFrame
  BY Zenon DEF Judge
<1>4. Judged(c, o)
  BY <1>1, <1>2, <1>3, Zenon DEF Judged
<1> DEFINE J(step) == [job[c] EXCEPT !.op = o, !.step = step]
<1>5. ASSUME NEW step \in {"retire", "undo"}, UNCHANGED record,
             job' = [job EXCEPT ![c].op = o, ![c].step = step]
      PROVE  JobsTyped' /\ TakenUp(c, o, step)
  <2>1. job' = [job EXCEPT ![c] = J(step)]
    BY <1>5, Zenon
  <2>2. /\ J(step) \in Jobs
        /\ J(step).op = o /\ J(step).step = step /\ J(step).seen = job[c].seen
        /\ J(step).read = job[c].read /\ J(step).active = job[c].active
    BY DEF JobsTyped, Jobs
  <2> HIDE DEF J
  <2>3. /\ JobsTyped' /\ job'[c] = J(step)
        /\ \A d \in Cleaner : d # c => job'[d] = job[d]
    BY <2>1, <2>2, JobUpdate
  <2> QED
    BY <1>2, <1>5, <2>2, <2>3 DEF TakenUp
<1> HIDE DEF J
<1>6. CASE Committed(o, job[c].seen[o]) /\ plan[o].kind # "create"
  <2>1. job' = [job EXCEPT ![c].op = o, ![c].step = "retire"] /\ UNCHANGED record
    BY <1>1, <1>6, Zenon
  <2>2. JobsTyped' /\ TakenUp(c, o, "retire")
    BY <1>5, <2>1
  <2> QED
    BY <1>4, <1>6, <2>2 DEF ToRetire
<1>7. CASE ~Committed(o, job[c].seen[o]) /\ Resolved(o, job[c].seen[o])
  <2>1. job' = [job EXCEPT ![c].op = o, ![c].step = "undo"] /\ UNCHANGED record
    BY <1>1, <1>7, Zenon
  <2>2. JobsTyped' /\ TakenUp(c, o, "undo")
    BY <1>5, <2>1
  <2> QED
    BY <1>4, <1>7, <2>2 DEF ToUndo
<1>8. CASE /\ Committed(o, job[c].seen[o]) => plan[o].kind = "create"
           /\ Resolved(o, job[c].seen[o]) => Committed(o, job[c].seen[o])
  <2>1. Record(o, "none") /\ Passed(c, o)
    BY <1>1, <1>8, Zenon
  <2> QED
    BY <1>4, <1>8, <2>1, PassedEffect DEF Dropped
<1> QED
  BY <1>6, <1>7, <1>8

LEMMA CleanEffect ==
  ASSUME NEW c \in Cleaner, JobsTyped, Clean(c)
  PROVE  /\ JobsTyped'
         /\ \E o \in Op : /\ Cleaned(c, o)
                          /\ Retired(c, o) \/ Undone(c, o) \/ PutOff(c, o) \/ GivenUp(c, o)
<1> DEFINE o == job[c].op
<1>1. job[c].active /\ o # 0 /\ UNCHANGED raced /\ CleaningFrame
  BY Zenon DEF Clean
<1>2. o \in Op
  BY <1>1 DEF JobsTyped, Jobs
<1>3. ASSUME Passed(c, o)
      PROVE  JobsTyped' /\ PassedOver(c, o)
  BY <1>2, <1>3, PassedEffect
<1>4. ASSUME CleaningFailed(c, o)
      PROVE  JobsTyped' /\ (PutOff(c, o) \/ GivenUp(c, o))
  <2>1. UNCHANGED <<record, message>>
    BY <1>4 DEF CleaningFailed
  <2>2. CASE c = "editor"
    BY <1>4, <2>1, <2>2, GivesUpEffect DEF CleaningFailed, GivenUp
  <2>3. CASE c = "sweep"
    BY <1>3, <1>4, <2>1, <2>3 DEF CleaningFailed, PutOff
  <2> QED
    BY <2>2, <2>3 DEF Cleaner
<1>5. CASE /\ job[c].step = "retire"
           /\ Disabled(plan[o].prev) /\ NoFailure /\ Record(o, "none")
           /\ Passed(c, o) /\ UNCHANGED lifecycle
  BY <1>1, <1>2, <1>3, <1>5 DEF Cleaned, Retired, NoFailure
<1>6. CASE Failure /\ CleaningFailed(c, o)
  BY <1>1, <1>2, <1>4, <1>6 DEF Cleaned
<1>7. CASE /\ job[c].step = "undo"
           /\ Compensated(o) /\ Record(o, "none") /\ Passed(c, o) /\ UNCHANGED lifecycle
  <2>1. failures' = failures \/ Failure
    BY <1>7 DEF Compensated, NoFailure
  <2> QED
    BY <1>1, <1>2, <1>3, <1>7, <2>1 DEF Cleaned, Undone
<1>8. CASE NotCompensated(o) /\ CleaningFailed(c, o)
  BY <1>1, <1>2, <1>4, <1>8 DEF Cleaned, NotCompensated
<1> QED
  BY <1>5, <1>6, <1>7, <1>8, Zenon DEF Clean

-----------------------------------------------------------------------------
(* Starting a publication                                                   *)

LEMMA CreateKeeps ==
  ASSUME PublicationInv, NEW o \in Op, Create(o)
  PROVE  PublicationInv'
<1> USE DEF PublicationInv, Create, Start, Step, Prepared, Command, Noted, RefreshKept
<1>1. PanelTyped' /\ JobsTyped' /\ ServerTyped'
  BY DEF PanelTyped, JobsTyped, ServerTyped
<1>2. PublicationsTyped' /\ CountsTyped'
  BY ReactionPanelAssumption DEF PublicationsTyped, Tasks, Marks, Plans, CountsTyped
<1>3. NotBegun'
  BY DEF PublicationsTyped, Tasks, NotBegun
<1>4. InForceIsPast'
  BY DEF InForceIsPast, EditorActive, Past
<1>5. ReplacedIsPast'
  BY DEF PublicationsTyped, Tasks, ReplacedIsPast, Past
<1>6. LockHeld'
  BY DEF PublicationsTyped, Tasks, LockHeld, EditorActive, Moving, Running
<1>7. ServerInv'
  BY DEF ServerInv, EditorActive, Stored, CountsTyped, ServerTyped, PublicationsTyped, Tasks,
         Moving, Running, Over
<1>8. CreateIsAlone'
  BY DEF ServerInv, EditorActive, Running, Stored, CreateIsAlone, NoPanel
<1>9. JudgedRight'
  BY DEF JudgedRight, Quiet, Past, Stored
<1>10. LiveInv'
  BY EditorReads, NoPublication DEF PublicationsTyped, Tasks, NotBegun, LiveInv, Quiet, Stored,
                                    NoPanel, EditorActive, CountsTyped, InForceIsPast, Past
<1>11. InTurn'
  BY NoPublication
  DEF CountsTyped, NotBegun, NoPlan, InForceIsPast, EditorActive, NoPanel, InTurn, Calm,
      Quiet, Running, Stored, Unsettled
<1>12. OwnedInv'
  BY NoPublication DEF CountsTyped, OwnedInv, Calm, Quiet, NoPanel
<1>13. DeletedStaysDeleted'
  BY DEF DeletedStaysDeleted
<1> QED
  BY <1>1, <1>2, <1>3, <1>4, <1>5, <1>6, <1>7, <1>8, <1>9, <1>10, <1>11, <1>12, <1>13

LEMMA SendAgainKeeps ==
  ASSUME PublicationInv, NEW o \in Op, SendAgain(o)
  PROVE  PublicationInv'
<1> USE DEF PublicationInv, SendAgain, Start, Step, Prepared, Command, Noted, RefreshKept, Managed
<1>1. PanelTyped' /\ JobsTyped' /\ ServerTyped'
  BY DEF PanelTyped, JobsTyped, ServerTyped
<1>2. PublicationsTyped' /\ CountsTyped'
  BY ReactionPanelAssumption
  DEF PublicationsTyped, Tasks, Marks, Plans, PanelTyped, Panels, CountsTyped
<1>3. NotBegun'
  BY DEF PublicationsTyped, Tasks, NotBegun
<1>4. InForceIsPast'
  BY DEF InForceIsPast, EditorActive, Past
<1>5. ReplacedIsPast'
  BY DEF PublicationsTyped, Tasks, InForceIsPast, Past, ReplacedIsPast, Stored
<1>6. LockHeld'
  BY DEF PublicationsTyped, Tasks, LockHeld, EditorActive, Moving, Running, Over
<1>7. ServerInv'
  BY DEF PublicationsTyped, Tasks, ServerInv, EditorActive, Moving, Running, Stored, CountsTyped,
         ServerTyped
<1>8. CreateIsAlone'
  BY DEF PublicationsTyped, Tasks, CreateIsAlone, Running, NoPanel, Stored
<1>9. JudgedRight'
  BY DEF JudgedRight, Quiet, Past
<1>10. LiveInv'
  BY EditorReads DEF PublicationsTyped, Tasks, NotBegun, LiveInv, Quiet, EditorActive,
                     CountsTyped, InForceIsPast, Past
<1>11. InTurn'
  BY DEF CountsTyped, ReplacedIsPast, LockHeld, EditorActive, Running, InTurn, Calm, Quiet,
         Stored, Unsettled, SomeRunning
<1>12. OwnedInv'
  BY DEF CountsTyped, OwnedInv, Calm, Quiet, Unsettled, SomeRunning
<1>13. DeletedStaysDeleted'
  BY DEF ReplacedIsPast, DeletedStaysDeleted
<1> QED
  BY <1>1, <1>2, <1>3, <1>4, <1>5, <1>6, <1>7, <1>8, <1>9, <1>10, <1>11, <1>12, <1>13

LEMMA EditPanelKeeps ==
  ASSUME PublicationInv, EditPanel
  PROVE  PublicationInv'
<1> USE DEF PublicationInv, EditPanel, Command, Noted, RefreshKept
<1>1. PublicationsTyped' /\ JobsTyped' /\ ServerTyped' /\ NotBegun' /\ LockHeld'
  BY DEF PublicationsTyped, Tasks, JobsTyped, ServerTyped, NotBegun, LockHeld, EditorActive,
         Moving, Running, Over
<1>2. CountsTyped'
  BY ReactionPanelAssumption DEF CountsTyped
<1>3. PanelTyped'
  BY Zenon DEF PanelTyped, Panels
<1>4. InForceIsPast'
  BY DEF InForceIsPast, EditorActive, Stored
<1>5. ReplacedIsPast'
  BY DEF ReplacedIsPast
<1>6. ServerInv'
  BY DEF ServerInv, Stored, CountsTyped, ServerTyped
<1>7. CreateIsAlone'
  BY DEF CreateIsAlone, Running, NoPanel, Stored
<1>8. JudgedRight'
  BY DEF JudgedRight, Quiet
<1>9. LiveInv'
  BY DEF LiveInv, Quiet, EditorActive, CountsTyped
<1>10. InTurn'
  BY DEF CountsTyped, InTurn, Calm, Quiet, EditorActive, Running, Stored
<1>11. OwnedInv'
  BY DEF CountsTyped, OwnedInv, Calm, Quiet, Running, Stored
<1>12. DeletedStaysDeleted'
  BY DEF DeletedStaysDeleted
<1> QED
  BY <1>1, <1>2, <1>3, <1>4, <1>5, <1>6, <1>7, <1>8, <1>9, <1>10, <1>11, <1>12

LEMMA RefreshKeeps ==
  ASSUME PublicationInv, Refresh
  PROVE  PublicationInv'
<1> USE DEF PublicationInv
<1> DEFINE j == [NoJob EXCEPT !.active = TRUE, !.seen = record, !.read = panel]
<1>1. job' = [job EXCEPT !["editor"] = j] /\ lifecycle' = "editor"
  BY Zenon DEF Refresh
<1>2. record \in [Op -> Marks] /\ panel \in Panels
  BY DEF PublicationsTyped, PanelTyped
<1>3. j \in Jobs
  BY <1>2, JobValue
<1>4. j.active /\ j.seen = record /\ j.read = panel /\ j.op = 0 /\ j.step = "judge"
  BY Zenon DEF NoJob
<1> HIDE DEF j
<1>5. JobsTyped' /\ job'["editor"] = j /\ job'["sweep"] = job["sweep"]
  BY <1>1, <1>3, JobUpdate DEF Cleaner
<1>6. /\ configured /\ Stored /\ lifecycle = "none" /\ Command(SomeRunning)
      /\ UNCHANGED <<configured, panel, record, plan, message, task, teardown, deleter,
                     failures, raced, reverted, removed, refreshDue, changes>>
  BY DEF Refresh, Noted, RefreshKept
<1>7. PublicationsTyped' /\ PanelTyped' /\ ServerTyped' /\ CountsTyped'
  BY <1>1, <1>6, ReactionPanelAssumption
  DEF PublicationsTyped, PanelTyped, ServerTyped, CountsTyped, Command
<1>8. ReplacedIsPast' /\ OwnedInv' /\ DeletedStaysDeleted'
  BY <1>6
  DEF ReplacedIsPast, OwnedInv, DeletedStaysDeleted, Command, Calm, Quiet, Stored,
      Running, CountsTyped
<1>9. NotBegun'
  BY <1>4, <1>5, <1>6, NoPublication DEF NotBegun, Cleaner
<1>10. InForceIsPast'
  BY <1>4, <1>5, <1>6 DEF InForceIsPast, EditorActive, Stored
<1>11. LockHeld'
  BY <1>1, <1>4, <1>5, <1>6 DEF LockHeld, EditorActive, Moving, Running
<1>12. ServerInv'
  BY <1>1, <1>4, <1>5, <1>6 DEF ServerInv, EditorActive, Moving, Running, Stored, CountsTyped,
                                ServerTyped, Command
<1>13. CreateIsAlone'
  BY <1>6 DEF CreateIsAlone, Stored, NoPanel, EditorActive, Running
<1>14. JudgedRight'
  BY <1>4, <1>5, <1>6 DEF JudgedRight, Quiet, Stored, Cleaner
<1>15. InTurn'
  BY <1>4, <1>5, <1>6
  DEF InTurn, Calm, Quiet, Running, Stored, EditorActive, Command, SomeRunning, CountsTyped
<1>16. LiveInv'
  BY <1>4, <1>5, <1>6
  DEF LiveInv, Quiet, Stored, EditorActive, InForceIsPast, PanelTyped, Panels, Command,
      CountsTyped
<1> QED
  BY <1>5, <1>7, <1>8, <1>9, <1>10, <1>11, <1>12, <1>13, <1>14, <1>15, <1>16

\* The publication of the editor starts as its clean-up ends.
LEMMA MoveKeeps ==
  ASSUME PublicationInv, NEW o \in Op, Move(o)
  PROVE  PublicationInv'
<1> USE DEF PublicationInv
<1>1. /\ EditorActive /\ job["editor"].op = 0 /\ \A p \in Op : job["editor"].seen[p] = "none"
      /\ job' = [job EXCEPT !["editor"] = NoJob]
      /\ UNCHANGED <<configured, panel, message, lifecycle, teardown, deleter, failures,
                     overlaps, raced, reverted, removed, refreshDue, changes>>
  BY DEF Move, Noted, RefreshKept, EditorActive, EditorTurn, Tidied
<1>2. JobsTyped' /\ job'["editor"] = NoJob /\ job'["sweep"] = job["sweep"] /\ ~EditorActive'
  <2>1. JobsTyped' /\ job'["editor"] = NoJob /\ job'["sweep"] = job["sweep"]
    BY <1>1, NoJobTyped, JobUpdate DEF Cleaner
  <2>2. ~EditorActive'
    BY <2>1 DEF EditorActive, NoJob
  <2> QED
    BY <2>1, <2>2
<1> DEFINE read == job["editor"].read.msg
<1>3. /\ task[o] = "idle" /\ read \in Op /\ read # o /\ task[read] \in Past
      /\ task' = [task EXCEPT ![o] = "send"] /\ record' = [record EXCEPT ![o] = "unknown"]
      /\ plan' = [plan EXCEPT ![o] = [kind |-> "move", prev |-> read]]
  BY <1>1 DEF Move, Start, Step, Prepared, InForceIsPast, JobsTyped, Jobs, Panels, Cleaner, Past
<1> HIDE DEF read
<1>4. PublicationsTyped'
  BY <1>1, <1>3 DEF PublicationsTyped, Tasks, Plans, Marks
<1>5. /\ task'[o] = "send" /\ record'[o] = "unknown"
      /\ plan'[o].kind = "move" /\ plan'[o].prev = read
      /\ ~Running(o) /\ Running(o)'
      /\ \A p \in Op : p # o => /\ task'[p] = task[p] /\ record'[p] = record[p]
                                /\ plan'[p] = plan[p] /\ (Running(p)' <=> Running(p))
  BY <1>3 DEF PublicationsTyped, Running, Over
<1>6. PanelTyped' /\ ServerTyped' /\ CountsTyped'
  BY <1>1 DEF PanelTyped, ServerTyped, CountsTyped
<1>7. NotBegun'
  BY <1>1, <1>2, <1>3, <1>5, NoPublication DEF NotBegun, NoJob, Cleaner
<1>8. InForceIsPast'
  BY <1>1, <1>2, <1>3, <1>5 DEF InForceIsPast, Past, PanelTyped, Panels
<1>9. ReplacedIsPast'
  BY <1>1, <1>3, <1>5, NoPublication DEF ReplacedIsPast, Past, PublicationsTyped, Plans
<1>10. LockHeld'
  BY <1>1, <1>2, <1>5 DEF LockHeld, Moving
<1>11. ServerInv'
  BY <1>1, <1>2, <1>5 DEF ServerInv, Moving, CountsTyped, ServerTyped, Stored
<1>12. CreateIsAlone'
  BY <1>1, <1>2, <1>5 DEF CreateIsAlone
<1>13. JudgedRight'
  BY <1>1, <1>2, <1>3, <1>5
  DEF JudgedRight, NoJob, Quiet, Stored, Cleaner, NotBegun, JobsTyped, Jobs, Past
<1>14. LiveInv'
  BY <1>2, <1>1, <1>3, <1>5, NoPublication
  DEF LiveInv, Quiet, Stored, Fresh, Past, NotBegun, InForceIsPast, EditorActive, CountsTyped
<1>15. InTurn'
  <2> SUFFICES ASSUME Calm' PROVE InTurn'
    BY DEF InTurn
  <2>1. /\ configured /\ Stored /\ panel.msg = read
        /\ \A p \in Op : ~Running(p) /\ record[p] = "none"
    BY <1>1 DEF InTurn, Calm, Quiet, ServerInv, read
  <2>2. \A p \in Op : task[p] \notin Fresh \union {"retire"}
    BY <2>1 DEF Running, Over, Fresh
  <2> QED
    BY <1>1, <1>2, <1>5, <2>1, <2>2 DEF InTurn, Stored
<1>16. OwnedInv'
  <2>1. message[o] \notin Shown /\ record[o] = "none"
    BY <1>3 DEF NotBegun, Shown
  <2> QED
    BY <1>1, <1>5, <2>1 DEF OwnedInv, Calm, Quiet, Stored
<1>17. DeletedStaysDeleted'
  BY <1>5 DEF DeletedStaysDeleted
<1> QED
  BY <1>2, <1>4, <1>6, <1>7, <1>8, <1>9, <1>10, <1>11, <1>12, <1>13, <1>14, <1>15, <1>16,
     <1>17

\* The editor stops: the records it has not cleaned, and the panel, are left as they
\* are; the message may just have been brought up to date.
LEMMA StoppedEditorKeeps ==
  ASSUME PublicationInv, EditorActive, failures' = failures \/ Failure,
         JobsTyped', job'["editor"] = NoJob, job'["sweep"] = job["sweep"], lifecycle' = "none",
         UNCHANGED message \/ Post(job["editor"].read.msg, "live"),
         UNCHANGED refreshDue \/ refreshDue' = FALSE,
         UNCHANGED <<configured, panel, record, plan, task, teardown, deleter, changes,
                     overlaps, raced, reverted, removed>>
  PROVE  PublicationInv'
<1> USE DEF PublicationInv
<1> DEFINE read == job["editor"].read
<1>1. ~EditorActive'
  BY DEF EditorActive, NoJob
<1>2. /\ read.msg \in Op /\ task[read.msg] \in Past
      /\ Quiet => record[read.msg] # "unknown"
      /\ Calm => /\ panel.state # "none" /\ panel.msg = read.msg
                 /\ \A p \in Op : ~Running(p)
  BY DEF InForceIsPast, JobsTyped, Jobs, Panels, Cleaner, LiveInv, ServerInv, InTurn, Calm,
         Quiet, Stored
<1>3. /\ message' \in [Op -> {"unsent", "placeholder", "live", "inert", "gone"}]
      /\ \A p \in Op : message'[p] = message[p] \/ (p = read.msg /\ message'[p] = "live")
  BY DEF Post, PublicationsTyped
<1>4. PublicationsTyped' /\ PanelTyped' /\ ServerTyped' /\ CountsTyped'
  <2>1. refreshDue \in BOOLEAN => refreshDue' \in BOOLEAN
    OBVIOUS
  <2> QED
    BY <1>3, <2>1, ReactionPanelAssumption
    DEF PublicationsTyped, PanelTyped, ServerTyped, CountsTyped, Failure
<1> HIDE DEF read
<1>5. ReplacedIsPast' /\ DeletedStaysDeleted'
  BY DEF ReplacedIsPast, DeletedStaysDeleted, Stored
<1>6. LiveInv'
  <2> SUFFICES ASSUME Quiet PROVE LiveInv'
    BY DEF LiveInv, Quiet
  <2>1. (Stored => message[panel.msg] = "live")'
    BY <1>2, <1>3 DEF LiveInv, Stored, InForceIsPast, PanelTyped, Panels
  <2>2. ASSUME NEW o \in Op
        PROVE  /\ task[o] = "confirm" => message'[o] = "live"
               /\ task[o] = "send" => record[o] = "unknown"
               /\ task[o] \in Fresh \ {"send"} => record[o] = "known"
               /\ record[o] = "unknown" =>
                     task[o] \in {"send", "done"} /\ panel.msg # o /\ message'[o] # "live"
    BY <1>2, <1>3 DEF LiveInv
  <2>3. ASSUME NEW o \in Op, task[o] = "retire", overlaps = 0
        PROVE  FALSE
    BY <1>2, <2>3 DEF Calm, Running, Over
  <2> QED
    BY <1>1, <2>1, <2>2, <2>3 DEF LiveInv
<1>7. NotBegun'
  BY <1>2, <1>3, NoPublication DEF NotBegun, NoJob, Cleaner, Past
<1>8. InForceIsPast' /\ CreateIsAlone'
  BY <1>1 DEF InForceIsPast, CreateIsAlone, Running
<1>9. LockHeld' /\ ServerInv'
  BY <1>1 DEF LockHeld, ServerInv, Moving, Running, Stored, CountsTyped, ServerTyped
<1>10. JudgedRight'
  BY DEF JudgedRight, NoJob, Quiet, Stored, Cleaner
<1>11. InTurn'
  BY <1>1 DEF InTurn, Calm, Quiet, Stored, Running
<1>12. OwnedInv'
  BY <1>2, <1>3 DEF OwnedInv, Calm, Quiet, Stored, Running
<1> QED
  BY <1>4, <1>5, <1>6, <1>7, <1>8, <1>9, <1>10, <1>11, <1>12

LEMMA EditorFailsKeeps ==
  ASSUME PublicationInv, EditorFails
  PROVE  PublicationInv'
<1>1. /\ EditorActive /\ EditorGivesUp /\ (failures' = failures \/ Failure)
      /\ UNCHANGED <<configured, panel, record, plan, message, task, teardown, deleter,
                     overlaps, raced, reverted, removed, refreshDue, changes>>
  BY DEF EditorFails, EditorTurn, Noted, RefreshKept, EditorActive, NoFailure
<1> QED
  BY <1>1, GivesUpEffect, StoppedEditorKeeps DEF PublicationInv

\* The editor goes on with the panel it has read, which it may have stored.
LEMMA WorkingEditorKeeps ==
  ASSUME PublicationInv, EditorActive, job["editor"].op = 0, NEW j \in Jobs,
         job' = [job EXCEPT !["editor"] = j],
         j.active, j.step = "refresh", j.op = 0, j.seen = job["editor"].seen,
         j.read.state = "set", j.read.msg = job["editor"].read.msg,
         \/ UNCHANGED <<panel, reverted>>
         \/ panel' = j.read /\ reverted' = (reverted \/ ~InForce(j.read.msg)),
         UNCHANGED <<configured, record, plan, message, task, lifecycle, teardown, deleter,
                     refreshDue, changes, failures, overlaps, raced, removed>>
  PROVE  PublicationInv'
<1> USE DEF PublicationInv
<1>1. /\ JobsTyped' /\ job'["editor"] = j /\ job'["sweep"] = job["sweep"]
      /\ EditorActive'
  BY JobUpdate DEF Cleaner, EditorActive
<1> DEFINE read == j.read.msg
<1>2. read \in Op /\ task[read] \in Past /\ configured
  BY DEF InForceIsPast, ServerInv, Jobs, Panels
<1>3. /\ panel' \in Panels
      /\ ~reverted' => ~reverted /\ panel'.state = panel.state /\ panel'.msg = panel.msg
      /\ Stored => Stored'
      /\ \/ panel'.state = panel.state /\ panel'.msg = panel.msg
         \/ panel'.state = "set" /\ panel'.msg = read
  BY DEF Jobs, PanelTyped, InForce, Stored, ServerTyped
<1>4. PublicationsTyped' /\ PanelTyped' /\ ServerTyped' /\ CountsTyped'
  BY <1>3 DEF PublicationsTyped, PanelTyped, ServerTyped, CountsTyped, Tasks
<1>5. NotBegun'
  BY <1>1, NoPublication DEF NotBegun, Cleaner
<1>6. InForceIsPast'
  BY <1>1, <1>2, NoPublication, NoPanelTyped DEF InForceIsPast, EditorActive, Past
<1>7. ReplacedIsPast' /\ JudgedRight'
  BY <1>1, <1>3 DEF ReplacedIsPast, JudgedRight, Quiet, Stored, Cleaner
<1>8. LockHeld' /\ ServerInv'
  BY <1>1, <1>2, <1>3 DEF LockHeld, ServerInv, Moving, Running, Stored, EditorActive, CountsTyped,
                          ServerTyped, InTurn, Calm, Quiet, InForce
<1>9. CreateIsAlone'
  BY DEF CreateIsAlone, Running
<1>10. LiveInv'
  BY <1>1, <1>3 DEF LiveInv, Quiet, Stored, EditorActive, CountsTyped
<1>11. InTurn'
  BY <1>1, <1>2, <1>3 DEF InTurn, Calm, Quiet, Stored, Running, EditorActive
<1>12. OwnedInv'
  BY <1>3 DEF OwnedInv, Calm, Quiet, Stored, Running
<1>13. DeletedStaysDeleted'
  BY <1>3 DEF DeletedStaysDeleted, Stored, InForce
<1> QED
  BY <1>1, <1>4, <1>5, <1>6, <1>7, <1>8, <1>9, <1>10, <1>11, <1>12, <1>13

LEMMA FetchMessageKeeps ==
  ASSUME PublicationInv, FetchMessage
  PROVE  PublicationInv'
<1> DEFINE j == [job["editor"] EXCEPT !.step = "refresh"]
<1>1. /\ EditorActive /\ job["editor"].op = 0
      /\ UNCHANGED <<panel, message, failures, reverted, configured, record, plan, task,
                     teardown, deleter, changes, overlaps, raced, removed>>
      /\ \/ RefreshDone
         \/ job' = [job EXCEPT !["editor"].step = "refresh"] /\ UNCHANGED <<lifecycle, refreshDue>>
  BY Zenon DEF FetchMessage, EditorTurn, EditorActive, InPlaceFrame
<1>2. CASE RefreshDone
  BY <1>1, <1>2, GivesUpEffect, StoppedEditorKeeps DEF RefreshDone, PublicationInv
<1>3. CASE job' = [job EXCEPT !["editor"].step = "refresh"] /\ UNCHANGED <<lifecycle, refreshDue>>
  <2>1. job' = [job EXCEPT !["editor"] = j]
    BY <1>3, Zenon
  <2>2. /\ j \in Jobs /\ j.active /\ j.step = "refresh" /\ j.op = 0
        /\ j.seen = job["editor"].seen /\ j.read = job["editor"].read /\ j.read.state = "set"
    BY <1>1 DEF PublicationInv, JobsTyped, Jobs, Cleaner, EditorActive, InForceIsPast
  <2> HIDE DEF j
  <2> QED
    BY <1>1, <1>3, <2>1, <2>2, WorkingEditorKeeps
<1> QED
  BY <1>1, <1>2, <1>3

LEMMA ResetReactionsKeeps ==
  ASSUME PublicationInv, ResetReactions
  PROVE  PublicationInv'
<1> DEFINE cleared == [job["editor"].read EXCEPT !.resets = FALSE]
           j == [job["editor"] EXCEPT !.read = cleared]
<1>1. /\ EditorActive /\ job["editor"].op = 0 /\ job["editor"].step = "refresh"
      /\ UNCHANGED <<refreshDue, message, failures, configured, record, plan, task,
                     teardown, deleter, changes, overlaps, raced, removed>>
      /\ \/ EditorGivesUp /\ UNCHANGED <<panel, reverted>>
         \/ /\ panel' = cleared
            /\ reverted' = (reverted \/ ~InForce(cleared.msg))
            /\ job' = [job EXCEPT !["editor"].read = cleared]
            /\ UNCHANGED lifecycle
  BY Zenon DEF ResetReactions, EditorTurn, EditorActive, InPlaceFrame
<1>2. CASE EditorGivesUp /\ UNCHANGED <<panel, reverted>>
  BY <1>1, <1>2, GivesUpEffect, StoppedEditorKeeps DEF PublicationInv
<1>3. CASE /\ panel' = cleared
           /\ reverted' = (reverted \/ ~InForce(cleared.msg))
           /\ job' = [job EXCEPT !["editor"].read = cleared]
           /\ UNCHANGED lifecycle
  <2>1. job' = [job EXCEPT !["editor"] = j]
    BY <1>3, Zenon
  <2>2. /\ cleared \in Panels /\ cleared.state = "set"
        /\ cleared.msg = job["editor"].read.msg
    BY <1>1 DEF PublicationInv, JobsTyped, Jobs, Cleaner, Panels, InForceIsPast
  <2> HIDE DEF cleared
  <2>3. /\ j \in Jobs /\ j.active /\ j.step = "refresh" /\ j.op = 0
        /\ j.seen = job["editor"].seen /\ j.read = cleared
    BY <1>1, <2>2 DEF PublicationInv, JobsTyped, Jobs, Cleaner, EditorActive
  <2> HIDE DEF j
  <2> QED
    BY <1>1, <1>3, <2>1, <2>2, <2>3, WorkingEditorKeeps
<1> QED
  BY <1>1, <1>2, <1>3

LEMMA EditMessageKeeps ==
  ASSUME PublicationInv, EditMessage
  PROVE  PublicationInv'
<1>1. /\ EditorActive /\ EditorGivesUp /\ (failures' = failures \/ Failure)
      /\ UNCHANGED message \/ Post(job["editor"].read.msg, "live")
      /\ UNCHANGED refreshDue \/ refreshDue' = FALSE
      /\ UNCHANGED <<panel, reverted, configured, record, plan, task, teardown, deleter,
                     changes, overlaps, raced, removed>>
  BY DEF EditMessage, EditorTurn, EditorActive, InPlaceFrame, RefreshDone, NoFailure
<1> QED
  BY <1>1, GivesUpEffect, StoppedEditorKeeps DEF PublicationInv

-----------------------------------------------------------------------------
(* Crashes                                                                  *)

\* A crash: no task runs, nothing is being cleaned up, and the lock is free.
Stopped ==
    /\ \A o \in Op : /\ task'[o] = IF Running(o) THEN "done" ELSE task[o]
                     /\ task'[o] \in Over /\ (task'[o] = "idle" <=> task[o] = "idle")
                     /\ task[o] \in Past => task'[o] \in Past
    /\ task' \in [Op -> Tasks]
    /\ \A c \in Cleaner : job'[c] = NoJob
    /\ ~EditorActive'
    /\ lifecycle' = "none"
    /\ deleter' = "idle"
    /\ teardown' = IF teardown = "message" THEN "todo" ELSE teardown

LEMMA CrashEffect ==
  ASSUME PublicationInv, Crash
  PROVE  Stopped /\ JobsTyped'
<1> USE DEF PublicationInv
<1>1. /\ \A o \in Op : task'[o] = IF Running(o) THEN "done" ELSE task[o]
      /\ \A c \in Cleaner : job'[c] = NoJob
      /\ lifecycle' = "none"
      /\ deleter' = "idle"
      /\ teardown' = IF teardown = "message" THEN "todo" ELSE teardown
  BY DEF Crash
<1>2. JobsTyped'
  BY NoJobTyped DEF Crash, JobsTyped
<1>3. task' \in [Op -> Tasks]
  BY DEF Crash, PublicationsTyped, Tasks
<1>4. \A o \in Op : /\ task'[o] \in Over /\ (task'[o] = "idle" <=> task[o] = "idle")
                    /\ task[o] \in Past => task'[o] \in Past
  BY <1>1 DEF Past, Running, Over, PublicationsTyped, Tasks
<1>5. ~EditorActive'
  BY <1>1 DEF NoJob, EditorActive, Cleaner
<1> QED
  BY <1>1, <1>2, <1>3, <1>4, <1>5 DEF Stopped, Over

LEMMA BotRestartKeeps ==
  ASSUME PublicationInv, BotRestart
  PROVE  PublicationInv'
<1> USE DEF PublicationInv
<1>1. /\ Crash /\ Failure
      /\ UNCHANGED <<configured, panel, record, plan, message, overlaps, raced, reverted,
                     removed, refreshDue, changes>>
  BY DEF BotRestart, Noted, RefreshKept
<1>2. Stopped /\ JobsTyped'
  BY <1>1, CrashEffect
<1>3. PublicationsTyped' /\ PanelTyped' /\ ServerTyped'
  BY <1>1, <1>2 DEF PublicationsTyped, PanelTyped, ServerTyped, Stopped, Over
<1>4. CountsTyped'
  BY <1>1, ReactionPanelAssumption DEF CountsTyped, Failure
<1>5. NotBegun'
  BY <1>1, <1>2, NoPublication DEF NotBegun, NoJob, Stopped, Over
<1>6. InForceIsPast'
  BY <1>1, <1>2 DEF InForceIsPast, PanelTyped, Panels, Stopped, Over
<1>7. ReplacedIsPast'
  BY <1>1, <1>2 DEF ReplacedIsPast, PublicationsTyped, Plans, Stopped, Over
<1>8. LockHeld'
  BY <1>1, <1>2 DEF LockHeld, Moving, Running, Over, Stopped
<1>9. ServerInv'
  BY <1>1, <1>2 DEF ServerInv, Moving, Running, Over, ServerTyped, Stopped, CountsTyped
<1>10. CreateIsAlone'
  BY <1>1, <1>2 DEF CreateIsAlone, Running, Over, Stopped
<1>11. JudgedRight'
  BY <1>1, <1>2 DEF JudgedRight, NoJob, Stopped, Over
<1>12. LiveInv'
  BY <1>1, <1>2 DEF LiveInv, Quiet, Fresh, Stored, Past, Stopped, Over, EditorActive, CountsTyped
<1>13. InTurn'
  BY <1>1, <1>2 DEF InTurn, Calm, Quiet, Running, Over, Fresh, Stored, Stopped
<1>14. OwnedInv'
  <2> SUFFICES ASSUME Calm', NEW o \in Op, message[o] \in Shown
               PROVE  \/ panel.state # "none" /\ panel.msg = o
                      \/ record[o] # "none"
                      \/ \E q \in Op : /\ plan[q].prev = o /\ Stored /\ panel.msg = q
                                       /\ record[q] # "none"
    BY <1>1 DEF OwnedInv, Stored
  <2>1. Calm /\ Quiet
    BY <1>1 DEF Calm, Quiet
  <2>2. \A q \in Op : Running(q) =>
          \/ record[q] # "none"
          \/ task[q] = "retire" /\ panel.state # "none" /\ panel.msg = q
                               /\ message[plan[q].prev] \notin Shown
    BY <2>1 DEF LiveInv, InTurn, ReplacedIsPast, PublicationsTyped, Tasks, Plans, Fresh,
                Running, Over, Stored, Calm
  <2> QED
    BY <2>1, <2>2 DEF OwnedInv
<1>15. DeletedStaysDeleted'
  BY <1>1 DEF DeletedStaysDeleted, Stored
<1> QED
  BY <1>2, <1>3, <1>4, <1>5, <1>6, <1>7, <1>8, <1>9, <1>10, <1>11, <1>12, <1>13, <1>14, <1>15

LEMMA SendCrashKeeps ==
  ASSUME PublicationInv, NEW o \in Op, SendCrash(o)
  PROVE  PublicationInv'
<1> USE DEF PublicationInv
<1>1. /\ task[o] = "send" /\ Post(o, "placeholder") /\ Crash /\ Failure
      /\ UNCHANGED <<configured, panel, record, plan, overlaps, raced, reverted, removed,
                     refreshDue, changes>>
  BY DEF SendCrash, Noted, RefreshKept
<1>2. Stopped /\ JobsTyped'
  BY <1>1, CrashEffect
<1>3. PublicationsTyped' /\ PanelTyped' /\ ServerTyped'
  BY <1>1, <1>2 DEF PublicationsTyped, PanelTyped, ServerTyped, Post, Stopped, Over
<1>4. /\ message'[o] = "placeholder"
      /\ \A p \in Op : p # o => message'[p] = message[p]
      /\ panel.msg # o /\ \A q \in Op : plan[q].prev # o
  BY <1>1, NoPublication DEF Post, PublicationsTyped, InForceIsPast, ReplacedIsPast, Past
<1>5. CountsTyped'
  BY <1>1, ReactionPanelAssumption DEF CountsTyped, Failure
<1>6. NotBegun'
  BY <1>1, <1>2, <1>4, NoPublication DEF NotBegun, NoJob, Stopped, Over
<1>7. InForceIsPast'
  BY <1>1, <1>2 DEF InForceIsPast, PanelTyped, Panels, Stopped, Over
<1>8. ReplacedIsPast'
  BY <1>1, <1>2 DEF ReplacedIsPast, PublicationsTyped, Plans, Stopped, Over
<1>9. LockHeld'
  BY <1>1, <1>2 DEF LockHeld, Moving, Running, Over, Stopped
<1>10. ServerInv'
  BY <1>1, <1>2 DEF ServerInv, Moving, Running, Over, ServerTyped, Stopped, CountsTyped
<1>11. CreateIsAlone'
  BY <1>1, <1>2 DEF CreateIsAlone, Running, Over, Stopped
<1>12. JudgedRight'
  BY <1>1, <1>2 DEF JudgedRight, NoJob, Stopped, Over
<1>13. LiveInv'
  BY <1>1, <1>2, <1>4
  DEF LiveInv, Quiet, Fresh, Stored, Past, InForceIsPast, PanelTyped, Panels, Stopped, Over,
      EditorActive, CountsTyped
<1>14. InTurn'
  BY <1>1, <1>2 DEF InTurn, Calm, Quiet, Running, Over, Fresh, Stored, Stopped
<1>15. OwnedInv'
  <2> SUFFICES ASSUME Calm', NEW p \in Op, message'[p] \in Shown
               PROVE  \/ panel.state # "none" /\ panel.msg = p
                      \/ record[p] # "none"
                      \/ \E q \in Op : /\ plan[q].prev = p /\ Stored /\ panel.msg = q
                                       /\ record[q] # "none"
    BY <1>1 DEF OwnedInv, Stored
  <2>1. Calm /\ Quiet
    BY <1>1 DEF Calm, Quiet
  <2>2. \A q \in Op : Running(q) =>
          \/ record[q] # "none"
          \/ task[q] = "retire" /\ panel.state # "none" /\ panel.msg = q
                               /\ message[plan[q].prev] \notin Shown
    BY <2>1 DEF LiveInv, InTurn, ReplacedIsPast, PublicationsTyped, Tasks, Plans, Fresh,
                Running, Over, Stored, Calm
  <2> QED
    BY <1>1, <1>4, <2>1, <2>2 DEF OwnedInv, LiveInv
<1>16. DeletedStaysDeleted'
  BY <1>1 DEF DeletedStaysDeleted, Stored
<1> QED
  BY <1>2, <1>3, <1>5, <1>6, <1>7, <1>8, <1>9, <1>10, <1>11, <1>12, <1>13, <1>14, <1>15, <1>16

LEMMA ConfirmCrashKeeps ==
  ASSUME PublicationInv, NEW o \in Op, ConfirmCrash(o)
  PROVE  PublicationInv'
<1> USE DEF PublicationInv
<1>1. /\ task[o] = "confirm" /\ MayCommit(o) /\ Commit(o) /\ Crash /\ Failure
      /\ UNCHANGED <<configured, record, plan, message, overlaps, raced, reverted, removed,
                     refreshDue, changes>>
  BY DEF ConfirmCrash, Noted, RefreshKept
<1>2. Stopped /\ JobsTyped'
  BY <1>1, CrashEffect
<1>3. panel'.state = "set" /\ panel'.msg = o /\ PanelTyped'
  BY <1>1, CommitEffect
<1>4. PublicationsTyped' /\ ServerTyped'
  BY <1>1, <1>2 DEF PublicationsTyped, ServerTyped, Stopped, Over
<1>5. CountsTyped'
  BY <1>1, ReactionPanelAssumption DEF CountsTyped, Failure
<1>6. NotBegun'
  BY <1>1, <1>2, NoPublication DEF NotBegun, NoJob, Stopped, Over
<1>7. InForceIsPast'
  BY <1>1, <1>2, <1>3, NoPublication DEF InForceIsPast, Past, Stopped, Over
<1>8. ReplacedIsPast'
  BY <1>1, <1>2 DEF ReplacedIsPast, PublicationsTyped, Plans, Stopped, Over
<1>9. LockHeld'
  BY <1>1, <1>2 DEF LockHeld, Moving, Running, Over, Stopped
<1>10. ServerInv'
  BY <1>1, <1>2 DEF ServerInv, Moving, Running, Over, ServerTyped, Stopped, CountsTyped
<1>11. CreateIsAlone'
  BY <1>1, <1>2 DEF CreateIsAlone, Running, Over, Stopped
<1>12. JudgedRight'
  BY <1>1, <1>2 DEF JudgedRight, NoJob, Stopped, Over
<1>13. LiveInv'
  BY <1>1, <1>2, <1>3 DEF LiveInv, Quiet, Fresh, Stored, Past, Stopped, Over, EditorActive,
                          CountsTyped
<1>14. InTurn'
  BY <1>1, <1>2, <1>3 DEF InTurn, Calm, Quiet, Running, Over, Fresh, Stored, Stopped
<1>15. OwnedInv'
  BY <1>1, <1>2, <1>3, <1>4
  DEF OwnedInv, Calm, Quiet, Shown, Running, Over, Stored, PublicationsTyped, Plans,
      ReplacedIsPast, CreateIsAlone, LiveInv, Fresh, InTurn, NoPanel, Stopped
<1>16. DeletedStaysDeleted'
  BY <1>1, <1>3
  DEF DeletedStaysDeleted, Stored, MayCommit, CreateIsAlone, ReplacedIsPast,
      PublicationsTyped, Plans, Running, Over
<1> QED
  BY <1>2, <1>3, <1>4, <1>5, <1>6, <1>7, <1>8, <1>9, <1>10, <1>11, <1>12, <1>13, <1>14,
     <1>15, <1>16

-----------------------------------------------------------------------------
(* The steps of a publication                                               *)

LEMMA SendKeeps ==
  ASSUME PublicationInv, NEW o \in Op, Send(o)
  PROVE  PublicationInv'
<1> USE DEF PublicationInv, Send, Post, Record, Step, NoFailure, PublicationFrame, Noted,
            RefreshKept
<1>1. /\ PanelTyped' /\ JobsTyped' /\ ServerTyped' /\ CountsTyped'
      /\ DeletedStaysDeleted'
  BY DEF PanelTyped, JobsTyped, ServerTyped, CountsTyped, DeletedStaysDeleted, Stored
<1>2. PublicationsTyped'
  BY DEF PublicationsTyped, Tasks, Marks
<1>3. NotBegun'
  BY DEF NotBegun
<1>4. InForceIsPast'
  BY DEF InForceIsPast, EditorActive, Past
<1>5. ReplacedIsPast'
  BY DEF ReplacedIsPast, Past
<1>6. LockHeld'
  BY DEF LockHeld, EditorActive, Moving, Running, Over
<1>7. ServerInv'
  BY DEF ServerInv, EditorActive, Moving, Running, Over, Stored, CountsTyped, ServerTyped
<1>8. CreateIsAlone'
  BY DEF CreateIsAlone, EditorActive, Running, Over
<1>9. JudgedRight'
  BY DEF JudgedRight, Quiet, Past, Stored
<1>10. LiveInv'
  BY NoPublication
  DEF PublicationsTyped, Tasks, ReplacedIsPast, Past, LiveInv, Quiet, Stored, EditorActive,
      CountsTyped
<1>11. InTurn'
  BY DEF InTurn, Calm, Quiet, EditorActive, Running, Over, Fresh, Stored
<1>12. OwnedInv'
  BY DEF OwnedInv, Calm, Quiet, Running, Over, Stored
<1> QED
  BY <1>1, <1>2, <1>3, <1>4, <1>5, <1>6, <1>7, <1>8, <1>9, <1>10, <1>11, <1>12

LEMMA SendLostKeeps ==
  ASSUME PublicationInv, NEW o \in Op, SendLost(o)
  PROVE  PublicationInv'
<1> USE DEF PublicationInv, SendLost, Post, Record, Step, End, Failure, PublicationFrame,
            Noted, RefreshKept
<1>1. PanelTyped' /\ JobsTyped' /\ DeletedStaysDeleted'
  BY DEF PanelTyped, JobsTyped, DeletedStaysDeleted, Stored
<1>2. PublicationsTyped' /\ ServerTyped' /\ CountsTyped'
  BY ReactionPanelAssumption DEF PublicationsTyped, Tasks, Marks, ServerTyped, CountsTyped
<1>3. NotBegun'
  BY DEF PublicationsTyped, Tasks, NotBegun
<1>4. InForceIsPast'
  BY DEF InForceIsPast, EditorActive, Past
<1>5. ReplacedIsPast'
  BY DEF ReplacedIsPast, Past
<1>6. LockHeld'
  BY DEF PublicationsTyped, Tasks, LockHeld, EditorActive, Moving, Running, Over
<1>7. ServerInv'
  BY DEF ServerInv, EditorActive, Moving, Running, Over, Stored, CountsTyped, ServerTyped
<1>8. CreateIsAlone'
  BY DEF CreateIsAlone, EditorActive, Running, Over
<1>9. JudgedRight'
  BY DEF JudgedRight, Quiet, Past, Stored
<1>10. LiveInv'
  BY DEF PublicationsTyped, Tasks, Plans, PanelTyped, Panels, InForceIsPast, ReplacedIsPast,
         LiveInv, Quiet, Stored, Fresh, Shown, EditorActive, CountsTyped
<1>11. InTurn'
  BY DEF InTurn, Calm, Quiet, EditorActive, Running, Over, Fresh, Stored
<1>12. OwnedInv'
  BY DEF PublicationsTyped, Tasks, InForceIsPast, Past, OwnedInv, Calm, Quiet, Shown,
         Running, Stored
<1> QED
  BY <1>1, <1>2, <1>3, <1>4, <1>5, <1>6, <1>7, <1>8, <1>9, <1>10, <1>11, <1>12

LEMMA FillKeeps ==
  ASSUME PublicationInv, NEW o \in Op, Fill(o)
  PROVE  PublicationInv'
<1> USE DEF PublicationInv, Fill, Post, Record, Step, BeginAbort, Failure, NoFailure,
            PublicationFrame, Noted, RefreshKept
<1>1. PanelTyped' /\ JobsTyped' /\ ServerTyped' /\ DeletedStaysDeleted'
  BY DEF PanelTyped, JobsTyped, ServerTyped, DeletedStaysDeleted, Stored
<1>2. PublicationsTyped' /\ CountsTyped'
  BY ReactionPanelAssumption DEF PublicationsTyped, Tasks, Marks, CountsTyped
<1>3. NotBegun'
  BY DEF PublicationsTyped, Tasks, NotBegun
<1>4. InForceIsPast'
  BY NoPublication
  DEF PublicationsTyped, Tasks, PanelTyped, Panels, JobsTyped, Jobs, Cleaner, InForceIsPast,
      EditorActive, Past
<1>5. ReplacedIsPast'
  BY DEF PublicationsTyped, Tasks, Plans, ReplacedIsPast, Past
<1>6. LockHeld'
  BY DEF PublicationsTyped, Tasks, LockHeld, EditorActive, Moving, Running, Over
<1>7. ServerInv'
  BY DEF PublicationsTyped, Tasks, ServerInv, EditorActive, Moving, Running, Over, Stored,
         CountsTyped, ServerTyped
<1>8. CreateIsAlone'
  BY DEF PublicationsTyped, Tasks, CreateIsAlone, EditorActive, Running, Over
<1>9. JudgedRight'
  BY DEF PublicationsTyped, Tasks, JobsTyped, Jobs, JudgedRight, Quiet, Past, Stored
<1>10. LiveInv'
  BY DEF PublicationsTyped, Tasks, Plans, PanelTyped, Panels, InForceIsPast, ReplacedIsPast,
         LiveInv, Quiet, Stored, Fresh, Shown, EditorActive, CountsTyped
<1>11. InTurn'
  BY DEF PublicationsTyped, Tasks, InTurn, Calm, Quiet, EditorActive, Running, Over, Fresh,
         Stored
<1>12. OwnedInv'
  BY DEF PublicationsTyped, Tasks, OwnedInv, Calm, Quiet, Running, Over, Stored
<1> QED
  BY <1>1, <1>2, <1>3, <1>4, <1>5, <1>6, <1>7, <1>8, <1>9, <1>10, <1>11, <1>12

LEMMA ReactKeeps ==
  ASSUME PublicationInv, NEW o \in Op, React(o)
  PROVE  PublicationInv'
<1> USE DEF PublicationInv, React, Record, Step, BeginAbort, Failure, NoFailure,
            PublicationFrame, Noted, RefreshKept
<1>1. PanelTyped' /\ JobsTyped' /\ ServerTyped' /\ DeletedStaysDeleted'
  BY DEF PanelTyped, JobsTyped, ServerTyped, DeletedStaysDeleted, Stored
<1>2. PublicationsTyped' /\ CountsTyped'
  BY ReactionPanelAssumption DEF PublicationsTyped, Tasks, Marks, CountsTyped
<1>3. NotBegun'
  BY DEF PublicationsTyped, Tasks, NotBegun
<1>4. InForceIsPast'
  BY NoPublication
  DEF PublicationsTyped, Tasks, PanelTyped, Panels, JobsTyped, Jobs, Cleaner, InForceIsPast,
      EditorActive, Past
<1>5. ReplacedIsPast'
  BY DEF PublicationsTyped, Tasks, Plans, ReplacedIsPast, Past
<1>6. LockHeld'
  BY DEF PublicationsTyped, Tasks, LockHeld, EditorActive, Moving, Running, Over
<1>7. ServerInv'
  BY DEF PublicationsTyped, Tasks, ServerInv, EditorActive, Moving, Running, Over, Stored,
         CountsTyped, ServerTyped
<1>8. CreateIsAlone'
  BY DEF PublicationsTyped, Tasks, CreateIsAlone, EditorActive, Running, Over
<1>9. JudgedRight'
  BY DEF PublicationsTyped, Tasks, JobsTyped, Jobs, JudgedRight, Quiet, Past, Stored
<1>10. LiveInv'
  BY EditorReads DEF PublicationsTyped, Tasks, LiveInv, Quiet, Stored, EditorActive, CountsTyped,
                     Past
<1>11. InTurn'
  BY DEF PublicationsTyped, Tasks, InTurn, Calm, Quiet, EditorActive, Running, Over, Fresh,
         Stored
<1>12. OwnedInv'
  BY DEF PublicationsTyped, Tasks, OwnedInv, Calm, Quiet, Running, Stored
<1> QED
  BY <1>1, <1>2, <1>3, <1>4, <1>5, <1>6, <1>7, <1>8, <1>9, <1>10, <1>11, <1>12

LEMMA AbortKeeps ==
  ASSUME PublicationInv, NEW o \in Op, Abort(o)
  PROVE  PublicationInv'
<1> USE DEF PublicationInv, Abort, Compensated, NotCompensated, Post, Record, Step, End,
            Failure, NoFailure, PublicationFrame, Noted, RefreshKept
<1>1. PanelTyped' /\ JobsTyped' /\ DeletedStaysDeleted'
  BY DEF PanelTyped, JobsTyped, DeletedStaysDeleted, Stored
<1>2. PublicationsTyped' /\ ServerTyped' /\ CountsTyped'
  BY ReactionPanelAssumption DEF PublicationsTyped, Tasks, Marks, ServerTyped, CountsTyped
<1>3. NotBegun'
  BY DEF PublicationsTyped, Tasks, NotBegun
<1>4. InForceIsPast'
  BY DEF InForceIsPast, EditorActive, Past
<1>5. ReplacedIsPast'
  BY DEF ReplacedIsPast, Past
<1>6. LockHeld'
  BY DEF PublicationsTyped, Tasks, LockHeld, EditorActive, Moving, Running, Over
<1>7. ServerInv'
  BY DEF ServerInv, EditorActive, Moving, Running, Over, Stored, CountsTyped, ServerTyped
<1>8. CreateIsAlone'
  BY DEF CreateIsAlone, EditorActive, Running, Over
<1>9. JudgedRight'
  BY DEF JudgedRight, Quiet, Past, Stored
<1>10. LiveInv'
  BY EditorReads DEF PublicationsTyped, Tasks, Plans, PanelTyped, Panels, InForceIsPast, Past,
         ReplacedIsPast, LiveInv, Quiet, Stored, Fresh, EditorActive, CountsTyped
<1>11. InTurn'
  BY DEF PublicationsTyped, Tasks, InTurn, Calm, Quiet, EditorActive, Running, Over, Fresh,
         Stored
<1>12. OwnedInv'
  BY DEF PublicationsTyped, Tasks, InForceIsPast, Past, LiveInv, Quiet, Stored, Fresh,
         Shown, OwnedInv, Calm, Running
<1> QED
  BY <1>1, <1>2, <1>3, <1>4, <1>5, <1>6, <1>7, <1>8, <1>9, <1>10, <1>11, <1>12

LEMMA ConfirmKeeps ==
  ASSUME PublicationInv, NEW o \in Op, Confirm(o)
  PROVE  PublicationInv'
<1> USE DEF PublicationInv, Confirm, MayCommit, Commit, Record, Step, End,
            PublicationFrame, Noted, RefreshKept
<1>1. JobsTyped' /\ CountsTyped'
  BY DEF JobsTyped, CountsTyped
<1>2. PublicationsTyped' /\ ServerTyped'
  BY DEF PublicationsTyped, Tasks, Marks, ServerTyped
<1>3. PanelTyped'
  BY CommitEffect
<1>4. NotBegun'
  BY DEF PublicationsTyped, Tasks, NotBegun
<1>5. InForceIsPast'
  BY NoPublication
  DEF PublicationsTyped, Tasks, PanelTyped, Panels, JobsTyped, Jobs, Cleaner, InForceIsPast,
      EditorActive, Past, Stored
<1>6. ReplacedIsPast'
  BY DEF PublicationsTyped, Tasks, Plans, ReplacedIsPast, Past
<1>7. LockHeld'
  BY DEF PublicationsTyped, Tasks, LockHeld, EditorActive, Moving, Running, Over
<1>8. ServerInv'
  BY DEF PublicationsTyped, Tasks, ServerInv, EditorActive, Moving, Running, Over, Stored,
         CountsTyped, ServerTyped
<1>9. CreateIsAlone'
  BY DEF PublicationsTyped, Tasks, CreateIsAlone, Running, Over
<1>10. JudgedRight'
  BY DEF PublicationsTyped, Tasks, JobsTyped, Jobs, ReplacedIsPast, Past, JudgedRight, Quiet
<1>11. LiveInv'
  BY EditorReads DEF PublicationsTyped, Tasks, LiveInv, Quiet, Fresh, EditorActive, CountsTyped,
                     Past
<1>12. InTurn'
  BY DEF PublicationsTyped, Tasks, InTurn, Calm, Quiet, EditorActive, Running, Over, Fresh,
         Stored
<1>13. OwnedInv'
  BY DEF PublicationsTyped, Tasks, Plans, ReplacedIsPast, CreateIsAlone, Running, Over,
         NoPanel, InTurn, Calm, Quiet, Fresh, Stored, OwnedInv
<1>14. DeletedStaysDeleted'
  BY DEF PublicationsTyped, Tasks, Plans, ReplacedIsPast, CreateIsAlone, Running, Over,
         DeletedStaysDeleted
<1> QED
  BY <1>1, <1>2, <1>3, <1>4, <1>5, <1>6, <1>7, <1>8, <1>9, <1>10, <1>11, <1>12, <1>13, <1>14

LEMMA RefuseKeeps ==
  ASSUME PublicationInv, NEW o \in Op, Refuse(o)
  PROVE  PublicationInv'
<1> USE DEF PublicationInv, Refuse, MayCommit, BeginAbort, Record, Step, Failure,
            NoFailure, PublicationFrame, Noted, RefreshKept
<1>1. PanelTyped' /\ JobsTyped' /\ ServerTyped' /\ DeletedStaysDeleted'
  BY DEF PanelTyped, JobsTyped, ServerTyped, DeletedStaysDeleted, Stored
<1>2. PublicationsTyped' /\ CountsTyped'
  BY ReactionPanelAssumption DEF PublicationsTyped, Tasks, Marks, CountsTyped
<1>3. NotBegun'
  BY DEF NotBegun
<1>4. InForceIsPast'
  BY DEF InForceIsPast, EditorActive, Past
<1>5. ReplacedIsPast'
  BY DEF ReplacedIsPast, Past
<1>6. LockHeld'
  BY DEF LockHeld, EditorActive, Moving, Running
<1>7. ServerInv'
  BY DEF ServerInv, EditorActive, Moving, Running, Stored, CountsTyped, ServerTyped
<1>8. CreateIsAlone'
  BY DEF CreateIsAlone, EditorActive, Running, Over
<1>9. JudgedRight'
  BY DEF JudgedRight, Quiet, Past, Stored
<1>10. LiveInv'
  BY DEF LiveInv, Quiet, Stored, Fresh, EditorActive, CountsTyped
<1>11. InTurn'
  BY DEF InTurn, Calm, Quiet, EditorActive, Running, Over, Fresh, Stored
<1>12. OwnedInv'
  BY DEF OwnedInv, Calm, Quiet, Running, Over, Stored
<1> QED
  BY <1>1, <1>2, <1>3, <1>4, <1>5, <1>6, <1>7, <1>8, <1>9, <1>10, <1>11, <1>12

\* The move is over: the editor goes on with the panel it has just put in force.
LEMMA RetireGoesOn ==
  ASSUME PublicationInv, NEW o \in Op, Retire(o), plan[o].kind = "move", NoFailure,
         Disabled(plan[o].prev), Record(o, "none"), Step(o, "done"), GoesOn(o)
  PROVE  PublicationInv'
<1> USE DEF PublicationInv
<1> DEFINE read == [NoPanel EXCEPT !.state = "set", !.msg = o]
           j == [NoJob EXCEPT !.active = TRUE, !.step = "refresh", !.read = read]
<1>1. /\ task[o] = "retire" /\ Moving(o)
      /\ UNCHANGED <<configured, panel, plan, lifecycle, teardown, deleter, failures,
                     overlaps, raced, reverted, removed, refreshDue, changes>>
      /\ job' = [job EXCEPT !["editor"] = j]
  BY Zenon DEF Retire, GoesOn, PublicationFrame, RefreshKept, Noted, Moving, Running, Over,
               NoFailure
<1>2. read \in Panels /\ read.state = "set" /\ read.msg = o
  BY DEF NoPanel, Panels
<1> HIDE DEF read
<1>3. j \in Jobs /\ j.active /\ j.read = read /\ j.op = 0 /\ \A p \in Op : j.seen[p] = "none"
  <2>1. NoJob.seen \in [Op -> Marks]
    BY NoJobTyped DEF Jobs
  <2>2. j \in Jobs
    BY <1>2, <2>1, JobValue
  <2> QED
    BY <2>2 DEF NoJob
<1> HIDE DEF j
<1>4. /\ JobsTyped' /\ job'["editor"] = j /\ job'["sweep"] = job["sweep"] /\ EditorActive'
  BY <1>1, <1>3, JobUpdate DEF Cleaner, EditorActive
<1>5. /\ task' = [task EXCEPT ![o] = "done"] /\ record' = [record EXCEPT ![o] = "none"]
      /\ message' = [p \in Op |-> IF p = plan[o].prev /\ message[p] # "gone" THEN "inert"
                                  ELSE message[p]]
      /\ plan[o].prev # o /\ task[plan[o].prev] \in Past /\ ~EditorActive
      /\ configured /\ (removed # "yes" => Stored)
      /\ \A p \in Op : (Running(p)' <=> p # o /\ Running(p)) /\ (Moving(p) => p = o)
  BY <1>1 DEF Disabled, Record, Step, Running, Over, Moving, PublicationsTyped, ReplacedIsPast,
              LockHeld, ServerInv
<1>6. PanelTyped' /\ ServerTyped' /\ CountsTyped'
  BY <1>1 DEF PanelTyped, ServerTyped, CountsTyped
<1>7. PublicationsTyped'
  BY <1>1, <1>5 DEF PublicationsTyped, Tasks, Marks
<1>8. NotBegun'
  BY <1>1, <1>3, <1>4, <1>5, NoPublication DEF NotBegun, Cleaner, PublicationsTyped, Past
<1>9. InForceIsPast'
  BY <1>1, <1>2, <1>3, <1>4, <1>5, NoPublication DEF InForceIsPast, Past, PublicationsTyped
<1>10. ReplacedIsPast'
  BY <1>1, <1>5 DEF ReplacedIsPast, Past, PublicationsTyped
<1>11. LockHeld'
  BY <1>1, <1>4, <1>5 DEF LockHeld, Moving
<1>12. ServerInv'
  BY <1>1, <1>4, <1>5 DEF ServerInv, Moving, Stored
<1>13. CreateIsAlone'
  BY <1>1, <1>5 DEF CreateIsAlone, Running, Over
<1>14. JudgedRight'
  BY <1>1, <1>3, <1>4, <1>5 DEF JudgedRight, Quiet, Stored, Past, Cleaner, PublicationsTyped
<1>15. LiveInv'
  <2> SUFFICES ASSUME Quiet PROVE LiveInv'
    BY <1>1 DEF LiveInv, Quiet
  <2>1. (Stored => message[panel.msg] = "live")'
    BY <1>1, <1>5
    DEF LiveInv, Quiet, Stored, InForceIsPast, ReplacedIsPast, PanelTyped, Panels
  <2>2. (EditorActive => record[job["editor"].read.msg] # "unknown")'
    BY <1>2, <1>3, <1>4, <1>5 DEF PublicationsTyped
  <2>3. ASSUME NEW p \in Op
        PROVE  /\ task'[p] = "confirm" => message'[p] = "live"
               /\ task'[p] = "send" => record'[p] = "unknown"
               /\ task'[p] \in Fresh \ {"send"} => record'[p] = "known"
               /\ record'[p] = "unknown" =>
                     task'[p] \in {"send", "done"} /\ panel.msg # p /\ message'[p] # "live"
               /\ task'[p] = "retire" /\ overlaps = 0 =>
                     record'[p] = "known" \/ message'[plan[p].prev] \notin Shown
    BY <1>1, <1>5
    DEF LiveInv, Fresh, Past, Shown, PublicationsTyped, Tasks, Plans, ReplacedIsPast
  <2> QED
    BY <1>1, <2>1, <2>2, <2>3 DEF LiveInv
<1>16. InTurn'
  BY <1>1, <1>2, <1>3, <1>4, <1>5
  DEF InTurn, Calm, Quiet, Stored, PublicationsTyped, Running, Over, Moving, Fresh
<1>17. OwnedInv'
  BY <1>1, <1>5
  DEF OwnedInv, Calm, Quiet, Stored, Shown, InTurn, PublicationsTyped, Running, Over, Moving
<1>18. DeletedStaysDeleted'
  BY <1>1 DEF DeletedStaysDeleted, Stored
<1> QED
  BY <1>4, <1>6, <1>7, <1>8, <1>9, <1>10, <1>11, <1>12, <1>13, <1>14, <1>15, <1>16, <1>17,
     <1>18

\* Otherwise the publication is over, with or without its record.
LEMMA RetireEnds ==
  ASSUME PublicationInv, NEW o \in Op, task[o] = "retire", PublicationFrame,
         UNCHANGED <<panel, job>>,
         Step(o, "done"), lifecycle' = IF plan[o].kind = "move" THEN "none" ELSE lifecycle,
         \/ NoFailure /\ plan[o].kind # "move" /\ Disabled(plan[o].prev) /\ Record(o, "none")
         \/ Failure /\ UNCHANGED message /\ (Record(o, "known") \/ UNCHANGED record)
  PROVE  PublicationInv'
<1> USE DEF PublicationInv, Disabled, Record, Step, Failure, NoFailure, PublicationFrame,
            Noted, RefreshKept
<1>1. PanelTyped' /\ JobsTyped' /\ DeletedStaysDeleted'
  BY DEF PanelTyped, JobsTyped, DeletedStaysDeleted, Stored
<1>2. PublicationsTyped' /\ ServerTyped' /\ CountsTyped'
  BY ReactionPanelAssumption DEF PublicationsTyped, Tasks, Marks, ServerTyped, CountsTyped
<1>3. NotBegun'
  BY NoPublication DEF PublicationsTyped, Tasks, NotBegun, ReplacedIsPast, Past
<1>4. InForceIsPast'
  BY DEF InForceIsPast, EditorActive, Past
<1>5. ReplacedIsPast'
  BY DEF ReplacedIsPast, Past
<1>6. LockHeld'
  BY DEF PublicationsTyped, Tasks, LockHeld, EditorActive, Moving, Running, Over
<1>7. ServerInv'
  BY DEF ServerInv, EditorActive, Moving, Running, Over, Stored, CountsTyped, ServerTyped
<1>8. CreateIsAlone'
  BY DEF CreateIsAlone, EditorActive, Running, Over
<1>9. JudgedRight'
  BY DEF JudgedRight, Quiet, Past, Stored
<1>10. LiveInv'
  BY EditorReads
  DEF PublicationsTyped, Tasks, Plans, PanelTyped, Panels, InForceIsPast, Past,
      ReplacedIsPast, LiveInv, Quiet, Stored, Fresh, Shown, EditorActive, CountsTyped
<1>11. InTurn'
  BY DEF PublicationsTyped, Tasks, InTurn, Calm, Quiet, EditorActive, Running, Over, Fresh,
         Stored
<1>12. OwnedInv'
  BY DEF PublicationsTyped, Tasks, Plans, ReplacedIsPast, LiveInv, Quiet, Stored, Shown,
         InTurn, Calm, Running, OwnedInv
<1> QED
  BY <1>1, <1>2, <1>3, <1>4, <1>5, <1>6, <1>7, <1>8, <1>9, <1>10, <1>11, <1>12

LEMMA RetireKeeps ==
  ASSUME PublicationInv, NEW o \in Op, Retire(o)
  PROVE  PublicationInv'
<1>1. CASE /\ Disabled(plan[o].prev) /\ Record(o, "none") /\ NoFailure /\ Step(o, "done")
           /\ GoesOn(o)
  <2>1. CASE plan[o].kind = "move"
    BY <1>1, <2>1, RetireGoesOn
  <2>2. CASE plan[o].kind # "move"
    BY <1>1, <2>2, RetireEnds DEF Retire, GoesOn
  <2> QED
    BY <2>1, <2>2
<1>2. CASE /\ Failure /\ UNCHANGED <<message, job>>
           /\ IF plan[o].kind = "resend" THEN Record(o, "known") ELSE UNCHANGED record
           /\ End(o)
  BY <1>2, RetireEnds DEF Retire, End
<1> QED
  BY <1>1, <1>2 DEF Retire

-----------------------------------------------------------------------------
(* The sweep, and the editor cleaning up                                    *)

LEMMA SweepRecordsKeeps ==
  ASSUME PublicationInv, SweepRecords
  PROVE  PublicationInv'
<1> USE DEF PublicationInv, SweepRecords, Noted, RefreshKept
<1>1. /\ PublicationsTyped' /\ PanelTyped' /\ ServerTyped' /\ CountsTyped'
      /\ ReplacedIsPast' /\ LiveInv' /\ OwnedInv' /\ DeletedStaysDeleted'
  BY DEF PublicationsTyped, Tasks, PanelTyped, ServerTyped, CountsTyped, ReplacedIsPast, LiveInv,
         Quiet, Stored, OwnedInv, Calm, Running, Over, DeletedStaysDeleted, EditorActive,
         JobsTyped, Cleaner
<1>2. JobsTyped'
  <2> DEFINE j == [NoJob EXCEPT !.active = TRUE, !.seen = record]
  <2>1. job' = [job EXCEPT !["sweep"] = j]
    BY Zenon DEF SweepRecords
  <2>2. record \in [Op -> Marks] /\ 0 \in Op \union {0}
    BY DEF PublicationsTyped
  <2>3. j \in Jobs
    BY NoPanelTyped, <2>2, JobValue
  <2> HIDE DEF j
  <2> QED
    BY <2>1, <2>3 DEF JobsTyped, Cleaner
<1>3. NotBegun'
  BY NoPublication DEF NotBegun, NoJob
<1>4. InForceIsPast'
  BY DEF InForceIsPast, EditorActive
<1>5. LockHeld'
  BY DEF LockHeld, EditorActive, Moving, Running
<1>6. ServerInv'
  BY DEF ServerInv, EditorActive, Moving, Running, Stored, CountsTyped, ServerTyped
<1>7. CreateIsAlone'
  BY DEF CreateIsAlone, EditorActive, Running
<1>8. JudgedRight'
  BY DEF JudgedRight, Quiet, Stored, NoJob
<1>9. InTurn'
  BY DEF InTurn, Calm, Quiet, EditorActive, Running, Stored
<1> QED
  BY <1>1, <1>2, <1>3, <1>4, <1>5, <1>6, <1>7, <1>8, <1>9

\* The record of a publication that was committed: what it replaced is not in force.
LEMMA ToRetireKeeps ==
  ASSUME PublicationInv, NEW c \in Cleaner, NEW o \in Op,
         Judged(c, o), ToRetire(c, o), JobsTyped'
  PROVE  PublicationInv'
<1> USE DEF PublicationInv, Judged, CleaningFrame, RefreshKept, ToRetire, TakenUp
<1>1. PanelTyped' /\ CountsTyped' /\ ReplacedIsPast' /\ DeletedStaysDeleted'
  BY DEF PanelTyped, CountsTyped, ReplacedIsPast, DeletedStaysDeleted, Stored
<1>2. PublicationsTyped' /\ ServerTyped'
  BY DEF PublicationsTyped, Tasks, ServerTyped
<1>3. NotBegun'
  BY DEF NotBegun
<1>4. InForceIsPast'
  BY DEF InForceIsPast, EditorActive, Cleaner
<1>5. LockHeld'
  BY DEF LockHeld, EditorActive, Moving, Running, Cleaner
<1>6. ServerInv'
  BY DEF ServerInv, EditorActive, Moving, Running, Stored, Cleaner, CountsTyped, ServerTyped
<1>7. CreateIsAlone'
  BY DEF CreateIsAlone, EditorActive, Running, Cleaner
<1>8. JudgedRight'
  BY NoPublication
  DEF PublicationsTyped, Tasks, Plans, JobsTyped, Jobs, InForceIsPast, Past, ReplacedIsPast,
      JudgedRight, Quiet, Committed, InForce
<1>9. LiveInv'
  BY DEF ServerTyped, LiveInv, Quiet, Stored, EditorActive, CountsTyped, Cleaner
<1>10. InTurn'
  BY NoPublication
  DEF ServerTyped, InTurn, Calm, Quiet, EditorActive, Running, Stored, Cleaner
<1>11. OwnedInv'
  BY DEF ServerTyped, OwnedInv, Calm, Quiet, Running, Stored
<1> QED
  BY <1>1, <1>2, <1>3, <1>4, <1>5, <1>6, <1>7, <1>8, <1>9, <1>10, <1>11

\* A message is to be taken down: its publication is over and was not committed.
LEMMA ToUndoKeeps ==
  ASSUME PublicationInv, NEW c \in Cleaner, NEW o \in Op,
         Judged(c, o), ToUndo(c, o), JobsTyped'
  PROVE  PublicationInv'
<1> USE DEF PublicationInv, Judged, CleaningFrame, RefreshKept, ToUndo, TakenUp
<1>1. PanelTyped' /\ CountsTyped' /\ ReplacedIsPast' /\ DeletedStaysDeleted'
  BY DEF PanelTyped, CountsTyped, ReplacedIsPast, DeletedStaysDeleted, Stored
<1>2. PublicationsTyped' /\ ServerTyped'
  BY DEF PublicationsTyped, Tasks, ServerTyped
<1>3. NotBegun'
  BY DEF NotBegun
<1>4. InForceIsPast'
  BY DEF InForceIsPast, EditorActive, Cleaner
<1>5. LockHeld'
  BY DEF LockHeld, EditorActive, Moving, Running, Cleaner
<1>6. ServerInv'
  BY DEF ServerInv, EditorActive, Moving, Running, Stored, Cleaner, CountsTyped, ServerTyped
<1>7. CreateIsAlone'
  BY DEF CreateIsAlone, EditorActive, Running, Cleaner
<1>8. JudgedRight'
  BY NoPublication
  DEF JobsTyped, Jobs, NotBegun, JudgedRight, Quiet, Stored, LiveInv, Committed, InForce,
      Running, Over, Cleaner, Resolved
<1>9. LiveInv'
  BY DEF ServerTyped, LiveInv, Quiet, Stored, EditorActive, CountsTyped, Cleaner
<1>10. InTurn'
  BY NoPublication
  DEF ServerTyped, InTurn, Calm, Quiet, EditorActive, Running, Stored, Cleaner
<1>11. OwnedInv'
  BY DEF ServerTyped, OwnedInv, Calm, Quiet, Running, Stored
<1> QED
  BY <1>1, <1>2, <1>3, <1>4, <1>5, <1>6, <1>7, <1>8, <1>9, <1>10, <1>11

\* Nothing is left to do but to delete the record.
LEMMA DroppedKeeps ==
  ASSUME PublicationInv, NEW c \in Cleaner, NEW o \in Op,
         Judged(c, o), Dropped(c, o), JobsTyped'
  PROVE  PublicationInv'
<1> USE DEF PublicationInv, Judged, CleaningFrame, RefreshKept, Dropped, PassedOver, Record
<1>1. PanelTyped' /\ CountsTyped' /\ ReplacedIsPast' /\ DeletedStaysDeleted'
  BY DEF PanelTyped, CountsTyped, ReplacedIsPast, DeletedStaysDeleted, Stored
<1>2. PublicationsTyped' /\ ServerTyped'
  BY DEF PublicationsTyped, Tasks, Marks, ServerTyped
<1>3. NotBegun'
  BY NoPublication DEF JobsTyped, Jobs, NotBegun, Panels, Cleaner
<1>4. InForceIsPast'
  BY DEF InForceIsPast, EditorActive, Cleaner
<1>5. LockHeld'
  BY DEF LockHeld, EditorActive, Moving, Running, Cleaner
<1>6. ServerInv'
  BY DEF ServerInv, EditorActive, Moving, Running, Stored, Cleaner, CountsTyped, ServerTyped
<1>7. CreateIsAlone'
  BY DEF CreateIsAlone, EditorActive, Running, Cleaner
<1>8. JudgedRight'
  BY DEF ServerTyped, JudgedRight, Quiet, Stored
<1>9. LiveInv'
  BY EditorReads, NoPublication
  DEF JobsTyped, Jobs, CreateIsAlone, Running, Over, NoPanel, LiveInv, Quiet, Stored, Fresh,
      Shown, Committed, InForce, EditorActive, CountsTyped, Cleaner
<1>10. InTurn'
  BY NoPublication
  DEF PublicationsTyped, Tasks, JobsTyped, Jobs, InTurn, Calm, Quiet, EditorActive, Running,
      Stored, Committed, InForce, Cleaner
<1>11. OwnedInv'
  BY NoPublication
  DEF JobsTyped, Jobs, Marks, ReplacedIsPast, LiveInv, Quiet, Stored, Shown, OwnedInv, Calm,
      Running, Committed, InForce, Cleaner, Resolved
<1> QED
  BY <1>1, <1>2, <1>3, <1>4, <1>5, <1>6, <1>7, <1>8, <1>9, <1>10, <1>11

LEMMA JudgeKeeps ==
  ASSUME PublicationInv, NEW c \in Cleaner, Judge(c)
  PROVE  PublicationInv'
<1>1. /\ JobsTyped'
      /\ \E o \in Op : Judged(c, o) /\ (ToRetire(c, o) \/ ToUndo(c, o) \/ Dropped(c, o))
  BY JudgeEffect DEF PublicationInv
<1> QED
  BY <1>1, ToRetireKeeps, ToUndoKeeps, DroppedKeeps

LEMMA RetiredKeeps ==
  ASSUME PublicationInv, NEW c \in Cleaner, NEW o \in Op,
         Cleaned(c, o), Retired(c, o), JobsTyped'
  PROVE  PublicationInv'
<1> USE DEF PublicationInv, Cleaned, CleaningFrame, RefreshKept, Failure, Retired, PassedOver,
            Record, Disabled
<1>1. PanelTyped' /\ ReplacedIsPast' /\ DeletedStaysDeleted'
  BY DEF PanelTyped, ReplacedIsPast, DeletedStaysDeleted, Stored
<1>2. PublicationsTyped' /\ ServerTyped' /\ CountsTyped'
  BY ReactionPanelAssumption DEF PublicationsTyped, Tasks, Marks, ServerTyped, CountsTyped
<1>3. NotBegun'
  BY NoPublication DEF JobsTyped, Jobs, NotBegun, ReplacedIsPast, Past, Cleaner
<1>4. InForceIsPast'
  BY DEF InForceIsPast, EditorActive, Cleaner
<1>5. LockHeld'
  BY DEF LockHeld, EditorActive, Moving, Running, Cleaner
<1>6. ServerInv'
  BY DEF ServerInv, EditorActive, Moving, Running, Stored, Cleaner, CountsTyped, ServerTyped
<1>7. CreateIsAlone'
  BY DEF CreateIsAlone, EditorActive, Running, Cleaner
<1>8. JudgedRight'
  BY DEF JudgedRight, Quiet, Stored
<1>9. LiveInv'
  BY EditorReads, NoPublication
  DEF PublicationsTyped, Tasks, Plans, PanelTyped, Panels, InForceIsPast, Past, ReplacedIsPast,
      JudgedRight, Quiet, Stored, LiveInv, Fresh, Shown, EditorActive, CountsTyped, Cleaner
<1>10. InTurn'
  BY DEF PublicationsTyped, Tasks, JobsTyped, Jobs, InTurn, Calm, Quiet, EditorActive,
         Running, Stored, Cleaner
<1>11. OwnedInv'
  BY NoPublication
  DEF PublicationsTyped, Tasks, Plans, ReplacedIsPast, Past, JudgedRight, Quiet, Stored,
      InTurn, Calm, Running, OwnedInv, Shown
<1> QED
  BY <1>1, <1>2, <1>3, <1>4, <1>5, <1>6, <1>7, <1>8, <1>9, <1>10, <1>11

LEMMA UndoneKeeps ==
  ASSUME PublicationInv, NEW c \in Cleaner, NEW o \in Op,
         Cleaned(c, o), Undone(c, o), JobsTyped'
  PROVE  PublicationInv'
<1> USE DEF PublicationInv, Cleaned, CleaningFrame, RefreshKept, Failure, Undone, PassedOver,
            Record, Compensated, Post, NoFailure
<1>1. PanelTyped' /\ ReplacedIsPast' /\ DeletedStaysDeleted'
  BY DEF PanelTyped, ReplacedIsPast, DeletedStaysDeleted, Stored
<1>2. PublicationsTyped' /\ ServerTyped' /\ CountsTyped'
  BY ReactionPanelAssumption DEF PublicationsTyped, Tasks, Marks, ServerTyped, CountsTyped
<1>3. NotBegun'
  BY NoPublication DEF PublicationsTyped, Tasks, JobsTyped, Jobs, NotBegun, Panels, Cleaner
<1>4. InForceIsPast'
  BY DEF InForceIsPast, EditorActive, Cleaner
<1>5. LockHeld'
  BY DEF LockHeld, EditorActive, Moving, Running, Cleaner
<1>6. ServerInv'
  BY DEF ServerInv, EditorActive, Moving, Running, Stored, Cleaner, CountsTyped, ServerTyped
<1>7. CreateIsAlone'
  BY DEF CreateIsAlone, EditorActive, Running, Cleaner
<1>8. JudgedRight'
  BY DEF JudgedRight, Quiet, Stored
<1>9. LiveInv'
  BY EditorReads, NoPublication
  DEF PublicationsTyped, Tasks, Plans, PanelTyped, Panels, InForceIsPast, ReplacedIsPast,
      JudgedRight, Quiet, Stored, LiveInv, Fresh, Shown, EditorActive, CountsTyped, Cleaner
<1>10. InTurn'
  BY DEF PublicationsTyped, Tasks, JobsTyped, Jobs, InTurn, Calm, Quiet, EditorActive,
         Running, Stored, Cleaner
<1>11. OwnedInv'
  BY NoPublication
  DEF PublicationsTyped, Tasks, JudgedRight, Quiet, Stored, OwnedInv, Calm, Shown, Running
<1> QED
  BY <1>1, <1>2, <1>3, <1>4, <1>5, <1>6, <1>7, <1>8, <1>9, <1>10, <1>11

LEMMA PutOffKeeps ==
  ASSUME PublicationInv, NEW c \in Cleaner, NEW o \in Op,
         Cleaned(c, o), PutOff(c, o), JobsTyped'
  PROVE  PublicationInv'
<1> USE DEF PublicationInv, Cleaned, CleaningFrame, RefreshKept, Failure, PutOff, PassedOver
<1>1. PanelTyped' /\ ReplacedIsPast' /\ DeletedStaysDeleted'
  BY DEF PanelTyped, ReplacedIsPast, DeletedStaysDeleted, Stored
<1>2. PublicationsTyped' /\ ServerTyped' /\ CountsTyped'
  BY ReactionPanelAssumption DEF PublicationsTyped, Tasks, ServerTyped, CountsTyped
<1>3. NotBegun'
  BY NoPublication DEF JobsTyped, Jobs, NotBegun
<1>4. InForceIsPast'
  BY DEF InForceIsPast, EditorActive, Cleaner
<1>5. LockHeld'
  BY DEF LockHeld, EditorActive, Moving, Running, Cleaner
<1>6. ServerInv'
  BY DEF ServerInv, EditorActive, Moving, Running, Stored, Cleaner, CountsTyped, ServerTyped
<1>7. CreateIsAlone'
  BY DEF CreateIsAlone, EditorActive, Running, Cleaner
<1>8. JudgedRight'
  BY DEF JudgedRight, Quiet, Stored
<1>9. LiveInv'
  BY DEF LiveInv, Quiet, Stored, EditorActive, CountsTyped, Cleaner
<1>10. InTurn'
  BY DEF InTurn, Calm, Quiet, EditorActive, Running, Stored, Cleaner
<1>11. OwnedInv'
  BY DEF OwnedInv, Calm, Quiet, Running, Stored
<1> QED
  BY <1>1, <1>2, <1>3, <1>4, <1>5, <1>6, <1>7, <1>8, <1>9, <1>10, <1>11

LEMMA GivenUpKeeps ==
  ASSUME PublicationInv, NEW c \in Cleaner, NEW o \in Op,
         Cleaned(c, o), GivenUp(c, o), JobsTyped'
  PROVE  PublicationInv'
<1>1. /\ EditorActive /\ (failures' = failures \/ Failure)
      /\ UNCHANGED <<configured, panel, record, plan, message, task, teardown, deleter,
                     overlaps, raced, reverted, removed, refreshDue, changes>>
  BY DEF Cleaned, CleaningFrame, RefreshKept, GivenUp, EditorActive
<1> QED
  BY <1>1, StoppedEditorKeeps DEF GivenUp

LEMMA CleanKeeps ==
  ASSUME PublicationInv, NEW c \in Cleaner, Clean(c)
  PROVE  PublicationInv'
<1>1. /\ JobsTyped'
      /\ \E o \in Op : /\ Cleaned(c, o)
                       /\ Retired(c, o) \/ Undone(c, o) \/ PutOff(c, o) \/ GivenUp(c, o)
  BY CleanEffect DEF PublicationInv
<1> QED
  BY <1>1, RetiredKeeps, UndoneKeeps, PutOffKeeps, GivenUpKeeps

-----------------------------------------------------------------------------
(* Deleting the panel, and removing the setup                               *)

LEMMA DeleteMessageKeeps ==
  ASSUME PublicationInv, DeleteMessage
  PROVE  PublicationInv'
<1> USE DEF PublicationInv, DeleteMessage, Managed, Post, Command, Failure, NoFailure, RefreshKept
<1>1. PanelTyped' /\ JobsTyped' /\ InForceIsPast' /\ ReplacedIsPast' /\ LockHeld'
  BY DEF PanelTyped, JobsTyped, InForceIsPast, EditorActive, ReplacedIsPast, LockHeld,
         Moving, Running, Over
<1>2. PublicationsTyped' /\ ServerTyped' /\ CountsTyped'
  BY ReactionPanelAssumption DEF PublicationsTyped, Tasks, ServerTyped, CountsTyped
<1>3. NotBegun'
  BY NoPublication DEF PublicationsTyped, Tasks, NotBegun, InForceIsPast, Past
<1>4. ServerInv'
  BY DEF ServerInv, EditorActive, Moving, Running, Stored, CountsTyped, ServerTyped
<1>5. CreateIsAlone'
  BY DEF CreateIsAlone, Running, NoPanel, Stored
<1>6. JudgedRight'
  BY DEF JudgedRight, Quiet
<1>7. LiveInv'
  BY DEF LiveInv, Quiet, EditorActive, CountsTyped
<1>8. InTurn'
  BY DEF InTurn, Calm, Quiet
<1>9. OwnedInv'
  BY DEF OwnedInv, Calm, Quiet
<1>10. DeletedStaysDeleted'
  BY DEF DeletedStaysDeleted
<1> QED
  BY <1>1, <1>2, <1>3, <1>4, <1>5, <1>6, <1>7, <1>8, <1>9, <1>10

LEMMA ForgetPanelKeeps ==
  ASSUME PublicationInv, ForgetPanel
  PROVE  PublicationInv'
<1> USE DEF PublicationInv, ForgetPanel, Failure, NoFailure, RefreshKept
<1>1. PublicationsTyped' /\ JobsTyped' /\ NotBegun' /\ LockHeld'
  BY DEF PublicationsTyped, Tasks, JobsTyped, NotBegun, LockHeld, EditorActive, Moving,
         Running, Over
<1>2. PanelTyped' /\ ServerTyped' /\ CountsTyped'
  BY NoPanelTyped, ReactionPanelAssumption DEF PanelTyped, ServerTyped, CountsTyped
<1>3. InForceIsPast'
  BY DEF InForceIsPast, EditorActive, NoPanel
<1>4. ReplacedIsPast'
  BY DEF PublicationsTyped, Tasks, Plans, ReplacedIsPast, NoPanel
<1>5. ServerInv'
  BY DEF ServerInv, EditorActive, Moving, Running, Stored, CountsTyped, ServerTyped
<1>6. CreateIsAlone'
  BY DEF CreateIsAlone, EditorActive, Running, NoPanel, Stored
<1>7. JudgedRight'
  BY DEF JudgedRight, Quiet, Stored, NoPanel
<1>8. LiveInv'
  BY DEF LiveInv, Quiet, Stored, EditorActive, CountsTyped
<1>9. InTurn'
  BY DEF InTurn, Calm, Quiet, EditorActive, Running, Stored
<1>10. OwnedInv'
  BY DEF OwnedInv, Calm, Quiet, Running, Stored
<1>11. DeletedStaysDeleted'
  BY DEF DeletedStaysDeleted, Stored, NoPanel
<1> QED
  BY <1>1, <1>2, <1>3, <1>4, <1>5, <1>6, <1>7, <1>8, <1>9, <1>10, <1>11

LEMMA RemoveSetupKeeps ==
  ASSUME PublicationInv, RemoveSetup
  PROVE  PublicationInv'
<1> USE DEF PublicationInv, RemoveSetup, Command, RemovalFrame, Noted, RefreshKept
<1>1. /\ PublicationsTyped' /\ PanelTyped' /\ JobsTyped' /\ NotBegun' /\ InForceIsPast'
      /\ ReplacedIsPast' /\ CreateIsAlone' /\ JudgedRight' /\ LiveInv'
      /\ DeletedStaysDeleted'
  BY DEF PublicationsTyped, Tasks, PanelTyped, JobsTyped, NotBegun, InForceIsPast,
         EditorActive, ReplacedIsPast, CreateIsAlone, Running, Over, JudgedRight, Quiet,
         Stored, LiveInv, DeletedStaysDeleted, CountsTyped
<1>2. CountsTyped'
  BY ReactionPanelAssumption DEF CountsTyped
<1>3. ServerTyped'
  <2>1. /\ configured' = FALSE /\ lifecycle' = "removal" /\ teardown' = "todo"
        /\ UNCHANGED <<deleter, raced, removed>>
    OBVIOUS
  <2> QED
    BY <2>1 DEF ServerTyped
<1>4. LockHeld'
  BY DEF LockHeld, EditorActive, Moving, Running
<1>5. ServerInv'
  BY DEF LockHeld, EditorActive, Moving, Running, ServerInv, CountsTyped, ServerTyped
<1>6. InTurn'
  BY DEF CountsTyped, InTurn, Calm, Quiet, EditorActive, Running, Stored, Unsettled,
         SomeRunning
<1>7. OwnedInv'
  BY DEF CountsTyped, OwnedInv, Calm, Quiet, Unsettled, SomeRunning
<1> QED
  BY <1>1, <1>2, <1>3, <1>4, <1>5, <1>6, <1>7

LEMMA DisableEntryKeeps ==
  ASSUME PublicationInv, DisableEntry
  PROVE  PublicationInv'
<1> USE DEF PublicationInv, DisableEntry, RemovalFrame, Noted, RefreshKept
<1>1. PublicationsTyped' /\ JobsTyped' /\ CountsTyped' /\ NotBegun'
  BY DEF PublicationsTyped, Tasks, JobsTyped, CountsTyped, NotBegun
<1>2. PanelTyped' /\ ServerTyped'
  BY DEF PanelTyped, Panels, ServerTyped
<1>3. InForceIsPast'
  BY DEF PanelTyped, Panels, InForceIsPast, EditorActive
<1>4. ReplacedIsPast'
  BY DEF PanelTyped, Panels, ReplacedIsPast
<1>5. LockHeld'
  BY DEF LockHeld, EditorActive, Moving, Running
<1>6. ServerInv'
  BY DEF ServerInv, EditorActive, Moving, Running, CountsTyped, ServerTyped
<1>7. CreateIsAlone'
  BY DEF CreateIsAlone, EditorActive, Running, NoPanel
<1>8. JudgedRight'
  BY DEF PanelTyped, Panels, JudgedRight, Quiet, Stored
<1>9. LiveInv'
  BY DEF PanelTyped, Panels, LiveInv, Quiet, Stored, EditorActive, CountsTyped
<1>10. InTurn'
  BY DEF ServerInv, EditorActive, Running, Over, InTurn, Calm, Quiet, Fresh
<1>11. OwnedInv'
  BY DEF PanelTyped, Panels, ServerInv, InTurn, Calm, Quiet, OwnedInv
<1>12. DeletedStaysDeleted'
  BY DEF PanelTyped, Panels, DeletedStaysDeleted, Stored
<1> QED
  BY <1>1, <1>2, <1>3, <1>4, <1>5, <1>6, <1>7, <1>8, <1>9, <1>10, <1>11, <1>12

LEMMA DisableMessageKeeps ==
  ASSUME PublicationInv, DisableMessage
  PROVE  PublicationInv'
<1> USE DEF PublicationInv, DisableMessage, Disabled, Failure, NoFailure, RemovalFrame,
            Noted, RefreshKept
<1>1. JobsTyped'
  BY DEF JobsTyped
<1>2. PublicationsTyped' /\ PanelTyped' /\ ServerTyped' /\ CountsTyped'
  BY NoPanelTyped, ReactionPanelAssumption
  DEF PublicationsTyped, Tasks, PanelTyped, ServerTyped, CountsTyped
<1>3. NotBegun'
  BY NoPublication DEF NotBegun, InForceIsPast, Past
<1>4. InForceIsPast'
  BY DEF InForceIsPast, EditorActive, NoPanel
<1>5. ReplacedIsPast'
  BY DEF PublicationsTyped, Tasks, Plans, ReplacedIsPast, NoPanel
<1>6. LockHeld'
  BY DEF LockHeld, EditorActive, Moving, Running, ServerInv
<1>7. ServerInv'
  BY DEF ServerInv, EditorActive, Moving, Running, CountsTyped, ServerTyped
<1>8. CreateIsAlone'
  BY DEF CreateIsAlone, EditorActive, Running
<1>9. JudgedRight'
  BY DEF JudgedRight, Quiet, Stored, NoPanel
<1>10. LiveInv'
  BY NoPublication
  DEF PublicationsTyped, Tasks, Plans, InForceIsPast, Past, NoPanel, ReplacedIsPast,
      LiveInv, Quiet, Stored, EditorActive, CountsTyped
<1>11. InTurn'
  BY DEF ServerInv, EditorActive, Running, Over, InTurn, Calm, Quiet, Fresh
<1>12. OwnedInv'
  BY DEF ServerInv, InTurn, Calm, Quiet, OwnedInv, Shown
<1>13. DeletedStaysDeleted'
  BY DEF DeletedStaysDeleted, Stored, NoPanel
<1> QED
  BY <1>1, <1>2, <1>3, <1>4, <1>5, <1>6, <1>7, <1>8, <1>9, <1>10, <1>11, <1>12, <1>13

-----------------------------------------------------------------------------
(* The theorems                                                             *)

LEMMA PublicationInit ==
  ASSUME PanelInit
  PROVE  PublicationInv
<1> USE DEF PanelInit
<1>1. PublicationsTyped
  BY DEF PublicationsTyped, Tasks, Marks, Plans, NoPlan
<1>2. PanelTyped
  BY NoPanelTyped DEF PanelTyped
<1>3. JobsTyped
  BY NoJobTyped DEF JobsTyped
<1>4. ServerTyped
  BY DEF ServerTyped
<1>5. CountsTyped
  BY ReactionPanelAssumption DEF CountsTyped
<1>6. \A c \in Cleaner : job[c] = NoJob
  OBVIOUS
<1>7. NotBegun
  BY <1>6, NoPublication DEF NotBegun, NoJob
<1>8. ~EditorActive
  BY <1>6 DEF EditorActive, NoJob, Cleaner
<1>9. ~Stored /\ \A o \in Op : ~Running(o) /\ ~Moving(o)
  BY DEF Stored, NoPanel, Running, Over, Moving
<1>10. InForceIsPast
  BY <1>8 DEF InForceIsPast, NoPanel
<1>11. ReplacedIsPast
  BY DEF ReplacedIsPast, NoPlan
<1>12. LockHeld /\ ServerInv /\ CreateIsAlone
  BY <1>8, <1>9 DEF LockHeld, ServerInv, CreateIsAlone
<1>13. JudgedRight
  BY <1>6 DEF JudgedRight, NoJob
<1>14. LiveInv
  BY <1>8, <1>9 DEF LiveInv, Fresh
<1>15. InTurn
  BY <1>8, <1>9 DEF InTurn, NoPlan
<1>16. OwnedInv
  BY DEF OwnedInv, Shown
<1>17. DeletedStaysDeleted
  BY DEF DeletedStaysDeleted
<1> QED
  BY <1>1, <1>2, <1>3, <1>4, <1>5, <1>7, <1>10, <1>11, <1>12, <1>13, <1>14, <1>15, <1>16, <1>17
  DEF PublicationInv

LEMMA PublicationStep ==
  ASSUME PublicationInv, [PanelNext]_publicationVars
  PROVE  PublicationInv'
<1>1. CASE UNCHANGED publicationVars
  <2>1. /\ UNCHANGED <<EditorActive, Stored, Calm, Quiet>>
        /\ \A o \in Op : Running(o)' <=> Running(o)
    BY <1>1 DEF publicationVars, EditorActive, Stored, Calm, Quiet, Running
  <2>2. /\ PublicationsTyped' /\ PanelTyped' /\ JobsTyped' /\ ServerTyped' /\ CountsTyped'
        /\ NotBegun' /\ InForceIsPast' /\ ReplacedIsPast'
    BY <1>1 DEF PublicationInv, publicationVars, PublicationsTyped, PanelTyped, JobsTyped,
                ServerTyped, CountsTyped, NotBegun, InForceIsPast, ReplacedIsPast, EditorActive
  <2>3. LockHeld' /\ ServerInv' /\ CreateIsAlone'
    BY <1>1, <2>1
    DEF PublicationInv, publicationVars, LockHeld, ServerInv, CreateIsAlone, Moving
  <2>4. JudgedRight' /\ LiveInv' /\ InTurn' /\ OwnedInv' /\ DeletedStaysDeleted'
    BY <1>1, <2>1 DEF PublicationInv, publicationVars, JudgedRight, LiveInv, InTurn, OwnedInv,
                      DeletedStaysDeleted
  <2> QED
    BY <2>2, <2>3, <2>4 DEF PublicationInv
<1>2. ASSUME NEW o \in Op, Publishing(o)
      PROVE  PublicationInv'
  BY <1>2, SendKeeps, FillKeeps, ReactKeeps, AbortKeeps, ConfirmKeeps, RefuseKeeps, RetireKeeps
  DEF Publishing
<1>3. CASE Cleaning
  BY <1>3, SweepRecordsKeeps, JudgeKeeps, CleanKeeps DEF Cleaning
<1>4. CASE Editing
  BY <1>4, RefreshKeeps, EditorFailsKeeps, MoveKeeps, FetchMessageKeeps,
             ResetReactionsKeeps, EditMessageKeeps DEF Editing
<1>5. CASE ForgetPanel \/ DisableEntry \/ DisableMessage
  BY <1>5, ForgetPanelKeeps, DisableEntryKeeps, DisableMessageKeeps
<1>6. ASSUME NEW o \in Op,
             Create(o) \/ SendAgain(o) \/ SendCrash(o) \/ SendLost(o) \/ ConfirmCrash(o)
      PROVE  PublicationInv'
  BY <1>6, CreateKeeps, SendAgainKeeps, SendCrashKeeps, SendLostKeeps, ConfirmCrashKeeps
<1>7. CASE EditPanel \/ BotRestart \/ DeleteMessage \/ RemoveSetup
  BY <1>7, EditPanelKeeps, BotRestartKeeps, DeleteMessageKeeps, RemoveSetupKeeps
<1> QED
  BY <1>1, <1>2, <1>3, <1>4, <1>5, <1>6, <1>7 DEF PanelNext, PanelBackground

LEMMA PublicationInvTells ==
  ASSUME PublicationInv
  PROVE  PanelsAgree /\ DeletedStaysDeleted
<1>1. PanelTypeOK
  BY DEF PublicationInv, PanelTypeOK, PublicationsTyped, PanelTyped, JobsTyped, ServerTyped,
         CountsTyped, Tasks, Marks, Plans, Panels, Jobs, LockHeld, EditorActive, Moving
<1>2. PanelInForceIsLive
  BY DEF PublicationInv, PanelInForceIsLive, LiveInv, Quiet
<1>3. LiveIsOwned
  BY DEF PublicationInv, LiveIsOwned, OwnedInv, Calm, Quiet, Shown, ServerInv
<1> QED
  BY <1>1, <1>2, <1>3 DEF PanelsAgree, PublicationInv

(* However publications, the editor, the sweep of the records, Delete, removals,
   crashes and failed calls interleave, the stored panel is a message that works,
   unless the sweep judged a running publication, the editor stored a panel it had read
   before that was replaced, or Delete was pressed; and, while no command is given in
   the middle of another, every message that works is in force or is still to be
   retired. *)
THEOREM PanelsAgreement == PanelSpec => []PanelsAgree
<1>1. PanelSpec => []PublicationInv
  BY PublicationInit, PublicationStep, PTL DEF PanelSpec
<1> QED
  BY <1>1, PublicationInvTells, PTL

(* No creation and no "Send panel again" stores a panel that Delete has forgotten: where
   there is one again, the editor has stored it, for a move or from its outdated copy. *)
THEOREM DeletionHolds == PanelSpec => []DeletedStaysDeleted
<1>1. PanelSpec => []PublicationInv
  BY PublicationInit, PublicationStep, PTL DEF PanelSpec
<1> QED
  BY <1>1, PublicationInvTells, PTL
=============================================================================

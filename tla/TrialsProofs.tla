----------------------------- MODULE TrialsProofs -----------------------------
(***************************************************************************)
(* Archives and trials, for any number of messages, anchors, failed calls, *)
(* crashes and restarts.                                                   *)
(***************************************************************************)
EXTENDS Trials, TLAPS, FiniteSetTheorems

USE ArchiveAssumption DEF ArchiveAssumption, channel, threads, ghosts

-----------------------------------------------------------------------------
(* The invariant: what was copied                                          *)

\* Nobody writes into the channel any more.
Sealed == source \notin {"none", "open"}

AllArchived == \A p \in 1 .. said : Archived(p)

\* A record, stored or as the reconciler listed it.
RecordCopied(x) ==
    /\ x.checkpoint <= said
    /\ \A p \in 1 .. x.checkpoint : Archived(p)
    /\ mode # "legacy" /\ x.status \in {"archived_source_remaining", "closed"} => Sealed /\ AllArchived
    /\ mode # "legacy" /\ x.status = "closed" => ~Exists
    /\ mode = "legacy" => x.status \in {"none", "open", "missing", "closed"} /\ x.anchor = 0

\* An anchor message and its thread.
AnchorCopied(a) ==
    /\ \A p \in archive[a].marked : archive[a].posted[p] > 0
    /\ \A p \in 1 .. MaxSaid : archive[a].posted[p] > 0 => p <= said
    /\ Complete \in archive[a].marked => Sealed /\ AllArchived
    /\ mode = "legacy" => archive[a] = Untold

\* A runner: what it copied, and what it read that was copied before.
RunCopied(r) ==
    /\ run[r].step \in {"anchor", "send", "thread", "read", "copy", "clean", "delete"} => Sealed
    /\ run[r].step \in {"thread", "read", "copy", "clean"} => run[r].anchor \in Anchors
    /\ run[r].step \in {"freeze", "anchor", "send", "thread", "read"} => run[r].next = 0
    /\ run[r].step \in {"clean", "delete"} => AllArchived
    /\ run[r].step = "copy" =>
          /\ \A p \in run[r].seen : Archived(p)
          /\ run[r].next \in 1 .. MaxSaid => run[r].next <= said
          /\ run[r].next # 0 => \A p \in 1 .. said : p < run[r].next => Archived(p)
    /\ IF mode = "legacy" THEN run[r].step \in {"idle", "rename", "notice"}
                          ELSE run[r].step \notin {"rename", "notice"}

CopyInv ==
    /\ source = "removed" => AllArchived
    /\ mode # "legacy" => source # "closed"
    /\ \A x \in {record} \union list : RecordCopied(x)
    /\ \A a \in Anchors : AnchorCopied(a)
    /\ \A r \in Runners : RunCopied(r)

-----------------------------------------------------------------------------
(* The invariant: what is copied once                                      *)

Texts == (1 .. MaxSaid) \ Files

\* Every text was stored as progress.
Stored == record.checkpoint >= said

\* As long as the channel is there, what was posted can be found again.
FoundAgain ==
    /\ \A a \in Anchors :
          /\ \A p \in Texts : archive[a].posted[p] > 0
                => p \in archive[a].marked \/ p <= record.checkpoint
          /\ Complete \in archive[a].marked => Stored
          /\ record.anchor = 0 => ~archive[a].thread /\ (a <= sent => archive[a].named)
    /\ record.status \in {"archived_source_remaining", "closed"} => Stored
    /\ \A s \in list :
          /\ s.status \in {"archived_source_remaining", "closed"} => Stored /\ s.checkpoint >= said
          /\ record.anchor = 0 => s.anchor = 0

\* A runner sends nothing that is there.
RunOnce(r) ==
    /\ run[r].anchor <= sent
    /\ run[r].step = "anchor" /\ run[r].anchor = 0 =>
          /\ \A x \in {record} \union list : x.anchor = 0
          /\ \A a \in Anchors : ~archive[a].thread /\ (a <= sent => archive[a].named)
    /\ run[r].step = "send" => sent = 0
    /\ run[r].step \in {"thread", "read", "copy", "clean"} /\ Exists => record.anchor # 0
    /\ run[r].step = "copy" /\ run[r].next = 0 /\ Exists =>
          \A p \in Texts : archive[run[r].anchor].posted[p] > 0
             => p \in run[r].seen \/ p <= record.checkpoint
    /\ run[r].step = "copy" /\ run[r].next \in 1 .. MaxSaid =>
          /\ \A p \in Texts : p >= run[r].next /\ archive[run[r].anchor].posted[p] > 0
                => p \in run[r].seen
          /\ Exists => record.checkpoint = run[r].next - 1
    /\ (run[r].step = "copy" /\ run[r].next = Complete) \/ run[r].step \in {"clean", "delete"} =>
          (Exists => Stored)

\* One anchor message, and each text once.
SentOnce ==
    /\ sent <= 1
    /\ \A a \in Anchors : a > sent => archive[a] = Untold
    /\ \A a \in Anchors, p \in Texts : archive[a].posted[p] <= 1

AnchorSent == \A x \in {record} \union list : x.anchor <= sent

OneRunner == \A r, q \in Runners : run[r].step = "idle" \/ run[q].step = "idle" \/ r = q

Once ==
    /\ SentOnce
    /\ AnchorSent
    /\ OneRunner
    /\ \A r \in Runners : RunOnce(r)
    /\ Exists => FoundAgain

OnceInv == ~raced /\ mode # "legacy" => Once

-----------------------------------------------------------------------------
(* The invariant: trials                                                   *)

Early == trial.status \in {"none", "creating", "active"}

\* What is being done fits the stored status, and before the end nothing of the
\* archive exists.
StatusInv ==
    /\ doing \in {"role", "channel", "panel", "scrub"} => trial.status = "creating"
    /\ doing \in {"archive", "wait"} => trial.status = "ending"
    /\ doing = "unrole" => trial.status = "removing_role"
    /\ mode # "trial" => trial.status = "none" /\ doing = "nothing" /\ source # "none"
    /\ mode = "trial" =>
          /\ list = {} /\ \A r \in Runners \ {Trial} : run[r].step = "idle"
          /\ record.status \in {"none"} \union Closing
    /\ mode = "trial" /\ Early =>
          /\ record = NoRecord /\ sent = 0 /\ run[Trial].step = "idle"
          /\ \A a \in Anchors : archive[a] = Untold
          /\ source \in {"none", "open", "deleted"}

\* The channel and the panel can be found until their ids are stored.
MadeInv ==
    /\ doing \in {"panel", "scrub"} => trial.channel
    /\ doing = "scrub" => trial.message
    /\ mode = "trial" /\ Exists => trial.channel \/ topic
    /\ trial.message \/ fresh \/ panels = 0

LockInv ==
    /\ ClosedIsLocked
    /\ \A r \in Runners : run[r].step \in {"rename", "notice"} => ~writable

ListInv ==
    /\ list \subseteq [status : Status, anchor : 0 .. MaxAnchors, checkpoint : 0 .. MaxSaid,
                       clean : BOOLEAN]
    /\ list = {} \/ \E s \in list : list = {s}

Inv == /\ TrialTypeOK /\ ListInv /\ LockInv /\ CopyInv /\ OnceInv
       /\ StatusInv /\ MadeInv /\ TrialEndsInOrder

-----------------------------------------------------------------------------
(* Types                                                                   *)

Records == [status : Status, anchor : 0 .. MaxAnchors, checkpoint : 0 .. MaxSaid, clean : BOOLEAN]
Threads == [named : BOOLEAN, thread : BOOLEAN, posted : [Pieces -> Nat], marked : SUBSET Pieces]
Steps   == {"idle", "freeze", "anchor", "send", "thread", "read", "copy", "clean", "delete",
            "rename", "notice"}
Tasks   == [step : Steps, anchor : 0 .. MaxAnchors, seen : SUBSET Pieces, next : Pieces]
Sources == {"none", "open", "frozen", "closed", "removed", "deleted"}

\* TypeOK and ListInv, with names for the domains.
Typed ==
    /\ mode \in Modes
    /\ record \in Records
    /\ source \in Sources
    /\ writable \in BOOLEAN
    /\ said \in 0 .. MaxSaid
    /\ sent \in 0 .. MaxAnchors
    /\ archive \in [Anchors -> Threads]
    /\ shredded \in SUBSET Pieces
    /\ run \in [Runners -> Tasks]
    /\ list \in SUBSET Records
    /\ list = {} \/ \E s \in list : list = {s}
    /\ raced \in BOOLEAN
    /\ reopened \in BOOLEAN
    /\ faults \in 0 .. MaxFaults[mode]

LEMMA TypedMeans == TypeOK /\ ListInv <=> Typed
<1>1. TypeOK /\ ListInv => Typed
  BY DEF TypeOK, ListInv, Typed, Records, Threads, Steps, Tasks, Sources
<1>2. ASSUME Typed PROVE Cardinality(list) <= 1
  <2>1. CASE list = {}
    BY <2>1, FS_EmptySet
  <2>2. CASE \E s \in list : list = {s}
    <3>1. PICK s \in list : list = {s}
      BY <2>2
    <3>2. Cardinality({s}) = 1
      BY FS_Singleton
    <3> QED
      BY <3>1, <3>2
  <2> QED
    BY <1>2, <2>1, <2>2 DEF Typed
<1>3. ASSUME Typed PROVE TypeOK /\ ListInv
  BY <1>2, <1>3 DEF TypeOK, ListInv, Typed, Records, Threads, Steps, Tasks, Sources
<1> QED
  BY <1>1, <1>3

LEMMA Distinct == Button # Sweep /\ Sweep # Trial /\ Button # Trial
<1>1. ASSUME NEW x, NEW y PROVE Cardinality({x, y}) <= 2
  <2>1. Cardinality({x}) = 1 /\ IsFiniteSet({x})
    BY FS_Singleton
  <2>2. Cardinality({x} \cup {y}) = (IF y \in {x} THEN Cardinality({x}) ELSE Cardinality({x}) + 1)
    BY <2>1, FS_AddElement
  <2>3. {x, y} = {x} \cup {y}
    OBVIOUS
  <2> QED
    BY <2>1, <2>2, <2>3
<1>2. CASE Button = Sweep
  <2>1. {Button, Sweep, Trial} = {Sweep, Trial} /\ Cardinality({Sweep, Trial}) <= 2
    BY <1>1, <1>2
  <2> QED
    BY <2>1
<1>3. CASE Sweep = Trial
  <2>1. {Button, Sweep, Trial} = {Button, Sweep} /\ Cardinality({Button, Sweep}) <= 2
    BY <1>1, <1>3
  <2> QED
    BY <2>1
<1>4. CASE Button = Trial
  <2>1. {Button, Sweep, Trial} = {Button, Sweep} /\ Cardinality({Button, Sweep}) <= 2
    BY <1>1, <1>4
  <2> QED
    BY <2>1
<1> QED
  BY <1>2, <1>3, <1>4

-----------------------------------------------------------------------------
(* What the helpers change                                                 *)

LEMMA GoEffects ==
  ASSUME Typed, NEW r \in Runners, NEW to \in Tasks, Go(r, to)
  PROVE  /\ run' \in [Runners -> Tasks]
         /\ run'[r] = to
         /\ \A q \in Runners \ {r} : run'[q] = run[q]
BY DEF Typed, Go

LEMMA IdleTask ==
  /\ Idle \in Tasks /\ Idle.step = "idle" /\ Idle.anchor = 0 /\ Idle.next = 0
  /\ \A step \in Steps : /\ [Idle EXCEPT !.step = step] \in Tasks
                         /\ [Idle EXCEPT !.step = step].step = step
                         /\ [Idle EXCEPT !.step = step].anchor = 0
                         /\ [Idle EXCEPT !.step = step].next = 0
BY DEF Idle, Tasks, Steps, Pieces, Complete

LEMMA StopEffects ==
  ASSUME Typed, NEW r \in Runners, Stop(r)
  PROVE  /\ run' \in [Runners -> Tasks]
         /\ run'[r].step = "idle" /\ run'[r].anchor = 0
         /\ \A q \in Runners \ {r} : run'[q] = run[q]
BY IdleTask, GoEffects DEF Stop

LEMMA StepEffects ==
  ASSUME Typed, NEW r \in Runners, NEW to \in Steps, Step(r, to)
  PROVE  /\ run' \in [Runners -> Tasks]
         /\ run'[r].step = to /\ run'[r].anchor = run[r].anchor
         /\ run'[r].seen = run[r].seen /\ run'[r].next = run[r].next
         /\ \A q \in Runners \ {r} : run'[q] = run[q]
<1> DEFINE task == [run[r] EXCEPT !.step = to]
<1>1. run[r] \in Tasks
  BY DEF Typed
<1>2. /\ task \in Tasks /\ task.step = to /\ task.anchor = run[r].anchor
      /\ task.seen = run[r].seen /\ task.next = run[r].next
  BY <1>1 DEF Tasks
<1>3. Go(r, task)
  BY DEF Step, Go
<1> HIDE DEF task
<1> QED
  BY <1>2, <1>3, GoEffects

Moves(r, to, b) == Go(r, [run[r] EXCEPT !.step = to, !.anchor = b])

LEMMA MoveEffects ==
  ASSUME Typed, NEW r \in Runners, NEW to \in Steps, NEW b \in 0 .. MaxAnchors,
         Moves(r, to, b)
  PROVE  /\ run' \in [Runners -> Tasks]
         /\ run'[r].step = to /\ run'[r].anchor = b
         /\ run'[r].seen = run[r].seen /\ run'[r].next = run[r].next
         /\ \A q \in Runners \ {r} : run'[q] = run[q]
<1> DEFINE task == [run[r] EXCEPT !.step = to, !.anchor = b]
<1>1. run[r] \in Tasks
  BY DEF Typed
<1>2. /\ task \in Tasks
      /\ task.step = to /\ task.anchor = b
      /\ task.seen = run[r].seen /\ task.next = run[r].next
  BY <1>1 DEF Tasks, Steps
<1>3. Go(r, task)
  BY DEF Moves
<1> HIDE DEF task
<1> QED
  BY <1>2, <1>3, GoEffects

LEMMA SeenEffects ==
  ASSUME Typed, NEW r \in Runners, NEW seen \in SUBSET Pieces,
         Go(r, [run[r] EXCEPT !.step = "copy", !.seen = seen])
  PROVE  /\ run' \in [Runners -> Tasks]
         /\ run'[r].step = "copy" /\ run'[r].anchor = run[r].anchor
         /\ run'[r].seen = seen /\ run'[r].next = run[r].next
         /\ \A q \in Runners \ {r} : run'[q] = run[q]
<1> DEFINE task == [run[r] EXCEPT !.step = "copy", !.seen = seen]
<1>1. run[r] \in Tasks
  BY DEF Typed
<1>2. /\ task \in Tasks
      /\ task.step = "copy" /\ task.anchor = run[r].anchor
      /\ task.seen = seen /\ task.next = run[r].next
  BY <1>1 DEF Tasks, Steps
<1>3. Go(r, task)
  OBVIOUS
<1> HIDE DEF task
<1> QED
  BY <1>2, <1>3, GoEffects

LEMMA NextEffects ==
  ASSUME Typed, NEW r \in Runners, NEW p \in Pieces,
         Go(r, [run[r] EXCEPT !.next = p])
  PROVE  /\ run' \in [Runners -> Tasks]
         /\ run'[r].step = run[r].step /\ run'[r].anchor = run[r].anchor
         /\ run'[r].seen = run[r].seen /\ run'[r].next = p
         /\ \A q \in Runners \ {r} : run'[q] = run[q]
<1> DEFINE task == [run[r] EXCEPT !.next = p]
<1>1. run[r] \in Tasks
  BY DEF Typed
<1>2. /\ task \in Tasks
      /\ task.step = run[r].step /\ task.anchor = run[r].anchor
      /\ task.seen = run[r].seen /\ task.next = p
  BY <1>1 DEF Tasks, Steps
<1>3. Go(r, task)
  OBVIOUS
<1> HIDE DEF task
<1> QED
  BY <1>2, <1>3, GoEffects

LEMMA EnterEffects ==
  ASSUME Typed, NEW r \in Runners, NEW step \in Steps, Enter(r, step)
  PROVE  /\ run[r].step = "idle"
         /\ run' \in [Runners -> Tasks]
         /\ run'[r].step = step /\ run'[r].anchor = 0 /\ run'[r].next = 0
         /\ \A q \in Runners \ {r} : run'[q] = run[q]
         /\ raced' \in BOOLEAN
         /\ raced => raced'
         /\ ~raced' => \A q \in Runners \ {r} : run[q].step = "idle"
<1> DEFINE task == [Idle EXCEPT !.step = step]
<1>1. task \in Tasks /\ task.step = step /\ task.anchor = 0 /\ task.next = 0
  BY IdleTask
<1>2. Go(r, task) /\ run[r].step = "idle"
  BY DEF Enter, At
<1>3. raced' = (raced \/ \E q \in Runners \ {r} : run[q].step # "idle") /\ raced \in BOOLEAN
  BY DEF Enter, At, Typed
<1> HIDE DEF task
<1>4. raced' \in BOOLEAN /\ (raced => raced')
      /\ (~raced' => \A q \in Runners \ {r} : run[q].step = "idle")
  BY <1>3
<1> QED
  BY <1>1, <1>2, <1>4, GoEffects

LEMMA PersistEffects ==
  ASSUME record \in Records, NEW status \in Status, Persist(status)
  PROVE  /\ record' \in Records
         /\ record'.status = status /\ record'.anchor = record.anchor
         /\ record'.checkpoint = record.checkpoint
BY DEF Persist, Records

LEMMA AnchorEffects ==
  ASSUME record \in Records, NEW status \in Status, NEW a \in 0 .. MaxAnchors,
         PersistAnchor(status, a)
  PROVE  /\ record' \in Records
         /\ record'.status = status /\ record'.anchor = a
         /\ record'.checkpoint = record.checkpoint
BY DEF PersistAnchor, Records

LEMMA ProgressEffects ==
  ASSUME record \in Records, NEW p \in 1 .. MaxSaid,
         record' = [record EXCEPT !.status = "archiving", !.checkpoint = p]
  PROVE  /\ record' \in Records
         /\ record'.status = "archiving" /\ record'.anchor = record.anchor
         /\ record'.checkpoint = p
<1>1. p \in 0 .. MaxSaid /\ "archiving" \in Status
  BY DEF Status, Closing
<1> QED
  BY <1>1 DEF Records

\* Only one anchor message and its thread change.
Only(a) == archive' \in [Anchors -> Threads] /\ \A b \in Anchors \ {a} : archive'[b] = archive[b]

LEMMA ChangeEffects ==
  ASSUME archive \in [Anchors -> Threads], NEW a \in Anchors, NEW e \in Threads,
         archive' = [archive EXCEPT ![a] = e]
  PROVE  Only(a) /\ archive'[a] = e
BY DEF Only

LEMMA NameEffects ==
  ASSUME archive \in [Anchors -> Threads], NEW a \in Anchors,
         archive' = [archive EXCEPT ![a].named = TRUE]
  PROVE  /\ Only(a)
         /\ archive'[a].named = TRUE /\ archive'[a].thread = archive[a].thread
         /\ archive'[a].posted = archive[a].posted /\ archive'[a].marked = archive[a].marked
<1> DEFINE e == [archive[a] EXCEPT !.named = TRUE]
<1>1. archive[a] \in Threads
  OBVIOUS
<1>2. /\ e \in Threads /\ e.named = TRUE /\ e.thread = archive[a].thread
      /\ e.posted = archive[a].posted /\ e.marked = archive[a].marked
  BY <1>1 DEF Threads
<1>3. archive' = [archive EXCEPT ![a] = e]
  OBVIOUS
<1> HIDE DEF e
<1> QED
  BY <1>2, <1>3, ChangeEffects

LEMMA ThreadEffects ==
  ASSUME archive \in [Anchors -> Threads], NEW a \in Anchors,
         archive' = [archive EXCEPT ![a].thread = TRUE]
  PROVE  /\ Only(a)
         /\ archive'[a].named = archive[a].named /\ archive'[a].thread = TRUE
         /\ archive'[a].posted = archive[a].posted /\ archive'[a].marked = archive[a].marked
<1> DEFINE e == [archive[a] EXCEPT !.thread = TRUE]
<1>1. archive[a] \in Threads
  OBVIOUS
<1>2. /\ e \in Threads /\ e.named = archive[a].named /\ e.thread = TRUE
      /\ e.posted = archive[a].posted /\ e.marked = archive[a].marked
  BY <1>1 DEF Threads
<1>3. archive' = [archive EXCEPT ![a] = e]
  OBVIOUS
<1> HIDE DEF e
<1> QED
  BY <1>2, <1>3, ChangeEffects

\* A piece is posted n times, with its marker.
Posts(a, p, n) ==
    archive' = [archive EXCEPT ![a].posted[p] = @ + n, ![a].marked = @ \union {p}]

LEMMA PostedEffects ==
  ASSUME archive \in [Anchors -> Threads], NEW a \in Anchors, NEW p \in Pieces, NEW n \in Nat,
         Posts(a, p, n)
  PROVE  /\ Only(a)
         /\ archive'[a].named = archive[a].named /\ archive'[a].thread = archive[a].thread
         /\ archive'[a].posted[p] = archive[a].posted[p] + n
         /\ \A q \in Pieces \ {p} : archive'[a].posted[q] = archive[a].posted[q]
         /\ archive'[a].marked = archive[a].marked \union {p}
<1> DEFINE posted == [archive[a].posted EXCEPT ![p] = @ + n]
           e == [archive[a] EXCEPT !.posted = posted, !.marked = @ \union {p}]
<1>1. archive[a] \in Threads
  OBVIOUS
<1>2. archive[a].posted \in [Pieces -> Nat] /\ archive[a].marked \in SUBSET Pieces
  BY <1>1 DEF Threads
<1>3. /\ posted \in [Pieces -> Nat] /\ posted[p] = archive[a].posted[p] + n
      /\ \A q \in Pieces \ {p} : posted[q] = archive[a].posted[q]
  BY <1>2
<1>4. archive' = [archive EXCEPT ![a] = e]
  BY DEF Posts
<1> HIDE DEF posted
<1>5. /\ e \in Threads /\ e.named = archive[a].named /\ e.thread = archive[a].thread
      /\ e.posted = posted /\ e.marked = archive[a].marked \union {p}
  BY <1>1, <1>2, <1>3 DEF Threads
<1> HIDE DEF e
<1> QED
  BY <1>3, <1>4, <1>5, ChangeEffects

LEMMA StrippedEffects ==
  ASSUME archive \in [Anchors -> Threads], NEW a \in Anchors, NEW left \in SUBSET archive[a].marked,
         archive' = Stripped(a, left)
  PROVE  /\ Only(a)
         /\ archive'[a].named = FALSE /\ archive'[a].thread = archive[a].thread
         /\ archive'[a].posted = archive[a].posted /\ archive'[a].marked = left
<1> DEFINE e == [archive[a] EXCEPT !.named = FALSE, !.marked = left]
<1>1. archive[a] \in Threads
  OBVIOUS
<1>2. /\ e \in Threads /\ e.named = FALSE /\ e.thread = archive[a].thread
      /\ e.posted = archive[a].posted /\ e.marked = left
  BY <1>1 DEF Threads
<1>3. archive' = [archive EXCEPT ![a] = e]
  BY DEF Stripped
<1> HIDE DEF e
<1> QED
  BY <1>2, <1>3, ChangeEffects

\* A thread that a moderator deletes.
LEMMA ShredEffects ==
  ASSUME archive \in [Anchors -> Threads], NEW a \in Anchors,
         archive' = [archive EXCEPT ![a] = [Untold EXCEPT !.named = archive[a].named]]
  PROVE  /\ Only(a)
         /\ archive'[a].named = archive[a].named /\ archive'[a].thread = FALSE
         /\ \A p \in Pieces : archive'[a].posted[p] = 0
         /\ archive'[a].marked = {}
<1> DEFINE e == [Untold EXCEPT !.named = archive[a].named]
<1>1. archive[a] \in Threads
  OBVIOUS
<1>2. /\ e \in Threads /\ e.named = archive[a].named /\ e.thread = FALSE
      /\ e.posted = [p \in Pieces |-> 0] /\ e.marked = {}
  BY <1>1 DEF Threads, Untold
<1>3. archive' = [archive EXCEPT ![a] = e]
  OBVIOUS
<1> HIDE DEF e
<1>4. Only(a) /\ archive'[a] = e
  BY <1>2, <1>3, ChangeEffects
<1> QED
  BY <1>2, <1>4

LEMMA StrippedNowhere ==
  ASSUME archive \in [Anchors -> Threads], NEW a, a \notin Anchors, NEW left,
         archive' = Stripped(a, left)
  PROVE  archive' = archive
BY DEF Stripped

-----------------------------------------------------------------------------
(* Steps of the archive: types, and what only grows                        *)

Copies == \A p \in Pieces : Archived(p) => Archived(p)'

\* What every step but a message of the opener and a new channel leaves true.
Grows ==
    /\ mode' = mode
    /\ said' = said
    /\ Sealed => Sealed'
    /\ ~Exists => ~Exists'
    /\ Copies

LEMMA CopiesKept ==
  ASSUME Typed, NEW a \in Anchors, Only(a), shredded' = shredded,
         \A p \in Pieces : archive[a].posted[p] > 0 => archive'[a].posted[p] > 0
  PROVE  Copies
BY DEF Copies, Archived, Only

LEMMA CopiesSame ==
  ASSUME archive' = archive, shredded' = shredded
  PROVE  Copies
BY DEF Copies, Archived

\* A piece is posted once, or twice by a broken upload.
LEMMA PostedKept ==
  ASSUME Typed, NEW a \in Anchors, NEW p \in Pieces, NEW n \in {1, 2}, shredded' = shredded,
         Posts(a, p, n)
  PROVE  archive' \in [Anchors -> Threads] /\ Copies
<1>1. archive \in [Anchors -> Threads] /\ n \in Nat
  BY DEF Typed
<1>2. /\ Only(a)
      /\ archive'[a].posted[p] = archive[a].posted[p] + n
      /\ \A q \in Pieces \ {p} : archive'[a].posted[q] = archive[a].posted[q]
  BY <1>1, PostedEffects
<1>3. archive[a].posted \in [Pieces -> Nat]
  BY <1>1 DEF Threads
<1>4. \A q \in Pieces : archive[a].posted[q] > 0 => archive'[a].posted[q] > 0
  BY <1>1, <1>2, <1>3
<1> QED
  BY <1>2, <1>4, CopiesKept DEF Only

\* A step leaves the types in order, and copies grow.
Good == Typed' /\ Grows

\* The engine of the archive.
LEMMA EngineTypes ==
  ASSUME Typed, CopyInv, NEW r \in Runners, Works(r) \/ Fails(r)
  PROVE  Good
<1> DEFINE a == run[r].anchor
<1>1. /\ record \in Records /\ run \in [Runners -> Tasks] /\ archive \in [Anchors -> Threads]
      /\ run[r] \in Tasks /\ a \in 0 .. MaxAnchors
      /\ record.anchor \in 0 .. MaxAnchors /\ record.checkpoint \in 0 .. MaxSaid
  BY DEF Typed, Tasks, Records
<1>2. run[r].step \in {"thread", "read", "copy", "clean"} => a \in Anchors /\ archive[a] \in Threads
  BY <1>1 DEF CopyInv, RunCopied
<1>3. Fault /\ mode' = mode => faults' \in 0 .. MaxFaults[mode']
  BY DEF Fault, Typed
<1>4. {"closing", "archiving", "archived_source_remaining", "closed"} \subseteq Status
  BY DEF Status, Closing
<1>5. /\ archive \in [Anchors -> Threads] /\ archive' = archive => archive' \in [Anchors -> Threads]
      /\ Only(a) => archive' \in [Anchors -> Threads]
  BY DEF Only
<1>6. ASSUME NEW p \in Pieces, PostOnce(r, p), a \in Anchors, shredded' = shredded
       PROVE  archive' \in [Anchors -> Threads] /\ Copies
  <2>1. CASE archive' = archive
    BY <1>1, <1>6, <2>1, CopiesSame
  <2>2. CASE Posts(a, p, 1)
    BY PostedKept, <1>6, <2>2
  <2> QED
    BY <1>6, <2>1, <2>2 DEF PostOnce, Post, Posts
<1>7. \A p \in 0 .. MaxSaid : Following(p) \in Pieces
  BY DEF Following, Pieces, Complete, Typed
<1>8. ASSUME NEW p \in Pieces PROVE [run[r] EXCEPT !.next = p] \in Tasks
  BY <1>1 DEF Tasks
<1>9. ASSUME a \in Anchors, NEW left \in SUBSET archive[a].marked,
             archive' = Stripped(a, left), shredded' = shredded
      PROVE  archive' \in [Anchors -> Threads] /\ Copies
  BY <1>1, <1>5, <1>9, StrippedEffects, CopiesKept
<1> HIDE DEF a
<1> USE DEF Good, Grows
<1>10. CASE Freeze(r)
  <2>1. [run[r] EXCEPT !.step = "anchor", !.anchor = record.anchor] \in Tasks
    BY <1>1 DEF Tasks, Steps
  <2>2. record' \in Records /\ run' \in [Runners -> Tasks]
    BY <1>1, <1>4, <1>10, <2>1, PersistEffects, GoEffects DEF Freeze
  <2> QED
    BY <1>10, <2>2, CopiesSame DEF Freeze, Locked, Typed, Sources, Sealed, Exists
<1>11. CASE FreezeLost(r)
  BY <1>3, <1>11, StopEffects, CopiesSame DEF FreezeLost, Locked, Typed, Sources, Sealed, Exists
<1>12. CASE FindAnchor(r)
  <2>1. record' \in Records /\ run' \in [Runners -> Tasks]
    <3>1. CASE Found(r) = {}
      BY <1>1, <1>12, <3>1, StepEffects DEF FindAnchor, Steps
    <3>2. CASE \E b \in Found(r) : WithAnchor(r, b)
      <4>1. PICK b \in Found(r) : WithAnchor(r, b)
        BY <3>2
      <4>2. b \in 0 .. MaxAnchors
        BY <1>1 DEF Found, a, Anchors
      <4>3. [run[r] EXCEPT !.step = "thread", !.anchor = b] \in Tasks
        BY <1>1, <4>2 DEF Tasks, Steps
      <4> QED
        BY <1>1, <1>4, <4>1, <4>2, <4>3, AnchorEffects, GoEffects DEF WithAnchor
    <3> QED
      BY <1>12, <3>1, <3>2 DEF FindAnchor
  <2> QED
    BY <1>12, <2>1, CopiesSame DEF FindAnchor, Typed, Sources, Sealed, Exists
<1>13. ASSUME NewAnchor, shredded' = shredded
       PROVE  sent' \in 0 .. MaxAnchors /\ archive' \in [Anchors -> Threads] /\ Copies
  <2>1. sent + 1 \in Anchors
    BY <1>13 DEF NewAnchor, Anchors, Typed
  <2>2. Only(sent + 1) /\ archive'[sent + 1].posted = archive[sent + 1].posted
    BY <1>1, <1>13, <2>1, NameEffects DEF NewAnchor
  <2> QED
    <3>1. sent' \in 0 .. MaxAnchors
      BY <1>13, <2>1 DEF NewAnchor, Anchors
    <3> QED
      BY <1>13, <2>1, <2>2, <3>1, CopiesKept DEF Only
<1>14. CASE SendAnchor(r)
  <2>1. sent + 1 \in 0 .. MaxAnchors
    BY <1>14 DEF SendAnchor, NewAnchor, Typed
  <2>2. [run[r] EXCEPT !.step = "thread", !.anchor = sent + 1] \in Tasks
    BY <1>1, <2>1 DEF Tasks, Steps
  <2>3. record' \in Records /\ run' \in [Runners -> Tasks]
    BY <1>1, <1>4, <1>14, <2>1, <2>2, AnchorEffects, GoEffects DEF SendAnchor, WithAnchor
  <2> QED
    BY <1>13, <1>14, <2>3 DEF SendAnchor, Typed, Sources, Sealed, Exists
<1>15. CASE AnchorLost(r)
  BY <1>1, <1>3, <1>13, <1>15, StopEffects, CopiesSame
     DEF AnchorLost, Typed, Sources, Sealed, Exists
<1>16. ASSUME a \in Anchors, archive' = [archive EXCEPT ![a].thread = TRUE], shredded' = shredded
       PROVE  archive' \in [Anchors -> Threads] /\ Copies
  BY <1>1, <1>5, <1>16, ThreadEffects, CopiesKept
<1>17. CASE MakeThread(r)
  <2>1. record' \in Records /\ run' \in [Runners -> Tasks]
    BY <1>1, <1>4, <1>17, AnchorEffects, StepEffects DEF MakeThread, a, Steps
  <2> QED
    BY <1>2, <1>16, <1>17, <2>1 DEF MakeThread, a, At, Typed, Sources, Sealed, Exists
<1>18. CASE ThreadLost(r)
  BY <1>1, <1>2, <1>3, <1>16, <1>18, StopEffects, CopiesSame
     DEF ThreadLost, a, At, Typed, Sources, Sealed, Exists
<1>19. CASE Read(r)
  <2>1. record' \in Records /\ run' \in [Runners -> Tasks]
    <3>1. CASE Persist("archived_source_remaining") /\ Step(r, "clean")
      BY <1>1, <1>4, <3>1, PersistEffects, StepEffects DEF Steps
    <3>2. CASE /\ Go(r, [run[r] EXCEPT !.step = "copy", !.seen = archive[a].marked])
               /\ UNCHANGED record
      <4>1. archive[a].marked \in SUBSET Pieces
        BY <1>2, <1>19 DEF Read, At, Threads
      <4>2. [run[r] EXCEPT !.step = "copy", !.seen = archive[a].marked] \in Tasks
        BY <1>1, <4>1 DEF Tasks, Steps
      <4> QED
        BY <1>1, <3>2, <4>2, GoEffects
    <3> QED
      BY <1>19, <3>1, <3>2 DEF Read, a
  <2> QED
    BY <1>19, <2>1, CopiesSame DEF Read, Typed, Sources, Sealed, Exists
<1>20. CASE CopyIntro(r)
  <2>1. archive' \in [Anchors -> Threads] /\ Copies
    BY <1>1, <1>2, <1>6, <1>20 DEF CopyIntro, a, At, Pieces, Complete
  <2>2. run' \in [Runners -> Tasks]
    BY <1>1, <1>7, <1>8, <1>20, GoEffects, StopEffects DEF CopyIntro
  <2> QED
    BY <1>20, <2>1, <2>2 DEF CopyIntro, Typed, Sources, Sealed, Exists
<1>21. ASSUME NEW p \in 1 .. MaxSaid, Go(r, [run[r] EXCEPT !.next = Following(p)]),
              record' = [record EXCEPT !.status = "archiving", !.checkpoint = p]
       PROVE  record' \in Records /\ run' \in [Runners -> Tasks] /\ p \in Pieces
  <2>1. p \in 0 .. MaxSaid /\ p \in Pieces
    BY <1>1 DEF Pieces, Complete, Typed
  <2>2. [run[r] EXCEPT !.next = Following(p)] \in Tasks
    BY <1>7, <1>8, <2>1
  <2>3. run' \in [Runners -> Tasks]
    BY <1>21, <2>2, GoEffects
  <2>4. record' \in Records
    BY <1>1, <1>21, ProgressEffects
  <2> QED
    BY <2>1, <2>3, <2>4
<1>22. CASE CopyMessage(r)
  <2>1. record' \in Records /\ run' \in [Runners -> Tasks] /\ run[r].next \in Pieces
    BY <1>21, <1>22 DEF CopyMessage
  <2>2. archive' \in [Anchors -> Threads] /\ Copies
    BY <1>1, <1>2, <1>6, <1>22, <2>1 DEF CopyMessage, a, At
  <2> QED
    BY <1>22, <2>1, <2>2 DEF CopyMessage, Typed, Sources, Sealed, Exists
<1>23. CASE CopyLink(r)
  <2>1. run[r].next \in 1 .. MaxSaid
    BY <1>23 DEF CopyLink
  <2>2. record' \in Records /\ run' \in [Runners -> Tasks] /\ run[r].next \in Pieces
    BY <1>21, <1>23, <2>1 DEF CopyLink
  <2>3. PICK n \in {1, 2} : Posts(a, run[r].next, n)
    BY <1>23 DEF CopyLink, Posts, a
  <2>4. archive' \in [Anchors -> Threads] /\ Copies
    <3>1. a \in Anchors /\ shredded' = shredded
      BY <1>2, <1>23 DEF CopyLink, At
    <3> QED
      BY <2>2, <2>3, <3>1, PostedKept
  <2> QED
    BY <1>3, <1>23, <2>2, <2>4 DEF CopyLink, Typed, Sources, Sealed, Exists
<1>24. CASE CopyComplete(r)
  <2>1. record' \in Records /\ run' \in [Runners -> Tasks]
    BY <1>1, <1>4, <1>24, PersistEffects, StepEffects DEF CopyComplete, Steps
  <2>2. archive' \in [Anchors -> Threads] /\ Copies
    BY <1>1, <1>2, <1>6, <1>24 DEF CopyComplete, a, At, Pieces, Complete
  <2> QED
    BY <1>24, <2>1, <2>2 DEF CopyComplete, Typed, Sources, Sealed, Exists
<1>25. CASE PieceLost(r)
  <2>1. archive' \in [Anchors -> Threads] /\ Copies
    BY <1>1, <1>2, <1>6, <1>25, CopiesSame DEF PieceLost, a, At, Tasks
  <2> QED
    BY <1>3, <1>25, <2>1, StopEffects DEF PieceLost, Typed, Sources, Sealed, Exists
<1>26. CASE Gone(r)
  BY <1>26, StopEffects, CopiesSame DEF Gone, Typed, Sources, Sealed, Exists
<1>27. CASE Clean(r)
  <2>1. record' \in Records
    BY <1>1, <1>4, <1>27 DEF Clean, Records
  <2>2. archive' \in [Anchors -> Threads] /\ Copies
    BY <1>2, <1>9, <1>27 DEF Clean, a, At
  <2> QED
    BY <1>27, <2>1, <2>2, StepEffects DEF Clean, Steps, Typed, Sources, Sealed, Exists
<1>28. CASE CleanLost(r)
  <2>1. archive' \in [Anchors -> Threads] /\ Copies
    BY <1>2, <1>9, <1>28 DEF CleanLost, a, At
  <2> QED
    BY <1>3, <1>28, <2>1, StepEffects DEF CleanLost, Steps, Typed, Sources, Sealed, Exists
<1>29. CASE Delete(r)
  <2>1. record' \in Records
    BY <1>1, <1>4, <1>29, PersistEffects DEF Delete
  <2> QED
    BY <1>29, <2>1, StopEffects, CopiesSame DEF Delete, Typed, Sources, Sealed, Exists
<1>30. CASE DeleteLost(r)
  <2>1. record' \in Records
    BY <1>1, <1>4, <1>30, PersistEffects DEF DeleteLost
  <2> QED
    BY <1>3, <1>30, <2>1, StopEffects, CopiesSame DEF DeleteLost, Typed, Sources, Sealed, Exists
<1> QED
  BY <1>10, <1>11, <1>12, <1>14, <1>15, <1>17, <1>18, <1>19, <1>20, <1>22, <1>23, <1>24, <1>25,
     <1>26, <1>27, <1>28, <1>29, <1>30 DEF Works, Fails
\* The close button.
LEMMA CloseTypes ==
  ASSUME Typed, CloseClick
  PROVE  Good
<1>1. record \in Records /\ Button \in Runners /\ {"closing", "closed"} \subseteq Status
  BY DEF Typed, Runners, Status, Closing
<1>2. Fault /\ mode' = mode => faults' \in 0 .. MaxFaults[mode']
  BY DEF Fault, Typed
<1> USE DEF Good, Grows
<1>3. CASE Close
  BY <1>1, <1>3, PersistEffects, EnterEffects, CopiesSame
     DEF Close, Steps, Typed, Sources, Sealed, Exists
<1>4. CASE Revoke
  BY <1>1, <1>4, StepEffects, CopiesSame DEF Revoke, Locked, Steps, Typed, Sealed, Exists
<1>5. CASE RevokeLost
  BY <1>2, <1>5, CopiesSame DEF RevokeLost, Locked, Typed, Sealed, Exists
<1>6. CASE Rename
  BY <1>1, <1>6, StepEffects, StopEffects, CopiesSame
     DEF Rename, Steps, Typed, Sources, Sealed, Exists
<1>7. CASE RenameLost
  BY <1>1, <1>2, <1>7, StopEffects, CopiesSame DEF RenameLost, Typed, Sources, Sealed, Exists
<1>8. CASE Notice
  BY <1>1, <1>8, PersistEffects, StopEffects, CopiesSame DEF Notice, Typed, Sealed, Exists
<1>9. CASE NoticeLost
  BY <1>1, <1>2, <1>9, StopEffects, CopiesSame DEF NoticeLost, Typed, Sealed, Exists
<1> QED
  BY <1>3, <1>4, <1>5, <1>6, <1>7, <1>8, <1>9 DEF CloseClick

\* The reconciler.
LEMMA ListTypes ==
  ASSUME Typed, ListTickets
  PROVE  Good
BY CopiesSame DEF ListTickets, Good, Grows, Typed, Sealed, Exists

LEMMA ReconcileTypes ==
  ASSUME Typed, NEW s \in list, Reconcile(s) \/ Passes(s)
  PROVE  Good
<1>1. /\ record \in Records /\ s \in Records /\ Sweep \in Runners
      /\ archive \in [Anchors -> Threads] /\ s.anchor \in 0 .. MaxAnchors
  BY DEF Typed, Runners, Records
<1>2. Fault /\ mode' = mode => faults' \in 0 .. MaxFaults[mode']
  BY DEF Fault, Typed
<1>3. {"closed", "open", "missing", "archive_incomplete_source_missing"} \subseteq Status
  BY DEF Status, Closing
<1>4. s.anchor # 0 => s.anchor \in Anchors
  BY <1>1 DEF Anchors
<1>5. ASSUME NEW a \in Anchors, NEW left \in SUBSET archive[a].marked,
             archive' = Stripped(a, left), shredded' = shredded
      PROVE  archive' \in [Anchors -> Threads] /\ Copies
  BY <1>1, <1>5, StrippedEffects, CopiesKept DEF Only
<1>6. /\ [s EXCEPT !.clean = TRUE] \in Records
      /\ [s EXCEPT !.status = "closed", !.clean = TRUE] \in Records
  BY <1>1, <1>3 DEF Records
<1> USE DEF Good, Grows
<1>7. CASE Discover(s)
  BY <1>1, <1>3, <1>7, PersistEffects, CopiesSame
     DEF Discover, Look, Done, Reopens, Typed, Sealed, Exists
<1>8. CASE Reopen(s)
  BY <1>1, <1>3, <1>8, PersistEffects, CopiesSame
     DEF Reopen, Look, Done, Reopens, Typed, Sealed, Exists
<1>9. CASE CleanRecord(s)
  <2>1. archive' \in [Anchors -> Threads] /\ Copies
    BY <1>4, <1>5, <1>9 DEF CleanRecord, NeedsCleaning
  <2> QED
    BY <1>6, <1>9, <2>1 DEF CleanRecord, Typed, Sealed, Exists
<1>10. CASE CleanRecordLost(s)
  <2>1. archive' \in [Anchors -> Threads] /\ Copies
    BY <1>4, <1>5, <1>10 DEF CleanRecordLost, NeedsCleaning
  <2> QED
    BY <1>2, <1>6, <1>10, <2>1 DEF CleanRecordLost, Typed, Sealed, Exists
<1>11. CASE Settle(s)
  BY <1>1, <1>3, <1>11, PersistEffects, EnterEffects, CopiesSame
     DEF Settle, Steps, Typed, Sealed, Exists
<1>12. CASE Resume(s)
  BY <1>1, <1>12, EnterEffects, CopiesSame DEF Resume, Steps, Typed, Sealed, Exists
<1>13. CASE SourceMissing(s)
  <2>1. record' \in Records /\ archive' \in [Anchors -> Threads] /\ Copies
    <3>1. CASE Persist("archive_incomplete_source_missing") /\ UNCHANGED archive
      BY <1>1, <1>3, <1>13, <3>1, PersistEffects, CopiesSame DEF SourceMissing, Done
    <3>2. CASE \E a \in CompleteArchives(s) :
                  /\ archive' = Stripped(a, {})
                  /\ record' = [s EXCEPT !.status = "closed", !.clean = TRUE]
      BY <1>5, <1>6, <1>13, <3>2 DEF SourceMissing, Done, CompleteArchives
    <3> QED
      BY <1>13, <3>1, <3>2 DEF SourceMissing
  <2> QED
    BY <1>13, <2>1 DEF SourceMissing, Look, Done, Typed, Sealed, Exists
<1>14. CASE Skip(s)
  BY <1>2, <1>14, CopiesSame DEF Skip, Look, Done, Typed, Sealed, Exists
<1> QED
  BY <1>7, <1>8, <1>9, <1>10, <1>11, <1>12, <1>13, <1>14 DEF Reconcile, Passes

\* What happens around the archive.
LEMMA SayTypes ==
  ASSUME Typed, Say
  PROVE  Typed'
BY DEF Say, Typed

LEMMA SurroundingTypes ==
  ASSUME Typed, DeletedByModerator \/ Crash \/ \E a \in Anchors : ThreadDeleted(a)
  PROVE  Good
<1>1. Fault /\ mode' = mode => faults' \in 0 .. MaxFaults[mode']
  BY DEF Fault, Typed
<1> USE DEF Good, Grows
<1>2. CASE DeletedByModerator
  BY <1>1, <1>2, CopiesSame DEF DeletedByModerator, Typed, Sources, Sealed, Exists
<1>3. CASE Crash
  BY <1>1, <1>3, IdleTask, CopiesSame DEF Crash, Typed, Sealed, Exists
<1>4. ASSUME NEW a \in Anchors, ThreadDeleted(a) PROVE Good
  <2>1. /\ Only(a)
        /\ shredded' = shredded \union {p \in Pieces : archive[a].posted[p] > 0}
    BY <1>4, ShredEffects DEF ThreadDeleted, Typed
  <2>2. Copies
    BY <2>1 DEF Copies, Archived, Only
  <2> QED
    BY <1>1, <1>4, <2>1, <2>2 DEF ThreadDeleted, Only, Typed, Sealed, Exists
<1> QED
  BY <1>2, <1>3, <1>4
-----------------------------------------------------------------------------
(* What was copied stays copied                                            *)

LEMMA RecordKept ==
  ASSUME Grows, Typed, NEW x \in Records, RecordCopied(x)
  PROVE  RecordCopied(x)'
<1>1. \A p \in 1 .. MaxSaid : Archived(p) => Archived(p)'
  BY DEF Grows, Copies, Pieces, Complete, Typed
<1>2. x.checkpoint \in 0 .. MaxSaid /\ said \in 0 .. MaxSaid
  BY DEF Typed, Records
<1>3. AllArchived => AllArchived'
  BY <1>1, <1>2 DEF AllArchived, Grows
<1> QED
  BY <1>1, <1>2, <1>3 DEF RecordCopied, Grows

LEMMA AllKept ==
  ASSUME Grows, Typed, AllArchived
  PROVE  AllArchived'
<1>1. \A p \in 1 .. MaxSaid : Archived(p) => Archived(p)'
  BY DEF Grows, Copies, Pieces, Complete, Typed
<1> QED
  BY <1>1 DEF AllArchived, Grows, Typed

LEMMA AnchorKept ==
  ASSUME Grows, Typed, NEW a \in Anchors, AnchorCopied(a), archive'[a] = archive[a]
  PROVE  AnchorCopied(a)'
BY AllKept DEF AnchorCopied, Grows

LEMMA RunKept ==
  ASSUME Grows, Typed, NEW r \in Runners, RunCopied(r), run'[r] = run[r]
  PROVE  RunCopied(r)'
<1>1. \A p \in Pieces : Archived(p) => Archived(p)'
  BY DEF Grows, Copies
<1>2. run[r].seen \in SUBSET Pieces /\ said \in 0 .. MaxSaid /\ \A p \in 1 .. said : p \in Pieces
  BY DEF Typed, Tasks, Pieces, Complete
<1> QED
  BY <1>1, <1>2, AllKept DEF RunCopied, Grows

\* What of the invariant a step has to establish anew.
LEMMA CopyFrame ==
  ASSUME Typed, CopyInv, Grows,
         source' = "removed" => source = "removed" \/ AllArchived,
         source' = "closed" => source = "closed" \/ mode = "legacy",
         record' = record \/ RecordCopied(record)',
         \A x \in list' : x \in {record} \union list \/ RecordCopied(x)',
         \A a \in Anchors : archive'[a] = archive[a] \/ AnchorCopied(a)',
         \A r \in Runners : run'[r] = run[r] \/ RunCopied(r)'
  PROVE  CopyInv'
<1>1. (source = "removed" => AllArchived) /\ (mode # "legacy" => source # "closed")
  BY DEF CopyInv
<1>2. /\ \A x \in {record} \union list : x \in Records /\ RecordCopied(x)
      /\ \A a \in Anchors : AnchorCopied(a)
      /\ \A r \in Runners : RunCopied(r)
  BY DEF CopyInv, Typed
<1>3. \A x \in {record} \union list : RecordCopied(x)'
  BY <1>2, RecordKept
<1>4. \A a \in Anchors : AnchorCopied(a)'
  BY <1>2, AnchorKept
<1>5. \A r \in Runners : RunCopied(r)'
  BY <1>2, RunKept
<1>6. RecordCopied(record)'
  <2>1. CASE record' = record
    <3>1. PICK x : x = record
      OBVIOUS
    <3>2. RecordCopied(x)' /\ record' = x
      BY <1>3, <2>1, <3>1
    <3> QED
      BY <3>2 DEF RecordCopied
  <2> QED
    BY <2>1
<1>7. \A x \in list' : RecordCopied(x)'
  BY <1>3
<1>8. (source' = "removed" => AllArchived') /\ (mode' # "legacy" => source' # "closed")
  BY <1>1, AllKept DEF Grows
<1>9. \A x \in {record'} \union list' : RecordCopied(x)'
  <2> TAKE x \in {record'} \union list'
  <2>1. CASE x = record'
    BY <1>6, <2>1 DEF RecordCopied
  <2> QED
    BY <1>7, <2>1
<1> QED
  BY <1>4, <1>5, <1>8, <1>9 DEF CopyInv

\* A piece is posted.
LEMMA PostedCopied ==
  ASSUME Typed, Typed', CopyInv, Grows, mode # "legacy",
         NEW a \in Anchors, NEW p \in Pieces, NEW n \in {1, 2}, shredded' = shredded,
         Posts(a, p, n),
         p \in 1 .. MaxSaid => p <= said,
         p = Complete => Sealed /\ AllArchived
  PROVE  /\ AnchorCopied(a)'
         /\ Archived(p)'
         /\ \A b \in Anchors \ {a} : archive'[b] = archive[b]
<1>1. archive[a].posted \in [Pieces -> Nat] /\ archive[a].marked \in SUBSET Pieces
  BY DEF Typed, Threads
<1>2. n \in Nat /\ n > 0 /\ archive \in [Anchors -> Threads]
  BY DEF Typed
<1>3. /\ Only(a)
      /\ archive'[a].posted[p] = archive[a].posted[p] + n
      /\ \A q \in Pieces \ {p} : archive'[a].posted[q] = archive[a].posted[q]
      /\ archive'[a].marked = archive[a].marked \union {p}
  BY <1>2, PostedEffects
<1>4. archive'[a].posted[p] > 0
  BY <1>1, <1>2, <1>3
<1>5. \A q \in archive'[a].marked : archive'[a].posted[q] > 0
  BY <1>1, <1>3, <1>4 DEF CopyInv, AnchorCopied
<1>6. \A q \in 1 .. MaxSaid : archive'[a].posted[q] > 0 => q <= said'
  BY <1>1, <1>3, SMTT(20) DEF CopyInv, AnchorCopied, Grows, Pieces, Complete
<1>7. Complete \in archive'[a].marked => Sealed' /\ AllArchived'
  BY <1>3, AllKept DEF CopyInv, AnchorCopied, Grows
<1> QED
  BY <1>3, <1>4, <1>5, <1>6, <1>7 DEF AnchorCopied, Grows, Archived, Only

\* Markers are removed.
LEMMA StrippedCopied ==
  ASSUME Typed, CopyInv, Grows, mode # "legacy",
         NEW a \in Anchors, NEW left \in SUBSET archive[a].marked, archive' = Stripped(a, left)
  PROVE  \A b \in Anchors : archive'[b] = archive[b] \/ AnchorCopied(b)'
<1>1. archive \in [Anchors -> Threads] /\ AnchorCopied(a)
  BY DEF Typed, CopyInv
<1>2. /\ Only(a) /\ archive'[a].posted = archive[a].posted
      /\ archive'[a].marked = left
  BY <1>1, StrippedEffects
<1>3. AnchorCopied(a)'
  BY <1>1, <1>2, AllKept DEF AnchorCopied, Grows
<1> QED
  BY <1>2, <1>3 DEF Only

\* The engine of the archive copies before it says so.
LEMMA EngineCopies ==
  ASSUME Typed, CopyInv, NEW r \in Runners, Works(r) \/ Fails(r)
  PROVE  CopyInv'
<1> DEFINE a == run[r].anchor
<1>1. Typed' /\ Grows
  BY EngineTypes DEF Good
<1>2. /\ record \in Records /\ run \in [Runners -> Tasks] /\ archive \in [Anchors -> Threads]
      /\ run[r] \in Tasks /\ a \in 0 .. MaxAnchors /\ run[r].next \in Pieces
      /\ record.anchor \in 0 .. MaxAnchors /\ record.checkpoint \in 0 .. MaxSaid
      /\ said \in 0 .. MaxSaid /\ mode' = mode /\ said' = said
  BY <1>1 DEF Typed, Tasks, Records, Grows
<1>3. RecordCopied(record) /\ RunCopied(r) /\ \A b \in Anchors : AnchorCopied(b)
  BY DEF CopyInv
<1>4. AllArchived => AllArchived'
  BY <1>1, AllKept
<1>5. /\ \A p \in Pieces : Archived(p) => Archived(p)'
      /\ \A p \in 1 .. said : p \in Pieces
      /\ Sealed => Sealed'
      /\ \A p \in 1 .. MaxSaid : p \in Pieces
  BY <1>1, <1>2 DEF Grows, Copies, Pieces, Complete
<1>6. run[r].step \in {"thread", "read", "copy", "clean"} => a \in Anchors /\ archive[a] \in Threads
  BY <1>2, <1>3 DEF RunCopied
<1>7. /\ run[r].step \notin {"idle", "rename", "notice"} => mode # "legacy"
      /\ run[r].step \in {"anchor", "send", "thread", "read", "copy", "clean", "delete"} => Sealed
      /\ run[r].step \in {"freeze", "anchor", "send", "thread", "read"} => run[r].next = 0
      /\ run[r].step \in {"clean", "delete"} => AllArchived
  BY <1>3 DEF RunCopied
<1>8. run'[r].step = "idle" => RunCopied(r)'
  BY DEF RunCopied
<1>9. ASSUME mode # "legacy", record'.status \in {"closing", "archiving"},
             record'.checkpoint = record.checkpoint
      PROVE  RecordCopied(record)'
  BY <1>2, <1>3, <1>5, <1>9 DEF RecordCopied
<1>10. ASSUME mode # "legacy", record'.status = "archived_source_remaining",
              record'.checkpoint = record.checkpoint, Sealed, AllArchived
       PROVE  RecordCopied(record)'
  BY <1>2, <1>3, <1>4, <1>5, <1>10 DEF RecordCopied
<1> HIDE DEF a
<1>11. CASE Freeze(r)
  <2>1. "anchor" \in Steps /\ "closing" \in Status
    BY DEF Steps, Status, Closing
  <2>2. /\ record'.status = "closing" /\ record'.checkpoint = record.checkpoint
        /\ run'[r].step = "anchor" /\ run'[r].next = run[r].next
        /\ \A q \in Runners \ {r} : run'[q] = run[q]
    BY <1>2, <1>11, <2>1, PersistEffects, MoveEffects DEF Freeze, Moves
  <2>3. RecordCopied(record)'
    BY <1>7, <1>9, <1>11, <2>2 DEF Freeze, At
  <2>4. RunCopied(r)'
    BY <1>2, <1>7, <1>11, <2>2 DEF Freeze, At, RunCopied, Sealed
  <2> QED
    BY <1>1, <1>11, <2>2, <2>3, <2>4, CopyFrame DEF Freeze
<1>12. CASE FreezeLost(r)
  <2>1. run'[r].step = "idle" /\ \A q \in Runners \ {r} : run'[q] = run[q]
    BY <1>12, StopEffects DEF FreezeLost
  <2> QED
    BY <1>1, <1>8, <1>12, <2>1, CopyFrame DEF FreezeLost
<1>13. ASSUME NEW b \in Anchors, WithAnchor(r, b), run[r].step \in {"anchor", "send"}
       PROVE  /\ RecordCopied(record)' /\ RunCopied(r)'
              /\ \A q \in Runners \ {r} : run'[q] = run[q]
  <2>1. "thread" \in Steps /\ "closing" \in Status /\ b \in 0 .. MaxAnchors
    BY DEF Steps, Status, Closing, Anchors
  <2>2. /\ record'.status = "closing" /\ record'.checkpoint = record.checkpoint
        /\ run'[r].step = "thread" /\ run'[r].next = run[r].next /\ run'[r].anchor = b
        /\ \A q \in Runners \ {r} : run'[q] = run[q]
    <3>1. record'.status = "closing" /\ record'.checkpoint = record.checkpoint
      BY <1>2, <1>13, <2>1, AnchorEffects DEF WithAnchor
    <3>2. Moves(r, "thread", b)
      BY <1>13 DEF WithAnchor, Moves
    <3> QED
      BY <2>1, <3>1, <3>2, MoveEffects
  <2>3. RecordCopied(record)'
    BY <1>7, <1>9, <1>13, <2>2
  <2>4. RunCopied(r)'
    BY <1>2, <1>5, <1>7, <1>13, <2>2 DEF RunCopied
  <2> QED
    BY <2>2, <2>3, <2>4
<1>14. CASE FindAnchor(r)
  <2>1. CASE Found(r) = {}
    <3>1. /\ run'[r].step = "send" /\ run'[r].next = run[r].next
          /\ \A q \in Runners \ {r} : run'[q] = run[q]
          /\ record' = record
      BY <1>14, <2>1, StepEffects DEF FindAnchor, Steps
    <3>2. RunCopied(r)'
      BY <1>2, <1>5, <1>7, <1>14, <3>1 DEF FindAnchor, At, RunCopied
    <3> QED
      BY <1>1, <1>14, <3>1, <3>2, CopyFrame DEF FindAnchor
  <2>2. CASE Found(r) # {}
    <3>1. PICK b \in Found(r) : WithAnchor(r, b)
      BY <1>14, <2>2 DEF FindAnchor
    <3>2. b \in Anchors
      BY <1>2 DEF Found, a, Anchors
    <3>3. /\ RecordCopied(record)' /\ RunCopied(r)'
          /\ \A q \in Runners \ {r} : run'[q] = run[q]
      BY <1>13, <1>14, <3>1, <3>2 DEF FindAnchor, At
    <3> QED
      BY <1>1, <1>14, <3>3, CopyFrame DEF FindAnchor
  <2> QED
    BY <2>1, <2>2
<1>15. ASSUME NewAnchor, mode # "legacy"
       PROVE  /\ sent + 1 \in Anchors
              /\ \A b \in Anchors : archive'[b] = archive[b] \/ AnchorCopied(b)'
  <2>1. sent + 1 \in Anchors
    BY <1>15 DEF NewAnchor, Anchors, Typed
  <2>2. /\ Only(sent + 1) /\ archive'[sent + 1].posted = archive[sent + 1].posted
        /\ archive'[sent + 1].marked = archive[sent + 1].marked
    BY <1>2, <1>15, <2>1, NameEffects DEF NewAnchor
  <2>3. AnchorCopied(sent + 1)
    BY <1>3, <2>1
  <2>4. ASSUME NEW b \in Anchors, b = sent + 1 PROVE AnchorCopied(b)'
    <3>1. AnchorCopied(b) /\ archive'[b].posted = archive[b].posted
          /\ archive'[b].marked = archive[b].marked
      BY <2>2, <2>3, <2>4
    <3> QED
      BY <1>2, <1>4, <1>5, <1>15, <3>1 DEF AnchorCopied
  <2> QED
    BY <2>1, <2>2, <2>4 DEF Only
<1>16. CASE SendAnchor(r)
  <2>1. PICK b \in Anchors : WithAnchor(r, b)
    BY <1>7, <1>15, <1>16 DEF SendAnchor, At
  <2>2. /\ RecordCopied(record)' /\ RunCopied(r)'
        /\ \A q \in Runners \ {r} : run'[q] = run[q]
    BY <1>13, <1>16, <2>1 DEF SendAnchor, At
  <2> QED
    BY <1>1, <1>7, <1>15, <1>16, <2>2, CopyFrame DEF SendAnchor, At
<1>17. CASE AnchorLost(r)
  <2>1. run'[r].step = "idle" /\ \A q \in Runners \ {r} : run'[q] = run[q]
    BY <1>17, StopEffects DEF AnchorLost
  <2>2. \A b \in Anchors : archive'[b] = archive[b] \/ AnchorCopied(b)'
    BY <1>7, <1>15, <1>17 DEF AnchorLost, At
  <2> QED
    BY <1>1, <1>8, <1>17, <2>1, <2>2, CopyFrame DEF AnchorLost
<1>18. ASSUME a \in Anchors, archive' = [archive EXCEPT ![a].thread = TRUE], mode # "legacy"
       PROVE  \A b \in Anchors : archive'[b] = archive[b] \/ AnchorCopied(b)'
  <2>1. /\ Only(a) /\ archive'[a].posted = archive[a].posted
        /\ archive'[a].marked = archive[a].marked
    BY <1>2, <1>18, ThreadEffects
  <2>2. ASSUME NEW b \in Anchors, b = a PROVE AnchorCopied(b)'
    <3>1. AnchorCopied(b) /\ archive'[b].posted = archive[b].posted
          /\ archive'[b].marked = archive[b].marked
      BY <1>3, <2>1, <2>2
    <3> QED
      BY <1>2, <1>4, <1>5, <1>18, <3>1 DEF AnchorCopied
  <2> QED
    BY <2>1, <2>2 DEF Only
<1>19. CASE MakeThread(r)
  <2>1. /\ record'.status = "archiving" /\ record'.checkpoint = record.checkpoint
        /\ run'[r].step = "read" /\ run'[r].next = run[r].next /\ run'[r].anchor = run[r].anchor
        /\ \A q \in Runners \ {r} : run'[q] = run[q]
    BY <1>2, <1>19, AnchorEffects, StepEffects DEF MakeThread, a, Steps, Status, Closing
  <2>2. RecordCopied(record)'
    BY <1>7, <1>9, <1>19, <2>1 DEF MakeThread, At
  <2>3. RunCopied(r)'
    BY <1>2, <1>5, <1>6, <1>7, <1>19, <2>1 DEF MakeThread, At, RunCopied, a
  <2>4. \A b \in Anchors : archive'[b] = archive[b] \/ AnchorCopied(b)'
    BY <1>6, <1>7, <1>18, <1>19 DEF MakeThread, At, a
  <2> QED
    BY <1>1, <1>19, <2>1, <2>2, <2>3, <2>4, CopyFrame DEF MakeThread
<1>20. CASE ThreadLost(r)
  <2>1. run'[r].step = "idle" /\ \A q \in Runners \ {r} : run'[q] = run[q]
    BY <1>20, StopEffects DEF ThreadLost
  <2>2. \A b \in Anchors : archive'[b] = archive[b] \/ AnchorCopied(b)'
    BY <1>6, <1>7, <1>18, <1>20 DEF ThreadLost, At, a
  <2> QED
    BY <1>1, <1>8, <1>20, <2>1, <2>2, CopyFrame DEF ThreadLost
<1>21. CASE Read(r)
  <2>1. run[r].step = "read" /\ a \in Anchors /\ mode # "legacy" /\ Sealed /\ run[r].next = 0
    BY <1>6, <1>7, <1>21 DEF Read, At
  <2>2. CASE Complete \in archive[a].marked
    <3>1. Persist("archived_source_remaining") /\ Step(r, "clean")
      BY <1>21, <2>2 DEF Read, a
    <3>2. /\ record'.status = "archived_source_remaining"
          /\ record'.checkpoint = record.checkpoint
      BY <1>2, <3>1, PersistEffects DEF Status, Closing
    <3>3. /\ run'[r].step = "clean" /\ run'[r].anchor = a
          /\ \A q \in Runners \ {r} : run'[q] = run[q]
      BY <3>1, StepEffects DEF Steps, a
    <3>4. AllArchived
      BY <1>3, <2>1, <2>2 DEF AnchorCopied
    <3>5. RecordCopied(record)' /\ RunCopied(r)'
      BY <1>2, <1>4, <1>5, <1>10, <2>1, <3>2, <3>3, <3>4 DEF RunCopied
    <3> QED
      BY <1>1, <1>21, <3>3, <3>5, CopyFrame DEF Read
  <2>3. CASE Complete \notin archive[a].marked
    <3>1. Go(r, [run[r] EXCEPT !.step = "copy", !.seen = archive[a].marked]) /\ record' = record
      BY <1>21, <2>3 DEF Read, a
    <3>2. archive[a].marked \in SUBSET Pieces
      BY <1>6, <2>1 DEF Threads
    <3>3. /\ run'[r].step = "copy" /\ run'[r].anchor = a /\ run'[r].next = 0
          /\ run'[r].seen = archive[a].marked
          /\ \A q \in Runners \ {r} : run'[q] = run[q]
      BY <2>1, <3>1, <3>2, SeenEffects DEF a
    <3>4. \A p \in run'[r].seen : Archived(p)'
      BY <1>3, <1>5, <2>1, <3>2, <3>3 DEF AnchorCopied, Archived
    <3>5. RunCopied(r)'
      BY <1>2, <1>5, <2>1, <3>3, <3>4 DEF RunCopied
    <3> QED
      BY <1>1, <1>21, <3>1, <3>3, <3>5, CopyFrame DEF Read
  <2> QED
    BY <2>2, <2>3
<1>22. ASSUME NEW p \in Pieces, PostOnce(r, p), run[r].step = "copy", shredded' = shredded,
              p \in 1 .. MaxSaid => p <= said,
              p = Complete => AllArchived
       PROVE  /\ Archived(p)'
              /\ \A b \in Anchors : archive'[b] = archive[b] \/ AnchorCopied(b)'
  <2>1. a \in Anchors /\ mode # "legacy" /\ Sealed
    BY <1>6, <1>7, <1>22
  <2>2. CASE p \in run[r].seen
    BY <1>3, <1>5, <1>22, <2>2 DEF PostOnce, RunCopied
  <2>3. CASE p \notin run[r].seen
    <3>1. PICK c \in Anchors : c = a
      BY <2>1
    <3>2. Posts(c, p, 1)
      BY <1>22, <2>3, <3>1 DEF PostOnce, Post, Posts, a
    <3>3. /\ AnchorCopied(c)' /\ Archived(p)'
          /\ \A b \in Anchors \ {c} : archive'[b] = archive[b]
      BY <1>1, <1>22, <2>1, <3>2, PostedCopied
    <3> QED
      BY <3>3
  <2> QED
    BY <2>2, <2>3
<1>23. CASE CopyIntro(r)
  <2>1. /\ run[r].step = "copy" /\ mode # "legacy" /\ Sealed /\ a \in Anchors
        /\ 0 \in Pieces /\ Complete # 0
    BY <1>6, <1>7, <1>23 DEF CopyIntro, At, Pieces, Complete
  <2>2. \A b \in Anchors : archive'[b] = archive[b] \/ AnchorCopied(b)'
    BY <1>22, <1>23, <2>1 DEF CopyIntro
  <2>3. CASE Exists
    <3> DEFINE p == Following(record.checkpoint)
    <3>1. /\ p \in Pieces
          /\ p \in 1 .. MaxSaid => p <= said
          /\ \A q \in 1 .. said : q < p => q <= record.checkpoint
      BY <1>2, <1>3 DEF Following, Pieces, Complete, RecordCopied
    <3>2. Go(r, [run[r] EXCEPT !.next = p])
      BY <1>23, <2>3 DEF CopyIntro
    <3> HIDE DEF p
    <3>3. /\ run'[r].step = "copy" /\ run'[r].anchor = a /\ run'[r].next = p
          /\ run'[r].seen = run[r].seen
          /\ \A q \in Runners \ {r} : run'[q] = run[q]
      BY <2>1, <3>1, <3>2, NextEffects DEF a
    <3>4. \A q \in run[r].seen : Archived(q)'
      BY <1>2, <1>3, <1>5, <2>1 DEF RunCopied, Tasks
    <3>5. \A q \in 1 .. said : q < p => Archived(q)'
      BY <1>2, <1>3, <1>5, <3>1 DEF RecordCopied
    <3>6. RunCopied(r)'
      BY <1>2, <1>5, <2>1, <3>1, <3>3, <3>4, <3>5 DEF RunCopied
    <3> QED
      BY <1>1, <1>23, <2>2, <3>3, <3>6, CopyFrame DEF CopyIntro
  <2>4. CASE ~Exists
    <3>1. run'[r].step = "idle" /\ \A q \in Runners \ {r} : run'[q] = run[q]
      BY <1>23, <2>4, StopEffects DEF CopyIntro
    <3> QED
      BY <1>1, <1>8, <1>23, <2>2, <3>1, CopyFrame DEF CopyIntro
  <2> QED
    BY <2>3, <2>4
\* A message is copied or its link sent: then it is stored as progress.
<1>24. ASSUME NEW p \in 1 .. MaxSaid, p = run[r].next, run[r].step = "copy", Archived(p)',
              \A b \in Anchors : archive'[b] = archive[b] \/ AnchorCopied(b)',
              record' = [record EXCEPT !.status = "archiving", !.checkpoint = p],
              Go(r, [run[r] EXCEPT !.next = Following(p)]),
              UNCHANGED <<source, list>>
       PROVE  CopyInv'
  <2> DEFINE n == Following(p)
  <2>1. mode # "legacy" /\ Sealed /\ a \in Anchors /\ p <= said
    BY <1>3, <1>6, <1>7, <1>24 DEF RunCopied
  <2>2. /\ n \in Pieces
        /\ n \in 1 .. MaxSaid => n <= said
        /\ \A q \in 1 .. said : q < n => q <= p
    BY <1>2, <2>1 DEF Following, Pieces, Complete
  <2> HIDE DEF n
  <2>3. /\ run'[r].step = "copy" /\ run'[r].anchor = a /\ run'[r].next = n
        /\ run'[r].seen = run[r].seen
        /\ \A q \in Runners \ {r} : run'[q] = run[q]
    BY <1>24, <2>2, NextEffects DEF a, n
  <2>4. record'.status = "archiving" /\ record'.checkpoint = p /\ record'.anchor = record.anchor
    BY <1>2, <1>24, ProgressEffects
  <2>5. \A q \in 1 .. p : Archived(q)'
    <3>1. \A q \in 1 .. said : q < p => Archived(q)'
      BY <1>2, <1>3, <1>5, <1>24 DEF RunCopied
    <3> QED
      BY <1>2, <1>24, <2>1, <3>1
  <2>6. \A q \in run[r].seen : Archived(q)'
    BY <1>2, <1>3, <1>5, <1>24 DEF RunCopied, Tasks
  <2>7. RecordCopied(record)'
    BY <1>2, <2>1, <2>4, <2>5 DEF RecordCopied
  <2>8. RunCopied(r)'
    BY <1>2, <1>5, <2>1, <2>2, <2>3, <2>5, <2>6 DEF RunCopied
  <2> QED
    BY <1>1, <1>24, <2>3, <2>7, <2>8, CopyFrame
<1>25. CASE CopyMessage(r)
  <2>1. PICK p \in 1 .. MaxSaid : p = run[r].next
    BY <1>25 DEF CopyMessage
  <2>2. p \in Pieces /\ p # Complete /\ run[r].step = "copy" /\ p <= said
    BY <1>2, <1>3, <1>25, <2>1 DEF CopyMessage, At, RunCopied, Pieces, Complete
  <2>3. /\ Archived(p)'
        /\ \A b \in Anchors : archive'[b] = archive[b] \/ AnchorCopied(b)'
    BY <1>22, <1>25, <2>1, <2>2 DEF CopyMessage
  <2> QED
    BY <1>24, <1>25, <2>1, <2>2, <2>3 DEF CopyMessage
<1>26. CASE CopyLink(r)
  <2>1. PICK p \in 1 .. MaxSaid : p = run[r].next
    BY <1>26 DEF CopyLink
  <2>2. p \in Pieces /\ p # Complete /\ run[r].step = "copy" /\ p <= said
    BY <1>2, <1>3, <1>26, <2>1 DEF CopyLink, At, RunCopied, Pieces, Complete
  <2>3. PICK n \in {1, 2} : Posts(a, p, n)
    BY <1>26, <2>1 DEF CopyLink, Posts, a
  <2>4. mode # "legacy" /\ shredded' = shredded
    BY <1>7, <1>26, <2>2 DEF CopyLink
  <2>5. PICK c \in Anchors : c = a
    BY <1>6, <2>2
  <2>6. /\ AnchorCopied(c)' /\ Archived(p)'
        /\ \A b \in Anchors \ {c} : archive'[b] = archive[b]
    <3>1. Posts(c, p, n)
      BY <2>3, <2>5
    <3> QED
      BY <1>1, <2>2, <2>4, <3>1, PostedCopied
  <2> QED
    BY <1>24, <1>26, <2>1, <2>2, <2>6 DEF CopyLink
<1>27. CASE CopyComplete(r)
  <2>1. /\ run[r].step = "copy" /\ mode # "legacy" /\ Sealed /\ a \in Anchors
        /\ Complete \in Pieces /\ Complete \notin 1 .. MaxSaid /\ AllArchived
    BY <1>2, <1>3, <1>6, <1>7, <1>27
       DEF CopyComplete, At, Pieces, Complete, RunCopied, AllArchived
  <2>2. \A b \in Anchors : archive'[b] = archive[b] \/ AnchorCopied(b)'
    BY <1>22, <1>27, <2>1 DEF CopyComplete
  <2>3. /\ record'.status = "archived_source_remaining"
        /\ record'.checkpoint = record.checkpoint
    BY <1>2, <1>27, PersistEffects DEF CopyComplete, Status, Closing
  <2>4. /\ run'[r].step = "clean" /\ run'[r].anchor = a
        /\ \A q \in Runners \ {r} : run'[q] = run[q]
    BY <1>27, StepEffects DEF CopyComplete, Steps, a
  <2>5. RecordCopied(record)' /\ RunCopied(r)'
    BY <1>2, <1>4, <1>5, <1>10, <2>1, <2>3, <2>4 DEF RunCopied
  <2> QED
    BY <1>1, <1>27, <2>2, <2>4, <2>5, CopyFrame DEF CopyComplete
<1>28. CASE PieceLost(r)
  <2>1. run'[r].step = "idle" /\ \A q \in Runners \ {r} : run'[q] = run[q]
    BY <1>28, StopEffects DEF PieceLost
  <2>2. /\ run[r].step = "copy" /\ run[r].next \in Pieces
        /\ run[r].next \in 1 .. MaxSaid => run[r].next <= said
        /\ run[r].next = Complete => AllArchived
    BY <1>2, <1>3, <1>28 DEF PieceLost, At, RunCopied, Complete, AllArchived
  <2>3. \A b \in Anchors : archive'[b] = archive[b] \/ AnchorCopied(b)'
    BY <1>22, <1>28, <2>2 DEF PieceLost
  <2> QED
    BY <1>1, <1>8, <1>28, <2>1, <2>3, CopyFrame DEF PieceLost
<1>29. CASE Gone(r)
  <2>1. run'[r].step = "idle" /\ \A q \in Runners \ {r} : run'[q] = run[q]
    BY <1>29, StopEffects DEF Gone
  <2> QED
    BY <1>1, <1>8, <1>29, <2>1, CopyFrame DEF Gone
<1>30. CASE Clean(r)
  <2>1. run[r].step = "clean" /\ mode # "legacy" /\ Sealed /\ a \in Anchors /\ AllArchived
    BY <1>6, <1>7, <1>30 DEF Clean, At
  <2>2. \A b \in Anchors : archive'[b] = archive[b] \/ AnchorCopied(b)'
    BY <1>1, <1>30, <2>1, StrippedCopied DEF Clean, a
  <2>3. /\ record'.status = "archived_source_remaining"
        /\ record'.checkpoint = record.checkpoint
    BY <1>2, <1>30 DEF Clean, Records
  <2>4. run'[r].step = "delete" /\ \A q \in Runners \ {r} : run'[q] = run[q]
    BY <1>30, StepEffects DEF Clean, Steps
  <2>5. RecordCopied(record)' /\ RunCopied(r)'
    BY <1>2, <1>4, <1>5, <1>10, <2>1, <2>3, <2>4 DEF RunCopied
  <2> QED
    BY <1>1, <1>30, <2>2, <2>4, <2>5, CopyFrame DEF Clean
<1>31. CASE CleanLost(r)
  <2>1. run[r].step = "clean" /\ mode # "legacy" /\ Sealed /\ a \in Anchors /\ AllArchived
    BY <1>6, <1>7, <1>31 DEF CleanLost, At
  <2>2. \A b \in Anchors : archive'[b] = archive[b] \/ AnchorCopied(b)'
    BY <1>1, <1>31, <2>1, StrippedCopied DEF CleanLost, a
  <2>3. run'[r].step = "delete" /\ \A q \in Runners \ {r} : run'[q] = run[q]
    BY <1>31, StepEffects DEF CleanLost, Steps
  <2>4. RunCopied(r)'
    BY <1>2, <1>4, <1>5, <2>1, <2>3 DEF RunCopied
  <2> QED
    BY <1>1, <1>31, <2>2, <2>3, <2>4, CopyFrame DEF CleanLost
<1>32. CASE Delete(r)
  <2>1. mode # "legacy" /\ Sealed /\ AllArchived
    BY <1>7, <1>32 DEF Delete, At
  <2>2. run'[r].step = "idle" /\ \A q \in Runners \ {r} : run'[q] = run[q]
    BY <1>32, StopEffects DEF Delete
  <2>3. record'.status = "closed" /\ record'.checkpoint = record.checkpoint
    BY <1>2, <1>32, PersistEffects DEF Delete, Status, Closing
  <2>4. ~Exists' /\ (source' = "closed" => source = "closed")
    BY <1>32 DEF Delete, Exists
  <2>5. RecordCopied(record)'
    BY <1>2, <1>3, <1>4, <1>5, <2>1, <2>3, <2>4 DEF RecordCopied
  <2> QED
    BY <1>1, <1>8, <1>32, <2>1, <2>2, <2>4, <2>5, CopyFrame DEF Delete
<1>33. CASE DeleteLost(r)
  <2>1. mode # "legacy" /\ Sealed /\ AllArchived
    BY <1>7, <1>33 DEF DeleteLost, At
  <2>2. run'[r].step = "idle" /\ \A q \in Runners \ {r} : run'[q] = run[q]
    BY <1>33, StopEffects DEF DeleteLost
  <2>3. /\ record'.status = "archived_source_remaining"
        /\ record'.checkpoint = record.checkpoint
    BY <1>2, <1>33, PersistEffects DEF DeleteLost, Status, Closing
  <2>4. RecordCopied(record)'
    BY <1>10, <2>1, <2>3
  <2> QED
    BY <1>1, <1>8, <1>33, <2>1, <2>2, <2>4, CopyFrame DEF DeleteLost
<1> QED
  BY <1>11, <1>12, <1>14, <1>16, <1>17, <1>19, <1>20, <1>21, <1>23, <1>25, <1>26, <1>27, <1>28,
     <1>29, <1>30, <1>31, <1>32, <1>33 DEF Works, Fails

LEMMA CloseCopies ==
  ASSUME Typed, CopyInv, CloseClick
  PROVE  CopyInv'
<1>1. Typed' /\ Grows /\ Button \in Runners
  BY CloseTypes DEF Good, Runners
<1>2. record \in Records /\ RecordCopied(record) /\ RunCopied(Button) /\ mode' = mode
  BY <1>1 DEF Typed, CopyInv, Grows
<1>3. run'[Button].step = "idle" => RunCopied(Button)'
  BY DEF RunCopied
<1>4. /\ \A p \in 1 .. record.checkpoint : Archived(p) => Archived(p)'
      /\ record.checkpoint \in 0 .. MaxSaid /\ said \in 0 .. MaxSaid /\ said' = said
  BY <1>1, <1>2 DEF Grows, Copies, Pieces, Complete, Typed, Records
<1>5. CASE Close
  <2>1. /\ record'.status = "closing" /\ record'.checkpoint = record.checkpoint
        /\ record'.anchor = record.anchor
    BY <1>2, <1>5, PersistEffects DEF Close, Status, Closing
  <2>2. /\ run'[Button].step = "freeze" /\ run'[Button].next = 0
        /\ \A q \in Runners \ {Button} : run'[q] = run[q]
    BY <1>1, <1>5, EnterEffects DEF Close, Steps
  <2>3. RecordCopied(record)' /\ RunCopied(Button)'
    BY <1>2, <1>4, <1>5, <2>1, <2>2 DEF Close, RecordCopied, RunCopied
  <2> QED
    BY <1>1, <1>5, <2>2, <2>3, CopyFrame DEF Close
<1>6. CASE Revoke
  <2>1. /\ run'[Button].step = "rename"
        /\ \A q \in Runners \ {Button} : run'[q] = run[q]
    BY <1>1, <1>6, StepEffects DEF Revoke, Steps
  <2>2. RunCopied(Button)'
    BY <1>2, <1>6, <2>1 DEF Revoke, RunCopied
  <2> QED
    BY <1>1, <1>6, <2>1, <2>2, CopyFrame DEF Revoke
<1>7. CASE RevokeLost
  BY <1>1, <1>7, CopyFrame DEF RevokeLost
<1>8. CASE Rename
  <2>1. /\ run'[Button].step \in {"idle", "notice"}
        /\ \A q \in Runners \ {Button} : run'[q] = run[q]
    BY <1>1, <1>8, StepEffects, StopEffects DEF Rename, Steps
  <2>2. mode = "legacy"
    BY <1>2, <1>8 DEF Rename, At, RunCopied
  <2>3. RunCopied(Button)'
    BY <1>2, <2>1, <2>2 DEF RunCopied
  <2> QED
    BY <1>1, <1>8, <2>1, <2>2, <2>3, CopyFrame DEF Rename
<1>9. CASE RenameLost
  <2>1. run'[Button].step = "idle" /\ \A q \in Runners \ {Button} : run'[q] = run[q]
    BY <1>1, <1>9, StopEffects DEF RenameLost
  <2>2. mode = "legacy"
    BY <1>2, <1>9 DEF RenameLost, At, RunCopied
  <2> QED
    BY <1>1, <1>3, <1>9, <2>1, <2>2, CopyFrame DEF RenameLost
<1>10. CASE Notice
  <2>1. run'[Button].step = "idle" /\ \A q \in Runners \ {Button} : run'[q] = run[q]
    BY <1>1, <1>10, StopEffects DEF Notice
  <2>2. mode = "legacy"
    BY <1>2, <1>10 DEF Notice, At, RunCopied
  <2>3. Persist("closed") => RecordCopied(record)'
    <3>1. Persist("closed") => /\ record'.status = "closed" /\ record'.anchor = record.anchor
                               /\ record'.checkpoint = record.checkpoint
      BY <1>2, PersistEffects DEF Status, Closing
    <3> QED
      BY <1>2, <1>4, <2>2, <3>1 DEF RecordCopied
  <2> QED
    BY <1>1, <1>3, <1>10, <2>1, <2>3, CopyFrame DEF Notice
<1>11. CASE NoticeLost
  <2>1. run'[Button].step = "idle" /\ \A q \in Runners \ {Button} : run'[q] = run[q]
    BY <1>1, <1>11, StopEffects DEF NoticeLost
  <2> QED
    BY <1>1, <1>3, <1>11, <2>1, CopyFrame DEF NoticeLost
<1> QED
  BY <1>5, <1>6, <1>7, <1>8, <1>9, <1>10, <1>11 DEF CloseClick

LEMMA ListCopies ==
  ASSUME Typed, CopyInv, ListTickets
  PROVE  CopyInv'
BY ListTypes, CopyFrame DEF Good, ListTickets

LEMMA ReconcileCopies ==
  ASSUME Typed, CopyInv, NEW s \in list, Reconcile(s) \/ Passes(s)
  PROVE  CopyInv'
<1>1. Typed' /\ Grows /\ Sweep \in Runners
  BY ReconcileTypes DEF Good, Runners
<1>2. /\ record \in Records /\ RecordCopied(record) /\ s \in Records /\ RecordCopied(s)
      /\ mode' = mode /\ said' = said /\ said \in 0 .. MaxSaid /\ record.checkpoint \in 0 .. MaxSaid
  BY <1>1 DEF Typed, CopyInv, Grows, Records
<1>3. \A p \in 1 .. MaxSaid : Archived(p) => Archived(p)'
  BY <1>1 DEF Grows, Copies, Pieces, Complete, Typed
<1>4. RecordCopied(s)' /\ (AllArchived => AllArchived') /\ (Sealed => Sealed') /\ (~Exists => ~Exists')
  BY <1>1, <1>2, RecordKept, AllKept DEF Grows
<1>5. ASSUME NEW x \in Records, x.status = s.status, x.checkpoint = s.checkpoint,
             x.anchor = s.anchor
      PROVE  RecordCopied(x)'
  BY <1>4, <1>5 DEF RecordCopied
<1>6. /\ [s EXCEPT !.clean = TRUE] \in Records
      /\ [s EXCEPT !.clean = TRUE].status = s.status
      /\ [s EXCEPT !.clean = TRUE].checkpoint = s.checkpoint
      /\ [s EXCEPT !.clean = TRUE].anchor = s.anchor
  BY <1>2 DEF Records
<1>7. RecordCopied([s EXCEPT !.clean = TRUE])'
  BY <1>5, <1>6
<1>8. s.anchor \in 0 .. MaxAnchors /\ (s.anchor # 0 => s.anchor \in Anchors /\ mode # "legacy")
  BY <1>2 DEF Records, Anchors, RecordCopied
<1>9. ASSUME NEW status \in {"open", "missing", "archive_incomplete_source_missing"},
             status # "archive_incomplete_source_missing" \/ mode # "legacy", Persist(status)
      PROVE  RecordCopied(record)'
  <2>1. /\ record'.status = status /\ record'.checkpoint = record.checkpoint
        /\ record'.anchor = record.anchor
    BY <1>2, <1>9, PersistEffects DEF Status, Closing
  <2> QED
    BY <1>2, <1>3, <1>9, <2>1 DEF RecordCopied
<1>10. CASE Discover(s)
  <2>1. CASE source = "closed"
    <3>1. mode = "legacy" /\ Persist("closed")
      BY <1>10, <2>1 DEF CopyInv, Discover
    <3>2. /\ record'.status = "closed" /\ record'.checkpoint = record.checkpoint
          /\ record'.anchor = record.anchor
      BY <1>2, <3>1, PersistEffects DEF Status, Closing
    <3>3. RecordCopied(record)'
      BY <1>2, <1>3, <3>1, <3>2 DEF RecordCopied
    <3> QED
      BY <1>1, <1>10, <3>3, CopyFrame DEF Discover, Done
  <2>2. CASE source # "closed"
    BY <1>1, <1>9, <1>10, <2>2, CopyFrame DEF Discover, Done
  <2> QED
    BY <2>1, <2>2
<1>11. CASE Reopen(s)
  BY <1>1, <1>9, <1>11, CopyFrame DEF Reopen, Done
<1>12. CASE CleanRecord(s)
  <2>1. \A b \in Anchors : archive'[b] = archive[b] \/ AnchorCopied(b)'
    BY <1>1, <1>8, <1>12, StrippedCopied DEF CleanRecord, NeedsCleaning
  <2>2. record' = [s EXCEPT !.clean = TRUE] /\ list' = {[s EXCEPT !.clean = TRUE]}
    BY <1>12 DEF CleanRecord
  <2>3. RecordCopied(record)'
    BY <1>7, <2>2 DEF RecordCopied
  <2> QED
    BY <1>1, <1>7, <1>12, <2>1, <2>2, <2>3, CopyFrame DEF CleanRecord
<1>13. CASE CleanRecordLost(s)
  <2>1. \A b \in Anchors : archive'[b] = archive[b] \/ AnchorCopied(b)'
    BY <1>1, <1>8, <1>13, StrippedCopied DEF CleanRecordLost, NeedsCleaning
  <2> QED
    BY <1>1, <1>7, <1>13, <2>1, CopyFrame DEF CleanRecordLost
<1>14. CASE Settle(s)
  <2>1. mode # "legacy" /\ Sealed /\ AllArchived
    BY <1>2, <1>14 DEF Settle, RecordCopied
  <2>2. CASE Exists
    <3>1. /\ run'[Sweep].step = "delete" /\ \A q \in Runners \ {Sweep} : run'[q] = run[q]
          /\ record' = record
      BY <1>1, <1>14, <2>2, EnterEffects DEF Settle, Steps
    <3>2. RunCopied(Sweep)'
      BY <1>2, <1>4, <2>1, <3>1 DEF RunCopied
    <3> QED
      BY <1>1, <1>14, <3>1, <3>2, CopyFrame DEF Settle
  <2>3. CASE ~Exists
    <3>1. /\ record'.status = "closed" /\ record'.checkpoint = record.checkpoint
          /\ run' = run
      BY <1>2, <1>14, <2>3, PersistEffects DEF Settle, Status, Closing
    <3>2. RecordCopied(record)'
      BY <1>2, <1>3, <1>4, <2>1, <2>3, <3>1 DEF RecordCopied
    <3> QED
      BY <1>1, <1>14, <3>1, <3>2, CopyFrame DEF Settle
  <2> QED
    BY <2>2, <2>3
<1>15. CASE Resume(s)
  <2>1. /\ run'[Sweep].step = "freeze" /\ run'[Sweep].next = 0
        /\ \A q \in Runners \ {Sweep} : run'[q] = run[q]
    BY <1>1, <1>15, EnterEffects DEF Resume, Steps
  <2>2. RunCopied(Sweep)'
    BY <1>2, <1>15, <2>1 DEF Resume, Unfinished, RecordCopied, RunCopied
  <2> QED
    BY <1>1, <1>15, <2>1, <2>2, CopyFrame DEF Resume
<1>16. CASE SourceMissing(s)
  <2>1. mode # "legacy" /\ ~Exists
    BY <1>2, <1>16 DEF SourceMissing, Unfinished, RecordCopied
  <2>2. CASE CompleteArchives(s) = {}
    BY <1>1, <1>9, <1>16, <2>1, <2>2, CopyFrame DEF SourceMissing, Done
  <2>3. CASE CompleteArchives(s) # {}
    <3>1. PICK a \in CompleteArchives(s) :
             /\ archive' = Stripped(a, {})
             /\ record' = [s EXCEPT !.status = "closed", !.clean = TRUE]
      BY <1>16, <2>3 DEF SourceMissing
    <3>2. a \in Anchors /\ Complete \in archive[a].marked
      BY DEF CompleteArchives
    <3>3. Sealed /\ AllArchived
      BY <3>2 DEF CopyInv, AnchorCopied
    <3>4. record'.status = "closed" /\ record'.checkpoint = s.checkpoint /\ record'.anchor = s.anchor
      BY <1>2, <3>1 DEF Records
    <3>5. RecordCopied(record)'
      BY <1>4, <2>1, <3>3, <3>4, <1>2 DEF RecordCopied
    <3>6. \A b \in Anchors : archive'[b] = archive[b] \/ AnchorCopied(b)'
      BY <1>1, <2>1, <3>1, <3>2, StrippedCopied
    <3> QED
      BY <1>1, <1>16, <3>5, <3>6, CopyFrame DEF SourceMissing, Done
  <2> QED
    BY <2>2, <2>3
<1>17. CASE Skip(s)
  BY <1>1, <1>17, CopyFrame DEF Skip, Done
<1> QED
  BY <1>10, <1>11, <1>12, <1>13, <1>14, <1>15, <1>16, <1>17 DEF Reconcile, Passes

\* Nobody has begun to copy a channel in which somebody speaks.
LEMMA SayCopies ==
  ASSUME Typed, CopyInv, Say
  PROVE  CopyInv'
<1>1. ~Sealed /\ said \in 0 .. MaxSaid /\ said' = said + 1 /\ source' = "open" /\ mode' = mode
  BY DEF Say, Sealed, Typed
<1>2. UNCHANGED <<record, list, archive, shredded, run>>
  BY DEF Say
<1>3. \A p : Archived(p)' <=> Archived(p)
  BY <1>2 DEF Archived
<1>4. ASSUME NEW x \in Records, RecordCopied(x) PROVE RecordCopied(x)'
  <2>1. x.checkpoint \in 0 .. MaxSaid
    BY DEF Records
  <2> QED
    BY <1>1, <1>3, <1>4, <2>1 DEF RecordCopied
<1>5. ASSUME NEW a \in Anchors PROVE AnchorCopied(a)'
  BY <1>1, <1>2 DEF CopyInv, AnchorCopied
<1>6. ASSUME NEW r \in Runners PROVE RunCopied(r)'
  BY <1>1, <1>2 DEF CopyInv, RunCopied
<1>7. \A x \in {record} \union list : x \in Records /\ RecordCopied(x)
  BY DEF CopyInv, Typed
<1>8. \A x \in {record'} \union list' : RecordCopied(x)'
  BY <1>2, <1>4, <1>7
<1> QED
  BY <1>1, <1>5, <1>6, <1>8 DEF CopyInv

LEMMA SurroundingCopies ==
  ASSUME Typed, CopyInv, DeletedByModerator \/ Crash \/ \E a \in Anchors : ThreadDeleted(a)
  PROVE  CopyInv'
<1>1. Typed' /\ Grows
  BY SurroundingTypes DEF Good
<1>2. CASE DeletedByModerator
  BY <1>1, <1>2, CopyFrame DEF DeletedByModerator
<1>3. CASE Crash
  <2>1. \A r \in Runners : RunCopied(r)'
    BY <1>3, IdleTask DEF Crash, RunCopied
  <2> QED
    BY <1>1, <1>3, <2>1, CopyFrame DEF Crash
<1>4. ASSUME NEW a \in Anchors, ThreadDeleted(a) PROVE CopyInv'
  <2>1. /\ Only(a) /\ archive'[a].marked = {} /\ \A p \in Pieces : archive'[a].posted[p] = 0
    BY <1>4, ShredEffects DEF ThreadDeleted, Typed
  <2>2. mode # "legacy"
    BY <1>4 DEF CopyInv, AnchorCopied, ThreadDeleted, Untold
  <2>3. AnchorCopied(a)'
    BY <1>1, <2>1, <2>2 DEF AnchorCopied, Grows, Pieces, Complete
  <2> QED
    BY <1>1, <1>4, <2>1, <2>3, CopyFrame DEF ThreadDeleted, Only
<1> QED
  BY <1>2, <1>3, <1>4

-----------------------------------------------------------------------------
(* What looks closed is locked                                             *)

LEMMA LockFrame ==
  ASSUME CopyInv', mode' = mode,
         source' \in {"closed", "frozen"} => ~writable',
         mode = "legacy" => \A r \in Runners : run'[r].step \in {"rename", "notice"} => ~writable'
  PROVE  LockInv'
<1>1. mode # "legacy" => \A r \in Runners : run'[r].step \notin {"rename", "notice"}
  BY DEF CopyInv, RunCopied
<1> QED
  BY <1>1 DEF LockInv, ClosedIsLocked

LEMMA EngineLocks ==
  ASSUME Typed, CopyInv, LockInv, NEW r \in Runners, Works(r) \/ Fails(r)
  PROVE  LockInv'
<1>1. CopyInv' /\ mode' = mode
  BY EngineTypes, EngineCopies DEF Good, Grows
<1>2. source \in {"closed", "frozen"} => ~writable
  BY DEF LockInv, ClosedIsLocked
<1>3. mode # "legacy"
  <2>1. run[r].step \notin {"idle", "rename", "notice"}
    BY DEF Works, Fails, Freeze, FreezeLost, FindAnchor, SendAnchor, AnchorLost, MakeThread,
           ThreadLost, Read, CopyIntro, CopyMessage, CopyLink, CopyComplete, PieceLost, Gone,
           Clean, CleanLost, Delete, DeleteLost, At
  <2> QED
    BY <2>1 DEF CopyInv, RunCopied
<1>4. \/ UNCHANGED writable /\ source' \in {source, "removed"}
      \/ ~writable'
  BY DEF Works, Fails, Freeze, FreezeLost, FindAnchor, SendAnchor, AnchorLost, MakeThread,
         ThreadLost, Read, CopyIntro, CopyMessage, CopyLink, CopyComplete, PieceLost, Gone,
         Clean, CleanLost, Delete, DeleteLost, Locked
<1> QED
  BY <1>1, <1>2, <1>3, <1>4, LockFrame

LEMMA CloseLocks ==
  ASSUME Typed, CopyInv, LockInv, CloseClick
  PROVE  LockInv'
<1>1. CopyInv' /\ mode' = mode /\ Button \in Runners
  BY CloseTypes, CloseCopies DEF Good, Grows, Runners
<1>2. /\ source \in {"closed", "frozen"} => ~writable
      /\ run[Button].step \in {"rename", "notice"} => ~writable
  BY <1>1 DEF LockInv, ClosedIsLocked
<1>3. \/ mode # "legacy" /\ UNCHANGED <<source, writable>>
      \/ ~writable'
  BY <1>2 DEF CloseClick, Close, Revoke, RevokeLost, Rename, RenameLost, Notice, NoticeLost,
              Locked, At
<1> QED
  BY <1>1, <1>2, <1>3, LockFrame

LEMMA ListLocks ==
  ASSUME Typed, CopyInv, LockInv, ListTickets
  PROVE  LockInv'
BY DEF ListTickets, LockInv, ClosedIsLocked

LEMMA ReconcileLocks ==
  ASSUME Typed, CopyInv, LockInv, NEW s \in list, Reconcile(s) \/ Passes(s)
  PROVE  LockInv'
<1>1. CopyInv' /\ mode' = mode /\ s \in Records /\ RecordCopied(s)
  BY ReconcileTypes, ReconcileCopies DEF Good, Grows, CopyInv, Typed
<1>2. UNCHANGED <<source, writable>>
  BY DEF Reconcile, Passes, Discover, Reopen, CleanRecord, Settle, Resume, SourceMissing,
         CleanRecordLost, Skip, Done
<1>3. mode = "legacy" => run' = run
  <2>1. s.status \in {"closing", "archiving", "archived_source_remaining"} => mode # "legacy"
    BY <1>1 DEF RecordCopied
  <2> QED
    BY <2>1 DEF Reconcile, Passes, Discover, Reopen, CleanRecord, Settle, Resume, SourceMissing,
                CleanRecordLost, Skip, Done, Unfinished
<1> QED
  BY <1>1, <1>2, <1>3, LockFrame DEF LockInv, ClosedIsLocked

LEMMA SurroundingLocks ==
  ASSUME Typed, CopyInv, LockInv, Surroundings
  PROVE  LockInv'
<1>1. \A r \in Runners : run'[r].step \in {"rename", "notice"} => run'[r] = run[r]
  BY IdleTask DEF Surroundings, Say, DeletedByModerator, Crash, ThreadDeleted
<1>2. UNCHANGED writable /\ source' \in {source, "deleted"}
  BY DEF Surroundings, Say, DeletedByModerator, Crash, ThreadDeleted
<1> QED
  BY <1>1, <1>2 DEF LockInv, ClosedIsLocked

-----------------------------------------------------------------------------
(* What was copied is not copied again                                     *)

\* A step of one runner while the others are idle.
LEMMA OnceFrame ==
  ASSUME Typed, Typed', Once, NEW r \in Runners,
         \A q \in Runners \ {r} : run[q].step = "idle" /\ run'[q] = run[q],
         sent <= sent', SentOnce', AnchorSent', RunOnce(r)', Exists' => FoundAgain'
  PROVE  Once'
<1>1. sent \in Nat /\ sent' \in Nat /\ \A q \in Runners : run[q].anchor \in Nat
  BY DEF Typed, Tasks
<1>2. ASSUME NEW q \in Runners \ {r} PROVE RunOnce(q)'
  <2>1. run'[q].step = "idle" /\ run'[q].anchor <= sent'
    BY <1>1, <1>2 DEF Once, RunOnce
  <2> QED
    BY <2>1 DEF RunOnce
<1>3. OneRunner'
  BY DEF OneRunner
<1> QED
  BY <1>2, <1>3 DEF Once

\* What the runs of the engine leave alone.
LEMMA EngineFrame ==
  ASSUME NEW r \in Runners, Works(r) \/ Fails(r)
  PROVE  UNCHANGED <<mode, said, list, ghosts>> /\ run[r].step # "idle"
BY DEF Works, Fails, Freeze, FreezeLost, FindAnchor, SendAnchor, AnchorLost, MakeThread,
       ThreadLost, Read, CopyIntro, CopyMessage, CopyLink, CopyComplete, PieceLost, Gone,
       Clean, CleanLost, Delete, DeleteLost, At

\* A thread whose texts do not change.
LEMMA SameTexts ==
  ASSUME Typed, Typed', SentOnce, sent' = sent, NEW a \in Anchors, a <= sent, Only(a),
         \A p \in Texts : archive'[a].posted[p] <= 1
  PROVE  SentOnce'
<1>1. \A b \in Anchors : b > sent => b # a
  BY DEF Typed, Anchors
<1> QED
  BY <1>1 DEF SentOnce, Only

\* Piece p is added to a thread, or nothing.
Adds(p) ==
    \A c \in Anchors :
        \/ archive'[c] = archive[c]
        \/ /\ archive'[c].named = archive[c].named /\ archive'[c].thread = archive[c].thread
           /\ archive'[c].marked = archive[c].marked \union {p}
           /\ \A q \in Pieces \ {p} : archive'[c].posted[q] = archive[c].posted[q]

LEMMA PostedAdds ==
  ASSUME Typed, Typed', SentOnce, sent' = sent, NEW a \in Anchors, a <= sent,
         NEW p \in Pieces, NEW n \in {1, 2}, Posts(a, p, n),
         p \in Texts => n = 1 /\ archive[a].posted[p] = 0
  PROVE  Adds(p) /\ SentOnce'
<1>1. archive \in [Anchors -> Threads] /\ n \in Nat
  BY DEF Typed
<1>2. /\ Only(a)
      /\ archive'[a].named = archive[a].named /\ archive'[a].thread = archive[a].thread
      /\ archive'[a].posted[p] = archive[a].posted[p] + n
      /\ \A q \in Pieces \ {p} : archive'[a].posted[q] = archive[a].posted[q]
      /\ archive'[a].marked = archive[a].marked \union {p}
  BY <1>1, PostedEffects
<1>3. \A q \in Texts : q \in Pieces
  BY DEF Texts, Pieces, Complete
<1>4. \A q \in Texts : archive'[a].posted[q] <= 1
  BY <1>2, <1>3 DEF SentOnce
<1> QED
  BY <1>2, <1>4, SameTexts DEF Adds, Only

LEMMA EngineOnce ==
  ASSUME Typed, CopyInv, OnceInv, NEW r \in Runners, Works(r) \/ Fails(r)
  PROVE  OnceInv'
<1> DEFINE a == run[r].anchor
<1>1. Typed' /\ Grows /\ CopyInv'
  BY EngineTypes, EngineCopies DEF Good
<1> SUFFICES ASSUME ~raced', mode' # "legacy" PROVE Once'
  BY DEF OnceInv
<1>2. Once /\ mode # "legacy" /\ list' = list /\ said' = said
  BY EngineFrame DEF OnceInv
<1>3. \A q \in Runners \ {r} : run[q].step = "idle"
  BY <1>2, EngineFrame DEF Once, OneRunner
<1>4. /\ record \in Records /\ run \in [Runners -> Tasks] /\ archive \in [Anchors -> Threads]
      /\ run[r] \in Tasks /\ a \in 0 .. MaxAnchors /\ run[r].next \in Pieces
      /\ record.anchor \in 0 .. MaxAnchors /\ record.checkpoint \in 0 .. MaxSaid
      /\ said \in 0 .. MaxSaid /\ sent \in 0 .. MaxAnchors
      /\ list \subseteq Records
  BY DEF Typed, Tasks, Records
<1>5. SentOnce /\ AnchorSent /\ RunOnce(r) /\ (Exists => FoundAgain) /\ a <= sent
      /\ record.anchor <= sent
  BY <1>2 DEF Once, RunOnce, AnchorSent
<1>6. RecordCopied(record) /\ RunCopied(r) /\ \A b \in Anchors : AnchorCopied(b)
  BY DEF CopyInv
<1>7. run[r].step \in {"thread", "read", "copy", "clean"} => a \in Anchors /\ archive[a] \in Threads
  BY <1>4, <1>6 DEF RunCopied
<1>8. ~Exists => ~Exists'
  BY <1>1 DEF Grows
<1>9. archive' = archive /\ sent' = sent => SentOnce'
  BY <1>5 DEF SentOnce
<1>10. record'.anchor <= sent' /\ sent' = sent => AnchorSent'
  BY <1>2, <1>5 DEF AnchorSent
\* A runner that stops where the channel, if it is there, can be taken up.
<1>11. ASSUME run'[r].step = "idle", run'[r].anchor = 0,
              \A q \in Runners \ {r} : run'[q] = run[q],
              sent <= sent', SentOnce', AnchorSent', Exists' => FoundAgain'
       PROVE  Once'
  <2>1. RunOnce(r)'
    BY <1>1, <1>11 DEF RunOnce, Typed
  <2> QED
    BY <1>1, <1>2, <1>3, <1>11, <2>1, OnceFrame
<1>12. FoundAgain /\ archive' = archive /\ record' = record /\ sent' = sent => FoundAgain'
  BY <1>2 DEF FoundAgain, Stored
<1> HIDE DEF a
<1>13. CASE Freeze(r)
  <2>1. "anchor" \in Steps /\ "closing" \in Status
    BY DEF Steps, Status, Closing
  <2>2. /\ record'.status = "closing" /\ record'.checkpoint = record.checkpoint
        /\ record'.anchor = record.anchor
        /\ run'[r].step = "anchor" /\ run'[r].next = run[r].next
        /\ run'[r].anchor = record.anchor
        /\ \A q \in Runners \ {r} : run'[q] = run[q]
    <3>1. /\ record'.status = "closing" /\ record'.checkpoint = record.checkpoint
          /\ record'.anchor = record.anchor
      BY <1>4, <1>13, <2>1, PersistEffects DEF Freeze
    <3>2. Moves(r, "anchor", record.anchor)
      BY <1>13 DEF Freeze, Moves
    <3> QED
      BY <1>4, <2>1, <3>1, <3>2, MoveEffects
  <2>3. FoundAgain /\ archive' = archive /\ sent' = sent
    BY <1>5, <1>13 DEF Freeze
  <2>4. FoundAgain'
    BY <1>2, <2>2, <2>3 DEF FoundAgain, Stored
  <2>5. RunOnce(r)'
    <3>1. record.anchor = 0 => \A x \in {record'} \union list' : x.anchor = 0
      BY <1>2, <2>2, <2>3 DEF FoundAgain
    <3>2. record.anchor = 0 =>
             \A b \in Anchors : ~archive'[b].thread /\ (b <= sent' => archive'[b].named)
      BY <2>3 DEF FoundAgain
    <3> QED
      BY <1>5, <2>2, <2>3, <3>1, <3>2 DEF RunOnce
  <2> QED
    BY <1>1, <1>2, <1>3, <1>4, <1>5, <1>9, <1>10, <2>2, <2>3, <2>4, <2>5, OnceFrame
<1>14. CASE FreezeLost(r)
  <2>1. /\ run'[r].step = "idle" /\ run'[r].anchor = 0
        /\ \A q \in Runners \ {r} : run'[q] = run[q]
    BY <1>14, StopEffects DEF FreezeLost
  <2> QED
    BY <1>4, <1>5, <1>8, <1>9, <1>10, <1>11, <1>12, <1>14, <2>1 DEF FreezeLost
\* The anchor message of the runner and of the record.
<1>15. ASSUME NEW b \in Anchors, WithAnchor(r, b), b <= sent', sent <= sent', SentOnce',
              \A c \in Anchors : /\ archive'[c].posted = archive[c].posted
                                 /\ archive'[c].marked = archive[c].marked,
              UNCHANGED source
       PROVE  Once'
  <2>1. "thread" \in Steps /\ "closing" \in Status /\ b \in 0 .. MaxAnchors /\ b # 0
    BY DEF Steps, Status, Closing, Anchors
  <2>2. /\ record'.status = "closing" /\ record'.checkpoint = record.checkpoint
        /\ record'.anchor = b
    BY <1>4, <1>15, <2>1, AnchorEffects DEF WithAnchor
  <2>3. /\ run'[r].step = "thread" /\ run'[r].anchor = b
        /\ \A q \in Runners \ {r} : run'[q] = run[q]
    <3>1. Moves(r, "thread", b)
      BY <1>15 DEF WithAnchor, Moves
    <3> QED
      BY <2>1, <3>1, MoveEffects
  <2>4. AnchorSent'
    <3>1. sent' \in Nat /\ \A x \in list : x.anchor \in Nat /\ x.anchor <= sent
      BY <1>1, <1>4, <1>5 DEF Typed, Records, AnchorSent
    <3> QED
      BY <1>2, <1>4, <1>15, <2>2, <3>1 DEF AnchorSent
  <2>5. Exists' => FoundAgain'
    BY <1>2, <1>5, <1>15, <2>1, <2>2 DEF FoundAgain, Stored, Exists
  <2>6. RunOnce(r)'
    BY <1>15, <2>1, <2>2, <2>3 DEF RunOnce
  <2> QED
    BY <1>1, <1>2, <1>3, <1>15, <2>3, <2>4, <2>5, <2>6, OnceFrame
<1>16. CASE FindAnchor(r)
  <2>1. run[r].step = "anchor" /\ archive' = archive /\ sent' = sent /\ source' = source
    BY <1>16 DEF FindAnchor, At
  <2>2. CASE Found(r) = {}
    <3>1. /\ run'[r].step = "send" /\ run'[r].anchor = a
          /\ \A q \in Runners \ {r} : run'[q] = run[q]
          /\ record' = record
      BY <1>16, <2>2, StepEffects DEF FindAnchor, Steps, a
    <3>2. sent = 0
      <4>1. a = 0 /\ \A b \in Anchors : ~archive[b].named
        BY <2>2 DEF Found, a
      <4>2. \A b \in Anchors : b > sent
        BY <1>4, <1>5, <2>1, <4>1 DEF RunOnce, a, Anchors
      <4> QED
        BY <1>4, <4>2 DEF Anchors
    <3>3. RunOnce(r)'
      BY <1>5, <2>1, <3>1, <3>2 DEF RunOnce
    <3> QED
      BY <1>1, <1>2, <1>3, <1>4, <1>5, <1>9, <1>10, <1>12, <2>1, <3>1, <3>3, OnceFrame DEF Exists
  <2>3. CASE Found(r) # {}
    <3>1. PICK b \in Found(r) : WithAnchor(r, b)
      BY <1>16, <2>3 DEF FindAnchor
    <3>2. b \in Anchors /\ b <= sent
      <4>1. CASE a # 0
        BY <1>4, <1>5, <4>1 DEF Found, a, Anchors
      <4>2. CASE a = 0
        <5>1. b \in Anchors /\ archive[b].named
          BY <4>2 DEF Found, a
        <5>2. ~(b > sent)
          BY <1>5, <5>1 DEF SentOnce, Untold
        <5> QED
          BY <1>4, <5>1, <5>2 DEF Anchors
      <4> QED
        BY <4>1, <4>2
    <3> QED
      BY <1>4, <1>9, <1>15, <2>1, <3>1, <3>2
  <2> QED
    BY <2>2, <2>3
<1>17. ASSUME NewAnchor, sent = 0
       PROVE  /\ sent' = 1 /\ 1 \in Anchors /\ SentOnce'
              /\ \A c \in Anchors : /\ archive'[c].posted = archive[c].posted
                                    /\ archive'[c].marked = archive[c].marked
                                    /\ archive'[c].thread = archive[c].thread
              /\ archive'[1].named
  <2>1. sent' = 1 /\ 1 \in Anchors
    BY <1>4, <1>17 DEF NewAnchor, Anchors
  <2>2. /\ Only(1) /\ archive'[1].posted = archive[1].posted
        /\ archive'[1].marked = archive[1].marked /\ archive'[1].thread = archive[1].thread
        /\ archive'[1].named = TRUE
    <3>1. archive' = [archive EXCEPT ![1].named = TRUE]
      BY <1>17 DEF NewAnchor
    <3> QED
      BY <1>4, <2>1, <3>1, NameEffects
  <2>3. \A c \in Anchors : c > 1 => c # 1 /\ c > sent
    BY <1>17 DEF Anchors
  <2> QED
    BY <1>5, <2>1, <2>2, <2>3 DEF Only, SentOnce
<1>18. CASE SendAnchor(r)
  <2>1. sent = 0 /\ NewAnchor /\ source' = source
    BY <1>5, <1>18 DEF SendAnchor, At, RunOnce
  <2>2. WithAnchor(r, 1)
    BY <1>18, <2>1 DEF SendAnchor
  <2> QED
    BY <1>15, <1>17, <2>1, <2>2
<1>19. CASE AnchorLost(r)
  <2>1. /\ run'[r].step = "idle" /\ run'[r].anchor = 0
        /\ \A q \in Runners \ {r} : run'[q] = run[q]
    BY <1>19, StopEffects DEF AnchorLost
  <2>2. sent = 0 /\ record' = record /\ source' = source
    BY <1>5, <1>19 DEF AnchorLost, At, RunOnce
  <2>3. CASE UNCHANGED <<sent, archive>>
    BY <1>4, <1>5, <1>9, <1>10, <1>11, <1>12, <2>1, <2>2, <2>3 DEF Exists
  <2>4. CASE NewAnchor
    <3>1. AnchorSent'
      <4>1. \A x \in {record} \union list : x.anchor \in Nat /\ x.anchor <= 0
        BY <1>4, <1>5, <2>2 DEF Records, AnchorSent
      <4> QED
        BY <1>2, <1>17, <2>2, <2>4, <4>1 DEF AnchorSent
    <3>2. Exists' => FoundAgain'
      <4>1. \A c \in Anchors : c <= 1 => c = 1
        BY DEF Anchors
      <4> QED
        BY <1>2, <1>5, <1>17, <2>2, <2>4, <4>1 DEF FoundAgain, Stored, Exists
    <3> QED
      BY <1>11, <1>17, <2>1, <2>2, <2>4, <3>1, <3>2
  <2> QED
    BY <1>19, <2>3, <2>4 DEF AnchorLost
<1>20. ASSUME a \in Anchors, archive' = [archive EXCEPT ![a].thread = TRUE], sent' = sent
       PROVE  /\ SentOnce'
              /\ \A c \in Anchors : /\ archive'[c].posted = archive[c].posted
                                    /\ archive'[c].marked = archive[c].marked
  <2>1. /\ Only(a) /\ archive'[a].posted = archive[a].posted
        /\ archive'[a].marked = archive[a].marked
    BY <1>4, <1>20, ThreadEffects
  <2>2. \A p \in Texts : archive'[a].posted[p] <= 1
    BY <1>5, <1>20, <2>1 DEF SentOnce
  <2> QED
    BY <1>1, <1>5, <1>20, <2>1, <2>2, SameTexts DEF Only
<1>21. CASE MakeThread(r)
  <2>1. /\ a \in Anchors /\ a # 0 /\ sent' = sent /\ source' = source
        /\ archive' = [archive EXCEPT ![a].thread = TRUE]
    BY <1>7, <1>21 DEF MakeThread, At, a, Anchors
  <2>2. /\ record'.status = "archiving" /\ record'.checkpoint = record.checkpoint
        /\ record'.anchor = a
    BY <1>4, <1>21, AnchorEffects DEF MakeThread, a, Status, Closing
  <2>3. /\ run'[r].step = "read" /\ run'[r].anchor = a
        /\ \A q \in Runners \ {r} : run'[q] = run[q]
    BY <1>4, <1>21, StepEffects DEF MakeThread, a, Steps
  <2>4. Exists' => FoundAgain'
    BY <1>2, <1>5, <1>20, <2>1, <2>2 DEF FoundAgain, Stored, Exists
  <2>5. RunOnce(r)'
    BY <1>4, <1>5, <2>1, <2>2, <2>3 DEF RunOnce
  <2> QED
    BY <1>1, <1>2, <1>3, <1>4, <1>5, <1>10, <1>20, <2>1, <2>2, <2>3, <2>4, <2>5, OnceFrame
<1>22. CASE ThreadLost(r)
  <2>1. /\ run'[r].step = "idle" /\ run'[r].anchor = 0
        /\ \A q \in Runners \ {r} : run'[q] = run[q]
    BY <1>22, StopEffects DEF ThreadLost
  <2>2. /\ a \in Anchors /\ record' = record /\ sent' = sent /\ source' = source
        /\ run[r].step = "thread"
    BY <1>7, <1>22 DEF ThreadLost, At
  <2>3. CASE archive' = archive
    BY <1>4, <1>5, <1>9, <1>10, <1>11, <1>12, <2>1, <2>2, <2>3 DEF Exists
  <2>4. CASE archive' = [archive EXCEPT ![a].thread = TRUE]
    <3>1. Exists => record.anchor # 0
      BY <1>5, <2>2 DEF RunOnce
    <3>2. Exists' => FoundAgain'
      BY <1>2, <1>5, <1>20, <2>2, <2>4, <3>1 DEF FoundAgain, Stored, Exists
    <3> QED
      BY <1>4, <1>5, <1>10, <1>11, <1>20, <2>1, <2>2, <2>4, <3>2
  <2> QED
    BY <1>22, <2>3, <2>4 DEF ThreadLost, a
<1>23. CASE Read(r)
  <2>1. /\ run[r].step = "read" /\ a \in Anchors /\ run[r].next = 0
        /\ archive' = archive /\ sent' = sent /\ source' = source
    BY <1>6, <1>7, <1>23 DEF Read, At, RunCopied
  <2>2. Exists => record.anchor # 0
    BY <1>5, <2>1 DEF RunOnce
  <2>3. CASE Complete \in archive[a].marked
    <3>1. Persist("archived_source_remaining") /\ Step(r, "clean")
      BY <1>23, <2>3 DEF Read, a
    <3>2. /\ record'.status = "archived_source_remaining" /\ record'.anchor = record.anchor
          /\ record'.checkpoint = record.checkpoint
      BY <1>4, <3>1, PersistEffects DEF Status, Closing
    <3>3. /\ run'[r].step = "clean" /\ run'[r].anchor = a
          /\ \A q \in Runners \ {r} : run'[q] = run[q]
      BY <3>1, StepEffects DEF Steps, a
    <3>4. Exists => Stored /\ FoundAgain
      BY <1>5, <2>1, <2>3 DEF FoundAgain
    <3>5. Exists' => FoundAgain'
      BY <1>2, <2>1, <3>2, <3>4 DEF FoundAgain, Stored, Exists
    <3>6. RunOnce(r)'
      BY <1>2, <1>5, <2>1, <2>2, <3>2, <3>3, <3>4 DEF RunOnce, Stored, Exists
    <3> QED
      BY <1>1, <1>2, <1>3, <1>4, <1>5, <1>9, <1>10, <2>1, <3>2, <3>3, <3>5, <3>6, OnceFrame
  <2>4. CASE Complete \notin archive[a].marked
    <3>1. Go(r, [run[r] EXCEPT !.step = "copy", !.seen = archive[a].marked]) /\ record' = record
      BY <1>23, <2>4 DEF Read, a
    <3>2. archive[a].marked \in SUBSET Pieces
      BY <1>7, <2>1 DEF Threads
    <3>3. /\ run'[r].step = "copy" /\ run'[r].anchor = a /\ run'[r].next = 0
          /\ run'[r].seen = archive[a].marked
          /\ \A q \in Runners \ {r} : run'[q] = run[q]
      BY <2>1, <3>1, <3>2, SeenEffects DEF a
    <3>4. Exists => \A p \in Texts : archive[a].posted[p] > 0
                       => p \in archive[a].marked \/ p <= record.checkpoint
      BY <1>5, <2>1 DEF FoundAgain
    <3>5. RunOnce(r)'
      BY <1>5, <2>1, <2>2, <3>1, <3>3, <3>4 DEF RunOnce, Exists, Complete
    <3> QED
      BY <1>1, <1>2, <1>3, <1>4, <1>5, <1>9, <1>10, <1>12, <2>1, <3>1, <3>3, <3>5, OnceFrame
         DEF Exists
  <2> QED
    BY <2>3, <2>4
\* A piece is posted unless it was seen.
<1>24. ASSUME NEW p \in Pieces, PostOnce(r, p), run[r].step = "copy", sent' = sent,
              p \in Texts => p = run[r].next
       PROVE  Adds(p) /\ SentOnce'
  <2>1. PICK c \in Anchors : c = a
    BY <1>7, <1>24
  <2>2. CASE p \in run[r].seen
    BY <1>9, <1>24, <2>2 DEF PostOnce, Adds
  <2>3. CASE p \notin run[r].seen
    <3>1. Posts(c, p, 1)
      BY <1>24, <2>1, <2>3 DEF PostOnce, Post, Posts, a
    <3>2. p \in Texts => archive[c].posted[p] = 0
      <4>1. p \in Texts => p \in 1 .. MaxSaid /\ ~(archive[c].posted[p] > 0)
        BY <1>5, <1>24, <2>1, <2>3 DEF RunOnce, Texts, a
      <4>2. archive[c].posted[p] \in Nat
        BY <1>4 DEF Threads
      <4> QED
        BY <4>1, <4>2
    <3> QED
      BY <1>1, <1>5, <1>24, <2>1, <3>1, <3>2, PostedAdds
  <2> QED
    BY <2>2, <2>3
<1>25. \A p \in Texts : p \in Pieces /\ p # 0 /\ p # Complete /\ p \in 1 .. MaxSaid
  BY DEF Texts, Pieces, Complete
<1>26. CASE CopyIntro(r)
  <2>1. /\ run[r].step = "copy" /\ a \in Anchors /\ run[r].next = 0 /\ 0 \in Pieces
        /\ sent' = sent /\ source' = source /\ record' = record /\ Complete # 0
    BY <1>7, <1>26 DEF CopyIntro, At, Pieces, Complete
  <2>2. Adds(0) /\ SentOnce'
    BY <1>24, <1>25, <1>26, <2>1 DEF CopyIntro
  <2>3. Exists' => FoundAgain'
    <3>1. \A c \in Anchors : /\ archive'[c].named = archive[c].named
                             /\ archive'[c].thread = archive[c].thread
                             /\ \A p \in Texts : /\ archive'[c].posted[p] = archive[c].posted[p]
                                                 /\ p \in archive[c].marked => p \in archive'[c].marked
                             /\ Complete \in archive'[c].marked => Complete \in archive[c].marked
      BY <1>25, <2>1, <2>2 DEF Adds
    <3> QED
      BY <1>2, <1>5, <2>1, <3>1 DEF FoundAgain, Stored, Exists
  <2>4. CASE Exists
    <3> DEFINE n == Following(record.checkpoint)
    <3>1. /\ n \in Pieces
          /\ n \in 1 .. MaxSaid => record.checkpoint = n - 1
          /\ n \notin 1 .. MaxSaid => n = Complete /\ record.checkpoint >= said
      BY <1>4 DEF Following, Pieces, Complete
    <3>2. Go(r, [run[r] EXCEPT !.next = n])
      BY <1>26, <2>4 DEF CopyIntro
    <3>7. n = Complete => n \notin 1 .. MaxSaid
      BY DEF Complete
    <3> HIDE DEF n
    <3>3. /\ run'[r].step = "copy" /\ run'[r].anchor = a /\ run'[r].next = n
          /\ run'[r].seen = run[r].seen
          /\ \A q \in Runners \ {r} : run'[q] = run[q]
      BY <2>1, <3>1, <3>2, NextEffects DEF a
    <3>4. n \in 1 .. MaxSaid =>
             \A p \in Texts : p >= n /\ archive'[a].posted[p] > 0 => p \in run[r].seen
      <4>1. \A p \in Texts : archive'[a].posted[p] = archive[a].posted[p]
        BY <1>25, <2>1, <2>2 DEF Adds
      <4>2. \A p \in Texts : archive[a].posted[p] > 0 => p \in run[r].seen \/ p <= record.checkpoint
        BY <1>5, <2>1, <2>4 DEF RunOnce, a
      <4> QED
        BY <1>4, <1>25, <3>1, <4>1, <4>2
    <3>5. Exists => record.anchor # 0
      BY <1>5, <2>1 DEF RunOnce
    <3>6. RunOnce(r)'
      <4>1. n # 0
        BY <3>1, <2>1
      <4> QED
        BY <1>2, <1>5, <2>1, <3>1, <3>3, <3>4, <3>5, <3>7, <4>1 DEF RunOnce, Stored, Exists
    <3> QED
      BY <1>1, <1>2, <1>3, <1>4, <1>5, <1>10, <2>1, <2>2, <2>3, <3>3, <3>6, OnceFrame
  <2>5. CASE ~Exists
    <3>1. /\ run'[r].step = "idle" /\ run'[r].anchor = 0
          /\ \A q \in Runners \ {r} : run'[q] = run[q]
      BY <1>26, <2>5, StopEffects DEF CopyIntro
    <3> QED
      BY <1>4, <1>5, <1>10, <1>11, <2>1, <2>2, <2>3, <3>1
  <2> QED
    BY <2>4, <2>5
\* The message p, and the progress after it.
<1>27. ASSUME NEW p \in 1 .. MaxSaid, p = run[r].next, run[r].step = "copy", p \in Pieces,
              Adds(p), SentOnce', p <= said,
              record' = [record EXCEPT !.status = "archiving", !.checkpoint = p],
              Go(r, [run[r] EXCEPT !.next = Following(p)]),
              sent' = sent, source' = source
       PROVE  Once'
  <2> DEFINE n == Following(p)
  <2>1. /\ n \in Pieces /\ n # 0
        /\ n \in 1 .. MaxSaid => n = p + 1
        /\ n \notin 1 .. MaxSaid => p >= said
        /\ n = Complete => n \notin 1 .. MaxSaid
        /\ p # Complete
    BY <1>4, <1>27 DEF Following, Pieces, Complete
  <2> HIDE DEF n
  <2>2. a \in Anchors /\ (Exists => record.anchor # 0 /\ record.checkpoint = p - 1)
    BY <1>5, <1>7, <1>27 DEF RunOnce
  <2>3. /\ run'[r].step = "copy" /\ run'[r].anchor = a /\ run'[r].next = n
        /\ run'[r].seen = run[r].seen
        /\ \A q \in Runners \ {r} : run'[q] = run[q]
    BY <1>27, <2>1, NextEffects DEF a, n
  <2>4. record'.status = "archiving" /\ record'.checkpoint = p /\ record'.anchor = record.anchor
    BY <1>4, <1>27, ProgressEffects
  <2>5. Exists => (Stored => p >= said)
    BY <1>4, <2>2 DEF Stored
  <2>6. \A c \in Anchors, q \in Texts :
           q = p \/ /\ archive'[c].posted[q] = archive[c].posted[q]
                    /\ q \in archive[c].marked => q \in archive'[c].marked
    BY <1>25, <1>27 DEF Adds
  <2>7. ASSUME Exists' PROVE FoundAgain'
    <3>1. FoundAgain /\ record.anchor # 0 /\ record.checkpoint = p - 1
      BY <1>5, <1>8, <1>27, <2>2, <2>7
    <3>2. \A c \in Anchors, q \in Texts :
             archive'[c].posted[q] > 0 => q \in archive'[c].marked \/ q <= p
      BY <1>4, <1>25, <2>6, <3>1 DEF FoundAgain
    <3>3. \A c \in Anchors : Complete \in archive'[c].marked => Complete \in archive[c].marked
      BY <1>27, <2>1 DEF Adds
    <3>4. Stored => Stored'
      BY <1>2, <1>8, <1>27, <2>4, <2>5, <2>7 DEF Stored
    <3> QED
      BY <1>2, <2>4, <3>1, <3>2, <3>3, <3>4 DEF FoundAgain
  <2>8. n \in 1 .. MaxSaid =>
           \A q \in Texts : q >= n /\ archive'[a].posted[q] > 0 => q \in run[r].seen
    <3>1. \A q \in Texts : q >= p /\ archive[a].posted[q] > 0 => q \in run[r].seen
      BY <1>5, <1>27 DEF RunOnce, a
    <3> QED
      BY <1>25, <2>1, <2>2, <2>6, <3>1
  <2>9. RunOnce(r)'
    <3>1. n \in 1 .. MaxSaid => p = n - 1
      BY <2>1
    <3> QED
      BY <1>2, <1>5, <1>8, <1>27, <2>1, <2>2, <2>3, <2>4, <2>8, <3>1 DEF RunOnce, Stored
  <2> QED
    BY <1>1, <1>2, <1>3, <1>4, <1>5, <1>10, <1>27, <2>3, <2>4, <2>7, <2>9, OnceFrame
<1>28. CASE CopyMessage(r)
  <2>1. PICK p \in 1 .. MaxSaid : p = run[r].next
    BY <1>28 DEF CopyMessage
  <2>2. p \in Pieces /\ run[r].step = "copy" /\ p <= said /\ sent' = sent /\ source' = source
    BY <1>4, <1>6, <1>28, <2>1 DEF CopyMessage, At, RunCopied, Pieces, Complete
  <2>3. Adds(p) /\ SentOnce'
    BY <1>24, <1>28, <2>1, <2>2 DEF CopyMessage
  <2> QED
    BY <1>27, <1>28, <2>1, <2>2, <2>3 DEF CopyMessage
<1>29. CASE CopyLink(r)
  <2>1. PICK p \in 1 .. MaxSaid : p = run[r].next
    BY <1>29 DEF CopyLink
  <2>2. /\ p \in Pieces /\ run[r].step = "copy" /\ p <= said /\ sent' = sent /\ source' = source
        /\ p \notin Texts
    BY <1>4, <1>6, <1>29, <2>1 DEF CopyLink, At, RunCopied, Pieces, Complete, Texts
  <2>3. PICK n \in {1, 2} : Posts(a, p, n)
    BY <1>29, <2>1 DEF CopyLink, Posts, a
  <2>4. PICK c \in Anchors : c = a
    BY <1>7, <2>2
  <2>5. Adds(p) /\ SentOnce'
    <3>1. Posts(c, p, n) /\ c <= sent
      BY <1>5, <2>3, <2>4
    <3> QED
      BY <1>1, <1>5, <2>2, <3>1, PostedAdds
  <2> QED
    BY <1>27, <1>29, <2>1, <2>2, <2>5 DEF CopyLink
<1>30. CASE CopyComplete(r)
  <2>1. /\ run[r].step = "copy" /\ a \in Anchors /\ run[r].next = Complete /\ Complete \in Pieces
        /\ sent' = sent /\ source' = source
    BY <1>7, <1>30 DEF CopyComplete, At, Pieces, Complete
  <2>2. Exists => Stored /\ record.anchor # 0
    BY <1>5, <2>1 DEF RunOnce
  <2>3. Adds(Complete) /\ SentOnce'
    BY <1>24, <1>25, <1>30, <2>1 DEF CopyComplete
  <2>4. /\ record'.status = "archived_source_remaining" /\ record'.anchor = record.anchor
        /\ record'.checkpoint = record.checkpoint
    BY <1>4, <1>30, PersistEffects DEF CopyComplete, Status, Closing
  <2>5. /\ run'[r].step = "clean" /\ run'[r].anchor = a
        /\ \A q \in Runners \ {r} : run'[q] = run[q]
    BY <1>30, StepEffects DEF CopyComplete, Steps, a
  <2>6. Exists' => FoundAgain'
    <3>1. \A c \in Anchors, q \in Texts :
             /\ archive'[c].posted[q] = archive[c].posted[q]
             /\ q \in archive[c].marked => q \in archive'[c].marked
      BY <1>25, <2>3 DEF Adds
    <3> QED
      BY <1>2, <1>5, <2>1, <2>2, <2>4, <3>1 DEF FoundAgain, Stored, Exists
  <2>7. RunOnce(r)'
    BY <1>2, <1>5, <2>1, <2>2, <2>4, <2>5 DEF RunOnce, Stored, Exists
  <2> QED
    BY <1>1, <1>2, <1>3, <1>4, <1>5, <1>10, <2>1, <2>3, <2>4, <2>5, <2>6, <2>7, OnceFrame
<1>31. CASE PieceLost(r)
  <2>1. /\ run'[r].step = "idle" /\ run'[r].anchor = 0
        /\ \A q \in Runners \ {r} : run'[q] = run[q]
    BY <1>31, StopEffects DEF PieceLost
  <2>2. PICK p \in Pieces : p = run[r].next
    BY <1>4
  <2>3. /\ run[r].step = "copy" /\ record' = record /\ sent' = sent /\ source' = source
    BY <1>31 DEF PieceLost, At
  <2>4. CASE archive' = archive
    BY <1>4, <1>5, <1>9, <1>10, <1>11, <1>12, <2>1, <2>3, <2>4 DEF Exists
  <2>5. CASE PostOnce(r, p)
    <3>1. Adds(p) /\ SentOnce'
      BY <1>24, <2>2, <2>3, <2>5
    <3>2. \A c \in Anchors, q \in Texts :
             \/ archive'[c].posted[q] = archive[c].posted[q]
                   /\ (q \in archive[c].marked => q \in archive'[c].marked)
             \/ q \in archive'[c].marked
      BY <1>25, <3>1 DEF Adds
    <3>3. \A c \in Anchors : /\ archive'[c].named = archive[c].named
                             /\ archive'[c].thread = archive[c].thread
                             /\ Complete \in archive'[c].marked =>
                                   Complete \in archive[c].marked \/ p = Complete
      BY <3>1 DEF Adds
    <3>4. Exists => (p = Complete => Stored)
      BY <1>5, <2>2, <2>3 DEF RunOnce
    <3>5. Exists' => FoundAgain'
      BY <1>2, <1>5, <2>3, <3>2, <3>3, <3>4 DEF FoundAgain, Stored, Exists
    <3> QED
      BY <1>4, <1>5, <1>10, <1>11, <2>1, <2>3, <3>1, <3>5
  <2> QED
    BY <1>31, <2>2, <2>4, <2>5 DEF PieceLost
<1>32. CASE Gone(r)
  <2>1. /\ run'[r].step = "idle" /\ run'[r].anchor = 0
        /\ \A q \in Runners \ {r} : run'[q] = run[q]
    BY <1>32, StopEffects DEF Gone
  <2> QED
    BY <1>4, <1>5, <1>8, <1>9, <1>10, <1>11, <1>12, <1>32, <2>1 DEF Gone
\* Markers are removed from a complete thread.
<1>33. ASSUME NEW left \in SUBSET archive[a].marked, archive' = Stripped(a, left),
              run[r].step = "clean", record'.anchor = record.anchor,
              record'.checkpoint = record.checkpoint,
              sent' = sent, source' = source,
              run'[r].step = "delete", run'[r].anchor = a,
              \A q \in Runners \ {r} : run'[q] = run[q]
       PROVE  Once'
  <2>1. a \in Anchors /\ (Exists => Stored /\ record.anchor # 0)
    BY <1>5, <1>7, <1>33 DEF RunOnce
  <2>2. Only(a) /\ archive'[a].posted = archive[a].posted /\ archive'[a].marked = left
    BY <1>4, <1>33, <2>1, StrippedEffects
  <2>3. SentOnce'
    <3>1. \A p \in Texts : archive'[a].posted[p] <= 1
      BY <1>5, <2>1, <2>2 DEF SentOnce
    <3> QED
      BY <1>1, <1>5, <1>33, <2>1, <2>2, <3>1, SameTexts
  <2>4. \A c \in Anchors : /\ archive'[c].posted = archive[c].posted
                           /\ archive'[c].marked \subseteq archive[c].marked
    BY <1>33, <2>2 DEF Only
  <2>5. ASSUME Exists' PROVE FoundAgain'
    <3>1. Stored /\ Stored' /\ record'.anchor # 0 /\ FoundAgain
      BY <1>2, <1>5, <1>8, <1>33, <2>1, <2>5 DEF Stored
    <3>2. \A c \in Anchors, p \in Texts : archive'[c].posted[p] > 0 => p <= record'.checkpoint
      BY <1>4, <1>6, <1>25, <1>33, <2>4, <3>1 DEF AnchorCopied, Stored
    <3> QED
      BY <1>2, <3>1, <3>2 DEF FoundAgain
  <2>6. RunOnce(r)'
    BY <1>2, <1>5, <1>8, <1>33, <2>1 DEF RunOnce, Stored
  <2> QED
    BY <1>1, <1>2, <1>3, <1>4, <1>5, <1>10, <1>33, <2>3, <2>5, <2>6, OnceFrame
<1>34. CASE Clean(r)
  <2>1. record'.anchor = record.anchor /\ record'.checkpoint = record.checkpoint
    BY <1>4, <1>34 DEF Clean, Records
  <2>2. /\ run'[r].step = "delete" /\ run'[r].anchor = a
        /\ \A q \in Runners \ {r} : run'[q] = run[q]
    BY <1>34, StepEffects DEF Clean, Steps, a
  <2> QED
    BY <1>33, <1>34, <2>1, <2>2 DEF Clean, At, a
<1>35. CASE CleanLost(r)
  <2>1. /\ run'[r].step = "delete" /\ run'[r].anchor = a
        /\ \A q \in Runners \ {r} : run'[q] = run[q]
    BY <1>35, StepEffects DEF CleanLost, Steps, a
  <2> QED
    BY <1>33, <1>35, <2>1 DEF CleanLost, At, a
<1>36. CASE Delete(r)
  <2>1. /\ run'[r].step = "idle" /\ run'[r].anchor = 0
        /\ \A q \in Runners \ {r} : run'[q] = run[q]
    BY <1>36, StopEffects DEF Delete
  <2>2. record'.anchor = record.anchor
    BY <1>4, <1>36, PersistEffects DEF Delete, Status, Closing
  <2>3. ~Exists'
    BY <1>36 DEF Delete, Exists
  <2> QED
    BY <1>4, <1>5, <1>9, <1>10, <1>11, <1>36, <2>1, <2>2, <2>3 DEF Delete
<1>37. CASE DeleteLost(r)
  <2>1. /\ run'[r].step = "idle" /\ run'[r].anchor = 0
        /\ \A q \in Runners \ {r} : run'[q] = run[q]
    BY <1>37, StopEffects DEF DeleteLost
  <2>2. /\ record'.status = "archived_source_remaining" /\ record'.anchor = record.anchor
        /\ record'.checkpoint = record.checkpoint
    BY <1>4, <1>37, PersistEffects DEF DeleteLost, Status, Closing
  <2>3. Stored /\ FoundAgain /\ archive' = archive /\ sent' = sent
    BY <1>5, <1>37 DEF DeleteLost, At, RunOnce
  <2>4. FoundAgain'
    BY <1>2, <2>2, <2>3 DEF FoundAgain, Stored
  <2> QED
    BY <1>4, <1>5, <1>9, <1>10, <1>11, <2>1, <2>2, <2>3, <2>4
<1> QED
  BY <1>13, <1>14, <1>16, <1>18, <1>19, <1>21, <1>22, <1>23, <1>26, <1>28, <1>29, <1>30, <1>31,
     <1>32, <1>34, <1>35, <1>36, <1>37 DEF Works, Fails

\* A step in which nothing is copied and no runner moves.
LEMMA QuietOnce ==
  ASSUME Typed, Typed', Once, UNCHANGED <<run, sent, archive, said>>,
         record'.anchor = record.anchor, record'.checkpoint = record.checkpoint,
         \A x \in list' : x \in list \/ x = record,
         Exists' => Exists,
         Exists' /\ record'.status \in {"archived_source_remaining", "closed"}
            => record.status \in {"archived_source_remaining", "closed"}
  PROVE  Once'
<1>1. SentOnce' /\ OneRunner'
  BY DEF Once, SentOnce, OneRunner
<1>2. AnchorSent'
  BY DEF Once, AnchorSent
<1>3. Exists' => FoundAgain'
  BY DEF Once, FoundAgain, Stored
<1>4. ASSUME NEW r \in Runners PROVE RunOnce(r)'
  <2>1. (\A x \in {record} \union list : x.anchor = 0)
           => \A x \in {record'} \union list' : x.anchor = 0
    OBVIOUS
  <2> QED
    BY <2>1 DEF Once, RunOnce, Stored
<1> QED
  BY <1>1, <1>2, <1>3, <1>4 DEF Once

\* A runner takes up the archive.
LEMMA EnterOnce ==
  ASSUME Typed, Typed', Once, NEW r \in Runners, NEW step \in {"freeze", "delete"},
         Enter(r, step), ~raced',
         UNCHANGED <<sent, archive, said, source>>,
         record'.anchor = record.anchor, record'.checkpoint = record.checkpoint,
         record'.status = record.status \/ record'.status = "closing",
         list' \subseteq list,
         step = "delete" /\ Exists => Stored
  PROVE  Once'
<1>1. /\ run'[r].step = step /\ run'[r].anchor = 0
      /\ \A q \in Runners \ {r} : run'[q] = run[q] /\ run[q].step = "idle"
  BY EnterEffects DEF Steps
<1>2. SentOnce' /\ AnchorSent'
  BY DEF Once, SentOnce, AnchorSent
<1>3. Exists' => FoundAgain'
  BY DEF Once, FoundAgain, Stored, Exists
<1>4. RunOnce(r)'
  BY <1>1 DEF Typed, RunOnce, Stored, Exists
<1>5. sent \in Nat
  BY DEF Typed
<1> QED
  BY <1>1, <1>2, <1>3, <1>4, <1>5, OnceFrame

LEMMA CloseOnce ==
  ASSUME Typed, CopyInv, OnceInv, CloseClick
  PROVE  OnceInv'
<1>1. Typed' /\ mode' = mode /\ Button \in Runners
  BY CloseTypes DEF Good, Grows, Runners
<1> SUFFICES ASSUME ~raced', mode' # "legacy" PROVE Once'
  BY DEF OnceInv
<1>2. Close
  <2>1. run[Button].step \notin {"rename", "notice"}
    BY <1>1 DEF CopyInv, RunCopied
  <2> QED
    BY <1>1, <2>1 DEF CloseClick, Revoke, RevokeLost, Rename, RenameLost, Notice, NoticeLost, At
<1>3. Enter(Button, "freeze") /\ UNCHANGED <<sent, archive, said, source, list>>
  BY <1>2 DEF Close
<1>4. ~raced /\ Once
  BY <1>1, <1>3, EnterEffects DEF Steps, OnceInv
<1>5. /\ record'.status = "closing" /\ record'.anchor = record.anchor
      /\ record'.checkpoint = record.checkpoint
  BY <1>2, PersistEffects DEF Close, Typed, Status, Closing
<1> QED
  BY <1>1, <1>3, <1>4, <1>5, EnterOnce

LEMMA ListOnce ==
  ASSUME Typed, OnceInv, ListTickets
  PROVE  OnceInv'
<1>1. Typed' /\ mode' = mode
  BY ListTypes DEF Good, Grows
<1> SUFFICES ASSUME ~raced', mode' # "legacy" PROVE Once'
  BY DEF OnceInv
<1>2. Once /\ UNCHANGED <<run, sent, archive, said, source, record>> /\ list' = {record}
  BY DEF OnceInv, ListTickets
<1>3. SentOnce' /\ OneRunner' /\ AnchorSent'
  BY <1>2 DEF Once, SentOnce, OneRunner, AnchorSent
<1>4. Exists' => FoundAgain'
  BY <1>2 DEF Once, FoundAgain, Stored, Exists
<1>5. ASSUME NEW r \in Runners PROVE RunOnce(r)'
  BY <1>2 DEF Once, RunOnce, Stored, Exists
<1> QED
  BY <1>3, <1>4, <1>5 DEF Once

\* The markers of a thread are removed by a record that was listed.
LEMMA StrippedOnce ==
  ASSUME Typed, Typed', CopyInv, Once, NEW a \in Anchors, a <= sent,
         NEW left \in SUBSET archive[a].marked, archive' = Stripped(a, left), sent' = sent
  PROVE  /\ SentOnce'
         /\ \A c \in Anchors : /\ archive'[c].thread = archive[c].thread
                               /\ archive'[c].posted = archive[c].posted
                               /\ archive'[c].marked \subseteq archive[c].marked
         /\ \A c \in Anchors, p \in Texts : archive'[c].posted[p] > 0 => p <= said
<1>1. /\ Only(a) /\ archive'[a].posted = archive[a].posted /\ archive'[a].marked = left
      /\ archive'[a].thread = archive[a].thread
  BY StrippedEffects DEF Typed
<1>2. \A p \in Texts : archive'[a].posted[p] <= 1
  BY <1>1 DEF Once, SentOnce
<1>3. SentOnce'
  BY <1>1, <1>2, SameTexts DEF Once
<1>4. \A c \in Anchors, p \in Texts : archive[c].posted[p] > 0 => p <= said
  BY DEF CopyInv, AnchorCopied, Texts
<1> QED
  BY <1>1, <1>3, <1>4 DEF Only

LEMMA ReconcileOnce ==
  ASSUME Typed, CopyInv, OnceInv, NEW s \in list, Reconcile(s) \/ Passes(s)
  PROVE  OnceInv'
<1>1. Typed' /\ mode' = mode /\ said' = said /\ CopyInv' /\ Sweep \in Runners
  BY ReconcileTypes, ReconcileCopies DEF Good, Grows, Runners
<1> SUFFICES ASSUME ~raced', mode' # "legacy" PROVE Once'
  BY DEF OnceInv
<1>2. raced => raced'
  <2>1. raced \in BOOLEAN
    BY DEF Typed
  <2> QED
    BY <2>1 DEF Reconcile, Passes, Discover, Reopen, CleanRecord, Settle, Resume, SourceMissing,
                CleanRecordLost, Skip, Done, Enter
<1>3. Once /\ mode # "legacy" /\ source' = source /\ sent' = sent
  <2>1. source' = source /\ sent' = sent
    BY DEF Reconcile, Passes, Discover, Reopen, CleanRecord, Settle, Resume, SourceMissing,
           CleanRecordLost, Skip, Done
  <2> QED
    BY <1>1, <1>2, <2>1 DEF OnceInv
<1>4. /\ record \in Records /\ s \in Records /\ RecordCopied(s) /\ RecordCopied(record)
      /\ s.anchor \in 0 .. MaxAnchors /\ s.anchor <= sent /\ sent \in Nat
      /\ s.checkpoint \in 0 .. MaxSaid /\ said \in 0 .. MaxSaid
      /\ record.checkpoint \in 0 .. MaxSaid
  BY <1>3 DEF Typed, Records, CopyInv, Once, AnchorSent
<1>5. Exists' <=> Exists
  BY <1>3 DEF Exists
<1>6. ASSUME NEW status \in {"open", "missing", "archive_incomplete_source_missing"},
             Persist(status), UNCHANGED <<run, archive>>, list' = {}
      PROVE  Once'
  <2>1. /\ record'.status = status /\ record'.anchor = record.anchor
        /\ record'.checkpoint = record.checkpoint
    BY <1>4, <1>6, PersistEffects DEF Status, Closing
  <2> QED
    BY <1>1, <1>3, <1>5, <1>6, <2>1, QuietOnce
\* With a listed anchor and record, nobody looks for the anchor message.
<1>7. ASSUME NEW r \in Runners, s.anchor # 0
      PROVE  ~(run[r].step = "anchor" /\ run[r].anchor = 0)
  BY <1>3, <1>7 DEF Once, RunOnce
<1>8. ASSUME s.status \in {"archived_source_remaining", "closed"}, Exists
      PROVE  Stored /\ s.checkpoint >= said /\ (s.anchor # 0 => record.anchor # 0)
  BY <1>3, <1>8 DEF Once, FoundAgain
\* The copy is complete, so nobody is in the middle of it.
<1>9. ASSUME NEW r \in Runners, Stored, Exists
      PROVE  ~(run[r].step = "copy" /\ run[r].next \in 1 .. MaxSaid)
  <2>1. run[r].step = "copy" /\ run[r].next \in 1 .. MaxSaid =>
           run[r].next <= said /\ record.checkpoint = run[r].next - 1
    BY <1>3, <1>9 DEF Once, RunOnce, CopyInv, RunCopied
  <2> QED
    BY <1>4, <1>9, <2>1 DEF Stored
<1>10. /\ [s EXCEPT !.clean = TRUE] \in Records
       /\ [s EXCEPT !.clean = TRUE].status = s.status
       /\ [s EXCEPT !.clean = TRUE].checkpoint = s.checkpoint
       /\ [s EXCEPT !.clean = TRUE].anchor = s.anchor
  BY <1>4 DEF Records
\* What is cleaned up for a listed record, which may be written back.
<1>11. ASSUME NEW left \in SUBSET archive[s.anchor].marked, archive' = Stripped(s.anchor, left),
              NeedsCleaning(s), UNCHANGED run,
              record' = record \/ record' = [s EXCEPT !.clean = TRUE],
              list' = {[s EXCEPT !.clean = TRUE]}
       PROVE  Once'
  <2>1. s.anchor \in Anchors /\ s.anchor # 0
    BY <1>4, <1>11 DEF NeedsCleaning, Anchors
  <2>2. /\ SentOnce'
        /\ \A c \in Anchors : /\ archive'[c].thread = archive[c].thread
                              /\ archive'[c].posted = archive[c].posted
                              /\ archive'[c].marked \subseteq archive[c].marked
        /\ \A c \in Anchors, p \in Texts : archive'[c].posted[p] > 0 => p <= said
    BY <1>1, <1>3, <1>4, <1>11, <2>1, StrippedOnce
  <2>3. record'.anchor <= sent
    BY <1>3, <1>4, <1>10, <1>11 DEF Once, AnchorSent
  <2>4. AnchorSent' /\ OneRunner'
    BY <1>3, <1>4, <1>10, <1>11, <2>3 DEF Once, AnchorSent, OneRunner
  <2>5. ASSUME Exists PROVE Stored' /\ record'.anchor # 0 /\ record'.checkpoint >= said
    BY <1>1, <1>8, <1>10, <1>11, <2>1, <2>5 DEF NeedsCleaning, Stored
  <2>6. ASSUME Exists PROVE FoundAgain'
    <3>1. \A c \in Anchors, p \in Texts : archive'[c].posted[p] > 0 => p <= record'.checkpoint
      <4>1. record'.checkpoint \in Nat /\ \A p \in Texts : p \in Nat
        BY <1>1 DEF Typed, Records, Texts
      <4> QED
        BY <1>4, <2>2, <2>5, <2>6, <4>1
    <3>2. s.checkpoint >= said'
      BY <1>1, <1>8, <1>11, <2>6 DEF NeedsCleaning
    <3> QED
      BY <1>10, <1>11, <2>5, <2>6, <3>1, <3>2 DEF FoundAgain
  <2>7. ASSUME NEW r \in Runners PROVE RunOnce(r)'
    <3>1. /\ run' = run /\ run[r].anchor <= sent
          /\ ~(run[r].step = "anchor" /\ run[r].anchor = 0)
          /\ run[r].step = "send" => sent = 0
          /\ Exists => ~(run[r].step = "copy" /\ run[r].next \in 1 .. MaxSaid)
      BY <1>3, <1>7, <1>8, <1>9, <1>11, <2>1 DEF Once, RunOnce, NeedsCleaning
    <3>2. run[r].step = "copy" => run[r].anchor \in Anchors
      BY DEF CopyInv, RunCopied
    <3>3. run[r].step = "copy" /\ run[r].next = 0 /\ Exists =>
             \A p \in Texts : archive'[run[r].anchor].posted[p] > 0 => p <= record'.checkpoint
      <4>1. record'.checkpoint \in Nat /\ \A p \in Texts : p \in Nat
        BY <1>1 DEF Typed, Records, Texts
      <4> QED
        BY <1>4, <2>2, <2>5, <3>2, <4>1
    <3>4. run[r].step = "copy" /\ run[r].next \in 1 .. MaxSaid =>
             \A p \in Texts : p >= run[r].next /\ archive'[run[r].anchor].posted[p] > 0
                => p \in run[r].seen
      BY <1>3, <2>2, <3>2 DEF Once, RunOnce
    <3> QED
      BY <1>3, <1>5, <2>5, <3>1, <3>3, <3>4 DEF RunOnce
  <2> QED
    BY <1>5, <2>2, <2>4, <2>6, <2>7 DEF Once
<1>12. CASE Discover(s)
  <2>1. source # "closed"
    BY <1>3 DEF CopyInv
  <2> QED
    BY <1>6, <1>12, <2>1 DEF Discover, Done
<1>13. CASE Reopen(s)
  BY <1>6, <1>13 DEF Reopen, Done
<1>14. CASE CleanRecord(s)
  BY <1>11, <1>14 DEF CleanRecord
<1>15. CASE CleanRecordLost(s)
  BY <1>11, <1>15 DEF CleanRecordLost
<1>16. CASE Settle(s)
  <2>1. CASE Exists
    <3>1. Enter(Sweep, "delete") /\ record' = record /\ list' = {} /\ archive' = archive
      BY <1>16, <2>1 DEF Settle
    <3>2. Stored
      BY <1>8, <1>16, <2>1 DEF Settle
    <3> QED
      BY <1>1, <1>3, <3>1, <3>2, EnterOnce
  <2>2. CASE ~Exists
    <3>1. UNCHANGED <<run, archive>> /\ list' = {} /\ Persist("closed")
      BY <1>16, <2>2 DEF Settle
    <3>2. record'.anchor = record.anchor /\ record'.checkpoint = record.checkpoint
      BY <1>4, <3>1, PersistEffects DEF Status, Closing
    <3> QED
      BY <1>1, <1>3, <1>5, <2>2, <3>1, <3>2, QuietOnce
  <2> QED
    BY <2>1, <2>2
<1>17. CASE Resume(s)
  BY <1>1, <1>3, <1>17, EnterOnce DEF Resume
<1>18. CASE SourceMissing(s)
  <2>1. CASE CompleteArchives(s) = {}
    BY <1>6, <1>18, <2>1 DEF SourceMissing, Done
  <2>2. CASE CompleteArchives(s) # {}
    <3>1. PICK a \in CompleteArchives(s) :
             /\ archive' = Stripped(a, {})
             /\ record' = [s EXCEPT !.status = "closed", !.clean = TRUE]
      BY <1>18, <2>2 DEF SourceMissing
    <3>2. a \in Anchors /\ archive[a].thread /\ ~Exists /\ list' = {} /\ run' = run
      BY <1>18 DEF CompleteArchives, SourceMissing, Done
    <3>3. a <= sent
      BY <1>3, <1>4, <3>2 DEF Once, SentOnce, Untold, Anchors
    <3>4. record'.anchor = s.anchor
      BY <1>4, <3>1 DEF Records
    <3>5. /\ SentOnce'
          /\ \A c \in Anchors : /\ archive'[c].posted = archive[c].posted
      BY <1>1, <1>3, <3>1, <3>2, <3>3, StrippedOnce
    <3>6. AnchorSent' /\ OneRunner'
      BY <1>3, <1>4, <3>2, <3>4 DEF Once, AnchorSent, OneRunner
    <3>7. ASSUME NEW r \in Runners PROVE RunOnce(r)'
      <4>1. ~(run[r].step = "anchor" /\ run[r].anchor = 0)
        BY <1>3, <3>2 DEF Once, RunOnce
      <4>2. run[r].step = "copy" => run[r].anchor \in Anchors
        BY DEF CopyInv, RunCopied
      <4> QED
        BY <1>3, <1>5, <3>2, <3>5, <4>1, <4>2 DEF Once, RunOnce
    <3> QED
      BY <1>5, <3>2, <3>5, <3>6, <3>7 DEF Once
  <2> QED
    BY <2>1, <2>2
<1>19. CASE Skip(s)
  BY <1>1, <1>3, <1>5, <1>19, QuietOnce DEF Skip, Done
<1> QED
  BY <1>12, <1>13, <1>14, <1>15, <1>16, <1>17, <1>18, <1>19 DEF Reconcile, Passes

LEMMA SurroundingOnce ==
  ASSUME Typed, CopyInv, OnceInv, Surroundings
  PROVE  OnceInv'
<1>1. Typed'
  BY SayTypes, SurroundingTypes DEF Surroundings, Good
<1> SUFFICES ASSUME ~raced', mode' # "legacy" PROVE Once'
  BY DEF OnceInv
<1>2. /\ mode' = mode /\ raced' = raced /\ sent' = sent /\ record' = record
      /\ list' \subseteq list
  BY DEF Surroundings, Say, DeletedByModerator, Crash, ThreadDeleted
<1>3. Once /\ mode # "legacy"
  BY <1>2 DEF OnceInv
<1>4. CASE Say
  <2>1. /\ ~Sealed /\ UNCHANGED <<archive, run, list, source>>
    BY <1>4 DEF Say, Sealed
  <2>2. \A x \in {record} \union list : x.status \notin {"archived_source_remaining", "closed"}
    BY <1>3, <2>1 DEF CopyInv, RecordCopied
  <2>3. \A a \in Anchors : Complete \notin archive[a].marked
    BY <2>1 DEF CopyInv, AnchorCopied
  <2>4. ASSUME NEW r \in Runners
        PROVE  run[r].step \notin {"anchor", "send", "thread", "read", "copy", "clean", "delete"}
    BY <2>1 DEF CopyInv, RunCopied
  <2>5. SentOnce' /\ AnchorSent' /\ OneRunner'
    BY <1>2, <1>3, <2>1 DEF Once, SentOnce, AnchorSent, OneRunner
  <2>6. Exists' => FoundAgain'
    BY <1>2, <1>3, <2>1, <2>2, <2>3 DEF Once, FoundAgain, Exists
  <2>7. \A r \in Runners : RunOnce(r)'
    BY <1>2, <1>3, <2>1, <2>4 DEF Once, RunOnce
  <2> QED
    BY <2>5, <2>6, <2>7 DEF Once
<1>5. CASE DeletedByModerator
  BY <1>1, <1>2, <1>3, <1>5, QuietOnce DEF DeletedByModerator
<1>6. CASE Crash
  <2>1. /\ \A r \in Runners : run'[r].step = "idle" /\ run'[r].anchor = 0
        /\ list' = {} /\ UNCHANGED <<archive, source, said>>
    BY <1>6, IdleTask DEF Crash
  <2>2. SentOnce' /\ AnchorSent' /\ OneRunner'
    BY <1>2, <1>3, <2>1 DEF Once, SentOnce, AnchorSent, OneRunner
  <2>3. Exists' => FoundAgain'
    BY <1>2, <1>3, <2>1 DEF Once, FoundAgain, Stored, Exists
  <2>4. \A r \in Runners : RunOnce(r)'
    BY <1>1, <2>1 DEF RunOnce, Typed
  <2> QED
    BY <2>2, <2>3, <2>4 DEF Once
<1>7. ASSUME NEW a \in Anchors, ThreadDeleted(a) PROVE Once'
  <2>1. /\ Only(a) /\ archive'[a].marked = {} /\ archive'[a].thread = FALSE
        /\ archive'[a].named = archive[a].named
        /\ \A p \in Pieces : archive'[a].posted[p] = 0
    BY <1>7, ShredEffects DEF ThreadDeleted, Typed
  <2>2. archive[a].thread /\ UNCHANGED <<run, list, source, said>>
    BY <1>7 DEF ThreadDeleted
  <2>3. a <= sent
    BY <1>1, <1>3, <2>2 DEF Once, SentOnce, Untold, Anchors, Typed
  <2>4. \A p \in Texts : p \in Pieces
    BY DEF Texts, Pieces, Complete
  <2>5. SentOnce'
    BY <1>1, <1>2, <1>3, <2>1, <2>3, <2>4, SameTexts DEF Once
  <2>6. AnchorSent' /\ OneRunner'
    BY <1>2, <1>3, <2>2 DEF Once, AnchorSent, OneRunner
  <2>7. ASSUME Exists' PROVE FoundAgain'
    <3>1. FoundAgain /\ record.anchor # 0
      BY <1>3, <2>2, <2>7 DEF Once, FoundAgain, Exists
    <3>2. \A c \in Anchors, p \in Texts :
             archive'[c].posted[p] > 0 => /\ archive[c].posted[p] > 0
                                          /\ p \in archive[c].marked => p \in archive'[c].marked
      BY <2>1, <2>4 DEF Only
    <3>3. \A c \in Anchors : archive'[c].marked \subseteq archive[c].marked
      BY <2>1 DEF Only
    <3> QED
      BY <1>2, <2>2, <3>1, <3>2, <3>3 DEF FoundAgain, Stored
  <2>8. ASSUME NEW r \in Runners PROVE RunOnce(r)'
    <3>1. ~(run[r].step = "anchor" /\ run[r].anchor = 0)
      BY <1>3, <2>2 DEF Once, RunOnce
    <3>2. run[r].step = "copy" => run[r].anchor \in Anchors
      BY DEF CopyInv, RunCopied
    <3>3. \A c \in Anchors, p \in Texts : archive'[c].posted[p] > 0 => archive[c].posted[p] > 0
      BY <2>1, <2>4 DEF Only
    <3> QED
      BY <1>2, <1>3, <2>2, <3>1, <3>2, <3>3 DEF Once, RunOnce, Stored, Exists
  <2> QED
    BY <2>5, <2>6, <2>7, <2>8 DEF Once
<1> QED
  BY <1>4, <1>5, <1>6, <1>7 DEF Surroundings

-----------------------------------------------------------------------------
(* The archive alone                                                       *)

\* What holds of the archive, whichever way its channel is closed.
ArchiveInv == Typed /\ LockInv /\ CopyInv /\ OnceInv

\* No step of the archive takes the channel back to the time before it was made.
LEMMA ArchiveNext ==
  ASSUME ArchiveInv, Next
  PROVE  ArchiveInv' /\ mode' = mode /\ (source # "none" => source' # "none")
<1> USE DEF ArchiveInv
<1>1. ASSUME NEW r \in Runners, Works(r) \/ Fails(r)
      PROVE  ArchiveInv' /\ mode' = mode /\ source' \in {source, "frozen", "removed"}
  <2>1. Typed' /\ mode' = mode
    BY <1>1, EngineTypes DEF Good, Grows
  <2>2. CopyInv' /\ LockInv' /\ OnceInv'
    BY <1>1, EngineCopies, EngineLocks, EngineOnce
  <2>3. source' \in {source, "frozen", "removed"}
    BY <1>1 DEF Works, Fails, Freeze, FreezeLost, FindAnchor, SendAnchor, AnchorLost, MakeThread,
         ThreadLost, Read, CopyIntro, CopyMessage, CopyLink, CopyComplete, PieceLost, Gone,
         Clean, CleanLost, Delete, DeleteLost
  <2> QED
    BY <2>1, <2>2, <2>3
<1>2. CASE CloseClick
  <2>1. source' \in {source, "closed"}
    BY <1>2 DEF CloseClick, Close, Revoke, RevokeLost, Rename, RenameLost, Notice, NoticeLost
  <2> QED
    BY <1>2, <2>1, CloseTypes, CloseCopies, CloseLocks, CloseOnce DEF Good, Grows
<1>3. CASE ListTickets
  <2>1. source' = source
    BY <1>3 DEF ListTickets
  <2> QED
    BY <1>3, <2>1, ListTypes, ListCopies, ListLocks, ListOnce DEF Good, Grows
<1>4. ASSUME NEW s \in list, Reconcile(s) \/ Passes(s)
      PROVE  ArchiveInv' /\ mode' = mode /\ source' = source
  <2>1. source' = source
    BY <1>4 DEF Reconcile, Passes, Discover, Reopen, CleanRecord, Settle, Resume, SourceMissing,
                CleanRecordLost, Skip, Done
  <2> QED
    BY <1>4, <2>1, ReconcileTypes, ReconcileCopies, ReconcileLocks, ReconcileOnce DEF Good, Grows
<1>5. CASE Surroundings
  <2>1. source' \in {source, "deleted"} /\ mode' = mode
    BY <1>5 DEF Surroundings, Say, DeletedByModerator, Crash, ThreadDeleted
  <2>2. Typed' /\ CopyInv'
    BY <1>5, SayTypes, SurroundingTypes, SayCopies, SurroundingCopies DEF Good, Surroundings
  <2> QED
    BY <1>5, <2>1, <2>2, SurroundingLocks, SurroundingOnce
<1> QED
  BY <1>1, <1>2, <1>3, <1>4, <1>5 DEF Next

\* Nothing of the archive changes but the count of faults.
LEMMA ArchiveUnmoved ==
  ASSUME ArchiveInv, UNCHANGED <<mode, record, channel, threads, run, list, ghosts>>,
         faults' = faults \/ Fault
  PROVE  ArchiveInv'
<1>1. Typed'
  BY DEF ArchiveInv, Typed, Fault
<1>2. LockInv'
  BY DEF ArchiveInv, LockInv, ClosedIsLocked
<1>3. Grows
  BY CopiesSame DEF Grows, Sealed, Exists
<1>4. CopyInv'
  BY <1>3, CopyFrame DEF ArchiveInv
<1>5. OnceInv'
  BY <1>1, QuietOnce DEF ArchiveInv, OnceInv, Exists
<1> QED
  BY <1>1, <1>2, <1>4, <1>5 DEF ArchiveInv

-----------------------------------------------------------------------------
(* Trials                                                                  *)

TrialRecords == [status : {"none", "creating", "active", "ending", "removing_role", "closed"},
                 channel : BOOLEAN, message : BOOLEAN]

TrialTyped ==
    /\ trial \in TrialRecords
    /\ doing \in Working \union {"nothing"}
    /\ member \in BOOLEAN /\ role \in BOOLEAN /\ topic \in BOOLEAN /\ fresh \in BOOLEAN
    /\ panels \in Nat /\ channels \in Nat

LEMMA InvMeans ==
  Inv <=> ArchiveInv /\ TrialTyped /\ StatusInv /\ MadeInv /\ TrialEndsInOrder
BY TypedMeans DEF Inv, ArchiveInv, TrialTypeOK, TrialTyped, TrialRecords

\* The channel of a trial is made while nothing of its archive exists.
LEMMA NewChannelArchive ==
  ASSUME ArchiveInv, StatusInv, mode = "trial", Early, NewChannel,
         UNCHANGED <<mode, record, said, threads, run, list, ghosts>>,
         faults' = faults \/ Fault
  PROVE  ArchiveInv'
<1>1. /\ source' = "open" /\ writable' = TRUE /\ mode' = "trial"
      /\ record = NoRecord /\ sent = 0 /\ list = {}
      /\ \A r \in Runners : run[r].step = "idle"
      /\ \A a \in Anchors : archive[a] = Untold
      /\ said \in 0 .. MaxSaid
  BY DEF NewChannel, StatusInv, ArchiveInv, Typed
<1>2. Typed'
  BY <1>1 DEF ArchiveInv, Typed, Sources, Fault
<1>3. LockInv'
  BY <1>1 DEF LockInv, ClosedIsLocked
<1>4. CopyInv'
  <2>1. RecordCopied(NoRecord)'
    BY <1>1 DEF RecordCopied, NoRecord
  <2>2. \A x \in {record'} \union list' : RecordCopied(x)'
    BY <1>1, <2>1
  <2>3. \A a \in Anchors : AnchorCopied(a)'
    BY <1>1 DEF AnchorCopied, Untold, Pieces, Complete
  <2>4. \A r \in Runners : RunCopied(r)'
    BY <1>1 DEF RunCopied
  <2> QED
    BY <1>1, <2>2, <2>3, <2>4 DEF CopyInv
<1>5. OnceInv'
  <2> SUFFICES ASSUME ~raced', mode' # "legacy" PROVE Once'
    BY DEF OnceInv
  <2>1. Once
    BY <1>1 DEF ArchiveInv, OnceInv
  <2>2. SentOnce' /\ AnchorSent' /\ OneRunner'
    BY <2>1 DEF Once, SentOnce, AnchorSent, OneRunner
  <2>3. FoundAgain'
    <3>1. \A p \in Texts : p \in Pieces
      BY DEF Texts, Pieces, Complete
    <3>2. Complete \in Pieces
      BY DEF Pieces, Complete
    <3> QED
      BY <1>1, <3>1, <3>2 DEF FoundAgain, Untold, NoRecord, Anchors
  <2>4. \A r \in Runners : RunOnce(r)'
    BY <1>1, <2>1 DEF Once, RunOnce
  <2> QED
    BY <2>2, <2>3, <2>4 DEF Once
<1> QED
  BY <1>2, <1>3, <1>4, <1>5 DEF ArchiveInv

\* The archive of a trial begins, is resumed, or only its channel is left.
LEMMA ArchiveChannelKeeps ==
  ASSUME ArchiveInv, mode = "trial", list = {}, record.status \in {"none"} \union Closing,
         ArchiveChannel
  PROVE  ArchiveInv' /\ Grows
<1> USE DEF ArchiveInv
<1>1. /\ record \in Records /\ RecordCopied(record) /\ Trial \in Runners
      /\ record.anchor \in 0 .. MaxAnchors /\ record.checkpoint \in 0 .. MaxSaid
      /\ said \in 0 .. MaxSaid /\ archive \in [Anchors -> Threads] /\ sent \in 0 .. MaxAnchors
  BY DEF Typed, Records, CopyInv, Runners
<1>2. /\ Exists /\ UNCHANGED <<mode, source, writable, said, sent, shredded, list, reopened, faults>>
  BY DEF ArchiveChannel
<1>3. record.status \in {"none", "closing", "archiving", "archived_source_remaining"}
  BY <1>1, <1>2 DEF RecordCopied, Closing
<1>4. record' \in Records /\ record'.anchor = record.anchor
      /\ record'.checkpoint = record.checkpoint
      /\ (record'.status = record.status \/ record'.status = "closing")
  <2>1. CASE Persist("closing")
    BY <1>1, <2>1, PersistEffects DEF Status, Closing
  <2>2. CASE record' = record
    BY <1>1, <2>2
  <2>3. CASE record' = [record EXCEPT !.clean = TRUE]
    BY <1>1, <2>3 DEF Records
  <2> QED
    BY <1>3, <2>1, <2>2, <2>3 DEF ArchiveChannel
<1>5. PICK step \in {"freeze", "delete"} :
         /\ Enter(Trial, step)
         /\ step = "delete" => record.status = "archived_source_remaining"
  BY <1>3 DEF ArchiveChannel
<1>6. /\ run[Trial].step = "idle" /\ run' \in [Runners -> Tasks]
      /\ run'[Trial].step = step /\ run'[Trial].anchor = 0 /\ run'[Trial].next = 0
      /\ \A q \in Runners \ {Trial} : run'[q] = run[q]
      /\ raced' \in BOOLEAN /\ (raced => raced')
  BY <1>1, <1>5, EnterEffects DEF Steps
<1>7. \/ archive' = archive
      \/ /\ archive' = Stripped(record.anchor, {}) /\ record.anchor \in Anchors
         /\ record.status = "archived_source_remaining"
  <2>1. \/ archive' = archive
        \/ /\ archive' = Stripped(record.anchor, {})
           /\ record.status = "archived_source_remaining"
    BY <1>3 DEF ArchiveChannel
  <2> QED
    BY <1>1, <2>1, StrippedNowhere
<1>8. archive' \in [Anchors -> Threads] /\ Copies
  <2>1. CASE archive' = archive
    BY <1>1, <1>2, <2>1, CopiesSame
  <2>2. CASE archive' = Stripped(record.anchor, {}) /\ record.anchor \in Anchors
    BY <1>1, <1>2, <2>2, StrippedEffects, CopiesKept DEF Only
  <2> QED
    BY <1>7, <2>1, <2>2
<1>9. Typed' /\ Grows
  BY <1>2, <1>4, <1>6, <1>8 DEF Typed, Grows, Sealed, Exists
<1>10. CopyInv'
  <2>1. \A b \in Anchors : archive'[b] = archive[b] \/ AnchorCopied(b)'
    BY <1>7, <1>9, StrippedCopied
  <2>2. \A p \in 1 .. MaxSaid : Archived(p) => Archived(p)'
    BY <1>9 DEF Grows, Copies, Pieces, Complete, Typed
  <2>3. (AllArchived => AllArchived') /\ (Sealed => Sealed')
    BY <1>9, AllKept DEF Grows
  <2>4. RecordCopied(record)'
    BY <1>1, <1>2, <1>4, <2>2, <2>3 DEF RecordCopied, Exists
  <2>5. RunCopied(Trial)'
    BY <1>1, <1>2, <1>5, <1>6, <2>3 DEF RunCopied, RecordCopied
  <2> QED
    BY <1>2, <1>6, <1>9, <2>1, <2>4, <2>5, CopyFrame
<1>11. LockInv'
  BY <1>2, <1>10, LockFrame DEF LockInv, ClosedIsLocked
<1>12. OnceInv'
  <2> SUFFICES ASSUME ~raced', mode' # "legacy" PROVE Once'
    BY DEF OnceInv
  <2>1. Once /\ FoundAgain
    BY <1>2, <1>6 DEF OnceInv, Once
  <2>2. record.status = "archived_source_remaining" => Stored
    BY <2>1 DEF FoundAgain
  <2>3. CASE archive' = archive
    BY <1>1, <1>2, <1>4, <1>5, <1>9, <2>1, <2>2, <2>3, EnterOnce
  <2>4. CASE /\ archive' = Stripped(record.anchor, {}) /\ record.anchor \in Anchors
             /\ record.status = "archived_source_remaining"
    <3>1. record.anchor <= sent /\ record.anchor # 0
      BY <2>1, <2>4 DEF Once, AnchorSent, Anchors
    <3>2. /\ SentOnce'
          /\ \A c \in Anchors : /\ archive'[c].thread = archive[c].thread
                                /\ archive'[c].posted = archive[c].posted
                                /\ archive'[c].marked \subseteq archive[c].marked
          /\ \A c \in Anchors, p \in Texts : archive'[c].posted[p] > 0 => p <= said
      BY <1>2, <1>9, <2>1, <2>4, <3>1, StrippedOnce
    <3>3. \A q \in Runners \ {Trial} : run[q].step = "idle" /\ run'[q] = run[q]
      BY <1>1, <1>5, EnterEffects DEF Steps
    <3>4. AnchorSent' /\ Stored' /\ record'.anchor # 0
      BY <1>2, <1>4, <2>1, <2>2, <2>4, <3>1 DEF Once, AnchorSent, Stored
    <3>5. FoundAgain'
      <4>1. \A c \in Anchors, p \in Texts : archive'[c].posted[p] > 0 => p <= record'.checkpoint
        <5>1. \A p \in Texts : p \in Nat
          BY DEF Texts
        <5> QED
          BY <1>1, <1>2, <1>4, <3>2, <3>4, <5>1 DEF Stored
      <4> QED
        BY <1>2, <3>4, <4>1 DEF FoundAgain
    <3>6. RunOnce(Trial)'
      BY <1>1, <1>2, <1>5, <1>6, <3>4 DEF RunOnce
    <3>7. sent <= sent'
      BY <1>1, <1>2
    <3> QED
      BY <1>1, <1>9, <2>1, <3>2, <3>3, <3>4, <3>5, <3>6, <3>7, OnceFrame
  <2> QED
    BY <1>7, <2>3, <2>4
<1> QED
  BY <1>9, <1>10, <1>11, <1>12

\* The channel is gone, and the transcript complete.
LEMMA ArchiveMissingKeeps ==
  ASSUME ArchiveInv, mode = "trial", list = {}, ArchiveMissing
  PROVE  ArchiveInv' /\ Grows /\ ~Exists' /\ AllArchived'
<1> USE DEF ArchiveInv
<1>1. /\ record \in Records /\ RecordCopied(record)
      /\ record.anchor \in 0 .. MaxAnchors /\ record.checkpoint \in 0 .. MaxSaid
      /\ said \in 0 .. MaxSaid /\ archive \in [Anchors -> Threads] /\ sent \in 0 .. MaxAnchors
  BY DEF Typed, Records, CopyInv
<1>2. ~Exists /\ UNCHANGED <<mode, channel, sent, shredded, run, list, ghosts, faults>>
  BY DEF ArchiveMissing
<1>3. record' \in Records /\ record'.anchor = record.anchor
      /\ record'.checkpoint = record.checkpoint /\ record'.status = "closed"
  <2>1. record' = [record EXCEPT !.status = "closed", !.clean = TRUE] /\ "closed" \in Status
    BY DEF ArchiveMissing, Status, Closing
  <2> QED
    BY <1>1, <2>1 DEF Records
<1>4. \/ archive' = archive
      \/ archive' = Stripped(record.anchor, {}) /\ record.anchor \in Anchors
  <2>1. archive' = archive \/ archive' = Stripped(record.anchor, {})
    BY DEF ArchiveMissing
  <2> QED
    BY <1>1, <2>1, StrippedNowhere
<1>5. archive' \in [Anchors -> Threads] /\ Copies
  <2>1. CASE archive' = archive
    BY <1>1, <1>2, <2>1, CopiesSame
  <2>2. CASE archive' = Stripped(record.anchor, {}) /\ record.anchor \in Anchors
    BY <1>1, <1>2, <2>2, StrippedEffects, CopiesKept DEF Only
  <2> QED
    BY <1>4, <2>1, <2>2
<1>6. Typed' /\ Grows
  BY <1>2, <1>3, <1>5 DEF Typed, Grows, Sealed, Exists
<1>7. Sealed /\ AllArchived
  <2>1. CASE record.status = "archived_source_remaining"
    BY <1>1, <2>1 DEF RecordCopied
  <2>2. CASE CompleteArchives(record) # {}
    BY <2>2 DEF CompleteArchives, CopyInv, AnchorCopied
  <2> QED
    BY <2>1, <2>2 DEF ArchiveMissing, Recovered
<1>8. CopyInv'
  <2>1. \A b \in Anchors : archive'[b] = archive[b] \/ AnchorCopied(b)'
    BY <1>4, <1>6, StrippedCopied
  <2>2. \A p \in 1 .. MaxSaid : Archived(p) => Archived(p)'
    BY <1>6 DEF Grows, Copies, Pieces, Complete, Typed
  <2>3. AllArchived' /\ Sealed' /\ ~Exists'
    BY <1>2, <1>6, <1>7, AllKept DEF Grows
  <2>4. RecordCopied(record)'
    BY <1>1, <1>2, <1>3, <2>2, <2>3 DEF RecordCopied
  <2> QED
    BY <1>2, <1>6, <2>1, <2>4, CopyFrame
<1>9. LockInv'
  BY <1>2 DEF LockInv, ClosedIsLocked
<1>10. OnceInv'
  <2> SUFFICES ASSUME ~raced', mode' # "legacy" PROVE Once'
    BY DEF OnceInv
  <2>1. Once
    BY <1>2 DEF OnceInv
  <2>2. ~Exists'
    BY <1>2 DEF Exists
  <2>3. CASE archive' = archive
    BY <1>2, <1>3, <1>6, <2>1, <2>2, <2>3, QuietOnce
  <2>4. CASE archive' = Stripped(record.anchor, {}) /\ record.anchor \in Anchors
    <3>1. record.anchor <= sent /\ record.anchor # 0
      BY <2>1, <2>4 DEF Once, AnchorSent, Anchors
    <3>2. SentOnce' /\ \A c \in Anchors : archive'[c].posted = archive[c].posted
      BY <1>2, <1>6, <2>1, <2>4, <3>1, StrippedOnce
    <3>3. AnchorSent' /\ OneRunner'
      BY <1>2, <1>3, <2>1 DEF Once, AnchorSent, OneRunner
    <3>4. ASSUME NEW r \in Runners PROVE RunOnce(r)'
      <4>1. ~(run[r].step = "anchor" /\ run[r].anchor = 0)
        BY <2>1, <3>1 DEF Once, RunOnce
      <4>2. run[r].step = "copy" => run[r].anchor \in Anchors
        BY DEF CopyInv, RunCopied
      <4> QED
        BY <1>2, <2>1, <2>2, <3>2, <4>1, <4>2 DEF Once, RunOnce
    <3> QED
      BY <2>2, <3>2, <3>3, <3>4 DEF Once
  <2> QED
    BY <1>4, <2>3, <2>4
<1> QED
  BY <1>2, <1>6, <1>7, <1>8, <1>9, <1>10, AllKept DEF Grows

\* A runner leaves the others alone.
LEMMA OthersKept ==
  ASSUME Typed, NEW r \in Runners, Works(r) \/ Fails(r)
  PROVE  \A q \in Runners \ {r} : run'[q] = run[q]
<1>1. \A to : Go(r, to) => \A q \in Runners \ {r} : run'[q] = run[q]
  BY DEF Go, Typed
<1>2. Stop(r) => \A q \in Runners \ {r} : run'[q] = run[q]
  BY <1>1 DEF Stop
<1>3. \A step : Step(r, step) => \A q \in Runners \ {r} : run'[q] = run[q]
  BY DEF Step, Typed
<1>4. \A b : WithAnchor(r, b) => \A q \in Runners \ {r} : run'[q] = run[q]
  BY <1>1 DEF WithAnchor
<1>5. \/ Stop(r)
      \/ \E to : Go(r, to)
      \/ \E step : Step(r, step)
      \/ \E b : WithAnchor(r, b)
  BY DEF Works, Fails, Freeze, FreezeLost, FindAnchor, SendAnchor, AnchorLost, MakeThread,
         ThreadLost, Read, CopyIntro, CopyMessage, CopyLink, CopyComplete, PieceLost, Gone,
         Clean, CleanLost, Delete, DeleteLost
<1> QED
  BY <1>1, <1>2, <1>3, <1>4, <1>5

\* The engine stores a state of the archive.
LEMMA EngineStatus ==
  ASSUME Typed, NEW r \in Runners, Works(r) \/ Fails(r)
  PROVE  record'.status \in {record.status} \union Closing
<1>1. record \in Records
  BY DEF Typed
<1>2. \/ record' = record
      \/ \E status \in Closing : Persist(status)
      \/ \E status \in Closing : \E a : PersistAnchor(status, a)
      \/ \E p : record' = [record EXCEPT !.status = "archiving", !.checkpoint = p]
      \/ record' = [record EXCEPT !.status = "archived_source_remaining", !.clean = TRUE]
  BY DEF Works, Fails, Freeze, FreezeLost, FindAnchor, SendAnchor, AnchorLost, MakeThread,
         ThreadLost, Read, CopyIntro, CopyMessage, CopyLink, CopyComplete, PieceLost, Gone,
         Clean, CleanLost, Delete, DeleteLost, WithAnchor, Closing
<1> QED
  BY <1>1, <1>2 DEF Persist, PersistAnchor, Records, Closing

\* The steps of a trial that leave its archive and its channel alone.
Aside == Begin \/ TakeUp \/ EndClick \/ GiveRole \/ FindChannel \/ PublishPanel \/ PanelLost
         \/ Scrub \/ ScrubLost \/ Archive \/ TakeRole \/ GiveUp \/ RoleLost \/ Leave
Making == CreateChannel \/ ChannelLost

LEMMA AsideKeeps ==
  ASSUME ArchiveInv, Aside
  PROVE  /\ ArchiveInv'
         /\ UNCHANGED <<mode, record, channel, threads, run, list, ghosts>>
<1>1. /\ UNCHANGED <<mode, record, channel, threads, run, list, ghosts>>
      /\ faults' = faults \/ Fault
  BY DEF Aside, Begin, TakeUp, EndClick, GiveRole, FindChannel, PublishPanel, PanelLost,
         Scrub, ScrubLost, Archive, TakeRole, GiveUp, Unchanging, RoleLost, Leave, vars
<1> QED
  BY <1>1, ArchiveUnmoved

\* The values of a trial.
LEMMA TrialTypes ==
  ASSUME TrialTyped, TrialNext \/ UNCHANGED trialVars
  PROVE  TrialTyped'
<1>1. /\ \A status \in {"creating", "active", "ending", "removing_role", "closed"} :
            [trial EXCEPT !.status = status] \in TrialRecords
      /\ [trial EXCEPT !.channel = TRUE] \in TrialRecords
      /\ [trial EXCEPT !.message = TRUE] \in TrialRecords
  BY DEF TrialTyped, TrialRecords
<1>2. ASSUME NewChannel
      PROVE  /\ topic' \in BOOLEAN /\ fresh' \in BOOLEAN
             /\ panels' \in Nat /\ channels' \in Nat
  <2>1. topic' = TRUE /\ fresh' = FALSE
    BY <1>2 DEF NewChannel
  <2>2. panels' \in Nat /\ channels' \in Nat
    BY <1>2 DEF NewChannel, TrialTyped
  <2> QED
    BY <2>1, <2>2
<1>3. ASSUME PostPanel
      PROVE  fresh' \in BOOLEAN /\ panels' \in Nat
  <2>1. CASE Posted
    BY <1>3, <2>1 DEF PostPanel, TrialTyped
  <2>2. CASE ~Posted
    BY <1>3, <2>2 DEF PostPanel, TrialTyped
  <2> QED
    BY <2>1, <2>2
<1> USE DEF TrialTyped, Working
<1>4. CASE Begin
  BY <1>1, <1>4 DEF Begin
<1>5. CASE TakeUp
  BY <1>5 DEF TakeUp, TakenUp
<1>6. CASE EndClick
  BY <1>1, <1>6 DEF EndClick
<1>7. CASE GiveRole
  BY <1>7 DEF GiveRole
<1>8. CASE FindChannel
  BY <1>1, <1>8 DEF FindChannel
<1>9. CASE CreateChannel
  BY <1>1, <1>2, <1>9 DEF CreateChannel
<1>10. CASE PublishPanel
  BY <1>1, <1>3, <1>10 DEF PublishPanel
<1>11. CASE Scrub
  BY <1>1, <1>11 DEF Scrub
<1>12. CASE ArchiveChannel
  BY <1>12 DEF ArchiveChannel, Unchanging
<1>13. CASE ArchiveMissing
  BY <1>1, <1>13 DEF ArchiveMissing, Unchanging
<1>14. CASE Archive
  BY <1>1, <1>14 DEF Archive, Unchanging
<1>15. CASE TakeRole
  BY <1>1, <1>15 DEF TakeRole
<1>16. CASE GiveUp
  BY <1>16 DEF GiveUp, Unchanging
<1>17. CASE ChannelLost
  BY <1>2, <1>17 DEF ChannelLost
<1>18. CASE PanelLost
  BY <1>3, <1>18 DEF PanelLost
<1>19. CASE ScrubLost
  BY <1>19 DEF ScrubLost
<1>20. CASE RoleLost
  BY <1>20 DEF RoleLost
<1>21. CASE Leave
  BY <1>21 DEF Leave
<1>22. CASE Restart
  BY <1>22 DEF Restart
<1>23. CASE ArchiveStep \/ UNCHANGED trialVars
  BY <1>23 DEF ArchiveStep, trialVars
<1> QED
  BY <1>4, <1>5, <1>6, <1>7, <1>8, <1>9, <1>10, <1>11, <1>12, <1>13, <1>14, <1>15, <1>16, <1>17,
     <1>18, <1>19, <1>20, <1>21, <1>22, <1>23 DEF TrialNext, Proceeds

\* What the other steps of a trial do to the archive and to the channel.
LEMMA ArchiveStepKeeps ==
  ASSUME ArchiveInv, mode = "trial", StatusInv, ArchiveStep \/ Restart
  PROVE  /\ ArchiveInv' /\ mode' = mode /\ list' = {}
         /\ Exists' => Exists
         /\ \A r \in Runners \ {Trial} : run'[r].step = "idle"
         /\ record'.status \in {record.status} \union Closing
         /\ ~Exists /\ AllArchived => AllArchived'
         /\ Early => /\ record' = record /\ sent' = sent /\ run'[Trial].step = "idle"
                     /\ archive' = archive /\ source' \in {source, "deleted"}
<1>1. /\ list = {} /\ Trial \in Runners /\ \A r \in Runners \ {Trial} : run[r].step = "idle"
      /\ Early => run[Trial].step = "idle" /\ \A a \in Anchors : archive[a] = Untold
  BY DEF StatusInv, Runners
<1>2. CASE Works(Trial) \/ Fails(Trial)
  <2>1. ArchiveInv' /\ mode' = mode
    BY <1>1, <1>2, ArchiveNext DEF Next
  <2>2. Grows /\ list' = {} /\ run[Trial].step # "idle"
    BY <1>1, <1>2, EngineTypes, EngineFrame DEF ArchiveInv, Good
  <2>3. \A r \in Runners \ {Trial} : run'[r].step = "idle"
    BY <1>1, <1>2, OthersKept DEF ArchiveInv
  <2>4. record'.status \in {record.status} \union Closing
    BY <1>1, <1>2, EngineStatus DEF ArchiveInv
  <2>5. AllArchived => AllArchived'
    BY <2>2, AllKept DEF ArchiveInv
  <2> QED
    BY <1>1, <2>1, <2>2, <2>3, <2>4, <2>5 DEF Grows
<1>3. CASE Say
  <2>1. ArchiveInv'
    BY <1>3, ArchiveNext DEF Next, Surroundings
  <2> QED
    BY <1>1, <1>3, <2>1 DEF Say, Exists
<1>4. CASE DeletedByModerator \/ Crash \/ \E a \in Anchors : ThreadDeleted(a)
  <2>1. ArchiveInv' /\ mode' = mode
    BY <1>4, ArchiveNext DEF Next, Surroundings
  <2>2. Grows
    BY <1>4, SurroundingTypes DEF ArchiveInv, Good
  <2>3. AllArchived => AllArchived'
    BY <2>2, AllKept DEF ArchiveInv
  <2>4. /\ record' = record /\ sent' = sent /\ list' = {}
        /\ source' \in {source, "deleted"}
        /\ \A r \in Runners : run'[r] = run[r] \/ run'[r].step = "idle"
    BY <1>1, <1>4, IdleTask DEF DeletedByModerator, Crash, ThreadDeleted
  <2>5. Early => archive' = archive
    BY <1>1, <1>4 DEF DeletedByModerator, Crash, ThreadDeleted, Untold
  <2> QED
    BY <1>1, <2>1, <2>2, <2>3, <2>4, <2>5 DEF Grows
<1> QED
  BY <1>2, <1>3, <1>4 DEF ArchiveStep, Restart

LEMMA StatusStep ==
  ASSUME Inv, mode = "trial", TrialNext
  PROVE  StatusInv' /\ ArchiveInv'
<1>1. ArchiveInv /\ StatusInv /\ TrialTyped
  BY InvMeans
<1>2. CASE Aside
  <2>1. /\ ArchiveInv'
        /\ UNCHANGED <<mode, record, channel, threads, run, list, ghosts>>
    BY <1>1, <1>2, AsideKeeps
  <2>2. /\ doing' \in {"role", "channel", "panel", "scrub"} => trial'.status = "creating"
        /\ doing' \in {"archive", "wait"} => trial'.status = "ending"
        /\ doing' = "unrole" => trial'.status = "removing_role"
        /\ Early' => Early
    <3>1. trial \in TrialRecords
      BY <1>1 DEF TrialTyped
    <3> USE DEF TrialRecords, StatusInv, Early
    <3>2. CASE Begin
      BY <1>1, <3>1, <3>2 DEF Begin
    <3>3. CASE TakeUp
      BY <1>1, <3>3 DEF TakeUp, TakenUp
    <3>4. CASE EndClick
      BY <1>1, <3>1, <3>4 DEF EndClick
    <3>5. CASE GiveRole
      BY <1>1, <3>5 DEF GiveRole
    <3>6. CASE FindChannel
      BY <1>1, <3>1, <3>6 DEF FindChannel
    <3>7. CASE PublishPanel
      BY <1>1, <3>1, <3>7 DEF PublishPanel
    <3>8. CASE Scrub
      BY <1>1, <3>1, <3>8 DEF Scrub
    <3>9. CASE Archive
      BY <1>1, <3>1, <3>9 DEF Archive
    <3>10. CASE TakeRole
      BY <1>1, <3>1, <3>10 DEF TakeRole
    <3>11. CASE GiveUp \/ PanelLost \/ ScrubLost \/ RoleLost \/ Leave
      BY <1>1, <3>11 DEF GiveUp, PanelLost, ScrubLost, RoleLost, Leave
    <3> QED
      BY <1>2, <3>2, <3>3, <3>4, <3>5, <3>6, <3>7, <3>8, <3>9, <3>10, <3>11 DEF Aside
  <2> QED
    BY <1>1, <2>1, <2>2 DEF StatusInv
<1>3. CASE Making
  <2>1. /\ NewChannel /\ trial.status = "creating"
        /\ UNCHANGED <<mode, record, said, threads, run, list, ghosts>>
        /\ faults' = faults \/ Fault
        /\ trial'.status = "creating" /\ doing' \in {"panel", "nothing"}
    BY <1>1, <1>3 DEF Making, CreateChannel, ChannelLost, StatusInv, TrialTyped, TrialRecords
  <2>2. ArchiveInv'
    BY <1>1, <2>1, NewChannelArchive DEF Early
  <2>3. source' = "open"
    BY <2>1 DEF NewChannel
  <2> QED
    BY <1>1, <2>1, <2>2, <2>3 DEF StatusInv, Early
<1>4. CASE ArchiveChannel
  <2>1. /\ list = {} /\ record.status \in {"none"} \union Closing /\ trial.status = "ending"
        /\ \A r \in Runners \ {Trial} : run[r].step = "idle"
    BY <1>1, <1>4 DEF StatusInv, ArchiveChannel
  <2>2. ArchiveInv' /\ Grows
    BY <1>1, <1>4, <2>1, ArchiveChannelKeeps
  <2>3. \A r \in Runners \ {Trial} : run'[r].step = "idle"
    <3>1. PICK step \in {"freeze", "delete"} : Enter(Trial, step)
      <4>1. record.status # "closed"
        BY <1>1, <1>4, <2>1 DEF ArchiveChannel, ArchiveInv, CopyInv, RecordCopied
      <4> QED
        BY <1>4, <2>1, <4>1 DEF ArchiveChannel, Closing
    <3>2. \A r \in Runners \ {Trial} : run'[r] = run[r]
      BY <1>1, <3>1, EnterEffects DEF ArchiveInv, Runners, Steps
    <3> QED
      BY <2>1, <3>2
  <2>4. record'.status \in {"none"} \union Closing
    <3>1. record \in Records
      BY <1>1 DEF ArchiveInv, Typed
    <3>2. record.status # "closed"
      BY <1>1, <1>4, <2>1 DEF ArchiveChannel, ArchiveInv, CopyInv, RecordCopied
    <3>3. Persist("closing") \/ record' = record \/ record' = [record EXCEPT !.clean = TRUE]
      BY <1>4, <2>1, <3>2 DEF ArchiveChannel, Closing
    <3> QED
      BY <2>1, <3>1, <3>3 DEF Persist, Records, Closing
  <2>5. mode' = mode /\ list' = list /\ trial' = trial /\ doing' = "wait"
    BY <1>4 DEF ArchiveChannel
  <2> QED
    BY <1>1, <2>1, <2>2, <2>3, <2>4, <2>5 DEF StatusInv, Early
<1>5. CASE ArchiveMissing
  <2>1. /\ list = {} /\ \A r \in Runners \ {Trial} : run[r].step = "idle"
    BY <1>1 DEF StatusInv
  <2>2. ArchiveInv'
    BY <1>1, <1>5, <2>1, ArchiveMissingKeeps
  <2>3. record'.status = "closed"
    BY <1>1, <1>5 DEF ArchiveMissing, ArchiveInv, Typed, Records
  <2>4. /\ mode' = mode /\ list' = list /\ run' = run
        /\ trial'.status = "removing_role" /\ doing' = "unrole"
    BY <1>1, <1>5 DEF ArchiveMissing, TrialTyped, TrialRecords
  <2> QED
    BY <2>1, <2>2, <2>3, <2>4 DEF StatusInv, Early, Closing
<1>6. CASE ArchiveStep \/ Restart
  <2>1. /\ ArchiveInv' /\ mode' = mode /\ list' = {}
        /\ \A r \in Runners \ {Trial} : run'[r].step = "idle"
        /\ record'.status \in {record.status} \union Closing
        /\ Early => /\ record' = record /\ sent' = sent /\ run'[Trial].step = "idle"
                    /\ archive' = archive /\ source' \in {source, "deleted"}
    BY <1>1, <1>6, ArchiveStepKeeps
  <2>2. trial' = trial /\ doing' \in {doing, "nothing"}
    BY <1>6 DEF ArchiveStep, Restart, trialVars
  <2>3. Early' <=> Early
    BY <2>2 DEF Early
  <2> QED
    BY <1>1, <2>1, <2>2, <2>3 DEF StatusInv
<1> QED
  BY <1>2, <1>3, <1>4, <1>5, <1>6 DEF TrialNext, Proceeds, Aside, Making

LEMMA MadeStep ==
  ASSUME Inv, mode = "trial", TrialNext
  PROVE  MadeInv'
<1>1. MadeInv /\ TrialTyped /\ StatusInv /\ ArchiveInv
  BY InvMeans
<1>2. trial \in TrialRecords /\ panels \in Nat
  BY <1>1 DEF TrialTyped
<1> USE DEF TrialRecords
\* The ids are stored as they were, or as well; the channel is not made anew.
<1>3. ASSUME Exists' => Exists, mode' = mode, trial.channel => trial'.channel,
             trial.message => trial'.message, UNCHANGED <<topic, panels, fresh>>,
             doing' \in {"panel", "scrub"} => trial'.channel,
             doing' = "scrub" => trial'.message
      PROVE  MadeInv'
  BY <1>1, <1>3 DEF MadeInv
<1>4. ASSUME UNCHANGED <<mode, source>> PROVE (Exists' <=> Exists) /\ mode' = mode
  BY <1>4 DEF Exists
<1>5. Aside => UNCHANGED <<mode, source>>
  BY <1>1, AsideKeeps
<1>6. CASE Begin
  BY <1>2, <1>3, <1>4, <1>5, <1>6 DEF Begin, Aside
<1>7. CASE TakeUp
  BY <1>2, <1>3, <1>4, <1>5, <1>7 DEF TakeUp, TakenUp, Aside
<1>8. CASE EndClick
  BY <1>2, <1>3, <1>4, <1>5, <1>8 DEF EndClick, Aside
<1>9. CASE GiveRole
  BY <1>2, <1>3, <1>4, <1>5, <1>9 DEF GiveRole, Aside
<1>10. CASE FindChannel
  BY <1>2, <1>3, <1>4, <1>5, <1>10 DEF FindChannel, Aside
<1>11. CASE CreateChannel
  BY <1>1, <1>2, <1>11 DEF CreateChannel, NewChannel, MadeInv
<1>12. CASE ChannelLost
  BY <1>1, <1>2, <1>12 DEF ChannelLost, NewChannel, MadeInv
<1>13. CASE PublishPanel
  BY <1>1, <1>2, <1>4, <1>5, <1>13 DEF PublishPanel, Aside, PostPanel, Posted, MadeInv
<1>14. CASE PanelLost
  BY <1>1, <1>2, <1>4, <1>5, <1>14 DEF PanelLost, Aside, PostPanel, Posted, MadeInv
<1>15. CASE Scrub
  BY <1>1, <1>2, <1>4, <1>5, <1>15 DEF Scrub, Aside, MadeInv
<1>16. CASE ScrubLost
  BY <1>1, <1>2, <1>4, <1>5, <1>16 DEF ScrubLost, Aside, MadeInv
<1>17. CASE ArchiveChannel
  BY <1>3, <1>4, <1>17 DEF ArchiveChannel, Unchanging
<1>18. CASE ArchiveMissing
  BY <1>2, <1>3, <1>4, <1>18 DEF ArchiveMissing, Unchanging
<1>19. CASE Archive
  BY <1>2, <1>3, <1>4, <1>5, <1>19 DEF Archive, Aside, Unchanging
<1>20. CASE TakeRole
  BY <1>2, <1>3, <1>4, <1>5, <1>20 DEF TakeRole, Aside
<1>21. CASE GiveUp
  BY <1>3, <1>4, <1>5, <1>21 DEF GiveUp, Aside, Unchanging
<1>22. CASE RoleLost
  BY <1>3, <1>4, <1>5, <1>22 DEF RoleLost, Aside
<1>23. CASE Leave
  BY <1>1, <1>3, <1>4, <1>5, <1>23 DEF Leave, Aside, MadeInv
<1>24. CASE ArchiveStep \/ Restart
  <2>1. (Exists' => Exists) /\ mode' = mode
    BY <1>1, <1>24, ArchiveStepKeeps
  <2>2. UNCHANGED <<trial, topic, panels, fresh>> /\ doing' \in {doing, "nothing"}
    BY <1>24 DEF ArchiveStep, Restart, trialVars
  <2> QED
    BY <1>1, <1>3, <2>1, <2>2 DEF MadeInv
<1> QED
  BY <1>6, <1>7, <1>8, <1>9, <1>10, <1>11, <1>12, <1>13, <1>14, <1>15, <1>16, <1>17, <1>18, <1>19,
     <1>20, <1>21, <1>22, <1>23, <1>24 DEF TrialNext, Proceeds

LEMMA EndStep ==
  ASSUME Inv, mode = "trial", TrialNext
  PROVE  TrialEndsInOrder'
<1>1. TrialEndsInOrder /\ TrialTyped /\ StatusInv /\ ArchiveInv
  BY InvMeans
<1>2. trial \in TrialRecords /\ doing \in Working \union {"nothing"}
  BY <1>1 DEF TrialTyped
<1>3. TrialEndsInOrder <=>
         /\ trial.status \in {"removing_role", "closed"} => ~Exists /\ AllArchived
         /\ trial.status = "closed" => role = FALSE
  BY <1>1 DEF TrialEndsInOrder, AllArchived, TrialTyped
\* The trial is not ended by this step, and its archive stays.
<1>4. ASSUME trial'.status \in {trial.status, "none", "creating", "active", "ending"},
             ~Exists /\ AllArchived => ~Exists' /\ AllArchived',
             trial'.status = "closed" => role' \in {role, FALSE}
      PROVE  TrialEndsInOrder'
  <2>1. trial'.status \in {"removing_role", "closed"} => ~Exists' /\ AllArchived'
    BY <1>1, <1>3, <1>4
  <2>2. trial'.status = "closed" => role' = FALSE
    BY <1>1, <1>3, <1>4
  <2>3. (trial'.status \in {"removing_role", "closed"} => ~Exists' /\ AllArchived')
        /\ (trial'.status = "closed" => ~role') => TrialEndsInOrder'
    BY Zenon DEF TrialEndsInOrder, AllArchived
  <2> QED
    BY <2>1, <2>2, <2>3
<1>5. ASSUME UNCHANGED <<source, said, archive, shredded>>
      PROVE  (Exists' <=> Exists) /\ (AllArchived' <=> AllArchived)
  BY <1>5 DEF Exists, AllArchived, Archived
<1>6. Aside => (Exists' <=> Exists) /\ (AllArchived' <=> AllArchived)
  BY <1>1, <1>5, AsideKeeps
<1> USE DEF TrialRecords
<1>7. CASE Begin
  BY <1>2, <1>4, <1>6, <1>7 DEF Begin, Aside
<1>8. CASE TakeUp \/ Leave
  BY <1>4, <1>6, <1>8 DEF TakeUp, Leave, Aside
<1>9. CASE EndClick
  BY <1>2, <1>4, <1>6, <1>9 DEF EndClick, Aside
<1>10. CASE GiveRole
  BY <1>1, <1>4, <1>6, <1>10 DEF GiveRole, Aside, StatusInv
<1>11. CASE FindChannel
  BY <1>2, <1>4, <1>6, <1>11 DEF FindChannel, Aside
<1>12. CASE PublishPanel
  BY <1>2, <1>4, <1>6, <1>12 DEF PublishPanel, Aside
<1>13. CASE PanelLost \/ ScrubLost
  BY <1>4, <1>6, <1>13 DEF PanelLost, ScrubLost, Aside
<1>14. CASE Scrub
  BY <1>2, <1>4, <1>6, <1>14 DEF Scrub, Aside
<1>15. CASE Making
  <2>1. trial'.status = "creating"
    BY <1>1, <1>2, <1>15 DEF Making, CreateChannel, ChannelLost, StatusInv
  <2> QED
    BY <2>1 DEF TrialEndsInOrder
<1>16. CASE ArchiveChannel
  <2>1. trial'.status = "ending"
    BY <1>1, <1>16 DEF ArchiveChannel, StatusInv
  <2> QED
    BY <2>1 DEF TrialEndsInOrder
<1>17. CASE ArchiveMissing
  <2>1. ~Exists' /\ AllArchived'
    BY <1>1, <1>17, ArchiveMissingKeeps DEF StatusInv
  <2>2. trial'.status = "removing_role"
    BY <1>2, <1>17 DEF ArchiveMissing
  <2> QED
    BY <2>1, <2>2 DEF TrialEndsInOrder, AllArchived
<1>18. CASE Archive
  <2>1. ~Exists /\ AllArchived
    BY <1>1, <1>18 DEF Archive, ArchiveInv, CopyInv, RecordCopied
  <2>2. ~Exists' /\ AllArchived'
    BY <1>6, <1>18, <2>1 DEF Aside
  <2>3. trial'.status = "removing_role"
    BY <1>2, <1>18 DEF Archive
  <2> QED
    BY <2>2, <2>3 DEF TrialEndsInOrder, AllArchived
<1>19. CASE TakeRole
  <2>1. ~Exists /\ AllArchived
    BY <1>1, <1>3, <1>19 DEF TakeRole, StatusInv
  <2>2. ~Exists' /\ AllArchived' /\ role' = FALSE
    BY <1>6, <1>19, <2>1 DEF Aside, TakeRole
  <2> QED
    BY <2>2 DEF TrialEndsInOrder, AllArchived
<1>20. CASE GiveUp
  BY <1>4, <1>6, <1>20 DEF GiveUp, Aside, Unchanging
<1>21. CASE RoleLost
  BY <1>1, <1>4, <1>6, <1>21 DEF RoleLost, Aside, StatusInv
<1>22. CASE ArchiveStep \/ Restart
  <2>1. (Exists' => Exists) /\ (~Exists /\ AllArchived => AllArchived')
    BY <1>1, <1>22, ArchiveStepKeeps
  <2>2. UNCHANGED <<trial, role>>
    BY <1>22 DEF ArchiveStep, Restart, trialVars
  <2> QED
    BY <1>4, <2>1, <2>2
<1> QED
  BY <1>7, <1>8, <1>9, <1>10, <1>11, <1>12, <1>13, <1>14, <1>15, <1>16, <1>17, <1>18, <1>19, <1>20,
     <1>21, <1>22 DEF TrialNext, Proceeds, Making

-----------------------------------------------------------------------------
(* The invariant holds                                                     *)

LEMMA InvInit == ChannelInit => Inv
<1> SUFFICES ASSUME ChannelInit PROVE Inv
  OBVIOUS
<1> USE DEF ChannelInit, Unbegun, Init, TrialInit
<1>1. /\ mode \in Modes
      /\ record \in {NoRecord, [NoRecord EXCEPT !.status = "open"]}
      /\ mode = "trial" => record = NoRecord /\ source = "none"
      /\ source \in {"none", "open"}
      /\ source = "none" => mode = "trial"
      /\ writable \in BOOLEAN /\ said = 0 /\ sent = 0
      /\ archive = [a \in Anchors |-> Untold] /\ shredded = {}
      /\ run = [r \in Runners |-> Idle] /\ list = {} /\ raced = FALSE /\ reopened = FALSE
      /\ faults = 0
  BY DEF Modes
<1>2. NoRecord \in Records /\ NoRecord.anchor = 0 /\ NoRecord.checkpoint = 0
      /\ NoRecord.status = "none"
  BY DEF NoRecord, Records, Status
<1>3. record \in Records /\ record.anchor = 0 /\ record.checkpoint = 0
      /\ record.status \in {"none", "open"}
  BY <1>1, <1>2 DEF Records, Status
<1>4. Untold \in Threads /\ Untold.marked = {} /\ Untold.thread = FALSE
      /\ \A p \in Pieces : Untold.posted[p] = 0
  BY DEF Untold, Threads
<1>5. \A r \in Runners : run[r].step = "idle" /\ run[r].anchor = 0
  BY <1>1, IdleTask
<1>6. Typed
  <2>1. archive \in [Anchors -> Threads]
    BY <1>1, <1>4
  <2>2. run \in [Runners -> Tasks]
    BY <1>1, IdleTask
  <2>3. said \in 0 .. MaxSaid /\ sent \in 0 .. MaxAnchors /\ faults \in 0 .. MaxFaults[mode]
    BY <1>1, ArchiveAssumption
  <2> QED
    BY <1>1, <1>3, <2>1, <2>2, <2>3 DEF Typed, Sources
<1>7. LockInv
  BY <1>1, <1>5 DEF LockInv, ClosedIsLocked
<1>8. CopyInv
  <2>1. RecordCopied(record)
    BY <1>1, <1>3 DEF RecordCopied
  <2>2. \A a \in Anchors : AnchorCopied(a)
    BY <1>1, <1>4 DEF AnchorCopied, Pieces, Complete
  <2>3. \A r \in Runners : RunCopied(r)
    BY <1>5 DEF RunCopied
  <2> QED
    BY <1>1, <2>1, <2>2, <2>3 DEF CopyInv
<1>9. OnceInv
  <2>1. \A p \in Texts : p \in Pieces
    BY DEF Texts, Pieces, Complete
  <2>2. SentOnce /\ AnchorSent /\ OneRunner
    BY <1>1, <1>3, <1>4, <1>5, <2>1 DEF SentOnce, AnchorSent, OneRunner
  <2>3. FoundAgain
    BY <1>1, <1>3, <1>4, <2>1 DEF FoundAgain, Anchors
  <2>4. \A r \in Runners : RunOnce(r)
    BY <1>1, <1>5 DEF RunOnce
  <2> QED
    BY <2>2, <2>3, <2>4 DEF OnceInv, Once
<1>10. TrialTyped /\ trial.status = "none"
  BY DEF TrialTyped, TrialRecords, NoTrial, Working
<1>11. StatusInv
  BY <1>1, <1>2, <1>5, <1>10 DEF StatusInv, Runners
<1>12. MadeInv /\ TrialEndsInOrder
  BY <1>1, <1>10 DEF MadeInv, TrialEndsInOrder, Exists
<1> QED
  BY <1>6, <1>7, <1>8, <1>9, <1>10, <1>11, <1>12, InvMeans DEF ArchiveInv

LEMMA InvStep == Inv /\ [ChannelNext]_allVars => Inv'
<1> SUFFICES ASSUME Inv, [ChannelNext]_allVars PROVE Inv'
  OBVIOUS
<1>1. ArchiveInv /\ TrialTyped /\ StatusInv /\ MadeInv /\ TrialEndsInOrder
  BY InvMeans
<1>5. ArchiveInv' /\ TrialTyped' /\ StatusInv' /\ MadeInv' /\ TrialEndsInOrder' => Inv'
  BY InvMeans, PTL
<1>6. TrialTyped'
  BY <1>1, TrialTypes DEF ChannelNext, allVars
<1>2. CASE mode = "trial" /\ TrialNext
  BY <1>2, <1>5, <1>6, StatusStep, MadeStep, EndStep
<1>3. CASE mode # "trial" /\ Next /\ UNCHANGED trialVars
  <2>1. ArchiveInv' /\ mode' = mode /\ source' # "none"
    BY <1>1, <1>3, ArchiveNext DEF StatusInv
  <2>2. StatusInv'
    BY <1>1, <1>3, <2>1 DEF StatusInv, trialVars
  <2>3. MadeInv' /\ TrialEndsInOrder'
    BY <1>1, <1>3, <2>1 DEF StatusInv, MadeInv, TrialEndsInOrder, trialVars
  <2> QED
    BY <1>5, <1>6, <2>1, <2>2, <2>3
<1>4. CASE UNCHANGED allVars
  <2>1. UNCHANGED <<mode, record, channel, threads, run, list, ghosts, faults>>
        /\ UNCHANGED trialVars
    BY <1>4 DEF allVars, vars
  <2>2. ArchiveInv'
    BY <1>1, <2>1, ArchiveUnmoved
  <2>3. StatusInv' /\ MadeInv' /\ TrialEndsInOrder'
    BY <1>1, <2>1
       DEF StatusInv, Early, MadeInv, TrialEndsInOrder, Exists, Archived, trialVars
  <2> QED
    BY <1>5, <1>6, <2>2, <2>3
<1> QED
  BY <1>2, <1>3, <1>4 DEF ChannelNext

\* What is said of records, threads and runners of an archive holds always, in
\* trials too.
THEOREM Invariant == ChannelSpec => []Inv
BY InvInit, InvStep, PTL DEF ChannelSpec

\* The trial, its channel and its role are given up in order (_complete_end,
\* archive_trial_channel): the role when the transcript is complete and the
\* channel gone.
THEOREM EndsInOrder == ChannelSpec => []TrialAgrees
<1>1. Inv => TrialAgrees
  BY DEF Inv, TrialAgrees, LockInv
<1> QED
  BY Invariant, <1>1, PTL

\* Once a ticket or trial is stored as archived, each message is in the archive:
\* whoever closes, takes up or reconciles it, and wherever that breaks off.
THEOREM NothingIsLost == ChannelSpec => []DeletedOnlyWhenCopied
<1>1. Inv => DeletedOnlyWhenCopied
  BY DEF Inv, CopyInv, RecordCopied, AllArchived, DeletedOnlyWhenCopied
<1> QED
  BY Invariant, <1>1, PTL

\* The resumed archive finds by stored progress and markers what it posted
\* before, as long as no two runners meet: no text is posted twice.
THEOREM NothingTwice == ChannelSpec => []CopiedOnce
<1>1. ASSUME Inv PROVE CopiedOnce
  <2> SUFFICES ASSUME ~raced, NEW p \in (1 .. MaxSaid) \ Files, NEW a \in Anchors, NEW b \in Anchors
               PROVE  /\ archive[a].posted[p] <= 1
                      /\ archive[a].posted[p] > 0 /\ archive[b].posted[p] > 0 => a = b
    BY DEF CopiedOnce
  <2>1. p \in Texts /\ p \in Pieces
    BY DEF Texts, Pieces, Complete
  <2>2. CASE mode = "legacy"
    <3>1. archive[a] = Untold /\ archive[b] = Untold
      BY <1>1, <2>2 DEF Inv, CopyInv, AnchorCopied
    <3> QED
      BY <2>1, <3>1 DEF Untold
  <2>3. CASE mode # "legacy"
    <3>1. SentOnce
      BY <1>1, <2>3 DEF Inv, OnceInv, Once
    <3>2. sent \in Nat
      BY <1>1 DEF Inv, TrialTypeOK, TypeOK
    <3>3. \A c \in Anchors : archive[c].posted[p] > 0 => c = 1
      BY <2>1, <3>1, <3>2 DEF SentOnce, Untold, Anchors
    <3> QED
      BY <2>1, <3>1, <3>3 DEF SentOnce
  <2> QED
    BY <2>2, <2>3
<1> QED
  BY Invariant, <1>1, PTL

\* However often the creation of a trial is taken up (_resume_creation), it
\* makes a channel only when there is none, and a panel only in an empty one.
THEOREM MadeOnce == ChannelSpec => TrialMadeOnce
<1>1. ASSUME Inv, [ChannelNext]_allVars
      PROVE  [(channels' > channels => ~Exists) /\ (panels' > panels => panels = 0)]_allVars
  <2>1. MadeInv /\ panels \in Nat /\ channels \in Nat
    BY <1>1 DEF Inv, TrialTypeOK
  <2>2. CASE NewChannel /\ mode = "trial"
    BY <2>1, <2>2 DEF NewChannel, Unmarked, MadeInv
  <2>3. CASE PostPanel /\ channels' = channels
    BY <2>1, <2>3 DEF PostPanel, Posted, MadeInv
  <2>4. CASE UNCHANGED <<panels, channels>>
    BY <2>1, <2>4
  <2>5. \/ NewChannel /\ mode = "trial"
        \/ PostPanel /\ channels' = channels
        \/ UNCHANGED <<panels, channels>>
    BY <1>1 DEF ChannelNext, TrialNext, Proceeds, Begin, TakeUp, EndClick, GiveRole, FindChannel,
         CreateChannel, ChannelLost, PublishPanel, PanelLost, Scrub, ScrubLost, ArchiveChannel,
         ArchiveMissing, Archive, TakeRole, GiveUp, Unchanging, RoleLost, Leave, ArchiveStep,
         Restart, allVars, trialVars
  <2> QED
    BY <2>2, <2>3, <2>4, <2>5
<1> QED
  BY Invariant, <1>1, PTL DEF ChannelSpec, TrialMadeOnce
=============================================================================

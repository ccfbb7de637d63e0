------------------------- MODULE TicketCreationProofs -------------------------
(***************************************************************************)
(* Opening tickets, for any number of creations, members, channels made,   *)
(* deletions and crashes.                                                  *)
(***************************************************************************)
EXTENDS TicketCreation, TLAPS

USE CreationAssumption DEF CreationAssumption, discord, ghosts

-----------------------------------------------------------------------------
(* The invariant                                                           *)

Works(r, o) == run[r].step # "idle" /\ run[r].op = o

\* An attempt of a click is about its own creation.
Assigned ==
    \A r \in Runners : run[r].step # "idle" => run[r].op \in Ops /\ r \in {Sweep, run[r].op}

\* One attempt per creation, and only for a stored intent.
Attempted(o) ==
    /\ \A r, q \in Runners : Works(r, o) /\ Works(q, o) => r = q
    /\ \A r \in Runners : Works(r, o) => creation[o].status # "none"

\* Before the intent is stored nothing of the creation exists.
Stored(o) ==
    /\ click[o] \in {"idle", "selecting", "clear"} => creation[o].status = "none"
    /\ creation[o].status = "none" =>
          /\ creation[o].payload = Empty /\ alive[o] = {}
          /\ \A part \in Parts : sent[o][part] = 0
    /\ creation[o].status = "cancelled" => ~active

\* What a payload knows tells how far the creation has come.
Known(o) ==
    /\ creation[o].status \in Pending => "stats" \notin creation[o].payload.known
    /\ creation[o].status = "completed" => creation[o].payload.known = Parts
    /\ \A s \in list : s.op = o => "stats" \notin s.payload.known /\ creation[o].status # "none"
    /\ \A r \in Runners : Works(r, o) =>
          /\ run[r].step = "clean" <=> "stats" \in run[r].payload.known
          /\ run[r].step \in {"stats", "clean"} => "control" \in run[r].payload.known

\* The channel and the messages of a creation are the ones its record leads to.
Found(o) ==
    /\ \A c, d \in alive[o] : c = d
    /\ alive[o] \subseteq topic[o] \union {creation[o].payload.channel}
    /\ \A part \in Parts :
          /\ sent[o][part] <= 1
          /\ sent[o][part] > 0 => part \in creation[o].payload.known \union marked[o]
          /\ creation[o].status = "completed" => sent[o][part] > 0

\* An attempt works on the record as it is.
Fresh(r, o) ==
    /\ run[r].payload = creation[o].payload
    /\ run[r].step = "creating" => alive[o] = {} /\ creation[o].status \in Pending
    /\ run[r].step \in {"stats", "clean"} => sent[o]["control"] > 0
    /\ run[r].step = "clean" => sent[o]["stats"] > 0

CreationInv(o) ==
    /\ Attempted(o) /\ Stored(o) /\ Known(o)
    /\ o \notin stale => Found(o) /\ \A r \in Runners : Works(r, o) => Fresh(r, o)

\* A creation that has a channel or may still get one.
Possible(o) ==
    alive[o] # {} \/ click[o] \in {"clear", "working"} \/ creation[o].status \in Pending

\* Of two creations of one member only one is possible.
RivalInv ==
    \A o \in Ops : \A p \in Rivals(o) :
        o \notin unseen \union stale /\ p \notin unseen \union stale
            => ~(Possible(o) /\ Possible(p))

Safe == Assigned /\ RivalInv /\ \A o \in Ops : CreationInv(o)

Inv == TypeOK /\ Safe

-----------------------------------------------------------------------------
(* Types                                                                   *)

Creations == [status : Pending \union {"none", "completed", "cancelled"},
              payload : Payload, removed : BOOLEAN]
Attempts  == [step : {"idle", "creating", "control", "stats", "clean"},
              op : Runners, payload : Payload]

LEMMA PayloadTypes ==
  /\ Empty \in Payload
  /\ \A payload \in Payload : payload.channel \in 0 .. MaxMade /\ payload.known \subseteq Parts
  /\ \A payload \in Payload, c \in 0 .. MaxMade :
        LET found == [payload EXCEPT !.channel = c] IN
        found \in Payload /\ found.channel = c /\ found.known = payload.known
  /\ \A payload \in Payload, p \in Parts :
        LET posted == [payload EXCEPT !.known = @ \union {p}] IN
        /\ posted \in Payload /\ posted.channel = payload.channel
        /\ posted.known = payload.known \union {p}
BY DEF Payload, Empty

LEMMA TypeInit == Init => TypeOK
BY PayloadTypes DEF Init, TypeOK, Runners, Idle

\* An attempt keeps what it works on in its domain.
LEMMA RunTypes ==
  ASSUME TypeOK, NEW r \in Runners
  PROVE  /\ run[r].step \in {"idle", "creating", "control", "stats", "clean"}
         /\ run[r].op \in Runners /\ run[r].payload \in Payload
         /\ Idle \in Attempts
BY PayloadTypes DEF TypeOK, Runners, Idle, Attempts

\* Posting a message keeps the messages in their domain.
LEMMA PostTypes ==
  ASSUME TypeOK, NEW o \in Ops, NEW part \in Parts, NEW payload \in Payload, Post(o, part, payload)
  PROVE  /\ sent' \in [Ops -> [Parts -> Nat]]
         /\ marked' \in [Ops -> SUBSET Parts]
<1>1. sent \in [Ops -> [Parts -> Nat]] /\ marked \in [Ops -> SUBSET Parts]
  BY DEF TypeOK
<1>2. CASE UNCHANGED <<sent, marked>>
  BY <1>1, <1>2
<1>3. CASE /\ sent' = [sent EXCEPT ![o][part] = @ + 1]
           /\ marked' = [marked EXCEPT ![o] = @ \union {part}]
  <2>1. sent[o] \in [Parts -> Nat] /\ marked[o] \in SUBSET Parts
    BY <1>1
  <2>2. [sent[o] EXCEPT ![part] = @ + 1] \in [Parts -> Nat]
    BY <2>1
  <2>3. sent' = [sent EXCEPT ![o] = [sent[o] EXCEPT ![part] = @ + 1]]
    BY <1>3
  <2> QED
    BY <1>1, <1>3, <2>1, <2>2, <2>3
<1> QED
  BY <1>2, <1>3 DEF Post

LEMMA NewChannelTypes ==
  ASSUME TypeOK, NEW o \in Ops, NewChannel(o)
  PROVE  /\ made[o] + 1 \in 0 .. MaxMade
         /\ alive' \in [Ops -> SUBSET (1 .. MaxMade)]
         /\ made' \in [Ops -> 0 .. MaxMade]
         /\ topic' \in [Ops -> SUBSET (1 .. MaxMade)]
         /\ sent' \in [Ops -> [Parts -> Nat]]
         /\ marked' \in [Ops -> SUBSET Parts]
<1>1. made[o] + 1 \in 1 .. MaxMade
  BY DEF TypeOK, NewChannel
<1> QED
  BY <1>1 DEF TypeOK, NewChannel

LEMMA RecordTypes ==
  ASSUME TypeOK, NEW o \in Ops, NEW status \in Pending \union {"completed"},
         NEW payload \in Payload, Record(o, status, payload)
  PROVE  creation' \in [Ops -> Creations]
BY DEF TypeOK, Record, Creations

\* Only the status of a record changes.
LEMMA StatusTypes ==
  ASSUME TypeOK, NEW o \in Ops, NEW status \in Pending \union {"cancelled"},
         creation' = [creation EXCEPT ![o].status = status]
  PROVE  /\ creation' \in [Ops -> Creations]
         /\ creation'[o].status = status /\ creation'[o].payload = creation[o].payload
         /\ \A q \in Ops \ {o} : creation'[q] = creation[q]
<1>1. creation \in [Ops -> Creations] /\ creation[o] \in Creations
  BY DEF TypeOK, Creations
<1>2. creation' = [creation EXCEPT ![o] = [creation[o] EXCEPT !.status = status]]
  OBVIOUS
<1>3. /\ [creation[o] EXCEPT !.status = status] \in Creations
      /\ [creation[o] EXCEPT !.status = status].status = status
      /\ [creation[o] EXCEPT !.status = status].payload = creation[o].payload
  BY <1>1 DEF Creations
<1> QED
  BY <1>1, <1>2, <1>3

LEMMA ProceedTypes ==
  ASSUME TypeOK, NEW r \in Runners, NEW o \in Ops, NEW payload \in Payload,
         NEW step \in {"creating", "control", "stats", "clean"}, Proceed(r, step, o, payload)
  PROVE  /\ run' \in [Runners -> Attempts]
         /\ click' = click
BY DEF TypeOK, Proceed, Runners, Attempts

LEMMA LeaveTypes ==
  ASSUME TypeOK, NEW r \in Runners, Leave(r)
  PROVE  /\ run' \in [Runners -> Attempts]
         /\ click' \in [Ops -> {"idle", "selecting", "clear", "working", "done"}]
BY RunTypes DEF TypeOK, Leave, Attempts

\* An entry of the reconciler's list.
LEMMA ListTypes ==
  ASSUME TypeOK, NEW s \in list
  PROVE  s.op \in Ops /\ s.payload \in Payload
BY DEF TypeOK

LEMMA LocatedTypes ==
  ASSUME TypeOK, NEW o \in Ops, NEW payload \in Payload, NEW c \in Located(o, payload)
  PROVE  c \in alive[o] /\ c \in 0 .. MaxMade
BY DEF TypeOK, Located

\* An attempt that is not over works on a creation.
LEMMA TypeStep == TypeOK /\ Assigned /\ [Next]_vars => TypeOK'
<1> SUFFICES ASSUME TypeOK, Assigned, [Next]_vars PROVE TypeOK'
  OBVIOUS
<1> USE DEF Creations, Attempts
<1>1. ASSUME NEW o \in Ops, Handler(o) PROVE TypeOK'
  <2>1. CASE Modal(o)
    BY <2>1 DEF Modal, TypeOK
  <2>2. CASE Search(o)
    <3>1. Forget(o) \in [Ops -> {"none", "creating", "open", "missing", "closed"}]
      BY DEF Forget, TypeOK
    <3>2. ticket' \in [Ops -> {"none", "creating", "open", "missing", "closed"}]
      BY <2>2, <3>1 DEF Search, TypeOK
    <3>3. unseen' \subseteq Ops /\ click' \in [Ops -> {"idle", "selecting", "clear", "working", "done"}]
      BY <2>2 DEF Search, Rivals, TypeOK
    <3> QED
      BY <2>2, <3>2, <3>3 DEF Search, TypeOK
  <2>3. CASE Persist(o)
    <3>1. creation' \in [Ops -> Creations]
      BY <2>3, StatusTypes DEF Persist, TypeOK, Pending, Creations
    <3>2. run' \in [Runners -> Attempts]
      <4>1. [step |-> "creating", op |-> o, payload |-> Empty] \in Attempts /\ o \in Runners
        BY PayloadTypes DEF Attempts, Runners
      <4>2. run \in [Runners -> Attempts]
        BY DEF TypeOK, Attempts
      <4> QED
        BY <2>3, <4>1, <4>2 DEF Persist
    <3> QED
      BY <2>3, <3>1, <3>2 DEF Persist, TypeOK, Creations, Attempts
  <2> QED
    BY <1>1, <2>1, <2>2, <2>3 DEF Handler
<1>2. ASSUME NEW r \in Runners, Attempt(r) PROVE TypeOK'
  <2> DEFINE o == run[r].op
  <2>1. o \in Ops /\ run[r].payload \in Payload
    <3>1. run[r].step # "idle"
      BY <1>2 DEF Attempt, ChannelMade, ChannelLost, ControlPosted, StatsPosted, MessageLost,
                  Cleaned, CleaningLost, Parts
    <3> QED
      BY <3>1, RunTypes DEF Assigned
  <2>2. CASE ChannelMade(r)
    <3>1. made[o] + 1 \in 0 .. MaxMade
      BY <2>1, <2>2, NewChannelTypes DEF ChannelMade
    <3>2. [run[r].payload EXCEPT !.channel = made[o] + 1] \in Payload
      BY <2>1, <3>1, PayloadTypes
    <3> QED
      BY <2>1, <2>2, <3>2, NewChannelTypes, RecordTypes, ProceedTypes
         DEF ChannelMade, TypeOK, Pending
  <2>3. CASE ChannelLost(r)
    BY <2>1, <2>3, NewChannelTypes, LeaveTypes DEF ChannelLost, TypeOK
  <2>4. CASE ControlPosted(r)
    <3>1. [run[r].payload EXCEPT !.known = @ \union {"control"}] \in Payload /\ "control" \in Parts
      BY <2>1, PayloadTypes DEF Parts
    <3> QED
      BY <2>1, <2>4, <3>1, PostTypes, RecordTypes, ProceedTypes DEF ControlPosted, TypeOK, Pending
  <2>5. CASE StatsPosted(r)
    <3>1. [run[r].payload EXCEPT !.known = @ \union {"stats"}] \in Payload /\ "stats" \in Parts
      BY <2>1, PayloadTypes DEF Parts
    <3> QED
      BY <2>1, <2>5, <3>1, PostTypes, RecordTypes, ProceedTypes DEF StatsPosted, TypeOK, Pending
  <2>6. CASE MessageLost(r)
    BY <2>1, <2>6, PostTypes, LeaveTypes DEF MessageLost, TypeOK
  <2>7. CASE Cleaned(r)
    BY <2>1, <2>7, LeaveTypes DEF Cleaned, Scrub, TypeOK
  <2>8. CASE CleaningLost(r)
    BY <2>8, LeaveTypes DEF CleaningLost, TypeOK
  <2> QED
    BY <1>2, <2>2, <2>3, <2>4, <2>5, <2>6, <2>7, <2>8 DEF Attempt
<1>3. ASSUME Reconcile PROVE TypeOK'
  <2>1. CASE ListPending
    BY <2>1 DEF ListPending, Snapshot, TypeOK
  <2>2. ASSUME NEW s \in list, Cancel(s) PROVE TypeOK'
    <3>1. creation' \in [Ops -> Creations]
      BY <2>2, ListTypes, StatusTypes DEF Cancel
    <3>2. alive' \in [Ops -> SUBSET (1 .. MaxMade)]
      BY <2>2, ListTypes DEF Cancel, TypeOK
    <3> QED
      BY <2>2, <3>1, <3>2, ListTypes DEF Cancel, Listed, TypeOK, Creations
  <2>3. ASSUME NEW s \in list, Retry(s) PROVE TypeOK'
    BY <2>3, ListTypes, ProceedTypes DEF Retry, Listed, TypeOK, Runners
  <2>4. ASSUME NEW s \in list, Resume(s) PROVE TypeOK'
    <3>1. s.op \in Ops /\ s.payload \in Payload /\ Sweep \in Runners
      BY ListTypes DEF Runners
    <3>2. PICK c \in Located(s.op, s.payload) :
             /\ Record(s.op, "channel_ready", [s.payload EXCEPT !.channel = c])
             /\ Proceed(Sweep, "control", s.op, [s.payload EXCEPT !.channel = c])
      BY <2>4 DEF Resume
    <3>3. [s.payload EXCEPT !.channel = c] \in Payload
      BY <3>1, LocatedTypes, PayloadTypes
    <3> QED
      BY <2>4, <3>1, <3>2, <3>3, RecordTypes, ProceedTypes DEF Resume, Listed, TypeOK, Pending
  <2>5. ASSUME NEW s \in list, Skip(s) PROVE TypeOK'
    BY <2>5, ListTypes DEF Skip, Listed, TypeOK
  <2>6. ASSUME NEW o \in Ops, CleanCompleted(o) PROVE TypeOK'
    <3>1. creation' \in [Ops -> Creations]
      <4>1. creation \in [Ops -> Creations] /\ creation[o] \in Creations
        BY DEF TypeOK, Creations
      <4>2. [creation[o] EXCEPT !.removed = TRUE] \in Creations
        BY <4>1 DEF Creations
      <4>3. creation' = [creation EXCEPT ![o] = [creation[o] EXCEPT !.removed = TRUE]]
        BY <2>6 DEF CleanCompleted
      <4> QED
        BY <4>1, <4>2, <4>3
    <3>2. topic' \in [Ops -> SUBSET (1 .. MaxMade)] /\ marked' \in [Ops -> SUBSET Parts]
      <4>1. CASE UNCHANGED discord
        BY <4>1 DEF TypeOK
      <4>2. CASE Scrub(o, creation[o].payload.channel)
        BY <4>2 DEF Scrub, TypeOK
      <4> QED
        BY <2>6, <4>1, <4>2 DEF CleanCompleted
    <3>3. UNCHANGED <<alive, made, sent>>
      BY <2>6 DEF CleanCompleted, Scrub
    <3> QED
      BY <2>6, <3>1, <3>2, <3>3 DEF CleanCompleted, TypeOK, Creations
  <2> QED
    BY <1>3, <2>1, <2>2, <2>3, <2>4, <2>5, <2>6 DEF Reconcile
<1>4. ASSUME Surroundings PROVE TypeOK'
  <2>1. CASE Deactivate
    BY <2>1 DEF Deactivate, TypeOK
  <2>2. CASE Crash
    BY <2>2, RunTypes DEF Crash, TypeOK
  <2>3. ASSUME NEW o \in Ops, Close(o) PROVE TypeOK'
    BY <2>3 DEF Close, TypeOK
  <2>4. ASSUME NEW o \in Ops, Delete(o) PROVE TypeOK'
    BY <2>4 DEF Delete, TypeOK
  <2> QED
    BY <1>4, <2>1, <2>2, <2>3, <2>4 DEF Surroundings
<1>5. CASE UNCHANGED vars
  BY <1>5 DEF vars, TypeOK
<1> QED
  BY <1>1, <1>2, <1>3, <1>4, <1>5 DEF Next
-----------------------------------------------------------------------------
(* Steps that concern one creation                                         *)

\* Nothing changes for the other creations, and no attempt at one begins.
Elsewhere(o) ==
    /\ \A q \in Ops \ {o} :
          /\ creation'[q] = creation[q] /\ alive'[q] = alive[q] /\ topic'[q] = topic[q]
          /\ sent'[q] = sent[q] /\ marked'[q] = marked[q] /\ click'[q] = click[q]
    /\ \A r \in Runners :
          run'[r] = run[r] \/ run'[r].step = "idle" \/ (run'[r].op = o /\ r \in {Sweep, o})

\* The list only shrinks, and what the history variables exclude only grows.
Monotone ==
    /\ active' = active
    /\ list' \subseteq list
    /\ stale \subseteq stale'
    /\ unseen \subseteq unseen'

\* Such a step is safe when the creation it is about stays so.
LEMMA LocalStep ==
  ASSUME TypeOK, Safe, NEW o \in Ops, Elsewhere(o), Monotone, CreationInv(o)',
         o \notin unseen' \union stale' => (Possible(o)' => Possible(o))
  PROVE  Safe'
<1>1. Assigned'
  BY DEF Safe, Assigned, Elsewhere
<1>2. ASSUME NEW q \in Ops \ {o} PROVE CreationInv(q)'
  <2>1. CreationInv(q) /\ Assigned
    BY DEF Safe
  <2>2. /\ creation'[q] = creation[q] /\ alive'[q] = alive[q] /\ topic'[q] = topic[q]
        /\ sent'[q] = sent[q] /\ marked'[q] = marked[q] /\ click'[q] = click[q]
    BY DEF Elsewhere
  <2>3. \A r \in Runners : Works(r, q)' => run'[r] = run[r] /\ Works(r, q)
    BY DEF Elsewhere, Works
  <2>4. Attempted(q)'
    BY <2>1, <2>2, <2>3 DEF CreationInv, Attempted
  <2>5. Stored(q)'
    BY <2>1, <2>2 DEF CreationInv, Stored, Monotone
  <2>6. Known(q)'
    BY <2>1, <2>2, <2>3 DEF CreationInv, Known, Monotone
  <2>7. Found(q) => Found(q)'
    BY <2>2 DEF Found
  <2>8. \A r \in Runners : Works(r, q)' /\ Fresh(r, q) => Fresh(r, q)'
    BY <2>2, <2>3 DEF Fresh
  <2> QED
    BY <2>1, <2>3, <2>4, <2>5, <2>6, <2>7, <2>8 DEF CreationInv, Monotone
<1>3. \A q \in Ops \ {o} : Possible(q)' => Possible(q)
  BY DEF Elsewhere, Possible
<1>4. RivalInv'
  <2> SUFFICES ASSUME NEW p \in Ops, NEW q \in Rivals(p),
                      p \notin unseen' \union stale', q \notin unseen' \union stale'
               PROVE  ~(Possible(p)' /\ Possible(q)')
    BY DEF RivalInv, Rivals
  <2>1. p \notin unseen \union stale /\ q \notin unseen \union stale /\ q \in Ops
    BY DEF Monotone, Rivals
  <2>2. ~(Possible(p) /\ Possible(q))
    BY <2>1 DEF Safe, RivalInv
  <2>3. (Possible(p)' => Possible(p)) /\ (Possible(q)' => Possible(q))
    BY <1>3, <2>1
  <2> QED
    BY <2>2, <2>3
<1> QED
  BY <1>1, <1>2, <1>4 DEF Safe

\* What a step of an attempt may do to the runners and the clicks.
LEMMA RunEffects ==
  ASSUME TypeOK, Safe, NEW r \in Runners, NEW o \in Ops, Works(r, o)
  PROVE  /\ r \in {Sweep, o}
         /\ \A q \in Runners : Works(q, o) => q = r
         /\ Leave(r) =>
               /\ \A q \in Runners : ~Works(q, o)'
               /\ \A q \in Runners : run'[q] = run[q] \/ run'[q].step = "idle"
               /\ \A q \in Ops \ {o} : click'[q] = click[q]
               /\ click'[o] \in {click[o], "done"}
         /\ \A step, payload : step # "idle" /\ Proceed(r, step, o, payload) =>
               /\ \A q \in Runners : Works(q, o)' => q = r
               /\ run'[r].step = step /\ run'[r].op = o /\ run'[r].payload = payload
               /\ \A q \in Runners : run'[q] = run[q] \/ (q = r /\ run'[q].op = o)
               /\ click' = click
<1>1. r \in {Sweep, o}
  BY DEF Safe, Assigned, Works
<1>2. \A q \in Runners : Works(q, o) => q = r
  BY DEF Safe, CreationInv, Attempted
<1>3. ASSUME Leave(r)
      PROVE  /\ \A q \in Runners : ~Works(q, o)'
             /\ \A q \in Runners : run'[q] = run[q] \/ run'[q].step = "idle"
             /\ \A q \in Ops \ {o} : click'[q] = click[q]
             /\ click'[o] \in {click[o], "done"}
  <2>1. \A q \in Runners : run'[q] = IF q = r THEN Idle ELSE run[q]
    BY <1>3 DEF Leave, TypeOK
  <2>2. Idle.step = "idle"
    BY DEF Idle
  <2>3. \A q \in Runners : ~Works(q, o)'
    BY <1>2, <2>1, <2>2 DEF Works
  <2>4. \A q \in Ops : click'[q] = IF q = r THEN "done" ELSE click[q]
    BY <1>3 DEF Leave
  <2> QED
    BY <1>1, <2>1, <2>2, <2>3, <2>4
<1>4. ASSUME NEW step, NEW payload, step # "idle", Proceed(r, step, o, payload)
      PROVE  /\ \A q \in Runners : Works(q, o)' => q = r
             /\ run'[r].step = step /\ run'[r].op = o /\ run'[r].payload = payload
             /\ \A q \in Runners : run'[q] = run[q] \/ (q = r /\ run'[q].op = o)
             /\ click' = click
  <2>1. \A q \in Runners : run'[q] = IF q = r THEN [step |-> step, op |-> o, payload |-> payload]
                                     ELSE run[q]
    BY <1>4 DEF Proceed, TypeOK
  <2> QED
    BY <1>2, <1>4, <2>1 DEF Works, Proceed
<1> QED
  BY <1>1, <1>2, <1>3, <1>4

\* Storing a record.
LEMMA RecordEffects ==
  ASSUME TypeOK, NEW o \in Ops, NEW status, NEW payload, Record(o, status, payload)
  PROVE  /\ creation'[o].status = status /\ creation'[o].payload = payload
         /\ \A q \in Ops \ {o} : creation'[q] = creation[q]
BY DEF TypeOK, Record

\* A new channel is the only one when there was none.
LEMMA NewChannelEffects ==
  ASSUME TypeOK, NEW o \in Ops, NewChannel(o)
  PROVE  /\ alive[o] = {} => alive'[o] = {made[o] + 1}
         /\ made[o] + 1 \in topic'[o]
         /\ \A part \in Parts : sent'[o][part] = 0
         /\ \A q \in Ops \ {o} : /\ alive'[q] = alive[q] /\ topic'[q] = topic[q]
                                /\ sent'[q] = sent[q] /\ marked'[q] = marked[q]
BY DEF TypeOK, NewChannel

LEMMA PostElsewhere ==
  ASSUME TypeOK, NEW o \in Ops, NEW part \in Parts, NEW payload \in Payload, Post(o, part, payload)
  PROVE  \A q \in Ops \ {o} : sent'[q] = sent[q] /\ marked'[q] = marked[q]
BY DEF TypeOK, Post

\* A message is posted once when an earlier one can be found.
LEMMA PostEffects ==
  ASSUME TypeOK, NEW o \in Ops, NEW part \in Parts, NEW payload \in Payload, Post(o, part, payload),
         \A p \in Parts : sent[o][p] <= 1 /\ (sent[o][p] > 0 => p \in payload.known \union marked[o])
  PROVE  /\ sent'[o][part] = 1 /\ \A p \in Parts \ {part} : sent'[o][p] = sent[o][p]
         /\ \A p \in Parts : sent'[o][p] > 0 => p \in payload.known \union marked'[o]
<1>1. sent[o] \in [Parts -> Nat] /\ marked[o] \subseteq Parts
  BY DEF TypeOK
<1>2. CASE Posted(o, part, payload)
  BY <1>1, <1>2 DEF Post, Posted
<1>3. CASE ~Posted(o, part, payload)
  <2>1. sent[o][part] = 0
    BY <1>1, <1>3 DEF Posted
  <2>2. /\ sent' = [sent EXCEPT ![o][part] = @ + 1]
        /\ marked' = [marked EXCEPT ![o] = @ \union {part}]
    BY <1>3 DEF Post
  <2>3. sent'[o] = [sent[o] EXCEPT ![part] = @ + 1] /\ marked'[o] = marked[o] \union {part}
    BY <2>2 DEF TypeOK
  <2> QED
    BY <1>1, <2>1, <2>3
<1> QED
  BY <1>2, <1>3

-----------------------------------------------------------------------------
(* The steps of an attempt                                                 *)

\* The channel of the first step is the only one; it is in the record before
\* the next step.
LEMMA ChannelMadeStep ==
  ASSUME TypeOK, Safe, NEW r \in Runners, NEW o \in Ops, Works(r, o), ChannelMade(r)
  PROVE  Safe'
<1> DEFINE payload == [run[r].payload EXCEPT !.channel = made[o] + 1]
<1>1. /\ run[r].op = o /\ run[r].step = "creating" /\ NewChannel(o)
      /\ Record(o, "channel_ready", payload) /\ Proceed(r, "control", o, payload)
      /\ UNCHANGED <<active, list, ghosts>>
  BY DEF ChannelMade, Works
<1>2. payload.channel = made[o] + 1 /\ payload.known = run[r].payload.known
  BY <1>1, NewChannelTypes, RunTypes, PayloadTypes
<1> HIDE DEF payload
<1>3. /\ creation'[o].status = "channel_ready" /\ creation'[o].payload = payload
      /\ \A q \in Ops \ {o} : creation'[q] = creation[q]
  BY <1>1, RecordEffects
<1>4. /\ r \in {Sweep, o}
      /\ \A q \in Runners : Works(q, o) => q = r
      /\ \A q \in Runners : Works(q, o)' => q = r
      /\ run'[r].step = "control" /\ run'[r].op = o /\ run'[r].payload = payload
      /\ \A q \in Runners : run'[q] = run[q] \/ (q = r /\ run'[q].op = o)
      /\ click' = click
  BY <1>1, RunEffects
<1>5. Elsewhere(o)
  BY <1>1, <1>3, <1>4, NewChannelEffects DEF Elsewhere
<1>6. CreationInv(o) /\ Known(o)
  BY DEF Safe, CreationInv
<1>7. Attempted(o)' /\ Stored(o)'
  BY <1>3, <1>4, <1>6 DEF Attempted, Stored, CreationInv
<1>8. Known(o)'
  BY <1>1, <1>2, <1>3, <1>4, <1>6 DEF Known, Works
<1>9. ASSUME o \notin stale' PROVE Found(o)' /\ \A q \in Runners : Works(q, o)' => Fresh(q, o)'
  <2>1. Fresh(r, o)
    BY <1>1, <1>9 DEF Safe, CreationInv
  <2>2. Found(o)'
    BY <1>1, <1>2, <1>3, <2>1, NewChannelEffects DEF Found, Fresh
  <2>3. Fresh(r, o)'
    BY <1>3, <1>4 DEF Fresh
  <2> QED
    BY <1>4, <2>2, <2>3
<1>10. o \notin unseen' \union stale' => Possible(o)
  BY <1>1 DEF Safe, CreationInv, Fresh, Possible
<1> QED
  BY <1>1, <1>5, <1>7, <1>8, <1>9, <1>10, LocalStep DEF CreationInv, Monotone
\* A channel that Discord made before it raised is found by its topic.
LEMMA ChannelLostStep ==
  ASSUME TypeOK, Safe, NEW r \in Runners, NEW o \in Ops, Works(r, o), ChannelLost(r)
  PROVE  Safe'
<1>1. /\ run[r].op = o /\ run[r].step = "creating" /\ Leave(r)
      /\ NewChannel(o) \/ UNCHANGED discord
      /\ UNCHANGED <<active, creation, list, ghosts>>
  BY DEF ChannelLost, Works
<1>2. /\ r \in {Sweep, o}
      /\ \A q \in Runners : ~Works(q, o)'
      /\ \A q \in Runners : run'[q] = run[q] \/ run'[q].step = "idle"
      /\ \A q \in Ops \ {o} : click'[q] = click[q]
      /\ click'[o] \in {click[o], "done"}
  BY <1>1, RunEffects
<1>3. Elsewhere(o)
  BY <1>1, <1>2, NewChannelEffects DEF Elsewhere
<1>4. CreationInv(o) /\ creation[o].status # "none"
  BY DEF Safe, CreationInv, Attempted
<1>5. Attempted(o)' /\ Stored(o)' /\ Known(o)'
  BY <1>1, <1>2, <1>4 DEF Attempted, Stored, Known, CreationInv
<1>6. ASSUME o \notin stale' PROVE Found(o)'
  <2>1. Fresh(r, o) /\ Found(o)
    BY <1>1, <1>6 DEF Safe, CreationInv
  <2>2. CASE NewChannel(o)
    <3>1. alive[o] = {} /\ creation[o].status # "completed"
      BY <1>1, <2>1 DEF Fresh, Pending
    <3> QED
      BY <1>1, <2>2, <3>1, NewChannelEffects DEF Found
  <2>3. CASE UNCHANGED discord
    BY <1>1, <2>1, <2>3 DEF Found
  <2> QED
    BY <1>1, <2>2, <2>3
<1>7. o \notin unseen' \union stale' => Possible(o)
  BY <1>1 DEF Safe, CreationInv, Fresh, Possible
<1> QED
  BY <1>1, <1>2, <1>3, <1>5, <1>6, <1>7, LocalStep DEF CreationInv, Monotone

\* The close button's message is there, and the record says so.
LEMMA ControlPostedStep ==
  ASSUME TypeOK, Safe, NEW r \in Runners, NEW o \in Ops, Works(r, o), ControlPosted(r)
  PROVE  Safe'
<1> DEFINE payload == [run[r].payload EXCEPT !.known = @ \union {"control"}]
<1>1. /\ run[r].op = o /\ run[r].step = "control" /\ run[r].payload.channel \in alive[o]
      /\ Post(o, "control", run[r].payload)
      /\ Record(o, "control_ready", payload) /\ Proceed(r, "stats", o, payload)
      /\ UNCHANGED <<active, alive, topic, list, ghosts>>
  BY DEF ControlPosted, Works
<1>2. /\ run[r].payload \in Payload /\ "control" \in Parts /\ "stats" \in Parts
      /\ payload.channel = run[r].payload.channel
      /\ payload.known = run[r].payload.known \union {"control"}
  BY RunTypes, PayloadTypes DEF Parts
<1> HIDE DEF payload
<1>3. /\ creation'[o].status = "control_ready" /\ creation'[o].payload = payload
      /\ \A q \in Ops \ {o} : creation'[q] = creation[q]
  BY <1>1, RecordEffects
<1>4. /\ r \in {Sweep, o}
      /\ \A q \in Runners : Works(q, o)' => q = r
      /\ run'[r].step = "stats" /\ run'[r].op = o /\ run'[r].payload = payload
      /\ \A q \in Runners : run'[q] = run[q] \/ (q = r /\ run'[q].op = o)
      /\ click' = click
  BY <1>1, RunEffects
<1>5. Elsewhere(o)
  BY <1>1, <1>2, <1>3, <1>4, PostElsewhere DEF Elsewhere
<1>6. CreationInv(o) /\ Known(o)
  BY DEF Safe, CreationInv
<1>7. Attempted(o)' /\ Stored(o)'
  BY <1>3, <1>4, <1>6 DEF Attempted, Stored, CreationInv
<1>8. Known(o)'
  BY <1>1, <1>2, <1>3, <1>4, <1>6 DEF Known, Works
<1>9. ASSUME o \notin stale' PROVE Found(o)' /\ \A q \in Runners : Works(q, o)' => Fresh(q, o)'
  <2>1. Fresh(r, o) /\ Found(o)
    BY <1>1, <1>9 DEF Safe, CreationInv
  <2>2. /\ sent'[o]["control"] = 1 /\ \A p \in Parts \ {"control"} : sent'[o][p] = sent[o][p]
        /\ \A p \in Parts : sent'[o][p] > 0 => p \in run[r].payload.known \union marked'[o]
    BY <1>1, <1>2, <2>1, PostEffects DEF Found, Fresh
  <2>3. Found(o)'
    BY <1>1, <1>2, <1>3, <2>1, <2>2 DEF Found, Fresh
  <2>4. Fresh(r, o)'
    BY <1>3, <1>4, <2>2 DEF Fresh
  <2> QED
    BY <1>4, <2>3, <2>4
<1>10. Possible(o)
  BY <1>1 DEF Possible
<1> QED
  BY <1>1, <1>5, <1>7, <1>8, <1>9, <1>10, LocalStep DEF CreationInv, Monotone

\* With the second message the creation is completed.
LEMMA StatsPostedStep ==
  ASSUME TypeOK, Safe, NEW r \in Runners, NEW o \in Ops, Works(r, o), StatsPosted(r)
  PROVE  Safe'
<1> DEFINE payload == [run[r].payload EXCEPT !.known = @ \union {"stats"}]
<1>1. /\ run[r].op = o /\ run[r].step = "stats" /\ run[r].payload.channel \in alive[o]
      /\ Post(o, "stats", run[r].payload)
      /\ Record(o, "completed", payload) /\ Proceed(r, "clean", o, payload)
      /\ UNCHANGED <<active, alive, topic, list, ghosts>>
  BY DEF StatsPosted, Works
<1>2. /\ run[r].payload \in Payload /\ "stats" \in Parts /\ "control" \in Parts
      /\ payload.channel = run[r].payload.channel
      /\ payload.known = run[r].payload.known \union {"stats"} /\ run[r].payload.known \subseteq Parts
  BY RunTypes, PayloadTypes DEF Parts
<1> HIDE DEF payload
<1>3. /\ creation'[o].status = "completed" /\ creation'[o].payload = payload
      /\ \A q \in Ops \ {o} : creation'[q] = creation[q]
  BY <1>1, RecordEffects
<1>4. /\ r \in {Sweep, o}
      /\ \A q \in Runners : Works(q, o)' => q = r
      /\ run'[r].step = "clean" /\ run'[r].op = o /\ run'[r].payload = payload
      /\ \A q \in Runners : run'[q] = run[q] \/ (q = r /\ run'[q].op = o)
      /\ click' = click
  BY <1>1, RunEffects
<1>5. Elsewhere(o)
  BY <1>1, <1>2, <1>3, <1>4, PostElsewhere DEF Elsewhere
<1>6. CreationInv(o) /\ Known(o)
  BY DEF Safe, CreationInv
<1>7. Attempted(o)' /\ Stored(o)'
  BY <1>3, <1>4, <1>6 DEF Attempted, Stored, CreationInv
<1>8. payload.known = Parts
  BY <1>1, <1>2, <1>6 DEF Known, Parts, Works
<1>9. Known(o)'
  BY <1>1, <1>2, <1>3, <1>4, <1>6, <1>8 DEF Known, Works, Pending
<1>10. ASSUME o \notin stale' PROVE Found(o)' /\ \A q \in Runners : Works(q, o)' => Fresh(q, o)'
  <2>1. Fresh(r, o) /\ Found(o)
    BY <1>1, <1>10 DEF Safe, CreationInv
  <2>2. /\ sent'[o]["stats"] = 1 /\ \A p \in Parts \ {"stats"} : sent'[o][p] = sent[o][p]
        /\ \A p \in Parts : sent'[o][p] > 0 => p \in run[r].payload.known \union marked'[o]
    BY <1>1, <1>2, <2>1, PostEffects DEF Found, Fresh
  <2>3. sent'[o]["control"] > 0
    BY <1>1, <1>2, <2>1, <2>2 DEF Fresh
  <2>4. Found(o)'
    BY <1>1, <1>2, <1>3, <2>1, <2>2, <2>3 DEF Found, Fresh, Parts
  <2>5. Fresh(r, o)'
    BY <1>3, <1>4, <2>2, <2>3 DEF Fresh
  <2> QED
    BY <1>4, <2>4, <2>5
<1>11. Possible(o)
  BY <1>1 DEF Possible
<1> QED
  BY <1>1, <1>5, <1>7, <1>9, <1>10, <1>11, LocalStep DEF CreationInv, Monotone

\* A message whose answer was lost carries its marker.
LEMMA MessageLostStep ==
  ASSUME TypeOK, Safe, NEW r \in Runners, NEW o \in Ops, Works(r, o), MessageLost(r)
  PROVE  Safe'
<1>1. /\ run[r].op = o /\ run[r].step \in Parts /\ Leave(r)
      /\ Post(o, run[r].step, run[r].payload) \/ UNCHANGED <<sent, marked>>
      /\ UNCHANGED <<active, creation, alive, topic, list, ghosts>>
  BY DEF MessageLost, Works
<1>2. /\ r \in {Sweep, o}
      /\ \A q \in Runners : ~Works(q, o)'
      /\ \A q \in Runners : run'[q] = run[q] \/ run'[q].step = "idle"
      /\ \A q \in Ops \ {o} : click'[q] = click[q]
      /\ click'[o] \in {click[o], "done"}
  BY <1>1, RunEffects
<1>3. run[r].payload \in Payload
  BY RunTypes
<1>4. Elsewhere(o)
  BY <1>1, <1>2, <1>3, PostElsewhere DEF Elsewhere
<1>5. CreationInv(o) /\ creation[o].status # "none"
  BY DEF Safe, CreationInv, Attempted
<1>6. Attempted(o)' /\ Stored(o)' /\ Known(o)'
  BY <1>1, <1>2, <1>5 DEF Attempted, Stored, Known, CreationInv
<1>7. ASSUME o \notin stale' PROVE Found(o)'
  <2>1. Fresh(r, o) /\ Found(o)
    BY <1>1, <1>7 DEF Safe, CreationInv
  <2>2. CASE Post(o, run[r].step, run[r].payload)
    <3> DEFINE part == run[r].step
    <3>1. /\ sent'[o][part] = 1 /\ \A p \in Parts \ {part} : sent'[o][p] = sent[o][p]
          /\ \A p \in Parts : sent'[o][p] > 0 => p \in run[r].payload.known \union marked'[o]
      BY <1>1, <1>3, <2>1, <2>2, PostEffects DEF Found, Fresh
    <3> QED
      BY <1>1, <2>1, <3>1 DEF Found, Fresh
  <2>3. CASE UNCHANGED <<sent, marked>>
    BY <1>1, <2>1, <2>3 DEF Found
  <2> QED
    BY <1>1, <2>2, <2>3
<1>8. Possible(o)' => Possible(o)
  BY <1>1, <1>2 DEF Possible
<1> QED
  BY <1>1, <1>2, <1>4, <1>6, <1>7, <1>8, LocalStep DEF CreationInv, Monotone

\* The markers go only when the record knows what they led to.
LEMMA CleanedStep ==
  ASSUME TypeOK, Safe, NEW r \in Runners, NEW o \in Ops, Works(r, o), Cleaned(r)
  PROVE  Safe'
<1> DEFINE payload == run[r].payload
           c == run[r].payload.channel
<1>1. /\ run[r].op = o /\ run[r].step = "clean" /\ c \in alive[o] /\ Leave(r) /\ Scrub(o, c)
      /\ creation' = [creation EXCEPT ![o] =
            [status |-> "completed", payload |-> payload, removed |-> TRUE]]
      /\ UNCHANGED <<active, list, ghosts>>
  BY DEF Cleaned, Works
<1>2. /\ r \in {Sweep, o}
      /\ \A q \in Runners : ~Works(q, o)'
      /\ \A q \in Runners : run'[q] = run[q] \/ run'[q].step = "idle"
      /\ \A q \in Ops \ {o} : click'[q] = click[q]
      /\ click'[o] \in {click[o], "done"}
  BY <1>1, RunEffects
<1>3. /\ creation'[o].status = "completed" /\ creation'[o].payload = payload
      /\ \A q \in Ops \ {o} : creation'[q] = creation[q]
  BY <1>1 DEF TypeOK
<1>4. /\ UNCHANGED <<alive, sent>> /\ topic'[o] = topic[o] \ {c}
      /\ \A q \in Ops \ {o} : topic'[q] = topic[q] /\ marked'[q] = marked[q]
  BY <1>1 DEF Scrub, TypeOK
<1>5. Elsewhere(o)
  BY <1>2, <1>3, <1>4 DEF Elsewhere
<1>6. CreationInv(o) /\ Known(o) /\ payload.known \subseteq Parts
  BY RunTypes, PayloadTypes DEF Safe, CreationInv
<1>7. payload.known = Parts
  BY <1>1, <1>6 DEF Known, Parts, Works
<1>8. Attempted(o)' /\ Stored(o)' /\ Known(o)'
  BY <1>1, <1>2, <1>3, <1>6, <1>7 DEF Attempted, Stored, Known, CreationInv, Pending
<1>9. ASSUME o \notin stale' PROVE Found(o)'
  <2>1. Fresh(r, o) /\ Found(o)
    BY <1>1, <1>9 DEF Safe, CreationInv
  <2>2. \A part \in Parts : sent[o][part] > 0
    BY <1>1, <2>1 DEF Fresh, Parts
  <2> QED
    BY <1>3, <1>4, <1>7, <2>1, <2>2 DEF Found, Fresh
<1>10. Possible(o)
  BY <1>1 DEF Possible
<1> QED
  BY <1>1, <1>2, <1>5, <1>8, <1>9, <1>10, LocalStep DEF CreationInv, Monotone

LEMMA CleaningLostStep ==
  ASSUME TypeOK, Safe, NEW r \in Runners, NEW o \in Ops, Works(r, o), CleaningLost(r)
  PROVE  Safe'
<1>1. Leave(r) /\ UNCHANGED <<active, creation, discord, list, ghosts>>
  BY DEF CleaningLost
<1>2. /\ r \in {Sweep, o}
      /\ \A q \in Runners : ~Works(q, o)'
      /\ \A q \in Runners : run'[q] = run[q] \/ run'[q].step = "idle"
      /\ \A q \in Ops \ {o} : click'[q] = click[q]
      /\ click'[o] \in {click[o], "done"}
  BY <1>1, RunEffects
<1>3. Elsewhere(o)
  BY <1>1, <1>2 DEF Elsewhere
<1>4. CreationInv(o)' /\ creation[o].status # "none"
  BY <1>1, <1>2 DEF Safe, CreationInv, Attempted, Stored, Known, Found
<1>5. Possible(o)' => Possible(o)
  BY <1>1, <1>2 DEF Possible
<1> QED
  BY <1>1, <1>3, <1>4, <1>5, LocalStep DEF Monotone

-----------------------------------------------------------------------------
(* The steps of the reconciler                                             *)

\* What the reconciler takes from its list; unless that makes the creation
\* stale, it is the unfinished record as it is.
LEMMA ListedEffects ==
  ASSUME TypeOK, Safe, NEW s \in list, Listed(s)
  PROVE  /\ s.op \in Ops /\ s.payload \in Payload
         /\ run[Sweep].step = "idle" /\ Sweep \in Runners
         /\ \A r \in Runners : ~Works(r, s.op)
         /\ creation[s.op].status # "none" /\ "stats" \notin s.payload.known
         /\ Monotone
         /\ s.op \notin stale' =>
               /\ s.op \notin stale /\ s.payload = creation[s.op].payload
               /\ active => creation[s.op].status \in Pending
<1>1. s.op \in Ops /\ s.payload \in Payload /\ Sweep \in Runners
  BY ListTypes DEF Runners
<1>2. \A r \in Runners : ~Works(r, s.op)
  BY DEF Listed, Busy, Works
<1>3. CreationInv(s.op) /\ Known(s.op) /\ Stored(s.op)
  BY <1>1 DEF Safe, CreationInv
<1>4. creation[s.op].status # "none" /\ "stats" \notin s.payload.known
  BY <1>3 DEF Known
<1>5. Monotone /\ run[Sweep].step = "idle"
  BY DEF Listed, Monotone
<1>6. ASSUME s.op \notin stale'
      PROVE  /\ s.op \notin stale /\ s.payload = creation[s.op].payload
             /\ active => creation[s.op].status \in Pending
  <2>1. s.op \notin stale /\ s = Snapshot(s.op)
    BY <1>6 DEF Listed
  <2>2. s.payload = creation[s.op].payload
    BY <2>1 DEF Snapshot
  <2>3. creation[s.op].status # "completed"
    BY <1>3, <1>4, <2>2 DEF Known, Parts
  <2>4. creation[s.op].status \in Pending \union {"none", "completed", "cancelled"}
    BY <1>1 DEF TypeOK
  <2> QED
    BY <1>3, <1>4, <2>1, <2>2, <2>3, <2>4 DEF Stored
<1> QED
  BY <1>1, <1>2, <1>3, <1>4, <1>5, <1>6

LEMMA CancelStep ==
  ASSUME TypeOK, Safe, NEW s \in list, Cancel(s)
  PROVE  Safe'
<1> DEFINE o == s.op
<1>1. /\ Listed(s) /\ ~active /\ UNCHANGED <<topic, sent, marked, click, run>>
      /\ creation' = [creation EXCEPT ![o].status = "cancelled"]
  BY DEF Cancel
<1>2. PICK gone : alive' = [alive EXCEPT ![o] = @ \ gone]
  BY DEF Cancel
<1>3. PICK q \in Ops : q = o
  BY <1>1, ListedEffects
<1>4. /\ creation'[q].status = "cancelled" /\ creation'[q].payload = creation[q].payload
      /\ \A p \in Ops \ {q} : creation'[p] = creation[p]
  BY <1>1, <1>3, StatusTypes
<1>5. alive'[q] \subseteq alive[q] /\ \A p \in Ops \ {q} : alive'[p] = alive[p]
  BY <1>2, <1>3 DEF TypeOK
<1>6. Elsewhere(q)
  BY <1>1, <1>4, <1>5 DEF Elsewhere
<1>7. /\ Monotone /\ \A r \in Runners : ~Works(r, q)'
      /\ creation[q].status # "none" /\ (q \notin stale' => q \notin stale)
  BY <1>1, <1>3, ListedEffects DEF Works
<1>8. CreationInv(q)
  BY DEF Safe
<1>9. Attempted(q)' /\ Stored(q)' /\ Known(q)'
  BY <1>1, <1>4, <1>7, <1>8 DEF CreationInv, Attempted, Stored, Known, Monotone, Pending
<1>10. q \notin stale' => Found(q)'
  BY <1>1, <1>4, <1>5, <1>7, <1>8 DEF CreationInv, Found
<1>11. Possible(q)' => Possible(q)
  BY <1>1, <1>4, <1>5 DEF Possible, Pending
<1> QED
  BY <1>6, <1>7, <1>9, <1>10, <1>11, LocalStep DEF CreationInv

LEMMA SkipStep ==
  ASSUME TypeOK, Safe, NEW s \in list, Skip(s)
  PROVE  Safe'
<1>1. Listed(s) /\ UNCHANGED <<creation, discord, click, run>>
  BY DEF Skip
<1>2. PICK o \in Ops : o = s.op
  BY <1>1, ListedEffects
<1>3. Elsewhere(o)
  BY <1>1 DEF Elsewhere
<1>4. Monotone /\ CreationInv(o) /\ \A r \in Runners : ~Works(r, o)
  BY <1>1, <1>2, ListedEffects DEF Safe
<1>5. CreationInv(o)'
  BY <1>1, <1>4 DEF CreationInv, Attempted, Stored, Known, Found, Monotone, Works
<1>6. Possible(o)' => Possible(o)
  BY <1>1 DEF Possible
<1> QED
  BY <1>3, <1>4, <1>5, <1>6, LocalStep

\* The reconciler begins an attempt; no other one is about the creation.
LEMMA BeginEffects ==
  ASSUME TypeOK, Safe, NEW o \in Ops, NEW step, NEW payload, step # "idle",
         run[Sweep].step = "idle", \A r \in Runners : ~Works(r, o), Proceed(Sweep, step, o, payload)
  PROVE  /\ \A q \in Runners : Works(q, o)' => q = Sweep
         /\ run'[Sweep].step = step /\ run'[Sweep].op = o /\ run'[Sweep].payload = payload
         /\ \A q \in Runners : run'[q] = run[q] \/ (q = Sweep /\ run'[q].op = o)
         /\ click' = click
<1>1. \A q \in Runners : run'[q] = IF q = Sweep THEN [step |-> step, op |-> o, payload |-> payload]
                                   ELSE run[q]
  BY DEF Proceed, TypeOK
<1> QED
  BY <1>1 DEF Proceed, Works, Runners

\* A channel is asked for again only when none is found, by its id or its topic.
LEMMA RetryStep ==
  ASSUME TypeOK, Safe, NEW s \in list, Retry(s)
  PROVE  Safe'
<1>1. /\ Listed(s) /\ active /\ Located(s.op, s.payload) = {}
      /\ Proceed(Sweep, "creating", s.op, s.payload) /\ UNCHANGED <<creation, discord>>
  BY DEF Retry
<1>2. PICK o \in Ops : o = s.op
  BY <1>1, ListedEffects
<1>3. PICK payload \in Payload : payload = s.payload
  BY <1>1, ListedEffects
<1>4. /\ \A q \in Runners : Works(q, o)' => q = Sweep
      /\ run'[Sweep].step = "creating" /\ run'[Sweep].op = o /\ run'[Sweep].payload = payload
      /\ \A q \in Runners : run'[q] = run[q] \/ (q = Sweep /\ run'[q].op = o)
      /\ click' = click
  BY <1>1, <1>2, <1>3, ListedEffects, BeginEffects
<1>5. Elsewhere(o)
  BY <1>1, <1>4 DEF Elsewhere
<1>6. /\ Monotone /\ creation[o].status # "none" /\ "stats" \notin payload.known
      /\ o \notin stale' => /\ o \notin stale /\ payload = creation[o].payload
                            /\ creation[o].status \in Pending
  BY <1>1, <1>2, <1>3, ListedEffects
<1>7. CreationInv(o)
  BY DEF Safe
<1>8. Attempted(o)' /\ Stored(o)'
  BY <1>1, <1>4, <1>6, <1>7 DEF CreationInv, Attempted, Stored, Monotone
<1>9. Known(o)'
  BY <1>1, <1>4, <1>6, <1>7 DEF CreationInv, Known, Monotone
<1>10. ASSUME o \notin stale' PROVE Found(o)' /\ Fresh(Sweep, o)'
  <2>1. Found(o) /\ alive[o] \subseteq topic[o] \union {payload.channel}
    BY <1>6, <1>7, <1>10 DEF CreationInv, Found
  <2>2. alive[o] = {}
    <3>1. payload.channel \notin alive[o]
      BY <1>1, <1>2, <1>3 DEF Located
    <3>2. alive[o] \intersect topic[o] = {}
      BY <1>1, <1>2, <1>3, <3>1 DEF Located
    <3> QED
      BY <2>1, <3>1, <3>2
  <2> QED
    BY <1>1, <1>4, <1>6, <1>10, <2>1, <2>2 DEF Found, Fresh
<1>11. Possible(o)' => Possible(o)
  BY <1>1, <1>4 DEF Possible
<1> QED
  BY <1>4, <1>5, <1>6, <1>8, <1>9, <1>10, <1>11, LocalStep DEF CreationInv

\* A channel that is found is the one of the creation.
LEMMA ResumeStep ==
  ASSUME TypeOK, Safe, NEW s \in list, Resume(s)
  PROVE  Safe'
<1>1. Listed(s) /\ active /\ UNCHANGED discord
  BY DEF Resume
<1>2. PICK o \in Ops : o = s.op
  BY <1>1, ListedEffects
<1>3. PICK old \in Payload : old = s.payload
  BY <1>1, ListedEffects
<1>4. PICK c \in Located(o, old) :
         /\ Record(o, "channel_ready", [old EXCEPT !.channel = c])
         /\ Proceed(Sweep, "control", o, [old EXCEPT !.channel = c])
  BY <1>2, <1>3 DEF Resume
<1> DEFINE payload == [old EXCEPT !.channel = c]
<1>5. c \in alive[o] /\ payload.channel = c /\ payload.known = old.known
  BY LocatedTypes, PayloadTypes
<1> HIDE DEF payload
<1>6. /\ creation'[o].status = "channel_ready" /\ creation'[o].payload = payload
      /\ \A q \in Ops \ {o} : creation'[q] = creation[q]
  BY <1>4, RecordEffects DEF payload
<1>7. /\ \A q \in Runners : Works(q, o)' => q = Sweep
      /\ run'[Sweep].step = "control" /\ run'[Sweep].op = o /\ run'[Sweep].payload = payload
      /\ \A q \in Runners : run'[q] = run[q] \/ (q = Sweep /\ run'[q].op = o)
      /\ click' = click
  BY <1>1, <1>2, <1>4, ListedEffects, BeginEffects DEF payload
<1>8. Elsewhere(o)
  BY <1>1, <1>6, <1>7 DEF Elsewhere
<1>9. /\ Monotone /\ "stats" \notin payload.known /\ creation[o].status # "none"
      /\ o \notin stale' => o \notin stale /\ old = creation[o].payload
  BY <1>1, <1>2, <1>3, <1>5, ListedEffects
<1>10. CreationInv(o)
  BY DEF Safe
<1>11. Attempted(o)' /\ Stored(o)'
  BY <1>1, <1>6, <1>7, <1>9, <1>10 DEF CreationInv, Attempted, Stored, Monotone
<1>12. Known(o)'
  BY <1>6, <1>7, <1>9, <1>10 DEF CreationInv, Known, Monotone
<1>13. ASSUME o \notin stale' PROVE Found(o)' /\ Fresh(Sweep, o)'
  <2>1. Found(o)
    BY <1>9, <1>10, <1>13 DEF CreationInv
  <2>2. alive[o] = {c}
    BY <1>5, <2>1 DEF Found
  <2>3. Found(o)'
    BY <1>1, <1>5, <1>6, <1>9, <1>13, <2>1, <2>2 DEF Found
  <2>4. Fresh(Sweep, o)'
    BY <1>6, <1>7 DEF Fresh
  <2> QED
    BY <2>3, <2>4
<1>14. Possible(o)
  BY <1>5 DEF Possible
<1> QED
  BY <1>7, <1>8, <1>9, <1>11, <1>12, <1>13, <1>14, LocalStep DEF CreationInv

\* The second loop takes no lock: the record of a completed creation knows
\* everything that its markers led to.
LEMMA CleanCompletedStep ==
  ASSUME TypeOK, Safe, NEW o \in Ops, CleanCompleted(o)
  PROVE  Safe'
<1> DEFINE c == creation[o].payload.channel
<1>1. /\ creation[o].status = "completed"
      /\ creation' = [creation EXCEPT ![o].removed = TRUE]
      /\ UNCHANGED <<active, click, run, list, ghosts>>
      /\ UNCHANGED discord \/ Scrub(o, c)
  BY DEF CleanCompleted
<1>2. /\ creation'[o].status = creation[o].status /\ creation'[o].payload = creation[o].payload
      /\ \A q \in Ops \ {o} : creation'[q] = creation[q]
  <2>1. creation \in [Ops -> Creations] /\ creation[o] \in Creations
    BY DEF TypeOK, Creations
  <2>2. creation' = [creation EXCEPT ![o] = [creation[o] EXCEPT !.removed = TRUE]]
    BY <1>1
  <2>3. /\ [creation[o] EXCEPT !.removed = TRUE].status = creation[o].status
        /\ [creation[o] EXCEPT !.removed = TRUE].payload = creation[o].payload
    BY <2>1 DEF Creations
  <2> QED
    BY <2>1, <2>2, <2>3
<1>3. /\ UNCHANGED <<alive, sent>> /\ topic[o] \subseteq topic'[o] \union {c}
      /\ \A q \in Ops \ {o} : topic'[q] = topic[q] /\ marked'[q] = marked[q]
  BY <1>1 DEF Scrub, TypeOK
<1>4. Elsewhere(o)
  BY <1>1, <1>2, <1>3 DEF Elsewhere
<1>5. CreationInv(o) /\ creation[o].payload.known = Parts
  BY <1>1 DEF Safe, CreationInv, Known
<1>6. Attempted(o)' /\ Stored(o)' /\ Known(o)'
  BY <1>1, <1>2, <1>3, <1>5 DEF CreationInv, Attempted, Stored, Known, Works
<1>7. ASSUME o \notin stale' PROVE Found(o)' /\ \A r \in Runners : Works(r, o)' => Fresh(r, o)'
  <2>1. Found(o) /\ \A r \in Runners : Works(r, o) => Fresh(r, o)
    BY <1>1, <1>5, <1>7 DEF CreationInv
  <2>2. Found(o)'
    BY <1>2, <1>3, <1>5, <2>1 DEF Found
  <2>3. \A r \in Runners : Works(r, o)' => Fresh(r, o)'
    BY <1>1, <1>2, <1>3, <2>1 DEF Fresh, Works
  <2> QED
    BY <2>2, <2>3
<1>8. Possible(o)' => Possible(o)
  BY <1>1, <1>2, <1>3 DEF Possible
<1> QED
  BY <1>1, <1>4, <1>6, <1>7, <1>8, LocalStep DEF CreationInv, Monotone

\* The list is read from the records that are unfinished.
LEMMA ListPendingStep ==
  ASSUME TypeOK, Safe, ListPending
  PROVE  Safe'
<1>1. UNCHANGED <<active, creation, discord, click, run, ghosts>>
  BY DEF ListPending
<1>2. \A s \in list' : /\ "stats" \notin s.payload.known
                       /\ creation[s.op].status # "none"
  <2> SUFFICES ASSUME NEW o \in Ops, creation[o].status \in Pending
               PROVE  /\ "stats" \notin Snapshot(o).payload.known
                      /\ creation[Snapshot(o).op].status # "none"
    BY DEF ListPending
  <2> QED
    BY DEF Safe, CreationInv, Known, Snapshot, Pending
<1>3. ASSUME NEW o \in Ops PROVE CreationInv(o)'
  <2>1. CreationInv(o)
    BY DEF Safe
  <2>2. Attempted(o)' /\ Stored(o)' /\ Known(o)'
    BY <1>1, <1>2, <2>1 DEF CreationInv, Attempted, Stored, Known, Works
  <2>3. o \notin stale' => Found(o)' /\ \A r \in Runners : Works(r, o)' => Fresh(r, o)'
    BY <1>1, <2>1 DEF CreationInv, Found, Fresh, Works
  <2> QED
    BY <2>2, <2>3 DEF CreationInv
<1>4. Assigned' /\ RivalInv'
  BY <1>1 DEF Safe, Assigned, RivalInv, Possible
<1> QED
  BY <1>3, <1>4 DEF Safe

-----------------------------------------------------------------------------
(* The steps of a click                                                    *)

LEMMA ModalStep ==
  ASSUME TypeOK, Safe, NEW o \in Ops, Modal(o)
  PROVE  Safe'
<1>1. /\ click[o] = "idle" /\ click' = [click EXCEPT ![o] = "selecting"]
      /\ UNCHANGED <<active, creation, discord, run, list, ghosts>>
  BY DEF Modal
<1>2. click'[o] = "selecting" /\ \A q \in Ops \ {o} : click'[q] = click[q]
  BY <1>1 DEF TypeOK
<1>3. Elsewhere(o)
  BY <1>1, <1>2 DEF Elsewhere
<1>4. CreationInv(o)
  BY DEF Safe
<1>5. Attempted(o)' /\ Stored(o)' /\ Known(o)'
  BY <1>1, <1>2, <1>4 DEF CreationInv, Attempted, Stored, Known, Works
<1>6. o \notin stale' => Found(o)' /\ \A r \in Runners : Works(r, o)' => Fresh(r, o)'
  BY <1>1, <1>4 DEF CreationInv, Found, Fresh, Works
<1>7. Possible(o)' => Possible(o)
  BY <1>1, <1>2 DEF Possible
<1> QED
  BY <1>1, <1>3, <1>5, <1>6, <1>7, LocalStep DEF CreationInv, Monotone

\* Under the lock, and after the search, no other creation of the member is
\* possible but those the search cannot see.
LEMMA SearchStep ==
  ASSUME TypeOK, Safe, NEW o \in Ops, Search(o)
  PROVE  Safe'
<1>1. /\ click[o] = "selecting" /\ OpenLockFree(o)
      /\ \E value \in {"clear", "done"} : click' = [click EXCEPT ![o] = value]
      /\ UNCHANGED <<active, creation, discord, run, list, stale>>
  BY DEF Search
<1>2. click'[o] \in {"clear", "done"} /\ \A q \in Ops \ {o} : click'[q] = click[q]
  BY <1>1 DEF TypeOK
<1>3. unseen \subseteq unseen'
  BY DEF Search
<1>4. ASSUME NEW q \in Ops PROVE CreationInv(q)'
  <2>1. CreationInv(q)
    BY DEF Safe
  <2>2. Attempted(q)' /\ Stored(q)' /\ Known(q)'
    BY <1>1, <1>2, <2>1 DEF CreationInv, Attempted, Stored, Known, Works
  <2>3. q \notin stale' => Found(q)' /\ \A r \in Runners : Works(r, q)' => Fresh(r, q)'
    BY <1>1, <2>1 DEF CreationInv, Found, Fresh, Works
  <2> QED
    BY <2>2, <2>3 DEF CreationInv
<1>5. \A q \in Ops \ {o} : Possible(q)' => Possible(q)
  BY <1>1, <1>2 DEF Possible
<1>6. ASSUME NEW q \in Rivals(o), q \notin unseen', Possible(o)', ~Possible(o)
      PROVE  ~Possible(q)
  <2>1. click'[o] = "clear"
    BY <1>1, <1>2, <1>6 DEF Possible
  <2>2. /\ ~HasOpenTicket(o)
        /\ unseen' = unseen \union
               {p \in Rivals(o) : creation[p].status \in Pending /\ alive[p] = {}}
    BY <1>1, <2>1 DEF Search, TypeOK
  <2>3. alive[q] = {} /\ click[q] \notin {"clear", "working"}
    BY <1>1, <2>2 DEF HasOpenTicket, OpenLockFree
  <2> QED
    BY <1>6, <2>2, <2>3 DEF Possible
<1>7. RivalInv'
  <2> SUFFICES ASSUME NEW p \in Ops, NEW q \in Rivals(p),
                      p \notin unseen' \union stale', q \notin unseen' \union stale'
               PROVE  ~(Possible(p)' /\ Possible(q)')
    BY DEF RivalInv, Rivals
  <2>1. p \notin unseen \union stale /\ q \notin unseen \union stale /\ q \in Ops /\ p # q
        /\ p \in Rivals(q)
    BY <1>1, <1>3 DEF Rivals
  <2>2. ~(Possible(p) /\ Possible(q))
    BY <2>1 DEF Safe, RivalInv
  <2>3. CASE p = o
    BY <1>5, <1>6, <2>1, <2>2, <2>3
  <2>4. CASE q = o
    BY <1>5, <1>6, <2>1, <2>2, <2>4
  <2>5. CASE p # o /\ q # o
    BY <1>5, <2>1, <2>2, <2>5
  <2> QED
    BY <2>3, <2>4, <2>5
<1>8. Assigned'
  BY <1>1 DEF Safe, Assigned
<1> QED
  BY <1>4, <1>7, <1>8 DEF Safe

\* The stored intent begins an attempt at a creation that had none.
LEMMA PersistStep ==
  ASSUME TypeOK, Safe, NEW o \in Ops, Persist(o)
  PROVE  Safe'
<1>1. click[o] = "clear" /\ UNCHANGED <<active, discord, list, ghosts>>
  BY DEF Persist
<1>2. /\ CreationInv(o) /\ creation[o].status = "none" /\ creation[o].payload = Empty
      /\ \A r \in Runners : ~Works(r, o)
  BY <1>1 DEF Safe, CreationInv, Stored, Attempted
<1>3. CASE active
  <2>1. /\ creation' = [creation EXCEPT ![o].status = "pending"]
        /\ click' = [click EXCEPT ![o] = "working"]
        /\ run' = [run EXCEPT ![o] = [step |-> "creating", op |-> o, payload |-> Empty]]
    BY <1>3 DEF Persist
  <2>2. /\ creation'[o].status = "pending" /\ creation'[o].payload = Empty
        /\ \A q \in Ops \ {o} : creation'[q] = creation[q]
    BY <1>2, <2>1, StatusTypes DEF Pending
  <2>3. click'[o] = "working" /\ \A q \in Ops \ {o} : click'[q] = click[q]
    BY <2>1 DEF TypeOK
  <2>4. /\ o \in Runners /\ run'[o].step = "creating" /\ run'[o].op = o /\ run'[o].payload = Empty
        /\ \A r \in Runners \ {o} : run'[r] = run[r]
    BY <2>1 DEF TypeOK, Runners
  <2>5. Elsewhere(o)
    BY <1>1, <2>2, <2>3, <2>4 DEF Elsewhere
  <2>6. \A r \in Runners : Works(r, o)' => r = o
    BY <1>2, <2>4 DEF Works
  <2>7. Attempted(o)' /\ Stored(o)'
    BY <2>2, <2>3, <2>6 DEF Attempted, Stored
  <2>8. Known(o)'
    BY <1>1, <1>2, <2>2, <2>4, <2>6 DEF CreationInv, Known, Empty
  <2>9. alive[o] = {} /\ \A part \in Parts : sent[o][part] = 0
    BY <1>2 DEF CreationInv, Stored
  <2>10. Found(o)' /\ Fresh(o, o)'
    BY <1>1, <2>2, <2>4, <2>9 DEF Found, Fresh, Pending
  <2>11. Possible(o)
    BY <1>1 DEF Possible
  <2> QED
    BY <1>1, <2>5, <2>6, <2>7, <2>8, <2>10, <2>11, LocalStep DEF CreationInv, Monotone
<1>4. CASE ~active
  <2>1. click' = [click EXCEPT ![o] = "done"] /\ UNCHANGED <<creation, run>>
    BY <1>4 DEF Persist
  <2>2. click'[o] = "done" /\ \A q \in Ops \ {o} : click'[q] = click[q]
    BY <2>1 DEF TypeOK
  <2>3. Elsewhere(o)
    BY <1>1, <2>1, <2>2 DEF Elsewhere
  <2>4. Attempted(o)' /\ Stored(o)' /\ Known(o)'
    BY <1>1, <1>2, <2>1, <2>2 DEF CreationInv, Attempted, Stored, Known, Works
  <2>5. o \notin stale' => Found(o)' /\ \A r \in Runners : Works(r, o)' => Fresh(r, o)'
    BY <1>1, <1>2, <2>1 DEF CreationInv, Found, Fresh, Works
  <2>6. Possible(o)
    BY <1>1 DEF Possible
  <2> QED
    BY <1>1, <2>3, <2>4, <2>5, <2>6, LocalStep DEF CreationInv, Monotone
<1> QED
  BY <1>3, <1>4

-----------------------------------------------------------------------------
(* The surroundings                                                        *)

\* A channel that is closed or deleted.
LEMMA GoneStep ==
  ASSUME TypeOK, Safe, NEW o \in Ops, Close(o) \/ Delete(o)
  PROVE  Safe'
<1>1. /\ alive' = [alive EXCEPT ![o] = {}]
      /\ UNCHANGED <<active, creation, topic, sent, marked, click, run, list, ghosts>>
  BY DEF Close, Delete
<1>2. alive'[o] = {} /\ \A q \in Ops \ {o} : alive'[q] = alive[q]
  BY <1>1 DEF TypeOK
<1>3. Elsewhere(o)
  BY <1>1, <1>2 DEF Elsewhere
<1>4. CreationInv(o)
  BY DEF Safe
<1>5. Attempted(o)' /\ Stored(o)' /\ Known(o)'
  BY <1>1, <1>2, <1>4 DEF CreationInv, Attempted, Stored, Known, Works
<1>6. o \notin stale' => Found(o)' /\ \A r \in Runners : Works(r, o)' => Fresh(r, o)'
  BY <1>1, <1>2, <1>4 DEF CreationInv, Found, Fresh, Works
<1>7. Possible(o)' => Possible(o)
  BY <1>1, <1>2 DEF Possible
<1> QED
  BY <1>1, <1>3, <1>5, <1>6, <1>7, LocalStep DEF CreationInv, Monotone

LEMMA DeactivateStep ==
  ASSUME TypeOK, Safe, Deactivate
  PROVE  Safe'
<1>1. active' = FALSE /\ UNCHANGED <<creation, discord, click, run, list, ghosts>>
  BY DEF Deactivate
<1>2. ASSUME NEW o \in Ops PROVE CreationInv(o)'
  <2>1. CreationInv(o)
    BY DEF Safe
  <2>2. Attempted(o)' /\ Stored(o)' /\ Known(o)'
    BY <1>1, <2>1 DEF CreationInv, Attempted, Stored, Known, Works
  <2>3. o \notin stale' => Found(o)' /\ \A r \in Runners : Works(r, o)' => Fresh(r, o)'
    BY <1>1, <2>1 DEF CreationInv, Found, Fresh, Works
  <2> QED
    BY <2>2, <2>3 DEF CreationInv
<1>3. Assigned' /\ RivalInv'
  BY <1>1 DEF Safe, Assigned, RivalInv, Possible
<1> QED
  BY <1>2, <1>3 DEF Safe

\* A restart forgets the attempts, the clicks and the list.
LEMMA CrashStep ==
  ASSUME TypeOK, Safe, Crash
  PROVE  Safe'
<1>1. /\ UNCHANGED <<active, creation, discord, ghosts>> /\ list' = {}
      /\ \A r \in Runners : run'[r] = Idle
      /\ \A o \in Ops : click'[o] = IF creation[o].status = "none" THEN "idle" ELSE "done"
  BY DEF Crash
<1>2. \A r \in Runners : run'[r].step = "idle"
  BY <1>1 DEF Idle
<1>3. ASSUME NEW o \in Ops PROVE CreationInv(o)'
  <2>1. CreationInv(o)
    BY DEF Safe
  <2>2. Attempted(o)' /\ Stored(o)' /\ Known(o)'
    BY <1>1, <1>2, <2>1 DEF CreationInv, Attempted, Stored, Known, Works
  <2>3. o \notin stale' => Found(o)'
    BY <1>1, <2>1 DEF CreationInv, Found
  <2> QED
    BY <1>2, <2>2, <2>3 DEF CreationInv, Works
<1>4. Assigned' /\ RivalInv'
  BY <1>1, <1>2 DEF Safe, Assigned, RivalInv, Possible, Rivals
<1> QED
  BY <1>3, <1>4 DEF Safe

-----------------------------------------------------------------------------
(* Theorems                                                                *)

LEMMA SafeInit == Init => Safe
<1> SUFFICES ASSUME Init PROVE Safe
  OBVIOUS
<1>1. \A r \in Runners : run[r].step = "idle"
  BY DEF Init, Idle
<1>2. \A o \in Ops : CreationInv(o)
  BY <1>1 DEF Init, CreationInv, Attempted, Stored, Known, Found, Works, Pending
<1>3. Assigned /\ RivalInv
  BY <1>1 DEF Init, Assigned, RivalInv, Possible, Pending, Rivals
<1> QED
  BY <1>2, <1>3 DEF Safe

\* Every step of a click, an attempt, the reconciler or the surroundings is safe.
LEMMA SafeStep == TypeOK /\ Safe /\ [Next]_vars => Safe'
<1> SUFFICES ASSUME TypeOK, Safe, [Next]_vars PROVE Safe'
  OBVIOUS
<1>1. ASSUME NEW o \in Ops, Handler(o) PROVE Safe'
  BY <1>1, ModalStep, SearchStep, PersistStep DEF Handler
<1>2. ASSUME NEW r \in Runners, Attempt(r) PROVE Safe'
  <2>1. run[r].step # "idle"
    BY <1>2 DEF Attempt, ChannelMade, ChannelLost, ControlPosted, StatsPosted, MessageLost,
                Cleaned, CleaningLost, Parts
  <2>2. PICK o \in Ops : Works(r, o)
    BY <2>1 DEF Safe, Assigned, Works
  <2> QED
    BY <1>2, <2>2, ChannelMadeStep, ChannelLostStep, ControlPostedStep, StatsPostedStep,
       MessageLostStep, CleanedStep, CleaningLostStep DEF Attempt
<1>3. ASSUME Reconcile PROVE Safe'
  BY <1>3, ListPendingStep, CancelStep, RetryStep, ResumeStep, SkipStep, CleanCompletedStep
     DEF Reconcile
<1>4. ASSUME Surroundings PROVE Safe'
  BY <1>4, DeactivateStep, CrashStep, GoneStep DEF Surroundings
<1>5. CASE UNCHANGED vars
  <2>1. Assigned' /\ RivalInv'
    BY <1>5 DEF vars, Safe, Assigned, RivalInv, Possible
  <2>2. \A o \in Ops : CreationInv(o)'
    BY <1>5 DEF vars, Safe, CreationInv, Attempted, Stored, Known, Found, Fresh, Works
  <2> QED
    BY <2>1, <2>2 DEF Safe
<1> QED
  BY <1>1, <1>2, <1>3, <1>4, <1>5 DEF Next

\* The invariant is inductive.
THEOREM Invariant == Spec => []Inv
<1>1. Init => Inv
  BY TypeInit, SafeInit DEF Inv
<1>2. Inv /\ [Next]_vars => Inv'
  BY TypeStep, SafeStep DEF Inv, Safe
<1> QED
  BY <1>1, <1>2, PTL DEF Spec

\* However often an attempt at a creation breaks off, with or without the
\* channel or the message being there, it makes one channel and posts each
\* opening message once (_complete_ticket_creation_locked,
\* _find_ticket_creation_channel).
THEOREM MadeOnce == Spec => []CreatedOnce
<1>1. Inv => CreatedOnce
  BY DEF Inv, Safe, CreationInv, Found, CreatedOnce, OneChannelPerCreation, OpeningMessagesOnce
<1> QED
  BY <1>1, Invariant, PTL

\* A member has two ticket channels only after a failure that the search for an
\* open ticket cannot see (_ticket_open_locks,
\* _find_existing_open_ticket_channel).
THEOREM OneTicket == Spec => []OneTicketPerOpener
<1>1. Inv => OneTicketPerOpener
  BY DEF Inv, Safe, RivalInv, Possible, OneTicketPerOpener
<1> QED
  BY <1>1, Invariant, PTL

\* The record of a creation says completed only when both messages were posted.
THEOREM CompletedHasMessages == Spec => []CompletedIsUsable
<1>1. Inv => CompletedIsUsable
  BY DEF Inv, Safe, CreationInv, Found, CompletedIsUsable
<1> QED
  BY <1>1, Invariant, PTL
=============================================================================

--------------------------- MODULE TicketCreation ---------------------------
(***************************************************************************)
(* Opening a ticket (bot/tickets.py).  A creation record is written before *)
(* Discord is asked for anything, and every later step is looked up by its *)
(* id or by a marker before it is repeated, so that an attempt that broke  *)
(* off can be taken up by the reconciler of the next minute.               *)
(*                                                                         *)
(* Two kinds of runner execute the same code: the handler of the click and *)
(* the reconciler (Sweep).  A runner works on the payload it was given;    *)
(* the reconciler's comes from a list it read earlier.  Code between two   *)
(* awaits is one action.  A Discord call succeeds, fails, or takes effect  *)
(* and raises.                                                             *)
(*                                                                         *)
(* Abstractions.  There is one panel; the category, the roles and the      *)
(* opener are there.  The closing of a ticket (TicketArchive) is one step. *)
(* The bot's channel cache is up to date when an attempt looks into it.    *)
(***************************************************************************)
EXTENDS Integers, FiniteSets

CONSTANTS
    Ops,         \* creation ids; each is used by one click
    Users,
    Opener,      \* who clicked, for every creation id
    Sweep,       \* the reconciler
    MaxMade,     \* bound: channels created for one id
    MaxTurns     \* bound: channels deleted by moderators, crashes

ASSUME CreationAssumption ==
    /\ Opener \in [Ops -> Users]
    /\ Sweep \notin Ops
    /\ MaxMade \in Nat
    /\ MaxTurns \in Nat

VARIABLES
    active,      \* the panel is active and the server configured
    creation,    \* records of kind ticket_creation
    alive, made, \* per id: the channels that exist, and how many were created
    topic,       \* per id: the channels whose topic still has the creation id
    sent,        \* opening messages in the newest channel of an id
    marked,      \* those messages still have their markers
    ticket,      \* the ticket record of the newest channel of an id
    click,       \* the handler of the click that uses an id
    run,         \* attempts in progress, one per runner
    list,        \* what is left of the reconciler's list
    stale,       \* history variable: ids attempted from an outdated payload
    unseen,      \* history variable: ids a search for an open ticket missed
    turns

discord == <<alive, made, topic, sent, marked>>
ghosts  == <<stale, unseen>>
vars    == <<active, creation, discord, ticket, click, run, list, ghosts, turns>>

Runners  == Ops \union {Sweep}
Pending  == {"pending", "channel_ready", "control_ready", "messages_ready"}
Parts    == {"control", "stats"}
Payload  == [channel : 0 .. MaxMade, known : SUBSET Parts]
Empty    == [channel |-> 0, known |-> {}]
Idle     == [step |-> "idle", op |-> Sweep, payload |-> Empty]

Snapshot(o) == [op |-> o, payload |-> creation[o].payload]

Init ==
    /\ active = TRUE
    /\ creation = [o \in Ops |-> [status |-> "none", payload |-> Empty, removed |-> FALSE]]
    /\ alive = [o \in Ops |-> {}]
    /\ made = [o \in Ops |-> 0]
    /\ topic = [o \in Ops |-> {}]
    /\ sent = [o \in Ops |-> [p \in Parts |-> 0]]
    /\ marked = [o \in Ops |-> {}]
    /\ ticket = [o \in Ops |-> "none"]
    /\ click = [o \in Ops |-> "idle"]
    /\ run = [r \in Runners |-> Idle]
    /\ list = {}
    /\ stale = {}
    /\ unseen = {}
    /\ turns = 0

-----------------------------------------------------------------------------
(* The click                                                               *)

Rivals(o) == {p \in Ops \ {o} : Opener[p] = Opener[o]}

\* _ticket_open_locks: one creation per panel and opener at a time.
OpenLockFree(o) == \A p \in Rivals(o) : click[p] \notin {"clear", "working"}

\* Mutant: only records with status "open" count, the channels are not scanned.
HasOpenTicket_Records(o) == \E p \in Rivals(o) : ticket[p] = "open" /\ alive[p] # {}

\* A channel of the opener is found through its record or by its topic.
HasOpenTicket(o) == \E p \in Rivals(o) : alive[p] # {}

\* The modal: an early look without the lock, before Albion is asked.
Modal(o) ==
    /\ click[o] = "idle"
    /\ active
    /\ ~HasOpenTicket(o)
    /\ click' = [click EXCEPT ![o] = "selecting"]
    /\ UNCHANGED <<active, creation, discord, ticket, run, list, ghosts, turns>>

\* Records whose channel is gone are set to "missing" on the way.
Forget(o) == [p \in Ops |-> IF p \in Rivals(o) /\ ticket[p] = "open" /\ alive[p] = {}
                            THEN "missing" ELSE ticket[p]]

\* The character is chosen: the search is repeated under the lock.  It also
\* refuses when Discord does not answer.
Search(o) ==
    /\ click[o] = "selecting"
    /\ OpenLockFree(o)
    /\ \/ /\ active
          /\ ~HasOpenTicket(o)
          /\ click' = [click EXCEPT ![o] = "clear"]
          /\ ticket' = Forget(o)
          /\ unseen' = unseen \union
                 {p \in Rivals(o) : creation[p].status \in Pending /\ alive[p] = {}}
       \/ /\ click' = [click EXCEPT ![o] = "done"]
          /\ UNCHANGED <<ticket, unseen>>
    /\ UNCHANGED <<active, creation, discord, run, list, stale, turns>>

\* The intent is stored, then Discord is asked for the channel.
Persist(o) ==
    /\ click[o] = "clear"
    /\ IF active
       THEN /\ creation' = [creation EXCEPT ![o].status = "pending"]
            /\ click' = [click EXCEPT ![o] = "working"]
            /\ run' = [run EXCEPT ![o] = [step |-> "creating", op |-> o, payload |-> Empty]]
       ELSE /\ click' = [click EXCEPT ![o] = "done"]
            /\ UNCHANGED <<creation, run>>
    /\ UNCHANGED <<active, discord, ticket, list, ghosts, turns>>

-----------------------------------------------------------------------------
(* An attempt                                                              *)

\* _ticket_creation_locks: one attempt per creation id at a time.
Busy(o) == \E r \in Runners : run[r].step # "idle" /\ run[r].op = o

\* The attempt is over, and with it the click.
Leave(r) ==
    /\ run' = [run EXCEPT ![r] = Idle]
    /\ click' = [o \in Ops |-> IF o = r THEN "done" ELSE click[o]]

Proceed(r, step, o, payload) ==
    /\ run' = [run EXCEPT ![r] = [step |-> step, op |-> o, payload |-> payload]]
    /\ UNCHANGED click

Record(o, status, payload) ==
    creation' = [creation EXCEPT ![o] =
                     [status |-> status, payload |-> payload, removed |-> FALSE]]

\* Mutant: the topic is not searched for the creation id.
Located_ById(o, payload) == {payload.channel} \intersect alive[o]

\* The channel of the payload, or one whose topic has the creation id.
Located(o, payload) ==
    IF payload.channel \in alive[o] THEN {payload.channel} ELSE alive[o] \intersect topic[o]

\* reconcile_ticket_creations reads the unfinished records once.
ListPending ==
    /\ list = {}
    /\ run[Sweep].step = "idle"
    /\ list' = {Snapshot(o) : o \in {p \in Ops : creation[p].status \in Pending}}
    /\ UNCHANGED <<active, creation, discord, ticket, click, run, ghosts, turns>>

Listed(s) ==
    /\ s \in list
    /\ run[Sweep].step = "idle"
    /\ ~Busy(s.op)
    /\ list' = list \ {s}
    /\ stale' = IF s = Snapshot(s.op) THEN stale ELSE stale \union {s.op}
    /\ UNCHANGED <<active, unseen, turns>>

\* The panel is gone: the channel is deleted, or not, and the record closed.
Cancel(s) ==
    /\ ~active
    /\ Listed(s)
    /\ \E gone \in SUBSET Located(s.op, s.payload) :
           alive' = [alive EXCEPT ![s.op] = @ \ gone]
    /\ creation' = [creation EXCEPT ![s.op].status = "cancelled"]
    /\ UNCHANGED <<made, topic, sent, marked, ticket, click, run>>

\* No channel is found: Discord is asked for one.
Retry(s) ==
    /\ active
    /\ Listed(s)
    /\ Located(s.op, s.payload) = {}
    /\ Proceed(Sweep, "creating", s.op, s.payload)
    /\ UNCHANGED <<creation, discord, ticket>>

\* A channel is found: its id is stored and the ticket is being created.
Resume(s) ==
    /\ active
    /\ Listed(s)
    /\ \E c \in Located(s.op, s.payload) :
           LET payload == [s.payload EXCEPT !.channel = c]
           IN  /\ Record(s.op, "channel_ready", payload)
               /\ Proceed(Sweep, "control", s.op, payload)
    /\ ticket' = [ticket EXCEPT ![s.op] = "creating"]
    /\ UNCHANGED discord

\* Discord does not answer while the channel is looked up.
Skip(s) ==
    /\ Listed(s)
    /\ UNCHANGED <<creation, discord, ticket, click, run>>

NewChannel(o) ==
    /\ made[o] < MaxMade
    /\ made' = [made EXCEPT ![o] = @ + 1]
    /\ alive' = [alive EXCEPT ![o] = @ \union {made[o] + 1}]
    /\ topic' = [topic EXCEPT ![o] = @ \union {made[o] + 1}]
    /\ sent' = [sent EXCEPT ![o] = [p \in Parts |-> 0]]
    /\ marked' = [marked EXCEPT ![o] = {}]

ChannelMade(r) ==
    LET o == run[r].op
        payload == [run[r].payload EXCEPT !.channel = made[o] + 1]
    IN  /\ run[r].step = "creating"
        /\ NewChannel(o)
        /\ Record(o, "channel_ready", payload)
        /\ ticket' = [ticket EXCEPT ![o] = "creating"]
        /\ Proceed(r, "control", o, payload)
        /\ UNCHANGED <<active, list, ghosts, turns>>

\* Discord raises, whether or not the channel is there now; or the panel, the
\* category or the opener is gone and it is not asked.
ChannelLost(r) ==
    /\ run[r].step = "creating"
    /\ NewChannel(run[r].op) \/ UNCHANGED discord
    /\ Leave(r)
    /\ UNCHANGED <<active, creation, ticket, list, ghosts, turns>>

\* Mutant: any opening message of the creation passes for this one.
Posted_AnyPart(o, part, payload) == payload.known \union marked[o] # {}

\* The message of the payload, or one with the marker of this part.
Posted(o, part, payload) ==
    /\ sent[o][part] > 0
    /\ part \in payload.known \union marked[o]

Post(o, part, payload) ==
    IF Posted(o, part, payload)
    THEN UNCHANGED <<sent, marked>>
    ELSE /\ sent' = [sent EXCEPT ![o][part] = @ + 1]
         /\ marked' = [marked EXCEPT ![o] = @ \union {part}]

\* The message is found or sent, and its id stored.
ControlPosted(r) ==
    LET o == run[r].op
        payload == [run[r].payload EXCEPT !.known = @ \union {"control"}]
    IN  /\ run[r].step = "control"
        /\ run[r].payload.channel \in alive[o]
        /\ Post(o, "control", run[r].payload)
        /\ Record(o, "control_ready", payload)
        /\ Proceed(r, "stats", o, payload)
        /\ UNCHANGED <<active, alive, made, topic, ticket, list, ghosts, turns>>

\* With the second message the ticket is open and the creation completed.
StatsPosted(r) ==
    LET o == run[r].op
        payload == [run[r].payload EXCEPT !.known = @ \union {"stats"}]
    IN  /\ run[r].step = "stats"
        /\ run[r].payload.channel \in alive[o]
        /\ Post(o, "stats", run[r].payload)
        /\ Record(o, "completed", payload)
        /\ ticket' = [ticket EXCEPT ![o] = "open"]
        /\ Proceed(r, "clean", o, payload)
        /\ UNCHANGED <<active, alive, made, topic, list, ghosts, turns>>

\* Discord raises: the message may be there, its id is not stored.
MessageLost(r) ==
    /\ run[r].step \in Parts
    /\ \/ run[r].payload.channel \in alive[run[r].op] /\ Post(run[r].op, run[r].step, run[r].payload)
       \/ UNCHANGED <<sent, marked>>
    /\ Leave(r)
    /\ UNCHANGED <<active, creation, alive, made, topic, ticket, list, ghosts, turns>>

Scrub(o, c) ==
    /\ marked' = [marked EXCEPT ![o] = {}]
    /\ topic' = [topic EXCEPT ![o] = @ \ {c}]
    /\ UNCHANGED <<alive, made, sent>>

\* The markers of a completed ticket are removed and the ticket stored again.
Cleaned(r) ==
    LET o == run[r].op
    IN  /\ run[r].step = "clean"
        /\ run[r].payload.channel \in alive[o]
        /\ Scrub(o, run[r].payload.channel)
        /\ creation' = [creation EXCEPT ![o] = [status |-> "completed",
                            payload |-> run[r].payload, removed |-> TRUE]]
        /\ ticket' = [ticket EXCEPT ![o] = "open"]
        /\ Leave(r)
        /\ UNCHANGED <<active, list, ghosts, turns>>

CleaningLost(r) ==
    /\ run[r].step = "clean"
    /\ Leave(r)
    /\ UNCHANGED <<active, creation, discord, ticket, list, ghosts, turns>>

\* The reconciler's second loop removes the markers that are still there.  It
\* takes no lock.
CleanCompleted(o) ==
    LET c == creation[o].payload.channel
    IN  /\ creation[o].status = "completed"
        /\ ~creation[o].removed
        /\ IF c \in alive[o] THEN Scrub(o, c) ELSE UNCHANGED discord
        /\ creation' = [creation EXCEPT ![o].removed = TRUE]
        /\ UNCHANGED <<active, ticket, click, run, list, ghosts, turns>>

-----------------------------------------------------------------------------
(* The surroundings                                                        *)

\* The panel is deleted, or the configuration of the server removed.
Deactivate ==
    /\ active
    /\ active' = FALSE
    /\ UNCHANGED <<creation, discord, ticket, click, run, list, ghosts, turns>>

\* The ticket is closed and archived.
Close(o) ==
    /\ ticket[o] = "open"
    /\ alive[o] # {}
    /\ alive' = [alive EXCEPT ![o] = {}]
    /\ ticket' = [ticket EXCEPT ![o] = "closed"]
    /\ UNCHANGED <<active, creation, made, topic, sent, marked, click, run, list, ghosts, turns>>

\* A moderator deletes the channel.
Delete(o) ==
    /\ turns < MaxTurns
    /\ alive[o] # {}
    /\ alive' = [alive EXCEPT ![o] = {}]
    /\ turns' = turns + 1
    /\ UNCHANGED <<active, creation, made, topic, sent, marked, ticket, click, run, list, ghosts>>

\* The process is killed between two actions and started again.
Crash ==
    /\ turns < MaxTurns
    /\ turns' = turns + 1
    /\ run' = [r \in Runners |-> Idle]
    /\ click' = [o \in Ops |-> IF creation[o].status = "none" THEN "idle" ELSE "done"]
    /\ list' = {}
    /\ UNCHANGED <<active, creation, discord, ticket, ghosts>>

Handler(o)  == Modal(o) \/ Search(o) \/ Persist(o)
Attempt(r)  == \/ ChannelMade(r) \/ ChannelLost(r)
               \/ ControlPosted(r) \/ StatsPosted(r) \/ MessageLost(r)
               \/ Cleaned(r) \/ CleaningLost(r)
Reconcile   == \/ ListPending
               \/ \E s \in list : Cancel(s) \/ Retry(s) \/ Resume(s) \/ Skip(s)
               \/ \E o \in Ops : CleanCompleted(o)
Surroundings == Deactivate \/ Crash \/ \E o \in Ops : Close(o) \/ Delete(o)

Next ==
    \/ \E o \in Ops : Handler(o)
    \/ \E r \in Runners : Attempt(r)
    \/ Reconcile
    \/ Surroundings

Spec == Init /\ [][Next]_vars

-----------------------------------------------------------------------------
(* Properties                                                              *)

\* Values stay in their domains.
TypeOK ==
    /\ active \in BOOLEAN
    /\ creation \in [Ops -> [status : Pending \union {"none", "completed", "cancelled"},
                             payload : Payload, removed : BOOLEAN]]
    /\ alive \in [Ops -> SUBSET (1 .. MaxMade)]
    /\ made \in [Ops -> 0 .. MaxMade]
    /\ topic \in [Ops -> SUBSET (1 .. MaxMade)]
    /\ sent \in [Ops -> [Parts -> Nat]]
    /\ marked \in [Ops -> SUBSET Parts]
    /\ ticket \in [Ops -> {"none", "creating", "open", "missing", "closed"}]
    /\ click \in [Ops -> {"idle", "selecting", "clear", "working", "done"}]
    /\ run \in [Runners -> [step : {"idle", "creating", "control", "stats", "clean"},
                            op : Runners, payload : Payload]]
    /\ list \subseteq [op : Ops, payload : Payload]
    /\ stale \subseteq Ops
    /\ unseen \subseteq Ops
    /\ turns \in 0 .. MaxTurns

\* However often an attempt breaks off, also when Discord created the channel
\* and raised, a creation id never has two channels - as long as each attempt
\* starts from the record as it is.
OneChannelPerCreation ==
    \A o \in Ops \ stale : \A c, d \in alive[o] : c = d

\* Under the same condition each opening message is posted once.
OpeningMessagesOnce ==
    \A o \in Ops \ stale : \A part \in Parts : sent[o][part] <= 1

\* However often a creation is taken up again, what it makes is made once.
CreatedOnce == TypeOK /\ OneChannelPerCreation /\ OpeningMessagesOnce

\* A member has two tickets at once only if one of them was still waiting for
\* its channel, after a failure, when the other one was opened.
OneTicketPerOpener ==
    \A o \in Ops : \A p \in Rivals(o) :
        alive[o] # {} /\ alive[p] # {} => {o, p} \intersect (unseen \union stale) # {}

\* A completed creation has both its messages, and the close button with them.
CompletedIsUsable ==
    \A o \in Ops : creation[o].status = "completed" /\ alive[o] # {} /\ o \notin stale =>
        \A part \in Parts : sent[o][part] > 0
=============================================================================

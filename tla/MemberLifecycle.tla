-------------------------- MODULE MemberLifecycle --------------------------
(***************************************************************************)
(* Membership of one Discord server: the /register and /force-register     *)
(* commands (registration.py), the three-minute audit against the Albion   *)
(* API (membership.py) and the reconciler of unfinished Member-role        *)
(* assignments, over one ledger, one set of durable intents                *)
(* (runtime_state) and Discord.                                            *)
(*                                                                         *)
(* Commands and audit read Albion, the configuration and the ledger        *)
(* without any lock, and act on what they read under the guild's lifecycle *)
(* lock: `held' is the critical section that runs, its step "free" when    *)
(* nobody holds the lock.  The process may stop at any step; SQLite,       *)
(* Discord and Albion stay, everything in memory is gone and the in-memory *)
(* lifecycle generation restarts from zero.                                *)
(*                                                                         *)
(* Abstractions.  A character is its Albion id; `name' is what Albion      *)
(* answers for it today.  A new target guild is a new, empty ledger        *)
(* generation, so the rows disappear with it; its lock holder advances the *)
(* lifecycle generation, so a captured generation also stands for the      *)
(* captured ledger id.  Moderators who edit roles by hand, players without *)
(* an Albion id and the cutover gate are left out.                         *)
(***************************************************************************)
EXTENDS Naturals, FiniteSets

CONSTANTS
    Users,           \* Discord accounts
    Characters,      \* Albion ids
    Names,
    Targets,         \* Albion guilds
    LeaveActions,    \* configured reactions to a departure
    Commands,        \* registration commands in flight
    NoCharacter, NoName, NoTarget, NoCommand, NoCheck, NoAudit, NoRecord,
    Confirmations,   \* Albion answers a departure needs
    MaxRevision,     \* bound: versions of a row that may still register
    MaxTurns         \* bound: things the environment does

ASSUME MemberAssumption ==
    /\ NoCharacter \notin Characters /\ NoName \notin Names /\ NoTarget \notin Targets
    /\ LeaveActions \subseteq {"none", "remove_roles", "kick"}
    /\ NoAudit \notin [phase : {"checking"}, target : Targets, leave : LeaveActions,
                       generation : Nat]
    /\ Confirmations \in Nat \ {0}
    /\ MaxRevision \in Nat
    /\ MaxTurns \in Nat

VARIABLES
    guild, name,     \* Albion: the guild and the name of each character
    target, leave,   \* guild_settings: target guild and leave action
    generation,      \* guild_lifecycle: in memory only
    character, nickname, active, revision, recent,
                     \* registered_players of the active ledger; `recent':
                     \* updated less than the grace period ago
    intent,          \* durable role intents: key <<user, character>>, value
                     \* the character the payload names
    inServer, hasRole,
    command,         \* a registration between its Albion answer and the lock
    audit, check,    \* the audit's captured configuration, and per player the
                     \* captured row with the negative answers so far
    listed, picked,  \* records the reconciler listed and has not handled, and
                     \* the one it waits for the lock with
    held,            \* the critical section under the lifecycle lock
    served,          \* history: role given since the row last became current
    forgotten,       \* history: a live intent of the user was deleted
    outside,         \* history: character seen outside the target guild by
                     \* anybody since the row's present version exists
    turns

albionVars == <<guild, name>>
config  == <<target, leave, generation>>
rows    == <<character, nickname, active, revision, recent>>
discord == <<inServer, hasRole>>
auditing == <<audit, check>>
listing == <<listed, picked>>
history == <<served, forgotten, outside>>
vars    == <<albionVars, config, rows, intent, discord, command, auditing, listing, held,
             history, turns>>

Free == [step |-> "free"]
Registered(u) == revision[u] > 0
Outside(u) == character[u] # NoCharacter /\ guild[character[u]] # target
Turn == turns < MaxTurns /\ turns' = turns + 1

Init ==
    /\ guild \in [Characters -> Targets]
    /\ name \in {f \in [Characters -> Names] : \A a, b \in Characters : f[a] = f[b] => a = b}
    /\ target \in Targets
    /\ leave \in LeaveActions
    /\ generation = 0
    /\ character = [u \in Users |-> NoCharacter]
    /\ nickname = [u \in Users |-> NoName]
    /\ active = [u \in Users |-> FALSE]
    /\ revision = [u \in Users |-> 0]
    /\ recent = [u \in Users |-> FALSE]
    /\ intent = [k \in Users \X Characters |-> NoCharacter]
    /\ inServer = [u \in Users |-> TRUE]
    /\ hasRole = [u \in Users |-> FALSE]
    /\ command = [c \in Commands |-> NoCommand]
    /\ audit = NoAudit
    /\ check = [u \in Users |-> NoCheck]
    /\ listed = {}
    /\ picked = NoRecord
    /\ held = Free
    /\ served = {}
    /\ forgotten = {}
    /\ outside = {}
    /\ turns = 0

\* The row of u is written: a new version, its grace period starts.
NewVersion(u) ==
    /\ revision' = [revision EXCEPT ![u] = @ + 1]
    /\ recent' = [recent EXCEPT ![u] = TRUE]

-----------------------------------------------------------------------------
(* Registration                                                            *)

\* Albion confirms that the character is in the target guild; a moderator's
\* command has also read the member's present row.
Verify(c, u, a, forced) ==
    /\ command[c] = NoCommand
    /\ target # NoTarget
    /\ inServer[u]
    /\ guild[a] = target
    /\ command' = [command EXCEPT ![c] =
          [user |-> u, character |-> a, name |-> name[a], forced |-> forced,
           target |-> target, generation |-> generation,
           seen |-> IF forced THEN <<character[u], nickname[u]>> ELSE <<>>]]
    /\ UNCHANGED <<albionVars, config, rows, intent, discord, auditing, listing, held,
                   history, turns>>

\* Under the lock: same configuration, and for a moderator the same row.
StillValid(c) ==
    LET r == command[c] IN
    /\ r.generation = generation
    /\ r.target = target
    /\ r.forced => r.seen = <<character[r.user], nickname[r.user]>>

\* The command ends without effect: the configuration or the row changed, or
\* the Member role cannot be assigned by the bot.
Refuse(c) ==
    /\ held = Free
    /\ command[c] # NoCommand
    /\ command' = [command EXCEPT ![c] = NoCommand]
    /\ UNCHANGED <<albionVars, config, rows, intent, discord, auditing, listing, held,
                   history, turns>>

\* The payload of key k becomes a; a live intent of a retyped name is replaced.
Save(k, a) ==
    /\ intent' = [intent EXCEPT ![k] = a]
    /\ forgotten' = IF intent[k] \in {NoCharacter, a} THEN forgotten
                    ELSE forgotten \union {k[1]}

\* The recovery intent is durable before the registration.
SaveIntent(c) ==
    /\ held = Free
    /\ command[c] # NoCommand
    /\ StillValid(c)
    /\ revision[command[c].user] < MaxRevision
    /\ LET r == command[c] IN
         /\ Save(<<r.user, r.character>>, r.character)
         /\ held' = [step |-> "register", by |-> "command", user |-> r.user,
                     key |-> r.character, payload |-> r.character, name |-> r.name,
                     forced |-> r.forced]
    /\ command' = [command EXCEPT ![c] = NoCommand]
    /\ UNCHANGED <<albionVars, config, rows, discord, auditing, listing, served, outside, turns>>

Conflict(u, n, a) ==
    \E v \in Users \ {u} : nickname[v] = n \/ character[v] = a

\* The intent with key k is deleted.
Drop(k) ==
    /\ intent' = [intent EXCEPT ![k] = NoCharacter]
    /\ forgotten' = IF intent[k] = character[k[1]] /\ k[1] \notin served
                    THEN forgotten \union {k[1]} ELSE forgotten

RegisterConflict ==
    /\ held.step = "register"
    /\ Conflict(held.user, held.name, held.payload)
    /\ Drop(<<held.user, held.key>>)
    /\ held' = Free
    /\ UNCHANGED <<albionVars, config, rows, discord, command, auditing, listing,
                   served, outside, turns>>

\* An active player keeps their row, unless a moderator changes the character.
AlreadyRegistered(u) ==
    /\ active[u]
    /\ held.forced => nickname[u] = held.name /\ character[u] = held.payload

\* register_player, and the canonical character goes into the payload.
Register ==
    LET u == held.user
        a == held.payload
        kept == AlreadyRegistered(u)
    IN
    /\ held.step = "register"
    /\ ~Conflict(u, held.name, a)
    /\ IF kept
       THEN UNCHANGED <<rows, served, outside>>
       ELSE /\ character' = [character EXCEPT ![u] = a]
            /\ nickname' = [nickname EXCEPT ![u] = held.name]
            /\ active' = [active EXCEPT ![u] = TRUE]
            /\ NewVersion(u)
            /\ served' = served \ {u}
            /\ outside' = IF guild[a] # target THEN outside \union {u} ELSE outside \ {u}
    /\ held' = [held EXCEPT !.step = "update", !.payload = IF kept THEN character[u] ELSE a]
    /\ UNCHANGED <<albionVars, config, intent, discord, command, auditing, listing,
                   forgotten, turns>>

UpdateIntent ==
    /\ held.step = "update"
    /\ intent' = [intent EXCEPT ![<<held.user, held.key>>] = held.payload]
    /\ held' = [step |-> "role", by |-> "command", user |-> held.user, key |-> held.key,
                payload |-> held.payload]
    /\ forgotten' = forgotten \ {held.user}
    /\ UNCHANGED <<albionVars, config, rows, discord, command, auditing, listing,
                   served, outside, turns>>

\* Discord adds the role, refuses it, or adds it and still answers an error.
AddRole(ok) ==
    /\ held.step = "role"
    /\ ok => inServer[held.user]
    /\ \E given \in {ok, inServer[held.user]} :
         hasRole' = [hasRole EXCEPT ![held.user] = @ \/ given]
    /\ served' = IF ok THEN served \union {held.user} ELSE served
    /\ held' = [step |-> IF ok THEN "done" ELSE "failed", by |-> held.by,
                user |-> held.user, key |-> held.key, payload |-> held.payload]
    /\ UNCHANGED <<albionVars, config, rows, intent, inServer, command, auditing, listing,
                   forgotten, outside, turns>>

\* Mutant: the intent goes away whatever Discord answered.
RecordResult_Always ==
    /\ held.step \in {"done", "failed"}
    /\ intent' = [intent EXCEPT ![<<held.user, held.key>>] = NoCharacter]
    /\ held' = Free
    /\ UNCHANGED <<albionVars, config, rows, discord, command, auditing, listing, history, turns>>

\* Mutant: a repaired role is not recorded.
RecordResult_Never ==
    /\ held.step \in {"done", "failed"}
    /\ held' = Free
    /\ UNCHANGED <<albionVars, config, rows, intent, discord, command, auditing, listing,
                   history, turns>>

RecordResult ==
    /\ held.step \in {"done", "failed"}
    /\ intent' = [intent EXCEPT ![<<held.user, held.key>>] =
                     IF held.step = "done" THEN NoCharacter ELSE held.payload]
    /\ held' = Free
    /\ UNCHANGED <<albionVars, config, rows, discord, command, auditing, listing, history, turns>>

-----------------------------------------------------------------------------
(* Reconciliation of the intents, every minute and at start-up             *)

Records == Users \X Characters \X Characters
Idle == picked = NoRecord /\ (held # Free => held.by # "reconciler")

ListIntents ==
    /\ Idle
    /\ listed = {}
    /\ listed' = {r \in Records : intent[<<r[1], r[2]>>] = r[3]}
    /\ listed' # {}
    /\ UNCHANGED <<albionVars, config, rows, intent, discord, command, auditing, picked, held,
                   history, turns>>

\* One record after the other waits for the lifecycle lock ...
Pick(r) ==
    /\ Idle
    /\ r \in listed
    /\ listed' = listed \ {r}
    /\ picked' = r
    /\ UNCHANGED <<albionVars, config, rows, intent, discord, command, auditing, held,
                   history, turns>>

\* ... but when the server is not in the client's cache the listed record is
\* written back, without the lock.
WriteBack(r) ==
    /\ Idle
    /\ r \in listed
    /\ listed' = listed \ {r}
    /\ Save(<<r[1], r[2]>>, r[3])
    /\ UNCHANGED <<albionVars, config, rows, discord, command, auditing, picked, held,
                   served, outside, turns>>

\* Mutant: whether the player is still active is not read again.
Obsolete_Inactive(r) ==
    target = NoTarget \/ r[3] # character[r[1]]

\* The listed record no longer describes an active registration.
Obsolete(r) ==
    \/ target = NoTarget
    \/ ~active[r[1]]
    \/ r[3] # character[r[1]]

Reconcile ==
    LET r == picked IN
    /\ picked # NoRecord
    /\ held = Free
    /\ picked' = NoRecord
    /\ IF Obsolete(r)
       THEN Drop(<<r[1], r[2]>>) /\ UNCHANGED held
       ELSE /\ held' = [step |-> "role", by |-> "reconciler", user |-> r[1], key |-> r[2],
                        payload |-> r[3]]
            /\ UNCHANGED <<intent, forgotten>>
    /\ UNCHANGED <<albionVars, config, rows, discord, command, auditing, listed, served,
                   outside, turns>>

-----------------------------------------------------------------------------
(* Audit                                                                   *)

\* The target and the leave action are read first ...
AuditBegin ==
    /\ audit = NoAudit
    /\ target # NoTarget
    /\ audit' = [phase |-> "begun", target |-> target, leave |-> leave]
    /\ UNCHANGED <<albionVars, config, rows, intent, discord, command, check, listing, held,
                   history, turns>>

\* ... then the generation and the active rows, other than the recent ones.
AuditSnapshot ==
    /\ audit # NoAudit
    /\ audit.phase = "begun"
    /\ audit' = [phase |-> "checking", target |-> audit.target, leave |-> audit.leave,
                 generation |-> generation]
    /\ check' = [u \in Users |->
                   IF active[u] /\ ~recent[u]
                   THEN [revision |-> revision[u], character |-> character[u], answers |-> 0]
                   ELSE NoCheck]
    /\ UNCHANGED <<albionVars, config, rows, intent, discord, command, listing, held,
                   served, forgotten, outside, turns>>

\* One Albion answer: outside the guild counts, inside or no answer ends it.
Lookup(u) ==
    /\ check[u] # NoCheck
    /\ check[u].answers < Confirmations
    /\ \/ check' = [check EXCEPT ![u] = NoCheck]
       \/ /\ guild[check[u].character] # audit.target
          /\ check' = [check EXCEPT ![u].answers = @ + 1]
    /\ UNCHANGED <<albionVars, config, rows, intent, discord, command, audit, listing, held,
                   history, turns>>

\* Mutant: the row's revision is not compared.
SameRow_AnyRevision(u) == active[u]

\* Is the audit's captured configuration, and the captured row, still current?
SameConfiguration ==
    /\ audit.generation = generation
    /\ audit.target = target
    /\ audit.leave = leave
SameRow(u) == active[u] /\ revision[u] = check[u].revision

Depart(u) ==
    /\ held = Free
    /\ check[u] # NoCheck
    /\ check[u].answers = Confirmations
    /\ check' = [check EXCEPT ![u] = NoCheck]
    /\ IF SameConfiguration /\ SameRow(u)
       THEN /\ active' = [active EXCEPT ![u] = FALSE]
            /\ NewVersion(u)
            /\ held' = [step |-> "leave", by |-> "audit", user |-> u]
       ELSE UNCHANGED <<active, revision, recent, held>>
    /\ UNCHANGED <<albionVars, config, character, nickname, intent, discord, command, audit,
                   listing, history, turns>>

\* The leave action is done or fails; nobody tries it a second time.
Enforce ==
    /\ held.step = "leave"
    /\ held' = Free
    /\ LET u == held.user IN
         \/ UNCHANGED discord
         \/ /\ audit.leave = "remove_roles"
            /\ hasRole' = [hasRole EXCEPT ![u] = FALSE]
            /\ UNCHANGED inServer
         \/ /\ audit.leave = "kick"
            /\ inServer' = [inServer EXCEPT ![u] = FALSE]
            /\ hasRole' = [hasRole EXCEPT ![u] = FALSE]
    /\ UNCHANGED <<albionVars, config, rows, intent, command, auditing, listing, history, turns>>

AuditEnd ==
    /\ audit # NoAudit
    /\ audit.phase = "checking"
    /\ \A u \in Users : check[u] = NoCheck
    /\ held # Free => held.by # "audit"
    /\ audit' = NoAudit
    /\ UNCHANGED <<albionVars, config, rows, intent, discord, command, check, listing, held,
                   served, forgotten, outside, turns>>

-----------------------------------------------------------------------------
(* The environment: administrators, Albion, members, time, crashes         *)

\* The old generation is archived, the new one, if any, has no rows.
NewLedger ==
    /\ character' = [u \in Users |-> NoCharacter]
    /\ nickname' = [u \in Users |-> NoName]
    /\ active' = [u \in Users |-> FALSE]
    /\ revision' = [u \in Users |-> 0]
    /\ recent' = [u \in Users |-> FALSE]
    /\ served' = {} /\ forgotten' = {} /\ outside' = {}

\* Setup, edit or removal (NoTarget), under the lock: a new target guild is a
\* new empty ledger.  The lifecycle generation advances in a second step.
Reconfigure(t, l) ==
    /\ Turn
    /\ held = Free
    /\ <<t, l>> # <<target, leave>>
    /\ target' = t
    /\ leave' = l
    /\ held' = [step |-> "advance", by |-> "editor"]
    /\ IF t = target THEN UNCHANGED <<rows, served, forgotten, outside>>
       ELSE NewLedger
    /\ UNCHANGED <<albionVars, generation, intent, discord, command, auditing, listing>>

Advance ==
    /\ held.step = "advance"
    /\ generation' = generation + 1
    /\ held' = Free
    /\ UNCHANGED <<albionVars, target, leave, rows, intent, discord, command, auditing, listing,
                   history, turns>>

Move(a, g) ==
    /\ Turn
    /\ guild[a] # g
    /\ guild' = [guild EXCEPT ![a] = g]
    /\ outside' = outside \union {u \in Users : character[u] = a /\ g # target}
    /\ UNCHANGED <<name, config, rows, intent, discord, command, auditing, listing, held,
                   served, forgotten>>

Rename(a, n) ==
    /\ Turn
    /\ \A b \in Characters : name[b] # n
    /\ name' = [name EXCEPT ![a] = n]
    /\ UNCHANGED <<guild, config, rows, intent, discord, command, auditing, listing, held, history>>

LeaveOrJoin(u) ==
    /\ Turn
    /\ inServer' = [inServer EXCEPT ![u] = ~@]
    /\ hasRole' = [hasRole EXCEPT ![u] = FALSE]
    /\ UNCHANGED <<albionVars, config, rows, intent, command, auditing, listing, held, history>>

\* A balance change or lootsplit of the player.
BalanceChange(u) ==
    /\ Turn
    /\ Registered(u)
    /\ NewVersion(u)
    /\ outside' = IF Outside(u) THEN outside \union {u} ELSE outside \ {u}
    /\ UNCHANGED <<albionVars, config, character, nickname, active, intent, discord, command,
                   auditing, listing, held, served, forgotten>>

GraceEnds(u) ==
    /\ recent[u]
    /\ recent' = [recent EXCEPT ![u] = FALSE]
    /\ UNCHANGED <<albionVars, config, character, nickname, active, revision, intent, discord,
                   command, auditing, listing, held, history, turns>>

Crash ==
    /\ Turn
    /\ generation' = 0
    /\ command' = [c \in Commands |-> NoCommand]
    /\ audit' = NoAudit
    /\ check' = [u \in Users |-> NoCheck]
    /\ listed' = {}
    /\ picked' = NoRecord
    /\ held' = Free
    /\ UNCHANGED <<albionVars, target, leave, rows, intent, discord, served, forgotten, outside>>

Command(c) ==
    \/ \E u \in Users, a \in Characters, forced \in BOOLEAN : Verify(c, u, a, forced)
    \/ Refuse(c)
    \/ SaveIntent(c)

LockStep ==
    \/ RegisterConflict \/ Register \/ UpdateIntent
    \/ \E ok \in BOOLEAN : AddRole(ok)
    \/ RecordResult \/ Enforce \/ Advance

Reconciler ==
    \/ ListIntents
    \/ \E r \in Records : Pick(r) \/ WriteBack(r)
    \/ Reconcile

Auditor ==
    \/ AuditBegin \/ AuditSnapshot \/ AuditEnd
    \/ \E u \in Users : Lookup(u) \/ Depart(u)

Environment ==
    \/ \E t \in Targets \union {NoTarget}, l \in LeaveActions : Reconfigure(t, l)
    \/ \E a \in Characters : (\E g \in Targets : Move(a, g)) \/ (\E n \in Names : Rename(a, n))
    \/ \E u \in Users : LeaveOrJoin(u) \/ BalanceChange(u) \/ GraceEnds(u)
    \/ Crash

Next ==
    \/ \E c \in Commands : Command(c)
    \/ LockStep
    \/ Reconciler
    \/ Auditor
    \/ Environment

\* The reconciler runs every minute and holds the lock in turn with the others
\* (asyncio locks are first come, first served); a server that is in the
\* client's cache again and again, and a Discord that does not refuse for ever.
Fairness ==
    /\ WF_vars(LockStep)
    /\ WF_vars(ListIntents)
    /\ \A r \in Records : SF_vars(Pick(r))
    /\ SF_vars(Reconcile)
    /\ SF_vars(AddRole(TRUE))

Spec == Init /\ [][Next]_vars
FairSpec == Spec /\ Fairness

-----------------------------------------------------------------------------
(* Properties                                                              *)

Steps == {"free", "register", "update", "role", "done", "failed", "leave", "advance"}

TypeOK ==
    /\ guild \in [Characters -> Targets]
    /\ name \in [Characters -> Names]
    /\ target \in Targets \union {NoTarget}
    /\ leave \in LeaveActions
    /\ generation \in Nat
    /\ character \in [Users -> Characters \union {NoCharacter}]
    /\ nickname \in [Users -> Names \union {NoName}]
    /\ active \in [Users -> BOOLEAN]
    /\ revision \in [Users -> Nat]
    /\ recent \in [Users -> BOOLEAN]
    /\ intent \in [Users \X Characters -> Characters \union {NoCharacter}]
    /\ inServer \in [Users -> BOOLEAN]
    /\ hasRole \in [Users -> BOOLEAN]
    /\ held.step \in Steps
    /\ \A u \in Users : active[u] => character[u] # NoCharacter /\ target # NoTarget
    /\ listed \subseteq Records
    /\ picked \in Records \union {NoRecord}

\* Someone who is registered and has not been given the Member role since.
Unserved(u) == active[u] /\ u \notin served

\* A registration whose role assignment failed, or was interrupted, has its
\* repair queued at every step, save for the ways a live intent is lost by
\* mistake: a conflict, a stale record of the reconciler and a character that
\* is typed again.  On every other path any crash and any failure of Discord
\* leave the repair queued ("remains queued for recovery after restart").
RoleIsQueuedUnlessForgotten ==
    \A u \in Users \ forgotten :
        Unserved(u) => \E a \in Characters : intent[<<u, a>>] = character[u]

\* The Member role is only ever given to a player who is active in the ledger
\* at that moment, although intents and command arguments are older.
RoleOnlyToActive ==
    [][\A u \in Users : hasRole'[u] /\ ~hasRole[u] => active[u]]_vars

Departs(u) == active[u] /\ ~active'[u] /\ target' = target

\* The audit marks a player departed only if the character was outside the
\* guild configured now, at some time since the row's present version exists:
\* neither a new character, a changed balance, a changed configuration nor a
\* restart lets an old answer through.
DeparturesAreJustified == [][\A u \in Users : Departs(u) => u \in outside]_vars

\* Every queued intent of a member of the server is eventually settled.
IntentsSettle ==
    \A u \in Users, a \in Characters :
        intent[<<u, a>>] # NoCharacter ~> (intent[<<u, a>>] = NoCharacter \/ ~inServer[u])
=============================================================================

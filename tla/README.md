# RealmProtector in TLA+

RealmProtector is a Discord bot for Albion Online guilds. It registers members
against the Albion API, keeps a Silver ledger in SQLite, mirrors that ledger
into a Google Sheet, and runs ticket, trial, objective, composition and
reaction-role workflows on Discord. This directory holds TLA+ models of the
parts whose correctness depends on the order of things - commits, remote calls
that may fail after they took effect, restarts, tasks of one event loop that
wait for each other - with TLC configurations that check them on small
instances and TLAPS proofs of the results that matter most.

Paths below are relative to the repository; `src/realm_protector` is written
`rp`.

- [1. The system](#1-the-system)
- [2. Plan and composition](#2-plan-and-composition)
- [3. The modules](#3-the-modules)
- [4. The runs](#4-the-runs)
- [5. The proofs](#5-the-proofs)
- [6. Disagreements found](#6-disagreements-found)
- [7. Not modelled](#7-not-modelled)

## 1. The system

One process, one asyncio event loop, one SQLite database opened by worker
threads (`asyncio.to_thread`), and four remote parties that fail independently:
Discord, the Albion API, Google Sheets, and whoever stops the process. Every
remote call may take effect and still raise.

| component | state | operations | hard behaviour |
|---|---|---|---|
| Guild settings and ledger generations (`rp/infrastructure/guild_settings.py`) | per server: target guild, feature configuration, the ledger of the present generation, archived generations | set target, edit, remove; a new target archives the ledger and opens an empty one | work in flight holds the id of an archived ledger |
| Lifecycle locks (`rp/services/guild_lifecycle.py`, `keyed_locks.py`) | an asyncio lock and an in-memory generation counter per server | hold, advance, is_current | the counter restarts at zero; work captures it before a remote call |
| Setup, edit, Sheet link, removal (`rp/bot/configuration_setup.py`, `bot_configuration.py`, `google_sheet_link.py`, `configuration_remove.py`, `rp/services/configuration_lifecycle.py`, `rp/infrastructure/credential_store.py`) | wizards in memory, edit drafts in SQLite, credential files, teardown records | save, link, remove, resume an interrupted removal every minute | a file and a row that change in two steps; an old teardown beside a new setup |
| Player ledger (`rp/infrastructure/local_repository.py`) | `registered_players`, `balance_history`, cached Siphons | register, return, change character, set in/out of guild, balance change, lootsplit, import, Siphon synchronization | interleaved commands, retries by key, 64-bit limit, values read before a remote call and stored after it |
| Projection outbox (`rp/infrastructure/local_repository.py`, `rp/services/google_sync.py`, `sync_operations.py`) | `google_sync_outbox`, dead letters, leases | enqueue with each commit, flush, direct projection, rebuild, operator retry, retention | strict FIFO over a remote that fails after the effect, leases, crash between append and acknowledgement |
| Registration and membership (`rp/services/registration.py`, `membership.py`, `rp/bot/registration_commands.py`) | durable role intents, the audit's captured rows | `/register`, `/force-register`, three-minute audit, reconciler | unlocked reads applied later, crash between ledger and Discord |
| Sheet link and import (`rp/services/google_sync.py`, `rp/infrastructure/google_sheets.py`) | link row with spreadsheet ids, staged snapshot, import records | bootstrap, stage, import row by row, complete, cutover gate | relink during a synchronization, resume after a crash |
| Tickets (`rp/bot/tickets.py`) | ticket records, creation records, archive records | create, close, archive, reconcile | checkpointed workflows resumed beside the live handlers |
| Objectives (`rp/bot/objectives.py`, `objective_configuration.py`) | a panel, timed objectives, records of their creation and of their ping, wizards | publish, move and retire the panel; add, ping, expire and remove an objective | every message and role exists before its id is stored; the retirement takes no lock |
| Reaction roles (`rp/bot/reaction_roles.py`, `reaction_configuration.py`, `rp/services/role_security.py`) | panels with a mapping of emojis to roles, publication records, events waiting for the lock, queued refreshes | publish, send again, move, edit, delete; react; sweep | publications that interleave with the sweep, with Delete and with each other; reactions missed or refused |
| Trials (`rp/bot/trials.py`) | a record, a role, a channel and its panel | begin, take up again, end through the archive of the tickets | resumed at any step, after the player or the channel has gone |
| Compositions (`rp/bot/composition.py`) | sign-up sheets | sign up through message edits | concurrent edits of one message |
| Document store (`rp/infrastructure/document_store.py`), runtime records (`runtime_state.py`) | JSON documents and records with revisions | read, compare and swap, update | lost updates |
| Process (`main.py`, `rp/bot/client.py`, `rp/infrastructure/legacy_migration.py`) | - | start-up, one-minute reconciliation, migration | order of the repairs at start-up |

Interaction. Commands and loops call services; services run one SQLite
transaction per thread call and Discord or Google calls between them. Each
ledger transaction enqueues its outbox event in the same transaction, which is
the only link between the player ledger and the projection. Setup, removal,
registration and the audit's application of an answer are mutually exclusive
under the server's lifecycle lock, everything they read before is not.
`client._reconcile_runtime_state_once` runs every minute and at start-up and
calls, in this order, the reconcilers of removals, registrations, the panel,
tickets, trials, compositions, reaction panels, objectives and configuration
updates.

What makes each component correct:

- *ledger*: ownership of names and characters is unique, the audit history
  explains every balance, a command is recorded once, a Siphon that claims the
  current revision was computed from the current Silver;
- *outbox*: nothing committed is lost, nothing is shown twice, a stale row is
  owed an event, a poison event does not block the queue;
- *membership*: the role goes to active members only, a departure rests on
  answers about the row and the target of today, a repair stays queued;
- *lifecycle*: a target belongs to one server, a link and its secret belong to
  the target they were made for, an old teardown does not damage a new setup,
  teardowns end;
- *tickets*: one channel and one copy of each opening message per creation, one
  open ticket per member, each piece of an archive posted once, a deletion only
  after a complete copy, a frozen channel that is finished;
- *trials*: one channel, one panel, a role that is taken back after the archive
  and not before, an end for every trial that is being ended;
- *objectives*: announcements made from complete views, each made once, removed
  for good; a panel in force that works, a replaced one that does not;
- *reaction roles*: the stored panel has a live message, a deleted one stays
  deleted, members end up with the roles they reacted for, and keep those the
  mapping did not give.

The hazards, each at its line, are in `PROJECT.json`.

## 2. Plan and composition

The modules, in the order in which they were written:

1. `SheetOutbox` with the contract it implements, `ProjectionContract`;
2. `PlayerLedger`;
3. `MemberLifecycle`;
4. `GuildLifecycle`;
5. `TicketCreation`;
6. `TicketArchive`, and `Trials` on top of it;
7. `ReactionPanels`, `ReactionWizard` and `ReactionRoles`;
8. `ObjectivesPanel`, `ObjectiveWizard` and `Objectives`.

Left of the plan: `Compositions` (a panel like that of the objectives, and the
sign-ups), `SheetImport` (staged snapshot, row by row import, cutover gate),
`TicketPanels` (publication and edit of the ticket panels), `KeyedLocks`.
Every safety invariant of the passing runs is stated by a theorem (section 5); the
next theorems will be those of the modules above.

Which modules compose which:

- `Trials` EXTENDS `TicketArchive` and adds a runner, the holder of the
  lifecycle lock, to its two; `ChannelSpec` is the disjunction of both machines
  over one channel, and what `archives` checks.
- `Objectives` EXTENDS `ObjectivesPanel` and `ObjectiveWizard`. Panel and
  objective share the lock, the runners and the faults; what a wizard hands over
  is what a creation starts from.
- `ReactionRoles` EXTENDS `ReactionWizard`: the mapping it applies is the one the
  wizard made. The publication is refined separately, in `ReactionPanels`, and is
  one step in `ReactionRoles`. No names of the two are the same, so that
  `ReactionProofs` can EXTEND both.
- `SheetOutbox` implements `ProjectionContract` (INSTANCE ... WITH).
- `PlayerLedger` and `SheetOutbox` share only the event each transaction
  enqueues; `SheetOutbox!Commit` is any ledger transaction, reduced to the
  players it touches. `MemberLifecycle` has its own small copy of a player row
  (character, name, active, revision), because its properties are about what is
  read outside the lock.

## 3. The modules

### SheetOutbox, ProjectionContract

The queue `google_sync_outbox` between the ledger and the Sheet. State: per
event its queue row (`status`, `attempts`, lease, position) and whether it is
archived as a dead letter, the version of each player in SQLite and in the
Players worksheet, the number of history rows of each event in the two history
worksheets, and the program counter of the one flush that holds `_sync_lock`.
Actions, in the order of `_flush_pending_locked` (`google_sync.py`): claim the
head with a lease, project the player rows (read, then write), append the
history row after looking for it, acknowledge or count the failure; at the limit
the event moves to the dead letters. Beside the flush run commits, the direct
projection of one command, the rebuild, retention, the operator's retry (which
does not take the lock) and a crash at any step. Each Google write succeeds,
fails without effect, or takes effect and raises.

`ProjectionContract` is what a reader of the Sheet is promised: rows only move
forward to versions the ledger has had, history rows are posted once and stay.
`SheetOutbox` implements it (`ImplementsContract`; checked and proved).

### PlayerLedger

One action per transaction of `local_repository.py` that changes a player row,
the history or the Siphon cache. Exact replays, conflicts and overflows are
steps that are not taken, since the transaction rolls back. An imported history
row is one of a registered player and of a natural amount: any other is a row
of the history that touches no player. The Siphon
synchronization is two steps, since the Sheet is read outside the transaction.
`Archive` may come before any of them (`_require_active_ledger`).

### MemberLifecycle

`/register` and `/force-register` (verification by Albion without the lock,
then: intent, registration, payload, role, result, one step each under the
lock), the audit (capture, one step per Albion answer, departure under the
lock, leave action), the reconciler (a list read once, then record by record
under the lock, or a write-back without it), reconfiguration in two steps, and
the environment: moves and renames in Albion, members who come and go, balance
changes, restarts. `held` is the critical section under the lifecycle lock.

### GuildLifecycle

Setup, edit, link and removal of several servers. Each save is one action under
the server's lifecycle lock, guarded by what it checks there: the generation the
wizard captured, a pending removal, another server with the same target guild.
A link and a cleanup take several steps, because each Google credential
operation changes a row and a file in turn, either of which may fail; worker
threads enter the credential store one at a time. A server has two slots for
work in progress, "locked" and "loose": when the bot has left the server, the
removal reconciler cleans up without the lock. Wizards and generations live in
memory and a restart loses them, drafts and teardown records are kept. The
target guild is the only field of the configuration the model tells apart; an
edit of another one just advances the generation.

### TicketCreation

The button and the modal, the search for an open ticket of the same member (one
await per ticket: `Search`), the creation record written before Discord is asked
for anything (`Persist`), and the attempt: find or create the channel, find or
post its two messages, remove the markers. The same attempt is run by the
handler of the click and by the reconciler, which works from a payload it listed
earlier. Every Discord call may be lost before or after it took effect, the
panel may be deactivated, channels closed or deleted, the process restarted.
The record's payload is what the program knows (`channel`, `known`), the channel
and its markers are what there is. `stale` and `unseen` are history variables:
which attempts ran on an outdated payload, which tickets a search could not see.

### TicketArchive, Trials

Closing: freeze the channel, find or send the anchor message, find or make its
thread, copy the messages one by one, mark the copy complete, delete the
channel, remove the markers; or, in the mode without an archive, revoke, rename
and notify. The close button works under the close lock of the channel; the
reconciler works from a list and without it (`Discover`, `Reopen`, `Resume`,
`SourceMissing`, ...). A resumed archive is found complete by what its record and
the markers say; that an old one is also recognised by its visible closing line is
left out, which leaves the model more to copy, never less. `Trials` takes the same steps with a third runner, from
the reserved player through role, channel and panel to the role taken back.

### ReactionPanels

Publications of one panel: the first, "Send panel again", the editor's move.
Each has a record, a message (`unsent`, `placeholder`, `live`, `inert`, `gone`)
and a program counter; the sweep of each minute, the editor, the Delete button and
the removal of the setup run beside them.

The editor works as `refresh` in `reaction_configuration.py` does. It reads the
panel (`job["editor"].read`) and goes on from that copy: it settles the records
that are left, then moves the panel (`Move`, a publication of its own, after which
`GoesOn` takes up the new message), or finds its message (`FetchMessage`), carries
out the pending resets, after which it stores its copy over whatever is stored by
then (`ResetReactions`), and gives the message its text and buttons
(`EditMessage`). The resets of one refresh are one step. `EditPanel` is what makes
a refresh due, and what changes the stored panel beside a running publication.

`raced`, `reverted`, `overlaps` and `removed` are history variables that say which
of the races in section 6 has happened.

### ReactionWizard, ReactionRoles

The five-step wizard; then reactions as gateway events that wait for the lock in
order, the sweep (emoji by emoji, a remote call each), the editor's changes of
the mapping with their queue of resets and refreshes, restarts and roles that
become unsafe. `tracked` is the list of members a mapping is in charge of;
`cache` is the in-memory version that tells the sweep there is nothing to do.
Somebody may delete the panel's message (`MessageDeleted`, `there`): then a refresh
has nothing to do and is completed with whatever resets are pending
(`NothingToRefresh`), and the panel is not used until it is sent again. "Send panel
again" takes no lock (`Resend`): it may come during a sweep, which goes on with the
message it fetched (`sweep.msg`) and remembers the version under that message, where
nobody looks again (`Reconciled`). Beside
the editor it is left to `ReactionPanels`, where the copy the editor stores is what
matters.

### ObjectivesPanel, ObjectiveWizard, Objectives

The panel's publication with its record (pending, message ready, old clean-up
pending, compensation pending), the wizard whose displayed controls lag behind
its state, and one objective: role, message, entry, ping, expiry, removal, each
recorded so that a crash leaves something to resume. Confirm validates the view and
waits for the lock (`Confirm`, `TakeLock`); the objective is made of what the view
says when the lock is held and the panel has been fetched (`BeginCreation`), and until
then every control goes on working. Clicks read and write nothing but the view, and
nothing but Confirm and `BeginCreation` reads it, so a click can be moved past any other
step in between: the model takes those after Confirm when the lock is held
(`Clickable`), which gives every view the code can build an objective from. The teardown of the
configuration is a second runner, which takes no lock. `copy` is what the lock
holder read of the stored objective before its calls.

## 4. The runs

| run | shows | bounds | distinct states |
|---|---|---|---|
| `outbox` | nothing lost, nothing twice, stale rows owed, leases held, the contract implemented, every event settled | 2 events, 2 players (one event touches both), 2 workers, 2 attempts before quarantine, 1 crash, 1 operator retry | 490,000 |
| `ledger` | ownership, revisions, balances and earnings, idempotency, Siphons | 2 accounts, 2 nicknames, 1 Albion id (or none), 1 key, amounts 1 and -2, limit 2, lootsplits of up to 2 credits, 2 audit rows, 3 revisions | 1,706,000 |
| `member_audit` | departures rest on current answers, the role goes to active members only | 1 account, 2 names, 2 answers, 2 targets, 2 revisions, 3 events of the environment | 3,844,000 |
| `member_queue` | a missing role has its repair queued; intents settle | 2 accounts that want the same character, 1 event of the environment | 120,000 |
| `guild_safety` | exclusive targets, sound links, an old teardown spares a new setup | 2 servers, 2 target guilds, 1 wizard, 2 credential files, 2 turns (edits, removals, cache changes, restarts) | 980,000 |
| `guild_liveness` | removals end | 1 server, 1 credential file, 3 turns | 47,000 |
| `ticket_creation` | one channel, one copy of each opening message, one open ticket per member, a completed creation is usable | 1 member, 2 creations, 2 channels per creation, 1 turn (deletion, crash); lost answers unbounded | 737,000 |
| `archives` | both close modes of tickets and the whole life of a trial: nothing deleted before it is copied, nothing copied twice, one channel and panel, roles in order, frozen channels and trials end | 2 messages, one an attachment, 2 anchors; 1 fault for an archive, 2 without an archive, 3 for a trial | 293,000 |
| `reaction_panels` | the panel in force works, other live messages are owned, a deleted panel stays deleted, publications settle | 3 publications, 1 edit, 1 overlapping command, 1 fault | 995,000 |
| `committed_panel` | (disagreement) the sweep takes down a panel that was just committed | 2 publications, 1 edit, 1 overlapping command, no fault | 1,000 |
| `reaction_roles` | roles agree with reactions once settled, earlier roles are kept, everything settles | 1 member, 2 emojis, 2 roles, 2 reactions, 2 edits or resends, 1 fault or deleted message | 1,738,000 |
| `objectives` | made from a complete view and announced once, removed for good, panel in force, foreign roles kept, objectives and retirements end | 1 objective, 2 panel messages, 2 faults | 743,000 |

Composite properties. Where two claims are about the same agreement of state,
the run checks their conjunction; each part has a name and a comment of its own
in the module (`TypeOK` of the modules without a proof is such a part).

Why the bounds are enough. The queue's rules relate one event to the next and a
flush to one other actor: two events give a head and a successor, one with a
shared player; two attempts are the smallest limit with a retry before the
quarantine; one crash or operator retry can fall at any step of any flush,
before and after which the system is in an ordinary state again. In the ledger a
limit of 2 lets a withdrawal stop at zero (-2 from 1), a second credit overflow,
and a lootsplit pay one player twice; a key is used once per kind of command, so
one key gives three different events and every retry. In the membership model
each of the known races needs one command, one audit pass and one reconciler
pass, and a second account only to take over a character; the repair of a member
who has changed characters rests on the proof, not on the run. In the
configuration model two servers and two guilds are what a conflict and a swap of
targets need, two files are a link and its replacement, and two turns an edit
and a restart, or a removal that the reconciler resumes after a restart. A
removal of one server does not wait for another server's work except in the
sweep, whose order the safety run covers.

Two creations of one member are what a duplicate needs, two channels of one
creation what a lost answer makes. In an archive two messages give a first, a
following and a last piece; a fault can fall on any call of any runner, a single
one in the mode with two runners, where they already interleave at every step,
three in a trial, whose runner is alone. Of the reaction panel, three
publications are a panel, its replacement and one that overlaps or follows; the
editor works once by itself, on the panel that is new, and once for an edit, which
may ask for a move; one fault can fall on any call or be the restart, and what a
second one adds, a record that an interrupted clean-up left behind, is the state a
first one leaves. (The
invariants are proved for any number of each.) In the mappings two
edits are a change and the change that undoes or follows it, or the resend beside
it. One objective
stands for all, since objectives share nothing but the lock; two panel messages
are the panel and its replacement. Each further fault repeats one of these from
a state the run already reaches. `MaxTurns`, `MaxRevision`, `MaxHistory`,
`MaxCrashes`, `MaxRetries`, `MaxFaults`, `MaxFailures`, `MaxClicks`, `MaxEdits`,
`MaxChanges`, `MaxOps`, `MaxOverlaps`, `MaxPanels`, `MaxMade` and `MaxSaid` cap how often the environment
acts; `MaxAttempts`, `Limit`, `MaxInteger` and `MaxReactions` are limits of the
code, made small. Symmetry is used in safety runs only, over sets the
specifications never order.

Deadlock is checked for the outbox. The other systems may really stop: a ledger
is archived, a server unconfigured, a ticket closed, a trial ended, and then
nothing more happens.

Fairness. `SheetOutbox!FairSpec`: the synchronization loop
(`SYNC_INTERVAL_SECONDS`) flushes again and again, so `FlushStart` is strongly
fair (the lock is repeatedly free); a thread that runs goes on; time passes.
Nothing is assumed of Google: a call that fails for ever ends in the dead
letters. `MemberLifecycle!FairSpec`: a critical section goes on, the one-minute
reconciler lists again, a record whose server is in the client's cache again and
again is picked, waits for an asyncio lock (first come, first served, so strong
fairness) and Discord does not refuse the role for ever.
`GuildLifecycle!FairSpec`: what runs goes on, the sweep of the pending removals
starts again every minute and takes its records one after the other, a task
gets its turn for a lifecycle lock and for the lock of the credential store
(both are handed over in order, hence strong fairness), and Discord does not
refuse the last step of a cleanup for ever. Nothing is assumed of the file
system.
`Trials!ChannelSpec`, `ReactionPanels!FairPanelSpec`, `ReactionRoles!FairSpec` and
`Objectives!FairSpec`: work in hand goes on and the reconcilers run again
(`client.py:176-200`), all weakly fair; failures are bounded by the faults, so no
call has to succeed by fairness. `ReactionRoles` adds strong fairness of
`RetryRefresh`: the refresh and the sweep ask for the same lock each minute, one
after the other, and it is handed over in order.

## 5. The proofs

`SheetOutboxProofs`, for any sets of events, players and workers and any limits,
under the named assumptions of `SheetOutbox`: `TypeInvariant`, `NothingIsLost`,
`LeaseIsHeld`, `StaleRowIsOwed`, `CurrentIsDelivered`, and
`ProjectionImplementsContract`: `Spec => Contract!Spec` for the safety part.
`Inv == TypeOK /\ HistoryInv /\ RowInv /\ ReportInv` is inductive. `HistoryInv`
strengthens the no-loss property: for each program counter it says which lease
the flush has and which history rows its event already has, so that an
acknowledgement, which removes the event from the queue, only happens after the
row is there. `RowInv` says that a version read but not yet written is at most
the ledger's and at least the Sheet's, and that whatever it misses is owed by an
event other than those already leased; without it "a stale row is owed" is not
preserved by the acknowledgement. `ReportInv` says the same of what a flush still
has to find in the queue before it reports that the projection is current. The
refinement uses `Inv` in each step: a write of the Players worksheet maps to
`Refresh`, an append to `Post`, a commit to `Change`, everything else stutters.

`PlayerLedgerProofs`, for any accounts, names, keys, amounts and lootsplits of
any length, under `LedgerAssumption`: `TypeInvariant`, `Ownership`,
`SiphonsAreRight`, `NothingTwice`, `Announcements`, `MoneyIsExplained`. The
invariant has one part per theorem. Ownership is inductive as it stands. For the Siphon, `SiphonInv`
adds that a revision which was read or cached is at most the player's and that
of the present one the Silver is known, which rests on Silver never changing
without the revision. `OnceInv` adds that a recorded lootsplit is in the outbox,
where the retry looks for it. For the announcements the lemma `EveryRank` shows
that the lines of one player in a lootsplit count 0, 1, 2, ... without a gap, by
the least prefix that holds enough of them, so that each revision in between has
its entry. `MoneyIsExplained` has two parts. `ChainInv` adds to the chain of the
audit rows that the first of a player starts from the opening balance, each other
from what its neighbour left, and that only players have rows. `EarnInv` says that there are running sums of the
credits (`Sums`) that end with what the player earned. The sum of the model is a
recursive function; that it is the running sum, that running sums are unique and
that a row appended adds its own credit is shown from a least counterexample, the
first index at which two of them differ, and so needs no induction theorem.

`MemberLifecycleProofs`, for any members, characters, names, targets, commands
and number of confirmations: `TypeInvariant`, `RoleQueued`, `RoleToActive` and
`Departures`. `RoleQueued` needs, for each step of the critical section, which
intent it has saved and for which row; `RoleToActive` that the holder of the lock
who adds the role has seen an active row of the present ledger, which only
another holder of the lock could change; `Departures` that a captured row of the
present generation and revision has not changed since it was read.

`GuildLifecycleProofs`, for any number of servers, guilds, wizards and
credential files and any number of turns, under `GuildAssumption`:
`TypeInvariant`, `ExclusiveTargets`, `SoundLinks` (from `LinksFit`,
`SecretsExist`, `PendingRetired`) and `TeardownSparesSetup`. `LinksFit` needs
`WizardInv` (a wizard of the present generation was opened on the present ledger,
because whatever opens a ledger advances the generation) and `LockInv` (what a
critical section found still holds, because target and ledger only change while
the lock is free). `SecretsExist` needs `StoreInv`: at most one thread is in the
credential store, and the file it may delete is named by no row.

`TicketCreationProofs`, for any creations and openers and any number of channels,
deletions and crashes, under `CreationAssumption`: `MadeOnce` (`CreatedOnce`),
`OneTicket` (`OneTicketPerOpener`) and `CompletedHasMessages`
(`CompletedIsUsable`). Of each creation the invariant says what of it may exist
before its record does (`Stored`), how far what is known of it tells how far it
has come (`Known`), and, as long as no attempt started from an outdated record,
that every channel and message can be found again by id or marker (`Found`) and
that an attempt works on the record as it is (`Fresh`). `RivalInv` says that of
two creations of one member only one can still have or get a channel; it holds
because the lock of the opener is held from the second search for an open ticket
until the attempt is over.

`TrialsProofs`, for any number of messages, anchors, failed calls and restarts,
about `ChannelSpec`, the ticket archive and the trial over one channel, under
`ArchiveAssumption` (its `Files \subseteq 1 .. MaxSaid` says that what is uploaded
as a file is a message): `NothingIsLost` (`DeletedOnlyWhenCopied`), `NothingTwice`
(`CopiedOnce`), `EndsInOrder` (`TrialAgrees`) and the action property `MadeOnce`
(`TrialMadeOnce`). `CopyInv` says of each record, stored or listed, of each anchor
and of each runner what is copied when it says so, and that nobody writes into the
channel any more once it matters; from it nothing is lost, also with several
runners at once. `OnceInv` holds while one runner works at a time: what was posted
is marked or stored as progress (`FoundAgain`), and a runner that read what is
there sends nothing of it (`RunOnce`). `StatusInv` fits what is being done to the
stored status, `MadeInv` says that a channel and a panel can be found until their
ids are stored.

`ReactionProofs` has two parts. The first, about `ReactionRoles`, for any members,
emojis, roles, edits, resends and faults, under
`WizardAssumption` and `RolesAssumption` (whose `None \notin Member` keeps a list of
members apart from "no list"): `Agreement` (`RolesAgree`) and `NothingRevoked`
(`MappedRolesAreKept`). `DueInv` is the idea of the first: what a member holds by
an emoji is right, or an event of his waits in the queue, the newest of which says
what is right (`EventsTell`). That holds for each emoji a running sweep of the present message has passed, and for
all once the sweep has remembered the version, while the message is there and no
refresh is owed. Of a sweep that was overtaken by a resend nothing is claimed: what it
remembers is kept under a message that is not the panel's any more. `KeepsInv` is that of the
second: a role to be kept belongs to no waiting event that counts, to no list of
members the mapping is in charge of, and to nobody the sweep has read or may still
read from a message that was replaced.

The second part, about `ReactionPanels`, for any number of publications, edits,
overlapping commands and failures, under `ReactionPanelAssumption`:
`PanelsAgreement` (`PanelsAgree`) and `DeletionHolds` (`DeletedStaysDeleted`), from
`PublicationInv`. A message that is or was in force, or that the editor has read,
belongs to a publication that has confirmed and never confirms again
(`InForceIsPast`); so what a publication replaced cannot be in force again when it,
the sweep or the editor retires it, unless the editor has put an outdated panel back
(`ReplacedIsPast`, `JudgedRight`, modulo `reverted`). A clean-up that takes a message
down found its publication finished and not in force, or it raced (`JudgedRight`), and
a publication that is running works on a message that has buttons when it confirms and
has a record that says where it is (`LiveInv`). The editor makes the message it has
read live, and unless `reverted` stores no other than the one in force. These give
`PanelInForceIsLive`.
`LiveIsOwned` holds while no command is given in the middle of another, and needs that
publications then take turns: whoever starts one finds no other running and no record
left, the editor finds every record that is left before it moves the panel, the panel
it has read is the one in force (so `reverted` stays false, `ServerInv`), and as long
as a publication has a record the panel in force is its own or the one it replaces
(`InTurn`). With that a message with buttons that is not in force is replaced by the
one that is (`OwnedInv`), whose record nobody drops before the message is retired.

`ObjectivesProofs`, for any types and steps of the wizard, any number of panel
messages, failed calls, crashes and deeds of moderators, under `PanelAssumption`
and `WizardAssumption`: `PanelsAgreeAlways`, `AnnouncedOnceAlways`,
`RemovedForGoodAlways` and the action property `ForeignRoleIsKeptAlways`. Two
ideas carry it. While the server is configured only the holder of the lock
changes the entry and the objective, so that the copy he works from is what is
stored (`HolderInv`); after the teardown nothing is claimed of that copy but that
its objective was in the entry. And a role that was deleted or renamed is not made
again once its creation was tried: so an objective whose ping was sent and lost
either is marked as notified or has nothing left to ping with (`PingInv`), and one
that is gone, or that a crash brings back, has no role (`CreationInv`). `PanelInv`
says, for each status of the publication record, which of its messages have
buttons and where the entry points. `OnceInv` says that what was made can be found
as long as its record is open. That the view an objective is made from is complete
(`MadeFromCompleteView`) holds at Confirm by what is validated there, and every later
click keeps it or is one that `late` names. `PanelInv`, and the parts of the others that speak
of what is stored, hold only while the server is configured: the teardown takes no
lock.

The strengthenings were checked with TLC as invariants of the same instances
before they were proved.

Only model-checked is liveness: `EventsSettle`, `IntentsSettle`, `TeardownsEnd`,
`FrozenIsFinished`, `TrialEnds`, `PublicationsSettle`, `RolesSettle`, `ObjectiveEnds`
and `RetirementCompletes`. Fairness and ENABLED are out of the prover's reach.

## 6. Disagreements found

One has a run whose property TLC refutes with what the code does:

- `committed_panel`: `reaction_roles.py:620` says "Compensate interrupted
  publishes without deleting committed panels." The sweep judges a record before
  it looks for the message; a publication that is still running and commits in
  between is compensated after all: its message is deleted and the stored panel
  points to nothing. The passing run `reaction_panels` shows the property for
  every behaviour without that race (`raced`).

The others were met while modelling. Unless it is said to be left out (section 7),
the model contains each of them, and a property that would forbid it is stated
modulo a history variable or a condition that names it.

*Outbox.* "Google projection is current." can be reported over a queue to which
the operator has just restored a dead letter: the retry
(`sync_operations.py:143`) does not hold `_sync_lock`, and the flush looks twice
(`google_sync.py:1239`). `CurrentMeansDelivered` is stated modulo such restored
events.

*Membership.* The registration reconciler lists its records once
(`registration.py:772`); an intent replaced since is judged by its old payload and
the new one deleted (719-726) or overwritten without the lock (672-683), although
README.md:611-612 says a failed role assignment "remains queued for recovery".
`RoleIsQueuedUnlessForgotten` names them. A registration verified after the
audit's last answer does not move the revision when the row is already active
(`local_repository.py:1604-1621`), so the audit still marks the member departed,
against README.md:400-401. A leave action that Discord refuses, or that a restart
cuts off, is never tried again (`membership.py:217`, `:112`).

*Configuration.* The removal of credentials deletes the link row and then the
file (`credential_store.py:270-278`). When the file cannot be deleted, or a restart
comes between, the retry finds no row, takes that for success, and the removal is
completed while the key stays on disk, against `configuration_remove.py:127`
"Google credential cleanup will be retried." The removal reconciler's branch for
a server outside the client's cache (`configuration_remove.py:156-163`) takes no
lock and does not look for a live setup, so that a removal completed, a new setup
and a new link between the listing and that record lose the new link;
`OldTeardownSparesSetup` is about the locked branch. `docs/ARCHITECTURE.md:144-146`
says a later balance change invalidates the cached Siphon, which the code keeps on
purpose (`CHANGELOG.md:34-37`).

*Tickets.* The reconciler can write "open" over a close that has begun
(`tickets.py:4599-4601`); if that close then breaks off, its frozen channel is
never resumed, against the message at line 3663, "The saved closing state will be
retried after restart." (`reopened`). It can judge a complete archive by an
old record and mark it `archive_incomplete_source_missing` (4544-4575). A close
without archive whose notice fails leaves the record "open". The attachment that
was too large is announced by a link which a retry may post again (3438-3470;
`Files`). A creation that waits for its channel is invisible to the search for an
open ticket (776, 803; `unseen`), and a reconciler with an old payload can create a
second channel (`stale`). A trial whose channel a moderator deleted before its
archive is complete needs "manual recovery".

*Reaction panels.* A resend over another publication's unfinished clean-up no
longer finds its record committed: its own message is compensated, or the one it
replaced never disabled (`overlaps`). The editor's move, which does not look again
before it stores the panel, brings back a panel that Delete has removed. Its refresh
in place does so as well: after each reaction it has cleared it stores the panel it
read before (`reaction_configuration.py:190`, `:247`), and neither "Send panel again"
nor Delete takes the lock, so that a message that was replaced, and has no buttons any
more, can be in force again, or a panel that was removed (`reverted`, in
`PanelInForceIsLive` and `DeletedStaysDeleted`). What the resend replaced is then edited
live again (248-258), if that call succeeds. Delete ignores a message
that cannot be deleted; a failed deactivation is not tried again
(`configuration_remove.py:111-118`) and its disabled entry swallows panels of a
later setup.

*Reaction roles.* An event that waits while the editor holds the lock is
interpreted under the new mapping, against README.md:364-366 (`late`). A role
addition that Discord refuses is not repaired while the panel counts as reconciled
(`missed`). "Send panel again" with a mapping that keeps no list takes the role from
holders who have not reacted to the new message, at the next sweep. A refresh that
finds the panel's message deleted has nothing to try again
(`reaction_configuration.py:204-217`), and its record is completed
(`config_editor.py:215-221`) with the resets still pending, against
`config_editor.py:204`, "incomplete projections stay retryable". When the panel is then
sent again, reactions with these emojis are ignored (`reaction_roles.py:1780`, `:1875`,
`:1982`) until the panel is edited the next time (`orphaned`, in `RolesSettle`).

*Objectives.* Notify Me on an objective whose role is missing or renamed forgets
the id of a ping that is out (`objectives.py:1560-1571`), which is then never
deleted, against README.md:584 (`forgot`). A crash between `add_objective` and the
end of the record (3556-3570) lets a removed objective come back (`torn`).
`/set-objective-panel` over an unfinished publication overwrites its record, and the
panel it replaced is never disabled, against README.md:373 (`replaced`). A role
whose creation answer was lost is not found again once a moderator renamed it
(`tampered`), and a compensation waits for ever for a renamed role.
`_reconcile_active_notify_role_names` (3280-3297) saves a whole entry it read before
its awaits. An objective is announced as the view is after the lock and two fetches
(`objectives.py:3634-3664`), while its controls work until `view.stop()` (3683): Confirm
validates the view (3613) and does not freeze it, so that a map erased in a modal, or
another type chosen, in that window is announced incomplete (`late`, in
`MadeFromCompleteView`).

## 7. Not modelled

- Rendering and wording of panels and messages, permission checks of Discord,
  HTTP clients and their retries (`albion_api.py`, `external_io.py`), rate limits,
  backups, logging, and the UTC timer (a periodic edit no other component reads).
- The Discord front ends of the economy commands, which call the transactions
  modelled in `PlayerLedger`.
- Ticket and trial panels: their creation, publication and edit (the first part of
  `tickets.py`, `ticket_configuration.py`, `trial_setup.py`). They publish a message
  under a record as `ObjectivesPanel` and `ReactionPanels` do.
- The import of an existing Sheet: a one-time sequence under one lock, whose rows
  are the import actions of `PlayerLedger`. What is left out is its resumption and
  the gate that keeps writes away until it is complete.
- Compositions: sign-ups are edits of one message, under a lock per message.
- The document store, the table of keyed locks and the migration of JSON files:
  each call is one SQLite transaction, or runs before anything else does; the other
  modules take them as atomic.
- Reaction panels in `ReactionRoles`: "Send panel again" beside the editor at work
  (modelled in `ReactionPanels`, but for what it does to the members' roles).
- Role permissions: `ReactionRoles` knows only that a role has become unsafe; the
  snapshots and their approval are left out.
- Several reaction panels or objectives in one server: they share the lock and
  nothing else.

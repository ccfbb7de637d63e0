---------------------------- MODULE SheetOutbox ----------------------------
(***************************************************************************)
(* The optional Google projection of one guild's ledger.                   *)
(*                                                                         *)
(* Every mutation of the SQLite ledger enqueues, in the same transaction,  *)
(* one event in google_sync_outbox (local_repository.py).  A flush of      *)
(* google_sync.py leases the head event, copies the players' CURRENT rows  *)
(* into the Sheet, appends the event's history rows unless the Sheet's id  *)
(* column already holds them, and acknowledges the event.  Direct          *)
(* projection and rebuild write the same Sheet; all three hold the guild's *)
(* _sync_lock, here `pc # "idle"'.  A Google call may succeed, fail, or    *)
(* take effect and still raise; the process may stop at any step and be    *)
(* started again with nothing but SQLite and the Sheet.                    *)
(*                                                                         *)
(* Abstractions.  A player row is the number of committed events that      *)
(* touched the player.  created_at is a wall-clock reading taken before    *)
(* the transaction, ties broken by event_id: an event's place in the FIFO  *)
(* is any unused position.  The rows of one append request stand or fall   *)
(* together, so they are counted per event.  A request in flight when the  *)
(* process stops has either reached the Sheet or is lost.                  *)
(***************************************************************************)
EXTENDS Naturals, FiniteSets

CONSTANTS
    Events,          \* the events the ledger may commit
    Players,
    NoEvent,
    NoWorker,
    Workers,         \* flush identities (a fresh uuid4 per flush)
    Kind,            \* [Events -> Kinds]: the event_type
    Touches,         \* [Events -> SUBSET Players]: rows the event changes
    MaxAttempts,     \* MAX_OUTBOX_ATTEMPTS
    Limit,           \* events one flush processes at most
    MaxCrashes,      \* bound: process crashes
    MaxRetries       \* bound: operator retries of dead letters

Kinds == {"player.upsert", "balance.changed", "lootsplit.applied"}

ASSUME EventAssumption ==
    /\ IsFiniteSet(Events)
    /\ NoEvent \notin Events
    /\ NoWorker \notin Workers
    /\ Kind \in [Events -> Kinds]
    /\ Touches \in [Events -> SUBSET Players]
    /\ MaxAttempts \in Nat \ {0}
    /\ Limit \in Nat \ {0}
    /\ MaxCrashes \in Nat
    /\ MaxRetries \in Nat

Positions == 1 .. Cardinality(Events)

VARIABLES
    local,        \* player_change commits per player: the current SQLite row
    committed,    \* events whose transaction committed (the audit tables)
    position,     \* FIFO position by (created_at, event_id), 0 = not committed
    status,       \* google_sync_outbox.status, "absent" = no row in the table
    attempts,     \* google_sync_outbox.attempts
    ready,        \* pending: available_at <= now; processing: lease_until <= now
    owner,        \* google_sync_outbox.lease_owner
    dead,         \* rows of google_sync_dead_letters
    sheetRow,     \* Players worksheet, columns A:D of each player, 0 = blank
    balanceRows,  \* rows per event in the Balance history worksheet
    lootRows,     \* rows per event in the Lootsplit history worksheet
    pc,           \* step of the thread that holds _sync_lock, "idle" = free
    worker, cur, todo, targets, value, opened, balanceIds, lootIds, processed,
                  \* the locals of that thread
    report,       \* outcome of the last flush
    owed,         \* history: events committed when the last flush began and not
                  \* put back by the operator since
    crashes, retries

sqlite  == <<local, committed, position, status, attempts, ready, owner, dead>>
sheet   == <<sheetRow, balanceRows, lootRows>>
locals  == <<worker, cur, todo, targets, value, opened, balanceIds, lootIds, processed>>
history == <<report, owed>>
bounds  == <<crashes, retries>>
vars    == <<sqlite, sheet, pc, locals, history, bounds>>

Queued(e)     == status[e] \in {"pending", "processing"}
Incomplete    == {e \in Events : Queued(e)}
Older(f, e)   == position[f] < position[e]
HasHistory(e) == Kind[e] # "player.upsert"
IsLootsplit(e) == Kind[e] = "lootsplit.applied"

\* The head of the FIFO, when it is ready to be leased.
Claimable(e) == /\ Queued(e)
                /\ ready[e]
                /\ \A f \in Incomplete : ~Older(f, e)

Init ==
    /\ local = [p \in Players |-> 0]
    /\ committed = {}
    /\ position = [e \in Events |-> 0]
    /\ status = [e \in Events |-> "absent"]
    /\ attempts = [e \in Events |-> 0]
    /\ ready = [e \in Events |-> FALSE]
    /\ owner = [e \in Events |-> NoWorker]
    /\ dead = {}
    /\ sheetRow = [p \in Players |-> 0]
    /\ balanceRows = [e \in Events |-> 0]
    /\ lootRows = [e \in Events |-> 0]
    /\ pc = "idle"
    /\ worker = NoWorker
    /\ cur = NoEvent
    /\ todo = {}
    /\ targets = {}
    /\ value = [p \in Players |-> 0]
    /\ opened = FALSE
    /\ balanceIds = {}
    /\ lootIds = {}
    /\ processed = 0
    /\ report = "none"
    /\ owed = {}
    /\ crashes = 0
    /\ retries = 0

-----------------------------------------------------------------------------
(* SQLite transactions                                                     *)

\* A ledger mutation commits its rows and enqueues its event atomically.
Commit(e) ==
    /\ e \notin committed
    /\ \E k \in Positions :
         /\ \A f \in committed : position[f] # k
         /\ position' = [position EXCEPT ![e] = k]
    /\ local' = [p \in Players |-> IF p \in Touches[e] THEN local[p] + 1 ELSE local[p]]
    /\ committed' = committed \union {e}
    /\ status' = [status EXCEPT ![e] = "pending"]
    /\ attempts' = [attempts EXCEPT ![e] = 0]
    /\ ready' = [ready EXCEPT ![e] = TRUE]
    /\ UNCHANGED <<owner, dead, sheet, pc, locals, history, bounds>>

\* Time passes available_at or lease_until.
Elapse(e) ==
    /\ Queued(e)
    /\ ~ready[e]
    /\ ready' = [ready EXCEPT ![e] = TRUE]
    /\ UNCHANGED <<local, committed, position, status, attempts, owner, dead,
                   sheet, pc, locals, history, bounds>>

\* Mutant: the retry puts leased rows back too.
RetryDeadLetters_Releases ==
    /\ dead # {}
    /\ retries < MaxRetries
    /\ retries' = retries + 1
    /\ status' = [e \in Events |-> IF e \in dead \/ Queued(e) THEN "pending" ELSE status[e]]
    /\ attempts' = [e \in Events |-> IF e \in dead THEN 0 ELSE attempts[e]]
    /\ ready' = [e \in Events |-> e \in dead \/ ready[e]]
    /\ dead' = {}
    /\ owed' = owed \ dead
    /\ UNCHANGED <<local, committed, position, owner, sheet, pc, locals, report, crashes>>

\* The operator restores every dead letter, in original order, attempts reset.
RetryDeadLetters ==
    /\ dead # {}
    /\ retries < MaxRetries
    /\ retries' = retries + 1
    /\ status' = [e \in Events |-> IF e \in dead THEN "pending" ELSE status[e]]
    /\ attempts' = [e \in Events |-> IF e \in dead THEN 0 ELSE attempts[e]]
    /\ ready' = [e \in Events |-> e \in dead \/ ready[e]]
    /\ dead' = {}
    /\ owed' = owed \ dead
    /\ UNCHANGED <<local, committed, position, owner, sheet, pc, locals, report, crashes>>

\* Retention deletes an old completed row.
Prune(e) ==
    /\ status[e] = "completed"
    /\ status' = [status EXCEPT ![e] = "absent"]
    /\ UNCHANGED <<local, committed, position, attempts, ready, owner, dead,
                   sheet, pc, locals, history, bounds>>

-----------------------------------------------------------------------------
(* One flush: claim, open the Sheet once, project, acknowledge, repeat     *)

\* uuid4: an id that no lease has.  Which one is taken makes no difference.
Unleased(w) == \A e \in Events : owner[e] # w

FlushStart ==
    /\ pc = "idle"
    /\ \E w \in Workers : Unleased(w)
    /\ worker' = CHOOSE w \in Workers : Unleased(w)
    /\ pc' = "claim"
    /\ opened' = FALSE
    /\ balanceIds' = {}
    /\ lootIds' = {}
    /\ processed' = 0
    /\ report' = "none"
    /\ owed' = committed
    /\ UNCHANGED <<sqlite, sheet, cur, todo, targets, value, bounds>>

Finish(outcome) ==
    /\ pc' = "idle"
    /\ worker' = NoWorker
    /\ cur' = NoEvent
    /\ todo' = {}
    /\ targets' = {}
    /\ value' = [p \in Players |-> 0]
    /\ opened' = FALSE
    /\ balanceIds' = {}
    /\ lootIds' = {}
    /\ processed' = 0
    /\ report' = outcome
    /\ owed' = IF outcome = "current" THEN owed ELSE {}

Claim ==
    /\ pc = "claim"
    /\ processed < Limit
    /\ \E e \in Events :
         /\ Claimable(e)
         /\ status' = [status EXCEPT ![e] = "processing"]
         /\ owner' = [owner EXCEPT ![e] = worker]
         /\ ready' = [ready EXCEPT ![e] = FALSE]
         /\ cur' = e
         /\ todo' = Touches[e]
         /\ pc' = IF opened THEN "project" ELSE "open"
    /\ UNCHANGED <<local, committed, position, attempts, dead, sheet, worker,
                   targets, value, opened, balanceIds, lootIds, processed, history, bounds>>

\* No event was leased, or the batch limit is reached: two further reads
\* decide what the flush reports.
ClaimNothing ==
    /\ pc = "claim"
    /\ processed < Limit => \A e \in Events : ~Claimable(e)
    /\ pc' = "checkQueue"
    /\ UNCHANGED <<sqlite, sheet, locals, history, bounds>>

\* Mutant: an event that waits for its next attempt is not looked at.
CheckQueue_Ready ==
    /\ pc = "checkQueue"
    /\ IF \E e \in Incomplete : ready[e]
       THEN Finish("pending")
       ELSE pc' = "checkDead" /\ UNCHANGED <<locals, history>>
    /\ UNCHANGED <<sqlite, sheet, bounds>>

CheckQueue ==
    /\ pc = "checkQueue"
    /\ IF Incomplete # {}
       THEN Finish("pending")
       ELSE pc' = "checkDead" /\ UNCHANGED <<locals, history>>
    /\ UNCHANGED <<sqlite, sheet, bounds>>

CheckDead ==
    /\ pc = "checkDead"
    /\ Finish(IF dead # {} THEN "quarantined" ELSE "current")
    /\ UNCHANGED <<sqlite, sheet, bounds>>

\* A Google call raised: the error path of the flush runs next.
GoogleError == pc' = "failed" /\ UNCHANGED locals

\* Mutant: the id columns are not read.
OpenSheet_Blind ==
    /\ pc = "open"
    /\ \/ /\ pc' = "project"
          /\ opened' = TRUE
          /\ UNCHANGED <<worker, cur, todo, targets, value, balanceIds, lootIds, processed>>
       \/ GoogleError
    /\ UNCHANGED <<sqlite, sheet, history, bounds>>

\* Once per flush: headers, the Players rows and the two id columns.
OpenSheet ==
    /\ pc = "open"
    /\ \/ /\ pc' = "project"
          /\ opened' = TRUE
          /\ balanceIds' = {e \in Events : balanceRows[e] > 0}
          /\ lootIds' = {e \in Events : lootRows[e] > 0}
          /\ UNCHANGED <<worker, cur, todo, targets, value, processed>>
       \/ GoogleError
    /\ UNCHANGED <<sqlite, sheet, history, bounds>>

\* Read the players' current SQLite rows; they are written in a later step.
ReadRows(ps) ==
    /\ targets' = ps
    /\ value' = [p \in Players |-> IF p \in ps THEN local[p] ELSE 0]

\* One batch_update of the rows read: done, done but it raised, or lost.
Written == [p \in Players |-> IF p \in targets THEN value[p] ELSE sheetRow[p]]
RowsForgotten == targets' = {} /\ value' = [p \in Players |-> 0]

ReadPlayer ==
    /\ pc = "project"
    /\ \E p \in todo : ReadRows({p}) /\ todo' = todo \ {p}
    /\ pc' = "write"
    /\ UNCHANGED <<sqlite, sheet, worker, cur, opened, balanceIds, lootIds,
                   processed, history, bounds>>

\* Mutant: an error of the row update is swallowed.
WritePlayer_Swallows ==
    /\ pc = "write"
    /\ sheetRow' \in {Written, sheetRow}
    /\ pc' = "project"
    /\ RowsForgotten
    /\ UNCHANGED <<sqlite, balanceRows, lootRows, worker, cur, todo, opened,
                   balanceIds, lootIds, processed, history, bounds>>

WritePlayer ==
    /\ pc = "write"
    /\ \/ sheetRow' = Written /\ pc' = "project"
       \/ sheetRow' = Written /\ pc' = "failed"
       \/ sheetRow' = sheetRow /\ pc' = "failed"
    /\ RowsForgotten
    /\ UNCHANGED <<sqlite, balanceRows, lootRows, worker, cur, todo, opened,
                   balanceIds, lootIds, processed, history, bounds>>

\* After the player rows: Lootsplit history, then Balance history, then ack.
PlayersDone ==
    /\ pc = "project"
    /\ todo = {}
    /\ pc' = CASE Kind[cur] = "player.upsert" -> "ack"
               [] Kind[cur] = "balance.changed" -> "balance"
               [] Kind[cur] = "lootsplit.applied" -> "loot"
    /\ UNCHANGED <<sqlite, sheet, locals, history, bounds>>

\* Append one history block unless its id was in the column when it was read.
AppendLoot ==
    /\ pc = "loot"
    /\ \/ /\ cur \in lootIds
          /\ pc' = "balance"
          /\ UNCHANGED <<lootRows, lootIds>>
       \/ /\ cur \notin lootIds
          /\ lootRows' = [lootRows EXCEPT ![cur] = @ + 1]
          /\ \/ pc' = "balance" /\ lootIds' = lootIds \union {cur}
             \/ pc' = "failed" /\ UNCHANGED lootIds
       \/ cur \notin lootIds /\ pc' = "failed" /\ UNCHANGED <<lootRows, lootIds>>
    /\ UNCHANGED <<sqlite, sheetRow, balanceRows, worker, cur, todo, targets, value,
                   opened, balanceIds, processed, history, bounds>>

AppendBalance ==
    /\ pc = "balance"
    /\ \/ /\ cur \in balanceIds
          /\ pc' = "ack"
          /\ UNCHANGED <<balanceRows, balanceIds>>
       \/ /\ cur \notin balanceIds
          /\ balanceRows' = [balanceRows EXCEPT ![cur] = @ + 1]
          /\ \/ pc' = "ack" /\ balanceIds' = balanceIds \union {cur}
             \/ pc' = "failed" /\ UNCHANGED balanceIds
       \/ cur \notin balanceIds /\ pc' = "failed" /\ UNCHANGED <<balanceRows, balanceIds>>
    /\ UNCHANGED <<sqlite, sheetRow, lootRows, worker, cur, todo, targets, value,
                   opened, lootIds, processed, history, bounds>>

\* `status = processing' under this flush's own worker id.
Leased(e) == status[e] = "processing" /\ owner[e] = worker

Ack ==
    /\ pc = "ack"
    /\ IF Leased(cur)
       THEN /\ status' = [status EXCEPT ![cur] = "completed"]
            /\ owner' = [owner EXCEPT ![cur] = NoWorker]
            /\ ready' = [ready EXCEPT ![cur] = FALSE]
            /\ cur' = NoEvent
            /\ processed' = processed + 1
            /\ pc' = "claim"
            /\ UNCHANGED <<worker, todo, targets, value, opened, balanceIds, lootIds, history>>
       ELSE Finish("leaseLost") /\ UNCHANGED <<status, owner, ready>>
    /\ UNCHANGED <<local, committed, position, attempts, dead, sheet, bounds>>

\* Mutant: the row leaves the queue without reaching the dead letters.
DeadLetter_Drops ==
    /\ pc = "failed"
    /\ attempts[cur] + 1 >= MaxAttempts
    /\ status' = [status EXCEPT ![cur] = "absent"]
    /\ owner' = [owner EXCEPT ![cur] = NoWorker]
    /\ ready' = [ready EXCEPT ![cur] = FALSE]
    /\ Finish("failed")
    /\ UNCHANGED <<local, committed, position, attempts, dead, sheet, bounds>>

\* The last allowed attempt moves the event to the dead letters ...
DeadLetter ==
    /\ pc = "failed"
    /\ attempts[cur] + 1 >= MaxAttempts
    /\ IF Leased(cur)
       THEN /\ status' = [status EXCEPT ![cur] = "absent"]
            /\ owner' = [owner EXCEPT ![cur] = NoWorker]
            /\ ready' = [ready EXCEPT ![cur] = FALSE]
            /\ attempts' = [attempts EXCEPT ![cur] = 0]
            /\ dead' = dead \union {cur}
       ELSE UNCHANGED <<status, owner, ready, attempts, dead>>
    /\ Finish("failed")
    /\ UNCHANGED <<local, committed, position, sheet, bounds>>

\* Mutant: a retry does not count as an attempt.
Fail_Uncounted ==
    /\ pc = "failed"
    /\ attempts[cur] + 1 < MaxAttempts
    /\ status' = [status EXCEPT ![cur] = "pending"]
    /\ owner' = [owner EXCEPT ![cur] = NoWorker]
    /\ ready' = [ready EXCEPT ![cur] = FALSE]
    /\ Finish("failed")
    /\ UNCHANGED <<local, committed, position, attempts, dead, sheet, bounds>>

\* ... an earlier one puts it back at the head, not ready until its backoff.
Fail ==
    /\ pc = "failed"
    /\ attempts[cur] + 1 < MaxAttempts
    /\ IF Queued(cur) /\ owner[cur] = worker
       THEN /\ status' = [status EXCEPT ![cur] = "pending"]
            /\ attempts' = [attempts EXCEPT ![cur] = @ + 1]
            /\ owner' = [owner EXCEPT ![cur] = NoWorker]
            /\ ready' = [ready EXCEPT ![cur] = FALSE]
       ELSE UNCHANGED <<status, owner, ready, attempts>>
    /\ Finish("failed")
    /\ UNCHANGED <<local, committed, position, dead, sheet, bounds>>

-----------------------------------------------------------------------------
(* Direct projection after a command, and the operator's rebuild           *)

Idle == pc = "idle"
JobLocals == <<worker, cur, todo, opened, balanceIds, lootIds, processed>>

DirectRead(ps) ==
    /\ Idle
    /\ ps # {}
    /\ ReadRows(ps)
    /\ pc' = "direct"
    /\ UNCHANGED <<sqlite, sheet, JobLocals, history, bounds>>

DirectWrite ==
    /\ pc = "direct"
    /\ sheetRow' \in {Written, sheetRow}
    /\ RowsForgotten
    /\ pc' = "idle"
    /\ UNCHANGED <<sqlite, balanceRows, lootRows, JobLocals, history, bounds>>

RebuildRead ==
    /\ Idle
    /\ ReadRows(Players)
    /\ pc' = "rebuild"
    /\ UNCHANGED <<sqlite, sheet, JobLocals, history, bounds>>

RebuildPlayers ==
    /\ pc = "rebuild"
    /\ \/ sheetRow' = Written /\ pc' \in {"rebuildBalance", "idle"}
       \/ sheetRow' = sheetRow /\ pc' = "idle"
    /\ RowsForgotten
    /\ UNCHANGED <<sqlite, balanceRows, lootRows, JobLocals, history, bounds>>

\* Rows of the immutable audit tables that the Sheet's id column lacks.
Reconciled(rows, kinds) ==
    [e \in Events |-> IF e \in committed /\ Kind[e] \in kinds /\ rows[e] = 0
                      THEN 1 ELSE rows[e]]

RebuildBalance ==
    /\ pc = "rebuildBalance"
    /\ \/ /\ balanceRows' = Reconciled(balanceRows, {"balance.changed", "lootsplit.applied"})
          /\ pc' \in {"rebuildLoot", "idle"}
       \/ balanceRows' = balanceRows /\ pc' = "idle"
    /\ UNCHANGED <<sqlite, sheetRow, lootRows, locals, history, bounds>>

RebuildLoot ==
    /\ pc = "rebuildLoot"
    /\ lootRows' \in {lootRows, Reconciled(lootRows, {"lootsplit.applied"})}
    /\ pc' = "idle"
    /\ UNCHANGED <<sqlite, sheetRow, balanceRows, locals, history, bounds>>

-----------------------------------------------------------------------------
\* The process stops: every local is lost, leases stay in SQLite.
Crash ==
    /\ ~Idle
    /\ crashes < MaxCrashes
    /\ crashes' = crashes + 1
    /\ Finish("none")
    /\ UNCHANGED <<sqlite, sheet, retries>>

FlushStep ==
    \/ Claim \/ ClaimNothing \/ CheckQueue \/ CheckDead
    \/ OpenSheet \/ ReadPlayer \/ WritePlayer \/ PlayersDone
    \/ AppendLoot \/ AppendBalance \/ Ack \/ DeadLetter \/ Fail

JobStep == DirectWrite \/ RebuildPlayers \/ RebuildBalance \/ RebuildLoot

Next ==
    \/ \E e \in Events : Commit(e) \/ Elapse(e) \/ Prune(e)
    \/ RetryDeadLetters
    \/ FlushStart
    \/ FlushStep
    \/ \E ps \in SUBSET Players : DirectRead(ps)
    \/ RebuildRead
    \/ JobStep
    \/ Crash

\* The sync loop flushes every SYNC_INTERVAL_SECONDS and a thread that holds
\* the lock runs on; wall-clock time passes.  Nothing is assumed of Google.
Fairness ==
    /\ WF_vars(FlushStep)
    /\ WF_vars(JobStep)
    /\ SF_vars(FlushStart)
    /\ \A e \in Events : WF_vars(Elapse(e))

Spec == Init /\ [][Next]_vars
FairSpec == Spec /\ Fairness

-----------------------------------------------------------------------------
(* Properties                                                              *)

Working == {"open", "project", "write", "loot", "balance", "ack", "failed"}

Outcomes == {"none", "pending", "quarantined", "current", "leaseLost", "failed"}

SqliteTypes ==
    /\ local \in [Players -> Nat]
    /\ committed \subseteq Events
    /\ position \in [Events -> Nat]
    /\ status \in [Events -> {"absent", "pending", "processing", "completed"}]
    /\ attempts \in [Events -> Nat]
    /\ ready \in [Events -> BOOLEAN]
    /\ owner \in [Events -> Workers \union {NoWorker}]
    /\ dead \subseteq Events

SheetTypes ==
    /\ sheetRow \in [Players -> Nat]
    /\ balanceRows \in [Events -> Nat]
    /\ lootRows \in [Events -> Nat]

ThreadTypes ==
    /\ pc \in Working \union {"idle", "claim", "checkQueue", "checkDead",
                              "direct", "rebuild", "rebuildBalance", "rebuildLoot"}
    /\ worker \in Workers \union {NoWorker}
    /\ cur \in Events \union {NoEvent}
    /\ pc \in Working => cur \in Events
    /\ todo \subseteq Players
    /\ targets \subseteq Players
    /\ value \in [Players -> Nat]
    /\ opened \in BOOLEAN
    /\ balanceIds \subseteq Events
    /\ lootIds \subseteq Events
    /\ processed \in Nat
    /\ report \in Outcomes
    /\ owed \subseteq Events
    /\ crashes \in Nat
    /\ retries \in Nat

TypeOK == SqliteTypes /\ SheetTypes /\ ThreadTypes

\* e's history rows are in every worksheet its type appends to.
Delivered(e) == /\ HasHistory(e) => balanceRows[e] = 1
                /\ IsLootsplit(e) => lootRows[e] = 1

\* A committed change is never forgotten, whatever fails in between and even
\* after retention deleted its queue row: it waits in the queue, waits in the
\* dead letters (never in both), or the Sheet shows its history exactly once.
NothingLost ==
    \A e \in committed :
        /\ e \in dead => status[e] = "absent"
        /\ Queued(e) \/ e \in dead \/ Delivered(e)

\* A Players row that disagrees with SQLite is always going to be rewritten:
\* some queued or quarantined event still touches that player, although a row
\* is read and written in two steps between which the ledger may move on.
StaleRowsAreOwed ==
    \A p \in Players : sheetRow[p] # local[p] =>
        \E e \in Incomplete \union dead : p \in Touches[e]

\* A flush never works on an event that is not leased to it, so neither its
\* ack nor its retry is refused: no crash, retention or retry of the operator
\* can take the lease of a running flush away.
LeaseHeld == pc \in Working => Leased(cur)

\* The projection implements its contract: rows only move forward to versions
\* the ledger has reached, history rows appear once and stay.
Contract == INSTANCE ProjectionContract WITH
    ledger <- local, mirror <- sheetRow, Worksheets <- {"balance", "loot"},
    posted <- [w \in {"balance", "loot"} |-> IF w = "loot" THEN lootRows ELSE balanceRows]
ImplementsContract == Contract!Spec

\* Whatever Google answers, an event at the head cannot block the queue for
\* ever: every committed event is eventually acknowledged or quarantined.
EventsSettle ==
    \A e \in Events : e \in committed ~> (~Queued(e) /\ pc = "idle")

\* "Google projection is current." is reported only when every event that was
\* committed before the flush began is in the Sheet, except those the operator
\* put back into the queue during the flush: the two closing reads are two
\* transactions, so a dead letter that is restored between them is seen by
\* neither.
CurrentMeansDelivered ==
    report = "current" => \A e \in owed : ~Queued(e) /\ e \notin dead /\ Delivered(e)
=============================================================================

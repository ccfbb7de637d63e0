------------------------- MODULE SheetOutboxProofs -------------------------
(***************************************************************************)
(* Safety of the Google projection for any number of events, players,      *)
(* attempts, crashes and retries.                                          *)
(***************************************************************************)
EXTENDS SheetOutbox, TLAPS

USE DEF sqlite, sheet, locals, history, bounds

\* The ways a flush ends leave the thread's locals typed.
LEMMA FinishTypes ==
  ASSUME NEW outcome \in Outcomes, TypeOK, Finish(outcome),
         UNCHANGED bounds \/ (crashes' = crashes + 1 /\ retries' = retries)
  PROVE  ThreadTypes'
<1>1. /\ pc' = "idle" /\ cur' = NoEvent /\ worker' = NoWorker
      /\ todo' = {} /\ targets' = {} /\ processed' = 0
  BY DEF Finish
<1>2. /\ value' \in [Players -> Nat] /\ opened' \in BOOLEAN
      /\ balanceIds' \subseteq Events /\ lootIds' \subseteq Events
      /\ report' \in Outcomes /\ owed' \subseteq Events
  BY DEF Finish, TypeOK, ThreadTypes
<1>3. crashes' \in Nat /\ retries' \in Nat
  BY DEF TypeOK, ThreadTypes
<1> QED
  BY <1>1, <1>2, <1>3 DEF ThreadTypes, Working

\* Init establishes the types.
LEMMA TypeInit == Init => TypeOK
<1> SUFFICES ASSUME Init PROVE TypeOK
  OBVIOUS
<1>1. SqliteTypes
  BY DEF Init, SqliteTypes
<1>2. SheetTypes
  BY DEF Init, SheetTypes
<1>3. ThreadTypes
  BY DEF Init, ThreadTypes, Working, Outcomes
<1> QED
  BY <1>1, <1>2, <1>3 DEF TypeOK

\* A flush starts under an id that no lease has.
LEMMA FlushWorker == FlushStart => worker' \in Workers /\ Unleased(worker')
<1> SUFFICES ASSUME FlushStart PROVE worker' \in Workers /\ Unleased(worker')
  OBVIOUS
<1> DEFINE w == CHOOSE w \in Workers : Unleased(w)
<1>1. \E x \in Workers : Unleased(x)
  BY DEF FlushStart
<1>2. w \in Workers /\ Unleased(w)
  <2> HIDE DEF Unleased
  <2> QED
    BY <1>1
<1>3. worker' = w
  BY DEF FlushStart
<1> QED
  BY <1>2, <1>3 DEF Unleased

\* Every action preserves the types.
LEMMA TypeStep == TypeOK /\ [Next]_vars => TypeOK'
<1> SUFFICES ASSUME TypeOK, [Next]_vars PROVE TypeOK'
  OBVIOUS
<1> USE EventAssumption DEF EventAssumption
<1>1. ASSUME NEW e \in Events, Commit(e) PROVE TypeOK'
  BY <1>1 DEF TypeOK, SqliteTypes, SheetTypes, ThreadTypes, Commit, Positions, Working
<1>2. ASSUME NEW e \in Events, Elapse(e) PROVE TypeOK'
  BY <1>2 DEF TypeOK, SqliteTypes, SheetTypes, ThreadTypes, Elapse, Working
<1>3. ASSUME NEW e \in Events, Prune(e) PROVE TypeOK'
  BY <1>3 DEF TypeOK, SqliteTypes, SheetTypes, ThreadTypes, Prune, Working
<1>4. CASE RetryDeadLetters
  BY <1>4 DEF TypeOK, SqliteTypes, SheetTypes, ThreadTypes, RetryDeadLetters, Working
<1>5. CASE FlushStart
  BY <1>5, FlushWorker DEF TypeOK, SqliteTypes, SheetTypes, ThreadTypes, FlushStart, Working, Outcomes
<1>6. CASE Claim
  BY <1>6 DEF TypeOK, SqliteTypes, SheetTypes, ThreadTypes, Claim, Working
<1>7. CASE ClaimNothing
  BY <1>7 DEF TypeOK, SqliteTypes, SheetTypes, ThreadTypes, ClaimNothing, Working
<1>8. CASE CheckQueue
  <2>1. ThreadTypes'
    <3>1. CASE Incomplete # {}
      BY <1>8, <3>1, FinishTypes DEF CheckQueue, Outcomes
    <3>2. CASE Incomplete = {}
      BY <1>8, <3>2 DEF TypeOK, ThreadTypes, CheckQueue, Working
    <3> QED
      BY <3>1, <3>2
  <2>2. SqliteTypes'
    BY <1>8 DEF TypeOK, SqliteTypes, ThreadTypes, CheckQueue, Working
  <2>3. SheetTypes'
    BY <1>8 DEF TypeOK, SheetTypes, CheckQueue
  <2> QED
    BY <2>1, <2>2, <2>3 DEF TypeOK
<1>9. CASE CheckDead
  <2>1. ThreadTypes'
    BY <1>9, FinishTypes DEF CheckDead, Outcomes
  <2>2. SqliteTypes'
    BY <1>9 DEF TypeOK, SqliteTypes, ThreadTypes, CheckDead, Working
  <2>3. SheetTypes'
    BY <1>9 DEF TypeOK, SheetTypes, CheckDead
  <2> QED
    BY <2>1, <2>2, <2>3 DEF TypeOK
<1>10. CASE OpenSheet
  BY <1>10 DEF TypeOK, SqliteTypes, SheetTypes, ThreadTypes, OpenSheet, GoogleError, Working
<1>11. CASE ReadPlayer
  BY <1>11 DEF TypeOK, SqliteTypes, SheetTypes, ThreadTypes, ReadPlayer, ReadRows, Working
<1>12. CASE WritePlayer
  BY <1>12 DEF TypeOK, SqliteTypes, SheetTypes, ThreadTypes, WritePlayer, Written, RowsForgotten, Working
<1>13. CASE PlayersDone
  BY <1>13 DEF TypeOK, SqliteTypes, SheetTypes, ThreadTypes, PlayersDone, Kinds, Working
<1>14. CASE AppendLoot
  BY <1>14 DEF TypeOK, SqliteTypes, SheetTypes, ThreadTypes, AppendLoot, Working
<1>15. CASE AppendBalance
  BY <1>15 DEF TypeOK, SqliteTypes, SheetTypes, ThreadTypes, AppendBalance, Working
<1>16. CASE Ack
  <2>1. ThreadTypes'
    <3>1. CASE Leased(cur)
      BY <1>16, <3>1 DEF TypeOK, ThreadTypes, Ack, Working
    <3>2. CASE ~Leased(cur)
      BY <1>16, <3>2, FinishTypes DEF Ack, Outcomes
    <3> QED
      BY <3>1, <3>2
  <2>2. SqliteTypes'
    BY <1>16 DEF TypeOK, SqliteTypes, ThreadTypes, Ack, Working
  <2>3. SheetTypes'
    BY <1>16 DEF TypeOK, SheetTypes, Ack
  <2> QED
    BY <2>1, <2>2, <2>3 DEF TypeOK
<1>17. CASE DeadLetter
  <2>1. ThreadTypes'
    BY <1>17, FinishTypes DEF DeadLetter, Outcomes
  <2>2. SqliteTypes'
    <3>1. cur \in Events
      BY <1>17 DEF TypeOK, ThreadTypes, DeadLetter, Working
    <3>2. CASE Leased(cur)
      <4>1. /\ status' = [status EXCEPT ![cur] = "absent"]
            /\ owner' = [owner EXCEPT ![cur] = NoWorker]
            /\ ready' = [ready EXCEPT ![cur] = FALSE]
            /\ attempts' = [attempts EXCEPT ![cur] = 0]
            /\ dead' = dead \union {cur}
            /\ UNCHANGED <<local, committed, position>>
        BY <1>17, <3>2 DEF DeadLetter
      <4> QED
        BY <3>1, <4>1 DEF TypeOK, SqliteTypes
    <3>3. CASE ~(Leased(cur))
      BY <1>17, <3>1, <3>3 DEF TypeOK, SqliteTypes, DeadLetter
    <3> QED
      BY <3>2, <3>3
  <2>3. SheetTypes'
    BY <1>17 DEF TypeOK, SheetTypes, DeadLetter
  <2> QED
    BY <2>1, <2>2, <2>3 DEF TypeOK
<1>18. CASE Fail
  <2>1. ThreadTypes'
    BY <1>18, FinishTypes DEF Fail, Outcomes
  <2>2. SqliteTypes'
    <3>1. cur \in Events
      BY <1>18 DEF TypeOK, ThreadTypes, Fail, Working
    <3>2. CASE Queued(cur) /\ owner[cur] = worker
      <4>1. /\ status' = [status EXCEPT ![cur] = "pending"]
            /\ attempts' = [attempts EXCEPT ![cur] = @ + 1]
            /\ owner' = [owner EXCEPT ![cur] = NoWorker]
            /\ ready' = [ready EXCEPT ![cur] = FALSE]
            /\ UNCHANGED <<local, committed, position, dead>>
        BY <1>18, <3>2 DEF Fail
      <4> QED
        BY <3>1, <4>1 DEF TypeOK, SqliteTypes
    <3>3. CASE ~(Queued(cur) /\ owner[cur] = worker)
      BY <1>18, <3>1, <3>3 DEF TypeOK, SqliteTypes, Fail
    <3> QED
      BY <3>2, <3>3
  <2>3. SheetTypes'
    BY <1>18 DEF TypeOK, SheetTypes, Fail
  <2> QED
    BY <2>1, <2>2, <2>3 DEF TypeOK
<1>19. ASSUME NEW ps \in SUBSET Players, DirectRead(ps) PROVE TypeOK'
  BY <1>19 DEF TypeOK, SqliteTypes, SheetTypes, ThreadTypes, DirectRead, ReadRows, JobLocals, Working
<1>20. CASE DirectWrite
  BY <1>20 DEF TypeOK, SqliteTypes, SheetTypes, ThreadTypes, DirectWrite, Written, RowsForgotten, JobLocals, Working
<1>21. CASE RebuildRead
  BY <1>21 DEF TypeOK, SqliteTypes, SheetTypes, ThreadTypes, RebuildRead, ReadRows, JobLocals, Working
<1>22. CASE RebuildPlayers
  BY <1>22 DEF TypeOK, SqliteTypes, SheetTypes, ThreadTypes, RebuildPlayers, Written, RowsForgotten, JobLocals, Working
<1>23. CASE RebuildBalance
  BY <1>23 DEF TypeOK, SqliteTypes, SheetTypes, ThreadTypes, RebuildBalance, Reconciled, Working
<1>24. CASE RebuildLoot
  BY <1>24 DEF TypeOK, SqliteTypes, SheetTypes, ThreadTypes, RebuildLoot, Reconciled, Working
<1>25. CASE Crash
  <2>1. ThreadTypes'
    BY <1>25, FinishTypes DEF Crash, Outcomes
  <2>2. SqliteTypes'
    BY <1>25 DEF TypeOK, SqliteTypes, ThreadTypes, Crash, Working
  <2>3. SheetTypes'
    BY <1>25 DEF TypeOK, SheetTypes, Crash
  <2> QED
    BY <2>1, <2>2, <2>3 DEF TypeOK
<1>26. CASE UNCHANGED vars
  BY <1>26 DEF TypeOK, SqliteTypes, SheetTypes, ThreadTypes, vars, Working
<1> QED
  BY <1>1, <1>2, <1>3, <1>4, <1>5, <1>6, <1>7, <1>8, <1>9,
     <1>10, <1>11, <1>12, <1>13, <1>14, <1>15, <1>16, <1>17, <1>18,
     <1>19, <1>20, <1>21, <1>22, <1>23, <1>24, <1>25, <1>26
  DEF Next, FlushStep, JobStep

\* The types hold in every reachable state.
THEOREM TypeInvariant == Spec => []TypeOK
<1>1. Init => TypeOK
  BY TypeInit
<1>2. TypeOK /\ [Next]_vars => TypeOK'
  BY TypeStep
<1> QED
  BY <1>1, <1>2, PTL DEF Spec

-----------------------------------------------------------------------------
(* The inductive invariant.                                                *)

\* Steps of a flush that has opened the Sheet and holds an event.
AtSheet == {"project", "write", "loot", "balance", "ack"}

\* Nothing is known of an event before its transaction commits.
Fresh == \A e \in Events : e \notin committed =>
            /\ status[e] = "absent"
            /\ e \notin dead
            /\ balanceRows[e] = 0
            /\ lootRows[e] = 0

\* A quarantined event has left the queue.
Apart == \A e \in dead : status[e] = "absent"

\* Each worksheet shows an event at most once.
Once == \A e \in Events : balanceRows[e] <= 1 /\ lootRows[e] <= 1

\* The id sets a flush carries from event to event are the Sheet's columns.
Cached == opened /\ pc \in AtSheet \union {"claim"} =>
            /\ balanceIds = {e \in Events : balanceRows[e] > 0}
            /\ lootIds = {e \in Events : lootRows[e] > 0}

\* What a flush has done when it reaches each step.
Progress ==
    /\ pc \in AtSheet => opened
    /\ pc = "loot" => IsLootsplit(cur)
    /\ pc = "balance" => HasHistory(cur) /\ (IsLootsplit(cur) => lootRows[cur] = 1)
    /\ pc = "ack" => Delivered(cur)

HistoryInv == Fresh /\ Apart /\ LeaseHeld /\ Once /\ Cached /\ Progress /\ NothingLost

\* The player's row was written in this attempt at the current event.
Settled(p) == /\ pc \in AtSheet
              /\ p \in Touches[cur] \ todo
              /\ ~(pc = "write" /\ p \in targets)

\* An event other than the current one, if that is spent, touches player p.
Owed(p, spent) == \E e \in Incomplete \union dead :
                     p \in Touches[e] /\ ~(spent /\ e = cur)

\* Rows are read only for the next write, and wait nowhere else.
Pending ==
    /\ targets # {} => pc \in {"write", "direct", "rebuild"}
    /\ pc = "write" => targets \subseteq Touches[cur] \ todo
    /\ pc = "open" => todo = Touches[cur]
    /\ pc = "project" => todo \subseteq Touches[cur]
    /\ pc = "write" => todo \subseteq Touches[cur]
    /\ pc \in {"loot", "balance", "ack"} => todo = {}

\* Versions only grow from Sheet to row read to ledger.
Ordered == /\ \A p \in Players : sheetRow[p] <= local[p]
           /\ \A p \in targets : sheetRow[p] <= value[p] /\ value[p] <= local[p]

RowsOwed ==
    /\ \A p \in Players : sheetRow[p] # local[p] => Owed(p, Settled(p))
    /\ \A p \in targets : value[p] # local[p] => Owed(p, pc = "write")

RowInv == Pending /\ Ordered /\ RowsOwed

\* HistoryInv holds initially.
LEMMA HistoryInit == Init => HistoryInv
  BY DEF Init, HistoryInv, Fresh, Apart, LeaseHeld, Once, Cached, Progress, NothingLost,
         Working, AtSheet

\* Every action preserves HistoryInv.
LEMMA HistoryStep == TypeOK /\ HistoryInv /\ [Next]_vars => HistoryInv'
<1> SUFFICES ASSUME TypeOK, HistoryInv, [Next]_vars PROVE HistoryInv'
  OBVIOUS
<1> USE EventAssumption DEF EventAssumption, TypeOK, SqliteTypes, SheetTypes, ThreadTypes
<1>0. Fresh /\ Apart /\ LeaseHeld /\ Once /\ Cached /\ Progress /\ NothingLost
  BY DEF HistoryInv
<1>1. ASSUME NEW e \in Events, Commit(e) PROVE HistoryInv'
  <2>1. Fresh'
    BY <1>0, <1>1 DEF Commit, Fresh, Queued
  <2>2. Apart'
    BY <1>0, <1>1 DEF Commit, Apart, Queued, Fresh
  <2>3. LeaseHeld'
    BY <1>0, <1>1 DEF Commit, LeaseHeld, Leased, Working, Apart, Queued, Fresh
  <2>4. Once'
    BY <1>0, <1>1 DEF Commit, Once, Fresh, Cached, Progress, AtSheet
  <2>5. Cached'
    BY <1>0, <1>1 DEF Commit, Cached, AtSheet, Progress, Once
  <2>6. Progress'
    BY <1>0, <1>1 DEF Commit, Progress, AtSheet, Delivered, HasHistory, IsLootsplit, Cached, Once
  <2>7. NothingLost'
    BY <1>0, <1>1 DEF Commit, NothingLost, Delivered, Queued, HasHistory, IsLootsplit, Fresh, Once, LeaseHeld, Leased, Working
  <2> QED
    BY <2>1, <2>2, <2>3, <2>4, <2>5, <2>6, <2>7 DEF HistoryInv
<1>2. ASSUME NEW e \in Events, Elapse(e) PROVE HistoryInv'
  <2>1. Fresh'
    BY <1>0, <1>2 DEF Elapse, Fresh, Queued
  <2>2. Apart'
    BY <1>0, <1>2 DEF Elapse, Apart, Queued, Fresh
  <2>3. LeaseHeld'
    BY <1>0, <1>2 DEF Elapse, LeaseHeld, Leased, Working, Apart, Queued, Fresh
  <2>4. Once'
    BY <1>0, <1>2 DEF Elapse, Once, Fresh, Cached, Progress, AtSheet
  <2>5. Cached'
    BY <1>0, <1>2 DEF Elapse, Cached, AtSheet, Progress, Once
  <2>6. Progress'
    BY <1>0, <1>2 DEF Elapse, Progress, AtSheet, Delivered, HasHistory, IsLootsplit, Cached, Once
  <2>7. NothingLost'
    BY <1>0, <1>2 DEF Elapse, NothingLost, Delivered, Queued, HasHistory, IsLootsplit, Fresh, Once, LeaseHeld, Leased, Working
  <2> QED
    BY <2>1, <2>2, <2>3, <2>4, <2>5, <2>6, <2>7 DEF HistoryInv
<1>3. ASSUME NEW e \in Events, Prune(e) PROVE HistoryInv'
  <2>1. Fresh'
    BY <1>0, <1>3 DEF Prune, Fresh, Queued
  <2>2. Apart'
    BY <1>0, <1>3 DEF Prune, Apart, Queued, Fresh
  <2>3. LeaseHeld'
    BY <1>0, <1>3 DEF Prune, LeaseHeld, Leased, Working, Apart, Queued, Fresh
  <2>4. Once'
    BY <1>0, <1>3 DEF Prune, Once, Fresh, Cached, Progress, AtSheet
  <2>5. Cached'
    BY <1>0, <1>3 DEF Prune, Cached, AtSheet, Progress, Once
  <2>6. Progress'
    BY <1>0, <1>3 DEF Prune, Progress, AtSheet, Delivered, HasHistory, IsLootsplit, Cached, Once
  <2>7. NothingLost'
    BY <1>0, <1>3 DEF Prune, NothingLost, Delivered, Queued, HasHistory, IsLootsplit, Fresh, Once, LeaseHeld, Leased, Working
  <2> QED
    BY <2>1, <2>2, <2>3, <2>4, <2>5, <2>6, <2>7 DEF HistoryInv
<1>4. CASE RetryDeadLetters
  <2>1. Fresh'
    BY <1>0, <1>4 DEF RetryDeadLetters, Fresh, Queued
  <2>2. Apart'
    BY <1>0, <1>4 DEF RetryDeadLetters, Apart, Queued, Fresh
  <2>3. LeaseHeld'
    BY <1>0, <1>4 DEF RetryDeadLetters, LeaseHeld, Leased, Working, Apart, Queued, Fresh
  <2>4. Once'
    BY <1>0, <1>4 DEF RetryDeadLetters, Once, Fresh, Cached, Progress, AtSheet
  <2>5. Cached'
    BY <1>0, <1>4 DEF RetryDeadLetters, Cached, AtSheet, Progress, Once
  <2>6. Progress'
    BY <1>0, <1>4 DEF RetryDeadLetters, Progress, AtSheet, Delivered, HasHistory, IsLootsplit, Cached, Once
  <2>7. NothingLost'
    BY <1>0, <1>4 DEF RetryDeadLetters, NothingLost, Delivered, Queued, HasHistory, IsLootsplit, Fresh, Once, LeaseHeld, Leased, Working
  <2> QED
    BY <2>1, <2>2, <2>3, <2>4, <2>5, <2>6, <2>7 DEF HistoryInv
<1>5. CASE FlushStart
  <2>1. Fresh'
    BY <1>0, <1>5 DEF FlushStart, Fresh, Queued
  <2>2. Apart'
    BY <1>0, <1>5 DEF FlushStart, Apart, Queued, Fresh
  <2>3. LeaseHeld'
    BY <1>0, <1>5, FlushWorker DEF FlushStart, Unleased, LeaseHeld, Leased, Working, Apart, Queued, Fresh
  <2>4. Once'
    BY <1>0, <1>5 DEF FlushStart, Once, Fresh, Cached, Progress, AtSheet
  <2>5. Cached'
    BY <1>0, <1>5 DEF FlushStart, Cached, AtSheet, Progress, Once
  <2>6. Progress'
    BY <1>0, <1>5 DEF FlushStart, Progress, AtSheet, Delivered, HasHistory, IsLootsplit, Cached, Once
  <2>7. NothingLost'
    BY <1>0, <1>5 DEF FlushStart, NothingLost, Delivered, Queued, HasHistory, IsLootsplit, Fresh, Once, LeaseHeld, Leased, Working
  <2> QED
    BY <2>1, <2>2, <2>3, <2>4, <2>5, <2>6, <2>7 DEF HistoryInv
<1>6. CASE Claim
  <2>1. Fresh'
    BY <1>0, <1>6 DEF Claim, Claimable, Fresh, Queued
  <2>2. Apart'
    BY <1>0, <1>6 DEF Claim, Claimable, Apart, Queued, Fresh
  <2>3. LeaseHeld'
    BY <1>0, <1>6 DEF Claim, Claimable, LeaseHeld, Leased, Working, Apart, Queued, Fresh
  <2>4. Once'
    BY <1>0, <1>6 DEF Claim, Claimable, Once, Fresh, Cached, Progress, AtSheet
  <2>5. Cached'
    BY <1>0, <1>6 DEF Claim, Claimable, Cached, AtSheet, Progress, Once
  <2>6. Progress'
    BY <1>0, <1>6 DEF Claim, Claimable, Progress, AtSheet, Delivered, HasHistory, IsLootsplit, Cached, Once
  <2>7. NothingLost'
    BY <1>0, <1>6 DEF Claim, Claimable, NothingLost, Delivered, Queued, HasHistory, IsLootsplit, Fresh, Once, LeaseHeld, Leased, Working
  <2> QED
    BY <2>1, <2>2, <2>3, <2>4, <2>5, <2>6, <2>7 DEF HistoryInv
<1>7. CASE ClaimNothing
  <2>1. Fresh'
    BY <1>0, <1>7 DEF ClaimNothing, Fresh, Queued
  <2>2. Apart'
    BY <1>0, <1>7 DEF ClaimNothing, Apart, Queued, Fresh
  <2>3. LeaseHeld'
    BY <1>0, <1>7 DEF ClaimNothing, LeaseHeld, Leased, Working, Apart, Queued, Fresh
  <2>4. Once'
    BY <1>0, <1>7 DEF ClaimNothing, Once, Fresh, Cached, Progress, AtSheet
  <2>5. Cached'
    BY <1>0, <1>7 DEF ClaimNothing, Cached, AtSheet, Progress, Once
  <2>6. Progress'
    BY <1>0, <1>7 DEF ClaimNothing, Progress, AtSheet, Delivered, HasHistory, IsLootsplit, Cached, Once
  <2>7. NothingLost'
    BY <1>0, <1>7 DEF ClaimNothing, NothingLost, Delivered, Queued, HasHistory, IsLootsplit, Fresh, Once, LeaseHeld, Leased, Working
  <2> QED
    BY <2>1, <2>2, <2>3, <2>4, <2>5, <2>6, <2>7 DEF HistoryInv
<1>8. CASE CheckQueue
  <2>1. Fresh'
    BY <1>0, <1>8 DEF CheckQueue, Finish, Fresh, Queued
  <2>2. Apart'
    BY <1>0, <1>8 DEF CheckQueue, Finish, Apart, Queued, Fresh
  <2>3. LeaseHeld'
    BY <1>0, <1>8 DEF CheckQueue, Finish, LeaseHeld, Leased, Working, Apart, Queued, Fresh
  <2>4. Once'
    BY <1>0, <1>8 DEF CheckQueue, Finish, Once, Fresh, Cached, Progress, AtSheet
  <2>5. Cached'
    BY <1>0, <1>8 DEF CheckQueue, Finish, Cached, AtSheet, Progress, Once
  <2>6. Progress'
    BY <1>0, <1>8 DEF CheckQueue, Finish, Progress, AtSheet, Delivered, HasHistory, IsLootsplit, Cached, Once
  <2>7. NothingLost'
    BY <1>0, <1>8 DEF CheckQueue, Finish, NothingLost, Delivered, Queued, HasHistory, IsLootsplit, Fresh, Once, LeaseHeld, Leased, Working
  <2> QED
    BY <2>1, <2>2, <2>3, <2>4, <2>5, <2>6, <2>7 DEF HistoryInv
<1>9. CASE CheckDead
  <2>1. Fresh'
    BY <1>0, <1>9 DEF CheckDead, Finish, Fresh, Queued
  <2>2. Apart'
    BY <1>0, <1>9 DEF CheckDead, Finish, Apart, Queued, Fresh
  <2>3. LeaseHeld'
    BY <1>0, <1>9 DEF CheckDead, Finish, LeaseHeld, Leased, Working, Apart, Queued, Fresh
  <2>4. Once'
    BY <1>0, <1>9 DEF CheckDead, Finish, Once, Fresh, Cached, Progress, AtSheet
  <2>5. Cached'
    BY <1>0, <1>9 DEF CheckDead, Finish, Cached, AtSheet, Progress, Once
  <2>6. Progress'
    BY <1>0, <1>9 DEF CheckDead, Finish, Progress, AtSheet, Delivered, HasHistory, IsLootsplit, Cached, Once
  <2>7. NothingLost'
    BY <1>0, <1>9 DEF CheckDead, Finish, NothingLost, Delivered, Queued, HasHistory, IsLootsplit, Fresh, Once, LeaseHeld, Leased, Working
  <2> QED
    BY <2>1, <2>2, <2>3, <2>4, <2>5, <2>6, <2>7 DEF HistoryInv
<1>10. CASE OpenSheet
  <2>1. Fresh'
    BY <1>0, <1>10 DEF OpenSheet, GoogleError, Fresh, Queued
  <2>2. Apart'
    BY <1>0, <1>10 DEF OpenSheet, GoogleError, Apart, Queued, Fresh
  <2>3. LeaseHeld'
    BY <1>0, <1>10 DEF OpenSheet, GoogleError, LeaseHeld, Leased, Working, Apart, Queued, Fresh
  <2>4. Once'
    BY <1>0, <1>10 DEF OpenSheet, GoogleError, Once, Fresh, Cached, Progress, AtSheet
  <2>5. Cached'
    BY <1>0, <1>10 DEF OpenSheet, GoogleError, Cached, AtSheet, Progress, Once
  <2>6. Progress'
    BY <1>0, <1>10 DEF OpenSheet, GoogleError, Progress, AtSheet, Delivered, HasHistory, IsLootsplit, Cached, Once
  <2>7. NothingLost'
    BY <1>0, <1>10 DEF OpenSheet, GoogleError, NothingLost, Delivered, Queued, HasHistory, IsLootsplit, Fresh, Once, LeaseHeld, Leased, Working
  <2> QED
    BY <2>1, <2>2, <2>3, <2>4, <2>5, <2>6, <2>7 DEF HistoryInv
<1>11. CASE ReadPlayer
  <2>1. Fresh'
    BY <1>0, <1>11 DEF ReadPlayer, ReadRows, Fresh, Queued
  <2>2. Apart'
    BY <1>0, <1>11 DEF ReadPlayer, ReadRows, Apart, Queued, Fresh
  <2>3. LeaseHeld'
    BY <1>0, <1>11 DEF ReadPlayer, ReadRows, LeaseHeld, Leased, Working, Apart, Queued, Fresh
  <2>4. Once'
    BY <1>0, <1>11 DEF ReadPlayer, ReadRows, Once, Fresh, Cached, Progress, AtSheet
  <2>5. Cached'
    BY <1>0, <1>11 DEF ReadPlayer, ReadRows, Cached, AtSheet, Progress, Once
  <2>6. Progress'
    BY <1>0, <1>11 DEF ReadPlayer, ReadRows, Progress, AtSheet, Delivered, HasHistory, IsLootsplit, Cached, Once
  <2>7. NothingLost'
    BY <1>0, <1>11 DEF ReadPlayer, ReadRows, NothingLost, Delivered, Queued, HasHistory, IsLootsplit, Fresh, Once, LeaseHeld, Leased, Working
  <2> QED
    BY <2>1, <2>2, <2>3, <2>4, <2>5, <2>6, <2>7 DEF HistoryInv
<1>12. CASE WritePlayer
  <2>1. Fresh'
    BY <1>0, <1>12 DEF WritePlayer, RowsForgotten, Fresh, Queued
  <2>2. Apart'
    BY <1>0, <1>12 DEF WritePlayer, RowsForgotten, Apart, Queued, Fresh
  <2>3. LeaseHeld'
    BY <1>0, <1>12 DEF WritePlayer, RowsForgotten, LeaseHeld, Leased, Working, Apart, Queued, Fresh
  <2>4. Once'
    BY <1>0, <1>12 DEF WritePlayer, RowsForgotten, Once, Fresh, Cached, Progress, AtSheet
  <2>5. Cached'
    BY <1>0, <1>12 DEF WritePlayer, RowsForgotten, Cached, AtSheet, Progress, Once
  <2>6. Progress'
    BY <1>0, <1>12 DEF WritePlayer, RowsForgotten, Progress, AtSheet, Delivered, HasHistory, IsLootsplit, Cached, Once
  <2>7. NothingLost'
    BY <1>0, <1>12 DEF WritePlayer, RowsForgotten, NothingLost, Delivered, Queued, HasHistory, IsLootsplit, Fresh, Once, LeaseHeld, Leased, Working
  <2> QED
    BY <2>1, <2>2, <2>3, <2>4, <2>5, <2>6, <2>7 DEF HistoryInv
<1>13. CASE PlayersDone
  <2>1. Fresh'
    BY <1>0, <1>13 DEF PlayersDone, Kinds, Fresh, Queued
  <2>2. Apart'
    BY <1>0, <1>13 DEF PlayersDone, Kinds, Apart, Queued, Fresh
  <2>3. LeaseHeld'
    BY <1>0, <1>13 DEF PlayersDone, Kinds, LeaseHeld, Leased, Working, Apart, Queued, Fresh
  <2>4. Once'
    BY <1>0, <1>13 DEF PlayersDone, Kinds, Once, Fresh, Cached, Progress, AtSheet
  <2>5. Cached'
    BY <1>0, <1>13 DEF PlayersDone, Kinds, Cached, AtSheet, Progress, Once
  <2>6. Progress'
    BY <1>0, <1>13 DEF PlayersDone, Kinds, Progress, AtSheet, Delivered, HasHistory, IsLootsplit, Cached, Once
  <2>7. NothingLost'
    BY <1>0, <1>13 DEF PlayersDone, Kinds, NothingLost, Delivered, Queued, HasHistory, IsLootsplit, Fresh, Once, LeaseHeld, Leased, Working
  <2> QED
    BY <2>1, <2>2, <2>3, <2>4, <2>5, <2>6, <2>7 DEF HistoryInv
<1>14. CASE AppendLoot
  <2>0. cur \in Events /\ Leased(cur) /\ status[cur] = "processing" /\ cur \in committed /\ cur \notin dead
    BY <1>0, <1>14 DEF AppendLoot, Working, LeaseHeld, Leased, Fresh, Apart
  <2>1. Fresh'
    BY <1>0, <1>14, <2>0 DEF AppendLoot, Fresh, Queued
  <2>2. Apart'
    BY <1>0, <1>14, <2>0 DEF AppendLoot, Apart, Queued, Fresh
  <2>3. LeaseHeld'
    BY <1>0, <1>14, <2>0 DEF AppendLoot, LeaseHeld, Leased, Working, Apart, Queued, Fresh
  <2>4. Once'
    BY <1>0, <1>14, <2>0 DEF AppendLoot, Once, Fresh, Cached, Progress, AtSheet
  <2>5. Cached'
    BY <1>0, <1>14, <2>0 DEF AppendLoot, Cached, AtSheet, Progress, Once
  <2>6. Progress'
    BY <1>0, <1>14, <2>0 DEF AppendLoot, Progress, AtSheet, Delivered, HasHistory, IsLootsplit, Cached, Once
  <2>7. NothingLost'
    BY <1>0, <1>14, <2>0 DEF AppendLoot, NothingLost, Delivered, Queued, HasHistory, IsLootsplit, Fresh, Once, LeaseHeld, Leased, Working
  <2> QED
    BY <2>1, <2>2, <2>3, <2>4, <2>5, <2>6, <2>7 DEF HistoryInv
<1>15. CASE AppendBalance
  <2>0. cur \in Events /\ Leased(cur) /\ status[cur] = "processing" /\ cur \in committed /\ cur \notin dead
    BY <1>0, <1>15 DEF AppendBalance, Working, LeaseHeld, Leased, Fresh, Apart
  <2>1. Fresh'
    BY <1>0, <1>15, <2>0 DEF AppendBalance, Fresh, Queued
  <2>2. Apart'
    BY <1>0, <1>15, <2>0 DEF AppendBalance, Apart, Queued, Fresh
  <2>3. LeaseHeld'
    BY <1>0, <1>15, <2>0 DEF AppendBalance, LeaseHeld, Leased, Working, Apart, Queued, Fresh
  <2>4. Once'
    BY <1>0, <1>15, <2>0 DEF AppendBalance, Once, Fresh, Cached, Progress, AtSheet
  <2>5. Cached'
    BY <1>0, <1>15, <2>0 DEF AppendBalance, Cached, AtSheet, Progress, Once
  <2>6. Progress'
    BY <1>0, <1>15, <2>0 DEF AppendBalance, Progress, AtSheet, Delivered, HasHistory, IsLootsplit, Cached, Once
  <2>7. NothingLost'
    BY <1>0, <1>15, <2>0 DEF AppendBalance, NothingLost, Delivered, Queued, HasHistory, IsLootsplit, Fresh, Once, LeaseHeld, Leased, Working
  <2> QED
    BY <2>1, <2>2, <2>3, <2>4, <2>5, <2>6, <2>7 DEF HistoryInv
<1>16. CASE Ack
  <2>0. cur \in Events /\ Leased(cur) /\ status[cur] = "processing" /\ cur \in committed /\ cur \notin dead
    BY <1>0, <1>16 DEF Ack, Working, LeaseHeld, Leased, Fresh, Apart
  <2>1. Fresh'
    BY <1>0, <1>16, <2>0 DEF Ack, Finish, Fresh, Queued
  <2>2. Apart'
    BY <1>0, <1>16, <2>0 DEF Ack, Finish, Apart, Queued, Fresh
  <2>3. LeaseHeld'
    BY <1>0, <1>16, <2>0 DEF Ack, Finish, LeaseHeld, Leased, Working, Apart, Queued, Fresh
  <2>4. Once'
    BY <1>0, <1>16, <2>0 DEF Ack, Finish, Once, Fresh, Cached, Progress, AtSheet
  <2>5. Cached'
    BY <1>0, <1>16, <2>0 DEF Ack, Finish, Cached, AtSheet, Progress, Once
  <2>6. Progress'
    BY <1>0, <1>16, <2>0 DEF Ack, Finish, Progress, AtSheet, Delivered, HasHistory, IsLootsplit, Cached, Once
  <2>7. NothingLost'
    <3>1. /\ status' = [status EXCEPT ![cur] = "completed"]
          /\ UNCHANGED <<committed, dead, balanceRows, lootRows>>
      BY <1>16, <2>0 DEF Ack
    <3>2. Delivered(cur)
      BY <1>0, <1>16 DEF Ack, Progress
    <3> QED
      BY <1>0, <2>0, <3>1, <3>2 DEF NothingLost, Delivered, Queued
  <2> QED
    BY <2>1, <2>2, <2>3, <2>4, <2>5, <2>6, <2>7 DEF HistoryInv
<1>17. CASE DeadLetter
  <2>0. cur \in Events /\ Leased(cur) /\ status[cur] = "processing" /\ cur \in committed /\ cur \notin dead
    BY <1>0, <1>17 DEF DeadLetter, Working, LeaseHeld, Leased, Fresh, Apart
  <2>1. Fresh'
    BY <1>0, <1>17, <2>0 DEF DeadLetter, Finish, Fresh, Queued
  <2>2. Apart'
    BY <1>0, <1>17, <2>0 DEF DeadLetter, Finish, Apart, Queued, Fresh
  <2>3. LeaseHeld'
    BY <1>0, <1>17, <2>0 DEF DeadLetter, Finish, LeaseHeld, Leased, Working, Apart, Queued, Fresh
  <2>4. Once'
    BY <1>0, <1>17, <2>0 DEF DeadLetter, Finish, Once, Fresh, Cached, Progress, AtSheet
  <2>5. Cached'
    BY <1>0, <1>17, <2>0 DEF DeadLetter, Finish, Cached, AtSheet, Progress, Once
  <2>6. Progress'
    BY <1>0, <1>17, <2>0 DEF DeadLetter, Finish, Progress, AtSheet, Delivered, HasHistory, IsLootsplit, Cached, Once
  <2>7. NothingLost'
    BY <1>0, <1>17, <2>0 DEF DeadLetter, Finish, NothingLost, Delivered, Queued, HasHistory, IsLootsplit, Fresh, Once, LeaseHeld, Leased, Working
  <2> QED
    BY <2>1, <2>2, <2>3, <2>4, <2>5, <2>6, <2>7 DEF HistoryInv
<1>18. CASE Fail
  <2>0. cur \in Events /\ Leased(cur) /\ status[cur] = "processing" /\ cur \in committed /\ cur \notin dead
    BY <1>0, <1>18 DEF Fail, Working, LeaseHeld, Leased, Fresh, Apart
  <2>1. Fresh'
    BY <1>0, <1>18, <2>0 DEF Fail, Finish, Fresh, Queued
  <2>2. Apart'
    BY <1>0, <1>18, <2>0 DEF Fail, Finish, Apart, Queued, Fresh
  <2>3. LeaseHeld'
    BY <1>0, <1>18, <2>0 DEF Fail, Finish, LeaseHeld, Leased, Working, Apart, Queued, Fresh
  <2>4. Once'
    BY <1>0, <1>18, <2>0 DEF Fail, Finish, Once, Fresh, Cached, Progress, AtSheet
  <2>5. Cached'
    BY <1>0, <1>18, <2>0 DEF Fail, Finish, Cached, AtSheet, Progress, Once
  <2>6. Progress'
    BY <1>0, <1>18, <2>0 DEF Fail, Finish, Progress, AtSheet, Delivered, HasHistory, IsLootsplit, Cached, Once
  <2>7. NothingLost'
    BY <1>0, <1>18, <2>0 DEF Fail, Finish, NothingLost, Delivered, Queued, HasHistory, IsLootsplit, Fresh, Once, LeaseHeld, Leased, Working
  <2> QED
    BY <2>1, <2>2, <2>3, <2>4, <2>5, <2>6, <2>7 DEF HistoryInv
<1>19. ASSUME NEW ps \in SUBSET Players, DirectRead(ps) PROVE HistoryInv'
  <2>1. Fresh'
    BY <1>0, <1>19 DEF DirectRead, ReadRows, JobLocals, Idle, Fresh, Queued
  <2>2. Apart'
    BY <1>0, <1>19 DEF DirectRead, ReadRows, JobLocals, Idle, Apart, Queued, Fresh
  <2>3. LeaseHeld'
    BY <1>0, <1>19 DEF DirectRead, ReadRows, JobLocals, Idle, LeaseHeld, Leased, Working, Apart, Queued, Fresh
  <2>4. Once'
    BY <1>0, <1>19 DEF DirectRead, ReadRows, JobLocals, Idle, Once, Fresh, Cached, Progress, AtSheet
  <2>5. Cached'
    BY <1>0, <1>19 DEF DirectRead, ReadRows, JobLocals, Idle, Cached, AtSheet, Progress, Once
  <2>6. Progress'
    BY <1>0, <1>19 DEF DirectRead, ReadRows, JobLocals, Idle, Progress, AtSheet, Delivered, HasHistory, IsLootsplit, Cached, Once
  <2>7. NothingLost'
    BY <1>0, <1>19 DEF DirectRead, ReadRows, JobLocals, Idle, NothingLost, Delivered, Queued, HasHistory, IsLootsplit, Fresh, Once, LeaseHeld, Leased, Working
  <2> QED
    BY <2>1, <2>2, <2>3, <2>4, <2>5, <2>6, <2>7 DEF HistoryInv
<1>20. CASE DirectWrite
  <2>1. Fresh'
    BY <1>0, <1>20 DEF DirectWrite, RowsForgotten, JobLocals, Fresh, Queued
  <2>2. Apart'
    BY <1>0, <1>20 DEF DirectWrite, RowsForgotten, JobLocals, Apart, Queued, Fresh
  <2>3. LeaseHeld'
    BY <1>0, <1>20 DEF DirectWrite, RowsForgotten, JobLocals, LeaseHeld, Leased, Working, Apart, Queued, Fresh
  <2>4. Once'
    BY <1>0, <1>20 DEF DirectWrite, RowsForgotten, JobLocals, Once, Fresh, Cached, Progress, AtSheet
  <2>5. Cached'
    BY <1>0, <1>20 DEF DirectWrite, RowsForgotten, JobLocals, Cached, AtSheet, Progress, Once
  <2>6. Progress'
    BY <1>0, <1>20 DEF DirectWrite, RowsForgotten, JobLocals, Progress, AtSheet, Delivered, HasHistory, IsLootsplit, Cached, Once
  <2>7. NothingLost'
    BY <1>0, <1>20 DEF DirectWrite, RowsForgotten, JobLocals, NothingLost, Delivered, Queued, HasHistory, IsLootsplit, Fresh, Once, LeaseHeld, Leased, Working
  <2> QED
    BY <2>1, <2>2, <2>3, <2>4, <2>5, <2>6, <2>7 DEF HistoryInv
<1>21. CASE RebuildRead
  <2>1. Fresh'
    BY <1>0, <1>21 DEF RebuildRead, ReadRows, JobLocals, Idle, Fresh, Queued
  <2>2. Apart'
    BY <1>0, <1>21 DEF RebuildRead, ReadRows, JobLocals, Idle, Apart, Queued, Fresh
  <2>3. LeaseHeld'
    BY <1>0, <1>21 DEF RebuildRead, ReadRows, JobLocals, Idle, LeaseHeld, Leased, Working, Apart, Queued, Fresh
  <2>4. Once'
    BY <1>0, <1>21 DEF RebuildRead, ReadRows, JobLocals, Idle, Once, Fresh, Cached, Progress, AtSheet
  <2>5. Cached'
    BY <1>0, <1>21 DEF RebuildRead, ReadRows, JobLocals, Idle, Cached, AtSheet, Progress, Once
  <2>6. Progress'
    BY <1>0, <1>21 DEF RebuildRead, ReadRows, JobLocals, Idle, Progress, AtSheet, Delivered, HasHistory, IsLootsplit, Cached, Once
  <2>7. NothingLost'
    BY <1>0, <1>21 DEF RebuildRead, ReadRows, JobLocals, Idle, NothingLost, Delivered, Queued, HasHistory, IsLootsplit, Fresh, Once, LeaseHeld, Leased, Working
  <2> QED
    BY <2>1, <2>2, <2>3, <2>4, <2>5, <2>6, <2>7 DEF HistoryInv
<1>22. CASE RebuildPlayers
  <2>1. Fresh'
    BY <1>0, <1>22 DEF RebuildPlayers, RowsForgotten, JobLocals, Fresh, Queued
  <2>2. Apart'
    BY <1>0, <1>22 DEF RebuildPlayers, RowsForgotten, JobLocals, Apart, Queued, Fresh
  <2>3. LeaseHeld'
    BY <1>0, <1>22 DEF RebuildPlayers, RowsForgotten, JobLocals, LeaseHeld, Leased, Working, Apart, Queued, Fresh
  <2>4. Once'
    BY <1>0, <1>22 DEF RebuildPlayers, RowsForgotten, JobLocals, Once, Fresh, Cached, Progress, AtSheet
  <2>5. Cached'
    BY <1>0, <1>22 DEF RebuildPlayers, RowsForgotten, JobLocals, Cached, AtSheet, Progress, Once
  <2>6. Progress'
    BY <1>0, <1>22 DEF RebuildPlayers, RowsForgotten, JobLocals, Progress, AtSheet, Delivered, HasHistory, IsLootsplit, Cached, Once
  <2>7. NothingLost'
    BY <1>0, <1>22 DEF RebuildPlayers, RowsForgotten, JobLocals, NothingLost, Delivered, Queued, HasHistory, IsLootsplit, Fresh, Once, LeaseHeld, Leased, Working
  <2> QED
    BY <2>1, <2>2, <2>3, <2>4, <2>5, <2>6, <2>7 DEF HistoryInv
<1>23. CASE RebuildBalance
  <2>1. Fresh'
    BY <1>0, <1>23 DEF RebuildBalance, Reconciled, Fresh, Queued
  <2>2. Apart'
    BY <1>0, <1>23 DEF RebuildBalance, Reconciled, Apart, Queued, Fresh
  <2>3. LeaseHeld'
    BY <1>0, <1>23 DEF RebuildBalance, Reconciled, LeaseHeld, Leased, Working, Apart, Queued, Fresh
  <2>4. Once'
    BY <1>0, <1>23 DEF RebuildBalance, Reconciled, Once, Fresh, Cached, Progress, AtSheet
  <2>5. Cached'
    BY <1>0, <1>23 DEF RebuildBalance, Reconciled, Cached, AtSheet, Progress, Once
  <2>6. Progress'
    BY <1>0, <1>23 DEF RebuildBalance, Reconciled, Progress, AtSheet, Delivered, HasHistory, IsLootsplit, Cached, Once
  <2>7. NothingLost'
    BY <1>0, <1>23 DEF RebuildBalance, Reconciled, NothingLost, Delivered, Queued, HasHistory, IsLootsplit, Fresh, Once, LeaseHeld, Leased, Working
  <2> QED
    BY <2>1, <2>2, <2>3, <2>4, <2>5, <2>6, <2>7 DEF HistoryInv
<1>24. CASE RebuildLoot
  <2>1. Fresh'
    BY <1>0, <1>24 DEF RebuildLoot, Reconciled, Fresh, Queued
  <2>2. Apart'
    BY <1>0, <1>24 DEF RebuildLoot, Reconciled, Apart, Queued, Fresh
  <2>3. LeaseHeld'
    BY <1>0, <1>24 DEF RebuildLoot, Reconciled, LeaseHeld, Leased, Working, Apart, Queued, Fresh
  <2>4. Once'
    BY <1>0, <1>24 DEF RebuildLoot, Reconciled, Once, Fresh, Cached, Progress, AtSheet
  <2>5. Cached'
    BY <1>0, <1>24 DEF RebuildLoot, Reconciled, Cached, AtSheet, Progress, Once
  <2>6. Progress'
    BY <1>0, <1>24 DEF RebuildLoot, Reconciled, Progress, AtSheet, Delivered, HasHistory, IsLootsplit, Cached, Once
  <2>7. NothingLost'
    BY <1>0, <1>24 DEF RebuildLoot, Reconciled, NothingLost, Delivered, Queued, HasHistory, IsLootsplit, Fresh, Once, LeaseHeld, Leased, Working
  <2> QED
    BY <2>1, <2>2, <2>3, <2>4, <2>5, <2>6, <2>7 DEF HistoryInv
<1>25. CASE Crash
  <2>1. Fresh'
    BY <1>0, <1>25 DEF Crash, Finish, Fresh, Queued
  <2>2. Apart'
    BY <1>0, <1>25 DEF Crash, Finish, Apart, Queued, Fresh
  <2>3. LeaseHeld'
    BY <1>0, <1>25 DEF Crash, Finish, LeaseHeld, Leased, Working, Apart, Queued, Fresh
  <2>4. Once'
    BY <1>0, <1>25 DEF Crash, Finish, Once, Fresh, Cached, Progress, AtSheet
  <2>5. Cached'
    BY <1>0, <1>25 DEF Crash, Finish, Cached, AtSheet, Progress, Once
  <2>6. Progress'
    BY <1>0, <1>25 DEF Crash, Finish, Progress, AtSheet, Delivered, HasHistory, IsLootsplit, Cached, Once
  <2>7. NothingLost'
    BY <1>0, <1>25 DEF Crash, Finish, NothingLost, Delivered, Queued, HasHistory, IsLootsplit, Fresh, Once, LeaseHeld, Leased, Working
  <2> QED
    BY <2>1, <2>2, <2>3, <2>4, <2>5, <2>6, <2>7 DEF HistoryInv
<1>26. CASE UNCHANGED vars
  BY <1>0, <1>26 DEF vars, HistoryInv, Fresh, Apart, LeaseHeld, Leased, Queued, Once, Cached, Progress, NothingLost,
         Delivered, HasHistory, IsLootsplit, Working, AtSheet
<1> QED
  BY <1>1, <1>2, <1>3, <1>4, <1>5, <1>6, <1>7, <1>8, <1>9,
     <1>10, <1>11, <1>12, <1>13, <1>14, <1>15, <1>16, <1>17, <1>18,
     <1>19, <1>20, <1>21, <1>22, <1>23, <1>24, <1>25, <1>26
  DEF Next, FlushStep, JobStep

\* RowInv holds initially.
LEMMA RowInit == Init => RowInv
  BY DEF Init, RowInv, Pending, Ordered, RowsOwed

\* Every action preserves RowInv.
LEMMA RowStep == TypeOK /\ HistoryInv /\ RowInv /\ [Next]_vars => RowInv'
<1> SUFFICES ASSUME TypeOK, HistoryInv, RowInv, [Next]_vars PROVE RowInv'
  OBVIOUS
<1> USE EventAssumption DEF EventAssumption, TypeOK, SqliteTypes, SheetTypes, ThreadTypes
<1>0. Pending /\ Ordered /\ RowsOwed /\ Fresh /\ Apart /\ LeaseHeld
  BY DEF HistoryInv, RowInv
<1>1. ASSUME NEW e \in Events, Commit(e) PROVE RowInv'
  <2>0. e \notin committed /\ status[e] = "absent" /\ e \notin dead /\ (pc \in Working => cur # e)
    BY <1>0, <1>1 DEF Commit, LeaseHeld, Leased, Fresh
  <2>1. Pending'
    BY <1>0, <1>1, <2>0 DEF Commit, Pending
  <2>2. Ordered'
    BY <1>0, <1>1, <2>0 DEF Commit, Ordered
  <2>3. RowsOwed'
    BY <1>0, <1>1, <2>0 DEF Commit, RowsOwed, Owed, Settled, AtSheet, Incomplete, Queued, Pending
  <2> QED
    BY <2>1, <2>2, <2>3 DEF RowInv
<1>2. ASSUME NEW e \in Events, Elapse(e) PROVE RowInv'
  <2>1. Pending'
    BY <1>0, <1>2 DEF Elapse, Pending
  <2>2. Ordered'
    BY <1>0, <1>2 DEF Elapse, Ordered
  <2>3. RowsOwed'
    BY <1>0, <1>2 DEF Elapse, RowsOwed, Owed, Settled, AtSheet, Incomplete, Queued, Pending
  <2> QED
    BY <2>1, <2>2, <2>3 DEF RowInv
<1>3. ASSUME NEW e \in Events, Prune(e) PROVE RowInv'
  <2>1. Pending'
    BY <1>0, <1>3 DEF Prune, Pending
  <2>2. Ordered'
    BY <1>0, <1>3 DEF Prune, Ordered
  <2>3. RowsOwed'
    BY <1>0, <1>3 DEF Prune, RowsOwed, Owed, Settled, AtSheet, Incomplete, Queued, Pending
  <2> QED
    BY <2>1, <2>2, <2>3 DEF RowInv
<1>4. CASE RetryDeadLetters
  <2>1. Pending'
    BY <1>0, <1>4 DEF RetryDeadLetters, Pending
  <2>2. Ordered'
    BY <1>0, <1>4 DEF RetryDeadLetters, Ordered
  <2>3. RowsOwed'
    BY <1>0, <1>4 DEF RetryDeadLetters, RowsOwed, Owed, Settled, AtSheet, Incomplete, Queued, Pending
  <2> QED
    BY <2>1, <2>2, <2>3 DEF RowInv
<1>5. CASE FlushStart
  <2>1. Pending'
    BY <1>0, <1>5 DEF FlushStart, Pending
  <2>2. Ordered'
    BY <1>0, <1>5 DEF FlushStart, Ordered
  <2>3. RowsOwed'
    BY <1>0, <1>5 DEF FlushStart, RowsOwed, Owed, Settled, AtSheet, Incomplete, Queued, Pending
  <2> QED
    BY <2>1, <2>2, <2>3 DEF RowInv
<1>6. CASE Claim
  <2>1. Pending'
    BY <1>0, <1>6 DEF Claim, Claimable, Pending
  <2>2. Ordered'
    BY <1>0, <1>6 DEF Claim, Claimable, Ordered
  <2>3. RowsOwed'
    BY <1>0, <1>6 DEF Claim, Claimable, RowsOwed, Owed, Settled, AtSheet, Incomplete, Queued, Pending
  <2> QED
    BY <2>1, <2>2, <2>3 DEF RowInv
<1>7. CASE ClaimNothing
  <2>1. Pending'
    BY <1>0, <1>7 DEF ClaimNothing, Pending
  <2>2. Ordered'
    BY <1>0, <1>7 DEF ClaimNothing, Ordered
  <2>3. RowsOwed'
    BY <1>0, <1>7 DEF ClaimNothing, RowsOwed, Owed, Settled, AtSheet, Incomplete, Queued, Pending
  <2> QED
    BY <2>1, <2>2, <2>3 DEF RowInv
<1>8. CASE CheckQueue
  <2>1. Pending'
    BY <1>0, <1>8 DEF CheckQueue, Finish, Pending
  <2>2. Ordered'
    BY <1>0, <1>8 DEF CheckQueue, Finish, Ordered
  <2>3. RowsOwed'
    BY <1>0, <1>8 DEF CheckQueue, Finish, RowsOwed, Owed, Settled, AtSheet, Incomplete, Queued, Pending
  <2> QED
    BY <2>1, <2>2, <2>3 DEF RowInv
<1>9. CASE CheckDead
  <2>1. Pending'
    BY <1>0, <1>9 DEF CheckDead, Finish, Pending
  <2>2. Ordered'
    BY <1>0, <1>9 DEF CheckDead, Finish, Ordered
  <2>3. RowsOwed'
    BY <1>0, <1>9 DEF CheckDead, Finish, RowsOwed, Owed, Settled, AtSheet, Incomplete, Queued, Pending
  <2> QED
    BY <2>1, <2>2, <2>3 DEF RowInv
<1>10. CASE OpenSheet
  <2>1. Pending'
    BY <1>0, <1>10 DEF OpenSheet, GoogleError, Pending
  <2>2. Ordered'
    BY <1>0, <1>10 DEF OpenSheet, GoogleError, Ordered
  <2>3. RowsOwed'
    BY <1>0, <1>10 DEF OpenSheet, GoogleError, RowsOwed, Owed, Settled, AtSheet, Incomplete, Queued, Pending
  <2> QED
    BY <2>1, <2>2, <2>3 DEF RowInv
<1>11. CASE ReadPlayer
  <2>1. Pending'
    BY <1>0, <1>11 DEF ReadPlayer, ReadRows, Pending
  <2>2. Ordered'
    BY <1>0, <1>11 DEF ReadPlayer, ReadRows, Ordered
  <2>3. RowsOwed'
    BY <1>0, <1>11 DEF ReadPlayer, ReadRows, RowsOwed, Owed, Settled, AtSheet, Incomplete, Queued, Pending
  <2> QED
    BY <2>1, <2>2, <2>3 DEF RowInv
<1>12. CASE WritePlayer
  <2>1. Pending'
    BY <1>0, <1>12 DEF WritePlayer, RowsForgotten, Written, Pending
  <2>2. Ordered'
    BY <1>0, <1>12 DEF WritePlayer, RowsForgotten, Written, Ordered
  <2>3. RowsOwed'
    BY <1>0, <1>12 DEF WritePlayer, RowsForgotten, Written, RowsOwed, Owed, Settled, AtSheet, Incomplete, Queued, Pending
  <2> QED
    BY <2>1, <2>2, <2>3 DEF RowInv
<1>13. CASE PlayersDone
  <2>1. Pending'
    BY <1>0, <1>13 DEF PlayersDone, Kinds, Pending
  <2>2. Ordered'
    BY <1>0, <1>13 DEF PlayersDone, Kinds, Ordered
  <2>3. RowsOwed'
    BY <1>0, <1>13 DEF PlayersDone, Kinds, RowsOwed, Owed, Settled, AtSheet, Incomplete, Queued, Pending
  <2> QED
    BY <2>1, <2>2, <2>3 DEF RowInv
<1>14. CASE AppendLoot
  <2>1. Pending'
    BY <1>0, <1>14 DEF AppendLoot, Pending
  <2>2. Ordered'
    BY <1>0, <1>14 DEF AppendLoot, Ordered
  <2>3. RowsOwed'
    BY <1>0, <1>14 DEF AppendLoot, RowsOwed, Owed, Settled, AtSheet, Incomplete, Queued, Pending
  <2> QED
    BY <2>1, <2>2, <2>3 DEF RowInv
<1>15. CASE AppendBalance
  <2>1. Pending'
    BY <1>0, <1>15 DEF AppendBalance, Pending
  <2>2. Ordered'
    BY <1>0, <1>15 DEF AppendBalance, Ordered
  <2>3. RowsOwed'
    BY <1>0, <1>15 DEF AppendBalance, RowsOwed, Owed, Settled, AtSheet, Incomplete, Queued, Pending
  <2> QED
    BY <2>1, <2>2, <2>3 DEF RowInv
<1>16. CASE Ack
  <2>0. cur \in Events /\ Leased(cur) /\ status[cur] = "processing" /\ cur \in committed /\ cur \notin dead
    BY <1>0, <1>16 DEF Ack, Working, LeaseHeld, Leased, Fresh, Apart
  <2>1. Pending'
    BY <1>0, <1>16, <2>0 DEF Ack, Finish, Pending
  <2>2. Ordered'
    BY <1>0, <1>16, <2>0 DEF Ack, Finish, Ordered
  <2>3. RowsOwed'
    BY <1>0, <1>16, <2>0 DEF Ack, Finish, RowsOwed, Owed, Settled, AtSheet, Incomplete, Queued, Pending
  <2> QED
    BY <2>1, <2>2, <2>3 DEF RowInv
<1>17. CASE DeadLetter
  <2>0. cur \in Events /\ Leased(cur) /\ status[cur] = "processing" /\ cur \in committed /\ cur \notin dead
    BY <1>0, <1>17 DEF DeadLetter, Working, LeaseHeld, Leased, Fresh, Apart
  <2>1. Pending'
    BY <1>0, <1>17, <2>0 DEF DeadLetter, Finish, Pending
  <2>2. Ordered'
    BY <1>0, <1>17, <2>0 DEF DeadLetter, Finish, Ordered
  <2>3. RowsOwed'
    BY <1>0, <1>17, <2>0 DEF DeadLetter, Finish, RowsOwed, Owed, Settled, AtSheet, Incomplete, Queued, Pending
  <2> QED
    BY <2>1, <2>2, <2>3 DEF RowInv
<1>18. CASE Fail
  <2>0. cur \in Events /\ Leased(cur) /\ status[cur] = "processing" /\ cur \in committed /\ cur \notin dead
    BY <1>0, <1>18 DEF Fail, Working, LeaseHeld, Leased, Fresh, Apart
  <2>1. Pending'
    BY <1>0, <1>18, <2>0 DEF Fail, Finish, Pending
  <2>2. Ordered'
    BY <1>0, <1>18, <2>0 DEF Fail, Finish, Ordered
  <2>3. RowsOwed'
    BY <1>0, <1>18, <2>0 DEF Fail, Finish, RowsOwed, Owed, Settled, AtSheet, Incomplete, Queued, Pending
  <2> QED
    BY <2>1, <2>2, <2>3 DEF RowInv
<1>19. ASSUME NEW ps \in SUBSET Players, DirectRead(ps) PROVE RowInv'
  <2>1. Pending'
    BY <1>0, <1>19 DEF DirectRead, ReadRows, JobLocals, Idle, Pending
  <2>2. Ordered'
    BY <1>0, <1>19 DEF DirectRead, ReadRows, JobLocals, Idle, Ordered
  <2>3. RowsOwed'
    BY <1>0, <1>19 DEF DirectRead, ReadRows, JobLocals, Idle, RowsOwed, Owed, Settled, AtSheet, Incomplete, Queued, Pending
  <2> QED
    BY <2>1, <2>2, <2>3 DEF RowInv
<1>20. CASE DirectWrite
  <2>1. Pending'
    BY <1>0, <1>20 DEF DirectWrite, RowsForgotten, JobLocals, Written, Pending
  <2>2. Ordered'
    BY <1>0, <1>20 DEF DirectWrite, RowsForgotten, JobLocals, Written, Ordered
  <2>3. RowsOwed'
    BY <1>0, <1>20 DEF DirectWrite, RowsForgotten, JobLocals, Written, RowsOwed, Owed, Settled, AtSheet, Incomplete, Queued, Pending
  <2> QED
    BY <2>1, <2>2, <2>3 DEF RowInv
<1>21. CASE RebuildRead
  <2>1. Pending'
    BY <1>0, <1>21 DEF RebuildRead, ReadRows, JobLocals, Idle, Pending
  <2>2. Ordered'
    BY <1>0, <1>21 DEF RebuildRead, ReadRows, JobLocals, Idle, Ordered
  <2>3. RowsOwed'
    BY <1>0, <1>21 DEF RebuildRead, ReadRows, JobLocals, Idle, RowsOwed, Owed, Settled, AtSheet, Incomplete, Queued, Pending
  <2> QED
    BY <2>1, <2>2, <2>3 DEF RowInv
<1>22. CASE RebuildPlayers
  <2>1. Pending'
    BY <1>0, <1>22 DEF RebuildPlayers, RowsForgotten, JobLocals, Written, Pending
  <2>2. Ordered'
    BY <1>0, <1>22 DEF RebuildPlayers, RowsForgotten, JobLocals, Written, Ordered
  <2>3. RowsOwed'
    BY <1>0, <1>22 DEF RebuildPlayers, RowsForgotten, JobLocals, Written, RowsOwed, Owed, Settled, AtSheet, Incomplete, Queued, Pending
  <2> QED
    BY <2>1, <2>2, <2>3 DEF RowInv
<1>23. CASE RebuildBalance
  <2>1. Pending'
    BY <1>0, <1>23 DEF RebuildBalance, Reconciled, Pending
  <2>2. Ordered'
    BY <1>0, <1>23 DEF RebuildBalance, Reconciled, Ordered
  <2>3. RowsOwed'
    BY <1>0, <1>23 DEF RebuildBalance, Reconciled, RowsOwed, Owed, Settled, AtSheet, Incomplete, Queued, Pending
  <2> QED
    BY <2>1, <2>2, <2>3 DEF RowInv
<1>24. CASE RebuildLoot
  <2>1. Pending'
    BY <1>0, <1>24 DEF RebuildLoot, Reconciled, Pending
  <2>2. Ordered'
    BY <1>0, <1>24 DEF RebuildLoot, Reconciled, Ordered
  <2>3. RowsOwed'
    BY <1>0, <1>24 DEF RebuildLoot, Reconciled, RowsOwed, Owed, Settled, AtSheet, Incomplete, Queued, Pending
  <2> QED
    BY <2>1, <2>2, <2>3 DEF RowInv
<1>25. CASE Crash
  <2>1. Pending'
    BY <1>0, <1>25 DEF Crash, Finish, Pending
  <2>2. Ordered'
    BY <1>0, <1>25 DEF Crash, Finish, Ordered
  <2>3. RowsOwed'
    BY <1>0, <1>25 DEF Crash, Finish, RowsOwed, Owed, Settled, AtSheet, Incomplete, Queued, Pending
  <2> QED
    BY <2>1, <2>2, <2>3 DEF RowInv
<1>26. CASE UNCHANGED vars
  BY <1>0, <1>26 DEF vars, RowInv, Pending, Ordered, RowsOwed, Owed, Settled, AtSheet,
         Incomplete, Queued
<1> QED
  BY <1>1, <1>2, <1>3, <1>4, <1>5, <1>6, <1>7, <1>8, <1>9,
     <1>10, <1>11, <1>12, <1>13, <1>14, <1>15, <1>16, <1>17, <1>18,
     <1>19, <1>20, <1>21, <1>22, <1>23, <1>24, <1>25, <1>26
  DEF Next, FlushStep, JobStep

-----------------------------------------------------------------------------
(* What a flush reports.                                                   *)

\* Between the two closing reads nothing that was committed when the flush
\* began is in the queue, unless the operator put it there.
ReportInv ==
    /\ owed \subseteq committed
    /\ pc = "checkDead" => \A e \in owed : ~Queued(e)
    /\ report = "current" => \A e \in owed : ~Queued(e) /\ e \notin dead

\* Every action preserves it.
LEMMA ReportStep ==
  ASSUME TypeOK, LeaseHeld, ReportInv, [Next]_vars
  PROVE  ReportInv'
<1> DEFINE Quiet == /\ UNCHANGED <<report, owed, committed, dead>>
                    /\ pc' # "checkDead"
                    /\ \A e \in Events : Queued(e)' => Queued(e)
<1>0. TypeOK => owed \subseteq Events /\ status \in [Events -> {"absent", "pending", "processing", "completed"}]
  BY DEF TypeOK, SqliteTypes, ThreadTypes
<1>1. Quiet => ReportInv'
  BY <1>0 DEF ReportInv
<1>2. ASSUME NEW outcome, Finish(outcome), outcome # "current", UNCHANGED committed
      PROVE  ReportInv'
  BY <1>2 DEF Finish, ReportInv
<1> HIDE DEF Quiet
<1>3. ASSUME NEW e \in Events, Commit(e) PROVE ReportInv'
  <2>1. /\ e \notin owed /\ UNCHANGED <<owed, report, pc, dead>>
        /\ committed' = committed \union {e} /\ status' = [status EXCEPT ![e] = "pending"]
    BY <1>3 DEF Commit, ReportInv
  <2>2. \A f \in owed : status'[f] = status[f]
    BY <1>0, <2>1
  <2> QED
    BY <2>1, <2>2 DEF ReportInv, Queued
<1>4. CASE RetryDeadLetters
  <2>1. /\ owed' = owed \ dead /\ UNCHANGED <<report, pc, committed>> /\ dead' = {}
        /\ status' = [e \in Events |-> IF e \in dead THEN "pending" ELSE status[e]]
    BY <1>4 DEF RetryDeadLetters
  <2>2. \A f \in owed' : f \in owed /\ status'[f] = status[f]
    BY <1>0, <2>1
  <2> QED
    BY <2>1, <2>2 DEF ReportInv, Queued
<1>5. ASSUME NEW e \in Events, Elapse(e) \/ Prune(e) PROVE ReportInv'
  <2>1. UNCHANGED <<report, owed, committed, dead, pc>>
        /\ (status' = status \/ status' = [status EXCEPT ![e] = "absent"])
    BY <1>5 DEF Elapse, Prune
  <2>2. \A f \in Events : Queued(f)' => Queued(f)
    BY <1>0, <2>1 DEF Queued
  <2> QED
    BY <1>0, <2>1, <2>2 DEF ReportInv
<1>6. CASE FlushStart
  BY <1>6 DEF FlushStart, ReportInv
<1>7. CASE Claim
  <2>1. PICK e \in Events : Claimable(e) /\ status' = [status EXCEPT ![e] = "processing"]
    BY <1>7 DEF Claim
  <2>2. \A f \in Events : Queued(f)' => Queued(f)
    BY <1>0, <2>1 DEF Queued, Claimable
  <2>3. pc' # "checkDead" /\ UNCHANGED <<report, owed, committed, dead>>
    BY <1>7 DEF Claim
  <2> QED
    BY <1>1, <2>2, <2>3 DEF Quiet
<1>8. CASE CheckQueue
  <2>1. CASE Incomplete # {}
    BY <1>2, <1>8, <2>1 DEF CheckQueue
  <2>2. CASE Incomplete = {}
    <3>1. \A e \in Events : ~Queued(e)
      BY <2>2 DEF Incomplete
    <3>2. UNCHANGED <<report, owed, committed, dead, status>>
      BY <1>8, <2>2 DEF CheckQueue
    <3> QED
      BY <1>0, <3>1, <3>2 DEF ReportInv, Queued
  <2> QED
    BY <2>1, <2>2
<1>9. CASE CheckDead
  <2>1. CASE dead # {}
    BY <1>2, <1>9, <2>1 DEF CheckDead
  <2>2. CASE dead = {}
    <3>1. pc = "checkDead" /\ pc' = "idle" /\ owed' = owed
          /\ UNCHANGED <<committed, dead, status>>
      BY <1>9, <2>2 DEF CheckDead, Finish
    <3> QED
      BY <2>2, <3>1 DEF ReportInv, Queued
  <2> QED
    BY <2>1, <2>2
<1>10. CASE Ack
  <2>1. UNCHANGED committed
    BY <1>10 DEF Ack
  <2>2. CASE Finish("leaseLost")
    BY <1>2, <2>1, <2>2
  <2>3. CASE ~Finish("leaseLost")
    <3>1. cur \in Events /\ Leased(cur)
      BY <1>10 DEF Ack, LeaseHeld, Working, TypeOK, ThreadTypes
    <3>2. UNCHANGED <<report, owed, committed, dead>> /\ pc' # "checkDead"
      BY <1>10, <2>3 DEF Ack
    <3>3. \A f \in Events : Queued(f)' => Queued(f)
      BY <1>0, <1>10, <2>3, <3>1 DEF Ack, Queued
    <3> QED
      BY <1>1, <3>2, <3>3 DEF Quiet
  <2> QED
    BY <2>2, <2>3
<1>11. CASE DeadLetter \/ Fail \/ Crash
  <2>1. UNCHANGED committed /\ \E outcome \in {"failed", "none"} : Finish(outcome)
    BY <1>11 DEF DeadLetter, Fail, Crash
  <2> QED
    BY <1>2, <2>1
<1>12. CASE \/ OpenSheet \/ ReadPlayer \/ WritePlayer \/ ClaimNothing
            \/ RebuildRead \/ (\E ps \in SUBSET Players : DirectRead(ps))
  <2>1. UNCHANGED <<report, owed, committed, dead, status>>
    BY <1>12 DEF OpenSheet, ReadPlayer, WritePlayer, ClaimNothing, RebuildRead,
       DirectRead
  <2>2. pc' # "checkDead"
    BY <1>12 DEF OpenSheet, ReadPlayer, WritePlayer, ClaimNothing, RebuildRead,
       DirectRead, GoogleError
  <2> QED
    BY <1>1, <2>1, <2>2 DEF Quiet, Queued
<1>14. CASE PlayersDone
  <2>1. UNCHANGED <<report, owed, committed, dead, status>>
    BY <1>14 DEF PlayersDone
  <2>2. Kind[cur] \in Kinds
    BY <1>14, EventAssumption DEF PlayersDone, TypeOK, ThreadTypes, Working, EventAssumption
  <2>3. pc' # "checkDead"
    BY <1>14, <2>2 DEF PlayersDone, Kinds
  <2> QED
    BY <1>1, <2>1, <2>3 DEF Quiet, Queued
<1>15. CASE AppendLoot \/ AppendBalance \/ JobStep
  <2>1. UNCHANGED <<report, owed, committed, dead, status>>
    BY <1>15 DEF JobStep, AppendLoot, AppendBalance, DirectWrite, RebuildPlayers,
       RebuildBalance, RebuildLoot
  <2>2. pc' # "checkDead"
    BY <1>15 DEF JobStep, AppendLoot, AppendBalance, DirectWrite, RebuildPlayers,
       RebuildBalance, RebuildLoot
  <2> QED
    BY <1>1, <2>1, <2>2 DEF Quiet, Queued
<1>13. CASE UNCHANGED vars
  BY <1>13 DEF vars, ReportInv, Queued
<1> QED
  BY <1>3, <1>4, <1>5, <1>6, <1>7, <1>8, <1>9, <1>10, <1>11, <1>12, <1>13, <1>14, <1>15
  DEF Next, FlushStep

-----------------------------------------------------------------------------
(* The theorems.                                                           *)

Inv == TypeOK /\ HistoryInv /\ RowInv

\* The conjunction is inductive.
LEMMA Inductive == Spec => []Inv
<1>1. Init => Inv
  BY TypeInit, HistoryInit, RowInit DEF Inv
<1>2. Inv /\ [Next]_vars => Inv'
  BY TypeStep, HistoryStep, RowStep DEF Inv
<1> QED
  BY <1>1, <1>2, PTL DEF Spec

\* A committed change is queued, quarantined or shown exactly once, whatever
\* Google answers and wherever the process stops.
THEOREM NothingIsLost == Spec => []NothingLost
<1>1. Inv => NothingLost
  BY DEF Inv, HistoryInv
<1> QED
  BY <1>1, Inductive, PTL

\* A running flush keeps its lease.
THEOREM LeaseIsHeld == Spec => []LeaseHeld
<1>1. Inv => LeaseHeld
  BY DEF Inv, HistoryInv
<1> QED
  BY <1>1, Inductive, PTL

\* A Players row that disagrees with SQLite is owed a queued or quarantined
\* event of its player.
THEOREM StaleRowIsOwed == Spec => []StaleRowsAreOwed
<1>1. Inv => StaleRowsAreOwed
  BY DEF Inv, RowInv, RowsOwed, Owed, StaleRowsAreOwed
<1> QED
  BY <1>1, Inductive, PTL

\* A flush that says the projection is current has delivered whatever was
\* committed when it began and not put back by the operator since.
THEOREM CurrentIsDelivered == Spec => []CurrentMeansDelivered
<1>1. Init => ReportInv
  BY DEF Init, ReportInv
<1>2. Inv /\ ReportInv /\ [Next]_vars => ReportInv'
  BY ReportStep DEF Inv, HistoryInv
<1>3. Inv /\ ReportInv => CurrentMeansDelivered
  BY DEF Inv, HistoryInv, NothingLost, ReportInv, CurrentMeansDelivered
<1> QED
  BY <1>1, <1>2, <1>3, Inductive, PTL DEF Spec

\* A step of the projection is a step of the contract, or changes nothing the
\* contract speaks of.
LEMMA ContractStep == Inv /\ [Next]_vars => [Contract!Next]_(Contract!contract)
<1> SUFFICES ASSUME Inv, [Next]_vars PROVE [Contract!Next]_(Contract!contract)
  OBVIOUS
<1> USE EventAssumption DEF EventAssumption, Contract!contract
<1> DEFINE Rows == [w \in {"balance", "loot"} |-> IF w = "loot" THEN lootRows ELSE balanceRows]
<1>0. TypeOK /\ SqliteTypes /\ SheetTypes /\ ThreadTypes /\ HistoryInv /\ RowInv
  BY DEF Inv, TypeOK
<1>1. ASSUME NEW e \in Events, Commit(e) PROVE Contract!Next
  <2>1. Contract!Change(e)
    BY <1>1 DEF Commit, Contract!Change
  <2> QED
    BY <2>1 DEF Contract!Next
<1>2. ASSUME sheetRow' = Written,
             UNCHANGED <<local, committed, balanceRows, lootRows>>
      PROVE  Contract!Next
  <2>1. sheetRow' \in [Players -> Nat]
    BY <1>0, <1>2 DEF SheetTypes, ThreadTypes, Written
  <2>2. \A p \in Players : sheetRow[p] <= sheetRow'[p] /\ sheetRow'[p] <= local[p]
    BY <1>0, <1>2 DEF RowInv, Ordered, Written, SheetTypes, SqliteTypes, ThreadTypes
  <2>3. Contract!Refresh
    BY <1>2, <2>1, <2>2 DEF Contract!Refresh
  <2> QED
    BY <2>3 DEF Contract!Next
<1>3. ASSUME NEW S \in SUBSET Events, \A e \in S : e \in committed /\ balanceRows[e] = 0,
             balanceRows' = [e \in Events |-> IF e \in S THEN 1 ELSE balanceRows[e]],
             UNCHANGED <<local, committed, sheetRow, lootRows>>
      PROVE  Contract!Next
  <2>1. Contract!Post("balance", S)
    BY <1>0, <1>3 DEF Contract!Post, SheetTypes
  <2> QED
    BY <2>1 DEF Contract!Next
<1>4. ASSUME NEW S \in SUBSET Events, \A e \in S : e \in committed /\ lootRows[e] = 0,
             lootRows' = [e \in Events |-> IF e \in S THEN 1 ELSE lootRows[e]],
             UNCHANGED <<local, committed, sheetRow, balanceRows>>
      PROVE  Contract!Next
  <2>1. Contract!Post("loot", S)
    BY <1>0, <1>4 DEF Contract!Post, SheetTypes
  <2> QED
    BY <2>1 DEF Contract!Next
<1> DEFINE Same == UNCHANGED <<local, committed, sheetRow, balanceRows, lootRows>>
<1>5. ASSUME Same PROVE UNCHANGED Contract!contract
  BY <1>5
<1>6. ASSUME pc \in {"loot", "balance"}, opened
      PROVE  /\ cur \in Events
             /\ cur \in committed
             /\ cur \notin balanceIds => balanceRows[cur] = 0
             /\ cur \notin lootIds => lootRows[cur] = 0
  BY <1>0, <1>6 DEF HistoryInv, LeaseHeld, Leased, Fresh, Cached, AtSheet, Working,
     ThreadTypes, SheetTypes
<1>7. CASE WritePlayer \/ DirectWrite \/ RebuildPlayers
  <2>1. \/ sheetRow' = Written /\ UNCHANGED <<local, committed, balanceRows, lootRows>>
        \/ Same
    BY <1>7 DEF WritePlayer, DirectWrite, RebuildPlayers
  <2> QED
    BY <1>2, <1>5, <2>1
<1>8. CASE AppendLoot
  <2>1. pc = "loot" /\ opened
    BY <1>0, <1>8 DEF AppendLoot, HistoryInv, Progress, AtSheet
  <2>2. \/ /\ cur \notin lootIds
           /\ lootRows' = [lootRows EXCEPT ![cur] = @ + 1]
           /\ UNCHANGED <<local, committed, sheetRow, balanceRows>>
        \/ Same
    BY <1>8 DEF AppendLoot
  <2>3. CASE /\ cur \notin lootIds
             /\ lootRows' = [lootRows EXCEPT ![cur] = @ + 1]
             /\ UNCHANGED <<local, committed, sheetRow, balanceRows>>
    <3>1. lootRows' = [e \in Events |-> IF e \in {cur} THEN 1 ELSE lootRows[e]]
      <4>1. lootRows[cur] = 0 /\ lootRows \in [Events -> Nat]
        BY <1>0, <1>6, <2>1, <2>3 DEF SheetTypes
      <4>2. lootRows' = [lootRows EXCEPT ![cur] = 1]
        BY <2>3, <4>1
      <4> QED
        BY <4>1, <4>2
    <3> QED
      BY <1>4, <1>6, <2>1, <2>3, <3>1
  <2> QED
    BY <1>5, <2>2, <2>3
<1>9. CASE AppendBalance
  <2>1. pc = "balance" /\ opened
    BY <1>0, <1>9 DEF AppendBalance, HistoryInv, Progress, AtSheet
  <2>2. \/ /\ cur \notin balanceIds
           /\ balanceRows' = [balanceRows EXCEPT ![cur] = @ + 1]
           /\ UNCHANGED <<local, committed, sheetRow, lootRows>>
        \/ Same
    BY <1>9 DEF AppendBalance
  <2>3. CASE /\ cur \notin balanceIds
             /\ balanceRows' = [balanceRows EXCEPT ![cur] = @ + 1]
             /\ UNCHANGED <<local, committed, sheetRow, lootRows>>
    <3>1. balanceRows' = [e \in Events |-> IF e \in {cur} THEN 1 ELSE balanceRows[e]]
      <4>1. balanceRows[cur] = 0 /\ balanceRows \in [Events -> Nat]
        BY <1>0, <1>6, <2>1, <2>3 DEF SheetTypes
      <4>2. balanceRows' = [balanceRows EXCEPT ![cur] = 1]
        BY <2>3, <4>1
      <4> QED
        BY <4>1, <4>2
    <3> QED
      BY <1>3, <1>6, <2>1, <2>3, <3>1
  <2> QED
    BY <1>5, <2>2, <2>3
<1>10. CASE RebuildBalance
  <2>1. \/ balanceRows' = Reconciled(balanceRows, {"balance.changed", "lootsplit.applied"})
           /\ UNCHANGED <<local, committed, sheetRow, lootRows>>
        \/ Same
    BY <1>10 DEF RebuildBalance
  <2> DEFINE S == {e \in Events : /\ e \in committed
                                  /\ Kind[e] \in {"balance.changed", "lootsplit.applied"}
                                  /\ balanceRows[e] = 0}
  <2>2. ASSUME balanceRows' = Reconciled(balanceRows, {"balance.changed", "lootsplit.applied"})
        PROVE  balanceRows' = [e \in Events |-> IF e \in S THEN 1 ELSE balanceRows[e]]
    BY <2>2 DEF Reconciled
  <2> QED
    BY <1>3, <1>5, <2>1, <2>2
<1>11. CASE RebuildLoot
  <2>1. \/ lootRows' = Reconciled(lootRows, {"lootsplit.applied"})
           /\ UNCHANGED <<local, committed, sheetRow, balanceRows>>
        \/ Same
    BY <1>11 DEF RebuildLoot
  <2> DEFINE S == {e \in Events : /\ e \in committed
                                  /\ Kind[e] \in {"lootsplit.applied"}
                                  /\ lootRows[e] = 0}
  <2>2. ASSUME lootRows' = Reconciled(lootRows, {"lootsplit.applied"})
        PROVE  lootRows' = [e \in Events |-> IF e \in S THEN 1 ELSE lootRows[e]]
    BY <2>2 DEF Reconciled
  <2> QED
    BY <1>4, <1>5, <2>1, <2>2
<1>12. ASSUME NEW e \in Events, Elapse(e) \/ Prune(e) PROVE Same
  BY <1>12 DEF Elapse, Prune
<1>13. ASSUME \/ RetryDeadLetters \/ FlushStart \/ Claim \/ ClaimNothing \/ CheckQueue
              \/ CheckDead \/ OpenSheet \/ ReadPlayer \/ PlayersDone \/ Ack \/ DeadLetter
              \/ Fail \/ RebuildRead \/ Crash \/ UNCHANGED vars
       PROVE  Same
  BY <1>13 DEF RetryDeadLetters, FlushStart, Claim, ClaimNothing, CheckQueue, CheckDead,
     OpenSheet, ReadPlayer, PlayersDone, Ack, DeadLetter, Fail, RebuildRead, Crash, vars
<1>15. ASSUME NEW ps \in SUBSET Players, DirectRead(ps) PROVE Same
  BY <1>15 DEF DirectRead
<1> HIDE DEF Same
<1> QED
  BY <1>1, <1>5, <1>7, <1>8, <1>9, <1>10, <1>11, <1>12, <1>13, <1>15
  DEF Next, FlushStep, JobStep

\* The projection implements its contract: a row never shows an older or a
\* future version, and no change is posted twice or withdrawn.
THEOREM ProjectionImplementsContract == Spec => ImplementsContract
<1>1. Init => Contract!Init
  BY DEF Init, Contract!Init
<1>2. Inv /\ [Next]_vars => [Contract!Next]_(Contract!contract)
  BY ContractStep
<1> QED
  BY <1>1, <1>2, Inductive, PTL DEF Spec, ImplementsContract, Contract!Spec
=============================================================================

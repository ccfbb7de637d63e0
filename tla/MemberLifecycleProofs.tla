----------------------- MODULE MemberLifecycleProofs -----------------------
(***************************************************************************)
(* Safety of registration, audit and reconciliation for any number of      *)
(* members, characters, target guilds and commands, and any number of      *)
(* moves, renames, payments, reconfigurations and restarts.                *)
(***************************************************************************)
EXTENDS MemberLifecycle, TLAPS

USE MemberAssumption DEF MemberAssumption
USE DEF albionVars, config, rows, discord, auditing, listing, history

\* The critical sections, by their owner.
Registering == [step : {"register", "update"}, by : {"command"}, user : Users,
                key : Characters, payload : Characters, name : Names, forced : BOOLEAN]
Serving     == [step : {"role", "done", "failed"}, by : {"command", "reconciler"},
                user : Users, key : Characters, payload : Characters]
Leaving     == [step : {"leave"}, by : {"audit"}, user : Users]
Editing     == [step : {"advance"}, by : {"editor"}]
Sections    == {Free} \union Registering \union Serving \union Leaving \union Editing

Verified == [user : Users, character : Characters, name : Names, forced : BOOLEAN,
             target : Targets, generation : Nat,
             seen : {<<>>} \union ((Characters \union {NoCharacter}) \X (Names \union {NoName}))]

Begun    == [phase : {"begun"}, target : Targets, leave : LeaveActions]
Checking == [phase : {"checking"}, target : Targets, leave : LeaveActions, generation : Nat]
Checks   == [revision : Nat, character : Characters, answers : Nat]

\* What commands, audit and critical section hold in memory.
MemoryTypes ==
    /\ held \in Sections
    /\ command \in [Commands -> {NoCommand} \union Verified]
    /\ audit \in {NoAudit} \union Begun \union Checking
    /\ check \in [Users -> {NoCheck} \union Checks]

Types == TypeOK /\ MemoryTypes

\* What the critical section found when it took the lock is still so.
SectionInv ==
    /\ held.step = "register" =>
          /\ target # NoTarget
          /\ held.payload = held.key
          /\ held.user \in forgotten \/ intent[<<held.user, held.key>>] = held.key
    /\ held.step \in {"update", "role", "done", "failed"} =>
          active[held.user] /\ character[held.user] = held.payload
    /\ held.step = "done" => held.user \in served

\* Whoever is outside the target guild now has been seen there.
OutsideInv == \A u \in Users : Outside(u) => u \in outside

\* The configuration the audit captured cannot become current again.
AuditInv ==
    /\ audit \in Checking => audit.generation <= generation
    /\ \A u \in Users : check[u] # NoCheck => audit \in Checking

\* While configuration and revision are the captured ones, the row is the
\* captured one, and an answer that counted was about it.
CheckInv ==
    \A u \in Users :
        /\ check[u] # NoCheck
        /\ audit.generation = generation
        /\ held.step # "advance"
        => /\ check[u].revision <= revision[u]
           /\ check[u].revision = revision[u] =>
                 /\ check[u].character = character[u]
                 /\ check[u].answers > 0 /\ audit.target = target => u \in outside

Inv == /\ Types /\ SectionInv /\ RoleIsQueuedUnlessForgotten
       /\ OutsideInv /\ AuditInv /\ CheckInv

-----------------------------------------------------------------------------
(* Types                                                                   *)

\* Init establishes the invariant.
LEMMA InitInv == Init => Inv
<1> SUFFICES ASSUME Init PROVE Inv
  OBVIOUS
<1>1. TypeOK
  BY DEF Init, TypeOK, Free, Steps, Records
<1>2. MemoryTypes
  BY DEF Init, MemoryTypes, Sections
<1>3. SectionInv /\ RoleIsQueuedUnlessForgotten /\ OutsideInv
  BY DEF Init, SectionInv, RoleIsQueuedUnlessForgotten, Unserved, OutsideInv, Outside, Free
<1>4. AuditInv /\ CheckInv
  <2>1. audit \notin Checking
    BY DEF Init, Checking
  <2> QED
    BY <2>1 DEF Init, AuditInv, CheckInv
<1> QED
  BY <1>1, <1>2, <1>3, <1>4 DEF Inv, Types

\* The step of a critical section tells which kind of section it is.
LEMMA SectionTypes ==
  ASSUME MemoryTypes
  PROVE  /\ held.step \in {"register", "update"} => held \in Registering
         /\ held.step \in {"role", "done", "failed"} => held \in Serving
         /\ held.step = "leave" => held \in Leaving
         /\ held.step \in Steps
         /\ Free.step = "free"
<1>1. held \in Sections
  BY DEF MemoryTypes
<1>2. CASE held = Free
  BY <1>2 DEF Free, Steps
<1>3. CASE held \in Registering
  BY <1>3 DEF Registering, Free, Steps
<1>4. CASE held \in Serving
  BY <1>4 DEF Serving, Free, Steps
<1>5. CASE held \in Leaving
  BY <1>5 DEF Leaving, Free, Steps
<1>6. CASE held \in Editing
  BY <1>6 DEF Editing, Free, Steps
<1> QED
  BY <1>1, <1>2, <1>3, <1>4, <1>5, <1>6 DEF Sections

\* Every action preserves the types.
LEMMA TypeStep == Types /\ SectionInv /\ AuditInv /\ [Next]_vars => Types'
<1> SUFFICES ASSUME Types, SectionInv, AuditInv, [Next]_vars PROVE Types'
  OBVIOUS
<1> USE DEF Types
<1>0. /\ Free \in Sections /\ Free.step \in Steps
      /\ \A h \in Sections : h.step \in Steps
  BY DEF Sections, Free, Steps, Registering, Serving, Leaving, Editing
<1>1. ASSUME NEW c \in Commands, NEW u \in Users, NEW a \in Characters, NEW forced \in BOOLEAN,
             Verify(c, u, a, forced)
      PROVE  Types'
  <2>1. <<character[u], nickname[u]>>
        \in (Characters \union {NoCharacter}) \X (Names \union {NoName})
    BY DEF TypeOK
  <2>2. [user |-> u, character |-> a, name |-> name[a], forced |-> forced, target |-> target,
         generation |-> generation,
         seen |-> IF forced THEN <<character[u], nickname[u]>> ELSE <<>>] \in Verified
    BY <1>1, <2>1 DEF Verify, Verified, TypeOK
  <2>3. MemoryTypes'
    BY <1>1, <2>2 DEF Verify, MemoryTypes
  <2> QED
    BY <1>1, <2>3 DEF Verify, TypeOK
<1>2. ASSUME NEW c \in Commands, Refuse(c) PROVE Types'
  BY <1>2 DEF Refuse, TypeOK, MemoryTypes
<1>3. ASSUME NEW c \in Commands, SaveIntent(c) PROVE Types'
  <2> DEFINE r == command[c]
  <2>1. r \in Verified
    BY <1>3 DEF SaveIntent, MemoryTypes
  <2>2. r.user \in Users /\ r.character \in Characters /\ r.name \in Names /\ r.forced \in BOOLEAN
    BY <2>1 DEF Verified
  <2> HIDE DEF r
  <2>3. intent' = [intent EXCEPT ![<<r.user, r.character>>] = r.character]
    BY <1>3 DEF SaveIntent, Save, r
  <2>4. held' = [step |-> "register", by |-> "command", user |-> r.user, key |-> r.character,
                 payload |-> r.character, name |-> r.name, forced |-> r.forced]
    BY <1>3 DEF SaveIntent, r
  <2>5. held' \in Registering
    BY <2>2, <2>4 DEF Registering
  <2>6. MemoryTypes'
    BY <1>3, <2>5 DEF SaveIntent, MemoryTypes, Sections
  <2>7. intent' \in [Users \X Characters -> Characters \union {NoCharacter}]
    BY <2>2, <2>3 DEF TypeOK
  <2> QED
    BY <1>0, <1>3, <2>5, <2>6, <2>7 DEF SaveIntent, TypeOK, Sections
<1>4. CASE RegisterConflict
  <2>1. held.user \in Users /\ held.key \in Characters
    BY <1>4, SectionTypes DEF RegisterConflict, Registering
  <2>2. intent' = [intent EXCEPT ![<<held.user, held.key>>] = NoCharacter]
    BY <1>4 DEF RegisterConflict, Drop
  <2>3. intent' \in [Users \X Characters -> Characters \union {NoCharacter}]
    BY <2>1, <2>2 DEF TypeOK
  <2> QED
    BY <1>0, <1>4, <2>3 DEF RegisterConflict, TypeOK, MemoryTypes
<1>5. CASE Register
  <2> DEFINE kept == AlreadyRegistered(held.user)
  <2>1. held \in Registering
    BY <1>5, SectionTypes DEF Register
  <2>2. held.user \in Users /\ held.payload \in Characters /\ held.name \in Names
    BY <2>1 DEF Registering
  <2>3. kept => character[held.user] \in Characters
    BY <2>2 DEF AlreadyRegistered, TypeOK
  <2>4. held' = [held EXCEPT !.step = "update",
                             !.payload = IF kept THEN character[held.user] ELSE held.payload]
    BY <1>5 DEF Register
  <2>5. held' \in Registering
    BY <2>1, <2>2, <2>3, <2>4 DEF Registering
  <2>6. MemoryTypes'
    BY <1>5, <2>5 DEF Register, MemoryTypes, Sections
  <2>7. CASE kept
    <3>1. held'.step \in Steps
      BY <1>0, <2>5 DEF Sections
    <3>2. UNCHANGED rows
      BY <1>5, <2>7 DEF Register
    <3> QED
      BY <1>5, <2>6, <3>1, <3>2 DEF Register, TypeOK
  <2>8. CASE ~kept
    <3>1. /\ character' = [character EXCEPT ![held.user] = held.payload]
          /\ nickname' = [nickname EXCEPT ![held.user] = held.name]
          /\ active' = [active EXCEPT ![held.user] = TRUE]
          /\ revision' = [revision EXCEPT ![held.user] = @ + 1]
          /\ recent' = [recent EXCEPT ![held.user] = TRUE]
      BY <1>5, <2>8 DEF Register, NewVersion
    <3>2. target' # NoTarget /\ held.payload # NoCharacter
      BY <1>5, <2>2 DEF Register, SectionInv
    <3>3. \A u \in Users : active'[u] => character'[u] # NoCharacter /\ target' # NoTarget
      BY <2>2, <3>1, <3>2 DEF TypeOK
    <3>4. held'.step \in Steps
      BY <1>0, <2>5 DEF Sections
    <3> QED
      BY <1>5, <2>2, <3>1, <3>3, <3>4, <2>6 DEF Register, TypeOK
  <2> QED
    BY <2>6, <2>7, <2>8
<1>6. CASE UpdateIntent
  <2>1. held.user \in Users /\ held.key \in Characters /\ held.payload \in Characters
    BY <1>6, SectionTypes DEF UpdateIntent, Registering
  <2>2. intent' \in [Users \X Characters -> Characters \union {NoCharacter}]
    BY <1>6, <2>1 DEF UpdateIntent, TypeOK
  <2>3. held' \in Serving
    BY <1>6, <2>1 DEF UpdateIntent, Serving
  <2> QED
    BY <1>0, <1>6, <2>2, <2>3 DEF UpdateIntent, TypeOK, MemoryTypes, Sections
<1>7. ASSUME NEW ok \in BOOLEAN, AddRole(ok) PROVE Types'
  <2>1. held \in Serving
    BY <1>7, SectionTypes DEF AddRole
  <2>2. held.user \in Users /\ held.key \in Characters /\ held.payload \in Characters
        /\ held.by \in {"command", "reconciler"}
    BY <2>1 DEF Serving
  <2>3. held' \in Serving
    BY <1>7, <2>2 DEF AddRole, Serving
  <2>4. PICK given \in {ok, inServer[held.user]} :
               hasRole' = [hasRole EXCEPT ![held.user] = @ \/ given]
    BY <1>7 DEF AddRole
  <2>5. given \in BOOLEAN
    BY <2>2, <2>4 DEF TypeOK
  <2>6. hasRole' \in [Users -> BOOLEAN]
    BY <2>2, <2>4, <2>5 DEF TypeOK
  <2> QED
    BY <1>0, <1>7, <2>3, <2>6 DEF AddRole, TypeOK, MemoryTypes, Sections
<1>8. CASE RecordResult
  <2>1. held.user \in Users /\ held.key \in Characters /\ held.payload \in Characters
    BY <1>8, SectionTypes DEF RecordResult, Serving
  <2>2. intent' \in [Users \X Characters -> Characters \union {NoCharacter}]
    BY <1>8, <2>1 DEF RecordResult, TypeOK
  <2> QED
    BY <1>0, <1>8, <2>2 DEF RecordResult, TypeOK, MemoryTypes
<1>9. CASE ListIntents
  BY <1>9 DEF ListIntents, TypeOK, MemoryTypes
<1>10. ASSUME NEW r \in Records, Pick(r) PROVE Types'
  BY <1>10 DEF Pick, TypeOK, MemoryTypes
<1>11. ASSUME NEW r \in Records, WriteBack(r) PROVE Types'
  <2>1. r[1] \in Users /\ r[2] \in Characters /\ r[3] \in Characters
    BY DEF Records
  <2>2. intent' = [intent EXCEPT ![<<r[1], r[2]>>] = r[3]]
    BY <1>11 DEF WriteBack, Save
  <2>3. intent' \in [Users \X Characters -> Characters \union {NoCharacter}]
    BY <2>1, <2>2 DEF TypeOK
  <2> QED
    BY <1>11, <2>3 DEF WriteBack, TypeOK, MemoryTypes
<1>12. CASE Reconcile
  <2>1. picked \in Records
    BY <1>12 DEF Reconcile, TypeOK
  <2>2. picked[1] \in Users /\ picked[2] \in Characters /\ picked[3] \in Characters
    BY <2>1 DEF Records
  <2>3. CASE Obsolete(picked)
    <3>1. intent' = [intent EXCEPT ![<<picked[1], picked[2]>>] = NoCharacter]
      BY <1>12, <2>3 DEF Reconcile, Drop
    <3>2. intent' \in [Users \X Characters -> Characters \union {NoCharacter}]
      BY <2>2, <3>1 DEF TypeOK
    <3> QED
      BY <1>12, <2>3, <3>2 DEF Reconcile, TypeOK, MemoryTypes
  <2>4. CASE ~Obsolete(picked)
    <3>1. held' \in Serving
      BY <1>12, <2>2, <2>4 DEF Reconcile, Serving
    <3> QED
      BY <1>0, <1>12, <2>4, <3>1 DEF Reconcile, TypeOK, MemoryTypes, Sections
  <2> QED
    BY <2>3, <2>4
<1>13. CASE AuditBegin
  <2>1. audit' \in Begun
    BY <1>13 DEF AuditBegin, TypeOK, Begun
  <2> QED
    BY <1>13, <2>1 DEF AuditBegin, TypeOK, MemoryTypes
<1>14. CASE AuditSnapshot
  <2>1. audit \in Begun
    BY <1>14 DEF AuditSnapshot, MemoryTypes, Checking
  <2>2. audit' \in Checking
    BY <1>14, <2>1 DEF AuditSnapshot, TypeOK, Begun, Checking
  <2>3. check' \in [Users -> {NoCheck} \union Checks]
    <3>1. ASSUME NEW u \in Users, active[u]
          PROVE  [revision |-> revision[u], character |-> character[u], answers |-> 0] \in Checks
      BY <3>1 DEF TypeOK, Checks
    <3> QED
      BY <1>14, <3>1 DEF AuditSnapshot
  <2> QED
    BY <1>14, <2>2, <2>3 DEF AuditSnapshot, TypeOK, MemoryTypes
<1>15. ASSUME NEW u \in Users, Lookup(u) PROVE Types'
  <2>1. check[u] \in Checks
    BY <1>15 DEF Lookup, MemoryTypes
  <2>2. [check[u] EXCEPT !.answers = @ + 1] \in Checks
    BY <2>1 DEF Checks
  <2>3. check' \in [Users -> {NoCheck} \union Checks]
    BY <1>15, <2>2 DEF Lookup, MemoryTypes
  <2> QED
    BY <1>15, <2>3 DEF Lookup, TypeOK, MemoryTypes
<1>16. ASSUME NEW u \in Users, Depart(u) PROVE Types'
  <2>1. check' \in [Users -> {NoCheck} \union Checks]
    BY <1>16 DEF Depart, MemoryTypes
  <2>2. CASE SameConfiguration /\ SameRow(u)
    <3>1. held' \in Leaving
      BY <1>16, <2>2 DEF Depart, Leaving
    <3>2. MemoryTypes'
      BY <1>16, <2>1, <3>1 DEF Depart, MemoryTypes, Sections
    <3> QED
      <4>1. held'.step \in Steps
        BY <1>0, <3>1 DEF Sections
      <4>2. /\ active' = [active EXCEPT ![u] = FALSE]
            /\ revision' = [revision EXCEPT ![u] = @ + 1]
            /\ recent' = [recent EXCEPT ![u] = TRUE]
        BY <1>16, <2>2 DEF Depart, NewVersion
      <4> QED
        BY <1>16, <3>2, <4>1, <4>2 DEF Depart, TypeOK
  <2>3. CASE ~(SameConfiguration /\ SameRow(u))
    BY <1>16, <2>1, <2>3 DEF Depart, TypeOK, MemoryTypes
  <2> QED
    BY <2>2, <2>3
<1>17. CASE Enforce
  BY <1>0, <1>17 DEF Enforce, TypeOK, MemoryTypes
<1>18. CASE AuditEnd
  BY <1>18 DEF AuditEnd, TypeOK, MemoryTypes
<1>19. ASSUME NEW t \in Targets \union {NoTarget}, NEW l \in LeaveActions, Reconfigure(t, l)
       PROVE  Types'
  <2>1. held' \in Editing
    BY <1>19 DEF Reconfigure, Editing
  <2>2. MemoryTypes'
    BY <1>19, <2>1 DEF Reconfigure, MemoryTypes, Sections
  <2>5. held'.step \in Steps
    BY <1>0, <2>1 DEF Sections
  <2>3. CASE t = target
    BY <1>19, <2>2, <2>3, <2>5 DEF Reconfigure, TypeOK
  <2>4. CASE t # target
    <3>1. NewLedger
      BY <1>19, <2>4 DEF Reconfigure
    <3> QED
      BY <1>19, <2>2, <2>5, <3>1 DEF Reconfigure, NewLedger, TypeOK
  <2> QED
    BY <2>3, <2>4
<1>20. CASE Advance
  BY <1>0, <1>20 DEF Advance, TypeOK, MemoryTypes
<1>21. ASSUME NEW a \in Characters, NEW g \in Targets, Move(a, g) PROVE Types'
  BY <1>21 DEF Move, TypeOK, MemoryTypes
<1>22. ASSUME NEW a \in Characters, NEW n \in Names, Rename(a, n) PROVE Types'
  BY <1>22 DEF Rename, TypeOK, MemoryTypes
<1>23. ASSUME NEW u \in Users, LeaveOrJoin(u) PROVE Types'
  BY <1>23 DEF LeaveOrJoin, TypeOK, MemoryTypes
<1>24. ASSUME NEW u \in Users, BalanceChange(u) PROVE Types'
  BY <1>24 DEF BalanceChange, NewVersion, TypeOK, MemoryTypes
<1>25. ASSUME NEW u \in Users, GraceEnds(u) PROVE Types'
  BY <1>25 DEF GraceEnds, TypeOK, MemoryTypes
<1>26. CASE Crash
  BY <1>0, <1>26 DEF Crash, TypeOK, MemoryTypes
<1>27. CASE UNCHANGED vars
  BY <1>27 DEF vars, TypeOK, MemoryTypes
<1> QED
  BY <1>1, <1>2, <1>3, <1>4, <1>5, <1>6, <1>7, <1>8, <1>9, <1>10, <1>11, <1>12, <1>13, <1>14,
     <1>15, <1>16, <1>17, <1>18, <1>19, <1>20, <1>21, <1>22, <1>23, <1>24, <1>25, <1>26, <1>27
     DEF Next, Command, LockStep, Reconciler, Auditor, Environment

-----------------------------------------------------------------------------
(* The parts of the invariant                                              *)

\* What a section found stays true: only its own steps, and those of nobody
\* else, deactivate a player or change a character or the target.
LEMMA SectionStep ==
  ASSUME Types, SectionInv, [Next]_vars
  PROVE  SectionInv'
<1> USE DEF Types
<1> DEFINE Quiet == UNCHANGED <<held, target, active, character, served, intent, forgotten>>
<1>0. Quiet => SectionInv'
  BY DEF SectionInv
<1> HIDE DEF Quiet
<1>1. ASSUME held' = Free PROVE SectionInv'
  BY <1>1 DEF SectionInv, Free
<1>2. ASSUME NEW c \in Commands, SaveIntent(c) PROVE SectionInv'
  <2> DEFINE r == command[c]
  <2>1. r \in Verified
    BY <1>2 DEF SaveIntent, MemoryTypes
  <2>2. r.user \in Users /\ r.character \in Characters /\ r.target # NoTarget
    BY <2>1 DEF Verified
  <2>3. target # NoTarget /\ target' = target
    BY <1>2, <2>2 DEF SaveIntent, StillValid
  <2> HIDE DEF r
  <2>4. intent' = [intent EXCEPT ![<<r.user, r.character>>] = r.character]
    BY <1>2 DEF SaveIntent, Save, r
  <2>5. intent'[<<r.user, r.character>>] = r.character
    BY <2>2, <2>4 DEF TypeOK
  <2>6. held' = [step |-> "register", by |-> "command", user |-> r.user, key |-> r.character,
                 payload |-> r.character, name |-> r.name, forced |-> r.forced]
    BY <1>2 DEF SaveIntent, r
  <2> QED
    BY <2>3, <2>5, <2>6 DEF SectionInv
<1>3. CASE Register
  <2> DEFINE kept == AlreadyRegistered(held.user)
  <2>1. held \in Registering
    BY <1>3, SectionTypes DEF Register
  <2>2. held.user \in Users
    BY <2>1 DEF Registering
  <2>3. held' = [held EXCEPT !.step = "update",
                             !.payload = IF kept THEN character[held.user] ELSE held.payload]
    BY <1>3 DEF Register
  <2>4. held'.step = "update" /\ held'.user = held.user
        /\ held'.payload = IF kept THEN character[held.user] ELSE held.payload
    BY <2>1, <2>3 DEF Registering
  <2>5. CASE kept
    <3>1. active[held.user] /\ UNCHANGED rows
      BY <1>3, <2>5 DEF Register, AlreadyRegistered
    <3> QED
      BY <2>4, <2>5, <3>1 DEF SectionInv
  <2>6. CASE ~kept
    <3>1. /\ character' = [character EXCEPT ![held.user] = held.payload]
          /\ active' = [active EXCEPT ![held.user] = TRUE]
      BY <1>3, <2>6 DEF Register
    <3>2. character'[held.user] = held.payload /\ active'[held.user]
      BY <2>2, <3>1 DEF TypeOK
    <3> QED
      BY <2>4, <2>6, <3>2 DEF SectionInv
  <2> QED
    BY <2>5, <2>6
<1>4. CASE UpdateIntent
  BY <1>4 DEF UpdateIntent, SectionInv
<1>5. ASSUME NEW ok \in BOOLEAN, AddRole(ok) PROVE SectionInv'
  <2>1. held' = [step |-> IF ok THEN "done" ELSE "failed", by |-> held.by,
                 user |-> held.user, key |-> held.key, payload |-> held.payload]
    BY <1>5 DEF AddRole
  <2>2. active'[held'.user] /\ character'[held'.user] = held'.payload
    BY <1>5, <2>1 DEF AddRole, SectionInv
  <2>3. ok => held'.user \in served'
    BY <1>5, <2>1 DEF AddRole
  <2> QED
    BY <2>1, <2>2, <2>3 DEF SectionInv
<1>6. ASSUME NEW r \in Records, WriteBack(r) PROVE SectionInv'
  <2>1. UNCHANGED <<held, target, active, character, served>>
    BY <1>6 DEF WriteBack
  <2>2. CASE held.step = "register"
    <3>1. held.user \in Users /\ held.key \in Characters /\ held.key # NoCharacter
      BY <2>2, SectionTypes DEF Registering
    <3>2. r[1] \in Users /\ r[2] \in Characters
      BY DEF Records
    <3>3. forgotten \subseteq forgotten'
      BY <1>6 DEF WriteBack, Save
    <3>4. CASE held.user \in forgotten
      BY <2>1, <2>2, <3>3, <3>4 DEF SectionInv
    <3>5. CASE intent[<<held.user, held.key>>] = held.key /\ <<r[1], r[2]>> # <<held.user, held.key>>
      <4>1. intent'[<<held.user, held.key>>] = held.key
        BY <1>6, <3>1, <3>2, <3>5 DEF WriteBack, Save, TypeOK
      <4> QED
        BY <2>1, <2>2, <4>1 DEF SectionInv
    <3>6. CASE intent[<<held.user, held.key>>] = held.key /\ <<r[1], r[2]>> = <<held.user, held.key>>
      <4>1. intent'[<<held.user, held.key>>] = r[3]
        BY <1>6, <3>1, <3>6 DEF WriteBack, Save, TypeOK
      <4>2. r[3] = held.key \/ held.user \in forgotten'
        BY <1>6, <3>1, <3>6 DEF WriteBack, Save
      <4> QED
        BY <2>1, <2>2, <4>1, <4>2 DEF SectionInv
    <3> QED
      BY <2>2, <3>4, <3>5, <3>6 DEF SectionInv
  <2>3. CASE held.step # "register"
    BY <2>1, <2>3 DEF SectionInv
  <2> QED
    BY <2>2, <2>3
<1>7. CASE Reconcile
  <2>1. CASE Obsolete(picked)
    <3>1. UNCHANGED <<held, target, active, character, served>> /\ held = Free
      BY <1>7, <2>1 DEF Reconcile
    <3> QED
      BY <1>1, <3>1
  <2>2. CASE ~Obsolete(picked)
    <3>1. active[picked[1]] /\ picked[3] = character[picked[1]]
      BY <2>2 DEF Obsolete
    <3>2. held' = [step |-> "role", by |-> "reconciler", user |-> picked[1], key |-> picked[2],
                   payload |-> picked[3]]
      BY <1>7, <2>2 DEF Reconcile
    <3> QED
      BY <1>7, <3>1, <3>2 DEF Reconcile, SectionInv
  <2> QED
    BY <2>1, <2>2
<1>8. ASSUME NEW u \in Users, Depart(u) PROVE SectionInv'
  <2>1. CASE SameConfiguration /\ SameRow(u)
    <3>1. held' = [step |-> "leave", by |-> "audit", user |-> u]
      BY <1>8, <2>1 DEF Depart
    <3> QED
      BY <3>1 DEF SectionInv
  <2>2. CASE ~(SameConfiguration /\ SameRow(u))
    <3>1. held' = Free
      BY <1>8, <2>2 DEF Depart
    <3> QED
      BY <1>1, <3>1
  <2> QED
    BY <2>1, <2>2
<1>9. ASSUME NEW t \in Targets \union {NoTarget}, NEW l \in LeaveActions, Reconfigure(t, l)
      PROVE  SectionInv'
  BY <1>9 DEF Reconfigure, SectionInv
<1>10. CASE UNCHANGED vars
  BY <1>0, <1>10 DEF vars, Quiet
<1>11. CASE RegisterConflict \/ RecordResult \/ Enforce \/ Advance \/ Crash
  BY <1>1, <1>11 DEF RegisterConflict, RecordResult, Enforce, Advance, Crash
<1>12. ASSUME NEW c \in Commands, Refuse(c) \/ \E u \in Users, a \in Characters, forced \in BOOLEAN :
                                                     Verify(c, u, a, forced)
       PROVE  SectionInv'
  BY <1>0, <1>12 DEF Refuse, Verify, Quiet
<1>13. CASE ListIntents \/ \E r \in Records : Pick(r)
  BY <1>0, <1>13 DEF ListIntents, Pick, Quiet
<1>14. CASE AuditBegin \/ AuditSnapshot \/ AuditEnd \/ \E u \in Users : Lookup(u)
  BY <1>0, <1>14 DEF AuditBegin, AuditSnapshot, AuditEnd, Lookup, Quiet
<1>15. ASSUME NEW a \in Characters,
              (\E g \in Targets : Move(a, g)) \/ (\E n \in Names : Rename(a, n))
       PROVE  SectionInv'
  BY <1>0, <1>15 DEF Move, Rename, Quiet
<1>16. ASSUME NEW u \in Users, LeaveOrJoin(u) \/ BalanceChange(u) \/ GraceEnds(u)
       PROVE  SectionInv'
  BY <1>0, <1>16 DEF LeaveOrJoin, BalanceChange, GraceEnds, Quiet
<1> QED
  BY <1>2, <1>3, <1>4, <1>5, <1>6, <1>7, <1>8, <1>9, <1>10, <1>11, <1>12, <1>13, <1>14, <1>15,
     <1>16 DEF Next, Command, LockStep, Reconciler, Auditor, Environment

\* One intent changes: the queue is complete for everybody whose own intent did
\* not change, and for its owner when the owner lost none that was needed.
LEMMA QueueKept ==
  ASSUME Types, RoleIsQueuedUnlessForgotten,
         NEW k \in Users \X Characters, NEW x,
         intent' = [intent EXCEPT ![k] = x],
         UNCHANGED <<active, character, served>>,
         forgotten \ {k[1]} \subseteq forgotten',
         \/ k[1] \in forgotten' \/ ~Unserved(k[1])
         \/ x = character[k[1]]
         \/ k[1] \notin forgotten /\ (intent[k] # character[k[1]])
  PROVE  RoleIsQueuedUnlessForgotten'
<1> SUFFICES ASSUME NEW u \in Users, u \notin forgotten', active[u], u \notin served
             PROVE  \E a \in Characters : intent'[<<u, a>>] = character[u]
  BY DEF RoleIsQueuedUnlessForgotten, Unserved
<1>1. k[1] \in Users /\ k[2] \in Characters /\ k = <<k[1], k[2]>>
  OBVIOUS
<1>2. CASE u # k[1]
  <2>1. PICK a \in Characters : intent[<<u, a>>] = character[u]
    BY <1>2 DEF RoleIsQueuedUnlessForgotten, Unserved
  <2>2. <<u, a>> # k /\ <<u, a>> \in Users \X Characters
    BY <1>2
  <2>3. intent'[<<u, a>>] = character[u]
    BY <2>1, <2>2 DEF Types, TypeOK
  <2> QED
    BY <2>3
<1>3. CASE u = k[1] /\ x = character[u]
  <2>1. intent'[k] = character[u]
    BY <1>3 DEF Types, TypeOK
  <2>2. intent'[<<u, k[2]>>] = character[u]
    BY <1>1, <1>3, <2>1
  <2> QED
    BY <1>1, <2>2
<1>4. CASE u = k[1] /\ u \notin forgotten /\ intent[k] # character[u]
  <2>1. PICK a \in Characters : intent[<<u, a>>] = character[u]
    BY <1>4 DEF RoleIsQueuedUnlessForgotten, Unserved
  <2>2. <<u, a>> # k /\ <<u, a>> \in Users \X Characters
    BY <1>4, <2>1
  <2>3. intent'[<<u, a>>] = character[u]
    BY <2>1, <2>2 DEF Types, TypeOK
  <2> QED
    BY <2>3
<1> QED
  BY <1>2, <1>3, <1>4 DEF Unserved

\* A live intent that a save replaces, or a delete removes, is remembered.
LEMMA QueueSaved ==
  ASSUME Types, RoleIsQueuedUnlessForgotten, NEW k \in Users \X Characters, NEW x,
         Save(k, x) \/ (Drop(k) /\ x = NoCharacter), UNCHANGED <<active, character, served>>
  PROVE  RoleIsQueuedUnlessForgotten'
<1>1. k[1] \in Users
  OBVIOUS
<1>2. active[k[1]] => character[k[1]] # NoCharacter
  BY <1>1 DEF Types, TypeOK
<1>3. intent' = [intent EXCEPT ![k] = x] /\ forgotten \subseteq forgotten'
  BY DEF Save, Drop
<1>4. CASE Save(k, x)
  <2>1. k[1] \in forgotten' \/ intent[k] \in {NoCharacter, x}
    BY <1>4 DEF Save
  <2>2. \/ k[1] \in forgotten' \/ ~Unserved(k[1]) \/ x = character[k[1]]
        \/ k[1] \notin forgotten /\ intent[k] # character[k[1]]
    BY <1>2, <1>3, <2>1 DEF Unserved
  <2> QED
    BY <1>3, <2>2, QueueKept
<1>5. CASE Drop(k)
  <2>1. \/ k[1] \in forgotten' \/ ~Unserved(k[1]) \/ x = character[k[1]]
        \/ k[1] \notin forgotten /\ intent[k] # character[k[1]]
    BY <1>3, <1>5 DEF Drop, Unserved
  <2> QED
    BY <1>3, <2>1, QueueKept
<1> QED
  BY <1>4, <1>5

\* Every action preserves the queue.
LEMMA QueueStep ==
  ASSUME Types, SectionInv, RoleIsQueuedUnlessForgotten, [Next]_vars
  PROVE  RoleIsQueuedUnlessForgotten'
<1> DEFINE Quiet == UNCHANGED <<active, character, served, intent, forgotten>>
<1>0. Quiet => RoleIsQueuedUnlessForgotten'
  BY DEF RoleIsQueuedUnlessForgotten, Unserved
<1> HIDE DEF Quiet
<1>1. ASSUME NEW c \in Commands, SaveIntent(c) PROVE RoleIsQueuedUnlessForgotten'
  <2> DEFINE r == command[c]
  <2>1. r \in Verified
    BY <1>1 DEF SaveIntent, Types, MemoryTypes
  <2>2. <<r.user, r.character>> \in Users \X Characters
    BY <2>1 DEF Verified
  <2>3. Save(<<r.user, r.character>>, r.character) /\ UNCHANGED <<active, character, served>>
    BY <1>1 DEF SaveIntent
  <2> QED
    BY <2>2, <2>3, QueueSaved
<1>2. CASE RegisterConflict
  <2>1. <<held.user, held.key>> \in Users \X Characters
    BY <1>2, SectionTypes DEF RegisterConflict, Registering, Types
  <2>2. Drop(<<held.user, held.key>>) /\ UNCHANGED <<active, character, served>>
    BY <1>2 DEF RegisterConflict
  <2> QED
    BY <2>1, <2>2, QueueSaved
<1>3. CASE Register
  <2>1. held.user \in Users /\ held.key \in Characters /\ held.payload \in Characters
    BY <1>3, SectionTypes DEF Register, Registering, Types
  <2>2. UNCHANGED <<intent, forgotten>>
    BY <1>3 DEF Register
  <2>3. CASE AlreadyRegistered(held.user)
    BY <1>0, <1>3, <2>2, <2>3 DEF Register, Quiet
  <2>4. CASE ~AlreadyRegistered(held.user)
    <3>1. /\ character' = [character EXCEPT ![held.user] = held.payload]
          /\ active' = [active EXCEPT ![held.user] = TRUE]
          /\ served' = served \ {held.user}
      BY <1>3, <2>4 DEF Register
    <3> SUFFICES ASSUME NEW u \in Users, u \notin forgotten, active'[u], u \notin served'
                 PROVE  \E a \in Characters : intent[<<u, a>>] = character'[u]
      BY <2>2 DEF RoleIsQueuedUnlessForgotten, Unserved
    <3>2. CASE u = held.user
      <4>1. character'[u] = held.payload
        BY <2>1, <3>1, <3>2 DEF Types, TypeOK
      <4>2. intent[<<u, held.key>>] = held.payload
        BY <1>3, <3>2 DEF Register, SectionInv
      <4> QED
        BY <2>1, <4>1, <4>2
    <3>3. CASE u # held.user
      BY <3>1, <3>3 DEF Types, TypeOK, RoleIsQueuedUnlessForgotten, Unserved
    <3> QED
      BY <3>2, <3>3
  <2> QED
    BY <2>3, <2>4
<1>4. CASE UpdateIntent
  <2> DEFINE k == <<held.user, held.key>>
  <2>1. k \in Users \X Characters
    BY <1>4, SectionTypes DEF UpdateIntent, Registering, Types
  <2>2. held.payload = character[k[1]] /\ k[1] = held.user
    BY <1>4 DEF UpdateIntent, SectionInv
  <2>3. intent' = [intent EXCEPT ![k] = held.payload] /\ UNCHANGED <<active, character, served>>
        /\ forgotten' = forgotten \ {k[1]}
    BY <1>4 DEF UpdateIntent
  <2> HIDE DEF k
  <2> QED
    BY <2>1, <2>2, <2>3, QueueKept
<1>5. ASSUME NEW ok \in BOOLEAN, AddRole(ok) PROVE RoleIsQueuedUnlessForgotten'
  <2>1. UNCHANGED <<active, character, intent, forgotten>> /\ served \subseteq served'
    BY <1>5 DEF AddRole
  <2> QED
    BY <2>1 DEF RoleIsQueuedUnlessForgotten, Unserved
<1>6. CASE RecordResult
  <2> DEFINE k == <<held.user, held.key>>
             x == IF held.step = "done" THEN NoCharacter ELSE held.payload
  <2>1. k \in Users \X Characters
    BY <1>6, SectionTypes DEF RecordResult, Serving, Types
  <2>2. k[1] = held.user
    OBVIOUS
  <2>3. intent' = [intent EXCEPT ![k] = x] /\ UNCHANGED <<active, character, served, forgotten>>
    BY <1>6 DEF RecordResult
  <2>4. ~Unserved(k[1]) \/ x = character[k[1]]
    BY <1>6, <2>2 DEF RecordResult, SectionInv, Unserved
  <2> HIDE DEF k, x
  <2> QED
    BY <2>1, <2>3, <2>4, QueueKept
<1>7. ASSUME NEW r \in Records, WriteBack(r) PROVE RoleIsQueuedUnlessForgotten'
  <2>1. <<r[1], r[2]>> \in Users \X Characters
    BY DEF Records
  <2>2. Save(<<r[1], r[2]>>, r[3]) /\ UNCHANGED <<active, character, served>>
    BY <1>7 DEF WriteBack
  <2> QED
    BY <2>1, <2>2, QueueSaved
<1>8. CASE Reconcile
  <2>1. picked \in Records
    BY <1>8 DEF Reconcile, Types, TypeOK
  <2>2. <<picked[1], picked[2]>> \in Users \X Characters
    BY <2>1 DEF Records
  <2>3. CASE Obsolete(picked)
    <3>1. Drop(<<picked[1], picked[2]>>) /\ UNCHANGED <<active, character, served>>
      BY <1>8, <2>3 DEF Reconcile
    <3> QED
      BY <2>2, <3>1, QueueSaved
  <2>4. CASE ~Obsolete(picked)
    BY <1>0, <1>8, <2>4 DEF Reconcile, Quiet
  <2> QED
    BY <2>3, <2>4
<1>9. ASSUME NEW u \in Users, Depart(u) PROVE RoleIsQueuedUnlessForgotten'
  <2>1. UNCHANGED <<character, served, intent, forgotten>>
        /\ (active' = active \/ active' = [active EXCEPT ![u] = FALSE])
    BY <1>9 DEF Depart
  <2>2. \A v \in Users : active'[v] => active[v]
    BY <2>1 DEF Types, TypeOK
  <2> QED
    BY <2>1, <2>2 DEF RoleIsQueuedUnlessForgotten, Unserved
<1>10. ASSUME NEW t \in Targets \union {NoTarget}, NEW l \in LeaveActions, Reconfigure(t, l)
       PROVE  RoleIsQueuedUnlessForgotten'
  <2>1. CASE t = target
    BY <1>0, <1>10, <2>1 DEF Reconfigure, Quiet
  <2>2. CASE t # target
    <3>1. \A u \in Users : ~active'[u]
      BY <1>10, <2>2 DEF Reconfigure, NewLedger
    <3> QED
      BY <3>1 DEF RoleIsQueuedUnlessForgotten, Unserved
  <2> QED
    BY <2>1, <2>2
<1>11. CASE UNCHANGED vars
  BY <1>0, <1>11 DEF vars, Quiet
<1>12. CASE Enforce \/ Advance \/ Crash
  BY <1>0, <1>12 DEF Enforce, Advance, Crash, Quiet
<1>13. ASSUME NEW c \in Commands, Refuse(c) \/ \E u \in Users, a \in Characters, forced \in BOOLEAN :
                                                     Verify(c, u, a, forced)
       PROVE  RoleIsQueuedUnlessForgotten'
  BY <1>0, <1>13 DEF Refuse, Verify, Quiet
<1>14. CASE ListIntents \/ \E r \in Records : Pick(r)
  BY <1>0, <1>14 DEF ListIntents, Pick, Quiet
<1>15. CASE AuditBegin \/ AuditSnapshot \/ AuditEnd \/ \E u \in Users : Lookup(u)
  BY <1>0, <1>15 DEF AuditBegin, AuditSnapshot, AuditEnd, Lookup, Quiet
<1>16. ASSUME NEW a \in Characters,
              (\E g \in Targets : Move(a, g)) \/ (\E n \in Names : Rename(a, n))
       PROVE  RoleIsQueuedUnlessForgotten'
  BY <1>0, <1>16 DEF Move, Rename, Quiet
<1>17. ASSUME NEW u \in Users, LeaveOrJoin(u) \/ BalanceChange(u) \/ GraceEnds(u)
       PROVE  RoleIsQueuedUnlessForgotten'
  BY <1>0, <1>17 DEF LeaveOrJoin, BalanceChange, GraceEnds, Quiet
<1> QED
  BY <1>1, <1>2, <1>3, <1>4, <1>5, <1>6, <1>7, <1>8, <1>9, <1>10, <1>11, <1>12, <1>13, <1>14,
     <1>15, <1>16, <1>17 DEF Next, Command, LockStep, Reconciler, Auditor, Environment

\* Whoever leaves the target guild, or is registered or paid outside of it, is
\* remembered.
LEMMA OutsideStep ==
  ASSUME Types, OutsideInv, [Next]_vars
  PROVE  OutsideInv'
<1> DEFINE Quiet == UNCHANGED <<guild, target, character, outside>>
<1>0. Quiet => OutsideInv'
  BY DEF OutsideInv, Outside
<1> HIDE DEF Quiet
<1>1. CASE Register
  <2>1. held.user \in Users
    BY <1>1, SectionTypes DEF Register, Registering, Types
  <2>2. CASE AlreadyRegistered(held.user)
    BY <1>0, <1>1, <2>2 DEF Register, Quiet
  <2>3. CASE ~AlreadyRegistered(held.user)
    <3>1. /\ character' = [character EXCEPT ![held.user] = held.payload]
          /\ outside' = IF guild[held.payload] # target THEN outside \union {held.user}
                        ELSE outside \ {held.user}
          /\ UNCHANGED <<guild, target>>
      BY <1>1, <2>3 DEF Register
    <3> QED
      BY <2>1, <3>1 DEF OutsideInv, Outside, Types, TypeOK
  <2> QED
    BY <2>2, <2>3
<1>2. ASSUME NEW u \in Users, BalanceChange(u) PROVE OutsideInv'
  BY <1>2 DEF BalanceChange, OutsideInv, Outside
<1>3. ASSUME NEW a \in Characters, NEW g \in Targets, Move(a, g) PROVE OutsideInv'
  <2> SUFFICES ASSUME NEW u \in Users, Outside(u)' PROVE u \in outside'
    BY DEF OutsideInv
  <2>1. /\ guild' = [guild EXCEPT ![a] = g] /\ UNCHANGED <<target, character>>
        /\ outside' = outside \union {v \in Users : character[v] = a /\ g # target}
    BY <1>3 DEF Move
  <2>2. character[u] \in Characters
    BY <2>1 DEF Outside, Types, TypeOK
  <2>3. CASE character[u] = a
    <3>1. g # target
      BY <2>1, <2>2, <2>3 DEF Outside, Types, TypeOK
    <3> QED
      BY <2>1, <2>3, <3>1
  <2>4. CASE character[u] # a
    <3>1. Outside(u)
      BY <2>1, <2>2, <2>4 DEF Outside, Types, TypeOK
    <3> QED
      BY <2>1, <3>1 DEF OutsideInv
  <2> QED
    BY <2>3, <2>4
<1>4. ASSUME NEW t \in Targets \union {NoTarget}, NEW l \in LeaveActions, Reconfigure(t, l)
      PROVE  OutsideInv'
  <2>1. CASE t = target
    BY <1>0, <1>4, <2>1 DEF Reconfigure, Quiet
  <2>2. CASE t # target
    <3>1. \A u \in Users : character'[u] = NoCharacter
      BY <1>4, <2>2 DEF Reconfigure, NewLedger
    <3> QED
      BY <3>1 DEF OutsideInv, Outside
  <2> QED
    BY <2>1, <2>2
<1>5. CASE UNCHANGED vars
  BY <1>0, <1>5 DEF vars, Quiet
<1>6. ASSUME NEW c \in Commands, Command(c) PROVE OutsideInv'
  BY <1>0, <1>6 DEF Command, Verify, Refuse, SaveIntent, Quiet
<1>7. CASE RegisterConflict \/ UpdateIntent \/ RecordResult \/ Enforce \/ Advance \/ Crash
           \/ \E ok \in BOOLEAN : AddRole(ok)
  BY <1>0, <1>7 DEF RegisterConflict, UpdateIntent, RecordResult, Enforce, Advance, Crash,
                    AddRole, Quiet
<1>8. CASE Reconciler
  BY <1>0, <1>8 DEF Reconciler, ListIntents, Pick, WriteBack, Reconcile, Quiet
<1>9. CASE Auditor
  BY <1>0, <1>9 DEF Auditor, AuditBegin, AuditSnapshot, AuditEnd, Lookup, Depart, Quiet
<1>10. ASSUME NEW a \in Characters, NEW n \in Names, Rename(a, n) PROVE OutsideInv'
  BY <1>0, <1>10 DEF Rename, Quiet
<1>11. ASSUME NEW u \in Users, LeaveOrJoin(u) \/ GraceEnds(u) PROVE OutsideInv'
  BY <1>0, <1>11 DEF LeaveOrJoin, GraceEnds, Quiet
<1> QED
  BY <1>1, <1>2, <1>3, <1>4, <1>5, <1>6, <1>7, <1>8, <1>9, <1>10, <1>11
     DEF Next, LockStep, Environment

\* The lifecycle generation only grows, or is lost together with the audit.
LEMMA AuditStep ==
  ASSUME Types, AuditInv, [Next]_vars
  PROVE  AuditInv'
<1> DEFINE Quiet == UNCHANGED <<audit, check, generation>>
<1>0. Quiet => AuditInv'
  BY DEF AuditInv
<1> HIDE DEF Quiet
<1>n. NoAudit \notin Checking
  BY DEF Checking
<1>1. CASE AuditBegin
  <2>1. audit' \notin Checking /\ check' = check
    BY <1>1 DEF AuditBegin, Checking
  <2>2. \A u \in Users : check[u] = NoCheck
    BY <1>1, <1>n DEF AuditBegin, AuditInv
  <2> QED
    BY <2>1, <2>2 DEF AuditInv
<1>2. CASE AuditSnapshot
  <2>1. audit \in Begun
    BY <1>2 DEF AuditSnapshot, Types, MemoryTypes, Checking
  <2>2. audit' \in Checking /\ audit'.generation = generation /\ generation' = generation
    BY <1>2, <2>1 DEF AuditSnapshot, Types, TypeOK, Begun, Checking
  <2> QED
    BY <2>2 DEF AuditInv, Types, TypeOK
<1>3. ASSUME NEW u \in Users, Lookup(u) \/ Depart(u) PROVE AuditInv'
  <2>1. UNCHANGED <<audit, generation>> /\ check[u] # NoCheck
    BY <1>3 DEF Lookup, Depart
  <2>2. audit \in Checking
    BY <2>1 DEF AuditInv
  <2> QED
    BY <2>1, <2>2 DEF AuditInv
<1>4. CASE AuditEnd \/ Crash
  <2>1. audit' = NoAudit /\ \A u \in Users : check'[u] = NoCheck
    BY <1>4 DEF AuditEnd, Crash
  <2> QED
    BY <1>n, <2>1 DEF AuditInv
<1>5. CASE Advance
  <2>1. generation' = generation + 1 /\ UNCHANGED <<audit, check>>
    BY <1>5 DEF Advance
  <2>2. audit \in Checking => audit.generation \in Nat
    BY DEF Checking
  <2> QED
    BY <2>1, <2>2 DEF AuditInv, Types, TypeOK
<1>6. CASE UNCHANGED vars
  BY <1>0, <1>6 DEF vars, Quiet
<1>7. ASSUME NEW c \in Commands, Command(c) PROVE AuditInv'
  BY <1>0, <1>7 DEF Command, Verify, Refuse, SaveIntent, Quiet
<1>8. CASE RegisterConflict \/ Register \/ UpdateIntent \/ RecordResult \/ Enforce
           \/ \E ok \in BOOLEAN : AddRole(ok)
  BY <1>0, <1>8 DEF RegisterConflict, Register, UpdateIntent, RecordResult, Enforce, AddRole, Quiet
<1>9. CASE Reconciler
  BY <1>0, <1>9 DEF Reconciler, ListIntents, Pick, WriteBack, Reconcile, Quiet
<1>10. ASSUME NEW t \in Targets \union {NoTarget}, NEW l \in LeaveActions, Reconfigure(t, l)
       PROVE  AuditInv'
  BY <1>0, <1>10 DEF Reconfigure, Quiet
<1>11. ASSUME NEW a \in Characters,
              (\E g \in Targets : Move(a, g)) \/ (\E n \in Names : Rename(a, n))
       PROVE  AuditInv'
  BY <1>0, <1>11 DEF Move, Rename, Quiet
<1>12. ASSUME NEW u \in Users, LeaveOrJoin(u) \/ BalanceChange(u) \/ GraceEnds(u)
       PROVE  AuditInv'
  BY <1>0, <1>12 DEF LeaveOrJoin, BalanceChange, GraceEnds, Quiet
<1> QED
  BY <1>1, <1>2, <1>3, <1>4, <1>5, <1>6, <1>7, <1>8, <1>9, <1>10, <1>11, <1>12
     DEF Next, LockStep, Auditor, Environment

\* A captured row: the revision never runs behind it, and while it is the
\* captured one so is the character the answers are about.
CheckOf(u) ==
    /\ check[u] # NoCheck
    /\ audit.generation = generation
    /\ held.step # "advance"
    => /\ check[u].revision <= revision[u]
       /\ check[u].revision = revision[u] =>
             /\ check[u].character = character[u]
             /\ check[u].answers > 0 /\ audit.target = target => u \in outside

\* Every action preserves what the audit captured.
LEMMA CheckStep ==
  ASSUME Types, AuditInv, OutsideInv, CheckInv, [Next]_vars
  PROVE  CheckInv'
<1> SUFFICES ASSUME NEW u \in Users PROVE CheckOf(u)'
  BY DEF CheckInv, CheckOf
<1>a. CheckOf(u)
  BY DEF CheckInv, CheckOf
<1> DEFINE Same  == UNCHANGED <<audit, generation, target, character>>
           Quiet == /\ Same
                    /\ check'[u] = check[u] /\ revision'[u] = revision[u]
                    /\ u \in outside => u \in outside'
                    /\ held'.step # "advance" => held.step # "advance"
           \* The row of u gets a version no audit has captured.
           Newer == /\ Same
                    /\ check'[u] = check[u] /\ revision'[u] = revision[u] + 1
                    /\ held'.step # "advance" => held.step # "advance"
<1>0. Quiet => CheckOf(u)'
  BY <1>a DEF CheckOf
<1>00. Newer => CheckOf(u)'
  <2> SUFFICES ASSUME Newer PROVE CheckOf(u)'
    OBVIOUS
  <2>1. check[u] # NoCheck => check[u].revision \in Nat
    BY DEF Types, MemoryTypes, Checks
  <2>2. revision[u] \in Nat
    BY DEF Types, TypeOK
  <2> QED
    BY <1>a, <2>1, <2>2 DEF CheckOf
<1>000. check'[u] = NoCheck \/ held'.step = "advance" => CheckOf(u)'
  BY DEF CheckOf
<1> HIDE DEF Quiet, Newer
<1>1. CASE Register
  <2>1. held.user \in Users /\ held'.step = "update" /\ held.step = "register"
    BY <1>1, SectionTypes DEF Register, Registering, Types
  <2>2. CASE AlreadyRegistered(held.user)
    BY <1>0, <1>1, <2>1, <2>2 DEF Register, Quiet
  <2>3. CASE ~AlreadyRegistered(held.user)
    <3>1. /\ character' = [character EXCEPT ![held.user] = held.payload]
          /\ revision' = [revision EXCEPT ![held.user] = @ + 1]
          /\ outside \ {held.user} \subseteq outside'
          /\ UNCHANGED <<audit, check, generation, target>>
      BY <1>1, <2>3 DEF Register, NewVersion
    <3>2. CASE u = held.user
      <4>1. revision'[u] = revision[u] + 1
        BY <3>1, <3>2 DEF Types, TypeOK
      <4>2. check[u] # NoCheck => check[u].revision \in Nat
        BY DEF Types, MemoryTypes, Checks
      <4>3. revision[u] \in Nat
        BY DEF Types, TypeOK
      <4> QED
        BY <1>a, <2>1, <3>1, <4>1, <4>2, <4>3 DEF CheckOf
    <3>3. CASE u # held.user
      <4>1. character'[u] = character[u] /\ revision'[u] = revision[u]
        BY <3>1, <3>3 DEF Types, TypeOK
      <4> QED
        BY <1>a, <2>1, <3>1, <3>3, <4>1 DEF CheckOf
    <3> QED
      BY <3>2, <3>3
  <2> QED
    BY <2>2, <2>3
<1>2. CASE AuditBegin
  <2>1. check'[u] = NoCheck
    BY <1>2 DEF AuditBegin, AuditInv, Checking
  <2> QED
    BY <1>000, <2>1
<1>3. CASE AuditSnapshot
  <2>1. check'[u] = IF active[u] /\ ~recent[u]
                    THEN [revision |-> revision[u], character |-> character[u], answers |-> 0]
                    ELSE NoCheck
    BY <1>3 DEF AuditSnapshot
  <2>2. CASE check'[u] = NoCheck
    BY <1>000, <2>2
  <2>3. CASE check'[u] # NoCheck
    <3>1. check'[u] = [revision |-> revision[u], character |-> character[u], answers |-> 0]
      BY <2>1, <2>3
    <3>2. check'[u].revision = revision[u] /\ check'[u].character = character[u]
          /\ check'[u].answers = 0
      BY <3>1
    <3>3. UNCHANGED <<revision, character>> /\ revision[u] \in Nat
      BY <1>3 DEF AuditSnapshot, Types, TypeOK
    <3> QED
      BY <3>2, <3>3 DEF CheckOf
  <2> QED
    BY <2>2, <2>3
<1>4. ASSUME NEW v \in Users, Lookup(v) PROVE CheckOf(u)'
  <2>1. Same /\ UNCHANGED <<guild, revision, outside, held>>
    BY <1>4 DEF Lookup
  <2>2. CASE u # v
    <3>1. check'[u] = check[u]
      BY <1>4, <2>2 DEF Lookup, Types, MemoryTypes
    <3> QED
      BY <1>0, <2>1, <3>1 DEF Quiet
  <2>3. CASE u = v /\ check' = [check EXCEPT ![u] = NoCheck]
    BY <1>000, <2>3 DEF Types, MemoryTypes
  <2>4. CASE /\ u = v /\ guild[check[u].character] # audit.target
             /\ check' = [check EXCEPT ![u].answers = @ + 1]
    <3>1. check[u] \in Checks
      BY <1>4, <2>4 DEF Lookup, Types, MemoryTypes
    <3>2. check'[u] = [check[u] EXCEPT !.answers = @ + 1]
      BY <2>4 DEF Types, MemoryTypes
    <3>3. check'[u].revision = check[u].revision /\ check'[u].character = check[u].character
      BY <3>1, <3>2 DEF Checks
    <3>4. check[u].character = character[u] /\ audit.target = target => u \in outside
      BY <2>4, <3>1 DEF OutsideInv, Outside, Checks
    <3>5. /\ check[u] # NoCheck /\ UNCHANGED <<audit, generation, revision, character, target,
                                              outside, held>>
      BY <1>4, <2>1, <2>4 DEF Lookup
    <3> QED
      BY <1>a, <3>3, <3>4, <3>5 DEF CheckOf
  <2> QED
    BY <1>4, <2>2, <2>3, <2>4 DEF Lookup
<1>5. ASSUME NEW v \in Users, Depart(v) PROVE CheckOf(u)'
  <2>1. Same /\ UNCHANGED outside /\ held = Free
    BY <1>5 DEF Depart
  <2>2. CASE u = v
    BY <1>000, <1>5, <2>2 DEF Depart, Types, MemoryTypes
  <2>3. CASE u # v
    <3>1. check'[u] = check[u] /\ revision'[u] = revision[u]
      BY <1>5, <2>3 DEF Depart, NewVersion, Types, TypeOK, MemoryTypes
    <3> QED
      BY <1>0, <2>1, <3>1 DEF Quiet, Free
  <2> QED
    BY <2>2, <2>3
<1>6. ASSUME NEW v \in Users, BalanceChange(v) PROVE CheckOf(u)'
  <2>1. Same /\ UNCHANGED <<held, check>> /\ revision' = [revision EXCEPT ![v] = @ + 1]
        /\ (outside' = outside \union {v} \/ outside' = outside \ {v})
    BY <1>6 DEF BalanceChange, NewVersion
  <2>2. CASE u = v
    <3>1. revision'[u] = revision[u] + 1
      BY <2>1, <2>2 DEF Types, TypeOK
    <3> QED
      BY <1>00, <2>1, <3>1 DEF Newer
  <2>3. CASE u # v
    <3>1. revision'[u] = revision[u]
      BY <2>1, <2>3 DEF Types, TypeOK
    <3> QED
      BY <1>0, <2>1, <2>3, <3>1 DEF Quiet
  <2> QED
    BY <2>2, <2>3
<1>7. ASSUME NEW t \in Targets \union {NoTarget}, NEW l \in LeaveActions, Reconfigure(t, l)
      PROVE  CheckOf(u)'
  <2>1. held'.step = "advance"
    BY <1>7 DEF Reconfigure
  <2> QED
    BY <1>000, <2>1
<1>8. CASE Advance
  <2>1. generation' = generation + 1 /\ UNCHANGED <<audit, check>>
    BY <1>8 DEF Advance
  <2>2. check[u] # NoCheck => audit.generation \in Nat /\ audit.generation <= generation
    BY DEF AuditInv, Checking
  <2>3. generation \in Nat
    BY DEF Types, TypeOK
  <2> QED
    BY <2>1, <2>2, <2>3 DEF CheckOf
<1>9. CASE AuditEnd \/ Crash
  <2>1. check'[u] = NoCheck
    BY <1>9 DEF AuditEnd, Crash
  <2> QED
    BY <1>000, <2>1
<1>10. ASSUME NEW a \in Characters, NEW g \in Targets, Move(a, g) PROVE CheckOf(u)'
  BY <1>0, <1>10 DEF Move, Quiet
<1>11. CASE UNCHANGED vars
  BY <1>0, <1>11 DEF vars, Quiet
<1>12. ASSUME NEW c \in Commands, Command(c) PROVE CheckOf(u)'
  BY <1>0, <1>12 DEF Command, Verify, Refuse, SaveIntent, Free, Quiet
<1>13. CASE RegisterConflict \/ UpdateIntent \/ RecordResult \/ Enforce
            \/ \E ok \in BOOLEAN : AddRole(ok)
  BY <1>0, <1>13 DEF RegisterConflict, UpdateIntent, RecordResult, Enforce, AddRole, Quiet
<1>14. CASE Reconciler
  <2>1. held' = held \/ held = Free
    BY <1>14 DEF Reconciler, ListIntents, Pick, WriteBack, Reconcile
  <2>2. UNCHANGED <<audit, check, generation, target, character, revision, outside>>
    BY <1>14 DEF Reconciler, ListIntents, Pick, WriteBack, Reconcile
  <2> QED
    BY <1>0, <2>1, <2>2 DEF Quiet, Free
<1>15. ASSUME NEW a \in Characters, NEW n \in Names, Rename(a, n) PROVE CheckOf(u)'
  BY <1>0, <1>15 DEF Rename, Quiet
<1>16. ASSUME NEW v \in Users, LeaveOrJoin(v) \/ GraceEnds(v) PROVE CheckOf(u)'
  BY <1>0, <1>16 DEF LeaveOrJoin, GraceEnds, Quiet
<1> QED
  BY <1>1, <1>2, <1>3, <1>4, <1>5, <1>6, <1>7, <1>8, <1>9, <1>10, <1>11, <1>12, <1>13, <1>14,
     <1>15, <1>16 DEF Next, LockStep, Auditor, Environment

-----------------------------------------------------------------------------
(* Theorems                                                                *)

\* The conjunction is inductive.
LEMMA Invariance == Spec => []Inv
<1>1. Inv /\ [Next]_vars => Inv'
  BY TypeStep, SectionStep, QueueStep, OutsideStep, AuditStep, CheckStep DEF Inv
<1> QED
  BY InitInv, <1>1, PTL DEF Spec

\* Every reachable state is well typed; an active row has a character and
\* belongs to a configured target guild.
THEOREM TypeInvariant == Spec => []TypeOK
<1>1. Inv => TypeOK
  BY DEF Inv, Types
<1> QED
  BY <1>1, Invariance, PTL

\* A member whose Member role is still owed has its repair queued, whatever
\* crashes and failures there were, unless a live intent of theirs was lost
\* (_reconcile_role_intents, register_member).
THEOREM RoleQueued == Spec => []RoleIsQueuedUnlessForgotten
<1>1. Inv => RoleIsQueuedUnlessForgotten
  BY DEF Inv
<1> QED
  BY <1>1, Invariance, PTL

\* The Member role is only given to somebody who is active at that moment,
\* however old the intent or the command is (_assign_member_role).
THEOREM RoleToActive == Spec => RoleOnlyToActive
<1>1. Inv /\ [Next]_vars => [\A u \in Users : hasRole'[u] /\ ~hasRole[u] => active[u]]_vars
  <2> SUFFICES ASSUME Inv, Next, NEW u \in Users, hasRole'[u], ~hasRole[u] PROVE active[u]
    OBVIOUS
  <2>1. ASSUME NEW ok \in BOOLEAN, AddRole(ok) PROVE active[u]
    <3>1. PICK given \in {ok, inServer[held.user]} :
                 hasRole' = [hasRole EXCEPT ![held.user] = @ \/ given]
      BY <2>1 DEF AddRole
    <3>2. u = held.user
      BY <3>1 DEF Inv, Types, TypeOK
    <3> QED
      BY <2>1, <3>2 DEF AddRole, Inv, SectionInv
  <2>2. ASSUME NEW v \in Users, LeaveOrJoin(v) PROVE FALSE
    BY <2>2 DEF LeaveOrJoin, Inv, Types, TypeOK
  <2>3. CASE Enforce
    BY <2>3 DEF Enforce, Inv, Types, TypeOK
  <2>4. CASE UNCHANGED hasRole
    BY <2>4
  <2>5. \/ UNCHANGED hasRole \/ Enforce \/ \E ok \in BOOLEAN : AddRole(ok)
        \/ \E v \in Users : LeaveOrJoin(v)
    <3>1. ASSUME NEW c \in Commands, Command(c) PROVE UNCHANGED hasRole
      BY <3>1 DEF Command, Verify, Refuse, SaveIntent
    <3>2. CASE Reconciler \/ Auditor
      BY <3>2 DEF Reconciler, Auditor, ListIntents, Pick, WriteBack, Reconcile, AuditBegin,
                  AuditSnapshot, AuditEnd, Lookup, Depart
    <3>3. CASE RegisterConflict \/ Register \/ UpdateIntent \/ RecordResult \/ Advance
      BY <3>3 DEF RegisterConflict, Register, UpdateIntent, RecordResult, Advance
    <3>4. CASE Environment
      BY <3>4 DEF Environment, Reconfigure, Move, Rename, BalanceChange, GraceEnds, Crash
    <3> QED
      BY <3>1, <3>2, <3>3, <3>4 DEF Next, LockStep
  <2> QED
    BY <2>1, <2>2, <2>3, <2>4, <2>5
<1> QED
  BY Invariance, <1>1, PTL DEF Spec, RoleOnlyToActive

\* The audit lets no old answer through: whoever it marks departed was outside
\* the guild configured now since the row's present version exists (_depart).
THEOREM Departures == Spec => DeparturesAreJustified
<1>1. Inv /\ [Next]_vars => [\A u \in Users : Departs(u) => u \in outside]_vars
  <2> SUFFICES ASSUME Inv, Next, NEW u \in Users, Departs(u) PROVE u \in outside
    OBVIOUS
  <2>1. ASSUME NEW v \in Users, Depart(v) PROVE u \in outside
    <3>1. SameConfiguration /\ SameRow(v) /\ active' = [active EXCEPT ![v] = FALSE]
      BY <2>1 DEF Depart, Departs
    <3>2. u = v
      BY <3>1 DEF Departs, Inv, Types, TypeOK
    <3>3. check[u] # NoCheck /\ check[u].answers = Confirmations /\ held.step # "advance"
      BY <2>1, <3>2 DEF Depart, Free
    <3> QED
      BY <3>1, <3>2, <3>3 DEF Inv, CheckInv, SameConfiguration, SameRow
  <2>2. CASE Register
    <3>1. held.user \in Users
      BY <2>2, SectionTypes DEF Register, Registering, Inv, Types
    <3> QED
      BY <2>2, <3>1 DEF Register, Departs, Inv, Types, TypeOK
  <2>3. ASSUME NEW t \in Targets \union {NoTarget}, NEW l \in LeaveActions, Reconfigure(t, l)
        PROVE  FALSE
    BY <2>3 DEF Reconfigure, Departs
  <2>4. \/ UNCHANGED active \/ Register \/ \E v \in Users : Depart(v)
        \/ \E t \in Targets \union {NoTarget}, l \in LeaveActions : Reconfigure(t, l)
    <3>1. ASSUME NEW c \in Commands, Command(c) PROVE UNCHANGED active
      BY <3>1 DEF Command, Verify, Refuse, SaveIntent
    <3>2. CASE Reconciler
      BY <3>2 DEF Reconciler, ListIntents, Pick, WriteBack, Reconcile
    <3>3. CASE RegisterConflict \/ UpdateIntent \/ RecordResult \/ Advance \/ Enforce
               \/ \E ok \in BOOLEAN : AddRole(ok)
      BY <3>3 DEF RegisterConflict, UpdateIntent, RecordResult, Advance, Enforce, AddRole
    <3>4. CASE Auditor
      BY <3>4 DEF Auditor, AuditBegin, AuditSnapshot, AuditEnd, Lookup
    <3>5. CASE Environment
      BY <3>5 DEF Environment, Move, Rename, LeaveOrJoin, BalanceChange, GraceEnds, Crash
    <3> QED
      BY <3>1, <3>2, <3>3, <3>4, <3>5 DEF Next, LockStep
  <2> QED
    BY <2>1, <2>2, <2>3, <2>4 DEF Departs
<1> QED
  BY Invariance, <1>1, PTL DEF Spec, DeparturesAreJustified
=============================================================================

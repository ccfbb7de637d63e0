------------------------ MODULE GuildLifecycleProofs ------------------------
(***************************************************************************)
(* Safety of setup, edit, link and removal for any number of servers,      *)
(* target guilds, wizards and credential files, and any number of edits,   *)
(* removals and restarts.                                                  *)
(***************************************************************************)
EXTENDS GuildLifecycle, TLAPS

USE GuildAssumption DEF GuildAssumption

\* The records of work in progress.
Cleaners  == {"command", "sweep"}
LinkJobs  == [step : {"write", "save", "drop", "advance"}, by : {"wizard"}, ledger : Nat,
              file : Files]
CleanJobs == [step : {"row"}, by : Cleaners, ok : {TRUE}]
             \union [step : {"file"}, by : Cleaners, file : Files]
             \union [step : {"finish"}, by : Cleaners, ok : BOOLEAN]
OpenWizards == [kind : {"setup", "link"}, server : Servers, generation : Nat, ledger : Nat,
                clicked : Targets \union {NoTarget}]

WorkTypes ==
    /\ job \in [Slots -> {NoJob} \union LinkJobs \union CleanJobs]
    /\ wizard \in [Wizards -> {NoWizard} \union OpenWizards]

\* The generation a wizard captured stands for the ledger it was opened on.
WizardInv ==
    \A w \in Wizards : wizard[w] # NoWizard =>
        /\ wizard[w].generation <= generation[wizard[w].server]
        /\ StillCurrent(w) => wizard[w].ledger = ledger[wizard[w].server]

\* What the critical section found is still so: the lock keeps others away.
LockInv ==
    \A s \in Servers :
        /\ job[Locked(s)].step \in {"write", "save"} =>
              target[s] # NoTarget /\ job[Locked(s)].ledger = ledger[s]
        /\ job[Locked(s)].step = "row" => target[s] = NoTarget

\* One thread is in the credential store, and the file it is about to delete is
\* not the one the row names.
InStore(k) == job[k].step \in {"save", "drop", "file"}
StoreInv ==
    /\ \A f \in files : f[2] <= written
    /\ \A s \in Servers : link[s] # NoLink => link[s].file[1] = s
    /\ \A j, k \in Slots : InStore(j) /\ InStore(k) => j = k
    /\ \A k \in Slots : InStore(k) =>
          /\ job[k].file[1] = k[1]
          /\ job[k].step = "save" => job[k].file \in files /\ job[k].file[2] > 0
          /\ link[k[1]] # NoLink => job[k].step # "file" /\ link[k[1]].file # job[k].file

Types == TypeOK /\ WorkTypes

LinkInv == LinkFitsLedger /\ LinkedSecretExists /\ PendingIsRetired

Inv == Types /\ TargetsAreExclusive /\ WizardInv /\ LockInv /\ StoreInv /\ LinkInv

USE DEF stored, disk, sweep

-----------------------------------------------------------------------------
(* Types                                                                   *)

\* Init establishes the invariant.
LEMMA InitInv == Init => Inv
<1> SUFFICES ASSUME Init PROVE Inv
  OBVIOUS
<1>1. TypeOK
  BY DEF Init, TypeOK, NoLink, NoDraft, Files
<1>2. WorkTypes
  BY DEF Init, WorkTypes
<1>3. TargetsAreExclusive /\ WizardInv
  BY DEF Init, TargetsAreExclusive, WizardInv
<1>4. LockInv /\ StoreInv
  BY DEF Init, LockInv, StoreInv, InStore, NoJob, Slots, Locked
<1>5. LinkInv
  BY DEF Init, LinkInv, LinkFitsLedger, LinkedSecretExists, PendingIsRetired, NoLink
<1> QED
  BY <1>1, <1>2, <1>3, <1>4, <1>5 DEF Inv, Types

\* A quarantined link keeps its type, its server and its file.
LEMMA QuarantineTypes ==
  ASSUME TypeOK, NEW s \in Servers
  PROVE  /\ Quarantined(s) \in [Servers -> {NoLink} \union
               [status : {"active", "quarantined"}, guild : Targets, file : Files, ledger : Nat]]
         /\ \A r \in Servers \ {s} : Quarantined(s)[r] = link[r]
         /\ Quarantined(s)[s] = NoLink <=> link[s] = NoLink
         /\ Quarantined(s)[s].status # "active"
         /\ link[s] # NoLink => Quarantined(s)[s].file = link[s].file
<1>1. CASE link[s] = NoLink
  BY <1>1 DEF TypeOK, Quarantined, NoLink
<1>2. CASE link[s] # NoLink
  <2>1. link[s] \in [status : {"active", "quarantined"}, guild : Targets, file : Files,
                     ledger : Nat]
    BY <1>2 DEF TypeOK
  <2>2. Quarantined(s) = [link EXCEPT ![s].status = "quarantined"]
    BY <1>2 DEF Quarantined
  <2>3. Quarantined(s)[s] = [link[s] EXCEPT !.status = "quarantined"]
    BY <2>2 DEF TypeOK
  <2>4. Quarantined(s)[s].status = "quarantined" /\ Quarantined(s)[s] # NoLink
    BY <2>1, <2>3 DEF NoLink
  <2> QED
    BY <1>2, <2>1, <2>2, <2>3, <2>4 DEF TypeOK
<1> QED
  BY <1>1, <1>2

\* The step of a job tells which kind of job it is.
LEMMA StepTypes ==
  ASSUME WorkTypes, NEW k \in Slots
  PROVE  /\ job[k].step \in {"write", "save", "drop", "advance"} => job[k] \in LinkJobs
         /\ job[k].step \in {"row", "file", "finish"} => job[k] \in CleanJobs
         /\ job[k].step = "file" => job[k].by \in Cleaners /\ job[k].file \in Files
         /\ job[k].step = "finish" => job[k].by \in Cleaners /\ job[k].ok \in BOOLEAN
         /\ job[k].step = "row" => job[k].by \in Cleaners
<1>1. job[k] \in {NoJob} \union LinkJobs \union CleanJobs
  BY DEF WorkTypes
<1>2. CASE job[k] = NoJob
  BY <1>2 DEF NoJob
<1>3. CASE job[k] \in LinkJobs
  BY <1>3 DEF LinkJobs
<1>4. CASE job[k] \in CleanJobs
  BY <1>4 DEF CleanJobs
<1> QED
  BY <1>1, <1>2, <1>3, <1>4

\* Every action preserves the types.
LEMMA TypeStep == Types /\ LockInv /\ [Next]_vars => Types'
<1> SUFFICES ASSUME Types, LockInv, [Next]_vars PROVE Types'
  OBVIOUS
<1> USE DEF Types
<1>1. ASSUME NEW w \in Wizards, NEW s \in Servers, NEW kind \in {"setup", "link"},
             OpenWizard(w, s, kind)
      PROVE  Types'
  BY <1>1 DEF OpenWizard, TypeOK, WorkTypes, OpenWizards
<1>2. ASSUME NEW w \in Wizards, CloseWizard(w) PROVE Types'
  BY <1>2 DEF CloseWizard, TypeOK, WorkTypes
<1>3. ASSUME NEW w \in Wizards, NEW t \in Targets, Setup(w, t) PROVE Types'
  BY <1>3 DEF Setup, TypeOK, WorkTypes, OpenWizards, Advanced
<1>4. ASSUME NEW s \in Servers, NEW t \in Targets, Draft(s, t) PROVE Types'
  BY <1>4 DEF Draft, TypeOK, WorkTypes
<1>5. ASSUME NEW s \in Servers, Edit(s) PROVE Types'
  <2>1. target' \in [Servers -> Targets \union {NoTarget}]
    BY <1>5 DEF Edit, TypeOK, NoDraft
  <2> QED
    BY <1>5, <2>1, QuarantineTypes DEF Edit, TypeOK, WorkTypes, Advanced
<1>6. ASSUME NEW s \in Servers, EditOther(s) PROVE Types'
  BY <1>6 DEF EditOther, TypeOK, WorkTypes, Advanced
<1>7. ASSUME NEW w \in Wizards, Click(w) PROVE Types'
  BY <1>7 DEF Click, TypeOK, WorkTypes, OpenWizards
<1>8. ASSUME NEW w \in Wizards, LinkBegin(w) PROVE Types'
  <2>1. wizard[w] \in OpenWizards
    BY <1>8 DEF LinkBegin, WorkTypes
  <2>2. PICK s \in Servers : s = wizard[w].server
    BY <2>1 DEF OpenWizards
  <2>3. [step |-> "write", by |-> "wizard", ledger |-> wizard[w].ledger, file |-> <<s, 0>>]
        \in LinkJobs
    BY <2>1 DEF OpenWizards, LinkJobs, Files
  <2>4. WorkTypes'
    BY <1>8, <2>2, <2>3 DEF LinkBegin, WorkTypes
  <2> QED
    BY <1>8, <2>4 DEF LinkBegin, TypeOK
<1>9. ASSUME NEW s \in Servers, NEW ok \in BOOLEAN, LinkWrite(s, ok) PROVE Types'
  <2>1. Locked(s) \in Slots
    BY DEF Locked, Slots
  <2>2. job[Locked(s)] \in LinkJobs
    BY <1>9, <2>1, StepTypes DEF LinkWrite
  <2>3. CASE ok
    <3>1. written' \in 0 .. MaxFiles /\ files' \subseteq Files
      BY <1>9, <2>3 DEF LinkWrite, TypeOK, Files
    <3>2. job' \in [Slots -> {NoJob} \union LinkJobs \union CleanJobs]
      BY <1>9, <2>1, <2>2, <2>3, <3>1 DEF LinkWrite, WorkTypes, LinkJobs, Files
    <3> QED
      BY <1>9, <3>1, <3>2 DEF LinkWrite, TypeOK, WorkTypes
  <2>4. CASE ~ok
    BY <1>9, <2>4 DEF LinkWrite, TypeOK, WorkTypes
  <2> QED
    BY <2>3, <2>4
<1>10. ASSUME NEW s \in Servers, NEW ok \in BOOLEAN, LinkSave(s, ok) PROVE Types'
  <2> DEFINE k == Locked(s)
  <2>1. k \in Slots /\ job[k] \in LinkJobs
    BY <1>10, StepTypes DEF LinkSave, Locked, Slots
  <2>2. job[k].file \in Files /\ job[k].ledger \in Nat
    BY <2>1 DEF LinkJobs
  <2>3. CASE ok
    <3>1. job' \in [Slots -> {NoJob} \union LinkJobs \union CleanJobs]
      <4>1. (IF link[s] = NoLink THEN <<s, 0>> ELSE link[s].file) \in Files
        BY DEF TypeOK, Files
      <4> QED
        BY <1>10, <2>1, <2>3, <4>1 DEF LinkSave, WorkTypes, LinkJobs
    <3>2. target[s] # NoTarget => link' \in [Servers -> {NoLink} \union
             [status : {"active", "quarantined"}, guild : Targets, file : Files, ledger : Nat]]
      BY <1>10, <2>2, <2>3 DEF LinkSave, TypeOK
    <3> QED
      BY <1>10, <2>3, <3>1, <3>2 DEF LinkSave, TypeOK, WorkTypes, LockInv
  <2>4. CASE ~ok
    BY <1>10, <2>2, <2>4 DEF LinkSave, TypeOK, WorkTypes
  <2> QED
    BY <2>3, <2>4
<1>11. ASSUME NEW s \in Servers, LinkDrop(s) PROVE Types'
  <2>1. Locked(s) \in Slots /\ job[Locked(s)] \in LinkJobs
    BY <1>11, StepTypes DEF LinkDrop, Locked, Slots
  <2>2. WorkTypes'
    BY <1>11, <2>1 DEF LinkDrop, WorkTypes, LinkJobs
  <2> QED
    BY <1>11, <2>2 DEF LinkDrop, TypeOK
<1>12. ASSUME NEW s \in Servers, LinkAdvance(s) PROVE Types'
  <2>1. WorkTypes'
    BY <1>12 DEF LinkAdvance, WorkTypes
  <2> QED
    BY <1>12, <2>1 DEF LinkAdvance, TypeOK, Advanced
<1>13. ASSUME NEW s \in Servers, Remove(s) PROVE Types'
  <2>1. Cleanup("command") \in CleanJobs
    BY DEF Cleanup, CleanJobs, Cleaners
  <2>2. WorkTypes'
    BY <1>13, <2>1 DEF Remove, WorkTypes
  <2> QED
    BY <1>13, <2>2, QuarantineTypes DEF Remove, TypeOK, Advanced
<1>14. ASSUME NEW k \in Slots, RemoveRow(k) PROVE Types'
  <2>1. k[1] \in Servers /\ job[k].by \in Cleaners
    BY <1>14, StepTypes DEF RemoveRow, Slots
  <2>2. CASE link[k[1]] # NoLink
    <3>1. link[k[1]].file \in Files
      BY <2>1, <2>2 DEF TypeOK
    <3>2. WorkTypes'
      <4>1. [step |-> "file", by |-> job[k].by, file |-> link[k[1]].file] \in CleanJobs
        BY <2>1, <3>1 DEF CleanJobs
      <4> QED
        BY <1>14, <2>2, <4>1 DEF RemoveRow, WorkTypes
    <3> QED
      BY <1>14, <2>1, <2>2, <3>1, <3>2 DEF RemoveRow, TypeOK
  <2>3. CASE link[k[1]] = NoLink
    <3>1. WorkTypes'
      <4>1. [step |-> "finish", by |-> job[k].by, ok |-> TRUE] \in CleanJobs
        BY <2>1 DEF CleanJobs
      <4> QED
        BY <1>14, <2>3, <4>1 DEF RemoveRow, WorkTypes
    <3> QED
      BY <1>14, <2>3, <3>1 DEF RemoveRow, TypeOK
  <2> QED
    BY <2>2, <2>3
<1>15. ASSUME NEW k \in Slots, NEW ok \in BOOLEAN, RemoveFile(k, ok) PROVE Types'
  <2>1. job[k].by \in Cleaners
    BY <1>15, StepTypes DEF RemoveFile
  <2>2. WorkTypes'
    BY <1>15, <2>1 DEF RemoveFile, WorkTypes, CleanJobs
  <2> QED
    BY <1>15, <2>2 DEF RemoveFile, TypeOK
<1>16. ASSUME NEW k \in Slots, NEW clean \in BOOLEAN, Finish(k, clean) PROVE Types'
  <2>1. WorkTypes'
    BY <1>16 DEF Finish, WorkTypes
  <2> QED
    BY <1>16, <2>1 DEF Finish, TypeOK
<1>17. ASSUME NEW s \in Servers, Take(s), UNCHANGED wizard
       PROVE  WorkTypes' /\ picked' \in Servers \union {NoServer}
  <2>1. Cleanup("sweep") \in CleanJobs
    BY DEF Cleanup, CleanJobs, Cleaners
  <2> QED
    BY <1>17, <2>1 DEF Take, TypeOK, WorkTypes
<1>18. CASE SweepList
  BY <1>17, <1>18 DEF SweepList, TypeOK
<1>19. ASSUME NEW s \in Servers, SweepNext(s) PROVE Types'
  BY <1>17, <1>19 DEF SweepNext, TypeOK
<1>20. CASE SweepClean
  BY <1>20 DEF SweepClean, TypeOK, WorkTypes, Cleanup, CleanJobs, Cleaners, Locked, Slots
<1>21. ASSUME NEW s \in Servers, Cache(s) PROVE Types'
  BY <1>21 DEF Cache, TypeOK, WorkTypes
<1>22. CASE Crash
  BY <1>22 DEF Crash, TypeOK, WorkTypes
<1>23. CASE UNCHANGED vars
  BY <1>23 DEF vars, TypeOK, WorkTypes
<1> QED
  BY <1>1, <1>2, <1>3, <1>4, <1>5, <1>6, <1>7, <1>8, <1>9, <1>10, <1>11, <1>12, <1>13, <1>14,
     <1>15, <1>16, <1>18, <1>19, <1>20, <1>21, <1>22, <1>23
     DEF Next, Administrator, Work, Sweep, Environment

-----------------------------------------------------------------------------
(* The parts of the invariant                                              *)

\* The slots of different servers, and the two of one server, are different.
LEMMA SlotFacts ==
  /\ \A s \in Servers : /\ Locked(s) \in Slots /\ Locked(s)[1] = s
                        /\ Loose(s) \in Slots /\ Loose(s)[1] = s
  /\ \A r, s \in Servers : (Locked(r) = Locked(s) => r = s) /\ Locked(r) # Loose(s)
BY DEF Locked, Loose, Slots

\* Setup and edit look at every other server in the transaction that takes the
\* target guild.
LEMMA TargetStep ==
  ASSUME Types, TargetsAreExclusive, [Next]_vars
  PROVE  TargetsAreExclusive'
<1> USE DEF Types, TypeOK, TargetsAreExclusive
<1>1. CASE UNCHANGED target
  BY <1>1
<1>2. ASSUME NEW w \in Wizards, NEW t \in Targets, Setup(w, t) PROVE TargetsAreExclusive'
  <2>1. wizard[w].server \in Servers
    BY <1>2 DEF Setup, WorkTypes, OpenWizards
  <2> QED
    BY <1>2, <2>1 DEF Setup, Unowned
<1>3. ASSUME NEW s \in Servers, Edit(s) PROVE TargetsAreExclusive'
  BY <1>3 DEF Edit, Unowned
<1>4. ASSUME NEW s \in Servers, Remove(s) PROVE TargetsAreExclusive'
  BY <1>4 DEF Remove
<1> QED
  BY <1>1, <1>2, <1>3, <1>4
     DEF Next, Administrator, Work, Sweep, Environment, vars, OpenWizard, CloseWizard, Draft,
         EditOther, Click, LinkBegin, LinkWrite, LinkSave, LinkDrop, LinkAdvance, RemoveRow,
         RemoveFile, Finish, SweepList, SweepNext, SweepClean, Cache, Crash

\* A new ledger comes with a new generation, so that the wizards opened before
\* it are out of date.
LEMMA WizardStep ==
  ASSUME Types, WizardInv, [Next]_vars
  PROVE  WizardInv'
<1> USE DEF Types, TypeOK, WorkTypes, WizardInv, StillCurrent
<1>1. CASE UNCHANGED <<wizard, generation, ledger>>
  BY <1>1
<1>2. ASSUME NEW w \in Wizards, NEW s \in Servers, NEW kind \in {"setup", "link"},
             OpenWizard(w, s, kind)
      PROVE  WizardInv'
  BY <1>2 DEF OpenWizard
<1>3. ASSUME NEW w \in Wizards, CloseWizard(w) PROVE WizardInv'
  BY <1>3 DEF CloseWizard
<1>4. ASSUME NEW w \in Wizards, LinkBegin(w) PROVE WizardInv'
  BY <1>4 DEF LinkBegin
<1>5. ASSUME NEW w \in Wizards, Click(w) PROVE WizardInv'
  BY <1>5 DEF Click, OpenWizards
<1>6. ASSUME NEW s \in Servers, generation' = Advanced(s),
             ledger' = ledger \/ ledger' = [ledger EXCEPT ![s] = @ + 1],
             \A w \in Wizards : wizard'[w] = wizard[w] \/ wizard'[w] = NoWizard
      PROVE  WizardInv'
  <2> SUFFICES ASSUME NEW w \in Wizards, wizard'[w] # NoWizard
               PROVE  /\ wizard'[w].generation <= generation'[wizard'[w].server]
                      /\ wizard'[w].generation = generation'[wizard'[w].server] =>
                           wizard'[w].ledger = ledger'[wizard'[w].server]
    OBVIOUS
  <2>1. wizard'[w] = wizard[w] /\ wizard[w] \in OpenWizards
    BY <1>6
  <2>2. PICK r \in Servers : r = wizard[w].server
    BY <2>1 DEF OpenWizards
  <2>3. /\ wizard[w].generation \in Nat
        /\ wizard[w].generation <= generation[r]
        /\ wizard[w].generation = generation[r] => wizard[w].ledger = ledger[r]
    BY <2>1, <2>2 DEF OpenWizards
  <2>4. CASE r = s
    <3>1. generation'[r] = generation[r] + 1 /\ generation[r] \in Nat
      BY <1>6, <2>4 DEF Advanced
    <3> QED
      BY <2>1, <2>2, <2>3, <3>1
  <2>5. CASE r # s
    BY <1>6, <2>1, <2>2, <2>3, <2>5 DEF Advanced
  <2> QED
    BY <2>4, <2>5
<1>7. ASSUME NEW w \in Wizards, NEW t \in Targets, Setup(w, t) PROVE WizardInv'
  <2>1. wizard[w].server \in Servers
    BY <1>7 DEF Setup, OpenWizards
  <2> QED
    BY <1>6, <1>7, <2>1 DEF Setup
<1>8. ASSUME NEW s \in Servers, Edit(s) \/ EditOther(s) \/ LinkAdvance(s) \/ Remove(s)
      PROVE  WizardInv'
  BY <1>6, <1>8 DEF Edit, EditOther, LinkAdvance, Remove
<1>9. CASE Crash
  BY <1>9 DEF Crash
<1> HIDE DEF Types, TypeOK, WorkTypes, WizardInv, StillCurrent
<1> QED
  BY <1>1, <1>2, <1>3, <1>4, <1>5, <1>7, <1>8, <1>9
     DEF Next, Administrator, Work, Sweep, Environment, vars, Draft, LinkWrite, LinkSave,
         LinkDrop, RemoveRow, RemoveFile, Finish, SweepList, SweepNext, SweepClean, Cache

\* Target and ledger change only while the lock is free, and a critical section
\* starts from what it has just read.
LEMMA LockStep ==
  ASSUME Types, WizardInv, LockInv, [Next]_vars
  PROVE  LockInv'
<1> USE SlotFacts DEF Types, TypeOK, WorkTypes, LockInv, NoJob
<1>1. CASE UNCHANGED <<job, target, ledger>>
  BY <1>1
<1>2. ASSUME NEW w \in Wizards, NEW t \in Targets, Setup(w, t) PROVE LockInv'
  <2>1. wizard[w].server \in Servers
    BY <1>2 DEF Setup, OpenWizards
  <2> QED
    BY <1>2, <2>1 DEF Setup, Free
<1>3. ASSUME NEW s \in Servers, Edit(s) PROVE LockInv'
  BY <1>3 DEF Edit, Free
<1>4. ASSUME NEW w \in Wizards, LinkBegin(w) PROVE LockInv'
  <2>1. PICK s \in Servers : s = wizard[w].server
    BY <1>4 DEF LinkBegin, OpenWizards
  <2>2. target[s] # NoTarget /\ wizard[w].ledger = ledger[s]
    BY <1>4, <2>1 DEF LinkBegin, WizardInv, StillCurrent
  <2>3. /\ job'[Locked(s)].step = "write" /\ job'[Locked(s)].ledger = wizard[w].ledger
        /\ \A r \in Servers \ {s} : job'[Locked(r)] = job[Locked(r)]
    BY <1>4, <2>1 DEF LinkBegin
  <2> QED
    BY <1>4, <2>2, <2>3 DEF LinkBegin
<1>5. ASSUME NEW s \in Servers, NEW ok \in BOOLEAN, LinkWrite(s, ok) PROVE LockInv'
  <2>1. \A r \in Servers \ {s} : job'[Locked(r)] = job[Locked(r)]
    BY <1>5 DEF LinkWrite
  <2>2. CASE ok
    <3>1. job'[Locked(s)].step = "save" /\ job'[Locked(s)].ledger = job[Locked(s)].ledger
      BY <1>5, <2>2, StepTypes DEF LinkWrite, LinkJobs
    <3> QED
      BY <1>5, <2>1, <3>1 DEF LinkWrite
  <2>3. CASE ~ok
    BY <1>5, <2>1, <2>3 DEF LinkWrite
  <2> QED
    BY <2>2, <2>3
<1>6. ASSUME NEW s \in Servers, NEW ok \in BOOLEAN, LinkSave(s, ok) PROVE LockInv'
  <2>1. \A r \in Servers \ {s} : job'[Locked(r)] = job[Locked(r)]
    BY <1>6 DEF LinkSave
  <2>2. job'[Locked(s)].step \in {"drop", "free"}
    BY <1>6, StepTypes DEF LinkSave, LinkJobs
  <2> QED
    BY <1>6, <2>1, <2>2 DEF LinkSave
<1>7. ASSUME NEW s \in Servers, LinkDrop(s) \/ LinkAdvance(s) PROVE LockInv'
  <2>1. \A r \in Servers \ {s} : job'[Locked(r)] = job[Locked(r)]
    BY <1>7 DEF LinkDrop, LinkAdvance
  <2>2. job'[Locked(s)].step \in {"advance", "free"}
    BY <1>7, StepTypes DEF LinkDrop, LinkAdvance, LinkJobs
  <2> QED
    BY <1>7, <2>1, <2>2 DEF LinkDrop, LinkAdvance
<1>8. ASSUME NEW s \in Servers, Remove(s) PROVE LockInv'
  BY <1>8 DEF Remove, Free, Cleanup
<1>9. ASSUME NEW k \in Slots, NEW clean \in BOOLEAN,
             RemoveRow(k) \/ RemoveFile(k, clean) \/ Finish(k, clean)
      PROVE  LockInv'
  <2>1. \A j \in Slots \ {k} : job'[j] = job[j]
    BY <1>9 DEF RemoveRow, RemoveFile, Finish
  <2>2. job'[k].step \in {"file", "finish", "free"}
    BY <1>9 DEF RemoveRow, RemoveFile, Finish
  <2> QED
    BY <1>9, <2>1, <2>2 DEF RemoveRow, RemoveFile, Finish
<1>10. ASSUME SweepList \/ (\E s \in Servers : SweepNext(s)) PROVE LockInv'
  BY <1>10 DEF SweepList, SweepNext, Take
<1>11. CASE SweepClean
  BY <1>11 DEF SweepClean, IsLive, Cleanup
<1>12. CASE Crash
  BY <1>12 DEF Crash
<1> QED
  BY <1>1, <1>2, <1>3, <1>4, <1>5, <1>6, <1>7, <1>8, <1>9, <1>10, <1>11, <1>12
     DEF Next, Administrator, Work, Sweep, Environment, vars, OpenWizard, CloseWizard, Draft,
         EditOther, Click, Cache

\* The file a thread may delete is named by no row, of this or another server.
LEMMA NotLinked ==
  ASSUME StoreInv, NEW k \in Slots, InStore(k), NEW s \in Servers, link[s] # NoLink
  PROVE  link[s].file # job[k].file
BY DEF StoreInv

Secrets == StoreInv /\ LinkedSecretExists

\* Nothing changes for the store when no thread enters it and the rows keep
\* their files.
LEMMA StoreUnchanged ==
  ASSUME Secrets, UNCHANGED disk,
         \A s \in Servers : link'[s] # NoLink => link[s] # NoLink /\ link'[s].file = link[s].file,
         \A k \in Slots : InStore(k)' => job'[k] = job[k]
  PROVE  Secrets'
<1>1. \A k \in Slots : InStore(k)' => InStore(k)
  BY DEF InStore
<1>2. StoreInv'
  <2>1. \A k \in Slots : InStore(k)' =>
           /\ job'[k].file[1] = k[1]
           /\ job'[k].step = "save" => job'[k].file \in files' /\ job'[k].file[2] > 0
           /\ link'[k[1]] # NoLink => job'[k].step # "file" /\ link'[k[1]].file # job'[k].file
    BY <1>1 DEF Secrets, StoreInv, Slots
  <2>2. \A j, k \in Slots : InStore(j)' /\ InStore(k)' => j = k
    BY <1>1 DEF Secrets, StoreInv
  <2>3. \A s \in Servers : link'[s] # NoLink => link'[s].file[1] = s
    BY DEF Secrets, StoreInv
  <2> QED
    BY <2>1, <2>2, <2>3 DEF Secrets, StoreInv
<1>3. LinkedSecretExists'
  BY DEF Secrets, LinkedSecretExists
<1> QED
  BY <1>2, <1>3 DEF Secrets

\* A thread in the store leaves it and deletes at most its own file.
LEMMA StoreLeave ==
  ASSUME Secrets, NEW k \in Slots, InStore(k),
         files' \in {files, files \ {job[k].file}}, written' = written, link' = link,
         \A j \in Slots \ {k} : job'[j] = job[j],
         job'[k].step \notin {"save", "drop", "file"}
  PROVE  Secrets'
<1>1. \A j \in Slots : ~InStore(j)'
  BY DEF Secrets, StoreInv, InStore
<1>2. StoreInv'
  BY <1>1 DEF Secrets, StoreInv
<1>3. LinkedSecretExists'
  BY NotLinked DEF Secrets, LinkedSecretExists
<1> QED
  BY <1>2, <1>3 DEF Secrets

\* A credential operation works on its own files.
LEMMA StoreStep ==
  ASSUME Types, Secrets, [Next]_vars
  PROVE  Secrets'
<1> USE SlotFacts
<1>1. CASE UNCHANGED <<job, link, files, written>>
  BY <1>1, StoreUnchanged
<1>2. ASSUME NEW s \in Servers, Edit(s) PROVE Secrets'
  BY <1>2, StoreUnchanged, QuarantineTypes DEF Edit, Types
<1>3. ASSUME NEW s \in Servers, Remove(s) PROVE Secrets'
  <2>1. \A k \in Slots : job'[k] = job[k] \/ job'[k].step = "row"
    BY <1>3 DEF Remove, Types, WorkTypes, Cleanup
  <2>2. \A k \in Slots : InStore(k)' => job'[k] = job[k]
    BY <2>1 DEF InStore
  <2>3. \A r \in Servers : link'[r] # NoLink => link[r] # NoLink /\ link'[r].file = link[r].file
    BY <1>3, QuarantineTypes DEF Remove, Types
  <2> QED
    BY <1>3, <2>2, <2>3, StoreUnchanged DEF Remove
<1>4. ASSUME UNCHANGED <<link, files, written>>,
             \A k \in Slots : job'[k] = job[k]
                              \/ job'[k].step \in {"free", "write", "row", "advance", "finish"}
      PROVE  Secrets'
  <2>1. \A k \in Slots : InStore(k)' => job'[k] = job[k]
    BY <1>4 DEF InStore
  <2> QED
    BY <1>4, <2>1, StoreUnchanged
<1>5. ASSUME NEW w \in Wizards, LinkBegin(w) PROVE Secrets'
  BY <1>4, <1>5 DEF LinkBegin, Types, WorkTypes
<1>6. ASSUME NEW s \in Servers, NEW ok \in BOOLEAN, LinkWrite(s, ok) PROVE Secrets'
  <2>1. CASE ok
    <3> DEFINE k == Locked(s)
    <3>1. k \in Slots /\ k[1] = s /\ job[k] \in LinkJobs
      BY <1>6, StepTypes DEF LinkWrite, Types
    <3>2. \A j \in Slots \ {k} : job'[j] = job[j] /\ ~InStore(j)
      BY <1>6, <2>1 DEF LinkWrite, StoreFree, InStore, Types, WorkTypes
    <3>3. job'[k].step = "save" /\ job'[k].file = <<s, written'>>
      BY <1>6, <2>1, <3>1 DEF LinkWrite, LinkJobs, Types, WorkTypes
    <3>4. /\ files' = files \union {<<s, written'>>} /\ link' = link
          /\ written' = written + 1 /\ written \in Nat
      BY <1>6, <2>1 DEF LinkWrite, Types, TypeOK
    <3>5. \A f \in files : f[2] <= written /\ f[2] \in Nat
      BY DEF Secrets, StoreInv, Types, TypeOK, Files
    <3>6. \A r \in Servers : link[r] # NoLink => link[r].file \in files /\ link[r].file[1] = r
      BY DEF Secrets, StoreInv, LinkedSecretExists
    <3>7. <<s, written'>> \notin files
      BY <3>4, <3>5
    <3>8. \A j \in Slots : InStore(j)' <=> j = k
      BY <3>1, <3>2, <3>3 DEF InStore
    <3>9. LinkedSecretExists'
      BY <3>4, <3>6 DEF LinkedSecretExists
    <3>10. \A f \in files' : f[2] <= written'
      BY <3>4, <3>5
    <3>11. StoreInv'
      BY <3>1, <3>3, <3>4, <3>6, <3>7, <3>8, <3>10 DEF StoreInv
    <3> QED
      BY <3>9, <3>11 DEF Secrets
  <2>2. CASE ~ok
    BY <1>4, <1>6, <2>2 DEF LinkWrite, Types, WorkTypes, NoJob
  <2> QED
    BY <2>1, <2>2
<1>7. ASSUME NEW s \in Servers, NEW ok \in BOOLEAN, LinkSave(s, ok) PROVE Secrets'
  <2> DEFINE k == Locked(s)
  <2>1. k \in Slots /\ k[1] = s /\ job[k] \in LinkJobs /\ InStore(k)
    BY <1>7, StepTypes DEF LinkSave, Types, InStore
  <2>2. CASE ok
    <3> DEFINE old == IF link[s] = NoLink THEN <<s, 0>> ELSE link[s].file
    <3>1. /\ job[k].file \in files /\ job[k].file[2] > 0 /\ job[k].file[1] = s
          /\ link[s] # NoLink => link[s].file # job[k].file /\ link[s].file[1] = s
      BY <1>7, <2>1 DEF LinkSave, Secrets, StoreInv
    <3>2. old # job[k].file /\ old[1] = s
      BY <3>1
    <3>3. /\ link'[s].file = job[k].file
          /\ \A r \in Servers \ {s} : link'[r] = link[r]
          /\ files' = files /\ written' = written
      BY <1>7, <2>2 DEF LinkSave, Types, TypeOK
    <3>4. /\ job'[k].step = "drop" /\ job'[k].file = old
          /\ \A j \in Slots \ {k} : job'[j] = job[j]
      BY <1>7, <2>1, <2>2 DEF LinkSave, LinkJobs, Types, WorkTypes
    <3>5. \A j \in Slots : InStore(j)' <=> j = k
      BY <2>1, <3>4 DEF InStore, Secrets, StoreInv
    <3>6. LinkedSecretExists'
      BY <3>1, <3>3 DEF LinkedSecretExists, Secrets
    <3>7. StoreInv'
      BY <2>1, <3>1, <3>2, <3>3, <3>4, <3>5 DEF StoreInv, Secrets
    <3> QED
      BY <3>6, <3>7 DEF Secrets
  <2>3. CASE ~ok
    BY <1>7, <2>1, <2>3, StoreLeave DEF LinkSave, Types, WorkTypes, NoJob
  <2> QED
    BY <2>2, <2>3
<1>8. ASSUME NEW s \in Servers, LinkDrop(s) PROVE Secrets'
  <2>1. Locked(s) \in Slots /\ job[Locked(s)] \in LinkJobs /\ InStore(Locked(s))
    BY <1>8, StepTypes DEF LinkDrop, Types, InStore
  <2>2. job'[Locked(s)].step = "advance"
    BY <1>8, <2>1 DEF LinkDrop, LinkJobs, Types, WorkTypes
  <2> QED
    BY <1>8, <2>1, <2>2, StoreLeave DEF LinkDrop, Types, WorkTypes
<1>9. ASSUME NEW s \in Servers, LinkAdvance(s) PROVE Secrets'
  BY <1>4, <1>9 DEF LinkAdvance, Types, WorkTypes, NoJob
<1>10. ASSUME NEW k \in Slots, RemoveRow(k) PROVE Secrets'
  <2> DEFINE s == k[1]
  <2>1. s \in Servers
    BY DEF Slots
  <2>2. CASE link[s] # NoLink
    <3>1. /\ link'[s] = NoLink /\ \A r \in Servers \ {s} : link'[r] = link[r]
          /\ files' = files /\ written' = written
      BY <1>10, <2>1, <2>2 DEF RemoveRow, Types, TypeOK
    <3>2. /\ job'[k].step = "file" /\ job'[k].file = link[s].file
          /\ \A j \in Slots \ {k} : job'[j] = job[j]
      BY <1>10, <2>2 DEF RemoveRow, Types, WorkTypes
    <3>3. \A j \in Slots : InStore(j)' <=> j = k
      BY <1>10, <3>2 DEF InStore, RemoveRow, StoreFree
    <3>4. LinkedSecretExists'
      BY <3>1 DEF LinkedSecretExists, Secrets
    <3>5. StoreInv'
      BY <2>1, <2>2, <3>1, <3>2, <3>3 DEF StoreInv, Secrets
    <3> QED
      BY <3>4, <3>5 DEF Secrets
  <2>3. CASE link[s] = NoLink
    BY <1>4, <1>10, <2>3 DEF RemoveRow, Types, WorkTypes
  <2> QED
    BY <2>2, <2>3
<1>11. ASSUME NEW k \in Slots, NEW ok \in BOOLEAN, RemoveFile(k, ok) PROVE Secrets'
  <2>1. InStore(k)
    BY <1>11 DEF RemoveFile, InStore
  <2>2. job'[k].step = "finish" /\ \A j \in Slots \ {k} : job'[j] = job[j]
    BY <1>11 DEF RemoveFile, Types, WorkTypes
  <2> QED
    BY <1>11, <2>1, <2>2, StoreLeave DEF RemoveFile
<1>12. ASSUME NEW k \in Slots, NEW clean \in BOOLEAN, Finish(k, clean) PROVE Secrets'
  BY <1>4, <1>12 DEF Finish, Types, WorkTypes, NoJob
<1>13. ASSUME NEW s \in Servers, Take(s), UNCHANGED <<link, files, written>> PROVE Secrets'
  BY <1>4, <1>13 DEF Take, Types, WorkTypes, Cleanup
<1>14. ASSUME SweepList \/ (\E s \in Servers : SweepNext(s)) PROVE Secrets'
  BY <1>13, <1>14 DEF SweepList, SweepNext
<1>15. CASE SweepClean
  BY <1>4, <1>15 DEF SweepClean, Types, WorkTypes, Cleanup
<1>16. CASE Crash
  BY <1>4, <1>16 DEF Crash, NoJob
<1> QED
  BY <1>1, <1>2, <1>3, <1>5, <1>6, <1>7, <1>8, <1>9, <1>10, <1>11, <1>12, <1>14, <1>15, <1>16
     DEF Next, Administrator, Work, Sweep, Environment, vars, OpenWizard, CloseWizard, Setup,
         Draft, EditOther, Click, Cache

\* A usable link belongs to the present ledger: whatever replaces the ledger
\* quarantines the link in the same transaction, and a new link is saved by a
\* critical section that has found the ledger unchanged.
LEMMA LinkStep ==
  ASSUME Types, LockInv, LinkFitsLedger, PendingIsRetired, [Next]_vars
  PROVE  LinkFitsLedger' /\ PendingIsRetired'
<1> USE SlotFacts DEF LinkFitsLedger, PendingIsRetired, NoLink
<1>1. CASE UNCHANGED <<target, ledger, link, teardown>>
  BY <1>1
<1>2. ASSUME NEW w \in Wizards, NEW t \in Targets, Setup(w, t)
      PROVE  LinkFitsLedger' /\ PendingIsRetired'
  <2>1. PICK s \in Servers : s = wizard[w].server
    BY <1>2 DEF Setup, Types, WorkTypes, OpenWizards
  <2>2. link[s].status = "active" => link[s].guild \in Targets
    BY DEF Types, TypeOK
  <2> QED
    BY <1>2, <2>1, <2>2 DEF Setup, MaySetUp, Types, TypeOK
<1>3. ASSUME NEW s \in Servers, Edit(s) PROVE LinkFitsLedger' /\ PendingIsRetired'
  BY <1>3, QuarantineTypes DEF Edit, Types, TypeOK
<1>4. ASSUME NEW s \in Servers, NEW ok \in BOOLEAN, LinkSave(s, ok)
      PROVE  LinkFitsLedger' /\ PendingIsRetired'
  <2>1. CASE ok
    <3>1. target[s] # NoTarget /\ job[Locked(s)].ledger = ledger[s]
      BY <1>4 DEF LinkSave, LockInv
    <3>2. link'[s].guild = target[s] /\ link'[s].ledger = ledger[s]
      BY <1>4, <2>1, <3>1 DEF LinkSave, Types, TypeOK
    <3>3. /\ \A r \in Servers \ {s} : link'[r] = link[r]
          /\ UNCHANGED <<target, ledger, teardown>>
      BY <1>4, <2>1 DEF LinkSave, Types, TypeOK
    <3> QED
      BY <3>1, <3>2, <3>3
  <2>2. CASE ~ok
    BY <1>1, <1>4, <2>2 DEF LinkSave
  <2> QED
    BY <2>1, <2>2
<1>5. ASSUME NEW s \in Servers, Remove(s) PROVE LinkFitsLedger' /\ PendingIsRetired'
  BY <1>5, QuarantineTypes DEF Remove, Types, TypeOK
<1>6. ASSUME NEW k \in Slots, RemoveRow(k) PROVE LinkFitsLedger' /\ PendingIsRetired'
  BY <1>6, SMTT(20) DEF RemoveRow, Types, TypeOK
<1>7. ASSUME NEW k \in Slots, NEW clean \in BOOLEAN, Finish(k, clean)
      PROVE  LinkFitsLedger' /\ PendingIsRetired'
  BY <1>7 DEF Finish, Types, TypeOK
<1> HIDE DEF LinkFitsLedger, PendingIsRetired
<1> QED
  BY <1>1, <1>2, <1>3, <1>4, <1>5, <1>6, <1>7
     DEF Next, Administrator, Work, Sweep, Environment, vars, OpenWizard, CloseWizard, Draft,
         EditOther, Click, LinkBegin, LinkWrite, LinkDrop, LinkAdvance, RemoveFile, SweepList,
         SweepNext, SweepClean, Cache, Crash

-----------------------------------------------------------------------------
(* Theorems                                                                *)

\* The invariant is inductive.
THEOREM Invariant == Spec => []Inv
<1>1. Init => Inv
  BY InitInv
<1>2. Inv /\ [Next]_vars => Inv'
  BY TypeStep, TargetStep, WizardStep, LockStep, StoreStep, LinkStep
     DEF Inv, LinkInv, Secrets
<1> QED
  BY <1>1, <1>2, PTL DEF Spec

\* The types of the stored records and of the work in progress.
THEOREM TypeInvariant == Spec => []TypeOK
<1>1. Inv => TypeOK
  BY DEF Inv, Types
<1> QED
  BY <1>1, Invariant, PTL

\* However many servers set up and edit at once, an Albion guild is the target
\* of one of them (configuration_setup.py, _raise_target_conflict).
THEOREM ExclusiveTargets == Spec => []TargetsAreExclusive
<1>1. Inv => TargetsAreExclusive
  BY DEF Inv
<1> QED
  BY <1>1, Invariant, PTL

\* No usable link survives the ledger it was made for, whatever wizards are open
\* and wherever the process stops (google_sheet_link.py, credential_store.py).
THEOREM LinksFit == Spec => []LinkFitsLedger
<1>1. Inv => LinkFitsLedger
  BY DEF Inv, LinkInv
<1> QED
  BY <1>1, Invariant, PTL

\* No row names a credential file that is gone, although rows and files change
\* in separate steps that may fail (credential_store.py).
THEOREM SecretsExist == Spec => []LinkedSecretExists
<1>1. Inv => LinkedSecretExists
  BY DEF Inv, LinkInv
<1> QED
  BY <1>1, Invariant, PTL

\* While a removal is pending the server has no setup and no usable link
\* (configuration_lifecycle.py).
THEOREM PendingRetired == Spec => []PendingIsRetired
<1>1. Inv => PendingIsRetired
  BY DEF Inv, LinkInv
<1> QED
  BY <1>1, Invariant, PTL

\* The three together: what the cleanup of a removal, a wizard of the new setup
\* and a credential operation that fails half way can meet of each other.
THEOREM SoundLinks == Spec => []LinksAreSound
<1>1. Inv => LinksAreSound
  BY DEF Inv, LinkInv, LinksAreSound
<1> QED
  BY <1>1, Invariant, PTL

\* A cleanup under the lock never takes the link of a new setup
\* (configuration_remove.py, reconcile_configuration_removals).
THEOREM TeardownSparesSetup == Spec => OldTeardownSparesSetup
<1> DEFINE Spared == \A s \in Servers :
             link[s].status = "active" /\ job[Loose(s)] = NoJob => link'[s] # NoLink
<1>1. ASSUME Inv, [Next]_vars PROVE Spared
  <2>1. Types /\ LockInv /\ LinkFitsLedger
    BY <1>1 DEF Inv, LinkInv
  <2> SUFFICES ASSUME NEW s \in Servers, link[s].status = "active", job[Loose(s)] = NoJob
               PROVE  link'[s] # NoLink
    OBVIOUS
  <2>2. link[s] # NoLink /\ target[s] # NoTarget
    <3>1. link[s] # NoLink
      BY DEF NoLink
    <3>2. link[s].guild \in Targets
      BY <2>1, <3>1 DEF Types, TypeOK
    <3> QED
      BY <2>1, <3>1, <3>2 DEF LinkFitsLedger
  <2>3. CASE link' = link
    BY <2>2, <2>3
  <2>4. ASSUME NEW r \in Servers, Edit(r) \/ Remove(r) PROVE link'[s] # NoLink
    BY <2>1, <2>2, <2>4, QuarantineTypes DEF Edit, Remove, Types
  <2>5. ASSUME NEW r \in Servers, NEW ok \in BOOLEAN, LinkSave(r, ok) PROVE link'[s] # NoLink
    BY <2>1, <2>2, <2>5 DEF LinkSave, Types, TypeOK, NoLink
  <2>6. ASSUME NEW k \in Slots, RemoveRow(k) PROVE link'[s] # NoLink
    <3>1. CASE k[1] = s
      <4>1. k = Loose(s) \/ k = Locked(s)
        BY <3>1 DEF Slots, Loose, Locked
      <4> QED
        BY <2>1, <2>2, <2>6, <4>1 DEF RemoveRow, NoJob, LockInv
    <3>2. CASE k[1] # s
      BY <2>1, <2>2, <2>6, <3>2 DEF RemoveRow, Types, TypeOK
    <3> QED
      BY <3>1, <3>2
  <2> QED
    BY <1>1, <2>3, <2>4, <2>5, <2>6
       DEF Next, Administrator, Work, Sweep, Environment, vars, OpenWizard, CloseWizard, Setup,
           Draft, EditOther, Click, LinkBegin, LinkWrite, LinkDrop, LinkAdvance, RemoveFile,
           Finish, SweepList, SweepNext, SweepClean, Cache, Crash
<1>2. Inv /\ [Next]_vars => [Spared]_vars
  BY <1>1
<1> QED
  BY <1>2, Invariant, PTL DEF Spec, OldTeardownSparesSetup
=============================================================================

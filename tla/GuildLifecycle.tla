--------------------------- MODULE GuildLifecycle ---------------------------
(***************************************************************************)
(* The configuration of the Discord servers: setup, edit, Google Sheet     *)
(* link, removal, and the reconciler that resumes interrupted removals     *)
(* (configuration_setup.py, bot_configuration.py, google_sheet_link.py,    *)
(* configuration_remove.py, configuration_lifecycle.py, guild_settings.py, *)
(* credential_store.py).                                                   *)
(*                                                                         *)
(* Every change of a server runs under its lifecycle lock, save one: when  *)
(* the server is not in the client's cache, the reconciler removes the     *)
(* credentials without it.  So a server has two slots for work in          *)
(* progress, "locked" and "loose".  Credential operations run in worker    *)
(* threads, one at a time.  A wizard lives in memory and captured the      *)
(* lifecycle generation when it was opened; an edit draft is a SQLite      *)
(* record and survives a restart.                                          *)
(*                                                                         *)
(* Abstractions.  The configuration and the active ledger change in one    *)
(* transaction, so `target' stands for the target guild of both and        *)
(* `ledger' numbers the ledger generations.  A credential file is the      *)
(* server it belongs to and a number (its random name).  Fields of the     *)
(* configuration other than the target are one step that changes nothing   *)
(* but the lifecycle generation.  SQLite does not fail, save where a link  *)
(* is stored, whose failure leaves a file behind.                          *)
(***************************************************************************)
EXTENDS Naturals, FiniteSets

CONSTANTS
    Servers, Targets, Wizards,
    NoTarget, NoServer, NoWizard,
    MaxFiles,        \* bound: credential files written
    MaxTurns         \* bound: edits, removals, cache changes, restarts

ASSUME GuildAssumption ==
    /\ NoTarget \notin Targets /\ NoServer \notin Servers
    /\ MaxFiles \in Nat /\ MaxTurns \in Nat

VARIABLES
    target, ledger,  \* configuration and ledger generation of each server
    link,            \* google_sheet_links
    files, written,  \* credential files on disk, and how many were ever written
    teardown,        \* guild_configuration_teardown record
    draft,           \* configuration_edit_draft: edit of the target guild
    generation,      \* guild_lifecycle, in memory
    wizard,          \* open /bot-setup and /bot-link-google-sheet wizards
    cached,          \* the server is in the client's cache
    job,             \* work in progress per slot
    listed, picked,  \* removals the reconciler listed, and the one it waits
                     \* for the lock with
    turns

stored  == <<target, ledger, link, teardown, draft>>
disk    == <<files, written>>
sweep   == <<listed, picked>>
vars    == <<stored, disk, generation, wizard, cached, job, sweep, turns>>

Slots      == Servers \X {"locked", "loose"}
Locked(s)  == <<s, "locked">>
Loose(s)   == <<s, "loose">>
NoJob      == [step |-> "free"]
NoLink     == [status |-> "none"]
NoDraft    == [to |-> NoTarget]
Free(s)    == job[Locked(s)] = NoJob
Turn       == turns < MaxTurns /\ turns' = turns + 1

\* No thread is inside the credential store.
StoreFree == \A k \in Slots : job[k].step \notin {"save", "drop", "file"}

Init ==
    /\ target = [s \in Servers |-> NoTarget]
    /\ ledger = [s \in Servers |-> 0]
    /\ link = [s \in Servers |-> NoLink]
    /\ files = {}
    /\ written = 0
    /\ teardown = [s \in Servers |-> "none"]
    /\ draft = [s \in Servers |-> NoDraft]
    /\ generation = [s \in Servers |-> 0]
    /\ wizard = [w \in Wizards |-> NoWizard]
    /\ cached = [s \in Servers |-> TRUE]
    /\ job = [k \in Slots |-> NoJob]
    /\ listed = {}
    /\ picked = NoServer
    /\ turns = 0

Advanced(s) == [generation EXCEPT ![s] = @ + 1]

\* Mutant: only this server's own configuration is looked at.
Unowned_Any(t, s) == t # target[s]

\* The target belongs to no other server's active ledger.
Unowned(t, s) == \A r \in Servers \ {s} : target[r] # t

Quarantined(s) ==
    IF link[s] = NoLink THEN link ELSE [link EXCEPT ![s].status = "quarantined"]

-----------------------------------------------------------------------------
(* Setup and edit                                                          *)

OpenWizard(w, s, kind) ==
    /\ wizard[w] = NoWizard
    /\ cached[s]
    /\ kind = "link" => target[s] # NoTarget
    /\ wizard' = [wizard EXCEPT ![w] =
          [kind |-> kind, server |-> s, generation |-> generation[s], ledger |-> ledger[s],
           clicked |-> NoTarget]]
    /\ UNCHANGED <<stored, disk, generation, cached, job, sweep, turns>>

\* Time-out, cancellation, or a refusal that ends the wizard.
CloseWizard(w) ==
    /\ wizard[w] # NoWizard
    /\ wizard' = [wizard EXCEPT ![w] = NoWizard]
    /\ UNCHANGED <<stored, disk, generation, cached, job, sweep, turns>>

\* Mutant: whatever happened while the wizard was open is ignored.
StillCurrent_Always(w) == TRUE

StillCurrent(w) == wizard[w].generation = generation[wizard[w].server]

MaySetUp(s) == teardown[s] # "pending" /\ target[s] = NoTarget

Setup(w, t) ==
    LET s == wizard[w].server IN
    /\ wizard[w] # NoWizard
    /\ wizard[w].kind = "setup"
    /\ Free(s)
    /\ StillCurrent(w)
    /\ MaySetUp(s)
    /\ Unowned(t, s)
    /\ target' = [target EXCEPT ![s] = t]
    /\ ledger' = [ledger EXCEPT ![s] = @ + 1]
    /\ generation' = Advanced(s)
    /\ wizard' = [wizard EXCEPT ![w] = NoWizard]
    /\ UNCHANGED <<link, teardown, draft, disk, cached, job, sweep, turns>>

\* An editor selects the target guild and a new value for it.
Draft(s, t) ==
    /\ Free(s)
    /\ cached[s]
    /\ target[s] \notin {NoTarget, t}
    /\ draft' = [draft EXCEPT ![s] = [from |-> target[s], to |-> t]]
    /\ UNCHANGED <<target, ledger, link, teardown, disk, generation, wizard, cached, job, sweep,
                   turns>>

\* The draft is saved if the target is still the one it started from: the old
\* ledger is archived, a new one opened, the link quarantined.
Edit(s) ==
    /\ Turn
    /\ Free(s)
    /\ draft[s] # NoDraft
    /\ target[s] = draft[s].from
    /\ Unowned(draft[s].to, s)
    /\ target' = [target EXCEPT ![s] = draft[s].to]
    /\ ledger' = [ledger EXCEPT ![s] = @ + 1]
    /\ link' = Quarantined(s)
    /\ draft' = [draft EXCEPT ![s] = NoDraft]
    /\ generation' = Advanced(s)
    /\ UNCHANGED <<teardown, disk, wizard, cached, job, sweep>>

EditOther(s) ==
    /\ Turn
    /\ Free(s)
    /\ target[s] # NoTarget
    /\ generation' = Advanced(s)
    /\ UNCHANGED <<stored, disk, wizard, cached, job, sweep>>

-----------------------------------------------------------------------------
(* Google Sheet link                                                       *)

\* The Finish button reads the target before it waits for the lock.
Click(w) ==
    /\ wizard[w] # NoWizard
    /\ wizard[w].kind = "link"
    /\ wizard[w].clicked = NoTarget
    /\ target[wizard[w].server] # NoTarget
    /\ wizard' = [wizard EXCEPT ![w].clicked = target[wizard[w].server]]
    /\ UNCHANGED <<stored, disk, generation, cached, job, sweep, turns>>

LinkBegin(w) ==
    LET s == wizard[w].server IN
    /\ wizard[w] # NoWizard
    /\ wizard[w].clicked # NoTarget
    /\ Free(s)
    /\ StillCurrent(w)
    /\ target[s] = wizard[w].clicked
    /\ job' = [job EXCEPT ![Locked(s)] =
          [step |-> "write", by |-> "wizard", ledger |-> wizard[w].ledger, file |-> <<s, 0>>]]
    /\ wizard' = [wizard EXCEPT ![w] = NoWizard]
    /\ UNCHANGED <<stored, disk, generation, cached, sweep, turns>>

\* The worker thread enters the credential store and writes the new file ...
LinkWrite(s, ok) ==
    LET k == Locked(s) IN
    /\ job[k].step = "write"
    /\ StoreFree
    /\ ok => written < MaxFiles
    /\ IF ok
       THEN /\ written' = written + 1
            /\ files' = files \union {<<s, written'>>}
            /\ job' = [job EXCEPT ![k].step = "save", ![k].file = <<s, written'>>]
       ELSE job' = [job EXCEPT ![k] = NoJob] /\ UNCHANGED disk
    /\ UNCHANGED <<stored, generation, wizard, cached, sweep, turns>>

\* ... stores the row; the new file is dropped again, if possible, when that
\* fails ...
LinkSave(s, ok) ==
    LET k == Locked(s) IN
    /\ job[k].step = "save"
    /\ IF ok
       THEN /\ link' = [link EXCEPT ![s] =
                  [status |-> "active", guild |-> target[s], file |-> job[k].file,
                   ledger |-> job[k].ledger]]
            /\ job' = [job EXCEPT ![k].step = "drop",
                                  ![k].file = IF link[s] = NoLink THEN <<s, 0>> ELSE link[s].file]
            /\ UNCHANGED files
       ELSE /\ files' \in {files, files \ {job[k].file}}
            /\ job' = [job EXCEPT ![k] = NoJob]
            /\ UNCHANGED link
    /\ UNCHANGED <<target, ledger, teardown, draft, written, generation, wizard, cached, sweep,
                   turns>>

\* ... and deletes the file of the previous row, which it may fail to do.
LinkDrop(s) ==
    /\ job[Locked(s)].step = "drop"
    /\ files' \in {files, files \ {job[Locked(s)].file}}
    /\ job' = [job EXCEPT ![Locked(s)].step = "advance"]
    /\ UNCHANGED <<stored, written, generation, wizard, cached, sweep, turns>>

LinkAdvance(s) ==
    /\ job[Locked(s)].step = "advance"
    /\ generation' = Advanced(s)
    /\ job' = [job EXCEPT ![Locked(s)] = NoJob]
    /\ UNCHANGED <<stored, disk, wizard, cached, sweep, turns>>

-----------------------------------------------------------------------------
(* Removal                                                                 *)

Cleanup(who) == [step |-> "row", by |-> who, ok |-> TRUE]

\* One transaction retires the configuration and leaves the intent to clean up.
Remove(s) ==
    /\ Turn
    /\ Free(s)
    /\ cached[s]
    /\ target[s] # NoTarget
    /\ target' = [target EXCEPT ![s] = NoTarget]
    /\ link' = Quarantined(s)
    /\ draft' = [draft EXCEPT ![s] = NoDraft]
    /\ teardown' = [teardown EXCEPT ![s] = "pending"]
    /\ generation' = Advanced(s)
    /\ job' = [job EXCEPT ![Locked(s)] = Cleanup("command")]
    /\ UNCHANGED <<ledger, disk, wizard, cached, sweep>>

\* remove_google_sheet_credentials: the row ...
RemoveRow(k) ==
    LET s == k[1] IN
    /\ job[k].step = "row"
    /\ StoreFree
    /\ IF link[s] # NoLink
       THEN /\ link' = [link EXCEPT ![s] = NoLink]
            /\ job' = [job EXCEPT ![k] = [step |-> "file", by |-> job[k].by, file |-> link[s].file]]
       ELSE job' = [job EXCEPT ![k] = [step |-> "finish", by |-> job[k].by, ok |-> TRUE]]
            /\ UNCHANGED link
    /\ UNCHANGED <<target, ledger, teardown, draft, disk, generation, wizard, cached, sweep,
                   turns>>

\* ... then the file it named.
RemoveFile(k, ok) ==
    /\ job[k].step = "file"
    /\ files' = IF ok THEN files \ {job[k].file} ELSE files
    /\ job' = [job EXCEPT ![k] = [step |-> "finish", by |-> job[k].by, ok |-> ok]]
    /\ UNCHANGED <<stored, written, generation, wizard, cached, sweep, turns>>

\* Mutant: the end of the cleanup is not recorded.
Finish_Never(k, clean) ==
    /\ job[k].step = "finish"
    /\ IF k[2] = "loose" THEN clean ELSE clean => cached[k[1]]
    /\ job' = [job EXCEPT ![k] = NoJob]
    /\ UNCHANGED <<stored, disk, generation, wizard, cached, sweep, turns>>

\* The removal is complete when nothing failed; without the server (a loose
\* cleanup) there is nothing to clean up on Discord.
Finish(k, clean) ==
    /\ job[k].step = "finish"
    /\ IF k[2] = "loose" THEN clean ELSE clean => cached[k[1]]
    /\ teardown' = IF job[k].ok /\ clean THEN [teardown EXCEPT ![k[1]] = "completed"] ELSE teardown
    /\ job' = [job EXCEPT ![k] = NoJob]
    /\ UNCHANGED <<target, ledger, link, draft, disk, generation, wizard, cached, sweep,
                   turns>>

-----------------------------------------------------------------------------
(* The reconciler, every minute and at start-up                            *)

SweepIdle ==
    /\ picked = NoServer
    /\ \A s \in Servers : /\ job[Loose(s)] = NoJob
                          /\ ~Free(s) => job[Locked(s)].by # "sweep"

\* A record in the cache waits for the lock, the others are cleaned at once.
Take(s) ==
    IF cached[s]
    THEN picked' = s /\ UNCHANGED job
    ELSE job' = [job EXCEPT ![Loose(s)] = Cleanup("sweep")] /\ UNCHANGED picked

\* The pending removals are listed; the others wait while one is handled.
SweepList ==
    LET pending == {s \in Servers : teardown[s] = "pending"} IN
    /\ SweepIdle
    /\ listed = {}
    /\ \E s \in pending : listed' = pending \ {s} /\ Take(s)
    /\ UNCHANGED <<stored, disk, generation, wizard, cached, turns>>

SweepNext(s) ==
    /\ SweepIdle
    /\ s \in listed
    /\ listed' = listed \ {s}
    /\ Take(s)
    /\ UNCHANGED <<stored, disk, generation, wizard, cached, turns>>

\* Mutant: an old teardown runs beside a new setup.
IsLive_Never(s) == FALSE

IsLive(s) == target[s] # NoTarget

SweepClean ==
    /\ picked # NoServer
    /\ Free(picked)
    /\ picked' = NoServer
    /\ job' = IF IsLive(picked) THEN job ELSE [job EXCEPT ![Locked(picked)] = Cleanup("sweep")]
    /\ UNCHANGED <<stored, disk, generation, wizard, cached, listed, turns>>

-----------------------------------------------------------------------------
(* The environment                                                         *)

\* The bot leaves or joins the server.
Cache(s) ==
    /\ Turn
    /\ cached' = [cached EXCEPT ![s] = ~@]
    /\ UNCHANGED <<stored, disk, generation, wizard, job, sweep>>

Crash ==
    /\ Turn
    /\ generation' = [s \in Servers |-> 0]
    /\ wizard' = [w \in Wizards |-> NoWizard]
    /\ job' = [k \in Slots |-> NoJob]
    /\ listed' = {}
    /\ picked' = NoServer
    /\ UNCHANGED <<stored, disk, cached>>

Administrator ==
    \/ \E w \in Wizards :
         \/ \E s \in Servers, kind \in {"setup", "link"} : OpenWizard(w, s, kind)
         \/ CloseWizard(w) \/ Click(w) \/ LinkBegin(w)
         \/ \E t \in Targets : Setup(w, t)
    \/ \E s \in Servers :
         \/ Edit(s) \/ EditOther(s) \/ Remove(s)
         \/ \E t \in Targets : Draft(s, t)

\* A critical section or a cleanup goes on.
Work ==
    \/ \E s \in Servers :
         \/ LinkDrop(s) \/ LinkAdvance(s)
         \/ \E ok \in BOOLEAN : LinkWrite(s, ok) \/ LinkSave(s, ok)
    \/ \E k \in Slots :
         \/ RemoveRow(k)
         \/ \E ok \in BOOLEAN : RemoveFile(k, ok) \/ Finish(k, ok)

Sweep == SweepList \/ (\E s \in Servers : SweepNext(s)) \/ SweepClean

Environment == (\E s \in Servers : Cache(s)) \/ Crash

Next == Administrator \/ Work \/ Sweep \/ Environment

\* What runs goes on; the reconciler runs every minute, takes its records one
\* after the other and its turn for a lock and for the credential store; Discord
\* does not refuse for ever.  Nothing is assumed of the file system.
Fairness ==
    /\ WF_vars(Work)
    /\ WF_vars(SweepList)
    /\ \A s \in Servers : WF_vars(SweepNext(s))
    /\ SF_vars(SweepClean)
    /\ \A k \in Slots : SF_vars(RemoveRow(k)) /\ SF_vars(Finish(k, TRUE))

Spec == Init /\ [][Next]_vars
FairSpec == Spec /\ Fairness

-----------------------------------------------------------------------------
(* Properties                                                              *)

Files == Servers \X (0 .. MaxFiles)

TypeOK ==
    /\ target \in [Servers -> Targets \union {NoTarget}]
    /\ ledger \in [Servers -> Nat]
    /\ link \in [Servers -> {NoLink} \union
          [status : {"active", "quarantined"}, guild : Targets, file : Files, ledger : Nat]]
    /\ files \subseteq Files
    /\ written \in 0 .. MaxFiles
    /\ teardown \in [Servers -> {"none", "pending", "completed"}]
    /\ draft \in [Servers -> {NoDraft} \union [from : Targets, to : Targets]]
    /\ generation \in [Servers -> Nat]
    /\ cached \in [Servers -> BOOLEAN]
    /\ listed \subseteq Servers
    /\ picked \in Servers \union {NoServer}

\* An Albion guild is the target of at most one server, whatever two servers
\* set up and edit at the same time.
TargetsAreExclusive ==
    \A r, s \in Servers : r # s /\ target[r] # NoTarget => target[r] # target[s]

\* A link that can be used belongs to the present ledger of its server, and to
\* the one the administrator saw when the wizard was opened: no edit, removal,
\* new setup or restart carries a Sheet over to another ledger.
LinkFitsLedger ==
    \A s \in Servers : link[s].status = "active" =>
        target[s] = link[s].guild /\ ledger[s] = link[s].ledger

\* A link never names a credential file that is gone, at every step and crash.
LinkedSecretExists == \A s \in Servers : link[s] # NoLink => link[s].file \in files

\* A server that is still being cleaned up has neither a live setup nor a
\* usable link, so that the cleanup cannot meet them.
PendingIsRetired ==
    \A s \in Servers : teardown[s] = "pending" =>
        target[s] = NoTarget /\ link[s].status # "active"

\* A link in use fits its ledger and has its secret, and a pending removal has
\* retired both, between any two steps of the administrators, the reconciler
\* and the file system.
LinksAreSound == LinkFitsLedger /\ LinkedSecretExists /\ PendingIsRetired

\* Under the lock an old teardown never takes the link of a new setup ("Never
\* let an old teardown damage a newly configured server").
OldTeardownSparesSetup ==
    [][\A s \in Servers :
         link[s].status = "active" /\ job[Loose(s)] = NoJob => link'[s] # NoLink]_vars

\* Every removal ends, through restarts and whether or not the bot is still a
\* member of the server.
TeardownsEnd == \A s \in Servers : teardown[s] = "pending" ~> teardown[s] = "completed"
=============================================================================

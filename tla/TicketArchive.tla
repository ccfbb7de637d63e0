---------------------------- MODULE TicketArchive ----------------------------
(***************************************************************************)
(* Closing a ticket (bot/tickets.py).  The channel is frozen, its messages *)
(* are copied into a thread under an anchor message of the archive         *)
(* channel, and the channel is deleted.  Every step is found by its id or  *)
(* by a marker before it is repeated, and progress is stored after each    *)
(* message, so that the reconciler can take up an archive that broke off.  *)
(*                                                                         *)
(* Two runners execute the same code: the handler of the close button,     *)
(* under the close lock of the channel, and the reconciler, which takes no *)
(* lock and works from a list it read earlier.  Trials adds a third.  Code *)
(* between two awaits is one action.  A Discord call succeeds, or it       *)
(* raises, with or without effect; that uses up one of the faults.         *)
(*                                                                         *)
(* Abstractions.  One ticket.  A message of the ticket is one piece, a     *)
(* text or (Files) an attachment.  The panel and the archive channel are   *)
(* there, and administrators do not write into a frozen channel.  That a   *)
(* complete copy is also known by its visible last line is left out: it is  *)
(* known by its marker.                                                    *)
(***************************************************************************)
EXTENDS Integers, FiniteSets

CONSTANTS
    Button, Sweep, Trial,  \* the runners
    MaxSaid,               \* bound: messages in the ticket
    Files,                 \* those that are attachments
    MaxAnchors,            \* bound: anchor messages in the archive channel
    MaxFaults              \* bound: failed calls, crashes, deletions by moderators,
                           \* for each way of closing

Modes == {"archive", "legacy", "trial"}

ASSUME ArchiveAssumption ==
    /\ MaxSaid \in Nat
    /\ MaxAnchors \in Nat
    /\ Files \subseteq 1 .. MaxSaid
    /\ MaxFaults \in [Modes -> Nat]
    /\ Cardinality({Button, Sweep, Trial}) = 3

VARIABLES
    mode,       \* how the channel is closed: "archive", "legacy" or "trial"
    record,     \* the runtime record of kind ticket
    source,     \* the channel: by its name, or gone
    writable,   \* its opener may write
    said,       \* messages in the channel
    sent,       \* anchor messages that were sent
    archive,    \* per anchor: its thread, what was posted there, which markers are left
    shredded,   \* pieces in threads that a moderator deleted
    run,        \* what each runner is doing
    list,       \* the record as the reconciler read it, if still to be looked at
    raced,      \* history variable: two runners were in this archive at once
    reopened,   \* history variable: "open" was written over a later status
    faults

channel == <<source, writable, said>>
threads == <<sent, archive, shredded>>
ghosts  == <<raced, reopened>>
vars    == <<mode, record, channel, threads, run, list, ghosts, faults>>

Runners  == {Button, Sweep, Trial}
Anchors  == 1 .. MaxAnchors
Complete == MaxSaid + 1
Pieces   == 0 .. Complete            \* 0 is the introduction
Closing  == {"closing", "archiving", "archived_source_remaining", "closed"}
Status   == Closing \union {"none", "open", "missing", "archive_incomplete_source_missing"}
NoRecord == [status |-> "none", anchor |-> 0, checkpoint |-> 0, clean |-> FALSE]
Idle     == [step |-> "idle", anchor |-> 0, seen |-> {}, next |-> 0]
Untold   == [named |-> FALSE, thread |-> FALSE, posted |-> [p \in Pieces |-> 0], marked |-> {}]

Exists == source \in {"open", "frozen", "closed"}

\* A ticket with or without a record; a trial begins in Trials.
Init ==
    /\ mode \in {"archive", "legacy"}
    /\ record \in {NoRecord, [NoRecord EXCEPT !.status = "open"]}
    /\ source = "open"
    /\ writable = TRUE
    /\ said = 0
    /\ sent = 0
    /\ archive = [a \in Anchors |-> Untold]
    /\ shredded = {}
    /\ run = [r \in Runners |-> Idle]
    /\ list = {}
    /\ raced = FALSE
    /\ reopened = FALSE
    /\ faults = 0

\* _persist_ticket: the status, over the newest payload.
Persist(status) == record' = [record EXCEPT !.status = status]
PersistAnchor(status, a) == record' = [record EXCEPT !.status = status, !.anchor = a]

At(r, step)  == run[r].step = step
Go(r, to)    == run' = [run EXCEPT ![r] = to]
Step(r, to)  == run' = [run EXCEPT ![r].step = to]
Stop(r)      == Go(r, Idle)
Fault        == faults < MaxFaults[mode] /\ faults' = faults + 1

\* A runner starts on the archive; the other ones may be in it.
Enter(r, step) ==
    /\ At(r, "idle")
    /\ Go(r, [Idle EXCEPT !.step = step])
    /\ raced' = (raced \/ \E q \in Runners \ {r} : ~At(q, "idle"))

-----------------------------------------------------------------------------
(* The archive, step by step                                               *)

Locked == writable' = FALSE

\* Renamed and read-only in one call, before the first message is read.
Freeze(r) ==
    /\ At(r, "freeze")
    /\ Exists
    /\ source' = "frozen"
    /\ Locked
    /\ Persist("closing")
    /\ Go(r, [run[r] EXCEPT !.step = "anchor", !.anchor = record.anchor])
    /\ UNCHANGED <<mode, said, threads, list, ghosts, faults>>

FreezeLost(r) ==
    /\ At(r, "freeze")
    /\ Fault
    /\ \/ Exists /\ source' = "frozen" /\ Locked
       \/ UNCHANGED <<source, writable>>
    /\ Stop(r)
    /\ UNCHANGED <<mode, record, said, threads, list, ghosts>>

\* The anchor message of the payload, or one with the marker of this ticket.
Found(r) ==
    IF run[r].anchor # 0 THEN {run[r].anchor}
    ELSE {a \in Anchors : archive[a].named}

WithAnchor(r, a) ==
    /\ PersistAnchor("closing", a)
    /\ Go(r, [run[r] EXCEPT !.step = "thread", !.anchor = a])

FindAnchor(r) ==
    /\ At(r, "anchor")
    /\ IF Found(r) = {}
       THEN Step(r, "send") /\ UNCHANGED record
       ELSE \E a \in Found(r) : WithAnchor(r, a)
    /\ UNCHANGED <<mode, channel, threads, list, ghosts, faults>>

NewAnchor ==
    /\ sent < MaxAnchors
    /\ sent' = sent + 1
    /\ archive' = [archive EXCEPT ![sent + 1].named = TRUE]

SendAnchor(r) ==
    /\ At(r, "send")
    /\ NewAnchor
    /\ WithAnchor(r, sent + 1)
    /\ UNCHANGED <<mode, channel, shredded, list, ghosts, faults>>

AnchorLost(r) ==
    /\ At(r, "send")
    /\ Fault
    /\ NewAnchor \/ UNCHANGED <<sent, archive>>
    /\ Stop(r)
    /\ UNCHANGED <<mode, record, channel, shredded, list, ghosts>>

\* The thread of the anchor message is found or created.
MakeThread(r) ==
    LET a == run[r].anchor
    IN  /\ At(r, "thread")
        /\ archive' = [archive EXCEPT ![a].thread = TRUE]
        /\ PersistAnchor("archiving", a)
        /\ Step(r, "read")
        /\ UNCHANGED <<mode, channel, sent, shredded, list, ghosts, faults>>

ThreadLost(r) ==
    /\ At(r, "thread")
    /\ Fault
    /\ \/ archive' = [archive EXCEPT ![run[r].anchor].thread = TRUE]
       \/ UNCHANGED archive
    /\ Stop(r)
    /\ UNCHANGED <<mode, record, channel, sent, shredded, list, ghosts>>

\* The markers are read once; with the last of them the copy is complete.
Read(r) ==
    LET a == run[r].anchor
    IN  /\ At(r, "read")
        /\ archive[a].thread
        /\ IF Complete \in archive[a].marked
           THEN Persist("archived_source_remaining") /\ Step(r, "clean")
           ELSE /\ Go(r, [run[r] EXCEPT !.step = "copy", !.seen = archive[a].marked])
                /\ UNCHANGED record
        /\ UNCHANGED <<mode, channel, threads, list, ghosts, faults>>

Post(a, p) ==
    archive' = [archive EXCEPT ![a].posted[p] = @ + 1, ![a].marked = @ \union {p}]

\* Mutant: the stored progress is trusted alone.
PostOnce_Always(r, p) == Post(run[r].anchor, p)

\* A piece whose marker was seen is not sent again.
PostOnce(r, p) ==
    IF p \in run[r].seen THEN UNCHANGED archive ELSE Post(run[r].anchor, p)

\* Mutant: the last message is taken for the end.
Following_Early(p) == IF p + 1 < said THEN p + 1 ELSE Complete

\* The next piece, the message after p or the closing line.
Following(p) == IF p < said THEN p + 1 ELSE Complete

\* The introduction: then the messages after the stored progress are fetched.
CopyIntro(r) ==
    /\ At(r, "copy") /\ run[r].next = 0
    /\ archive[run[r].anchor].thread
    /\ PostOnce(r, 0)
    /\ IF Exists THEN Go(r, [run[r] EXCEPT !.next = Following(record.checkpoint)]) ELSE Stop(r)
    /\ UNCHANGED <<mode, record, channel, sent, shredded, list, ghosts, faults>>

\* A message, and the progress after it.
CopyMessage(r) ==
    LET p == run[r].next
    IN  /\ At(r, "copy") /\ p \in 1 .. MaxSaid
        /\ archive[run[r].anchor].thread
        /\ PostOnce(r, p)
        /\ record' = [record EXCEPT !.status = "archiving", !.checkpoint = p]
        /\ Go(r, [run[r] EXCEPT !.next = Following(p)])
        /\ UNCHANGED <<mode, channel, sent, shredded, list, ghosts, faults>>

\* The upload of an attachment raises: its link is sent without a look at the
\* thread.
CopyLink(r) ==
    LET a == run[r].anchor
        p == run[r].next
    IN  /\ At(r, "copy") /\ p \in Files \ run[r].seen
        /\ archive[a].thread
        /\ Fault
        /\ \E n \in {1, 2} :
               archive' = [archive EXCEPT ![a].posted[p] = @ + n, ![a].marked = @ \union {p}]
        /\ record' = [record EXCEPT !.status = "archiving", !.checkpoint = p]
        /\ Go(r, [run[r] EXCEPT !.next = Following(p)])
        /\ UNCHANGED <<mode, channel, sent, shredded, list, ghosts>>

CopyComplete(r) ==
    /\ At(r, "copy") /\ run[r].next = Complete
    /\ archive[run[r].anchor].thread
    /\ PostOnce(r, Complete)
    /\ Persist("archived_source_remaining")
    /\ Step(r, "clean")
    /\ UNCHANGED <<mode, channel, sent, shredded, list, ghosts, faults>>

PieceLost(r) ==
    /\ At(r, "copy")
    /\ Fault
    /\ \/ archive[run[r].anchor].thread /\ PostOnce(r, run[r].next)
       \/ UNCHANGED archive
    /\ Stop(r)
    /\ UNCHANGED <<mode, record, channel, sent, shredded, list, ghosts>>

\* The channel or the thread is gone when it is needed.
Gone(r) ==
    /\ \/ At(r, "freeze") /\ ~Exists
       \/ run[r].step \in {"read", "copy"} /\ ~archive[run[r].anchor].thread
    /\ Stop(r)
    /\ UNCHANGED <<mode, record, channel, threads, list, ghosts, faults>>

Stripped(a, left) == [archive EXCEPT ![a].named = FALSE, ![a].marked = left]

\* The markers of the complete transcript are removed.
Clean(r) ==
    /\ At(r, "clean")
    /\ archive' = Stripped(run[r].anchor, {})
    /\ record' = [record EXCEPT !.status = "archived_source_remaining", !.clean = TRUE]
    /\ Step(r, "delete")
    /\ UNCHANGED <<mode, channel, sent, shredded, list, ghosts, faults>>

\* Some of them are left: the reconciler comes back to it.
CleanLost(r) ==
    /\ At(r, "clean")
    /\ Fault
    /\ \E left \in SUBSET archive[run[r].anchor].marked : archive' = Stripped(run[r].anchor, left)
    /\ Step(r, "delete")
    /\ UNCHANGED <<mode, record, channel, sent, shredded, list, ghosts>>

\* The channel is deleted, or was gone already.
Delete(r) ==
    /\ At(r, "delete")
    /\ source' = IF Exists THEN "removed" ELSE source
    /\ Persist("closed")
    /\ Stop(r)
    /\ UNCHANGED <<mode, writable, said, threads, list, ghosts, faults>>

DeleteLost(r) ==
    /\ At(r, "delete")
    /\ Exists
    /\ Fault
    /\ source' \in {source, "removed"}
    /\ Persist("archived_source_remaining")
    /\ Stop(r)
    /\ UNCHANGED <<mode, writable, said, threads, list, ghosts>>

-----------------------------------------------------------------------------
(* The close button, under the close lock                                  *)

MayClose ==
    /\ At(Button, "idle")
    /\ source = "open"
    /\ record.status \notin Closing

\* The intent is stored before the channel is touched.
Close ==
    /\ mode = "archive"
    /\ MayClose
    /\ Persist("closing")
    /\ Enter(Button, "freeze")
    /\ UNCHANGED <<mode, channel, threads, list, reopened, faults>>

\* Panels of the older kind: the opener is locked out before the channel looks
\* closed, and the record is written last.
Revoke ==
    /\ mode = "legacy"
    /\ MayClose
    /\ Locked
    /\ Step(Button, "rename")
    /\ UNCHANGED <<mode, record, source, said, threads, list, ghosts, faults>>

RevokeLost ==
    /\ mode = "legacy"
    /\ MayClose
    /\ Fault
    /\ Locked
    /\ UNCHANGED <<mode, record, source, said, threads, run, list, ghosts>>

Rename ==
    /\ At(Button, "rename")
    /\ source' = IF Exists THEN "closed" ELSE source
    /\ IF Exists THEN Step(Button, "notice") ELSE Stop(Button)
    /\ UNCHANGED <<mode, record, writable, said, threads, list, ghosts, faults>>

RenameLost ==
    /\ At(Button, "rename")
    /\ Fault
    /\ source' \in IF Exists THEN {source, "closed"} ELSE {source}
    /\ Stop(Button)
    /\ UNCHANGED <<mode, record, writable, said, threads, list, ghosts>>

Notice ==
    /\ At(Button, "notice")
    /\ IF Exists THEN Persist("closed") ELSE UNCHANGED record
    /\ Stop(Button)
    /\ UNCHANGED <<mode, channel, threads, list, ghosts, faults>>

\* Without the notice the record is not written.
NoticeLost ==
    /\ At(Button, "notice")
    /\ Fault
    /\ Stop(Button)
    /\ UNCHANGED <<mode, record, channel, threads, list, ghosts>>

-----------------------------------------------------------------------------
(* The reconciler                                                          *)

ListTickets ==
    /\ mode # "trial"
    /\ list = {}
    /\ At(Sweep, "idle")
    /\ list' = {record}
    /\ UNCHANGED <<mode, record, channel, threads, run, ghosts, faults>>

Look(s) == s \in list /\ At(Sweep, "idle")
Done(s) == list' = {} /\ UNCHANGED <<mode, channel, sent, shredded, run, raced>>

Reopens == reopened' = (reopened \/ record.status \in Closing)

\* A channel whose record was not in the list passes for one of older times.
Discover(s) ==
    /\ Look(s) /\ s.status = "none"
    /\ Exists
    /\ Persist(IF source = "closed" THEN "closed" ELSE "open")
    /\ Reopens
    /\ Done(s)
    /\ UNCHANGED <<archive, faults>>

\* A ticket that was open when listed is stored as open.
Reopen(s) ==
    /\ Look(s) /\ s.status \in {"open", "missing"}
    /\ IF Exists
       THEN Persist("open") /\ Reopens
       ELSE Persist("missing") /\ UNCHANGED reopened
    /\ Done(s)
    /\ UNCHANGED <<archive, faults>>

NeedsCleaning(s) ==
    /\ s.status \in {"closed", "archived_source_remaining"}
    /\ s.anchor # 0
    /\ ~s.clean

\* The rest of the markers is removed and the listed record written back.
CleanRecord(s) ==
    /\ Look(s) /\ NeedsCleaning(s)
    /\ archive' = Stripped(s.anchor, {})
    /\ record' = [s EXCEPT !.clean = TRUE]
    /\ list' = {record'}
    /\ UNCHANGED <<mode, channel, sent, shredded, run, ghosts, faults>>

CleanRecordLost(s) ==
    /\ Look(s) /\ NeedsCleaning(s)
    /\ Fault
    /\ \E left \in SUBSET archive[s.anchor].marked : archive' = Stripped(s.anchor, left)
    /\ list' = {[s EXCEPT !.clean = TRUE]}
    /\ UNCHANGED <<mode, record, channel, sent, shredded, run, ghosts>>

\* A complete archive whose channel is still there, or gone by now.
Settle(s) ==
    /\ Look(s) /\ s.status = "archived_source_remaining" /\ ~NeedsCleaning(s)
    /\ IF Exists
       THEN Enter(Sweep, "delete") /\ UNCHANGED record
       ELSE Persist("closed") /\ UNCHANGED <<run, raced>>
    /\ list' = {}
    /\ UNCHANGED <<mode, channel, threads, reopened, faults>>

\* Mutant: an archive is resumed from its first copied message on.
Unfinished_Copying(s) == s.status = "archiving"

Unfinished(s) == s.status \in {"closing", "archiving"}

Resume(s) ==
    /\ Look(s) /\ Unfinished(s)
    /\ Exists
    /\ Enter(Sweep, "freeze")
    /\ list' = {}
    /\ UNCHANGED <<mode, record, channel, threads, reopened, faults>>

\* The thread under the anchor message of s shows the whole transcript.
CompleteArchives(s) ==
    {a \in Anchors : /\ IF s.anchor # 0 THEN a = s.anchor ELSE archive[a].named
                     /\ archive[a].thread
                     /\ Complete \in archive[a].marked}

\* The channel disappeared during the archive.
SourceMissing(s) ==
    /\ Look(s) /\ Unfinished(s)
    /\ ~Exists
    /\ IF CompleteArchives(s) = {}
       THEN Persist("archive_incomplete_source_missing") /\ UNCHANGED archive
       ELSE \E a \in CompleteArchives(s) :
               /\ archive' = Stripped(a, {})
               /\ record' = [s EXCEPT !.status = "closed", !.clean = TRUE]
    /\ Done(s)
    /\ UNCHANGED <<reopened, faults>>

\* Discord does not answer, or the record needs nothing.
Skip(s) ==
    /\ Look(s)
    /\ IF s.status \in {"closed", "archive_incomplete_source_missing"} /\ ~NeedsCleaning(s)
       THEN UNCHANGED faults ELSE Fault
    /\ Done(s)
    /\ UNCHANGED <<record, archive, reopened>>

-----------------------------------------------------------------------------
(* The surroundings                                                        *)

Say ==
    /\ writable
    /\ source = "open"
    /\ said < MaxSaid
    /\ said' = said + 1
    /\ UNCHANGED <<mode, record, source, writable, threads, run, list, ghosts, faults>>

DeletedByModerator ==
    /\ Exists
    /\ Fault
    /\ source' = "deleted"
    /\ UNCHANGED <<mode, record, writable, said, threads, run, list, ghosts>>

ThreadDeleted(a) ==
    /\ archive[a].thread
    /\ Fault
    /\ shredded' = shredded \union {p \in Pieces : archive[a].posted[p] > 0}
    /\ archive' = [archive EXCEPT ![a] = [Untold EXCEPT !.named = archive[a].named]]
    /\ UNCHANGED <<mode, record, channel, sent, run, list, ghosts>>

Crash ==
    /\ Fault
    /\ run' = [r \in Runners |-> Idle]
    /\ list' = {}
    /\ UNCHANGED <<mode, record, channel, threads, ghosts>>

Works(r) ==
    \/ Freeze(r) \/ FindAnchor(r) \/ SendAnchor(r) \/ MakeThread(r) \/ Read(r)
    \/ CopyIntro(r) \/ CopyMessage(r) \/ CopyComplete(r) \/ Clean(r) \/ Delete(r) \/ Gone(r)
Fails(r) ==
    \/ FreezeLost(r) \/ AnchorLost(r) \/ ThreadLost(r) \/ CopyLink(r)
    \/ PieceLost(r) \/ CleanLost(r) \/ DeleteLost(r)
CloseClick   == Close \/ Revoke \/ RevokeLost \/ Rename \/ RenameLost \/ Notice \/ NoticeLost
Reconcile(s) ==
    \/ Discover(s) \/ Reopen(s) \/ CleanRecord(s) \/ Settle(s) \/ Resume(s) \/ SourceMissing(s)
Passes(s)    == CleanRecordLost(s) \/ Skip(s)
Surroundings == Say \/ DeletedByModerator \/ Crash \/ \E a \in Anchors : ThreadDeleted(a)

Next ==
    \/ \E r \in Runners : Works(r) \/ Fails(r)
    \/ CloseClick
    \/ ListTickets
    \/ \E s \in list : Reconcile(s) \/ Passes(s)
    \/ Surroundings

Spec == Init /\ [][Next]_vars

(***************************************************************************)
(* A call that is on its way ends, and the reconciler runs every minute.   *)
(* Failures are rationed by MaxFaults, so nobody has to be strongly fair.  *)
(***************************************************************************)
Fairness ==
    /\ \A r \in Runners : WF_vars(Works(r))
    /\ WF_vars(ListTickets)
    /\ WF_vars(\E s \in list : Reconcile(s) \/ Skip(s))

FairSpec == Spec /\ Fairness

-----------------------------------------------------------------------------
(* Properties                                                              *)

\* Values stay in their domains.
TypeOK ==
    /\ mode \in Modes
    /\ record \in [status : Status, anchor : 0 .. MaxAnchors, checkpoint : 0 .. MaxSaid,
                    clean : BOOLEAN]
    /\ source \in {"none", "open", "frozen", "closed", "removed", "deleted"}
    /\ writable \in BOOLEAN
    /\ said \in 0 .. MaxSaid
    /\ sent \in 0 .. MaxAnchors
    /\ archive \in [Anchors -> [named : BOOLEAN, thread : BOOLEAN, posted : [Pieces -> Nat],
                                marked : SUBSET Pieces]]
    /\ shredded \subseteq Pieces
    /\ run \in [Runners -> [step : {"idle", "freeze", "anchor", "send", "thread", "read", "copy",
                                   "clean", "delete", "rename", "notice"},
                            anchor : 0 .. MaxAnchors, seen : SUBSET Pieces, next : Pieces]]
    /\ Cardinality(list) <= 1
    /\ raced \in BOOLEAN
    /\ reopened \in BOOLEAN
    /\ faults \in 0 .. MaxFaults[mode]

Archived(p) == p \in shredded \/ \E a \in Anchors : archive[a].posted[p] > 0

\* Once a ticket is stored as archived, and before the bot deletes its channel,
\* each of its messages was copied, whoever took part in the archive and
\* wherever it broke off.
DeletedOnlyWhenCopied ==
    mode # "legacy" =>
        (source = "removed" \/ record.status \in {"archived_source_remaining", "closed"}
            => \A p \in 1 .. said : Archived(p))

\* A message is not posted a second time by an archive that is taken up again:
\* "will resume without duplicating completed entries after restart".  That
\* needs one runner at a time, and does not hold for the link of an upload.
CopiedOnce ==
    ~raced => \A p \in (1 .. MaxSaid) \ Files : \A a, b \in Anchors :
        /\ archive[a].posted[p] <= 1
        /\ archive[a].posted[p] > 0 /\ archive[b].posted[p] > 0 => a = b

\* A channel that looks closed cannot be written to by its opener.
ClosedIsLocked == source \in {"closed", "frozen"} => ~writable

\* A frozen ticket is archived and its channel goes away in the end, unless the
\* reconciler wrote "open" over the state that would have been resumed.
FrozenIsFinished == source = "frozen" /\ ~reopened ~> ~Exists \/ reopened
=============================================================================

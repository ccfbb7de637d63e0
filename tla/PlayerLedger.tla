---------------------------- MODULE PlayerLedger ----------------------------
(***************************************************************************)
(* The SQLite ledger of one guild generation (local_repository.py): who is *)
(* registered as which character, their Silver, the immutable balance      *)
(* history, and the cached Siphon column of the linked Sheet.              *)
(*                                                                         *)
(* One action per repository transaction that changes something.  Every    *)
(* transaction starts with _require_active_ledger: a caller may hold the   *)
(* id of a ledger archived since, so Archive can come before any of them.  *)
(* A transaction that raises is rolled back and changes nothing, so the    *)
(* outcomes of a conflict, an exact replay or an overflow are steps that   *)
(* are not taken.                                                          *)
(*                                                                         *)
(* Abstractions.  A nickname is its casefolded key.  An idempotency key    *)
(* stands for the event id derived from it.  A Siphon value is the Silver  *)
(* it was computed from, so a value is right when it is the player's       *)
(* Silver.  Integers are bounded by MaxInteger as SQLite's by 2^63 - 1.    *)
(***************************************************************************)
EXTENDS Integers, Sequences, FiniteSetsExt

CONSTANTS
    Users,           \* Discord accounts
    Names,           \* nickname keys
    AlbionIds,
    NoName, NoAlbion,
    Keys,            \* idempotency keys of commands and imported rows
    Deltas,          \* amounts of balance commands
    Amounts,         \* Silver per lootsplit participant, imported amounts
    PartySize,       \* bound: credits of a lootsplit
    MaxInteger,      \* the signed 64-bit maximum
    MaxRevision,     \* bound: changes per player
    MaxHistory       \* bound: audit rows

NoSiphon == -1

ASSUME LedgerAssumption ==
    /\ NoName \notin Names
    /\ NoAlbion \notin AlbionIds
    /\ Deltas \subseteq Int
    /\ Amounts \subseteq Nat
    /\ PartySize \in Nat \ {0}
    /\ MaxInteger \in Nat
    /\ MaxRevision \in Nat
    /\ MaxHistory \in Nat

VARIABLES
    open,          \* the ledger is the active generation of its server
    nickname, albion, active, silver, earned, revision,
                   \* registered_players; revision 0 = no row
    siphon, siphonRevision,
                   \* the cached Siphon and the revision it belongs to
    history,       \* balance_history, in commit order
    outbox,        \* google_sync_outbox: events ever enqueued
    syncing, read, \* a Siphon synchronization between its read and its write
    opening        \* history variable: Silver a player's row started with

players == <<nickname, albion, active, silver, earned, revision>>
cache   == <<siphon, siphonRevision>>
log     == <<history, outbox>>
sync    == <<syncing, read>>
vars    == <<open, players, cache, log, sync, opening>>

Registered(u) == revision[u] > 0
Larger(a, b)  == IF a > b THEN a ELSE b

\* The outbox carries the revision of each player row its event describes.
Upsert(u, r)    == [type |-> "player.upsert", key |-> <<u, r>>, carries |-> {<<u, r>>}]
Changed(k, u, r) == [type |-> "balance.changed", key |-> k, carries |-> {<<u, r>>}]
Applied(k, rs)  == [type |-> "lootsplit.applied", key |-> k, carries |-> rs]

Row(k, i, kind, u, p, d) ==
    [event |-> <<kind, k, i>>, user |-> u, previous |-> p, actual |-> d, updated |-> p + d]

\* Mutant: a retried command is not recognised.
Used_Never(kind, k) == FALSE

\* The key already has its audit row: an exact replay, or a conflict.
Used(kind, k) == \E i \in DOMAIN history : history[i].event = <<kind, k, 0>>

Init ==
    /\ open = TRUE
    /\ nickname = [u \in Users |-> NoName]
    /\ albion = [u \in Users |-> NoAlbion]
    /\ active = [u \in Users |-> FALSE]
    /\ silver = [u \in Users |-> 0]
    /\ earned = [u \in Users |-> 0]
    /\ revision = [u \in Users |-> 0]
    /\ siphon = [u \in Users |-> NoSiphon]
    /\ siphonRevision = [u \in Users |-> 0]
    /\ history = <<>>
    /\ outbox = {}
    /\ syncing = {}
    /\ read = [u \in Users |-> <<0, 0>>]
    /\ opening = [u \in Users |-> 0]

-----------------------------------------------------------------------------
(* Registration and membership                                             *)

\* Mutant: the Albion id is not looked up.
NoConflict_NicknameOnly(u, n, a) == \A v \in Users \ {u} : nickname[v] # n

\* Nobody else in the ledger owns the nickname or the Albion character.
NoConflict(u, n, a) ==
    /\ \A v \in Users \ {u} : nickname[v] # n
    /\ a # NoAlbion => \A v \in Users \ {u} : albion[v] # a

Create(u, n, a) ==
    /\ open
    /\ ~Registered(u)
    /\ NoConflict(u, n, a)
    /\ nickname' = [nickname EXCEPT ![u] = n]
    /\ albion' = [albion EXCEPT ![u] = a]
    /\ active' = [active EXCEPT ![u] = TRUE]
    /\ revision' = [revision EXCEPT ![u] = 1]
    /\ outbox' = outbox \union {Upsert(u, 1)}
    /\ UNCHANGED <<open, silver, earned, cache, history, sync, opening>>

\* An active player registers again: only a missing Albion id is filled in,
\* without a new revision and without an event.
FillAlbionId(u, n, a) ==
    /\ open
    /\ active[u]
    /\ NoConflict(u, n, a)
    /\ nickname[u] = n
    /\ albion[u] = NoAlbion
    /\ a # NoAlbion
    /\ albion' = [albion EXCEPT ![u] = a]
    /\ UNCHANGED <<open, nickname, active, silver, earned, revision, cache, log,
                   sync, opening>>

\* A former member returns, or a moderator (`replace') changes the character.
\* The exact current character of an active player is not a change, the same
\* name in other letters is.
Replace(u, n, a, replace) ==
    /\ open
    /\ Registered(u)
    /\ active[u] => replace
    /\ NoConflict(u, n, a)
    /\ albion' = [albion EXCEPT ![u] = IF a = NoAlbion THEN @ ELSE a]
    /\ nickname' = [nickname EXCEPT ![u] = n]
    /\ active' = [active EXCEPT ![u] = TRUE]
    /\ revision[u] < MaxRevision
    /\ revision' = [revision EXCEPT ![u] = @ + 1]
    /\ outbox' = outbox \union {Upsert(u, revision[u] + 1)}
    /\ UNCHANGED <<open, silver, earned, cache, history, sync, opening>>

\* Mutant: the event is derived from the revision before the change.
SetInGuild_OldRevision(u, value) ==
    /\ open
    /\ Registered(u)
    /\ active[u] # value
    /\ active' = [active EXCEPT ![u] = value]
    /\ revision[u] < MaxRevision
    /\ revision' = [revision EXCEPT ![u] = @ + 1]
    /\ outbox' = outbox \union {Upsert(u, revision[u])}
    /\ UNCHANGED <<open, nickname, albion, silver, earned, cache, history, sync,
                   opening>>

SetInGuild(u, value) ==
    /\ open
    /\ Registered(u)
    /\ active[u] # value
    /\ active' = [active EXCEPT ![u] = value]
    /\ revision[u] < MaxRevision
    /\ revision' = [revision EXCEPT ![u] = @ + 1]
    /\ outbox' = outbox \union {Upsert(u, revision[u] + 1)}
    /\ UNCHANGED <<open, nickname, albion, silver, earned, cache, history, sync,
                   opening>>

\* The cutover imports a Sheet player that is not registered locally, with
\* the Siphon of the same Sheet row if it has one, and enqueues nothing.
ImportPlayer(u, n, a, value, inGuild, withSiphon) ==
    /\ open
    /\ ~Registered(u)
    /\ NoConflict(u, n, a)
    /\ nickname' = [nickname EXCEPT ![u] = n]
    /\ albion' = [albion EXCEPT ![u] = a]
    /\ active' = [active EXCEPT ![u] = inGuild]
    /\ silver' = [silver EXCEPT ![u] = value]
    /\ opening' = [opening EXCEPT ![u] = value]
    /\ revision' = [revision EXCEPT ![u] = 1]
    /\ siphon' = [siphon EXCEPT ![u] = IF withSiphon THEN value ELSE NoSiphon]
    /\ siphonRevision' = [siphonRevision EXCEPT ![u] = IF withSiphon THEN 1 ELSE 0]
    /\ UNCHANGED <<open, earned, log, sync>>

-----------------------------------------------------------------------------
(* Economy                                                                 *)

\* A withdrawal stops at zero.
Withdrawn(u, delta) == Larger(0, silver[u] + delta)

Gain(d) == Larger(d, 0)

\* The audit row keeps what really moved; the revision moves only with the
\* balance, the event is written in any case.
ChangeBalance(u, delta, k) ==
    /\ open
    /\ ~Used("manual", k)
    /\ Registered(u)
    /\ Len(history) < MaxHistory
    /\ LET updated == Withdrawn(u, delta)
           actual  == updated - silver[u]
           next    == revision[u] + IF actual # 0 THEN 1 ELSE 0
       IN  /\ updated <= MaxInteger
           /\ earned[u] + Gain(actual) <= MaxInteger
           /\ next <= MaxRevision
           /\ silver' = [silver EXCEPT ![u] = updated]
           /\ earned' = [earned EXCEPT ![u] = @ + Gain(actual)]
           /\ revision' = [revision EXCEPT ![u] = next]
           /\ history' = Append(history, Row(k, 0, "manual", u, silver[u], actual))
           /\ outbox' = outbox \union {Changed(k, u, next)}
    /\ UNCHANGED <<open, nickname, albion, active, cache, sync, opening>>

\* A lootsplit resolves the named participants to players (`who', in order; a
\* name nobody registered is only reported as missing, a name given twice is
\* paid twice) and credits them in one transaction: one credit that overflows
\* undoes the batch.
CreditsBefore(who, i) == Cardinality({j \in DOMAIN who : j < i /\ who[j] = who[i]})
CreditsOf(who, u)     == Cardinality({j \in DOMAIN who : who[j] = u})
Paid(k)               == \E e \in outbox : e.type = "lootsplit.applied" /\ e.key = k

\* Mutant: every line reads the row as it was before the batch.
CreditRow_Stale(who, amount, k, i) ==
    Row(k, i, "lootsplit", who[i], silver[who[i]], amount)

CreditRow(who, amount, k, i) ==
    Row(k, i, "lootsplit", who[i], silver[who[i]] + amount * CreditsBefore(who, i), amount)

ApplyLootsplit(who, amount, k) ==
    LET step == IF amount = 0 THEN 0 ELSE 1 IN
    /\ open
    /\ ~Paid(k)
    /\ \A i \in DOMAIN who : Registered(who[i])
    /\ Len(history) + Len(who) <= MaxHistory
    /\ \A u \in Users : /\ silver[u] + amount * CreditsOf(who, u) <= MaxInteger
                        /\ earned[u] + amount * CreditsOf(who, u) <= MaxInteger
                        /\ revision[u] + step * CreditsOf(who, u) <= MaxRevision
    /\ silver' = [u \in Users |-> silver[u] + amount * CreditsOf(who, u)]
    /\ earned' = [u \in Users |-> earned[u] + amount * CreditsOf(who, u)]
    /\ revision' = [u \in Users |-> revision[u] + step * CreditsOf(who, u)]
    /\ history' = history \o [i \in DOMAIN who |-> CreditRow(who, amount, k, i)]
    /\ outbox' = outbox \union {Applied(k,
          {<<who[i], revision[who[i]] + step * (CreditsBefore(who, i) + 1)>> : i \in DOMAIN who})}
    /\ UNCHANGED <<open, nickname, albion, active, cache, sync, opening>>

\* An imported Balance history row counts towards lifetime earnings only; the
\* imported Silver already contains it.  (A row of a negative amount, or of a name
\* nobody has, is left out: it is noted in the history and changes no player.)
ImportHistory(u, amount, k) ==
    /\ open
    /\ ~Used("sheet_import", k)
    /\ Registered(u)
    /\ Len(history) < MaxHistory
    /\ earned[u] + amount <= MaxInteger
    /\ earned' = [earned EXCEPT ![u] = @ + amount]
    /\ history' = Append(history, Row(k, 0, "sheet_import", u, 0, amount))
    /\ UNCHANGED <<open, nickname, albion, active, silver, revision, cache, outbox,
                   sync, opening>>

-----------------------------------------------------------------------------
(* Siphon synchronization                                                  *)

\* The Sheet and the active players are read; rows whose Silver agrees are
\* kept with the player's revision and the Siphon of that Silver.
ReadSiphon(S) ==
    /\ open
    /\ syncing = {}
    /\ S # {}
    /\ \A u \in S : Registered(u) /\ active[u]
    /\ syncing' = S
    /\ read' = [u \in Users |-> IF u \in S THEN <<revision[u], silver[u]>> ELSE <<0, 0>>]
    /\ UNCHANGED <<open, players, cache, log, opening>>

\* Mutant: the revision that was read is not compared.
CacheSiphons_Unchecked ==
    /\ syncing # {}
    /\ IF open
       THEN /\ siphon' = [u \in Users |-> IF u \in syncing THEN read[u][2] ELSE NoSiphon]
            /\ siphonRevision' = [u \in Users |-> IF u \in syncing THEN revision[u] ELSE 0]
       ELSE UNCHANGED cache
    /\ syncing' = {}
    /\ read' = [u \in Users |-> <<0, 0>>]
    /\ UNCHANGED <<open, players, log, opening>>

\* One transaction clears the cache and stores the rows still at the revision
\* that was read.
CacheSiphons ==
    LET accepted == {u \in syncing : revision[u] = read[u][1]} IN
    /\ syncing # {}
    /\ IF open
       THEN /\ siphon' = [u \in Users |-> IF u \in accepted THEN read[u][2] ELSE NoSiphon]
            /\ siphonRevision' = [u \in Users |-> IF u \in accepted THEN revision[u] ELSE 0]
       ELSE UNCHANGED cache
    /\ syncing' = {}
    /\ read' = [u \in Users |-> <<0, 0>>]
    /\ UNCHANGED <<open, players, log, opening>>

\* The guild is reconfigured or removed: this generation is closed for good.
Archive ==
    /\ open
    /\ open' = FALSE
    /\ UNCHANGED <<players, cache, log, sync, opening>>

Parties == UNION {[1 .. k -> Users] : k \in 0 .. PartySize}

Next ==
    \/ \E u \in Users, n \in Names, a \in AlbionIds \union {NoAlbion} :
         \/ Create(u, n, a)
         \/ FillAlbionId(u, n, a)
         \/ \E replace \in BOOLEAN : Replace(u, n, a, replace)
         \/ \E value \in Amounts, inGuild, withSiphon \in BOOLEAN :
              ImportPlayer(u, n, a, value, inGuild, withSiphon)
    \/ \E u \in Users, value \in BOOLEAN : SetInGuild(u, value)
    \/ \E u \in Users, delta \in Deltas, k \in Keys : ChangeBalance(u, delta, k)
    \/ \E who \in Parties, amount \in Amounts, k \in Keys :
         ApplyLootsplit(who, amount, k)
    \/ \E u \in Users, amount \in Amounts, k \in Keys : ImportHistory(u, amount, k)
    \/ \E S \in SUBSET Users : ReadSiphon(S)
    \/ CacheSiphons
    \/ Archive

Spec == Init /\ [][Next]_vars

-----------------------------------------------------------------------------
(* Properties                                                              *)

TypeOK ==
    /\ open \in BOOLEAN
    /\ nickname \in [Users -> Names \union {NoName}]
    /\ albion \in [Users -> AlbionIds \union {NoAlbion}]
    /\ active \in [Users -> BOOLEAN]
    /\ silver \in [Users -> Nat]
    /\ earned \in [Users -> Nat]
    /\ revision \in [Users -> Nat]
    /\ siphon \in [Users -> Nat \union {NoSiphon}]
    /\ siphonRevision \in [Users -> Nat]
    /\ history \in Seq([event : {"manual", "lootsplit", "sheet_import"} \X Keys \X Nat,
                        user : Users, previous : Nat, actual : Int, updated : Nat])
    /\ syncing \subseteq Users
    /\ read \in [Users -> Nat \X Nat]
    /\ opening \in [Users -> Nat]

\* A nickname and an Albion character belong to at most one Discord account
\* of the ledger, through registrations, returns and character changes.
OwnershipIsUnique ==
    \A u, v \in Users : u # v =>
        /\ Registered(u) => nickname[u] # nickname[v]
        /\ albion[u] # NoAlbion => albion[u] # albion[v]

\* The rows that moved a player's Silver, imported ones being earnings only.
MovesOf(u) ==
    {i \in DOMAIN history : history[i].user = u /\ history[i].event[1] # "sheet_import"}

\* The audit history explains every balance: a player's rows form one chain
\* from the opening balance to the current Silver, also when one lootsplit
\* pays the same player twice.
AuditExplainsSilver ==
    \A u \in Users :
        LET rows == MovesOf(u)
            Before(i) == {j \in rows : j < i}
        IN  /\ \A i \in rows : history[i].previous =
                  IF Before(i) = {} THEN opening[u] ELSE history[Max(Before(i))].updated
            /\ silver[u] = IF rows = {} THEN opening[u] ELSE history[Max(rows)].updated

\* What an audit row adds to the earnings of a player.
Credit(u, i) == IF history[i].user = u THEN Larger(history[i].actual, 0) ELSE 0

\* The sum over the whole history.
Credits(u) ==
    LET sum[i \in 0 .. Len(history)] == IF i = 0 THEN 0 ELSE sum[i - 1] + Credit(u, i)
    IN  sum[Len(history)]

\* Lifetime earnings are exactly the positive amounts of the audit history:
\* withdrawals never reduce them, no credit is counted twice.
EarningsAreCredits == \A u \in Users : earned[u] = Credits(u)

\* The audit history accounts for all the money of a player, now and over the
\* whole lifetime.
AuditExplainsPlayers == AuditExplainsSilver /\ EarningsAreCredits

\* No command or lootsplit line is recorded twice.
RecordedOnce ==
    \A i, j \in DOMAIN history : history[i].event = history[j].event => i = j

\* Every version of a player row the outbox must know of travels with an
\* event, and the next registration or membership event has an unused id, so
\* its transaction cannot fail as an idempotency conflict.
RevisionsAreAnnounced ==
    \A u \in Users :
        /\ \A r \in 2 .. revision[u] : \E e \in outbox : <<u, r>> \in e.carries
        /\ \A e \in outbox : e.type = "player.upsert" /\ e.key[1] = u => e.key[2] <= revision[u]

\* A Siphon that claims the player's current revision was computed from the
\* player's current Silver, however the ledger moved during the Sheet read.
CurrentSiphonIsRight ==
    \A u \in Users : siphonRevision[u] > 0 /\ siphonRevision[u] = revision[u]
                        => siphon[u] = silver[u]
=============================================================================

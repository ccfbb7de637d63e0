------------------------- MODULE PlayerLedgerProofs -------------------------
(***************************************************************************)
(* Safety of the player ledger for any number of accounts, names, keys and *)
(* amounts, and lootsplits and histories of any length.                    *)
(***************************************************************************)
EXTENDS PlayerLedger, TLAPS, FiniteSetTheorems, SequenceTheorems

USE LedgerAssumption DEF LedgerAssumption, players, cache, log, sync

Rows == [event : {"manual", "lootsplit", "sheet_import"} \X Keys \X Nat,
         user : Users, previous : Nat, actual : Int, updated : Nat]

-----------------------------------------------------------------------------
(* Lootsplits                                                              *)

\* The credits of a player in a lootsplit are counted by natural numbers.
LEMMA CreditTypes ==
  ASSUME NEW who \in Parties
  PROVE  /\ \E n \in Nat : who \in [1 .. n -> Users]
         /\ \A u \in Users : CreditsOf(who, u) \in Nat
         /\ \A i \in DOMAIN who : CreditsBefore(who, i) \in Nat
<1>1. PICK n \in Nat : who \in [1 .. n -> Users]
  BY DEF Parties
<1>2. IsFiniteSet(1 .. n)
  BY FS_Interval
<1>3. ASSUME NEW T \in SUBSET (1 .. n) PROVE Cardinality(T) \in Nat
  BY <1>2, FS_Subset, FS_CardinalityType
<1>4. ASSUME NEW u \in Users PROVE CreditsOf(who, u) \in Nat
  BY <1>1, <1>3 DEF CreditsOf
<1>5. ASSUME NEW i \in DOMAIN who PROVE CreditsBefore(who, i) \in Nat
  BY <1>1, <1>3 DEF CreditsBefore
<1> QED
  BY <1>1, <1>4, <1>5

\* The audit rows of a lootsplit.
Lines(who, amount, k) == [i \in DOMAIN who |-> CreditRow(who, amount, k, i)]

LEMMA LineTypes ==
  ASSUME TypeOK, NEW who \in Parties, NEW amount \in Amounts, NEW k \in Keys
  PROVE  Lines(who, amount, k) \in Seq(Rows)
<1>1. PICK n \in Nat : who \in [1 .. n -> Users]
  BY CreditTypes
<1>2. ASSUME NEW i \in 1 .. n PROVE CreditRow(who, amount, k, i) \in Rows
  <2>1. CreditsBefore(who, i) \in Nat /\ who[i] \in Users
    BY <1>1, CreditTypes
  <2>2. amount * CreditsBefore(who, i) \in Nat
    BY <2>1
  <2>3. silver[who[i]] + amount * CreditsBefore(who, i) \in Nat
    <3>1. silver[who[i]] \in Nat
      BY <2>1 DEF TypeOK
    <3> DEFINE sum == amount * CreditsBefore(who, i)
    <3> HIDE DEF sum
    <3>2. silver[who[i]] + sum \in Nat
      BY <2>2, <3>1 DEF sum
    <3> QED
      BY <3>2 DEF sum
  <2> QED
    BY <2>1, <2>3, <1>1 DEF CreditRow, Row, Rows
<1>3. Lines(who, amount, k) \in [1 .. n -> Rows]
  BY <1>1, <1>2 DEF Lines
<1> QED
  BY <1>3

\* Each new balance and revision is a natural number.
LEMMA PaidTypes ==
  ASSUME TypeOK, NEW who \in Parties, NEW amount \in Amounts, NEW u \in Users
  PROVE  /\ silver[u] + amount * CreditsOf(who, u) \in Nat
         /\ earned[u] + amount * CreditsOf(who, u) \in Nat
         /\ revision[u] + CreditsOf(who, u) \in Nat
<1>1. CreditsOf(who, u) \in Nat
  BY CreditTypes
<1> DEFINE sum == amount * CreditsOf(who, u)
<1>2. sum \in Nat
  BY <1>1
<1>3. silver[u] \in Nat /\ earned[u] \in Nat /\ revision[u] \in Nat
  BY DEF TypeOK
<1> HIDE DEF sum
<1>4. silver[u] + sum \in Nat /\ earned[u] + sum \in Nat
  BY <1>2, <1>3
<1> QED
  BY <1>1, <1>3, <1>4 DEF sum

-----------------------------------------------------------------------------
(* Types                                                                   *)

\* A withdrawal leaves a natural number.
LEMMA WithdrawnTypes ==
  ASSUME TypeOK, NEW u \in Users, NEW delta \in Deltas
  PROVE  silver[u] \in Nat /\ Withdrawn(u, delta) \in Nat
<1>1. silver[u] \in Nat
  BY DEF TypeOK
<1>2. silver[u] + delta \in Int
  BY <1>1
<1> QED
  BY <1>1, <1>2 DEF Withdrawn, Larger

LEMMA TypeInit == Init => TypeOK
BY DEF Init, TypeOK, NoSiphon

\* Every transaction preserves the types.
LEMMA TypeStep == TypeOK /\ [Next]_vars => TypeOK'
<1> SUFFICES ASSUME TypeOK, [Next]_vars PROVE TypeOK'
  OBVIOUS
<1> USE DEF NoSiphon
<1>1. ASSUME NEW u \in Users, NEW n \in Names, NEW a \in AlbionIds \union {NoAlbion},
             Create(u, n, a)
      PROVE  TypeOK'
  BY <1>1 DEF Create, TypeOK
<1>2. ASSUME NEW u \in Users, NEW n \in Names, NEW a \in AlbionIds \union {NoAlbion},
             FillAlbionId(u, n, a)
      PROVE  TypeOK'
  BY <1>2 DEF FillAlbionId, TypeOK
<1>3. ASSUME NEW u \in Users, NEW n \in Names, NEW a \in AlbionIds \union {NoAlbion},
             NEW replace \in BOOLEAN, Replace(u, n, a, replace)
      PROVE  TypeOK'
  <2>1. revision' \in [Users -> Nat]
    <3>1. revision \in [Users -> Nat]
      BY DEF TypeOK
    <3> QED
      BY <1>3, <3>1 DEF Replace
  <2> QED
    BY <1>3, <2>1 DEF Replace, TypeOK
<1>4. ASSUME NEW u \in Users, NEW n \in Names, NEW a \in AlbionIds \union {NoAlbion},
             NEW value \in Amounts, NEW inGuild \in BOOLEAN, NEW withSiphon \in BOOLEAN,
             ImportPlayer(u, n, a, value, inGuild, withSiphon)
      PROVE  TypeOK'
  BY <1>4 DEF ImportPlayer, TypeOK
<1>5. ASSUME NEW u \in Users, NEW value \in BOOLEAN, SetInGuild(u, value) PROVE TypeOK'
  <2>1. revision' \in [Users -> Nat]
    <3>1. revision \in [Users -> Nat]
      BY DEF TypeOK
    <3> QED
      BY <1>5, <3>1 DEF SetInGuild
  <2> QED
    BY <1>5, <2>1 DEF SetInGuild, TypeOK
<1>6. ASSUME NEW u \in Users, NEW delta \in Deltas, NEW k \in Keys, ChangeBalance(u, delta, k)
      PROVE  TypeOK'
  <2> DEFINE updated == Withdrawn(u, delta)
             actual  == updated - silver[u]
  <2>1. updated \in Nat /\ actual \in Int /\ Gain(actual) \in Nat
    BY WithdrawnTypes DEF Larger, Gain
  <2>2. Row(k, 0, "manual", u, silver[u], actual) \in Rows
    <3>1. silver[u] \in Nat /\ silver[u] + actual \in Nat
      BY <2>1 DEF TypeOK
    <3> QED
      BY <2>1, <3>1, SMTT(20) DEF Row, Rows
  <2>3. history' \in Seq(Rows)
    BY <1>6, <2>2 DEF ChangeBalance, TypeOK, Rows
  <2>4. revision' \in [Users -> Nat]
    <3>1. revision' = [revision EXCEPT ![u] = revision[u] + IF actual # 0 THEN 1 ELSE 0]
      BY <1>6 DEF ChangeBalance
    <3>2. revision \in [Users -> Nat]
      BY DEF TypeOK
    <3> HIDE DEF actual
    <3> QED
      BY <3>1, <3>2
  <2>5. silver' \in [Users -> Nat] /\ earned' \in [Users -> Nat]
    <3>1. /\ silver' = [silver EXCEPT ![u] = updated]
          /\ earned' = [earned EXCEPT ![u] = @ + Gain(actual)]
      BY <1>6 DEF ChangeBalance
    <3> HIDE DEF updated, actual
    <3> QED
      BY <2>1, <3>1 DEF TypeOK
  <2> QED
    BY <1>6, <2>3, <2>4, <2>5 DEF ChangeBalance, TypeOK, Rows
<1>7. ASSUME NEW who \in Parties, NEW amount \in Amounts, NEW k \in Keys,
             ApplyLootsplit(who, amount, k)
      PROVE  TypeOK'
  <2>1. silver' \in [Users -> Nat] /\ earned' \in [Users -> Nat]
    BY <1>7, PaidTypes DEF ApplyLootsplit
  <2>2. revision' \in [Users -> Nat]
    <3>1. \A u \in Users : CreditsOf(who, u) \in Nat
      BY CreditTypes
    <3>2. \A u \in Users : revision[u] + (IF amount = 0 THEN 0 ELSE 1) * CreditsOf(who, u) \in Nat
      BY <3>1 DEF TypeOK
    <3> QED
      BY <1>7, <3>2 DEF ApplyLootsplit
  <2>3. history' \in Seq(Rows)
    <3>1. history \in Seq(Rows) /\ Lines(who, amount, k) \in Seq(Rows)
      BY LineTypes DEF TypeOK, Rows
    <3>2. history' = history \o Lines(who, amount, k)
      BY <1>7 DEF ApplyLootsplit, Lines
    <3> QED
      BY <3>1, <3>2, ConcatProperties
  <2> QED
    BY <1>7, <2>1, <2>2, <2>3 DEF ApplyLootsplit, TypeOK, Rows
<1>8. ASSUME NEW u \in Users, NEW amount \in Amounts, NEW k \in Keys, ImportHistory(u, amount, k)
      PROVE  TypeOK'
  <2>1. Row(k, 0, "sheet_import", u, 0, amount) \in Rows
    BY DEF Row, Rows
  <2>2. history' \in Seq(Rows)
    BY <1>8, <2>1 DEF ImportHistory, TypeOK, Rows
  <2>3. earned' \in [Users -> Nat]
    BY <1>8 DEF ImportHistory, TypeOK
  <2> QED
    BY <1>8, <2>2, <2>3 DEF ImportHistory, TypeOK, Rows
<1>9. ASSUME NEW S \in SUBSET Users, ReadSiphon(S) PROVE TypeOK'
  BY <1>9 DEF ReadSiphon, TypeOK
<1>10. CASE CacheSiphons
  <2>1. siphon' \in [Users -> Nat \union {NoSiphon}] /\ siphonRevision' \in [Users -> Nat]
    <3>1. \A u \in Users : read[u][2] \in Nat /\ revision[u] \in Nat
      BY DEF TypeOK
    <3>2. CASE open
      BY <1>10, <3>1, <3>2 DEF CacheSiphons
    <3>3. CASE ~open
      BY <1>10, <3>3 DEF CacheSiphons, TypeOK
    <3> QED
      BY <3>2, <3>3
  <2>2. read' \in [Users -> Nat \X Nat] /\ syncing' \subseteq Users
    BY <1>10 DEF CacheSiphons
  <2> QED
    BY <1>10, <2>1, <2>2 DEF CacheSiphons, TypeOK
<1>11. CASE Archive
  BY <1>11 DEF Archive, TypeOK
<1>12. CASE UNCHANGED vars
  BY <1>12 DEF vars, TypeOK
<1> QED
  BY <1>1, <1>2, <1>3, <1>4, <1>5, <1>6, <1>7, <1>8, <1>9, <1>10, <1>11, <1>12 DEF Next

-----------------------------------------------------------------------------
(* Ownership                                                               *)

\* A name and a character change hands only in a transaction that has looked
\* at every other row.
LEMMA OwnershipStep ==
  ASSUME TypeOK, OwnershipIsUnique, [Next]_vars
  PROVE  OwnershipIsUnique'
<1> USE DEF TypeOK, OwnershipIsUnique, Registered, NoConflict
<1>1. CASE UNCHANGED <<nickname, albion>> /\ \A u \in Users : Registered(u)' => Registered(u)
  BY <1>1
<1>2. ASSUME NEW u \in Users, NEW n \in Names, NEW a \in AlbionIds \union {NoAlbion},
             Create(u, n, a)
      PROVE  OwnershipIsUnique'
  BY <1>2 DEF Create
<1>3. ASSUME NEW u \in Users, NEW n \in Names, NEW a \in AlbionIds \union {NoAlbion},
             FillAlbionId(u, n, a)
      PROVE  OwnershipIsUnique'
  BY <1>3 DEF FillAlbionId
<1>4. ASSUME NEW u \in Users, NEW n \in Names, NEW a \in AlbionIds \union {NoAlbion},
             NEW replace \in BOOLEAN, Replace(u, n, a, replace)
      PROVE  OwnershipIsUnique'
  BY <1>4 DEF Replace
<1>5. ASSUME NEW u \in Users, NEW n \in Names, NEW a \in AlbionIds \union {NoAlbion},
             NEW value \in Amounts, NEW inGuild \in BOOLEAN, NEW withSiphon \in BOOLEAN,
             ImportPlayer(u, n, a, value, inGuild, withSiphon)
      PROVE  OwnershipIsUnique'
  BY <1>5 DEF ImportPlayer
<1>6. ASSUME NEW u \in Users, NEW value \in BOOLEAN, SetInGuild(u, value)
      PROVE  OwnershipIsUnique'
  BY <1>6 DEF SetInGuild
<1>7. ASSUME NEW u \in Users, NEW delta \in Deltas, NEW k \in Keys, ChangeBalance(u, delta, k)
      PROVE  OwnershipIsUnique'
  BY <1>1, <1>7 DEF ChangeBalance
<1>8. ASSUME NEW who \in Parties, NEW amount \in Amounts, NEW k \in Keys,
             ApplyLootsplit(who, amount, k)
      PROVE  OwnershipIsUnique'
  <2>1. ASSUME NEW u \in Users, ~Registered(u) PROVE revision'[u] = revision[u]
    <3>1. {j \in DOMAIN who : who[j] = u} = {}
      BY <1>8, <2>1 DEF ApplyLootsplit
    <3>2. CreditsOf(who, u) = 0
      BY <3>1, FS_EmptySet DEF CreditsOf
    <3> QED
      BY <1>8, <3>2 DEF ApplyLootsplit
  <2> QED
    BY <1>1, <1>8, <2>1 DEF ApplyLootsplit
<1>9. CASE UNCHANGED <<nickname, albion, revision>>
  BY <1>9
<1> HIDE DEF TypeOK, OwnershipIsUnique, Registered, NoConflict
<1> QED
  BY <1>2, <1>3, <1>4, <1>5, <1>6, <1>7, <1>8, <1>9
     DEF Next, vars, ImportHistory, ReadSiphon, CacheSiphons, Archive

-----------------------------------------------------------------------------
(* Siphons                                                                 *)

\* A revision that was read or cached is a past or the present one, and of the
\* present one the Silver is known.
SiphonInv ==
    \A u \in Users :
        /\ siphonRevision[u] <= revision[u]
        /\ u \in syncing =>
              /\ 1 <= read[u][1] /\ read[u][1] <= revision[u]
              /\ read[u][1] = revision[u] => read[u][2] = silver[u]

SiphonSafe == SiphonInv /\ CurrentSiphonIsRight

\* Silver changes only together with the revision.
LEMMA SiphonKept ==
  ASSUME TypeOK, TypeOK', SiphonSafe, UNCHANGED cache, UNCHANGED sync,
         \A u \in Users : /\ revision[u] <= revision'[u]
                          /\ revision'[u] = revision[u] => silver'[u] = silver[u]
  PROVE  SiphonSafe'
<1>1. \A u \in Users : /\ siphonRevision[u] \in Nat /\ revision[u] \in Nat
                       /\ revision'[u] \in Nat /\ read[u][1] \in Nat
  BY DEF TypeOK
<1> QED
  BY <1>1 DEF SiphonSafe, SiphonInv, CurrentSiphonIsRight

LEMMA SiphonStep ==
  ASSUME TypeOK, TypeOK', SiphonSafe, [Next]_vars
  PROVE  SiphonSafe'
<1>1. ASSUME NEW u \in Users, NEW n \in Names, NEW a \in AlbionIds \union {NoAlbion},
             Create(u, n, a)
      PROVE  SiphonSafe'
  <2>1. \A v \in Users : /\ revision[v] <= revision'[v]
                         /\ revision'[v] = revision[v] => silver'[v] = silver[v]
    <3>1. revision \in [Users -> Nat]
      BY DEF TypeOK
    <3>2. revision' = [revision EXCEPT ![u] = 1] /\ silver' = silver
      BY <1>1 DEF Create
    <3> QED
      BY <1>1, <3>1, <3>2 DEF Create, Registered
  <2> QED
    BY <1>1, <2>1, SiphonKept DEF Create
<1>2. ASSUME NEW u \in Users, NEW n \in Names, NEW a \in AlbionIds \union {NoAlbion},
             NEW replace \in BOOLEAN, Replace(u, n, a, replace)
      PROVE  SiphonSafe'
  <2>1. \A v \in Users : /\ revision[v] <= revision'[v]
                         /\ revision'[v] = revision[v] => silver'[v] = silver[v]
    <3>1. revision \in [Users -> Nat]
      BY DEF TypeOK
    <3>2. revision' = [revision EXCEPT ![u] = revision[u] + 1] /\ silver' = silver
      BY <1>2 DEF Replace
    <3> QED
      BY <1>2, <3>1, <3>2
  <2> QED
    BY <1>2, <2>1, SiphonKept DEF Replace
<1>3. ASSUME NEW u \in Users, NEW n \in Names, NEW a \in AlbionIds \union {NoAlbion},
             NEW value \in Amounts, NEW inGuild \in BOOLEAN, NEW withSiphon \in BOOLEAN,
             ImportPlayer(u, n, a, value, inGuild, withSiphon)
      PROVE  SiphonSafe'
  <2>1. revision[u] = 0 /\ revision'[u] = 1 /\ silver'[u] = value
    BY <1>3 DEF ImportPlayer, TypeOK, Registered
  <2>2. u \notin syncing
    <3>1. read[u][1] \in Nat
      BY DEF TypeOK
    <3> QED
      BY <2>1, <3>1 DEF SiphonSafe, SiphonInv
  <2>3. /\ siphonRevision'[u] \in {0, 1}
        /\ siphonRevision'[u] = 1 => siphon'[u] = value
    BY <1>3 DEF ImportPlayer, TypeOK
  <2>4. \A v \in Users \ {u} : /\ revision'[v] = revision[v] /\ silver'[v] = silver[v]
                               /\ siphon'[v] = siphon[v]
                               /\ siphonRevision'[v] = siphonRevision[v]
    BY <1>3 DEF ImportPlayer, TypeOK
  <2>5. syncing' = syncing /\ read' = read
    BY <1>3 DEF ImportPlayer
  <2> QED
    BY <2>1, <2>2, <2>3, <2>4, <2>5 DEF SiphonSafe, SiphonInv, CurrentSiphonIsRight
<1>4. ASSUME NEW u \in Users, NEW value \in BOOLEAN, SetInGuild(u, value) PROVE SiphonSafe'
  <2>1. \A v \in Users : /\ revision[v] <= revision'[v]
                         /\ revision'[v] = revision[v] => silver'[v] = silver[v]
    <3>1. revision \in [Users -> Nat]
      BY DEF TypeOK
    <3>2. revision' = [revision EXCEPT ![u] = revision[u] + 1] /\ silver' = silver
      BY <1>4 DEF SetInGuild
    <3> QED
      BY <1>4, <3>1, <3>2
  <2> QED
    BY <1>4, <2>1, SiphonKept DEF SetInGuild
<1>5. ASSUME NEW u \in Users, NEW delta \in Deltas, NEW k \in Keys, ChangeBalance(u, delta, k)
      PROVE  SiphonSafe'
  <2> DEFINE updated == Withdrawn(u, delta)
  <2>1. updated \in Nat /\ silver[u] \in Nat
    BY WithdrawnTypes
  <2>2. /\ silver' = [silver EXCEPT ![u] = updated]
        /\ revision' = [revision EXCEPT ![u] =
               revision[u] + IF updated - silver[u] # 0 THEN 1 ELSE 0]
        /\ UNCHANGED cache /\ UNCHANGED sync
    BY <1>5 DEF ChangeBalance
  <2> HIDE DEF updated
  <2> QED
    <3>1. \A v \in Users : /\ revision[v] <= revision'[v]
                           /\ revision'[v] = revision[v] => silver'[v] = silver[v]
      <4>1. \A v \in Users \ {u} : revision'[v] = revision[v] /\ silver'[v] = silver[v]
        BY <2>2 DEF TypeOK
      <4>2. /\ silver'[u] = updated
            /\ revision'[u] = revision[u] + IF updated - silver[u] # 0 THEN 1 ELSE 0
        BY <2>2 DEF TypeOK
      <4>3. \A v \in Users : revision[v] \in Nat
        BY DEF TypeOK
      <4>4. revision[u] <= revision'[u] /\ (revision'[u] = revision[u] => silver'[u] = silver[u])
        BY <2>1, <4>2, <4>3
      <4> QED
        BY <4>1, <4>3, <4>4
    <3> QED
      BY <2>2, <3>1, SiphonKept
<1>6. ASSUME NEW who \in Parties, NEW amount \in Amounts, NEW k \in Keys,
             ApplyLootsplit(who, amount, k)
      PROVE  SiphonSafe'
  <2>1. ASSUME NEW u \in Users
        PROVE  /\ revision[u] <= revision'[u]
               /\ revision'[u] = revision[u] => silver'[u] = silver[u]
    <3>1. CreditsOf(who, u) \in Nat /\ revision[u] \in Nat /\ silver[u] \in Nat
      BY CreditTypes DEF TypeOK
    <3>2. /\ silver'[u] = silver[u] + amount * CreditsOf(who, u)
          /\ revision'[u] = revision[u] + (IF amount = 0 THEN 0 ELSE 1) * CreditsOf(who, u)
      BY <1>6 DEF ApplyLootsplit
    <3>3. CASE amount = 0
      BY <3>1, <3>2, <3>3
    <3>4. CASE amount # 0
      <4>1. revision'[u] = revision[u] + CreditsOf(who, u)
        BY <3>1, <3>2, <3>4
      <4>2. CreditsOf(who, u) = 0 => silver'[u] = silver[u]
        BY <3>1, <3>2
      <4> QED
        BY <3>1, <4>1, <4>2
    <3> QED
      BY <3>3, <3>4
  <2> QED
    BY <1>6, <2>1, SiphonKept DEF ApplyLootsplit
<1>7. ASSUME NEW S \in SUBSET Users, ReadSiphon(S) PROVE SiphonSafe'
  <2>1. \A u \in Users : u \in S => read'[u] = <<revision[u], silver[u]>> /\ 1 <= revision[u]
    BY <1>7 DEF ReadSiphon, Registered, TypeOK
  <2>2. \A u \in Users : revision[u] \in Nat
    BY DEF TypeOK
  <2> QED
    BY <1>7, <2>1, <2>2 DEF ReadSiphon, SiphonSafe, SiphonInv, CurrentSiphonIsRight
<1>8. CASE CacheSiphons
  <2>1. SiphonInv'
    <3>1. \A u \in Users : revision[u] \in Nat
      BY DEF TypeOK
    <3>2. \A u \in Users : siphonRevision'[u] \in {0, revision[u], siphonRevision[u]}
      <4>1. CASE open
        BY <1>8, <4>1 DEF CacheSiphons
      <4>2. CASE ~open
        BY <1>8, <4>2 DEF CacheSiphons
      <4> QED
        BY <4>1, <4>2
    <3>3. \A u \in Users : siphonRevision[u] <= revision[u]
      BY DEF SiphonSafe, SiphonInv
    <3> QED
      BY <1>8, <3>1, <3>2, <3>3 DEF CacheSiphons, SiphonInv
  <2>2. CASE open
    <3>1. ASSUME NEW u \in Users, siphonRevision'[u] > 0
          PROVE  siphon'[u] = silver'[u]
      <4>1. u \in syncing /\ revision[u] = read[u][1] /\ siphon'[u] = read[u][2]
        BY <1>8, <2>2, <3>1 DEF CacheSiphons
      <4> QED
        BY <1>8, <4>1 DEF CacheSiphons, SiphonSafe, SiphonInv
    <3> QED
      BY <3>1, <2>1 DEF SiphonSafe, CurrentSiphonIsRight
  <2>3. CASE ~open
    BY <1>8, <2>1, <2>3 DEF CacheSiphons, SiphonSafe, CurrentSiphonIsRight
  <2> QED
    BY <2>1, <2>2, <2>3 DEF SiphonSafe
<1>9. CASE UNCHANGED <<silver, revision, cache, sync>>
  BY <1>9 DEF SiphonSafe, SiphonInv, CurrentSiphonIsRight
<1> QED
  BY <1>1, <1>2, <1>3, <1>4, <1>5, <1>6, <1>7, <1>8, <1>9
     DEF Next, vars, FillAlbionId, ImportHistory, Archive

-----------------------------------------------------------------------------
(* The audit history and the outbox                                        *)

\* A lootsplit that is recorded is also in the outbox, where a retry looks.
OnceInv ==
    /\ RecordedOnce
    /\ \A i \in DOMAIN history :
          history[i].event[1] = "lootsplit" => Paid(history[i].event[2])

\* An audit row with a new event id.
LEMMA OnceAppended ==
  ASSUME TypeOK, OnceInv, NEW row \in Rows, row.event[1] # "lootsplit",
         history' = Append(history, row), outbox \subseteq outbox',
         \A i \in DOMAIN history : history[i].event # row.event
  PROVE  OnceInv'
<1>1. history \in Seq(Rows)
  BY DEF TypeOK, Rows
<1>2. /\ DOMAIN history = 1 .. Len(history) /\ Len(history) \in Nat
      /\ DOMAIN history' = 1 .. Len(history) + 1
      /\ \A i \in 1 .. Len(history) : history'[i] = history[i]
      /\ history'[Len(history) + 1] = row
  BY <1>1
<1>3. \A k : Paid(k) => Paid(k)'
  BY DEF Paid
<1> QED
  BY <1>2, <1>3 DEF OnceInv, RecordedOnce

LEMMA OnceStep ==
  ASSUME TypeOK, OnceInv, [Next]_vars
  PROVE  OnceInv'
<1>1. ASSUME UNCHANGED history, outbox \subseteq outbox' PROVE OnceInv'
  BY <1>1 DEF OnceInv, RecordedOnce, Paid
<1>2. ASSUME NEW u \in Users, NEW delta \in Deltas, NEW k \in Keys, ChangeBalance(u, delta, k)
      PROVE  OnceInv'
  <2> DEFINE actual == Withdrawn(u, delta) - silver[u]
             row    == Row(k, 0, "manual", u, silver[u], actual)
  <2>1. Withdrawn(u, delta) \in Nat /\ silver[u] \in Nat
    BY WithdrawnTypes
  <2>2. row \in Rows /\ row.event = <<"manual", k, 0>>
    BY <2>1 DEF Row, Rows
  <2>3. history' = Append(history, row) /\ outbox \subseteq outbox'
    BY <1>2 DEF ChangeBalance
  <2>4. \A i \in DOMAIN history : history[i].event # row.event
    BY <1>2, <2>2 DEF ChangeBalance, Used
  <2> HIDE DEF row
  <2> QED
    BY <2>2, <2>3, <2>4, OnceAppended
<1>3. ASSUME NEW u \in Users, NEW amount \in Amounts, NEW k \in Keys, ImportHistory(u, amount, k)
      PROVE  OnceInv'
  <2> DEFINE row == Row(k, 0, "sheet_import", u, 0, amount)
  <2>1. row \in Rows /\ row.event = <<"sheet_import", k, 0>>
    BY DEF Row, Rows
  <2>2. history' = Append(history, row) /\ outbox \subseteq outbox'
    BY <1>3 DEF ImportHistory
  <2>3. \A i \in DOMAIN history : history[i].event # row.event
    BY <1>3, <2>1 DEF ImportHistory, Used
  <2> HIDE DEF row
  <2> QED
    BY <2>1, <2>2, <2>3, OnceAppended
<1>4. ASSUME NEW who \in Parties, NEW amount \in Amounts, NEW k \in Keys,
             ApplyLootsplit(who, amount, k)
      PROVE  OnceInv'
  <2> DEFINE lines == Lines(who, amount, k)
  <2>1. PICK n \in Nat : who \in [1 .. n -> Users]
    BY CreditTypes
  <2>2. /\ DOMAIN lines = 1 .. n
        /\ \A i \in 1 .. n : lines[i].event = <<"lootsplit", k, i>>
    BY <2>1 DEF Lines, CreditRow, Row
  <2>3. lines \in Seq(Rows) /\ history \in Seq(Rows) /\ history' = history \o lines
    <3>1. lines \in Seq(Rows)
      BY LineTypes
    <3>2. history \in Seq(Rows)
      BY DEF TypeOK, Rows
    <3>3. history' = history \o lines
      BY <1>4 DEF ApplyLootsplit, Lines
    <3> QED
      BY <3>1, <3>2, <3>3
  <2> HIDE DEF lines
  <2>4. Len(lines) = n
    BY <2>1, <2>2, <2>3
  <2> DEFINE m == Len(history)
  <2>5. /\ m \in Nat /\ DOMAIN history = 1 .. m
        /\ DOMAIN history' = 1 .. m + n
        /\ \A i \in 1 .. m + n : history'[i] = IF i <= m THEN history[i] ELSE lines[i - m]
    <3>1. /\ history' \in Seq(Rows) /\ Len(history') = m + n
          /\ \A i \in 1 .. m + n : history'[i] = IF i <= m THEN history[i] ELSE lines[i - m]
      BY <2>3, <2>4, ConcatProperties
    <3> QED
      BY <2>3, <3>1
  <2> HIDE DEF m
  <2>6. \A i \in 1 .. m + n :
           \/ i \in 1 .. m /\ history'[i] = history[i]
           \/ i - m \in 1 .. n /\ history'[i].event = <<"lootsplit", k, i - m>>
    BY <2>1, <2>2, <2>5
  <2>7. \A i \in 1 .. m : history[i].event[1] = "lootsplit" => history[i].event[2] # k
    BY <1>4, <2>5 DEF OnceInv, ApplyLootsplit
  <2>8. Paid(k)' /\ \A j : Paid(j) => Paid(j)'
    <3>1. PICK rs : outbox' = outbox \union {Applied(k, rs)}
      BY <1>4 DEF ApplyLootsplit
    <3>2. Applied(k, rs).type = "lootsplit.applied" /\ Applied(k, rs).key = k
      BY DEF Applied
    <3> QED
      BY <3>1, <3>2 DEF Paid
  <2>9. RecordedOnce'
    BY <2>1, <2>5, <2>6, <2>7 DEF OnceInv, RecordedOnce
  <2>10. ASSUME NEW i \in 1 .. m + n, history'[i].event[1] = "lootsplit"
         PROVE  \E e \in outbox' : e.type = "lootsplit.applied" /\ e.key = history'[i].event[2]
    <3>1. CASE i \in 1 .. m /\ history'[i] = history[i]
      BY <2>5, <2>8, <2>10, <3>1 DEF OnceInv, Paid
    <3>2. CASE history'[i].event = <<"lootsplit", k, i - m>>
      BY <2>8, <3>2 DEF Paid
    <3> QED
      BY <2>6, <3>1, <3>2
  <2> QED
    BY <2>5, <2>9, <2>10 DEF OnceInv, Paid
<1>5. CASE UNCHANGED <<history, outbox>>
  BY <1>1, <1>5
<1> QED
  BY <1>1, <1>2, <1>3, <1>4, <1>5
     DEF Next, vars, Create, FillAlbionId, Replace, SetInGuild, ImportPlayer, ReadSiphon,
         CacheSiphons, Archive

\* Every number of earlier credits occurs: the lines of a player in a lootsplit
\* count 0, 1, 2, ... without a gap.
LEMMA EveryRank ==
  ASSUME NEW who \in Parties, NEW u \in Users,
         NEW c \in Nat, c < CreditsOf(who, u)
  PROVE  \E i \in DOMAIN who : who[i] = u /\ CreditsBefore(who, i) = c
<1>1. PICK n \in Nat : who \in [1 .. n -> Users]
  BY CreditTypes
<1> DEFINE J(m) == {j \in 1 .. n : j <= m /\ who[j] = u}
           T    == {m \in Nat : c < Cardinality(J(m))}
<1>2. ASSUME NEW m \in Nat PROVE IsFiniteSet(J(m)) /\ Cardinality(J(m)) \in Nat
  <2>1. IsFiniteSet(1 .. n)
    BY FS_Interval
  <2>2. J(m) \in SUBSET (1 .. n)
    OBVIOUS
  <2>3. IsFiniteSet(J(m))
    BY <2>1, <2>2, FS_Subset
  <2> QED
    BY <2>3, FS_CardinalityType
<1>3. n \in T
  <2>1. J(n) = {j \in DOMAIN who : who[j] = u}
    BY <1>1
  <2> QED
    BY <2>1 DEF CreditsOf
<1>4. PICK m \in T : \A l \in T : ~(<<l, m>> \in OpToRel(<, Nat))
  BY <1>3, NatLessThanWellFounded, WFMin
<1>5. \A l \in T : ~(l < m)
  BY <1>4 DEF OpToRel
<1>6. m # 0
  <2>1. J(0) = {}
    BY <1>1
  <2>2. Cardinality(J(0)) = 0
    BY <2>1, FS_EmptySet
  <2> QED
    BY <2>2
<1>7. m - 1 \in Nat /\ m - 1 \notin T
  <2>1. m \in Nat
    BY <1>4
  <2>2. m - 1 \in Nat /\ m - 1 < m
    BY <2>1, <1>6
  <2> QED
    BY <1>5, <2>2
<1>8. Cardinality(J(m - 1)) <= c /\ c < Cardinality(J(m))
  <2>1. m \in Nat /\ c < Cardinality(J(m))
    BY <1>4
  <2>2. Cardinality(J(m - 1)) \in Nat /\ ~(c < Cardinality(J(m - 1)))
    BY <1>2, <1>7
  <2> QED
    BY <2>1, <2>2
<1>9. m \in 1 .. n /\ who[m] = u
  <2>1. J(m) # J(m - 1)
    BY <1>2, <1>7, <1>8
  <2> QED
    BY <1>1, <1>7, <2>1
<1>10. J(m) = J(m - 1) \union {m} /\ m \notin J(m - 1)
  BY <1>1, <1>9
<1>11. Cardinality(J(m)) = Cardinality(J(m - 1)) + 1
  BY <1>2, <1>7, <1>10, FS_AddElement
<1>12. Cardinality(J(m - 1)) = c
  <2>1. Cardinality(J(m - 1)) \in Nat
    BY <1>2, <1>7
  <2> HIDE DEF J
  <2> QED
    BY <2>1, <1>8, <1>11
<1>13. J(m - 1) = {j \in DOMAIN who : j < m /\ who[j] = who[m]}
  BY <1>1, <1>9
<1> QED
  BY <1>1, <1>9, <1>12, <1>13 DEF CreditsBefore

\* The events of registrations and membership changes, typed.
AnnounceInv ==
    /\ RevisionsAreAnnounced
    /\ \A e \in outbox : e.type = "player.upsert" => e.key \in Users \X Nat

\* What a transaction adds to the outbox has to cover the revisions it makes.
LEMMA Announced ==
  ASSUME TypeOK, TypeOK', AnnounceInv, outbox \subseteq outbox',
         \A u \in Users : revision[u] <= revision'[u],
         \A u \in Users : \A r \in (revision[u] + 1) .. revision'[u] :
            2 <= r => \E e \in outbox' : <<u, r>> \in e.carries,
         \A e \in outbox' \ outbox : e.type = "player.upsert" =>
            e.key \in Users \X Nat /\ e.key[2] <= revision'[e.key[1]]
  PROVE  AnnounceInv'
<1>1. \A u \in Users : revision[u] \in Nat /\ revision'[u] \in Nat
  BY DEF TypeOK
<1>2. ASSUME NEW u \in Users, NEW r \in 2 .. revision'[u]
      PROVE  \E e \in outbox' : <<u, r>> \in e.carries
  <2>1. CASE r <= revision[u]
    <3>1. r \in 2 .. revision[u]
      BY <1>1, <2>1
    <3> QED
      BY <3>1 DEF AnnounceInv, RevisionsAreAnnounced
  <2>2. CASE ~(r <= revision[u])
    <3>1. r \in (revision[u] + 1) .. revision'[u] /\ 2 <= r
      BY <1>1, <2>2
    <3> QED
      BY <3>1
  <2> QED
    BY <2>1, <2>2
<1>3. ASSUME NEW e \in outbox', e.type = "player.upsert"
      PROVE  e.key \in Users \X Nat /\ e.key[2] <= revision'[e.key[1]]
  <2>1. CASE e \in outbox
    <3>1. e.key \in Users \X Nat
      BY <1>3, <2>1 DEF AnnounceInv
    <3>2. e.key[2] <= revision[e.key[1]]
      BY <1>3, <2>1, <3>1 DEF AnnounceInv, RevisionsAreAnnounced
    <3>3. /\ e.key[1] \in Users /\ e.key[2] \in Nat
          /\ revision[e.key[1]] <= revision'[e.key[1]]
      BY <3>1
    <3> QED
      BY <1>1, <3>1, <3>2, <3>3
  <2>2. CASE e \notin outbox
    BY <1>3, <2>2
  <2> QED
    BY <2>1, <2>2
<1>4. RevisionsAreAnnounced'
  BY <1>2, <1>3 DEF RevisionsAreAnnounced
<1> QED
  BY <1>3, <1>4 DEF AnnounceInv

\* One player row moves to its next revision with an event of that revision.
LEMMA UpsertAnnounced ==
  ASSUME TypeOK, TypeOK', AnnounceInv, NEW u \in Users,
         revision' = [revision EXCEPT ![u] = revision[u] + 1],
         outbox' = outbox \union {Upsert(u, revision[u] + 1)}
  PROVE  AnnounceInv'
<1> DEFINE e == Upsert(u, revision[u] + 1)
<1>1. /\ e.key = <<u, revision[u] + 1>> /\ e.carries = {<<u, revision[u] + 1>>}
      /\ revision[u] \in Nat /\ revision'[u] = revision[u] + 1
      /\ \A v \in Users : revision[v] \in Nat
      /\ \A v \in Users \ {u} : revision'[v] = revision[v]
  BY DEF Upsert, TypeOK
<1>2. e \in outbox' /\ outbox \subseteq outbox' /\ \A f \in outbox' \ outbox : f = e
  OBVIOUS
<1> HIDE DEF e
<1>3. e.key \in Users \X Nat /\ e.key[2] <= revision'[e.key[1]]
  BY <1>1
<1>4. \A v \in Users : revision[v] <= revision'[v]
  BY <1>1
<1>5. \A v \in Users : \A r \in (revision[v] + 1) .. revision'[v] :
        2 <= r => \E f \in outbox' : <<v, r>> \in f.carries
  <2> SUFFICES ASSUME NEW v \in Users, NEW r \in (revision[v] + 1) .. revision'[v]
               PROVE  v = u /\ r = revision[u] + 1
    BY <1>1, <1>2
  <2> QED
    BY <1>1
<1> QED
  BY <1>2, <1>3, <1>4, <1>5, Announced

LEMMA AnnounceStep ==
  ASSUME TypeOK, TypeOK', AnnounceInv, [Next]_vars
  PROVE  AnnounceInv'
<1> USE DEF Registered
<1>1. CASE UNCHANGED <<revision, outbox>>
  BY <1>1 DEF AnnounceInv, RevisionsAreAnnounced
<1>2. ASSUME NEW u \in Users, NEW n \in Names, NEW a \in AlbionIds \union {NoAlbion},
             Create(u, n, a)
      PROVE  AnnounceInv'
  <2>1. revision[u] = 0
    BY <1>2 DEF Create, TypeOK
  <2> QED
    <3>1. revision[u] + 1 = 1
      BY <2>1
    <3>2. /\ revision' = [revision EXCEPT ![u] = revision[u] + 1]
          /\ outbox' = outbox \union {Upsert(u, revision[u] + 1)}
      BY <1>2, <3>1 DEF Create
    <3> QED
      BY <3>2, UpsertAnnounced
<1>3. ASSUME NEW u \in Users, NEW n \in Names, NEW a \in AlbionIds \union {NoAlbion},
             NEW replace \in BOOLEAN, Replace(u, n, a, replace)
      PROVE  AnnounceInv'
  BY <1>3, UpsertAnnounced DEF Replace
<1>4. ASSUME NEW u \in Users, NEW value \in BOOLEAN, SetInGuild(u, value) PROVE AnnounceInv'
  BY <1>4, UpsertAnnounced DEF SetInGuild
<1>5. ASSUME NEW u \in Users, NEW n \in Names, NEW a \in AlbionIds \union {NoAlbion},
             NEW value \in Amounts, NEW inGuild \in BOOLEAN, NEW withSiphon \in BOOLEAN,
             ImportPlayer(u, n, a, value, inGuild, withSiphon)
      PROVE  AnnounceInv'
  <2>1. \A v \in Users : \/ revision'[v] = revision[v]
                         \/ revision[v] = 0 /\ revision'[v] = 1
    BY <1>5 DEF ImportPlayer, TypeOK
  <2>2. outbox' = outbox /\ \A v \in Users : revision[v] \in Nat
    BY <1>5 DEF ImportPlayer, TypeOK
  <2> QED
    BY <2>1, <2>2, Announced
<1>6. ASSUME NEW u \in Users, NEW delta \in Deltas, NEW k \in Keys, ChangeBalance(u, delta, k)
      PROVE  AnnounceInv'
  <2> DEFINE next == revision[u] + IF Withdrawn(u, delta) - silver[u] # 0 THEN 1 ELSE 0
             e    == Changed(k, u, next)
  <2>1. revision' = [revision EXCEPT ![u] = next] /\ outbox' = outbox \union {e}
    BY <1>6 DEF ChangeBalance
  <2>2. e.type = "balance.changed" /\ e.carries = {<<u, next>>}
    BY DEF Changed
  <2>3. /\ next \in {revision[u], revision[u] + 1} /\ revision'[u] = next
        /\ \A v \in Users \ {u} : revision'[v] = revision[v]
        /\ \A v \in Users : revision[v] \in Nat
    <3>1. revision \in [Users -> Nat]
      BY DEF TypeOK
    <3> QED
      BY <2>1, <3>1
  <2> HIDE DEF next, e
  <2>4. \A v \in Users : revision[v] <= revision'[v]
    BY <2>3
  <2>5. \A v \in Users : \A r \in (revision[v] + 1) .. revision'[v] :
          2 <= r => \E f \in outbox' : <<v, r>> \in f.carries
    <3> SUFFICES ASSUME NEW v \in Users, NEW r \in (revision[v] + 1) .. revision'[v]
                 PROVE  v = u /\ r = next
      BY <2>1, <2>2
    <3> QED
      BY <2>3
  <2> QED
    BY <2>1, <2>2, <2>4, <2>5, Announced
<1>7. ASSUME NEW who \in Parties, NEW amount \in Amounts, NEW k \in Keys,
             ApplyLootsplit(who, amount, k)
      PROVE  AnnounceInv'
  <2> DEFINE step == IF amount = 0 THEN 0 ELSE 1
             paid == {<<who[i], revision[who[i]] + step * (CreditsBefore(who, i) + 1)>> :
                        i \in DOMAIN who}
             e    == Applied(k, paid)
  <2>1. /\ \A u \in Users : revision'[u] = revision[u] + step * CreditsOf(who, u)
        /\ outbox' = outbox \union {e}
    BY <1>7 DEF ApplyLootsplit
  <2>2. e.type = "lootsplit.applied" /\ e.carries = paid
    BY DEF Applied
  <2>3. \A u \in Users : revision[u] \in Nat /\ CreditsOf(who, u) \in Nat
    BY CreditTypes DEF TypeOK
  <2>4. \A u \in Users : revision[u] <= revision'[u]
    BY <2>1, <2>3
  <2>5. ASSUME NEW u \in Users, NEW r \in (revision[u] + 1) .. revision'[u]
        PROVE  <<u, r>> \in paid
    <3>1. step = 1 /\ revision'[u] = revision[u] + CreditsOf(who, u)
      BY <2>1, <2>3, <2>5
    <3>2. r - revision[u] - 1 \in Nat /\ r - revision[u] - 1 < CreditsOf(who, u)
      BY <2>3, <3>1
    <3>3. PICK i \in DOMAIN who : who[i] = u /\ CreditsBefore(who, i) = r - revision[u] - 1
      BY <3>2, EveryRank
    <3>4. revision[who[i]] + step * (CreditsBefore(who, i) + 1) = r
      BY <2>3, <3>1, <3>2, <3>3
    <3> QED
      BY <3>3, <3>4
  <2> HIDE DEF e, paid
  <2> QED
    BY <2>1, <2>2, <2>4, <2>5, Announced
<1> QED
  BY <1>1, <1>2, <1>3, <1>4, <1>5, <1>6, <1>7
     DEF Next, vars, FillAlbionId, ImportHistory, ReadSiphon, CacheSiphons, Archive

-----------------------------------------------------------------------------
(* The audit history and the Silver                                        *)

\* A nonempty set of naturals with an upper bound has a greatest element.
LEMMA Greatest ==
  ASSUME NEW n \in Nat, NEW S \in SUBSET (1 .. n), S # {}
  PROVE  Max(S) \in S /\ \A y \in S : y <= Max(S)
<1> DEFINE T == {b \in Nat : \A y \in S : y <= b}
<1>1. n \in T
  OBVIOUS
<1>2. PICK m \in T : \A l \in T : ~(<<l, m>> \in OpToRel(<, Nat))
  BY <1>1, NatLessThanWellFounded, WFMin
<1>3. m \in T /\ \A l \in T : ~(l < m)
  <2>1. m \in T
    BY <1>2
  <2>2. \A l \in T : ~(l < m)
    BY <1>2 DEF OpToRel
  <2> QED
    BY <2>1, <2>2
<1>4. m \in Nat /\ \A y \in S : y \in 1 .. n /\ y <= m
  <2>1. m \in Nat /\ \A y \in S : y <= m
    BY <1>3
  <2>2. \A y \in S : y \in 1 .. n
    OBVIOUS
  <2> QED
    BY <2>1, <2>2
<1>5. m \in S
  <2>1. m # 0
    <3>1. PICK y \in S : TRUE
      OBVIOUS
    <3>2. y \in 1 .. n /\ y <= m
      BY <1>4
    <3> QED
      BY <1>4, <3>2
  <2>2. m \notin S => m - 1 \in T
    BY <1>4, <2>1
  <2> QED
    BY <1>3, <1>4, <2>2
<1>6. Max(S) \in S /\ \A y \in S : Max(S) >= y
  BY <1>4, <1>5 DEF Max
<1> QED
  BY <1>6

\* The first line of a player counts no earlier credit, each later one counts
\* one more than the line before it, and all are counted after the last.
LEMMA Ranks ==
  ASSUME NEW who \in Parties, NEW u \in Users
  PROVE  /\ \A a \in DOMAIN who : who[a] = u /\ (\A b \in DOMAIN who : b < a => who[b] # u)
               => CreditsBefore(who, a) = 0
         /\ \A a, b \in DOMAIN who :
               /\ who[a] = u /\ who[b] = u /\ b < a
               /\ \A c \in DOMAIN who : b < c /\ c < a => who[c] # u
               => CreditsBefore(who, a) = CreditsBefore(who, b) + 1
         /\ (\A a \in DOMAIN who : who[a] # u) => CreditsOf(who, u) = 0
         /\ \A b \in DOMAIN who :
               who[b] = u /\ (\A c \in DOMAIN who : b < c => who[c] # u)
               => CreditsOf(who, u) = CreditsBefore(who, b) + 1
<1>1. PICK n \in Nat : who \in [1 .. n -> Users]
  BY CreditTypes
<1> DEFINE J(a) == {j \in DOMAIN who : j < a /\ who[j] = u}
           Whole == {j \in DOMAIN who : who[j] = u}
<1>2. \A a \in DOMAIN who : IsFiniteSet(J(a))
  <2>1. IsFiniteSet(1 .. n)
    BY FS_Interval
  <2>2. \A a \in DOMAIN who : J(a) \in SUBSET (1 .. n)
    BY <1>1
  <2> QED
    BY <2>1, <2>2, FS_Subset
<1>3. \A a \in DOMAIN who : who[a] = u => CreditsBefore(who, a) = Cardinality(J(a))
  BY DEF CreditsBefore
<1>4. CreditsOf(who, u) = Cardinality(Whole)
  BY DEF CreditsOf
<1>5. ASSUME NEW a \in DOMAIN who, who[a] = u, \A b \in DOMAIN who : b < a => who[b] # u
      PROVE  CreditsBefore(who, a) = 0
  <2>1. J(a) = {}
    BY <1>5
  <2> QED
    BY <1>3, <1>5, <2>1, FS_EmptySet
<1>6. ASSUME NEW a \in DOMAIN who, NEW b \in DOMAIN who, who[a] = u, who[b] = u, b < a,
             \A c \in DOMAIN who : b < c /\ c < a => who[c] # u
      PROVE  CreditsBefore(who, a) = CreditsBefore(who, b) + 1
  <2>1. J(a) = J(b) \union {b} /\ b \notin J(b)
    BY <1>1, <1>6
  <2>2. Cardinality(J(a)) = Cardinality(J(b)) + 1
    BY <1>2, <2>1, FS_AddElement
  <2> QED
    BY <1>3, <1>6, <2>2
<1>7. ASSUME \A a \in DOMAIN who : who[a] # u PROVE CreditsOf(who, u) = 0
  <2>1. Whole = {}
    BY <1>7
  <2> QED
    BY <1>4, <2>1, FS_EmptySet
<1>8. ASSUME NEW b \in DOMAIN who, who[b] = u, \A c \in DOMAIN who : b < c => who[c] # u
      PROVE  CreditsOf(who, u) = CreditsBefore(who, b) + 1
  <2>1. Whole = J(b) \union {b} /\ b \notin J(b)
    BY <1>1, <1>8
  <2>2. Cardinality(Whole) = Cardinality(J(b)) + 1
    BY <1>2, <2>1, FS_AddElement
  <2> QED
    BY <1>3, <1>4, <1>8, <2>2
<1> QED
  BY <1>5, <1>6, <1>7, <1>8

\* The chain said by neighbours: a row follows the row before it, the first one
\* the opening balance, and the last one leaves the Silver there is.
Chained ==
    \A u \in Users :
        /\ \A i \in MovesOf(u) :
              /\ (\A j \in MovesOf(u) : ~(j < i)) => history[i].previous = opening[u]
              /\ \A j \in MovesOf(u) :
                    j < i /\ (\A k \in MovesOf(u) : ~(j < k /\ k < i))
                       => history[i].previous = history[j].updated
        /\ MovesOf(u) = {} => silver[u] = opening[u]
        /\ \A j \in MovesOf(u) :
              (\A k \in MovesOf(u) : ~(j < k)) => silver[u] = history[j].updated

\* Only players have rows, so an import starts a chain of its own.
Owned == \A i \in DOMAIN history : revision[history[i].user] > 0

ChainInv == Chained /\ Owned

LEMMA RowTypes ==
  ASSUME TypeOK
  PROVE  /\ history \in Seq(Rows) /\ Len(history) \in Nat /\ DOMAIN history = 1 .. Len(history)
         /\ \A i \in DOMAIN history : history[i] \in Rows /\ history[i].user \in Users
<1>1. history \in Seq(Rows)
  BY DEF TypeOK, Rows
<1>2. \A i \in DOMAIN history : history[i] \in Rows
  BY <1>1
<1> QED
  BY <1>1, <1>2 DEF Rows

\* A registration is never withdrawn.
LEMMA StaysRegistered ==
  ASSUME TypeOK, [Next]_vars, NEW u \in Users, revision[u] > 0
  PROVE  revision'[u] > 0
<1>1. revision \in [Users -> Nat]
  BY DEF TypeOK
<1>2. ASSUME NEW v \in Users, NEW r \in Nat, r > 0, revision' = [revision EXCEPT ![v] = r]
      PROVE  revision'[u] > 0
  BY <1>1, <1>2
<1>3. ASSUME NEW v \in Users, NEW n \in Names, NEW a \in AlbionIds \union {NoAlbion},
             Create(v, n, a)
      PROVE  revision'[u] > 0
  BY <1>2, <1>3 DEF Create
<1>4. ASSUME NEW v \in Users, NEW n \in Names, NEW a \in AlbionIds \union {NoAlbion},
             NEW replace \in BOOLEAN, Replace(v, n, a, replace)
      PROVE  revision'[u] > 0
  BY <1>1, <1>2, <1>4 DEF Replace
<1>5. ASSUME NEW v \in Users, NEW n \in Names, NEW a \in AlbionIds \union {NoAlbion},
             NEW value \in Amounts, NEW inGuild \in BOOLEAN, NEW withSiphon \in BOOLEAN,
             ImportPlayer(v, n, a, value, inGuild, withSiphon)
      PROVE  revision'[u] > 0
  BY <1>2, <1>5 DEF ImportPlayer
<1>6. ASSUME NEW v \in Users, NEW value \in BOOLEAN, SetInGuild(v, value)
      PROVE  revision'[u] > 0
  BY <1>1, <1>2, <1>6 DEF SetInGuild
<1>7. ASSUME NEW v \in Users, NEW delta \in Deltas, NEW k \in Keys, ChangeBalance(v, delta, k)
      PROVE  revision'[u] > 0
  <2>1. \E d \in {0, 1} : revision' = [revision EXCEPT ![v] = revision[v] + d]
    BY <1>7 DEF ChangeBalance
  <2>2. revision[v] > 0 /\ revision[v] \in Nat
    BY <1>1, <1>7 DEF ChangeBalance, Registered
  <2> QED
    BY <1>2, <2>1, <2>2
<1>8. ASSUME NEW who \in Parties, NEW amount \in Amounts, NEW k \in Keys,
             ApplyLootsplit(who, amount, k)
      PROVE  revision'[u] > 0
  <2>1. CreditsOf(who, u) \in Nat /\ revision[u] \in Nat
    BY <1>1, CreditTypes
  <2>2. revision'[u] = revision[u] + (IF amount = 0 THEN 0 ELSE 1) * CreditsOf(who, u)
    BY <1>8 DEF ApplyLootsplit
  <2>3. (IF amount = 0 THEN 0 ELSE 1) * CreditsOf(who, u) \in Nat
    BY <2>1
  <2> QED
    BY <2>1, <2>2, <2>3
<1> QED
  BY <1>3, <1>4, <1>5, <1>6, <1>7, <1>8
     DEF Next, vars, FillAlbionId, ImportHistory, ReadSiphon, CacheSiphons, Archive

\* The chain is the one of AuditExplainsSilver.
LEMMA ChainExplains ==
  ASSUME TypeOK, ChainInv
  PROVE  AuditExplainsSilver
<1> DEFINE n == Len(history)
<1>1. n \in Nat /\ \A u \in Users : MovesOf(u) \in SUBSET (1 .. n)
  <2>1. history \in Seq(Rows)
    BY DEF TypeOK, Rows
  <2> QED
    BY <2>1 DEF MovesOf
<1> HIDE DEF n
<1> SUFFICES ASSUME NEW u \in Users
             PROVE  /\ \A i \in MovesOf(u) : history[i].previous =
                          IF {j \in MovesOf(u) : j < i} = {} THEN opening[u]
                          ELSE history[Max({j \in MovesOf(u) : j < i})].updated
                    /\ silver[u] = IF MovesOf(u) = {} THEN opening[u]
                                   ELSE history[Max(MovesOf(u))].updated
  BY DEF AuditExplainsSilver
<1>2. ASSUME NEW i \in MovesOf(u)
      PROVE  history[i].previous =
                IF {j \in MovesOf(u) : j < i} = {} THEN opening[u]
                ELSE history[Max({j \in MovesOf(u) : j < i})].updated
  <2> DEFINE B == {j \in MovesOf(u) : j < i}
  <2>1. CASE B = {}
    BY <2>1 DEF ChainInv, Chained
  <2>2. CASE B # {}
    <3>1. B \in SUBSET (1 .. n)
      BY <1>1
    <3>2. Max(B) \in B /\ \A y \in B : y <= Max(B)
      BY <1>1, <2>2, <3>1, Greatest
    <3>3. Max(B) \in MovesOf(u) /\ Max(B) < i
      BY <3>2
    <3>4. \A k \in MovesOf(u) : ~(Max(B) < k /\ k < i)
      BY <1>1, <3>2
    <3>5. history[i].previous = history[Max(B)].updated
      BY <3>3, <3>4 DEF ChainInv, Chained
    <3> QED
      BY <2>2, <3>5
  <2> QED
    BY <2>1, <2>2
<1>3. CASE MovesOf(u) = {}
  BY <1>2, <1>3 DEF ChainInv, Chained
<1>4. CASE MovesOf(u) # {}
  <2>1. Max(MovesOf(u)) \in MovesOf(u) /\ \A y \in MovesOf(u) : y <= Max(MovesOf(u))
    BY <1>1, <1>4, Greatest
  <2>2. \A k \in MovesOf(u) : ~(Max(MovesOf(u)) < k)
    BY <1>1, <2>1
  <2>3. silver[u] = history[Max(MovesOf(u))].updated
    BY <2>1, <2>2 DEF ChainInv, Chained
  <2> QED
    BY <1>2, <1>4, <2>3
<1> QED
  BY <1>2, <1>3, <1>4

\* The lines of a block of new rows that move a player's Silver.
LinesOf(lines, n, u) == {b \in 1 .. n : lines[b].user = u /\ lines[b].event[1] # "sheet_import"}

\* The history grows by n rows that form a chain from each player's old to the
\* new Silver.
Extends(n, lines) ==
    /\ DOMAIN history' = 1 .. Len(history) + n
    /\ \A i \in 1 .. Len(history) : history'[i] = history[i]
    /\ \A b \in 1 .. n : history'[Len(history) + b] = lines[b]
    /\ opening' = opening
    /\ \A u \in Users :
          LET new == LinesOf(lines, n, u) IN
          /\ \A b \in new : (\A c \in new : ~(c < b)) => lines[b].previous = silver[u]
          /\ \A b, c \in new : c < b /\ (\A d \in new : ~(c < d /\ d < b))
                                => lines[b].previous = lines[c].updated
          /\ new = {} => silver'[u] = silver[u]
          /\ \A b \in new : (\A c \in new : ~(b < c)) => silver'[u] = lines[b].updated

\* Such rows extend the chain.
LEMMA ChainExtended ==
  ASSUME TypeOK, Chained, NEW n \in Nat, NEW lines, Extends(n, lines)
  PROVE  Chained'
<1> SUFFICES ASSUME DOMAIN history' = 1 .. Len(history) + n,
                    \A i \in 1 .. Len(history) : history'[i] = history[i],
                    \A b \in 1 .. n : history'[Len(history) + b] = lines[b],
                    opening' = opening
             PROVE  Chained'
  BY DEF Extends
<1> DEFINE m == Len(history)
<1>1. m \in Nat /\ DOMAIN history = 1 .. m
  BY DEF TypeOK
<1> HIDE DEF m
<1> SUFFICES ASSUME NEW u \in Users
             PROVE  /\ \A i \in MovesOf(u)' :
                          /\ (\A j \in MovesOf(u)' : ~(j < i)) => history'[i].previous = opening[u]
                          /\ \A j \in MovesOf(u)' :
                                j < i /\ (\A k \in MovesOf(u)' : ~(j < k /\ k < i))
                                   => history'[i].previous = history'[j].updated
                    /\ MovesOf(u)' = {} => silver'[u] = opening[u]
                    /\ \A j \in MovesOf(u)' :
                          (\A k \in MovesOf(u)' : ~(j < k)) => silver'[u] = history'[j].updated
  BY DEF Chained
<1> DEFINE Old == MovesOf(u)
           New == LinesOf(lines, n, u)
           All == MovesOf(u)'
<1>2. Old \subseteq 1 .. m /\ New \subseteq 1 .. n
  BY <1>1 DEF MovesOf, LinesOf
<1>3. /\ Old \subseteq All
      /\ \A b \in New : m + b \in All
      /\ \A i \in All : i \in Old \/ \E b \in New : i = m + b
  <2>1. Old \subseteq All
    BY <1>1 DEF MovesOf, m
  <2>2. ASSUME NEW b \in New PROVE m + b \in All
    <3>1. b \in 1 .. n /\ m + b \in 1 .. m + n
      BY <1>1, <1>2
    <3>2. history'[m + b] = lines[b]
      BY <3>1 DEF m
    <3> QED
      BY <3>1, <3>2 DEF MovesOf, LinesOf, m
  <2>3. ASSUME NEW i \in All, i \notin Old PROVE \E b \in New : i = m + b
    <3>1. i \in 1 .. m + n
      BY DEF MovesOf, m
    <3>2. i \notin 1 .. m
      BY <1>1, <2>3 DEF MovesOf, m
    <3>3. i - m \in 1 .. n /\ m + (i - m) = i
      BY <1>1, <3>1, <3>2
    <3>4. history'[i] = lines[i - m]
      BY <3>3 DEF m
    <3> QED
      BY <3>3, <3>4 DEF MovesOf, LinesOf
  <2> QED
    BY <2>1, <2>2, <2>3
<1>4. /\ \A i \in Old : history'[i] = history[i]
      /\ \A b \in New : history'[m + b] = lines[b]
  BY <1>1, <1>2 DEF m
<1>5. /\ \A i \in Old :
            /\ (\A j \in Old : ~(j < i)) => history[i].previous = opening[u]
            /\ \A j \in Old :
                  j < i /\ (\A k \in Old : ~(j < k /\ k < i))
                     => history[i].previous = history[j].updated
      /\ Old = {} => silver[u] = opening[u]
      /\ \A j \in Old : (\A k \in Old : ~(j < k)) => silver[u] = history[j].updated
  BY DEF Chained
<1>6. /\ \A b \in New : (\A c \in New : ~(c < b)) => lines[b].previous = silver[u]
      /\ \A b, c \in New : c < b /\ (\A d \in New : ~(c < d /\ d < b))
            => lines[b].previous = lines[c].updated
      /\ New = {} => silver'[u] = silver[u]
      /\ \A b \in New : (\A c \in New : ~(b < c)) => silver'[u] = lines[b].updated
  BY DEF Extends
<1> HIDE DEF Old, New, All
<1>7. ASSUME NEW i \in All, \A j \in All : ~(j < i)
      PROVE  history'[i].previous = opening[u]
  <2>1. CASE i \in Old
    BY <1>3, <1>4, <1>5, <1>7, <2>1
  <2>2. ASSUME NEW b \in New, i = m + b PROVE history'[i].previous = opening[u]
    <3>1. Old = {}
      BY <1>1, <1>2, <1>3, <1>7, <2>2
    <3>2. ASSUME NEW c \in New, c < b PROVE FALSE
      <4>1. m + c \in All /\ m + c < i
        BY <1>1, <1>2, <1>3, <2>2, <3>2
      <4> QED
        BY <1>7, <4>1
    <3> QED
      BY <1>4, <1>5, <1>6, <2>2, <3>1, <3>2
  <2> QED
    BY <1>3, <2>1, <2>2
<1>8. ASSUME NEW i \in All, NEW j \in All,
             j < i, \A k \in All : ~(j < k /\ k < i)
      PROVE  history'[i].previous = history'[j].updated
  <2>1. CASE i \in Old
    <3>1. j \in Old
      <4>1. ASSUME NEW b \in New, j = m + b PROVE FALSE
        BY <1>1, <1>2, <1>8, <2>1, <4>1
      <4> QED
        BY <1>3, <4>1
    <3> QED
      BY <1>3, <1>4, <1>5, <1>8, <2>1, <3>1
  <2>2. ASSUME NEW b \in New, i = m + b, j \in Old PROVE history'[i].previous = history'[j].updated
    <3>1. ASSUME NEW c \in New, c < b PROVE FALSE
      <4>1. m + c \in All /\ j < m + c /\ m + c < i
        BY <1>1, <1>2, <1>3, <2>2, <3>1
      <4> QED
        BY <1>8, <4>1
    <3>2. ASSUME NEW k \in Old, j < k PROVE FALSE
      <4>1. k \in All /\ k < i
        BY <1>1, <1>2, <1>3, <2>2
      <4> QED
        BY <1>8, <3>2, <4>1
    <3> QED
      BY <1>4, <1>5, <1>6, <2>2, <3>1, <3>2
  <2>3. ASSUME NEW b \in New, i = m + b, NEW c \in New, j = m + c
        PROVE  history'[i].previous = history'[j].updated
    <3>1. c < b
      BY <1>1, <1>2, <1>8, <2>3
    <3>2. ASSUME NEW d \in New, c < d, d < b PROVE FALSE
      <4>1. m + d \in All /\ j < m + d /\ m + d < i
        BY <1>1, <1>2, <1>3, <2>3, <3>2
      <4> QED
        BY <1>8, <4>1
    <3> QED
      BY <1>4, <1>6, <2>3, <3>1, <3>2
  <2> QED
    BY <1>3, <2>1, <2>2, <2>3
<1>9. ASSUME All = {} PROVE silver'[u] = opening[u]
  BY <1>3, <1>5, <1>6, <1>9
<1>10. ASSUME NEW j \in All,
              \A k \in All : ~(j < k)
       PROVE  silver'[u] = history'[j].updated
  <2>1. CASE j \in Old
    <3>1. ASSUME NEW b \in New PROVE FALSE
      <4>1. m + b \in All /\ j < m + b
        BY <1>1, <1>2, <1>3, <2>1
      <4> QED
        BY <1>10, <4>1
    <3>2. \A k \in Old : ~(j < k)
      BY <1>3, <1>10
    <3> QED
      BY <1>4, <1>5, <1>6, <2>1, <3>1, <3>2
  <2>2. ASSUME NEW b \in New, j = m + b PROVE silver'[u] = history'[j].updated
    <3>1. ASSUME NEW c \in New, b < c PROVE FALSE
      <4>1. m + c \in All /\ j < m + c
        BY <1>1, <1>2, <1>3, <2>2, <3>1
      <4> QED
        BY <1>10, <4>1
    <3> QED
      BY <1>4, <1>6, <2>2, <3>1
  <2> QED
    BY <1>3, <2>1, <2>2
<1> QED
  BY <1>7, <1>8, <1>9, <1>10 DEF All

\* One row appended.
LEMMA ChainAppended ==
  ASSUME TypeOK, Chained, NEW row \in Rows, history' = Append(history, row), opening' = opening,
         \A u \in Users \ {row.user} : silver'[u] = silver[u],
         row.event[1] = "sheet_import" => silver' = silver,
         row.event[1] # "sheet_import" =>
            row.previous = silver[row.user] /\ row.updated = silver'[row.user]
  PROVE  Chained'
<1> DEFINE lines == <<row>>
<1>1. history \in Seq(Rows) /\ Len(history) \in Nat
  BY DEF TypeOK, Rows
<1>2. /\ DOMAIN history' = 1 .. Len(history) + 1
      /\ \A i \in 1 .. Len(history) : history'[i] = history[i]
      /\ \A b \in 1 .. 1 : history'[Len(history) + b] = lines[b]
  BY <1>1
<1>3. \A u \in Users : \A b \in LinesOf(lines, 1, u) :
         /\ b = 1 /\ row.user = u /\ row.event[1] # "sheet_import"
         /\ lines[b].previous = silver[u] /\ lines[b].updated = silver'[u]
  BY DEF LinesOf
<1>4. \A u \in Users : LinesOf(lines, 1, u) = {} => silver'[u] = silver[u]
  <2> SUFFICES ASSUME NEW u \in Users, LinesOf(lines, 1, u) = {} PROVE silver'[u] = silver[u]
    OBVIOUS
  <2>1. u # row.user \/ row.event[1] = "sheet_import"
    <3>1. 1 \in 1 .. 1 /\ lines[1] = row
      OBVIOUS
    <3> QED
      BY <3>1 DEF LinesOf
  <2> QED
    BY <2>1
<1> HIDE DEF lines
<1>5. \A u \in Users : \A b, c \in LinesOf(lines, 1, u) : ~(c < b)
  BY <1>3
<1>6. Extends(1, lines)
  BY <1>2, <1>3, <1>4, <1>5 DEF Extends
<1> QED
  BY <1>6, ChainExtended

\* A lootsplit appends its lines.
LEMMA SplitRows ==
  ASSUME TypeOK, NEW who \in Parties, NEW amount \in Amounts, NEW k \in Keys,
         NEW n \in Nat, who \in [1 .. n -> Users], ApplyLootsplit(who, amount, k)
  PROVE  /\ DOMAIN history' = 1 .. Len(history) + n
         /\ \A i \in 1 .. Len(history) : history'[i] = history[i]
         /\ \A b \in 1 .. n : history'[Len(history) + b] = Lines(who, amount, k)[b]
<1> DEFINE m == Len(history)
           lines == Lines(who, amount, k)
<1>1. history \in Seq(Rows) /\ lines \in Seq(Rows)
  BY LineTypes, RowTypes
<1>2. Len(lines) = n
  <2>1. DOMAIN lines = 1 .. n
    BY DEF Lines
  <2> HIDE DEF lines
  <2> QED
    BY <1>1, <2>1
<1>3. history' = history \o lines /\ m \in Nat
  BY <1>1 DEF ApplyLootsplit, Lines
<1> HIDE DEF lines
<1>4. /\ history' \in Seq(Rows) /\ Len(history') = m + n
      /\ \A i \in 1 .. m + n : history'[i] = IF i <= m THEN history[i] ELSE lines[i - m]
  BY <1>1, <1>2, <1>3, ConcatProperties
<1> HIDE DEF m
<1>5. DOMAIN history' = 1 .. m + n
  BY <1>4
<1>6. \A i \in 1 .. m : i \in 1 .. m + n /\ i <= m
  BY <1>3
<1>7. \A b \in 1 .. n : m + b \in 1 .. m + n /\ ~(m + b <= m) /\ m + b - m = b
  BY <1>3
<1>8. \A i \in 1 .. m : history'[i] = history[i]
  BY <1>4, <1>6
<1>9. ASSUME NEW b \in 1 .. n PROVE history'[m + b] = lines[b]
  <2> DEFINE i == m + b
  <2>1. i \in 1 .. m + n /\ ~(i <= m) /\ i - m = b
    BY <1>3, <1>7
  <2> HIDE DEF i
  <2>2. history'[i] = lines[b]
    BY <1>4, <2>1
  <2> QED
    BY <2>2 DEF i
<1> QED
  BY <1>5, <1>8, <1>9 DEF m, lines

\* The lines of a lootsplit.
LEMMA ChainSplit ==
  ASSUME TypeOK, Chained, NEW who \in Parties, NEW amount \in Amounts, NEW k \in Keys,
         ApplyLootsplit(who, amount, k)
  PROVE  Chained'
<1>1. PICK n \in Nat : who \in [1 .. n -> Users]
  BY CreditTypes
<1> DEFINE lines == Lines(who, amount, k)
<1>2. /\ opening' = opening
      /\ \A u \in Users : silver'[u] = silver[u] + amount * CreditsOf(who, u)
  BY DEF ApplyLootsplit
<1>3. \A b \in 1 .. n :
         /\ lines[b].user = who[b] /\ lines[b].event[1] # "sheet_import"
         /\ lines[b].previous = silver[who[b]] + amount * CreditsBefore(who, b)
         /\ lines[b].updated = silver[who[b]] + amount * CreditsBefore(who, b) + amount
  BY <1>1 DEF Lines, CreditRow, Row
<1>5. /\ DOMAIN history' = 1 .. Len(history) + n
      /\ \A i \in 1 .. Len(history) : history'[i] = history[i]
      /\ \A b \in 1 .. n : history'[Len(history) + b] = lines[b]
  <2> HIDE DEF lines
  <2>1. lines = Lines(who, amount, k)
    BY DEF lines
  <2> QED
    BY ONLY <1>1, <2>1, SplitRows, TypeOK, who \in Parties, amount \in Amounts, k \in Keys,
            ApplyLootsplit(who, amount, k)
<1> HIDE DEF lines
<1>6. ASSUME NEW u \in Users
      PROVE  /\ \A b \in LinesOf(lines, n, u) :
                   (\A c \in LinesOf(lines, n, u) : ~(c < b)) => lines[b].previous = silver[u]
             /\ \A b, c \in LinesOf(lines, n, u) :
                   c < b /\ (\A d \in LinesOf(lines, n, u) : ~(c < d /\ d < b))
                      => lines[b].previous = lines[c].updated
             /\ LinesOf(lines, n, u) = {} => silver'[u] = silver[u]
             /\ \A b \in LinesOf(lines, n, u) :
                   (\A c \in LinesOf(lines, n, u) : ~(b < c)) => silver'[u] = lines[b].updated
  <2> DEFINE L == LinesOf(lines, n, u)
  <2>1. L = {b \in DOMAIN who : who[b] = u}
    BY <1>1, <1>3 DEF LinesOf
  <2>2. /\ amount \in Nat /\ silver[u] \in Nat /\ CreditsOf(who, u) \in Nat
        /\ \A b \in L : CreditsBefore(who, b) \in Nat
    BY <2>1, CreditTypes DEF TypeOK
  <2>3. \A b \in L :
           /\ lines[b].previous = silver[u] + amount * CreditsBefore(who, b)
           /\ lines[b].updated = silver[u] + amount * CreditsBefore(who, b) + amount
    BY <1>1, <1>3, <2>1
  <2>4. \A c \in Nat : amount * c \in Nat /\ amount * (c + 1) = amount * c + amount /\ amount * 0 = 0
    BY <2>2
  <2>5. ASSUME NEW b \in L, \A c \in L : ~(c < b) PROVE lines[b].previous = silver[u]
    <3>1. CreditsBefore(who, b) = 0
      BY <2>1, <2>5, Ranks
    <3> QED
      BY <2>2, <2>3, <2>4, <3>1
  <2>6. ASSUME NEW b \in L, NEW c \in L, c < b, \A d \in L : ~(c < d /\ d < b)
        PROVE  lines[b].previous = lines[c].updated
    <3>1. CreditsBefore(who, b) = CreditsBefore(who, c) + 1
      BY <2>1, <2>6, Ranks
    <3>2. amount * CreditsBefore(who, b) = amount * CreditsBefore(who, c) + amount
      BY <2>2, <2>4, <3>1
    <3>3. amount * CreditsBefore(who, c) \in Nat
      BY <2>2, <2>4
    <3> HIDE DEF L
    <3> QED
      BY <2>2, <2>3, <3>2, <3>3
  <2>7. ASSUME L = {} PROVE silver'[u] = silver[u]
    <3>1. CreditsOf(who, u) = 0
      BY <2>1, <2>7, Ranks
    <3> QED
      BY <1>2, <2>2, <2>4, <3>1
  <2>8. ASSUME NEW b \in L, \A c \in L : ~(b < c) PROVE silver'[u] = lines[b].updated
    <3>1. CreditsOf(who, u) = CreditsBefore(who, b) + 1
      BY <2>1, <2>8, Ranks
    <3>2. amount * CreditsOf(who, u) = amount * CreditsBefore(who, b) + amount
      BY <2>2, <2>4, <3>1
    <3>3. amount * CreditsBefore(who, b) \in Nat
      BY <2>2, <2>4
    <3> HIDE DEF L
    <3> QED
      BY <1>2, <2>2, <2>3, <3>2, <3>3
  <2> QED
    BY <2>5, <2>6, <2>7, <2>8
<1>7. Extends(n, lines)
  BY <1>2, <1>5, <1>6 DEF Extends
<1> QED
  BY <1>1, <1>7, ChainExtended

\* Every transaction extends the chains of the players it pays, and no other.
LEMMA ChainStep ==
  ASSUME TypeOK, ChainInv, [Next]_vars
  PROVE  ChainInv'
<1>1. ASSUME UNCHANGED <<history, silver, opening>>
      PROVE  ChainInv'
  <2>1. \A u : MovesOf(u)' = MovesOf(u)
    BY <1>1 DEF MovesOf
  <2>2. Chained'
    BY <1>1, <2>1 DEF ChainInv, Chained
  <2>3. Owned'
    BY <1>1, RowTypes, StaysRegistered DEF ChainInv, Owned
  <2> QED
    BY <2>2, <2>3 DEF ChainInv
<1>2. ASSUME NEW u \in Users, NEW n \in Names, NEW a \in AlbionIds \union {NoAlbion},
             NEW value \in Amounts, NEW inGuild \in BOOLEAN, NEW withSiphon \in BOOLEAN,
             ImportPlayer(u, n, a, value, inGuild, withSiphon)
      PROVE  ChainInv'
  <2>1. /\ history' = history /\ ~(revision[u] > 0)
        /\ silver' = [silver EXCEPT ![u] = value] /\ opening' = [opening EXCEPT ![u] = value]
    BY <1>2 DEF ImportPlayer, Registered
  <2>2. MovesOf(u) = {}
    BY <2>1 DEF ChainInv, Owned, MovesOf
  <2>3. \A v : MovesOf(v)' = MovesOf(v)
    BY <2>1 DEF MovesOf
  <2>4. /\ silver'[u] = opening'[u]
        /\ \A v \in Users \ {u} : silver'[v] = silver[v] /\ opening'[v] = opening[v]
    BY <2>1 DEF TypeOK
  <2>5. Chained'
    BY <2>1, <2>2, <2>3, <2>4 DEF ChainInv, Chained
  <2>6. Owned'
    BY <2>1, RowTypes, StaysRegistered DEF ChainInv, Owned
  <2> QED
    BY <2>5, <2>6 DEF ChainInv
<1>3. ASSUME NEW row \in Rows, history' = Append(history, row), revision[row.user] > 0, Chained'
      PROVE  ChainInv'
  <2>1. /\ DOMAIN history' = 1 .. Len(history) + 1
        /\ \A i \in 1 .. Len(history) : history'[i] = history[i]
        /\ history'[Len(history) + 1] = row
    BY <1>3, RowTypes
  <2>2. \A i \in DOMAIN history' : history'[i] = row \/ (i \in DOMAIN history /\ history'[i] = history[i])
    BY <2>1, RowTypes
  <2>3. row.user \in Users
    BY DEF Rows
  <2>4. Owned'
    BY <1>3, <2>2, <2>3, RowTypes, StaysRegistered DEF ChainInv, Owned
  <2> QED
    BY <1>3, <2>4 DEF ChainInv
<1>4. ASSUME NEW u \in Users, NEW delta \in Deltas, NEW k \in Keys, ChangeBalance(u, delta, k)
      PROVE  ChainInv'
  <2> DEFINE actual == Withdrawn(u, delta) - silver[u]
             row    == Row(k, 0, "manual", u, silver[u], actual)
  <2>1. Withdrawn(u, delta) \in Nat /\ silver[u] \in Nat
    BY WithdrawnTypes
  <2>2. /\ row \in Rows /\ row.event[1] = "manual" /\ row.user = u /\ row.previous = silver[u]
        /\ row.updated = Withdrawn(u, delta)
    BY <2>1 DEF Row, Rows
  <2>3. /\ history' = Append(history, row) /\ opening' = opening /\ revision[u] > 0
        /\ silver' = [silver EXCEPT ![u] = Withdrawn(u, delta)]
    BY <1>4 DEF ChangeBalance, Registered
  <2>4. silver'[u] = Withdrawn(u, delta) /\ \A v \in Users \ {u} : silver'[v] = silver[v]
    BY <2>3 DEF TypeOK
  <2> HIDE DEF row
  <2>5. Chained'
    BY <2>2, <2>3, <2>4, ChainAppended DEF ChainInv
  <2> QED
    BY <1>3, <2>2, <2>3, <2>5
<1>5. ASSUME NEW u \in Users, NEW amount \in Amounts, NEW k \in Keys, ImportHistory(u, amount, k)
      PROVE  ChainInv'
  <2> DEFINE row == Row(k, 0, "sheet_import", u, 0, amount)
  <2>1. row \in Rows /\ row.event[1] = "sheet_import" /\ row.user = u
    BY DEF Row, Rows
  <2>2. /\ history' = Append(history, row) /\ silver' = silver /\ opening' = opening
        /\ revision[u] > 0
    BY <1>5 DEF ImportHistory, Registered
  <2> HIDE DEF row
  <2>3. Chained'
    BY <2>1, <2>2, ChainAppended DEF ChainInv
  <2> QED
    BY <1>3, <2>1, <2>2, <2>3
<1>6. ASSUME NEW who \in Parties, NEW amount \in Amounts, NEW k \in Keys,
             ApplyLootsplit(who, amount, k)
      PROVE  ChainInv'
  <2>1. Chained'
    BY <1>6, ChainSplit DEF ChainInv
  <2>2. PICK n \in Nat : who \in [1 .. n -> Users]
    BY CreditTypes
  <2> DEFINE lines == Lines(who, amount, k)
  <2>3. \A b \in 1 .. n : lines[b].user = who[b] /\ who[b] \in Users /\ revision[who[b]] > 0
    BY <1>6, <2>2 DEF Lines, CreditRow, Row, ApplyLootsplit, Registered
  <2>4. /\ DOMAIN history' = 1 .. Len(history) + n
        /\ \A i \in 1 .. Len(history) : history'[i] = history[i]
        /\ \A b \in 1 .. n : history'[Len(history) + b] = lines[b]
    BY <1>6, <2>2, SplitRows
  <2> HIDE DEF lines
  <2>5. ASSUME NEW i \in DOMAIN history'
        PROVE  \/ i \in DOMAIN history /\ history'[i] = history[i]
               \/ \E b \in 1 .. n : history'[i] = lines[b]
    <3>1. i \in 1 .. Len(history) \/ i - Len(history) \in 1 .. n
      BY <2>2, <2>4, RowTypes
    <3>2. Len(history) + (i - Len(history)) = i
      BY <2>4, RowTypes
    <3> QED
      BY <2>4, <3>1, <3>2, RowTypes
  <2>6. Owned'
    BY <2>3, <2>5, RowTypes, StaysRegistered DEF ChainInv, Owned
  <2> QED
    BY <2>1, <2>6 DEF ChainInv
<1> QED
  BY <1>1, <1>2, <1>4, <1>5, <1>6
     DEF Next, vars, Create, Replace, SetInGuild, FillAlbionId, ReadSiphon, CacheSiphons, Archive

-----------------------------------------------------------------------------
(* The audit history and the earnings                                      *)

LineCredit(row, u) == IF row.user = u THEN Larger(row.actual, 0) ELSE 0

\* f holds the running sums of a player's credits over the rows.
Sums(rows, u, f) ==
    f = [i \in 0 .. Len(rows) |-> IF i = 0 THEN 0 ELSE f[i - 1] + LineCredit(rows[i], u)]

\* The running sums exist and end at what the player earned.
EarnInv ==
    \A u \in Users : \E f : Sums(history, u, f) /\ f[Len(history)] = earned[u]

LEMMA SumsAt ==
  ASSUME NEW n \in Nat, NEW rows, Len(rows) = n, NEW u, NEW f, Sums(rows, u, f)
  PROVE  f[0] = 0 /\ \A i \in 1 .. n : f[i] = f[i - 1] + LineCredit(rows[i], u)
BY DEF Sums

\* The running sums are unique: they cannot differ first at any row.
LEMMA SumsUnique ==
  ASSUME NEW n \in Nat, NEW rows, Len(rows) = n, NEW u, NEW f, NEW g,
         Sums(rows, u, f), Sums(rows, u, g)
  PROVE  f[n] = g[n]
<1> DEFINE D == {i \in 0 .. n : f[i] # g[i]}
<1> SUFFICES ASSUME D # {} PROVE FALSE
  OBVIOUS
<1>1. /\ f[0] = 0 /\ \A i \in 1 .. n : f[i] = f[i - 1] + LineCredit(rows[i], u)
      /\ g[0] = 0 /\ \A i \in 1 .. n : g[i] = g[i - 1] + LineCredit(rows[i], u)
  BY DEF Sums
<1>2. D \in SUBSET Nat
  OBVIOUS
<1>3. PICK i \in D : \A j \in D : ~(<<j, i>> \in OpToRel(<, Nat))
  BY <1>2, NatLessThanWellFounded, WFMin
<1>4. i \in 1 .. n /\ i - 1 \in 0 .. n /\ i - 1 < i
  <2>1. i \in 0 .. n /\ f[i] # g[i]
    BY <1>3
  <2>2. i # 0
    BY <1>1, <2>1
  <2> QED
    BY <2>1, <2>2
<1>5. i - 1 \notin D
  BY <1>2, <1>3, <1>4 DEF OpToRel
<1> QED
  BY <1>1, <1>3, <1>4, <1>5

\* Their last one is the sum of AuditExplainsPlayers.
LEMMA SumsAreCredits ==
  ASSUME TypeOK, EarnInv
  PROVE  EarningsAreCredits
<1> SUFFICES ASSUME NEW u \in Users PROVE earned[u] = Credits(u)
  BY DEF EarningsAreCredits
<1> DEFINE g == CHOOSE f : Sums(history, u, f)
<1>1. Credits(u) = g[Len(history)]
  BY DEF Credits, Credit, Sums, LineCredit
<1>2. PICK f : Sums(history, u, f) /\ f[Len(history)] = earned[u]
  BY DEF EarnInv
<1>3. Sums(history, u, g)
  BY <1>2
<1> HIDE DEF g
<1> QED
  BY <1>1, <1>2, <1>3, RowTypes, SumsUnique

\* n rows follow the first m, and h holds the sums over them.
Follows(rows, more, m, n) ==
    Len(rows) = m /\ Len(more) = m + n /\ \A i \in 1 .. m : more[i] = rows[i]

SumsOver(more, m, n, u, h) ==
    \A b \in 1 .. n : h[b] = h[b - 1] + LineCredit(more[m + b], u)

\* The sums go on over new rows from the sum over the old ones.
LEMMA SumsExtended ==
  ASSUME NEW m \in Nat, NEW n \in Nat, NEW rows, NEW more, NEW u, NEW f, NEW h,
         Follows(rows, more, m, n), SumsOver(more, m, n, u, h),
         Sums(rows, u, f), h[0] = f[m]
  PROVE  \E g : Sums(more, u, g) /\ g[Len(more)] = h[n]
<1> SUFFICES ASSUME Len(rows) = m, Len(more) = m + n, \A i \in 1 .. m : more[i] = rows[i],
                    \A b \in 1 .. n : h[b] = h[b - 1] + LineCredit(more[m + b], u)
             PROVE  \E g : Sums(more, u, g) /\ g[Len(more)] = h[n]
  BY DEF Follows, SumsOver
<1> DEFINE g == [i \in 0 .. m + n |-> IF i <= m THEN f[i] ELSE h[i - m]]
<1>1. f[0] = 0 /\ \A i \in 1 .. m : f[i] = f[i - 1] + LineCredit(rows[i], u)
  BY DEF Sums
<1>2. ASSUME NEW i \in 0 .. m + n
      PROVE  g[i] = IF i = 0 THEN 0 ELSE g[i - 1] + LineCredit(more[i], u)
  <2>1. CASE i = 0
    BY <1>1, <2>1
  <2>2. CASE i \in 1 .. m
    BY <1>1, <2>2
  <2>3. CASE i = m + 1
    <3>1. g[i] = h[1] /\ g[i - 1] = f[m] /\ 1 \in 1 .. n
      <4>1. i - m = 1 /\ i - 1 = m /\ m \in 0 .. m + n /\ ~(i <= m) /\ 1 \in 1 .. n
        BY <2>3
      <4> QED
        BY <4>1
    <3>2. h[1] = h[0] + LineCredit(more[i], u)
      BY <2>3, <3>1
    <3> QED
      BY <2>3, <3>1, <3>2
  <2>4. CASE i > m + 1
    <3>1. g[i] = h[i - m] /\ g[i - 1] = h[i - m - 1] /\ i - m \in 1 .. n /\ m + (i - m) = i
      BY <2>4
    <3>2. h[i - m] = h[i - m - 1] + LineCredit(more[m + (i - m)], u)
      BY <3>1
    <3> QED
      BY <2>4, <3>1, <3>2
  <2> QED
    BY <2>1, <2>2, <2>3, <2>4
<1>3. Sums(more, u, g)
  <2>1. g = [i \in 0 .. m + n |-> g[i]]
    OBVIOUS
  <2> HIDE DEF g
  <2>2. g = [i \in 0 .. m + n |-> IF i = 0 THEN 0 ELSE g[i - 1] + LineCredit(more[i], u)]
    BY <1>2, <2>1
  <2> QED
    BY <2>2 DEF Sums
<1>4. g[m + n] = h[n]
  <2>1. CASE n = 0
    BY <2>1
  <2>2. CASE n > 0
    <3>1. m + n \in 0 .. m + n /\ m + n - m = n /\ ~(m + n <= m)
      BY <2>2
    <3> QED
      BY <3>1
  <2> QED
    BY <2>1, <2>2
<1> HIDE DEF g
<1> QED
  BY <1>3, <1>4

LEMMA EarnGrown ==
  ASSUME EarnInv, NEW m \in Nat, NEW n \in Nat, Follows(history, history', m, n),
         \A u \in Users : \E h : /\ h[0] = earned[u] /\ h[n] = earned'[u]
                                /\ SumsOver(history', m, n, u, h)
  PROVE  EarnInv'
<1> SUFFICES ASSUME NEW u \in Users
             PROVE  \E g : Sums(history', u, g) /\ g[Len(history')] = earned'[u]
  BY DEF EarnInv
<1>1. PICK f : Sums(history, u, f) /\ f[Len(history)] = earned[u]
  BY DEF EarnInv
<1>2. PICK h : h[0] = earned[u] /\ h[n] = earned'[u] /\ SumsOver(history', m, n, u, h)
  OBVIOUS
<1>3. h[0] = f[m]
  BY <1>1, <1>2 DEF Follows
<1>4. \E g : Sums(history', u, g) /\ g[Len(history')] = h[n]
  BY <1>1, <1>2, <1>3, SumsExtended
<1> QED
  BY <1>2, <1>4

\* One row appended.
LEMMA EarnAppended ==
  ASSUME TypeOK, EarnInv, NEW row \in Rows, history' = Append(history, row),
         \A u \in Users : earned'[u] = earned[u] + LineCredit(row, u)
  PROVE  EarnInv'
<1> DEFINE m == Len(history)
<1>1. m \in Nat /\ Follows(history, history', m, 1) /\ history'[m + 1] = row
  BY RowTypes DEF Follows
<1> HIDE DEF m
<1>2. ASSUME NEW u \in Users
      PROVE  \E h : h[0] = earned[u] /\ h[1] = earned'[u] /\ SumsOver(history', m, 1, u, h)
  <2> DEFINE h == [b \in 0 .. 1 |-> IF b = 0 THEN earned[u] ELSE earned[u] + LineCredit(row, u)]
  <2>1. h[0] = earned[u] /\ h[1] = earned'[u]
    OBVIOUS
  <2>2. SumsOver(history', m, 1, u, h)
    <3>1. h[1] = h[0] + LineCredit(history'[m + 1], u)
      BY <1>1, <2>1
    <3> HIDE DEF h
    <3>2. ASSUME NEW b \in 1 .. 1 PROVE h[b] = h[b - 1] + LineCredit(history'[m + b], u)
      <4>1. b = 1 /\ b - 1 = 0
        OBVIOUS
      <4> QED
        BY <3>1, <4>1, Zenon
    <3> QED
      BY <3>2 DEF SumsOver
  <2> HIDE DEF h
  <2> QED
    BY <2>1, <2>2
<1> QED
  BY <1>1, <1>2, EarnGrown

\* A lootsplit adds its amount once for each line of the player.
LEMMA EarnSplit ==
  ASSUME TypeOK, EarnInv, NEW who \in Parties, NEW amount \in Amounts, NEW k \in Keys,
         ApplyLootsplit(who, amount, k)
  PROVE  EarnInv'
<1>1. PICK n \in Nat : who \in [1 .. n -> Users]
  BY CreditTypes
<1> DEFINE m == Len(history)
<1>2. /\ m \in Nat /\ Len(history) = m /\ Len(history') = m + n
      /\ \A i \in 1 .. m : history'[i] = history[i]
      /\ \A b \in 1 .. n : history'[m + b] = Lines(who, amount, k)[b]
  <2>1. Lines(who, amount, k) \in Seq(Rows) /\ DOMAIN Lines(who, amount, k) = 1 .. n
    BY <1>1, LineTypes DEF Lines
  <2>2. history' = history \o Lines(who, amount, k)
    BY DEF ApplyLootsplit, Lines
  <2>3. Len(Lines(who, amount, k)) = n
    BY <1>1, <2>1
  <2>4. Len(history') = m + n
    BY <2>1, <2>2, <2>3, RowTypes, ConcatProperties
  <2> QED
    BY <1>1, <2>4, RowTypes, SplitRows
<1> HIDE DEF m
<1>3. Follows(history, history', m, n)
  BY <1>2 DEF Follows
<1> SUFFICES ASSUME NEW u \in Users
             PROVE  \E h : /\ h[0] = earned[u] /\ h[n] = earned'[u]
                           /\ SumsOver(history', m, n, u, h)
  BY <1>1, <1>2, <1>3, EarnGrown
<1>4. \A b \in 1 .. n : LineCredit(history'[m + b], u) = IF who[b] = u THEN amount ELSE 0
  <2>1. \A b \in 1 .. n : Lines(who, amount, k)[b].user = who[b] /\ Lines(who, amount, k)[b].actual = amount
    BY <1>1 DEF Lines, CreditRow, Row
  <2>2. Larger(amount, 0) = amount
    BY DEF Larger
  <2> QED
    BY <1>2, <2>1, <2>2 DEF LineCredit
<1> DEFINE Upto(b) == {j \in 1 .. n : j <= b /\ who[j] = u}
           h == [b \in 0 .. n |-> earned[u] + amount * Cardinality(Upto(b))]
<1>5. \A b \in 0 .. n : IsFiniteSet(Upto(b)) /\ Cardinality(Upto(b)) \in Nat
  <2>1. IsFiniteSet(1 .. n)
    BY FS_Interval
  <2> QED
    BY <2>1, FS_Subset, FS_CardinalityType
<1>6. h[0] = earned[u]
  <2>1. Upto(0) = {} /\ Cardinality(Upto(0)) = 0
    BY FS_EmptySet
  <2>2. amount * 0 = 0 /\ earned[u] + 0 = earned[u]
    BY DEF TypeOK
  <2> QED
    BY <2>1, <2>2
<1>7. h[n] = earned'[u]
  <2>1. Upto(n) = {j \in DOMAIN who : who[j] = u}
    BY <1>1
  <2>2. CreditsOf(who, u) = Cardinality(Upto(n))
    BY <2>1 DEF CreditsOf
  <2>3. h[n] = earned[u] + amount * Cardinality(Upto(n))
    OBVIOUS
  <2> HIDE DEF h
  <2> QED
    BY <2>2, <2>3 DEF ApplyLootsplit
<1>8. ASSUME NEW b \in 1 .. n
      PROVE  h[b] = h[b - 1] + LineCredit(history'[m + b], u)
  <2>1. b - 1 \in 0 .. n /\ b \in 0 .. n
    OBVIOUS
  <2> DEFINE c == Cardinality(Upto(b - 1))
  <2>2. c \in Nat /\ amount \in Nat /\ earned[u] \in Nat
    BY <1>5, <2>1 DEF TypeOK
  <2>3. CASE who[b] = u
    <3>1. Upto(b) = Upto(b - 1) \union {b} /\ b \notin Upto(b - 1)
      BY <2>3
    <3>2. Cardinality(Upto(b)) = c + 1
      BY <1>5, <2>1, <3>1, FS_AddElement
    <3> HIDE DEF c
    <3>3. amount * (c + 1) = amount * c + amount /\ amount * c \in Nat
      BY <2>2
    <3>4. h[b] = earned[u] + amount * (c + 1) /\ h[b - 1] = earned[u] + amount * c
      BY <2>1, <3>2 DEF c
    <3>5. LineCredit(history'[m + b], u) = amount
      BY <1>4, <2>3
    <3> HIDE DEF h
    <3> QED
      BY <2>2, <3>3, <3>4, <3>5
  <2>4. CASE who[b] # u
    <3>1. Upto(b) = Upto(b - 1)
      BY <2>4
    <3>2. h[b] = h[b - 1]
      BY <2>1, <3>1
    <3>3. amount * c \in Nat
      BY <2>2
    <3>4. h[b - 1] \in Nat
      BY <2>1, <2>2, <3>3
    <3>5. LineCredit(history'[m + b], u) = 0
      BY <1>4, <2>4
    <3> HIDE DEF h
    <3> QED
      BY <3>2, <3>4, <3>5
  <2> QED
    BY <2>3, <2>4
<1> HIDE DEF h
<1>9. SumsOver(history', m, n, u, h)
  BY <1>8 DEF SumsOver
<1> QED
  BY <1>6, <1>7, <1>9

\* Every transaction adds to the earnings what its audit rows say.
LEMMA EarnStep ==
  ASSUME TypeOK, EarnInv, [Next]_vars
  PROVE  EarnInv'
<1>1. ASSUME UNCHANGED <<history, earned>> PROVE EarnInv'
  BY <1>1 DEF EarnInv
<1>2. ASSUME NEW u \in Users, NEW delta \in Deltas, NEW k \in Keys, ChangeBalance(u, delta, k)
      PROVE  EarnInv'
  <2> DEFINE actual == Withdrawn(u, delta) - silver[u]
             row    == Row(k, 0, "manual", u, silver[u], actual)
  <2>1. Withdrawn(u, delta) \in Nat /\ silver[u] \in Nat
    BY WithdrawnTypes
  <2>2. row \in Rows /\ row.user = u /\ row.actual = actual
    BY <2>1 DEF Row, Rows
  <2>3. history' = Append(history, row) /\ earned' = [earned EXCEPT ![u] = @ + Gain(actual)]
    BY <1>2 DEF ChangeBalance
  <2> HIDE DEF row, actual
  <2>5. earned \in [Users -> Nat]
    BY DEF TypeOK
  <2>6. earned'[u] = earned[u] + Gain(actual) /\ \A v \in Users : v # u => earned'[v] = earned[v]
    BY <2>3, <2>5
  <2>7. LineCredit(row, u) = Gain(actual) /\ \A v \in Users : v # u => LineCredit(row, v) = 0
    BY <2>2 DEF LineCredit, Gain
  <2>4. ASSUME NEW v \in Users PROVE earned'[v] = earned[v] + LineCredit(row, v)
    BY <2>5, <2>6, <2>7
  <2> QED
    BY <2>2, <2>3, <2>4, EarnAppended
<1>3. ASSUME NEW u \in Users, NEW amount \in Amounts, NEW k \in Keys, ImportHistory(u, amount, k)
      PROVE  EarnInv'
  <2> DEFINE row == Row(k, 0, "sheet_import", u, 0, amount)
  <2>1. row \in Rows /\ row.user = u /\ row.actual = amount
    BY DEF Row, Rows
  <2>2. history' = Append(history, row) /\ earned' = [earned EXCEPT ![u] = @ + amount]
    BY <1>3 DEF ImportHistory
  <2> HIDE DEF row
  <2>4. earned \in [Users -> Nat] /\ amount \in Nat
    BY DEF TypeOK
  <2>5. earned'[u] = earned[u] + amount /\ \A v \in Users : v # u => earned'[v] = earned[v]
    BY <2>2, <2>4
  <2>6. LineCredit(row, u) = amount /\ \A v \in Users : v # u => LineCredit(row, v) = 0
    BY <2>1, <2>4 DEF LineCredit, Larger
  <2>3. ASSUME NEW v \in Users PROVE earned'[v] = earned[v] + LineCredit(row, v)
    BY <2>4, <2>5, <2>6
  <2> QED
    BY <2>1, <2>2, <2>3, EarnAppended
<1> QED
  BY <1>1, <1>2, <1>3, EarnSplit
     DEF Next, vars, Create, Replace, SetInGuild, FillAlbionId, ImportPlayer, ReadSiphon,
         CacheSiphons, Archive

-----------------------------------------------------------------------------
(* Theorems                                                                *)

Inv == TypeOK /\ OwnershipIsUnique /\ SiphonSafe /\ OnceInv /\ AnnounceInv /\ ChainInv /\ EarnInv

\* The invariant is inductive.
THEOREM Invariant == Spec => []Inv
<1>1. Init => Inv
  <2> SUFFICES ASSUME Init PROVE Inv
    OBVIOUS
  <2>1. TypeOK
    BY TypeInit
  <2>2. OwnershipIsUnique
    BY DEF Init, OwnershipIsUnique, Registered
  <2>3. SiphonSafe
    BY DEF Init, SiphonSafe, SiphonInv, CurrentSiphonIsRight
  <2>4. OnceInv
    BY DEF Init, OnceInv, RecordedOnce
  <2>5. AnnounceInv
    BY DEF Init, AnnounceInv, RevisionsAreAnnounced
  <2>6. history = <<>> /\ Len(history) = 0 /\ DOMAIN history = {}
    BY DEF Init
  <2>7. ChainInv
    BY <2>6 DEF Init, ChainInv, Chained, Owned, MovesOf
  <2>8. EarnInv
    <3> SUFFICES ASSUME NEW u \in Users
                 PROVE  \E f : Sums(history, u, f) /\ f[Len(history)] = earned[u]
      BY DEF EarnInv
    <3> DEFINE f == [i \in 0 .. 0 |-> 0]
    <3>1. Sums(history, u, f) /\ f[Len(history)] = earned[u]
      BY <2>6 DEF Init, Sums
    <3> QED
      BY <3>1
  <2> QED
    BY <2>1, <2>2, <2>3, <2>4, <2>5, <2>7, <2>8 DEF Inv
<1>2. Inv /\ [Next]_vars => Inv'
  BY TypeStep, OwnershipStep, SiphonStep, OnceStep, AnnounceStep, ChainStep, EarnStep DEF Inv
<1> QED
  BY <1>1, <1>2, PTL DEF Spec

\* The ledger's types, for balances and lootsplits of any size.
THEOREM TypeInvariant == Spec => []TypeOK
<1>1. Inv => TypeOK
  BY DEF Inv
<1> QED
  BY <1>1, Invariant, PTL

\* A nickname and a character belong to one account through registrations,
\* returns, character changes and the import (register_player,
\* import_player).
THEOREM Ownership == Spec => []OwnershipIsUnique
<1>1. Inv => OwnershipIsUnique
  BY DEF Inv
<1> QED
  BY <1>1, Invariant, PTL

\* A cached Siphon that claims the present revision was computed from the
\* present Silver, however the ledger moved while the Sheet was read
\* (cache_siphons).
THEOREM SiphonsAreRight == Spec => []CurrentSiphonIsRight
<1>1. Inv => CurrentSiphonIsRight
  BY DEF Inv, SiphonSafe
<1> QED
  BY <1>1, Invariant, PTL

\* No command, imported row or lootsplit line is recorded twice, in whatever
\* order retries arrive (change_balance, apply_lootsplit).
THEOREM NothingTwice == Spec => []RecordedOnce
<1>1. Inv => RecordedOnce
  BY DEF Inv, OnceInv
<1> QED
  BY <1>1, Invariant, PTL

\* Every revision a projection must see travels with an event, also those in the
\* middle of a lootsplit that pays one player several times, and the next
\* registration event has a fresh id.
THEOREM Announcements == Spec => []RevisionsAreAnnounced
<1>1. Inv => RevisionsAreAnnounced
  BY DEF Inv, AnnounceInv
<1> QED
  BY <1>1, Invariant, PTL

\* The audit history accounts for all the money of a player, in a history and
\* lootsplits of any length: the rows chain from the opening balance to the
\* Silver, and the earnings are the sum of all credits (change_balance,
\* apply_lootsplit, import_balance_history).
THEOREM MoneyIsExplained == Spec => []AuditExplainsPlayers
<1>1. Inv => AuditExplainsPlayers
  BY ChainExplains, SumsAreCredits DEF Inv, AuditExplainsPlayers
<1> QED
  BY <1>1, Invariant, PTL
=============================================================================

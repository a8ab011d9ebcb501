---------------------------- MODULE Purge_proofs ----------------------------
(***************************************************************************)
(* What dlrn-purge leaves to the others, for any table to start with, any  *)
(* number of projects, promotion names, clients and aggregated files, any  *)
(* excluded directories and any bounds.                                    *)
(***************************************************************************)
EXTENDS Purge, CommitDB_proofs

-----------------------------------------------------------------------------
(* The invariant                                                           *)

Success(i) == i \in DOMAIN db /\ ~db[i].gone /\ db[i].status = "SUCCESS"

Has(r) == \E i \in DOMAIN db : db[i].rev = r

Succeeded(r) == \E i \in DOMAIN db : Success(i) /\ db[i].rev = r

\* The directory of a success may go: a later one is there, or the order of
\* the builds says nothing.
Superseded(i) ==
    \/ ~InBuildOrder(db[i].rev.pkg)
    \/ \E j \in DOMAIN db : Success(j) /\ i < j /\ db[j].rev.pkg = db[i].rev.pkg

\* The revision of the last success of its project.
NewestRev(r) ==
    \E i \in DOMAIN db :
       /\ Success(i) /\ db[i].rev = r
       /\ \A j \in DOMAIN db : Success(j) /\ db[j].rev.pkg = r.pkg => j <= i

AllInOrder == \A q \in Package : InBuildOrder(q)

\* The row whose directory is about to be removed.
Pending(i) == PurgeAt("remove") /\ i \in Latest(purge.todo)

Flagged(i) == i \in purged \/ i \in purge.marks

PurgeOK ==
    /\ PurgeAt("idle") => purge = NoPurge
    /\ purge.todo \subseteq DOMAIN db
    /\ \A i \in purge.todo : dtbuild[i] # None /\ (db[i].status = "SUCCESS" => Success(i))
    /\ PurgeAt("remove") => Latest(purge.todo) \subseteq purge.marks \ purged
    /\ \A q \in purge.full : \E k \in DOMAIN db :
          /\ Success(k) /\ db[k].rev.pkg = q
          /\ \A i \in purge.todo : i <= k /\ (PurgeAt("row") => i # k)
    /\ purge.pc \in {"names", "hash"} => purge.marks \subseteq purged
    /\ PurgeAt("hash") => purge.name \in Name

FlagsOK == \A i \in DOMAIN db : Success(i) /\ Flagged(i) => Superseded(i)

NewestThere ==
    \A i \in DOMAIN db : Success(i) /\ AtOnce(db[i].rev) /\ ~Superseded(i) => db[i].rev \in dirs

GoneIsFlagged ==
    lost = 0 => \A i \in DOMAIN db :
        Success(i) /\ AtOnce(db[i].rev) /\ db[i].rev \notin dirs => Flagged(i)

FlaggedIsGone ==
    \A i \in DOMAIN db :
        Success(i) /\ AtOnce(db[i].rev) /\ Flagged(i) /\ db[i].rev \notin again /\ ~Pending(i) =>
            db[i].rev \notin dirs

WorkOK ==
    /\ working.pc # "none" => working.rev \in Rev
    /\ working.pc \in {"build", "record"} /\ ~Has(working.rev) => working.rev \in dirs
    /\ working.pc \in {"current", "consistent"} => NewestRev(working.rev)
    /\ \/ WorkAt("record") /\ ~Has(working.rev)
       \/ working.pc \in {"current", "consistent"} /\ AtOnce(working.rev)
       => \A s \in linked[working.rev] : NewestRev(s) /\ s.pkg # working.rev.pkg

LinkedOK ==
    /\ \A r \in Rev : \A s \in linked[r] : Succeeded(s)
    /\ \A r \in Rev : ~Has(r) /\ ~(WorkAt("record") /\ working.rev = r) => linked[r] = {}
    /\ \A d \in {"current", "consistent"} : links[d] # None => Succeeded(links[d])

CurrentOK ==
    links["current"] # None /\ AtOnce(links["current"]) /\ ~WorkAt("current") =>
        \A s \in {links["current"]} \cup linked[links["current"]] : NewestRev(s)

\* Nothing an excluded directory shows goes, and nothing of it is about to.
Shown(d, s) ==
    /\ links[d] # None /\ AtOnce(links[d])
    /\ s \in {links[d]} \cup linked[links[d]] /\ AtOnce(s)

ExcludedOK ==
    AllInOrder => \A d \in ExcludeDirs : \A s \in Rev :
        Shown(d, s) => s \in dirs /\ \A i \in DOMAIN db : Pending(i) => db[i].rev # s

BuildInv ==
    /\ PurgeOK /\ FlagsOK /\ NewestThere /\ GoneIsFlagged /\ FlaggedIsGone
    /\ WorkOK /\ LinkedOK /\ CurrentOK /\ ExcludedOK

\* A promotion of one commit.
SingleOK(c) ==
    c.pc # "idle" =>
        /\ ~c.batch /\ c.pc # "rollback"
        /\ Len(c.items) = 1 /\ c.i = 1
        /\ c.file \in DOMAIN AggFile
        /\ c.pc \in {"check", "look", "unlink", "link", "aggregate"} => c.file = 1
        /\ c.pc \in {"aggregate", "symlink", "rename", "insert"} => c.rows # <<>>
        /\ c.pc \in {"symlink", "rename"} => c.content \in Content

SinglesOK == kills = 0 /\ \A p \in Client : SingleOK(call[p])

PromosOK ==
    \A p \in InProgress : p \notin mixed =>
        /\ PurgeAt("idle")
        /\ lost = 0 /\ call[p].pc \in {"look", "unlink", "link"} /\ AtOnce(ItemOf(p).rev) =>
              ItemOf(p).rev \in dirs

\* Who renames a temporary name has made it.
TempsOK ==
    /\ AggTempInUse
    /\ \A p \in Client : CallAt(p, "rename") => temps[NameOf(p)][call[p].file] = call[p].content
    /\ \A p, q \in Client :
          CallAt(p, "rename") /\ CallAt(q, "rename") /\ NameOf(p) = NameOf(q)
             /\ call[p].file = call[q].file => p = q

AtFiles(p) == call[p].pc \in {"symlink", "rename"}

\* The files of a name lead to one directory, but while a promotion moves them
\* one after the other.
Settled(n) == \A f \in DOMAIN AggFile : files[n][f] = files[n][1]

SettledOK ==
    ~crossed =>
        /\ \A p, q \in InProgress : p = q
        /\ \A n \in Name : Settled(n) \/ \E p \in Client : AtFiles(p) /\ NameOf(p) = n
        /\ \A p \in Client : AtFiles(p) =>
              \A f \in 1..(call[p].file - 1) : files[NameOf(p)][f] = call[p].content

KeptOK ==
    ~raced =>
        /\ ~PurgeAt("idle") => InProgress = {}
        /\ PurgeAt("hash") => purge.protected = files[purge.name][1]
        /\ \A p \in Client : AtFiles(p) => call[p].content \in hashdirs[NameOf(p)]

PromoInv == SinglesOK /\ PromosOK /\ TempsOK /\ SettledOK /\ KeptOK /\ AggregatesKept

PurgeInv == TypeOK /\ BuildInv /\ PromoInv
-----------------------------------------------------------------------------
(* Types, in parts                                                         *)

TableTypes ==
    /\ db \in Seq(Row)
    /\ purged \subseteq DOMAIN db
    /\ dirs \subseteq Rev
    /\ dtbuild \in Seq(Day) /\ Len(dtbuild) = Len(db)

BuildTypes ==
    /\ links \in [{"current", "consistent"} -> Rev \cup {None}]
    /\ linked \in [Rev -> SUBSET Rev]
    /\ day \in Nat
    /\ working \in Working
    /\ purge \in Purging /\ purge.marks \subseteq DOMAIN db
    /\ again \subseteq Rev
    /\ lost \in Nat /\ builds \in Nat /\ imports \in Nat /\ rechecks \in Nat

PromoTypes ==
    /\ plinks \in [Link -> Rev \cup {None}]
    /\ promos \in Seq(Promotion)
    /\ hashdirs \in [Name -> SUBSET Content]
    /\ files \in [Name -> [DOMAIN AggFile -> Content \cup {None}]]
    /\ temps \in [Name -> [DOMAIN AggFile -> Content \cup {None}]]
    /\ call \in [Client -> Call]
    /\ kills \in Nat

HistTypes ==
    /\ born \in [Name -> [Content -> Nat]]
    /\ mixed \subseteq Client
    /\ raced \in BOOLEAN /\ crossed \in BOOLEAN

LEMMA TypeParts == TypeOK <=> TableTypes /\ BuildTypes /\ PromoTypes /\ HistTypes
BY DEF TypeOK, TableTypes, BuildTypes, PromoTypes, HistTypes, PromotionsTypeOK

LEMMA TypePartsAfter ==
  ASSUME TableTypes', BuildTypes', PromoTypes', HistTypes'
  PROVE  TypeOK'
BY DEF TypeOK, TableTypes, BuildTypes, PromoTypes, HistTypes, PromotionsTypeOK

LEMMA NoneApart == None \notin Rev /\ None \notin Content /\ None \notin Nat
BY PromotionsAssumption, PurgeAssumption DEF Content

LEMMA Rows ==
  ASSUME TableTypes, NEW i \in DOMAIN db
  PROVE  /\ i \in Nat /\ db[i] \in Row /\ db[i].rev \in Rev /\ db[i].rev.pkg \in Package
         /\ i \in DOMAIN dtbuild /\ dtbuild[i] \in Day
<1>1. i \in Nat /\ db[i] \in Row /\ i \in DOMAIN dtbuild /\ dtbuild[i] \in Day
  BY DEF TableTypes
<1> QED  BY <1>1, RowType

-----------------------------------------------------------------------------
(* The table: rows come, and what there is stays, but for failures that a  *)
(* recheck withdraws.                                                      *)

TableGrows ==
    /\ TableTypes /\ TableTypes'
    /\ DOMAIN db \subseteq DOMAIN db'
    /\ \A i \in DOMAIN db :
          /\ db'[i].rev = db[i].rev /\ db'[i].status = db[i].status
          /\ dtbuild'[i] = dtbuild[i]
          /\ Success(i)' <=> Success(i)
    /\ \A i \in DOMAIN db, j \in DOMAIN db' \ DOMAIN db : i < j

\* No success among the rows that came,
NoSuccessCame ==
    /\ TableGrows
    /\ \A j \in DOMAIN db' : Success(j)' => j \in DOMAIN db

\* or one with its directory, if it is the first attempt.
CameThere ==
    /\ TableGrows
    /\ \A j \in DOMAIN db' \ DOMAIN db :
          Success(j)' /\ AtOnce(db[j].rev)' => db'[j].rev \in dirs'

LEMMA GrowsKeeps ==
  ASSUME TableGrows, NEW r
  PROVE  /\ AtOnce(r)' => AtOnce(r)
         /\ Has(r) => Has(r)'
         /\ Succeeded(r) => Succeeded(r)'
BY DEF TableGrows, AtOnce, Has, Succeeded

LEMMA SuccessesOf ==
  ASSUME NEW q
  PROVE  InBuildOrder(q) <=>
            \A i, j \in DOMAIN db :
               /\ Success(i) /\ Success(j) /\ db[i].rev.pkg = q /\ db[j].rev.pkg = q
               /\ i < j /\ None \notin {dtbuild[i], dtbuild[j]}
               => dtbuild[i] <= dtbuild[j]
BY DEF InBuildOrder, WithStatus, RowsOf, Live, Success

LEMMA OrderAntitone ==
  ASSUME TableGrows, NEW q, InBuildOrder(q)'
  PROVE  InBuildOrder(q)
<1> SUFFICES ASSUME NEW i \in DOMAIN db, NEW j \in DOMAIN db,
                    Success(i), Success(j), db[i].rev.pkg = q, db[j].rev.pkg = q,
                    i < j, None \notin {dtbuild[i], dtbuild[j]}
             PROVE  dtbuild[i] <= dtbuild[j]
  BY SuccessesOf
<1>1. /\ i \in DOMAIN db' /\ j \in DOMAIN db'
      /\ db'[i].rev = db[i].rev /\ db'[j].rev = db[j].rev
      /\ dtbuild'[i] = dtbuild[i] /\ dtbuild'[j] = dtbuild[j]
      /\ Success(i)' /\ Success(j)'
  BY DEF TableGrows
<1>2. \A k, m \in DOMAIN db' :
         /\ Success(k)' /\ Success(m)' /\ db'[k].rev.pkg = q /\ db'[m].rev.pkg = q
         /\ k < m /\ None \notin {dtbuild'[k], dtbuild'[m]}
         => dtbuild'[k] <= dtbuild'[m]
  BY DEF InBuildOrder, WithStatus, RowsOf, Live, Success
<1> QED  BY <1>1, <1>2

LEMMA AllInOrderAntitone ==
  ASSUME TableGrows, AllInOrder'
  PROVE  AllInOrder
BY OrderAntitone DEF AllInOrder

LEMMA SupersededStays ==
  ASSUME TableGrows, NEW i \in DOMAIN db, Superseded(i)
  PROVE  Superseded(i)'
<1>1. db'[i].rev = db[i].rev
  BY DEF TableGrows
<1>2. CASE ~InBuildOrder(db[i].rev.pkg)
  <2>1. PICK q : q = db[i].rev.pkg
    OBVIOUS
  <2>2. ~InBuildOrder(q)'
    BY <1>2, <2>1, OrderAntitone
  <2> QED  BY <1>1, <2>1, <2>2 DEF Superseded
<1>3. CASE \E j \in DOMAIN db : Success(j) /\ i < j /\ db[j].rev.pkg = db[i].rev.pkg
  BY <1>1, <1>3 DEF Superseded, TableGrows
<1> QED  BY <1>2, <1>3 DEF Superseded

LEMMA NewestStays ==
  ASSUME NoSuccessCame, NEW r, NewestRev(r)
  PROVE  NewestRev(r)'
BY DEF NoSuccessCame, TableGrows, NewestRev, Success

LEMMA CameNone ==
  ASSUME NoSuccessCame
  PROVE  TableGrows /\ CameThere
BY DEF NoSuccessCame, CameThere, TableGrows

LEMMA SameTable ==
  ASSUME TableTypes, TableTypes', UNCHANGED <<db, dtbuild>>
  PROVE  NoSuccessCame /\ TableGrows /\ CameThere
<1>1. NoSuccessCame
  BY DEF NoSuccessCame, TableGrows, Success
<1> QED  BY <1>1, CameNone
-----------------------------------------------------------------------------
(* What keeps each part of the invariant                                   *)

LEMMA KeepsPurge ==
  ASSUME TableGrows, PurgeOK, UNCHANGED <<purge, purged>>
  PROVE  PurgeOK'
<1>1. /\ \A i \in purge.todo : dtbuild'[i] # None /\ (db'[i].status = "SUCCESS" => Success(i)')
      /\ purge.todo \subseteq DOMAIN db'
  BY DEF PurgeOK, TableGrows
<1>2. \A q \in purge.full : \E k \in DOMAIN db' :
         /\ Success(k)' /\ db'[k].rev.pkg = q
         /\ \A i \in purge.todo : i <= k /\ (PurgeAt("row") => i # k)
  BY DEF PurgeOK, TableGrows
<1> QED  BY <1>1, <1>2 DEF PurgeOK, PurgeAt

LEMMA PurgeEnds ==
  ASSUME TableTypes', purge' = NoPurge
  PROVE  PurgeOK'
BY DEF PurgeOK, PurgeAt, NoPurge

LEMMA KeepsFlags ==
  ASSUME TableGrows, FlagsOK,
         \A i : Flagged(i)' => i \in DOMAIN db,
         \A i \in DOMAIN db : Success(i) /\ Flagged(i)' => Flagged(i) \/ Superseded(i)
  PROVE  FlagsOK'
<1> SUFFICES ASSUME NEW i \in DOMAIN db', Success(i)', Flagged(i)'
             PROVE  Superseded(i)'
  BY DEF FlagsOK
<1>1. i \in DOMAIN db /\ Success(i)
  BY DEF TableGrows
<1>2. Superseded(i)
  BY <1>1 DEF FlagsOK
<1> QED  BY <1>1, <1>2, SupersededStays

LEMMA KeepsNewest ==
  ASSUME CameThere, NewestThere,
         \A i \in DOMAIN db : Success(i) /\ AtOnce(db[i].rev) /\ ~Superseded(i) =>
             db[i].rev \in dirs'
  PROVE  NewestThere'
<1> SUFFICES ASSUME NEW i \in DOMAIN db', Success(i)', AtOnce(db[i].rev)', ~Superseded(i)'
             PROVE  db'[i].rev \in dirs'
  BY DEF NewestThere
<1>0. CASE i \notin DOMAIN db
  BY <1>0 DEF CameThere
<1>1. CASE i \in DOMAIN db
  <2>1. TableGrows /\ Success(i) /\ db'[i].rev = db[i].rev
    BY <1>1 DEF CameThere, TableGrows
  <2>2. PICK r : r = db[i].rev /\ r = db'[i].rev
    BY <2>1
  <2>3. AtOnce(r)'
    BY <2>2
  <2>4. AtOnce(r)
    BY <2>1, <2>3, GrowsKeeps
  <2>5. ~Superseded(i)
    BY <1>1, <2>1, SupersededStays
  <2> QED  BY <1>1, <2>1, <2>2, <2>4, <2>5
<1> QED  BY <1>0, <1>1

LEMMA KeepsGone ==
  ASSUME CameThere, GoneIsFlagged,
         lost' = 0 =>
            /\ lost = 0
            /\ \A i \in DOMAIN db : Success(i) /\ AtOnce(db[i].rev) =>
                  /\ Flagged(i) => Flagged(i)'
                  /\ db[i].rev \in dirs => db[i].rev \in dirs' \/ Flagged(i)'
  PROVE  GoneIsFlagged'
<1> SUFFICES ASSUME lost' = 0, NEW i \in DOMAIN db', Success(i)', AtOnce(db[i].rev)',
                    db'[i].rev \notin dirs'
             PROVE  Flagged(i)'
  BY DEF GoneIsFlagged
<1>0. i \in DOMAIN db
  BY DEF CameThere
<1>1. TableGrows /\ Success(i) /\ db'[i].rev = db[i].rev
  BY <1>0 DEF CameThere, TableGrows
<1>2. PICK r : r = db[i].rev /\ r = db'[i].rev
  BY <1>1
<1>3. AtOnce(r)'
  BY <1>2
<1>4. AtOnce(r)
  BY <1>1, <1>3, GrowsKeeps
<1> QED  BY <1>0, <1>1, <1>2, <1>4 DEF GoneIsFlagged

LEMMA KeepsFlagged ==
  ASSUME TableGrows,
         \A i : Flagged(i)' => i \in DOMAIN db,
         \A i \in DOMAIN db :
            /\ Success(i) /\ AtOnce(db[i].rev)
            /\ Flagged(i)' /\ db[i].rev \notin again' /\ ~Pending(i)'
            => db[i].rev \notin dirs'
  PROVE  FlaggedIsGone'
<1> SUFFICES ASSUME NEW i \in DOMAIN db', Success(i)', AtOnce(db[i].rev)', Flagged(i)',
                    db'[i].rev \notin again', ~Pending(i)'
             PROVE  db'[i].rev \notin dirs'
  BY DEF FlaggedIsGone
<1>1. i \in DOMAIN db /\ Success(i) /\ db'[i].rev = db[i].rev
  BY DEF TableGrows
<1>2. PICK r : r = db[i].rev /\ r = db'[i].rev
  BY <1>1
<1>3. AtOnce(r)'
  BY <1>2
<1>4. AtOnce(r)
  BY <1>1, <1>3, GrowsKeeps
<1> QED  BY <1>1, <1>2, <1>4

LEMMA KeepsWork ==
  ASSUME NoSuccessCame, WorkOK, UNCHANGED working,
         \A r \in Rev : linked'[r] \subseteq linked[r],
         \A r \in Rev : r \in dirs /\ ~Has(r) => r \in dirs'
  PROVE  WorkOK'
<1> DEFINE r == working.rev
<1>1. CASE working.pc = "none"
  BY <1>1 DEF WorkOK, WorkAt
<1>2. CASE working.pc # "none"
  <2>0. PICK w \in Rev : w = working.rev /\ w = working'.rev
    BY <1>2 DEF WorkOK
  <2>1. TableGrows
    BY DEF NoSuccessCame
  <2>2. (Has(w) => Has(w)') /\ (AtOnce(w)' => AtOnce(w))
    BY <2>1, GrowsKeeps
  <2>3. \A s : NewestRev(s) => NewestRev(s)'
    BY NewestStays
  <2>4. working.pc \in {"build", "record"} /\ ~Has(w)' => w \in dirs'
    BY <2>0, <2>2 DEF WorkOK
  <2>5. working.pc \in {"current", "consistent"} => NewestRev(w)'
    BY <2>0, <2>3 DEF WorkOK
  <2>6. \/ working.pc = "record" /\ ~Has(w)'
        \/ working.pc \in {"current", "consistent"} /\ AtOnce(w)'
        => \A s \in linked'[w] : NewestRev(s)' /\ s.pkg # w.pkg
    BY <2>0, <2>2, <2>3 DEF WorkOK, WorkAt
  <2>7. working'.rev \in Rev
    BY <2>0
  <2> QED  BY <2>0, <2>4, <2>5, <2>6, <2>7 DEF WorkOK, WorkAt
<1> QED  BY <1>1, <1>2

LEMMA KeepsLinked ==
  ASSUME TableGrows, LinkedOK, UNCHANGED links,
         \A r \in Rev : linked'[r] \subseteq linked[r],
         \A r \in Rev : WorkAt("record") /\ working.rev = r =>
             \/ (WorkAt("record") /\ working.rev = r)'
             \/ Has(r)' \/ linked'[r] = {}
  PROVE  LinkedOK'
<1>1. \A r : (Has(r) => Has(r)') /\ (Succeeded(r) => Succeeded(r)')
  BY GrowsKeeps
<1> QED  BY <1>1 DEF LinkedOK

LEMMA KeepsCurrent ==
  ASSUME NoSuccessCame, CurrentOK, UNCHANGED links, TypeOK,
         \A r \in Rev : linked'[r] \subseteq linked[r],
         WorkAt("current") => WorkAt("current")'
  PROVE  CurrentOK'
<1> SUFFICES ASSUME links["current"] # None, AtOnce(links["current"])', ~WorkAt("current")',
                    NEW s \in {links["current"]} \cup linked'[links["current"]]
             PROVE  NewestRev(s)'
  BY DEF CurrentOK
<1>1. PICK r \in Rev : r = links["current"]
  BY DEF TypeOK
<1>2. AtOnce(r)'
  BY <1>1
<1>3. TableGrows /\ AtOnce(r)
  BY <1>2, GrowsKeeps DEF NoSuccessCame
<1>4. s \in {r} \cup linked[r]
  BY <1>1
<1>5. NewestRev(s)
  BY <1>1, <1>3, <1>4 DEF CurrentOK
<1> QED  BY <1>5, NewestStays

LEMMA ShownBefore ==
  ASSUME TableGrows, UNCHANGED links, TypeOK,
         \A r \in Rev : linked'[r] \subseteq linked[r],
         NEW d \in {"current", "consistent"}, NEW s, Shown(d, s)'
  PROVE  Shown(d, s)
<1>1. PICK r \in Rev : r = links[d] /\ r = links'[d]
  BY NoneApart DEF TypeOK, Shown
<1>2. AtOnce(r)' /\ AtOnce(s)'
  BY <1>1 DEF Shown
<1>3. AtOnce(r) /\ AtOnce(s)
  BY <1>2, GrowsKeeps
<1>4. r # None /\ s \in {r} \cup linked[r]
  BY <1>1 DEF Shown
<1> QED  BY <1>1, <1>3, <1>4 DEF Shown

LEMMA KeepsExcluded ==
  ASSUME TableGrows, ExcludedOK, UNCHANGED links, TypeOK,
         \A r \in Rev : linked'[r] \subseteq linked[r],
         \A s \in Rev : s \in dirs /\ ~(\E i \in DOMAIN db : Pending(i) /\ db[i].rev = s) =>
             s \in dirs',
         \A i : Pending(i)' => Pending(i),
         purge.todo \subseteq DOMAIN db
  PROVE  ExcludedOK'
<1> SUFFICES ASSUME AllInOrder', NEW d \in ExcludeDirs, NEW s \in Rev, Shown(d, s)'
             PROVE  s \in dirs' /\ \A i \in DOMAIN db' : Pending(i)' => db'[i].rev # s
  BY DEF ExcludedOK
<1>1. AllInOrder /\ d \in {"current", "consistent"}
  BY AllInOrderAntitone, PurgeAssumption
<1>2. Shown(d, s)
  BY <1>1, ShownBefore
<1>3. s \in dirs /\ \A i \in DOMAIN db : Pending(i) => db[i].rev # s
  BY <1>1, <1>2 DEF ExcludedOK
<1>4. s \in dirs'
  BY <1>3
<1>5. \A i \in DOMAIN db' : Pending(i)' => i \in DOMAIN db /\ db'[i].rev = db[i].rev
  BY DEF Pending, Latest, TableGrows
<1> QED  BY <1>3, <1>4, <1>5
-----------------------------------------------------------------------------
(* Builds and imports                                                      *)

LEMMA NewestIsSafe ==
  ASSUME TableTypes, PurgeOK, FlagsOK, NewestThere, AllInOrder,
         NEW s, NewestRev(s), AtOnce(s)
  PROVE  s \in dirs /\ \A i \in DOMAIN db : Pending(i) => db[i].rev # s
<1>1. PICK i \in DOMAIN db :
         /\ Success(i) /\ db[i].rev = s
         /\ \A j \in DOMAIN db : Success(j) /\ db[j].rev.pkg = s.pkg => j <= i
  BY DEF NewestRev
<1>2. InBuildOrder(db[i].rev.pkg)
  BY Rows DEF AllInOrder
<1>3. ~Superseded(i)
  <2>1. \A j \in DOMAIN db : j <= i => ~(i < j)
    BY Rows
  <2> QED  BY <1>1, <1>2, <2>1 DEF Superseded
<1>4. s \in dirs
  BY <1>1, <1>3 DEF NewestThere
<1>5. ASSUME NEW k \in DOMAIN db, Pending(k), db[k].rev = s
      PROVE  FALSE
  <2>1. k = i
    BY <1>1, <1>5 DEF AtOnce
  <2>2. Flagged(i)
    BY <1>5, <2>1 DEF Pending, PurgeOK, Flagged
  <2> QED  BY <1>1, <1>3, <2>2 DEF FlagsOK
<1> QED  BY <1>4, <1>5

LEMMA OthersAreNewest ==
  ASSUME TableTypes, NEW r \in Rev, NEW s \in OthersOf(r)
  PROVE  s \in Rev /\ NewestRev(s) /\ Succeeded(s) /\ s.pkg # r.pkg
<1>1. PICK q \in Package \ {r.pkg} : \E i \in LastSuccess(db, q) : s = db[i].rev
  BY DEF OthersOf
<1>2. PICK i \in LastSuccess(db, q) : s = db[i].rev
  BY <1>1
<1>3. /\ i \in DOMAIN db /\ Success(i) /\ db[i].rev.pkg = q
      /\ \A j \in DOMAIN db : Success(j) /\ db[j].rev.pkg = q => j <= i
  BY <1>2 DEF LastSuccess, Latest, WithStatus, RowsOf, Live, Success
<1> QED  BY <1>1, <1>2, <1>3, Rows DEF NewestRev, Succeeded

LEMMA Emptied ==
  ASSUME BuildTypes, NEW r \in Rev, linked' = [linked EXCEPT ![r] = {}]
  PROVE  /\ linked' \in [Rev -> SUBSET Rev]
         /\ \A x \in Rev : linked'[x] \subseteq linked[x]
         /\ linked'[r] = {}
BY DEF BuildTypes

LEMMA SinceIsRev ==
  ASSUME NEW q, NEW r \in Since(db, q, MaxCommit, MaxDistro)
  PROVE  r \in Rev
BY DEF Since, GitLog

LEMMA DirsAdded ==
  ASSUME TableTypes, NEW r \in Rev, dirs' = dirs \cup {r}, UNCHANGED <<db, purged, dtbuild>>
  PROVE  TableTypes' /\ NoSuccessCame /\ TableGrows /\ CameThere
<1>1. TableTypes'
  BY DEF TableTypes
<1> QED  BY <1>1, SameTable

FlagsStay ==
    \A i : /\ (Flagged(i)' <=> Flagged(i)) /\ (Pending(i)' <=> Pending(i))
           /\ Flagged(i)' => i \in DOMAIN db

LEMMA FlagsSame ==
  ASSUME TableTypes, BuildTypes, UNCHANGED <<purge, purged>>
  PROVE  FlagsStay
BY DEF FlagsStay, TableTypes, BuildTypes, Flagged, Pending, PurgeAt

LEMMA WorkType ==
  ASSUME NEW r \in Rev, NEW d \in Nat
  PROVE  LET w == [NoWork EXCEPT !.pc = "build", !.rev = r, !.day = d] IN
         w \in Working /\ w.pc = "build" /\ w.rev = r
BY DEF NoWork, Working

LEMMA StartBuildKeeps ==
  ASSUME TypeOK, BuildInv, StartBuild
  PROVE  /\ TableTypes' /\ BuildTypes' /\ BuildInv'
         /\ TableGrows /\ dirs \subseteq dirs'
<1> USE DEF BuildInv
<1>0. TableTypes /\ BuildTypes
  BY TypeParts
<1>1. PICK q \in Package : \E r \in Since(db, q, MaxCommit, MaxDistro) :
         /\ ~AlreadyHandled(db, r)
         /\ working' = [NoWork EXCEPT !.pc = "build", !.rev = r, !.day = day]
         /\ dirs' = dirs \cup {r}
         /\ linked' = [linked EXCEPT ![r] = {}]
  BY DEF StartBuild
<1>2. PICK r \in Rev :
         /\ ~AlreadyHandled(db, r)
         /\ working' = [NoWork EXCEPT !.pc = "build", !.rev = r, !.day = day]
         /\ dirs' = dirs \cup {r}
         /\ linked' = [linked EXCEPT ![r] = {}]
  BY <1>1, SinceIsRev
<1>3. /\ UNCHANGED <<db, purged, dtbuild, purge, links, lost, again>> /\ WorkAt("none")
      /\ UNCHANGED <<day, imports, rechecks>> /\ builds' = builds + 1
  BY DEF StartBuild, purgeVars, histVars
<1>4. TableTypes' /\ NoSuccessCame /\ TableGrows /\ CameThere
  BY <1>0, <1>2, <1>3, DirsAdded
<1>5. /\ linked' \in [Rev -> SUBSET Rev]
      /\ \A x \in Rev : linked'[x] \subseteq linked[x]
      /\ linked'[r] = {}
  BY <1>0, <1>2, Emptied
<1>6. working' \in Working /\ working'.pc = "build" /\ working'.rev = r
  BY <1>0, <1>2, WorkType DEF BuildTypes
<1>7. BuildTypes'
  BY <1>0, <1>3, <1>5, <1>6 DEF BuildTypes
<1>8. \A i : /\ (Flagged(i)' <=> Flagged(i)) /\ (Pending(i)' <=> Pending(i))
             /\ Flagged(i)' => i \in DOMAIN db
  BY <1>0, <1>3, FlagsSame DEF FlagsStay
<1>9. \A i \in DOMAIN db : Success(i) => db[i].rev # r
  BY <1>2 DEF Success, AlreadyHandled, SameHashes, Processed, Live
<1>10. PurgeOK'
  BY <1>3, <1>4, KeepsPurge
<1>11. FlagsOK'
  BY <1>4, <1>8, KeepsFlags
<1>12. NewestThere'
  BY <1>2, <1>4, KeepsNewest DEF NewestThere
<1>13. GoneIsFlagged'
  BY <1>2, <1>3, <1>4, <1>8, KeepsGone
<1>14. FlaggedIsGone'
  BY <1>2, <1>3, <1>4, <1>8, <1>9, KeepsFlagged DEF FlaggedIsGone
<1>15. WorkOK'
  BY <1>2, <1>6 DEF WorkOK, WorkAt
<1>16. LinkedOK'
  BY <1>3, <1>4, <1>5, KeepsLinked DEF WorkAt
<1>17. CurrentOK'
  BY <1>3, <1>4, <1>5, KeepsCurrent DEF WorkAt
<1>18. ExcludedOK'
  BY <1>2, <1>3, <1>4, <1>5, <1>8, KeepsExcluded DEF PurgeOK
<1> QED  BY <1>2, <1>4, <1>7, <1>10, <1>11, <1>12, <1>13, <1>14, <1>15, <1>16, <1>17, <1>18

LEMMA StartImportKeeps ==
  ASSUME TypeOK, BuildInv, StartImport
  PROVE  /\ TableTypes' /\ BuildTypes' /\ BuildInv'
         /\ TableGrows /\ dirs \subseteq dirs'
<1> USE DEF BuildInv
<1>0. TableTypes /\ BuildTypes
  BY TypeParts
<1>1. PICK r \in Rev, d \in {e \in 0..MaxDay : e < day} :
         /\ working' = [NoWork EXCEPT !.pc = "build", !.rev = r, !.day = d]
         /\ dirs' = dirs \cup {r}
         /\ again' = again \cup ({r} \cap {db[i].rev : i \in DOMAIN db})
  BY DEF StartImport
<1>2. /\ UNCHANGED <<db, purged, dtbuild, purge, links, linked, lost>> /\ WorkAt("none")
      /\ UNCHANGED <<day, rechecks>> /\ builds' = builds + 1 /\ imports' = imports + 1
  BY DEF StartImport, purgeVars
<1>3. TableTypes' /\ NoSuccessCame /\ TableGrows /\ CameThere
  BY <1>0, <1>1, <1>2, DirsAdded
<1>4. d \in Nat
  BY PurgeAssumption
<1>5. working' \in Working /\ working'.pc = "build" /\ working'.rev = r
  BY <1>1, <1>4, WorkType
<1>6. BuildTypes'
  BY <1>0, <1>1, <1>2, <1>5 DEF BuildTypes
<1>7. \A i : /\ (Flagged(i)' <=> Flagged(i)) /\ (Pending(i)' <=> Pending(i))
             /\ Flagged(i)' => i \in DOMAIN db
  BY <1>0, <1>2, FlagsSame DEF FlagsStay
<1>8. PurgeOK'
  BY <1>2, <1>3, KeepsPurge
<1>9. FlagsOK'
  BY <1>3, <1>7, KeepsFlags
<1>10. NewestThere'
  BY <1>1, <1>3, KeepsNewest DEF NewestThere
<1>11. GoneIsFlagged'
  BY <1>1, <1>2, <1>3, <1>7, KeepsGone
<1>12. \A i \in DOMAIN db : db[i].rev \notin again' => db[i].rev \notin again /\ db[i].rev # r
  BY <1>1
<1>13. FlaggedIsGone'
  BY <1>1, <1>3, <1>7, <1>12, KeepsFlagged DEF FlaggedIsGone
<1>14. WorkOK'
  BY <1>1, <1>5 DEF WorkOK, WorkAt
<1>15. LinkedOK'
  BY <1>2, <1>3, KeepsLinked DEF WorkAt
<1>16. CurrentOK'
  BY <1>2, <1>3, KeepsCurrent DEF WorkAt
<1>17. ExcludedOK'
  BY <1>1, <1>2, <1>3, <1>7, KeepsExcluded DEF PurgeOK
<1> QED  BY <1>1, <1>3, <1>6, <1>8, <1>9, <1>10, <1>11, <1>13, <1>14, <1>15, <1>16, <1>17

LEMMA Reworked ==
  ASSUME BuildTypes, working' = NoWork \/ working' = [working EXCEPT !.pc = "consistent"]
                     \/ working' = [working EXCEPT !.pc = "current"]
                     \/ \E c \in BOOLEAN : working' = [working EXCEPT !.pc = "record", !.consistent = c]
  PROVE  working' \in Working
<1>1. CASE working' = NoWork
  BY <1>1 DEF NoWork, Working
<1>2. CASE working' # NoWork
  BY <1>2 DEF BuildTypes, Working
<1> QED  BY <1>1, <1>2

LEMMA PostBuildKeeps ==
  ASSUME TypeOK, BuildInv, PostBuild
  PROVE  /\ TableTypes' /\ BuildTypes' /\ BuildInv'
         /\ TableGrows /\ dirs \subseteq dirs'
<1> USE DEF BuildInv
<1>0. TableTypes /\ BuildTypes
  BY TypeParts
<1>1. /\ UNCHANGED <<db, purged, dirs, dtbuild, purge, links, lost, again>> /\ WorkAt("build")
      /\ UNCHANGED <<day, builds, imports, rechecks>>
  BY DEF PostBuild, tableVars, purgeVars, restVars, histVars, countVars
<1>2. PICK r \in Rev : r = working.rev
  BY <1>1 DEF WorkOK, WorkAt
<1>3. TableTypes' /\ NoSuccessCame /\ TableGrows /\ CameThere
  <2>1. TableTypes'
    BY <1>0, <1>1 DEF TableTypes
  <2> QED  BY <1>0, <1>1, <2>1, SameTable
<1>4. \A i : /\ (Flagged(i)' <=> Flagged(i)) /\ (Pending(i)' <=> Pending(i))
             /\ Flagged(i)' => i \in DOMAIN db
  BY <1>0, <1>1, FlagsSame DEF FlagsStay
<1>5. PurgeOK' /\ FlagsOK' /\ NewestThere' /\ GoneIsFlagged' /\ FlaggedIsGone'
  <2>1. PurgeOK'
    BY <1>1, <1>3, KeepsPurge
  <2>2. FlagsOK'
    BY <1>3, <1>4, KeepsFlags
  <2>3. NewestThere'
    BY <1>1, <1>3, KeepsNewest DEF NewestThere
  <2>4. GoneIsFlagged'
    BY <1>1, <1>3, <1>4, KeepsGone
  <2>5. FlaggedIsGone'
    BY <1>1, <1>3, <1>4, KeepsFlagged DEF FlaggedIsGone
  <2> QED  BY <2>1, <2>2, <2>3, <2>4, <2>5
<1>6. CASE working' = NoWork /\ UNCHANGED linked
  <2>1. BuildTypes'
    BY <1>0, <1>1, <1>6, Reworked DEF BuildTypes
  <2>2. WorkOK'
    BY <1>6 DEF WorkOK, WorkAt, NoWork
  <2>3. LinkedOK'
    BY <1>1, <1>3, <1>6, KeepsLinked DEF WorkAt
  <2>4. CurrentOK'
    BY <1>1, <1>3, <1>6, KeepsCurrent DEF WorkAt
  <2>5. ExcludedOK'
    BY <1>1, <1>3, <1>4, <1>6, KeepsExcluded DEF PurgeOK
  <2> QED  BY <1>1, <1>3, <1>5, <2>1, <2>2, <2>3, <2>4, <2>5
<1>7. CASE /\ r \in dirs
           /\ linked' = [linked EXCEPT ![r] = @ \cup OthersOf(r)]
           /\ \E c \in BOOLEAN : working' = [working EXCEPT !.pc = "record", !.consistent = c]
  <2>1. working' \in Working /\ working'.pc = "record" /\ working'.rev = r
    <3>1. working \in [pc : {"none", "build", "record", "current", "consistent"},
                       rev : Rev \cup {None}, day : Nat, consistent : BOOLEAN]
      BY <1>0 DEF BuildTypes, Working
    <3> QED  BY <1>0, <1>2, <1>7, <3>1, Reworked
  <2>2. \A s \in OthersOf(r) : s \in Rev /\ NewestRev(s) /\ Succeeded(s) /\ s.pkg # r.pkg
    BY <1>0, OthersAreNewest
  <2>3. /\ linked' \in [Rev -> SUBSET Rev]
        /\ linked'[r] = linked[r] \cup OthersOf(r)
        /\ \A x \in Rev : x # r => linked'[x] = linked[x]
    BY <1>0, <1>7, <2>2 DEF BuildTypes
  <2>4. BuildTypes'
    BY <1>0, <1>1, <2>1, <2>3 DEF BuildTypes
  <2>5. \A x : /\ NewestRev(x) => NewestRev(x)'
               /\ Succeeded(x) => Succeeded(x)'
               /\ Has(x)' => Has(x)
    BY <1>1, <1>3, NewestStays, GrowsKeeps DEF Has
  <2>6. ~Has(r) => linked[r] = {}
    BY <1>1, <1>2 DEF LinkedOK, WorkAt
  <2>7. WorkOK'
    <3>1. ~Has(r)' => \A s \in linked'[r] : NewestRev(s)' /\ s.pkg # r.pkg
      BY <1>3, <2>2, <2>3, <2>5, <2>6, GrowsKeeps
    <3> QED  BY <1>1, <1>7, <2>1, <3>1 DEF WorkOK, WorkAt
  <2>8. LinkedOK'
    <3>1. \A x \in Rev : \A s \in linked'[x] : Succeeded(s)'
      BY <2>2, <2>3, <2>5 DEF LinkedOK
    <3>2. \A x \in Rev : ~Has(x)' /\ ~(WorkAt("record") /\ working.rev = x)' => linked'[x] = {}
      <4> SUFFICES ASSUME NEW x \in Rev, ~Has(x)', x # r
                   PROVE  linked'[x] = {}
        BY <2>1 DEF WorkAt
      <4>1. ~Has(x)
        BY <1>3, GrowsKeeps
      <4> QED  BY <1>1, <2>3, <4>1 DEF LinkedOK, WorkAt
    <3>3. \A d \in {"current", "consistent"} : links'[d] # None => Succeeded(links[d])'
      BY <1>1, <2>5 DEF LinkedOK
    <3> QED  BY <3>1, <3>2, <3>3 DEF LinkedOK
  <2>9. CurrentOK'
    <3> SUFFICES ASSUME links["current"] # None, AtOnce(links["current"])',
                        NEW s \in {links["current"]} \cup linked'[links["current"]]
                 PROVE  NewestRev(s)'
      BY <1>1 DEF CurrentOK
    <3>1. PICK x \in Rev : x = links["current"]
      BY <1>0 DEF BuildTypes
    <3>2. AtOnce(x)'
      BY <1>1, <3>1
    <3>3. \A y \in {x} \cup linked[x] : NewestRev(y)
      BY <1>1, <1>3, <3>1, <3>2, GrowsKeeps DEF CurrentOK, WorkAt
    <3>4. NewestRev(s)
      BY <2>2, <2>3, <3>1, <3>3
    <3> QED  BY <3>4, <2>5
  <2>10. ExcludedOK'
    <3> SUFFICES ASSUME AllInOrder', NEW d \in ExcludeDirs, NEW s \in Rev, Shown(d, s)'
                 PROVE  s \in dirs' /\ \A i \in DOMAIN db' : Pending(i)' => db'[i].rev # s
      BY DEF ExcludedOK
    <3>1. AllInOrder /\ d \in {"current", "consistent"}
      BY <1>3, AllInOrderAntitone, PurgeAssumption
    <3>2. PICK x \in Rev : x = links[d] /\ x = links'[d]
      BY <1>0, <1>1, <3>1, NoneApart DEF BuildTypes, Shown
    <3>3. AtOnce(x)' /\ AtOnce(s)' /\ s \in {x} \cup linked'[x]
      BY <3>2 DEF Shown
    <3>4. AtOnce(x) /\ AtOnce(s)
      BY <1>3, <3>3, GrowsKeeps
    <3>5. CASE s \in {x} \cup linked[x]
      <4>1. Shown(d, s)
        BY <3>2, <3>4, <3>5, NoneApart DEF Shown
      <4> QED  BY <1>1, <1>4, <3>1, <4>1 DEF ExcludedOK
    <3>6. CASE s \in OthersOf(r)
      <4>1. s \in dirs /\ \A i \in DOMAIN db : Pending(i) => db[i].rev # s
        BY <1>0, <2>2, <3>1, <3>4, <3>6, NewestIsSafe
      <4> QED  BY <1>1, <1>4, <4>1
    <3> QED  BY <2>3, <3>3, <3>5, <3>6
  <2> QED  BY <1>1, <1>3, <1>5, <2>4, <2>7, <2>8, <2>9, <2>10
<1> QED  BY <1>2, <1>6, <1>7 DEF PostBuild

NewId == Len(db) + 1

NewRow(status) == [rev |-> working.rev, status |-> status, vote |-> FALSE, gone |-> FALSE]

LEMMA Appended ==
  ASSUME NEW S, NEW s \in Seq(S), NEW x \in S
  PROVE  /\ Append(s, x) \in Seq(S) /\ Len(Append(s, x)) = Len(s) + 1
         /\ DOMAIN Append(s, x) = DOMAIN s \cup {Len(s) + 1}
         /\ \A i \in DOMAIN s : Append(s, x)[i] = s[i]
         /\ Append(s, x)[Len(s) + 1] = x
         /\ Len(s) + 1 \notin DOMAIN s /\ \A i \in DOMAIN s : i < Len(s) + 1
OBVIOUS

LEMMA RowCame ==
  ASSUME TableTypes, BuildTypes, working.rev \in Rev,
         NEW status \in Status, AddRow(status), UNCHANGED <<purged, dirs>>
  PROVE  /\ TableTypes' /\ TableGrows
         /\ DOMAIN db' = DOMAIN db \cup {NewId} /\ NewId \notin DOMAIN db
         /\ db'[NewId] = NewRow(status)
         /\ \A i \in DOMAIN db : db'[i] = db[i] /\ i < NewId
         /\ status # "SUCCESS" => NoSuccessCame
<1>1. db \in Seq(Row) /\ NewRow(status) \in Row
  BY DEF TableTypes, NewRow, Row
<1>2. dtbuild \in Seq(Day) /\ working.day \in Day /\ Len(dtbuild) = Len(db)
  BY DEF TableTypes, BuildTypes, Working, Day
<1>3. db' = Append(db, NewRow(status)) /\ dtbuild' = Append(dtbuild, working.day)
  BY DEF AddRow, NewRow
<1>4. /\ db' \in Seq(Row) /\ Len(db') = Len(db) + 1
      /\ DOMAIN db' = DOMAIN db \cup {NewId} /\ NewId \notin DOMAIN db
      /\ db'[NewId] = NewRow(status)
      /\ \A i \in DOMAIN db : db'[i] = db[i] /\ i < NewId
  BY <1>1, <1>3, Appended DEF NewId
<1>5. /\ dtbuild' \in Seq(Day) /\ Len(dtbuild') = Len(dtbuild) + 1
      /\ \A i \in DOMAIN dtbuild : dtbuild'[i] = dtbuild[i]
  BY <1>2, <1>3, Appended
<1>6. DOMAIN dtbuild = DOMAIN db
  BY <1>1, <1>2
<1>7. TableTypes'
  BY <1>2, <1>4, <1>5 DEF TableTypes
<1>8. TableGrows
  BY <1>4, <1>5, <1>6, <1>7 DEF TableGrows, Success
<1>9. status # "SUCCESS" => NoSuccessCame
  BY <1>4, <1>8 DEF NoSuccessCame, Success, NewRow
<1> QED  BY <1>4, <1>7, <1>8, <1>9

LEMMA BuildFailsKeeps ==
  ASSUME TypeOK, BuildInv, BuildFails
  PROVE  /\ TableTypes' /\ BuildTypes' /\ BuildInv'
         /\ TableGrows /\ dirs \subseteq dirs'
<1> USE DEF BuildInv
<1>0. TableTypes /\ BuildTypes
  BY TypeParts
<1>1. /\ UNCHANGED <<purged, dirs, purge, links, linked, lost, again>> /\ WorkAt("build")
      /\ UNCHANGED <<day, builds, imports, rechecks>> /\ working' = NoWork
  BY DEF BuildFails, purgeVars, restVars, histVars, countVars
<1>2. PICK status \in {"FAILED", "RETRY"} : AddRow(status)
  BY DEF BuildFails
<1>3. working.rev \in Rev /\ status \in Status
  BY <1>1 DEF WorkOK, WorkAt, Status
<1>4. TableTypes' /\ TableGrows /\ NoSuccessCame /\ DOMAIN db \subseteq DOMAIN db'
  BY <1>0, <1>1, <1>2, <1>3, RowCame
<1>5. CameThere
  BY <1>4, CameNone
<1>6. \A i : /\ (Flagged(i)' <=> Flagged(i)) /\ (Pending(i)' <=> Pending(i))
             /\ Flagged(i)' => i \in DOMAIN db
  BY <1>0, <1>1, FlagsSame DEF FlagsStay
<1>7. BuildTypes'
  BY <1>0, <1>1, <1>4, Reworked DEF BuildTypes
<1>8. PurgeOK'
  BY <1>1, <1>4, KeepsPurge
<1>9. FlagsOK'
  BY <1>4, <1>6, KeepsFlags
<1>10. NewestThere'
  BY <1>1, <1>5, KeepsNewest DEF NewestThere
<1>11. GoneIsFlagged'
  BY <1>1, <1>5, <1>6, KeepsGone
<1>12. FlaggedIsGone'
  BY <1>1, <1>4, <1>6, KeepsFlagged DEF FlaggedIsGone
<1>13. WorkOK'
  BY <1>1 DEF WorkOK, WorkAt, NoWork
<1>14. LinkedOK'
  BY <1>1, <1>4, KeepsLinked DEF WorkAt
<1>15. CurrentOK'
  BY <1>1, <1>4, KeepsCurrent DEF WorkAt
<1>16. ExcludedOK'
  BY <1>1, <1>4, <1>6, KeepsExcluded DEF PurgeOK
<1> QED  BY <1>1, <1>4, <1>7, <1>8, <1>9, <1>10, <1>11, <1>12, <1>13, <1>14, <1>15, <1>16

LEMMA RecordSuccessKeeps ==
  ASSUME TypeOK, BuildInv, RecordSuccess
  PROVE  /\ TableTypes' /\ BuildTypes' /\ BuildInv'
         /\ TableGrows /\ dirs \subseteq dirs'
<1> USE DEF BuildInv
<1>0. TableTypes /\ BuildTypes
  BY TypeParts
<1>1. /\ UNCHANGED <<purged, dirs, purge, links, linked, lost, again>> /\ WorkAt("record")
      /\ UNCHANGED <<day, builds, imports, rechecks>>
      /\ working' = [working EXCEPT !.pc = "current"] /\ AddRow("SUCCESS")
  BY DEF RecordSuccess, purgeVars, restVars, histVars, countVars
<1>2. PICK r \in Rev : r = working.rev
  BY <1>1 DEF WorkOK, WorkAt
<1>3. "SUCCESS" \in Status
  BY DEF Status
<1>4. /\ TableTypes' /\ TableGrows
      /\ DOMAIN db' = DOMAIN db \cup {NewId} /\ NewId \notin DOMAIN db
      /\ db'[NewId] = NewRow("SUCCESS")
      /\ \A i \in DOMAIN db : db'[i] = db[i] /\ i < NewId
  BY <1>0, <1>1, <1>2, <1>3, RowCame
<1>5. PICK n : n = NewId
  OBVIOUS
<1>6. n \in DOMAIN db' /\ n \notin DOMAIN db /\ db'[n].rev = r /\ Success(n)'
  BY <1>2, <1>4, <1>5 DEF Success, NewRow
<1>7. AtOnce(r)' => ~Has(r)
  BY <1>4, <1>6 DEF AtOnce, Has
<1>8. CameThere
  <2> SUFFICES ASSUME NEW j \in DOMAIN db' \ DOMAIN db, AtOnce(db[j].rev)'
               PROVE  db'[j].rev \in dirs'
    BY <1>4 DEF CameThere
  <2>1. j = n /\ db'[j].rev = r
    BY <1>4, <1>5, <1>6
  <2>2. AtOnce(r)'
    BY <2>1
  <2>3. r \in dirs
    BY <1>1, <1>2, <1>7, <2>2 DEF WorkOK, WorkAt
  <2> QED  BY <1>1, <2>1, <2>3
<1>9. \A i : /\ (Flagged(i)' <=> Flagged(i)) /\ (Pending(i)' <=> Pending(i))
             /\ Flagged(i)' => i \in DOMAIN db
  BY <1>0, <1>1, FlagsSame DEF FlagsStay
<1>10. working' \in Working /\ working'.pc = "current" /\ working'.rev = r
  BY <1>0, <1>1, <1>2, Reworked DEF BuildTypes, Working
<1>11. BuildTypes'
  BY <1>0, <1>1, <1>4, <1>10 DEF BuildTypes
<1>12. PurgeOK'
  BY <1>1, <1>4, KeepsPurge
<1>13. FlagsOK'
  BY <1>4, <1>9, KeepsFlags
<1>14. NewestThere'
  BY <1>1, <1>8, KeepsNewest DEF NewestThere
<1>15. GoneIsFlagged'
  BY <1>1, <1>8, <1>9, KeepsGone
<1>16. FlaggedIsGone'
  BY <1>1, <1>4, <1>9, KeepsFlagged DEF FlaggedIsGone
<1>17. WorkOK'
  <2>1. NewestRev(r)'
    <3>1. \A j \in DOMAIN db' : j <= n
      BY <1>0, <1>4, <1>5, Rows DEF NewId, TableTypes
    <3> QED  BY <1>6, <3>1 DEF NewestRev
  <2>2. \A s : NewestRev(s) /\ s.pkg # r.pkg => NewestRev(s)'
    <3> SUFFICES ASSUME NEW s, NewestRev(s), s.pkg # r.pkg
                 PROVE  NewestRev(s)'
      OBVIOUS
    <3>1. PICK i \in DOMAIN db :
             /\ Success(i) /\ db[i].rev = s
             /\ \A j \in DOMAIN db : Success(j) /\ db[j].rev.pkg = s.pkg => j <= i
      BY DEF NewestRev
    <3>2. i \in DOMAIN db' /\ Success(i)' /\ db'[i].rev = s
      BY <1>4, <3>1 DEF TableGrows
    <3>3. \A j \in DOMAIN db' : Success(j)' /\ db'[j].rev.pkg = s.pkg => j <= i
      BY <1>4, <1>5, <1>6, <3>1 DEF TableGrows
    <3> QED  BY <3>2, <3>3 DEF NewestRev
  <2>3. AtOnce(r)' => \A s \in linked'[r] : NewestRev(s)' /\ s.pkg # r.pkg
    <3>1. ~Has(r) => \A s \in linked[r] : NewestRev(s) /\ s.pkg # r.pkg
      BY <1>1, <1>2 DEF WorkOK, WorkAt
    <3> QED  BY <1>1, <1>7, <2>2, <3>1
  <2> QED  BY <1>10, <2>1, <2>3 DEF WorkOK, WorkAt
<1>18. LinkedOK'
  <2>1. Has(r)'
    BY <1>6 DEF Has
  <2> QED  BY <1>1, <1>2, <1>4, <2>1, KeepsLinked
<1>19. CurrentOK'
  BY <1>10 DEF CurrentOK, WorkAt
<1>20. ExcludedOK'
  BY <1>1, <1>4, <1>9, KeepsExcluded DEF PurgeOK
<1> QED  BY <1>1, <1>4, <1>11, <1>12, <1>13, <1>14, <1>15, <1>16, <1>17, <1>18, <1>19, <1>20

LEMMA MoveKeeps ==
  ASSUME TypeOK, BuildInv, NEW d \in {"current", "consistent"}, NEW then,
         MoveLink(d, then),
         then = NoWork \/ (d = "current" /\ then = [working EXCEPT !.pc = "consistent"])
  PROVE  /\ TableTypes' /\ BuildTypes' /\ BuildInv'
         /\ TableGrows /\ dirs \subseteq dirs'
<1> USE DEF BuildInv
<1>0. TableTypes /\ BuildTypes
  BY TypeParts
<1>1. /\ UNCHANGED <<db, purged, dirs, dtbuild, purge, linked, lost, again>> /\ WorkAt(d)
      /\ UNCHANGED <<day, builds, imports, rechecks>>
      /\ links' = [links EXCEPT ![d] = working.rev]
      /\ working' = then
  BY DEF MoveLink, tableVars, purgeVars, restVars, histVars, countVars
<1>2. PICK r \in Rev : r = working.rev
  BY <1>1 DEF WorkOK, WorkAt
<1>3. /\ links' \in [{"current", "consistent"} -> Rev \cup {None}] /\ links'[d] = r
      /\ \A e \in {"current", "consistent"} : e # d => links'[e] = links[e]
  BY <1>0, <1>1, <1>2 DEF BuildTypes
<1>4. TableTypes' /\ NoSuccessCame /\ TableGrows /\ CameThere
  <2>1. TableTypes'
    BY <1>0, <1>1 DEF TableTypes
  <2> QED  BY <1>0, <1>1, <2>1, SameTable
<1>5. \A i : /\ (Flagged(i)' <=> Flagged(i)) /\ (Pending(i)' <=> Pending(i))
             /\ Flagged(i)' => i \in DOMAIN db
  BY <1>0, <1>1, FlagsSame DEF FlagsStay
<1>6. working' \in Working
  BY <1>0, <1>1, Reworked
<1>7. BuildTypes'
  BY <1>0, <1>1, <1>3, <1>6 DEF BuildTypes
<1>8. PurgeOK'
  BY <1>1, <1>4, KeepsPurge
<1>9. FlagsOK'
  BY <1>4, <1>5, KeepsFlags
<1>10. NewestThere'
  BY <1>1, <1>4, KeepsNewest DEF NewestThere
<1>11. GoneIsFlagged'
  BY <1>1, <1>4, <1>5, KeepsGone
<1>12. FlaggedIsGone'
  BY <1>1, <1>4, <1>5, KeepsFlagged DEF FlaggedIsGone
<1>13. NewestRev(r) /\ (AtOnce(r) => \A s \in linked[r] : NewestRev(s))
  BY <1>1, <1>2 DEF WorkOK, WorkAt
<1>14. \A x : (NewestRev(x) => NewestRev(x)') /\ (Succeeded(x) => Succeeded(x)')
              /\ (AtOnce(x)' => AtOnce(x))
  BY <1>4, NewestStays, GrowsKeeps
<1>15. WorkOK'
  <2>1. CASE then = NoWork
    BY <1>1, <2>1 DEF WorkOK, WorkAt, NoWork
  <2>2. CASE then = [working EXCEPT !.pc = "consistent"] /\ d = "current"
    <3>1. working'.pc = "consistent" /\ working'.rev = r
      BY <1>0, <1>1, <1>2, <2>2 DEF BuildTypes, Working
    <3>2. AtOnce(r)' => \A s \in linked'[r] : NewestRev(s)' /\ s.pkg # r.pkg
      BY <1>1, <1>2, <1>14, <2>2 DEF WorkOK, WorkAt
    <3> QED  BY <1>13, <1>14, <3>1, <3>2 DEF WorkOK, WorkAt
  <2> QED  BY <2>1, <2>2
<1>16. LinkedOK'
  <2>1. Succeeded(r)
    BY <1>13 DEF NewestRev, Succeeded
  <2>2. \A e \in {"current", "consistent"} : links'[e] # None => Succeeded(links[e])'
    <3> SUFFICES ASSUME NEW e \in {"current", "consistent"}, links'[e] # None
                 PROVE  Succeeded(links[e])'
      OBVIOUS
    <3>1. PICK x \in Rev : x = links'[e]
      BY <1>3
    <3>2. Succeeded(x)
      BY <1>3, <2>1, <3>1 DEF LinkedOK
    <3> QED  BY <1>14, <3>1, <3>2
  <2>3. \A x \in Rev : \A s \in linked'[x] : Succeeded(s)'
    BY <1>1, <1>14 DEF LinkedOK
  <2>4. \A x \in Rev : ~Has(x)' => linked'[x] = {}
    BY <1>1, <1>4, GrowsKeeps DEF LinkedOK, WorkAt
  <2> QED  BY <2>2, <2>3, <2>4 DEF LinkedOK
<1>17. CurrentOK'
  <2> SUFFICES ASSUME links'["current"] # None, AtOnce(links["current"])',
                      NEW s \in {links'["current"]} \cup linked'[links'["current"]]
               PROVE  NewestRev(s)'
    BY DEF CurrentOK
  <2>1. PICK x \in Rev : x = links'["current"]
    BY <1>3
  <2>2. AtOnce(x)'
    BY <2>1
  <2>3. AtOnce(x) /\ s \in {x} \cup linked[x]
    BY <1>1, <1>14, <2>1, <2>2
  <2>4. NewestRev(s)
    <3>1. CASE d = "current"
      BY <1>3, <1>13, <2>1, <2>3, <3>1
    <3>2. CASE d = "consistent"
      BY <1>1, <1>3, <2>1, <2>3, <3>2 DEF CurrentOK, WorkAt
    <3> QED  BY <3>1, <3>2
  <2> QED  BY <1>14, <2>4
<1>18. ExcludedOK'
  <2> SUFFICES ASSUME AllInOrder', NEW e \in ExcludeDirs, NEW s \in Rev, Shown(e, s)'
               PROVE  s \in dirs' /\ \A i \in DOMAIN db' : Pending(i)' => db'[i].rev # s
    BY DEF ExcludedOK
  <2>1. AllInOrder /\ e \in {"current", "consistent"}
    BY <1>4, AllInOrderAntitone, PurgeAssumption
  <2>2. PICK x \in Rev : x = links'[e]
    BY <1>3, <2>1, NoneApart DEF Shown
  <2>3. AtOnce(x)' /\ AtOnce(s)' /\ s \in {x} \cup linked'[x]
    BY <2>2 DEF Shown
  <2>4. AtOnce(x) /\ AtOnce(s) /\ s \in {x} \cup linked[x]
    BY <1>1, <1>14, <2>3
  <2>5. s \in dirs /\ \A i \in DOMAIN db : Pending(i) => db[i].rev # s
    <3>1. CASE e = d
      <4>1. NewestRev(s)
        BY <1>3, <1>13, <2>2, <2>4, <3>1
      <4> QED  BY <1>0, <2>1, <2>4, <4>1, NewestIsSafe
    <3>2. CASE e # d
      <4>1. Shown(e, s)
        BY <1>3, <2>1, <2>2, <2>4, <3>2, NoneApart DEF Shown
      <4> QED  BY <2>1, <4>1 DEF ExcludedOK
    <3> QED  BY <3>1, <3>2
  <2> QED  BY <1>1, <1>5, <2>5
<1> QED  BY <1>1, <1>4, <1>7, <1>8, <1>9, <1>10, <1>11, <1>12, <1>15, <1>16, <1>17, <1>18

LEMMA BuildKeeps ==
  ASSUME TypeOK, BuildInv, Build
  PROVE  /\ TableTypes' /\ BuildTypes' /\ BuildInv'
         /\ TableGrows /\ dirs \subseteq dirs'
<1>1. CASE StartBuild
  BY <1>1, StartBuildKeeps
<1>2. CASE StartImport
  BY <1>2, StartImportKeeps
<1>3. CASE PostBuild
  BY <1>3, PostBuildKeeps
<1>4. CASE BuildFails
  BY <1>4, BuildFailsKeeps
<1>5. CASE RecordSuccess
  BY <1>5, RecordSuccessKeeps
<1>6. CASE MoveCurrent
  BY <1>6, MoveKeeps DEF MoveCurrent
<1>7. CASE MoveConsistent
  BY <1>7, MoveKeeps DEF MoveConsistent
<1> QED  BY <1>1, <1>2, <1>3, <1>4, <1>5, <1>6, <1>7 DEF Build

(* A recheck withdraws a failure, which the invariant does not speak of.   *)
LEMMA RecheckKeeps ==
  ASSUME TypeOK, BuildInv, Recheck
  PROVE  /\ TableTypes' /\ BuildTypes' /\ BuildInv'
         /\ TableGrows /\ dirs \subseteq dirs'
<1> USE DEF BuildInv
<1>0. TableTypes /\ BuildTypes
  BY TypeParts
<1>1. /\ UNCHANGED <<purged, dirs, dtbuild, purge, links, linked, lost, again, working>>
      /\ UNCHANGED <<day, builds, imports>> /\ rechecks' = rechecks + 1
  BY DEF Recheck, purgeVars, buildVars, histVars
<1>2. PICK q \in Package : \E i \in LastProcessed(db, q) :
         db[i].status = "FAILED" /\ db' = [db EXCEPT ![i].gone = TRUE]
  BY DEF Recheck
<1>3. PICK i \in DOMAIN db : db[i].status = "FAILED" /\ db' = [db EXCEPT ![i].gone = TRUE]
  BY <1>2 DEF LastProcessed, Latest, RowsOf, Live
<1>4. /\ DOMAIN db' = DOMAIN db /\ db' \in Seq(Row) /\ Len(db') = Len(db)
      /\ \A j \in DOMAIN db : /\ db'[j].rev = db[j].rev /\ db'[j].status = db[j].status
                              /\ j # i => db'[j] = db[j]
  <2> DEFINE new == [db[i] EXCEPT !.gone = TRUE]
  <2>1. db[i] \in Row /\ db \in Seq(Row)
    BY <1>0, Rows DEF TableTypes
  <2>2. new \in Row /\ new.rev = db[i].rev /\ new.status = db[i].status
    BY <2>1, RowType DEF Row
  <2>3. db' = [db EXCEPT ![i] = new]
    BY <1>3
  <2> HIDE DEF new
  <2> QED  BY <2>1, <2>2, <2>3
<1>5. TableTypes' /\ NoSuccessCame /\ TableGrows
  <2>1. TableTypes'
    BY <1>0, <1>1, <1>4 DEF TableTypes
  <2>2. \A j \in DOMAIN db : Success(j)' <=> Success(j)
    BY <1>3, <1>4 DEF Success
  <2> QED  BY <1>0, <1>1, <1>4, <2>1, <2>2 DEF NoSuccessCame, TableGrows
<1>6. CameThere
  BY <1>5, CameNone
<1>7. \A j : /\ (Flagged(j)' <=> Flagged(j)) /\ (Pending(j)' <=> Pending(j))
             /\ Flagged(j)' => j \in DOMAIN db
  BY <1>0, <1>1, FlagsSame DEF FlagsStay
<1>8. BuildTypes'
  BY <1>0, <1>1, <1>4 DEF BuildTypes
<1>9. PurgeOK'
  BY <1>1, <1>5, KeepsPurge
<1>10. FlagsOK'
  BY <1>5, <1>7, KeepsFlags
<1>11. NewestThere'
  BY <1>1, <1>6, KeepsNewest DEF NewestThere
<1>12. GoneIsFlagged'
  BY <1>1, <1>6, <1>7, KeepsGone
<1>13. FlaggedIsGone'
  BY <1>1, <1>5, <1>7, KeepsFlagged DEF FlaggedIsGone
<1>14. WorkOK'
  BY <1>1, <1>5, KeepsWork
<1>15. LinkedOK'
  BY <1>1, <1>5, KeepsLinked DEF WorkAt
<1>16. CurrentOK'
  BY <1>1, <1>5, KeepsCurrent DEF WorkAt
<1>17. ExcludedOK'
  BY <1>1, <1>5, <1>7, KeepsExcluded DEF PurgeOK
<1> QED  BY <1>1, <1>5, <1>8, <1>9, <1>10, <1>11, <1>12, <1>13, <1>14, <1>15, <1>16, <1>17

LEMMA UnchangedKeeps ==
  ASSUME TypeOK, BuildInv, UNCHANGED <<tableVars, buildVars, purge, lost, again>>
  PROVE  /\ TableTypes' /\ BuildInv'
         /\ TableGrows /\ dirs \subseteq dirs'
<1> USE DEF BuildInv
<1>0. TableTypes /\ BuildTypes
  BY TypeParts
<1>1. UNCHANGED <<db, purged, dirs, dtbuild, purge, links, linked, lost, again, working>>
  BY DEF tableVars, buildVars
<1>2. TableTypes' /\ NoSuccessCame /\ TableGrows /\ CameThere
  <2>1. TableTypes'
    BY <1>0, <1>1 DEF TableTypes
  <2> QED  BY <1>0, <1>1, <2>1, SameTable
<1>3. \A j : /\ (Flagged(j)' <=> Flagged(j)) /\ (Pending(j)' <=> Pending(j))
             /\ Flagged(j)' => j \in DOMAIN db
  BY <1>0, <1>1, FlagsSame DEF FlagsStay
<1>4. PurgeOK'
  BY <1>1, <1>2, KeepsPurge
<1>5. FlagsOK'
  BY <1>2, <1>3, KeepsFlags
<1>6. NewestThere'
  BY <1>1, <1>2, KeepsNewest DEF NewestThere
<1>7. GoneIsFlagged'
  BY <1>1, <1>2, <1>3, KeepsGone
<1>8. FlaggedIsGone'
  BY <1>1, <1>2, <1>3, KeepsFlagged DEF FlaggedIsGone
<1>9. WorkOK'
  BY <1>1, <1>2, KeepsWork
<1>10. LinkedOK'
  BY <1>1, <1>2, KeepsLinked DEF WorkAt
<1>11. CurrentOK'
  BY <1>1, <1>2, KeepsCurrent DEF WorkAt
<1>12. ExcludedOK'
  BY <1>1, <1>2, <1>3, KeepsExcluded DEF PurgeOK
<1> QED  BY <1>1, <1>2, <1>4, <1>5, <1>6, <1>7, <1>8, <1>9, <1>10, <1>11, <1>12

-----------------------------------------------------------------------------
(* The purge                                                               *)

\* What no step of the purge changes.
PurgeFrame == UNCHANGED <<db, dtbuild, links, working, again>>

(* A step that leaves the directories alone.                               *)
LEMMA DirsLeft ==
  ASSUME TypeOK, BuildInv, PurgeFrame, UNCHANGED <<dirs, linked>>, TableTypes', PurgeOK',
         \A i : Flagged(i)' => i \in DOMAIN db,
         \A i \in DOMAIN db : Success(i) /\ Flagged(i)' => Flagged(i) \/ Superseded(i),
         lost' = 0 => lost = 0 /\ \A i \in DOMAIN db : Flagged(i) => Flagged(i)',
         \A i \in DOMAIN db : Success(i) /\ Flagged(i)' /\ ~Pending(i)' => Flagged(i) /\ ~Pending(i),
         \A i \in DOMAIN db, d \in ExcludeDirs : Pending(i)' /\ ~Pending(i) /\ Shown(d, db[i].rev) => ~AllInOrder
  PROVE  BuildInv'
<1> USE DEF BuildInv
<1>0. TableTypes /\ BuildTypes
  BY TypeParts
<1>1. UNCHANGED <<db, dtbuild, links, working, again>>
  BY DEF PurgeFrame
<1>2. NoSuccessCame /\ TableGrows /\ CameThere
  BY <1>0, <1>1, SameTable
<1>3. FlagsOK'
  BY <1>2, KeepsFlags
<1>4. NewestThere'
  BY <1>1, <1>2, KeepsNewest DEF NewestThere
<1>5. GoneIsFlagged'
  BY <1>1, <1>2, KeepsGone
<1>6. FlaggedIsGone'
  BY <1>1, <1>2, KeepsFlagged DEF FlaggedIsGone
<1>7. WorkOK'
  BY <1>1, <1>2, KeepsWork
<1>8. LinkedOK'
  BY <1>1, <1>2, KeepsLinked DEF WorkAt
<1>9. CurrentOK'
  BY <1>1, <1>2, KeepsCurrent DEF WorkAt
<1>10. ExcludedOK'
  <2> SUFFICES ASSUME AllInOrder', NEW d \in ExcludeDirs, NEW s \in Rev, Shown(d, s)'
               PROVE  s \in dirs' /\ \A i \in DOMAIN db' : Pending(i)' => db'[i].rev # s
    BY DEF ExcludedOK
  <2>1. AllInOrder /\ d \in {"current", "consistent"}
    BY <1>2, AllInOrderAntitone, PurgeAssumption
  <2>2. Shown(d, s)
    BY <1>1, <1>2, <2>1, ShownBefore
  <2>3. s \in dirs /\ \A i \in DOMAIN db : Pending(i) => db[i].rev # s
    BY <2>1, <2>2 DEF ExcludedOK
  <2>4. ASSUME NEW i \in DOMAIN db, Pending(i)', db[i].rev = s
        PROVE  FALSE
    BY <2>1, <2>2, <2>3, <2>4
  <2> QED  BY <1>1, <2>3, <2>4
<1> QED  BY <1>3, <1>4, <1>5, <1>6, <1>7, <1>8, <1>9, <1>10

LEMMA StartPurgeKeeps ==
  ASSUME TypeOK, BuildInv, StartPurge
  PROVE  TableTypes' /\ BuildTypes' /\ BuildInv'
<1> DEFINE d == day - OlderThan
<1>0. TableTypes /\ BuildTypes
  BY TypeParts
<1>1. /\ UNCHANGED <<db, purged, dirs, dtbuild, links, linked, lost, again, working>>
      /\ UNCHANGED <<day, builds, imports, rechecks>>
      /\ purge' = [NoPurge EXCEPT !.pc = "row", !.before = d, !.todo = Before(d)]
      /\ PurgeAt("idle") /\ day > OlderThan
  BY DEF StartPurge, tableVars, buildVars, countVars
<1>2. d \in Nat
  BY <1>0, <1>1, PurgeAssumption DEF BuildTypes
<1>3. /\ Before(d) \subseteq DOMAIN db
      /\ \A i \in Before(d) : dtbuild[i] # None /\ (db[i].status = "SUCCESS" => Success(i))
  BY DEF Before, Live, Success
<1> HIDE DEF d
<1>4. /\ purge'.pc = "row" /\ purge'.todo = Before(d) /\ purge'.full = {} /\ purge'.marks = {}
      /\ purge'.before = d /\ purge'.names = {} /\ purge'.name = None /\ purge'.protected = None
      /\ purge' \in Purging
  <2>1. Before(d) \in SUBSET Nat
    BY <1>0, <1>3, Rows
  <2> QED  BY <1>1, <1>2, <2>1 DEF NoPurge, Purging
<1>5. TableTypes' /\ BuildTypes'
  BY <1>0, <1>1, <1>4 DEF TableTypes, BuildTypes
<1>6. PurgeOK'
  <2>1. \A i \in purge'.todo : dtbuild'[i] # None /\ (db'[i].status = "SUCCESS" => Success(i)')
    BY <1>1, <1>3, <1>4 DEF Success
  <2> QED  BY <1>1, <1>3, <1>4, <2>1 DEF PurgeOK, PurgeAt
<1>7. purge = NoPurge
  BY <1>1 DEF BuildInv, PurgeOK
<1>8. \A i : /\ ~Pending(i) /\ ~Pending(i)'
             /\ Flagged(i)' <=> Flagged(i)
             /\ Flagged(i)' => i \in DOMAIN db
  BY <1>0, <1>1, <1>4, <1>7 DEF Pending, PurgeAt, Flagged, NoPurge, TableTypes
<1> QED  BY <1>1, <1>5, <1>6, <1>8, DirsLeft DEF PurgeFrame

(* The purge is over, and with it what it has not stored.                  *)
LEMMA OverKeeps ==
  ASSUME TypeOK, BuildInv, PurgeFrame, UNCHANGED <<dirs, linked>>, purge' = NoPurge,
         \/ purged' = purged /\ (lost' = 0 => lost = 0 /\ purge.marks \subseteq purged)
         \/ purged' = purged \cup purge.marks /\ lost' = lost /\ PurgeAt("row")
  PROVE  TableTypes' /\ BuildInv'
<1>0. TableTypes /\ BuildTypes
  BY TypeParts
<1>1. UNCHANGED <<db, dtbuild, links, working, again>>
  BY DEF PurgeFrame
<1>2. TableTypes'
  BY <1>0, <1>1 DEF TableTypes, BuildTypes
<1>3. PurgeOK'
  BY <1>2, PurgeEnds
<1>4. \A i : ~Pending(i)' /\ (Flagged(i)' <=> i \in purged')
  BY DEF Pending, PurgeAt, Flagged, NoPurge
<1>5. \A i : Flagged(i)' => i \in DOMAIN db /\ Flagged(i)
  BY <1>0, <1>4 DEF TableTypes, BuildTypes, Flagged
<1>6. lost' = 0 => lost = 0 /\ \A i \in DOMAIN db : Flagged(i) => Flagged(i)'
  BY <1>4 DEF Flagged
<1>7. \A i : Flagged(i)' => ~Pending(i)
  BY <1>4 DEF BuildInv, PurgeOK, Pending, PurgeAt
<1>8. BuildInv'
  BY <1>2, <1>3, <1>4, <1>5, <1>6, <1>7, DirsLeft
<1> QED  BY <1>2, <1>8

LEMMA NoPurgeType == NoPurge \in Purging /\ NoPurge.marks = {}
BY DEF NoPurge, Purging

LEMMA StoreFlagsKeeps ==
  ASSUME TypeOK, BuildInv, StoreFlags
  PROVE  TableTypes' /\ BuildTypes' /\ BuildInv'
<1>0. TableTypes /\ BuildTypes /\ PromoTypes
  BY TypeParts
<1>1. /\ UNCHANGED <<db, dirs, dtbuild, links, linked, again, working>>
      /\ UNCHANGED <<day, builds, imports, rechecks>>
      /\ PurgeAt("row") /\ purge.todo = {}
  BY DEF StoreFlags, buildVars, restVars, histVars, countVars
<1>2. CASE purge' = NoPurge /\ lost' = lost + 1 /\ UNCHANGED purged
  <2>1. lost' # 0
    BY <1>0, <1>2 DEF BuildTypes
  <2>2. TableTypes' /\ BuildInv'
    BY <1>1, <1>2, <2>1, OverKeeps DEF PurgeFrame
  <2>3. BuildTypes'
    BY <1>0, <1>1, <1>2, NoPurgeType DEF BuildTypes
  <2> QED  BY <2>2, <2>3
<1>3. CASE purged' = purged \cup purge.marks /\ purge' = AfterRows /\ UNCHANGED lost
  <2>1. CASE ~UseComponents
    <3>1. purge' = NoPurge
      BY <1>3, <2>1 DEF AfterRows
    <3>2. TableTypes' /\ BuildInv'
      BY <1>1, <1>3, <3>1, OverKeeps DEF PurgeFrame
    <3>3. BuildTypes'
      BY <1>0, <1>1, <1>3, <3>1, NoPurgeType DEF BuildTypes
    <3> QED  BY <3>2, <3>3
  <2>2. CASE UseComponents
    <3> DEFINE names == {promos[k].name : k \in DOMAIN promos}
    <3>1. names \subseteq Name
      <4>1. \A k \in DOMAIN promos : promos[k] \in Promotion
        BY <1>0 DEF PromoTypes
      <4> QED  BY <4>1 DEF Promotion
    <3>2. purge' = [purge EXCEPT !.pc = "names", !.names = names]
      BY <1>3, <2>2 DEF AfterRows
    <3> HIDE DEF names
    <3>3. /\ purge' \in Purging /\ purge'.pc = "names" /\ purge'.todo = {}
          /\ purge'.marks = purge.marks /\ purge'.full = purge.full
      BY <1>0, <1>1, <3>1, <3>2 DEF BuildTypes, Purging
    <3>4. TableTypes' /\ BuildTypes'
      BY <1>0, <1>1, <1>3, <3>3 DEF TableTypes, BuildTypes
    <3>5. PurgeOK'
      <4>1. \A q \in purge.full : \E k \in DOMAIN db' : Success(k)' /\ db'[k].rev.pkg = q
        BY <1>1 DEF BuildInv, PurgeOK, Success
      <4> QED  BY <1>3, <3>3, <4>1 DEF PurgeOK, PurgeAt
    <3>6. \A i : /\ ~Pending(i) /\ ~Pending(i)'
                 /\ Flagged(i)' <=> Flagged(i)
                 /\ Flagged(i)' => i \in DOMAIN db
      BY <1>0, <1>1, <1>3, <3>3 DEF Pending, PurgeAt, Flagged, TableTypes, BuildTypes
    <3> QED  BY <1>1, <1>3, <3>4, <3>5, <3>6, DirsLeft DEF PurgeFrame
  <2> QED  BY <2>1, <2>2
<1> QED  BY <1>2, <1>3 DEF StoreFlags

(* Looking at the names flags no row.                                      *)
LEMMA NamesKeep ==
  ASSUME TypeOK, BuildInv, PurgeFrame, UNCHANGED <<dirs, linked, purged, lost>>,
         purge.pc \in {"names", "hash"}, purge'.pc \in {"names", "hash"}, purge' \in Purging,
         purge'.todo = purge.todo, purge'.marks = purge.marks, purge'.full = purge.full,
         purge'.pc = "hash" => purge'.name \in Name
  PROVE  TableTypes' /\ BuildInv'
<1>0. TableTypes /\ BuildTypes
  BY TypeParts
<1>1. UNCHANGED <<db, dtbuild, links, working, again>>
  BY DEF PurgeFrame
<1>2. TableTypes'
  BY <1>0, <1>1 DEF TableTypes
<1>3. PurgeOK'
  <2>1. \A q \in purge.full : \E k \in DOMAIN db' : /\ Success(k)' /\ db'[k].rev.pkg = q
                                                    /\ \A i \in purge.todo : i <= k
    BY <1>1 DEF BuildInv, PurgeOK, Success
  <2>2. \A i \in purge.todo : dtbuild'[i] # None /\ (db'[i].status = "SUCCESS" => Success(i)')
    BY <1>1 DEF BuildInv, PurgeOK, Success
  <2> QED  BY <1>1, <2>1, <2>2 DEF BuildInv, PurgeOK, PurgeAt
<1>4. \A i : /\ ~Pending(i) /\ ~Pending(i)'
             /\ Flagged(i)' <=> Flagged(i)
             /\ Flagged(i)' => i \in DOMAIN db
  BY <1>0 DEF Pending, PurgeAt, Flagged, TableTypes, BuildTypes
<1>5. BuildInv'
  BY <1>2, <1>3, <1>4, DirsLeft
<1> QED  BY <1>2, <1>5

LEMMA NamesStepsKeep ==
  ASSUME TypeOK, BuildInv, ReadProtected \/ RemoveHashes \/ EndPurge \/ KillPurge
  PROVE  TableTypes' /\ BuildTypes' /\ BuildInv'
<1>0. TableTypes /\ BuildTypes /\ PromoTypes
  BY TypeParts
<1>1. CASE ReadProtected
  <2>1. /\ UNCHANGED <<db, purged, dirs, dtbuild, links, linked, lost, again, working>>
        /\ UNCHANGED <<day, builds, imports, rechecks>> /\ PurgeAt("names")
    BY <1>1 DEF ReadProtected, tableVars, buildVars, restVars, histVars, countVars
  <2>2. PICK n \in purge.names :
           purge' = [purge EXCEPT !.pc = "hash", !.names = @ \ {n}, !.name = n, !.protected = files[n][1]]
    BY <1>1 DEF ReadProtected
  <2>3. n \in Name
    BY <1>0 DEF BuildTypes, Purging
  <2>4. files[n][1] \in Content \cup {None}
    <3>1. 1 \in DOMAIN AggFile
      BY PromotionsAssumption
    <3> QED  BY <1>0, <2>3, <3>1 DEF PromoTypes
  <2>5. /\ purge' \in Purging /\ purge'.pc = "hash" /\ purge'.name \in Name
        /\ purge'.todo = purge.todo /\ purge'.marks = purge.marks /\ purge'.full = purge.full
    BY <1>0, <2>2, <2>3, <2>4 DEF BuildTypes, Purging
  <2>6. TableTypes' /\ BuildInv'
    BY <2>1, <2>5, NamesKeep DEF PurgeFrame, PurgeAt
  <2>7. BuildTypes'
    BY <1>0, <2>1, <2>5 DEF BuildTypes
  <2> QED  BY <2>6, <2>7
<1>2. CASE RemoveHashes
  <2>1. /\ UNCHANGED <<db, purged, dirs, dtbuild, links, linked, lost, again, working>>
        /\ UNCHANGED <<day, builds, imports, rechecks>> /\ PurgeAt("hash")
        /\ purge' = [purge EXCEPT !.pc = "names"]
    BY <1>2 DEF RemoveHashes, tableVars, buildVars, restVars, histVars, countVars
  <2>2. /\ purge' \in Purging /\ purge'.pc = "names"
        /\ purge'.todo = purge.todo /\ purge'.marks = purge.marks /\ purge'.full = purge.full
    BY <1>0, <2>1 DEF BuildTypes, Purging
  <2>3. TableTypes' /\ BuildInv'
    BY <2>1, <2>2, NamesKeep DEF PurgeFrame, PurgeAt
  <2>4. BuildTypes'
    BY <1>0, <2>1, <2>2 DEF BuildTypes
  <2> QED  BY <2>3, <2>4
<1>3. CASE EndPurge
  <2>1. /\ UNCHANGED <<db, purged, dirs, dtbuild, links, linked, lost, again, working>>
        /\ UNCHANGED <<day, builds, imports, rechecks>> /\ PurgeAt("names") /\ purge' = NoPurge
    BY <1>3 DEF EndPurge, tableVars, buildVars, restVars, histVars, countVars
  <2>2. purge.marks \subseteq purged
    BY <2>1 DEF BuildInv, PurgeOK, PurgeAt
  <2>3. TableTypes' /\ BuildInv'
    BY <2>1, <2>2, OverKeeps DEF PurgeFrame
  <2>4. BuildTypes'
    BY <1>0, <2>1, NoPurgeType DEF BuildTypes
  <2> QED  BY <2>3, <2>4
<1>4. CASE KillPurge
  <2>1. /\ UNCHANGED <<db, purged, dirs, dtbuild, links, linked, again, working>>
        /\ UNCHANGED <<day, builds, imports, rechecks>> /\ purge' = NoPurge /\ lost' = lost + 1
    BY <1>4 DEF KillPurge, tableVars, buildVars, restVars, histVars, countVars
  <2>2. lost' # 0
    BY <1>0, <2>1 DEF BuildTypes
  <2>3. TableTypes' /\ BuildInv'
    BY <2>1, <2>2, OverKeeps DEF PurgeFrame
  <2>4. BuildTypes'
    BY <1>0, <2>1, NoPurgeType DEF BuildTypes
  <2> QED  BY <2>3, <2>4
<1> QED  BY <1>1, <1>2, <1>3, <1>4

(* A success is given up only when a later one of its project is there, or *)
(* when their order says nothing.                                          *)
LEMMA RemovedIsSuperseded ==
  ASSUME TableTypes, PurgeOK, PurgeAt("row"), NEW i \in Latest(purge.todo),
         Success(i), Fate(i, purge.full) # "stay"
  PROVE  Fate(i, purge.full) = "remove" /\ Superseded(i)
<1>1. /\ i \in purge.todo /\ i \in DOMAIN db /\ dtbuild[i] # None
      /\ db[i].status = "SUCCESS"
  BY DEF PurgeOK, Latest, Success
<1>2. /\ Fate(i, purge.full) = "remove"
      /\ db[i].rev.pkg \in purge.full \/ NewerSuccess(i) # {}
  BY <1>1 DEF Fate
<1>3. CASE db[i].rev.pkg \in purge.full
  <2>1. PICK k \in DOMAIN db : Success(k) /\ db[k].rev.pkg = db[i].rev.pkg /\ i <= k /\ i # k
    BY <1>1, <1>3 DEF PurgeOK
  <2>2. i < k
    BY <1>1, <2>1, Rows
  <2> QED  BY <1>2, <2>1, <2>2 DEF Superseded
<1>4. CASE NewerSuccess(i) # {}
  <2>1. PICK j \in DOMAIN db : /\ Success(j) /\ db[j].rev.pkg = db[i].rev.pkg
                               /\ dtbuild[j] # None /\ dtbuild[j] > dtbuild[i]
    BY <1>4 DEF NewerSuccess, WithStatus, RowsOf, Live, Success
  <2>2. i \in Nat /\ j \in Nat /\ dtbuild[i] \in Nat /\ dtbuild[j] \in Nat
    BY <1>1, <2>1, Rows DEF Day
  <2>3. CASE i < j
    BY <1>2, <2>1, <2>3 DEF Superseded
  <2>4. CASE j < i
    <3>1. ~InBuildOrder(db[i].rev.pkg)
      <4> SUFFICES ASSUME InBuildOrder(db[i].rev.pkg)
                   PROVE  FALSE
        OBVIOUS
      <4>1. dtbuild[j] <= dtbuild[i]
        BY <1>1, <2>1, <2>4, SuccessesOf
      <4> QED  BY <2>1, <2>2, <4>1
    <3> QED  BY <1>2, <3>1 DEF Superseded
  <2>5. CASE i = j
    BY <2>1, <2>2, <2>5
  <2> QED  BY <2>2, <2>3, <2>4, <2>5
<1> QED  BY <1>2, <1>3, <1>4

(* Nothing an excluded directory shows is removed.                         *)
LEMMA ShownIsExcluded ==
  ASSUME TypeOK, BuildInv, AllInOrder, PurgeAt("row"),
         NEW i \in DOMAIN db, NEW d \in ExcludeDirs, Shown(d, db[i].rev)
  PROVE  Excluded(i)
<1> DEFINE s == db[i].rev
<1>0. TableTypes /\ BuildTypes
  BY TypeParts
<1>1. PICK r \in Rev : r = links[d]
  BY <1>0, NoneApart, PurgeAssumption DEF BuildTypes, Shown
<1>2. s \in Rev /\ AtOnce(s) /\ AtOnce(r) /\ s \in {r} \cup linked[r]
  BY <1>0, <1>1, Rows DEF Shown
<1>3. Shown(d, r)
  BY <1>1, <1>2, NoneApart DEF Shown
<1>4. r \in dirs /\ s \in dirs
  BY <1>2, <1>3 DEF BuildInv, ExcludedOK
<1>5. Succeeded(s)
  BY <1>1, <1>2, NoneApart, PurgeAssumption DEF BuildInv, LinkedOK
<1>6. db[i].status = "SUCCESS"
  BY <1>2, <1>5 DEF Succeeded, AtOnce, Success
<1> QED  BY <1>1, <1>2, <1>4, <1>6 DEF Excluded

LEMMA VisitKeeps ==
  ASSUME TypeOK, BuildInv, Visit
  PROVE  TableTypes' /\ BuildTypes' /\ BuildInv'
<1>0. TableTypes /\ BuildTypes
  BY TypeParts
<1>1. /\ UNCHANGED <<db, purged, dirs, dtbuild, links, linked, lost, again, working>>
      /\ UNCHANGED <<day, builds, imports, rechecks>> /\ PurgeAt("row")
  BY DEF Visit, tableVars, buildVars, restVars, histVars, countVars
<1>2. PICK i \in Latest(purge.todo) :
         LET fate == Fate(i, purge.full) IN
         purge' = [purge EXCEPT
            !.pc = IF fate = "remove" THEN "remove" ELSE "row",
            !.todo = IF fate = "remove" THEN @ ELSE @ \ {i},
            !.full = IF fate = "remove" /\ db[i].status = "SUCCESS" THEN @ \cup {db[i].rev.pkg} ELSE @,
            !.marks = IF fate = "stay" THEN @ ELSE @ \cup {i}]
  BY DEF Visit
<1> DEFINE fate == Fate(i, purge.full)
<1>3. /\ i \in purge.todo /\ i \in DOMAIN db /\ i \in Nat /\ db[i].rev.pkg \in Package
      /\ purge.todo \in SUBSET Nat
  BY <1>0, Rows DEF BuildInv, PurgeOK, Latest
<1>4. purge \in [pc : {"idle", "row", "remove", "names", "hash"},
                 todo : SUBSET Nat, before : Nat, full : SUBSET Package,
                 marks : SUBSET Nat, names : SUBSET Name, name : Name \cup {None},
                 protected : Content \cup {None}]
  BY <1>0, <1>3 DEF BuildTypes, Purging
<1>5. fate \in {"stay", "flag", "remove"}
  BY DEF Fate
<1> HIDE DEF fate
<1>6. /\ purge' \in Purging
      /\ purge'.pc = IF fate = "remove" THEN "remove" ELSE "row"
      /\ purge'.todo = IF fate = "remove" THEN purge.todo ELSE purge.todo \ {i}
      /\ purge'.full = IF fate = "remove" /\ db[i].status = "SUCCESS"
                       THEN purge.full \cup {db[i].rev.pkg} ELSE purge.full
      /\ purge'.marks = IF fate = "stay" THEN purge.marks ELSE purge.marks \cup {i}
  BY <1>2, <1>3, <1>4 DEF Purging, fate
<1>7. TableTypes' /\ BuildTypes'
  BY <1>0, <1>1, <1>3, <1>6 DEF TableTypes, BuildTypes
<1>8. db[i].status = "SUCCESS" <=> Success(i)
  BY <1>3 DEF BuildInv, PurgeOK, Success
<1>9. Success(i) /\ fate # "stay" => fate = "remove" /\ Superseded(i)
  BY <1>0, <1>1, RemovedIsSuperseded DEF BuildInv, fate
<1>10. \A j : Success(j)' <=> Success(j)
  BY <1>1 DEF Success
<1>11. PurgeOK'
  <2>1. purge'.todo \subseteq DOMAIN db'
    BY <1>1, <1>6 DEF BuildInv, PurgeOK
  <2>2. \A j \in purge'.todo : dtbuild'[j] # None /\ (db'[j].status = "SUCCESS" => Success(j)')
    BY <1>1, <1>6, <1>10 DEF BuildInv, PurgeOK
  <2>3. fate = "remove" => Latest(purge'.todo) \subseteq purge'.marks \ purged'
    <3> SUFFICES ASSUME fate = "remove", NEW j \in Latest(purge.todo)
                 PROVE  j \in purge'.marks \ purged'
      BY <1>6
    <3>1. j = i
      BY <1>3, LatestUnique
    <3>2. i \notin purged
      BY DEF Fate, fate
    <3> QED  BY <1>1, <1>6, <3>1, <3>2
  <2>4. ASSUME NEW q \in purge'.full
        PROVE  \E k \in DOMAIN db' :
                  /\ Success(k)' /\ db'[k].rev.pkg = q
                  /\ \A j \in purge'.todo : j <= k /\ (PurgeAt("row")' => j # k)
    <3>1. CASE q \in purge.full
      <4>1. PICK k \in DOMAIN db : /\ Success(k) /\ db[k].rev.pkg = q
                                   /\ \A j \in purge.todo : j <= k /\ j # k
        BY <1>1, <3>1 DEF BuildInv, PurgeOK
      <4> QED  BY <1>1, <1>6, <1>10, <4>1
    <3>2. CASE q \notin purge.full
      <4>1. q = db[i].rev.pkg /\ fate = "remove" /\ Success(i)
        BY <1>6, <1>8, <3>2
      <4>2. \A j \in purge'.todo : j <= i
        BY <1>6, <4>1 DEF Latest
      <4>3. ~PurgeAt("row")'
        BY <1>6, <4>1 DEF PurgeAt
      <4> QED  BY <1>1, <1>3, <1>10, <4>1, <4>2, <4>3
    <3> QED  BY <3>1, <3>2
  <2> QED  BY <1>6, <2>1, <2>2, <2>3, <2>4 DEF PurgeOK, PurgeAt
<1>12. \A j : Flagged(j)' => j \in DOMAIN db /\ (Flagged(j) \/ (j = i /\ fate # "stay"))
  BY <1>0, <1>1, <1>3, <1>6 DEF Flagged, TableTypes, BuildTypes
<1>13. \A j : Flagged(j) => Flagged(j)'
  BY <1>1, <1>6 DEF Flagged
<1>14. \A j : ~Pending(j) /\ (Pending(j)' <=> fate = "remove" /\ j = i)
  <2>1. \A j : Pending(j)' => fate = "remove" /\ j = i
    BY <1>3, <1>6, LatestUnique DEF Pending, PurgeAt
  <2>2. fate = "remove" => Pending(i)'
    BY <1>6 DEF Pending, PurgeAt
  <2> QED  BY <1>1, <2>1, <2>2 DEF Pending, PurgeAt
<1>15. \A j \in DOMAIN db : Success(j) /\ Flagged(j)' => Flagged(j) \/ Superseded(j)
  BY <1>9, <1>12
<1>16. \A j \in DOMAIN db : Success(j) /\ Flagged(j)' /\ ~Pending(j)' => Flagged(j) /\ ~Pending(j)
  BY <1>9, <1>12, <1>14
<1>17. ASSUME NEW j \in DOMAIN db, NEW d \in ExcludeDirs,
              Pending(j)', ~Pending(j), Shown(d, db[j].rev)
       PROVE  ~AllInOrder
  <2>1. fate = "remove" /\ j = i
    BY <1>14, <1>17
  <2>2. ~Excluded(i)
    BY <2>1 DEF Fate, fate
  <2> QED  BY <1>1, <1>17, <2>1, <2>2, ShownIsExcluded
<1>18. PurgeFrame /\ UNCHANGED <<dirs, linked>> /\ lost' = lost
  BY <1>1 DEF PurgeFrame
<1>19. BuildInv'
  BY <1>7, <1>11, <1>12, <1>13, <1>15, <1>16, <1>17, <1>18, DirsLeft
<1> QED  BY <1>7, <1>19

LEMMA RemoveDirKeeps ==
  ASSUME TypeOK, BuildInv, RemoveDir
  PROVE  TableTypes' /\ BuildTypes' /\ BuildInv'
<1> USE DEF BuildInv
<1>0. TableTypes /\ BuildTypes
  BY TypeParts
<1>1. /\ UNCHANGED <<db, purged, dtbuild, links, lost, again, working>>
      /\ UNCHANGED <<day, builds, imports, rechecks>> /\ PurgeAt("remove")
  BY DEF RemoveDir, restVars, histVars, countVars
<1>2. PICK i \in Latest(purge.todo) :
         /\ dirs' = dirs \ {db[i].rev}
         /\ linked' = [linked EXCEPT ![db[i].rev] = {}]
         /\ purge' = [purge EXCEPT !.pc = "row", !.todo = @ \ {i}]
  BY DEF RemoveDir
<1>3. /\ i \in purge.todo /\ i \in DOMAIN db /\ i \in Nat /\ db[i].rev \in Rev
      /\ purge.todo \in SUBSET Nat /\ i \in purge.marks
  BY <1>0, <1>1, Rows DEF PurgeOK, Latest
<1>4. PICK r \in Rev : r = db[i].rev
  BY <1>3
<1>5. purge \in [pc : {"idle", "row", "remove", "names", "hash"},
                 todo : SUBSET Nat, before : Nat, full : SUBSET Package,
                 marks : SUBSET Nat, names : SUBSET Name, name : Name \cup {None},
                 protected : Content \cup {None}]
  BY <1>0 DEF BuildTypes, Purging
<1>6. /\ purge' \in Purging /\ purge'.pc = "row" /\ purge'.todo = purge.todo \ {i}
      /\ purge'.full = purge.full /\ purge'.marks = purge.marks
  BY <1>2, <1>5 DEF Purging
<1>7. /\ linked' \in [Rev -> SUBSET Rev]
      /\ \A x \in Rev : linked'[x] \subseteq linked[x]
  BY <1>0, <1>2, <1>4, Emptied
<1>8. TableTypes' /\ BuildTypes'
  BY <1>0, <1>1, <1>2, <1>6, <1>7 DEF TableTypes, BuildTypes
<1>9. NoSuccessCame /\ TableGrows /\ CameThere
  BY <1>0, <1>1, <1>8, SameTable
<1>10. \A j : Success(j)' <=> Success(j)
  BY <1>1 DEF Success
<1>11. PurgeOK'
  <2>1. \A j \in purge'.todo : j \in Nat /\ j <= i /\ j # i
    BY <1>3, <1>6 DEF Latest
  <2>2. ASSUME NEW q \in purge'.full
        PROVE  \E k \in DOMAIN db' :
                  /\ Success(k)' /\ db'[k].rev.pkg = q
                  /\ \A j \in purge'.todo : j <= k /\ j # k
    <3>1. PICK k \in DOMAIN db : /\ Success(k) /\ db[k].rev.pkg = q
                                 /\ \A j \in purge.todo : j <= k
      BY <1>6 DEF PurgeOK
    <3>2. \A j \in purge'.todo : j <= k /\ j # k
      <4>1. i <= k /\ k \in Nat
        BY <1>0, <1>3, <3>1, Rows
      <4> QED  BY <1>3, <2>1, <4>1
    <3> QED  BY <1>1, <1>10, <3>1, <3>2
  <2>3. purge'.todo \subseteq DOMAIN db'
    BY <1>1, <1>6 DEF PurgeOK
  <2>4. \A j \in purge'.todo : dtbuild'[j] # None /\ (db'[j].status = "SUCCESS" => Success(j)')
    BY <1>1, <1>6, <1>10 DEF PurgeOK
  <2> QED  BY <1>6, <2>2, <2>3, <2>4 DEF PurgeOK, PurgeAt
<1>12. \A j : /\ Flagged(j)' <=> Flagged(j)
              /\ Flagged(j)' => j \in DOMAIN db
              /\ ~Pending(j)' /\ (Pending(j) => j = i)
  BY <1>0, <1>1, <1>3, <1>6, LatestUnique DEF Flagged, Pending, PurgeAt, TableTypes, BuildTypes
<1>13. Flagged(i)
  BY <1>3 DEF Flagged
<1>14. \A j \in DOMAIN db : AtOnce(db[j].rev) /\ db[j].rev = r => j = i
  BY <1>3, <1>4 DEF AtOnce
<1>15. FlagsOK'
  BY <1>9, <1>12, KeepsFlags
<1>16. NewestThere'
  <2>1. \A j \in DOMAIN db : Success(j) /\ AtOnce(db[j].rev) /\ ~Superseded(j) => db[j].rev \in dirs'
    BY <1>2, <1>4, <1>13, <1>14 DEF NewestThere, FlagsOK
  <2> QED  BY <1>9, <2>1, KeepsNewest
<1>17. GoneIsFlagged'
  <2>1. \A j \in DOMAIN db : Success(j) /\ AtOnce(db[j].rev) =>
           /\ Flagged(j) => Flagged(j)'
           /\ db[j].rev \in dirs => db[j].rev \in dirs' \/ Flagged(j)'
    BY <1>2, <1>4, <1>12, <1>13, <1>14
  <2> QED  BY <1>1, <1>9, <2>1, KeepsGone
<1>18. FlaggedIsGone'
  <2>1. \A j \in DOMAIN db :
            /\ Success(j) /\ AtOnce(db[j].rev)
            /\ Flagged(j)' /\ db[j].rev \notin again' /\ ~Pending(j)'
            => db[j].rev \notin dirs'
    BY <1>1, <1>2, <1>12 DEF FlaggedIsGone
  <2> QED  BY <1>9, <1>12, <2>1, KeepsFlagged
<1>19. WorkOK'
  <2>1. \A x \in Rev : x \in dirs /\ ~Has(x) => x \in dirs'
    BY <1>2, <1>3 DEF Has
  <2> QED  BY <1>1, <1>7, <1>9, <2>1, KeepsWork
<1>20. LinkedOK'
  BY <1>1, <1>7, <1>9, KeepsLinked DEF WorkAt
<1>21. CurrentOK'
  BY <1>1, <1>7, <1>9, KeepsCurrent DEF WorkAt
<1>22. ExcludedOK'
  <2>1. Pending(i)
    BY <1>1 DEF Pending
  <2>2. \A s \in Rev : s \in dirs /\ ~(\E j \in DOMAIN db : Pending(j) /\ db[j].rev = s) => s \in dirs'
    BY <1>2, <1>3, <2>1
  <2> QED  BY <1>1, <1>7, <1>9, <1>12, <2>2, KeepsExcluded DEF PurgeOK
<1> QED  BY <1>8, <1>11, <1>15, <1>16, <1>17, <1>18, <1>19, <1>20, <1>21, <1>22

LEMMA PurgeKeeps ==
  ASSUME TypeOK, BuildInv, PurgeStep \/ KillPurge
  PROVE  TableTypes' /\ BuildTypes' /\ BuildInv'
<1>1. CASE StartPurge
  BY <1>1, StartPurgeKeeps
<1>2. CASE Visit
  BY <1>2, VisitKeeps
<1>3. CASE RemoveDir
  BY <1>3, RemoveDirKeeps
<1>4. CASE StoreFlags
  BY <1>4, StoreFlagsKeeps
<1>5. CASE ReadProtected \/ RemoveHashes \/ EndPurge \/ KillPurge
  BY <1>5, NamesStepsKeep
<1> QED  BY <1>1, <1>2, <1>3, <1>4, <1>5 DEF PurgeStep

-----------------------------------------------------------------------------
(* The start                                                               *)

LEMMA InitKeeps ==
  ASSUME Init
  PROVE  PurgeInv
<1>1. PICK s \in Start : db = s.rows /\ dtbuild = s.days
  BY DEF Init
<1>2. TableTypes
  <2>1. db \in Seq(Row) /\ dtbuild \in [DOMAIN db -> {0, None}]
    BY <1>1, PurgeAssumption
  <2>2. dtbuild \in Seq(Day) /\ Len(dtbuild) = Len(db)
    <3>1. DOMAIN db = 1..Len(db) /\ Len(db) \in Nat
      BY <2>1
    <3>2. dtbuild \in [1..Len(db) -> Day]
      BY <2>1, <3>1 DEF Day
    <3> QED  BY <3>1, <3>2
  <2>3. dirs \subseteq Rev
    <3>1. \A i \in DOMAIN db : db[i] \in Row
      BY <2>1
    <3>2. \A i \in DOMAIN db : db[i].rev \in Rev
      BY <3>1, RowType
    <3> QED  BY <3>2 DEF Init, Live
  <2> QED  BY <2>1, <2>2, <2>3 DEF Init, TableTypes
<1>3. \A i \in DOMAIN db : Success(i) => db[i].rev \in dirs
  BY DEF Init, Live, Success
<1>4. \A d \in {"current", "consistent"} : links[d] # None =>
         \E i \in DOMAIN db : /\ Success(i) /\ links[d] = db[i].rev
                              /\ \A j \in DOMAIN db : Success(j) => j <= i
  <2> DEFINE last == Latest(WithStatus(db, Live(db), "SUCCESS"))
  <2> SUFFICES ASSUME NEW d \in {"current", "consistent"}, links[d] # None
               PROVE  \E i \in DOMAIN db : /\ Success(i) /\ links[d] = db[i].rev
                                           /\ \A j \in DOMAIN db : Success(j) => j <= i
    OBVIOUS
  <2>1. last # {} /\ links[d] = db[CHOOSE i \in last : TRUE].rev
    BY DEF Init
  <2>2. PICK i \in last : links[d] = db[i].rev
    BY <2>1
  <2>3. i \in DOMAIN db /\ Success(i) /\ \A j \in DOMAIN db : Success(j) => j <= i
    BY DEF Latest, WithStatus, Live, Success
  <2> QED  BY <2>2, <2>3
<1>5. \A d \in {"current", "consistent"} : links[d] # None =>
         links[d] \in Rev /\ NewestRev(links[d]) /\ Succeeded(links[d]) /\ Has(links[d])
  BY <1>2, <1>4, Rows DEF NewestRev, Succeeded, Has
<1>6. \A r \in Rev : \A x \in linked[r] :
         r = links["current"] /\ x \in Rev /\ NewestRev(x) /\ Succeeded(x)
  BY <1>2, OthersAreNewest DEF Init
<1>7. linked \in [Rev -> SUBSET Rev]
  <2>1. \A r \in Rev : OthersOf(r) \subseteq Rev
    BY <1>2, OthersAreNewest
  <2> QED  BY <2>1 DEF Init
<1>8. links \in [{"current", "consistent"} -> Rev \cup {None}]
  BY <1>5 DEF Init
<1>9. NoWork \in Working /\ NoPurge \in Purging
  BY NoPurgeType DEF NoWork, Working
<1>10. BuildTypes
  BY <1>7, <1>8, <1>9, NoPurgeType DEF Init, BuildTypes
<1>11. PromoTypes
  <2>1. NoLinks \in [Link -> Rev \cup {None}]
    BY DEF NoLinks
  <2>2. NoCall \in Call
    BY <2>1 DEF NoCall, Call, CallPC
  <2> QED  BY <2>1, <2>2 DEF Init, InitPromotions, PromoTypes
<1>12. HistTypes
  BY DEF Init, HistTypes
<1>13. BuildInv
  <2>1. PurgeOK
    BY DEF Init, PurgeOK, PurgeAt, NoPurge
  <2>2. \A i : ~Flagged(i) /\ ~Pending(i)
    BY DEF Init, Flagged, Pending, PurgeAt, NoPurge
  <2>3. FlagsOK /\ NewestThere /\ GoneIsFlagged /\ FlaggedIsGone
    BY <1>3, <2>2 DEF FlagsOK, NewestThere, GoneIsFlagged, FlaggedIsGone
  <2>4. WorkOK
    BY DEF Init, WorkOK, WorkAt, NoWork
  <2>5. LinkedOK
    BY <1>5, <1>6, NoneApart DEF LinkedOK
  <2>6. CurrentOK
    BY <1>5, <1>6 DEF CurrentOK
  <2>7. ExcludedOK
    <3>1. \A x : Succeeded(x) => x \in dirs
      BY <1>3 DEF Succeeded
    <3>2. \A d \in ExcludeDirs, x \in Rev : Shown(d, x) => Succeeded(x)
      BY <1>5, <1>6, PurgeAssumption DEF Shown
    <3> QED  BY <2>2, <3>1, <3>2 DEF ExcludedOK
  <2> QED  BY <2>1, <2>3, <2>4, <2>5, <2>6, <2>7 DEF BuildInv
<1>14. PromoInv
  <2>1. \A p \in Client : call[p] = NoCall
    BY DEF Init, InitPromotions
  <2>2. NoCall.pc = "idle"
    BY DEF NoCall
  <2>3. \A n \in Name, f \in DOMAIN AggFile : files[n][f] = None /\ temps[n][f] = None
    BY DEF Init, InitPromotions
  <2>4. 1 \in DOMAIN AggFile
    BY PromotionsAssumption
  <2>5. InProgress = {}
    BY <2>1, <2>2 DEF InProgress, CallAt
  <2>6. \A p \in Client : ~AtFiles(p) /\ ~CallAt(p, "rename")
    BY <2>1, <2>2 DEF AtFiles, CallAt
  <2>7. SinglesOK /\ PromosOK
    BY <2>1, <2>2, <2>5 DEF SinglesOK, SingleOK, PromosOK, Init, InitPromotions
  <2>8. TempsOK
    BY <2>3, <2>6 DEF TempsOK, AggTempInUse
  <2>9. SettledOK
    BY <2>3, <2>4, <2>5, <2>6 DEF SettledOK, Settled
  <2>10. KeptOK
    BY <2>5, <2>6 DEF KeptOK, Init, PurgeAt, NoPurge
  <2>11. AggregatesKept
    BY <2>3 DEF AggregatesKept
  <2> QED  BY <2>7, <2>8, <2>9, <2>10, <2>11 DEF PromoInv
<1> QED  BY <1>2, <1>10, <1>11, <1>12, <1>13, <1>14, TypeParts DEF PurgeInv

-----------------------------------------------------------------------------
(* Promotions, while others are at work                                    *)

\* A step that is none of a promotion.
LEMMA BesidePromotions ==
  ASSUME PromoInv, UNCHANGED <<files, temps, call, kills, crossed>>,
         PromosOK', KeptOK', AggregatesKept'
  PROVE  PromoInv'
<1> USE DEF PromoInv
<1>1. InProgress' = InProgress
  BY DEF InProgress, CallAt
<1>2. SinglesOK' /\ TempsOK'
  BY DEF SinglesOK, TempsOK, AggTempInUse, CallAt, NameOf
<1>3. SettledOK'
  BY <1>1 DEF SettledOK, Settled, AtFiles, NameOf
<1> QED  BY <1>2, <1>3

LEMMA PromoTypesStay ==
  ASSUME PromoTypes, UNCHANGED <<plinks, promos, aggVars, call, kills>>
  PROVE  PromoTypes'
BY DEF PromoTypes, aggVars

LEMMA PromosStay ==
  ASSUME PromosOK, TypeOK, TableGrows, dirs \subseteq dirs', SinglesOK,
         UNCHANGED <<call, purge, lost, mixed>>
  PROVE  PromosOK'
<1> SUFFICES ASSUME NEW p \in InProgress', p \notin mixed'
             PROVE  /\ PurgeAt("idle")'
                    /\ lost' = 0 /\ call'[p].pc \in {"look", "unlink", "link"} /\ AtOnce(ItemOf(p).rev)' =>
                          ItemOf(p)'.rev \in dirs'
  BY DEF PromosOK
<1>1. p \in InProgress /\ p \notin mixed
  BY DEF InProgress, CallAt
<1>2. ItemOf(p)' = ItemOf(p)
  BY DEF ItemOf
<1>3. PICK r : r = ItemOf(p).rev /\ r = ItemOf(p)'.rev
  BY <1>2
<1>4. AtOnce(r)' => AtOnce(r)
  BY GrowsKeeps
<1>5. AtOnce(ItemOf(p).rev)' <=> AtOnce(r)'
  BY <1>3
<1> QED  BY <1>1, <1>3, <1>4, <1>5 DEF PromosOK, PurgeAt

LEMMA OthersKeepPromotions ==
  ASSUME TypeOK, PurgeInv, Build \/ Recheck \/ Tick
  PROVE  TypeOK' /\ BuildInv' /\ PromoInv'
<1>0. TableTypes /\ BuildTypes /\ PromoTypes /\ HistTypes /\ BuildInv /\ PromoInv
  BY TypeParts DEF PurgeInv
<1>1. /\ UNCHANGED <<plinks, promos, aggVars, call, kills, raced, crossed>>
      /\ UNCHANGED <<purge, lost, mixed, born>>
  <2>1. CASE Build
    BY <2>1 DEF Build, StartBuild, StartImport, PostBuild, BuildFails, RecordSuccess, MoveCurrent,
                MoveConsistent, MoveLink, promotionVars, purgeVars, restVars, histVars
  <2>2. CASE Recheck
    BY <2>2 DEF Recheck, promotionVars, purgeVars, histVars
  <2>3. CASE Tick
    BY <2>3 DEF Tick, promotionVars, purgeVars, histVars
  <2> QED  BY <2>1, <2>2, <2>3
<1>2. TableTypes' /\ BuildTypes' /\ BuildInv' /\ TableGrows /\ dirs \subseteq dirs'
  <2>1. CASE Build
    BY <1>0, <2>1, BuildKeeps
  <2>2. CASE Recheck
    BY <1>0, <2>2, RecheckKeeps
  <2>3. CASE Tick
    <3>1. UNCHANGED <<tableVars, buildVars, purge, lost, again>>
      BY <2>3 DEF Tick, purgeVars, histVars
    <3>2. UNCHANGED <<db, links, linked, working, purge, lost, again, builds, imports, rechecks>> /\ day' = day + 1
      BY <2>3 DEF Tick, tableVars, buildVars, purgeVars, histVars, countVars
    <3>3. BuildTypes'
      BY <1>0, <3>2 DEF BuildTypes
    <3> QED  BY <1>0, <3>1, <3>3, UnchangedKeeps
  <2> QED  BY <2>1, <2>2, <2>3
<1>3. PromoTypes' /\ HistTypes'
  BY <1>0, <1>1, PromoTypesStay DEF HistTypes
<1>4. PromosOK'
  BY <1>0, <1>1, <1>2, PromosStay DEF PromoInv
<1>5. UNCHANGED <<files, temps, call, kills, hashdirs, crossed, raced, purge>> /\ InProgress' = InProgress
  BY <1>1 DEF aggVars, InProgress, CallAt
<1>6. KeptOK' /\ AggregatesKept'
  BY <1>0, <1>5 DEF PromoInv, KeptOK, PurgeAt, AtFiles, NameOf, AggregatesKept
<1>7. PromoInv'
  BY <1>0, <1>4, <1>5, <1>6, BesidePromotions
<1> QED  BY <1>2, <1>3, <1>7, TypePartsAfter

LEMMA PurgeKeepsPromotions ==
  ASSUME TypeOK, PurgeInv, PurgeStep \/ KillPurge
  PROVE  TypeOK' /\ BuildInv' /\ PromoInv'
<1>0. TableTypes /\ BuildTypes /\ PromoTypes /\ HistTypes /\ BuildInv /\ PromoInv
  BY TypeParts DEF PurgeInv
<1>1. TableTypes' /\ BuildTypes' /\ BuildInv'
  BY <1>0, PurgeKeeps
<1>2. /\ UNCHANGED <<plinks, promos, files, temps, call, kills, crossed, born>>
      /\ StartPurge \/ (UNCHANGED <<mixed, raced>> /\ ~PurgeAt("idle"))
      /\ RemoveHashes \/ UNCHANGED hashdirs
      /\ StartPurge \/ RemoveHashes \/ ReadProtected \/ purge'.pc # "hash"
  <2>1. CASE StartPurge
    BY <2>1 DEF StartPurge, promotionVars, aggVars, NoPurge
  <2>2. CASE Visit
    <3>1. UNCHANGED <<plinks, promos, files, temps, call, kills, crossed, born, mixed, raced, hashdirs>>
      BY <2>2 DEF Visit, promotionVars, aggVars, restVars, histVars
    <3>2. PurgeAt("row")
      BY <2>2 DEF Visit
    <3>3. PICK i \in Latest(purge.todo) : LET fate == Fate(i, purge.full) IN
             purge' = [purge EXCEPT
                !.pc = IF fate = "remove" THEN "remove" ELSE "row",
                !.todo = IF fate = "remove" THEN @ ELSE @ \ {i},
                !.full = IF fate = "remove" /\ db[i].status = "SUCCESS" THEN @ \cup {db[i].rev.pkg} ELSE @,
                !.marks = IF fate = "stay" THEN @ ELSE @ \cup {i}]
      BY <2>2 DEF Visit
    <3>4. purge'.pc \in {"remove", "row"}
      BY <1>0, <3>3 DEF BuildTypes, Purging
    <3> QED  BY <3>1, <3>2, <3>4 DEF PurgeAt
  <2>3. CASE RemoveDir
    <3>1. UNCHANGED <<plinks, promos, files, temps, call, kills, crossed, born, mixed, raced, hashdirs>>
      BY <2>3 DEF RemoveDir, promotionVars, aggVars, restVars, histVars
    <3>2. PurgeAt("remove") /\ purge'.pc = "row"
      BY <1>0, <2>3 DEF RemoveDir, BuildTypes, Purging
    <3> QED  BY <3>1, <3>2 DEF PurgeAt
  <2>4. CASE StoreFlags
    <3>1. UNCHANGED <<plinks, promos, files, temps, call, kills, crossed, born, mixed, raced, hashdirs>>
      BY <2>4 DEF StoreFlags, promotionVars, aggVars, restVars, histVars
    <3>2. PurgeAt("row") /\ purge'.pc \in {"idle", "names"}
      <4> DEFINE names == {promos[k].name : k \in DOMAIN promos}
      <4>1. PurgeAt("row") /\ (purge' = NoPurge \/ purge' = [purge EXCEPT !.pc = "names", !.names = names])
        BY <2>4 DEF StoreFlags, AfterRows
      <4> HIDE DEF names
      <4>2. CASE purge' = NoPurge
        BY <4>1, <4>2 DEF NoPurge
      <4>3. CASE purge' = [purge EXCEPT !.pc = "names", !.names = names]
        BY <1>0, <4>1, <4>3 DEF BuildTypes, Purging
      <4> QED  BY <4>1, <4>2, <4>3
    <3> QED  BY <3>1, <3>2 DEF PurgeAt
  <2>5. CASE ReadProtected
    BY <2>5 DEF ReadProtected, promotionVars, aggVars, restVars, histVars, PurgeAt
  <2>6. CASE RemoveHashes
    BY <2>6 DEF RemoveHashes, restVars, histVars, PurgeAt
  <2>7. CASE EndPurge
    BY <2>7 DEF EndPurge, promotionVars, aggVars, restVars, histVars, NoPurge, PurgeAt
  <2>8. CASE KillPurge
    BY <2>8 DEF KillPurge, promotionVars, aggVars, restVars, histVars, NoPurge
  <2> QED  BY <2>1, <2>2, <2>3, <2>4, <2>5, <2>6, <2>7, <2>8 DEF PurgeStep
<1>3. InProgress' = InProgress
  BY <1>2 DEF InProgress, CallAt
<1>4. /\ InProgress \subseteq mixed' /\ mixed' \subseteq Client /\ raced' \in BOOLEAN
      /\ ~raced' => ~raced /\ InProgress = {}
  <2>1. CASE StartPurge
    BY <1>0, <2>1 DEF StartPurge, HistTypes, InProgress
  <2>2. CASE UNCHANGED <<mixed, raced>> /\ ~PurgeAt("idle")
    BY <1>0, <2>2 DEF HistTypes, PromoInv, PromosOK, KeptOK
  <2> QED  BY <1>2, <2>1, <2>2
<1>5. \A p \in Client : ~raced' => ~AtFiles(p)
  BY <1>4 DEF InProgress, CallAt, AtFiles
<1>6. PromosOK'
  BY <1>3, <1>4 DEF PromosOK
<1>7. KeptOK'
  <2>1. ~raced' /\ PurgeAt("hash")' => purge'.protected = files'[purge'.name][1]
    <3>1. CASE StartPurge
      BY <1>0, <3>1 DEF StartPurge, PurgeAt, NoPurge
    <3>2. CASE RemoveHashes
      BY <1>0, <3>2 DEF RemoveHashes, PurgeAt, BuildTypes, Purging
    <3>3. CASE ReadProtected
      <4>1. PICK n \in purge.names :
           purge' = [purge EXCEPT !.pc = "hash", !.names = @ \ {n}, !.name = n, !.protected = files[n][1]]
        BY <3>3 DEF ReadProtected
      <4>2. purge'.name = n /\ purge'.protected = files[n][1]
        BY <1>0, <4>1 DEF BuildTypes, Purging
      <4> QED  BY <1>2, <4>2
    <3>4. CASE purge'.pc # "hash"
      BY <3>4 DEF PurgeAt
    <3> QED  BY <1>2, <3>1, <3>2, <3>3, <3>4
  <2>2. \A p \in Client : ~raced' => ~AtFiles(p)'
    BY <1>2, <1>5 DEF AtFiles
  <2> QED  BY <1>3, <1>4, <2>1, <2>2 DEF KeptOK
<1>8. AggregatesKept'
  <2>1. CASE UNCHANGED hashdirs
    BY <1>0, <1>2, <1>4, <2>1 DEF PromoInv, AggregatesKept
  <2>2. CASE RemoveHashes
    <3> SUFFICES ASSUME ~raced', NEW n \in Name, NEW f \in DOMAIN AggFile, files[n][f] # None,
                        f = 1 \/ ~crossed
                 PROVE  files[n][f] \in hashdirs'[n]
      BY <1>2 DEF AggregatesKept
    <3>1. files[n][f] \in hashdirs[n]
      BY <1>0, <1>4 DEF PromoInv, AggregatesKept
    <3>2. hashdirs' = [hashdirs EXCEPT ![purge.name] = @ \ OldHashes(purge.name)]
      BY <2>2 DEF RemoveHashes
    <3>3. CASE n # purge.name
      BY <1>0, <3>1, <3>2, <3>3 DEF PromoTypes
    <3>4. CASE n = purge.name
      <4>1. purge.protected = files[n][1]
        BY <1>0, <1>4, <2>2, <3>4 DEF PromoInv, KeptOK, RemoveHashes
      <4>2. files[n][f] = files[n][1]
        BY <1>0, <1>4, <1>5 DEF PromoInv, SettledOK, Settled
      <4>3. files[n][f] \notin OldHashes(n)
        BY <4>1, <4>2 DEF OldHashes
      <4> QED  BY <1>0, <3>1, <3>2, <3>4, <4>3 DEF PromoTypes
    <3> QED  BY <3>3, <3>4
  <2> QED  BY <1>2, <2>1, <2>2
<1>9. PromoTypes' /\ HistTypes'
  <2>1. hashdirs' \in [Name -> SUBSET Content]
    <3>1. CASE UNCHANGED hashdirs
      BY <1>0, <3>1 DEF PromoTypes
    <3>2. CASE RemoveHashes
      BY <1>0, <3>2 DEF RemoveHashes, PromoTypes
    <3> QED  BY <1>2, <3>1, <3>2
  <2> QED  BY <1>0, <1>2, <1>4, <2>1 DEF PromoTypes, HistTypes
<1>10. PromoInv'
  BY <1>0, <1>2, <1>6, <1>7, <1>8, BesidePromotions
<1> QED  BY <1>1, <1>9, <1>10, TypePartsAfter

(* A request others interfere with goes on as before.                      *)
LEMMA JoinedType ==
  ASSUME NEW c \in Call
  PROVE  /\ Joined(c) \in Call
         /\ Joined(c).pc = c.pc /\ Joined(c).batch = c.batch /\ Joined(c).items = c.items
         /\ Joined(c).i = c.i /\ Joined(c).id = c.id /\ Joined(c).rows = c.rows
         /\ Joined(c).undo = c.undo /\ Joined(c).content = c.content
         /\ Joined(c).file = c.file /\ Joined(c).alone = FALSE /\ Joined(c).missed = {}
<1>1. NoLinks \in [Link -> Rev \cup {None}]
  BY DEF NoLinks
<1> HIDE DEF NoLinks
<1> QED  BY <1>1 DEF Joined, Call

\* A request in progress, but for what says that it is not alone.
SameRequest(p) ==
    /\ call'[p].pc = call[p].pc /\ call'[p].batch = call[p].batch
    /\ call'[p].items = call[p].items /\ call'[p].i = call[p].i
    /\ call'[p].rows = call[p].rows /\ call'[p].content = call[p].content
    /\ call'[p].file = call[p].file

LEMMA PromoteKeeps ==
  ASSUME TypeOK, PurgeInv, NEW p \in Client, Promote(p)
  PROVE  TypeOK' /\ BuildInv' /\ PromoInv'
<1>0. TableTypes /\ BuildTypes /\ PromoTypes /\ HistTypes /\ BuildInv /\ PromoInv
  BY TypeParts DEF PurgeInv
<1>1. PICK i \in DOMAIN db, n \in Name : StartPromotion(p, <<[rev |-> db[i].rev, name |-> n]>>, FALSE)
  BY DEF Promote
<1>2. PICK items : items = <<[rev |-> db[i].rev, name |-> n]>>
  OBVIOUS
<1>3. items \in Seq(Item) /\ Len(items) = 1
  <2>1. [rev |-> db[i].rev, name |-> n] \in Item
    BY <1>0, Rows DEF Item
  <2> QED  BY <1>2, <2>1
<1>4. PICK opened : opened = [NoCall EXCEPT !.pc = "check", !.batch = FALSE, !.items = items,
                                            !.before = plinks]
  OBVIOUS
<1>5. PICK c : c = IF InProgress = {} THEN opened ELSE Joined(opened)
  OBVIOUS
<1>6. c \in Call /\ c.pc = "check" /\ SingleOK(c)
  <2>1. opened = [pc |-> "check", batch |-> FALSE, items |-> items, i |-> 1, id |-> 0,
                  undo |-> <<>>, rows |-> <<>>, content |-> None, file |-> 1,
                  alone |-> TRUE, before |-> plinks, missed |-> {}]
    BY <1>4 DEF NoCall
  <2>2. opened \in Call /\ opened.pc = "check"
    BY <1>0, <1>3, <2>1 DEF Call, CallPC, PromoTypes
  <2>3. 1 \in DOMAIN AggFile
    BY PromotionsAssumption
  <2>4. /\ c \in Call /\ c.pc = "check" /\ c.batch = FALSE /\ c.items = items /\ c.i = 1
        /\ c.rows = <<>> /\ c.content = None /\ c.file = 1
    BY <1>5, <2>1, <2>2, JoinedType
  <2> QED  BY <1>3, <2>3, <2>4 DEF SingleOK
<1>7. /\ CallAt(p, "idle")
      /\ call' = [q \in Client |-> IF q = p THEN c
                     ELSE IF q \in InProgress THEN Joined(call[q]) ELSE call[q]]
      /\ UNCHANGED <<tableVars, plinks, promos, aggVars, kills>>
  BY <1>1, <1>2, <1>4, <1>5 DEF StartPromotion
<1>8. /\ mixed' = IF PurgeAt("idle") THEN mixed \ {p} ELSE mixed \cup {p}
      /\ raced' = (raced \/ ~PurgeAt("idle"))
      /\ crossed' = (crossed \/ InProgress # {})
      /\ UNCHANGED <<buildVars, purge, lost, day, born, again, builds, imports, rechecks>>
  BY DEF Promote, purgeVars, countVars
<1>9. \A q \in Client : q # p => SameRequest(q) /\ call'[q] \in Call
  <2> SUFFICES ASSUME NEW q \in Client, q # p
               PROVE  SameRequest(q) /\ call'[q] \in Call
    OBVIOUS
  <2>1. call[q] \in Call
    BY <1>0 DEF PromoTypes
  <2>2. call'[q] = call[q] \/ call'[q] = Joined(call[q])
    BY <1>7
  <2> QED  BY <2>1, <2>2, JoinedType DEF SameRequest
<1>10. call'[p] = c
  BY <1>7
<1>11. TableTypes' /\ BuildInv'
  BY <1>0, <1>7, <1>8, UnchangedKeeps
<1>12. BuildTypes'
  BY <1>0, <1>7, <1>8 DEF BuildTypes, buildVars, tableVars
<1>13. PromoTypes' /\ HistTypes'
  <2>1. call' \in [Client -> Call]
    BY <1>6, <1>7, <1>9, <1>10
  <2> QED  BY <1>0, <1>7, <1>8, <2>1 DEF PromoTypes, HistTypes, aggVars
<1>14. /\ UNCHANGED <<hashdirs, files, temps, kills, db, dirs, purge, lost>>
       /\ InProgress' = InProgress \cup {p} /\ p \notin InProgress
  <2>1. UNCHANGED <<hashdirs, files, temps, kills, db, dirs, purge, lost>>
    BY <1>7, <1>8 DEF aggVars, tableVars
  <2> QED  BY <1>6, <1>7, <1>9, <1>10, <2>1 DEF InProgress, CallAt, SameRequest
<1>15. \A q \in Client : /\ AtFiles(q)' <=> AtFiles(q)
                         /\ CallAt(q, "rename")' <=> CallAt(q, "rename")
                         /\ q # p => NameOf(q)' = NameOf(q) /\ ItemOf(q)' = ItemOf(q)
                         /\ AtFiles(q) => q # p /\ call'[q].content = call[q].content
                                          /\ call'[q].file = call[q].file
  BY <1>6, <1>7, <1>9, <1>10 DEF AtFiles, CallAt, NameOf, ItemOf, SameRequest
<1>16. SinglesOK'
  BY <1>0, <1>6, <1>9, <1>10, <1>14 DEF PromoInv, SinglesOK, SingleOK, SameRequest
<1>17. PromosOK'
  <2> SUFFICES ASSUME NEW q \in InProgress', q \notin mixed'
               PROVE  /\ PurgeAt("idle")'
                      /\ lost' = 0 /\ call'[q].pc \in {"look", "unlink", "link"} /\ AtOnce(ItemOf(q).rev)' =>
                            ItemOf(q)'.rev \in dirs'
    BY DEF PromosOK
  <2>1. CASE q = p
    BY <1>6, <1>8, <1>10, <2>1 DEF PurgeAt
  <2>2. CASE q # p
    <3>1. q \in InProgress /\ q \notin mixed
      BY <1>8, <1>14, <2>2
    <3>2. AtOnce(ItemOf(q).rev)' <=> AtOnce(ItemOf(q).rev)
      BY <1>14, <1>15, <2>2, <3>1 DEF AtOnce, InProgress
    <3>3. call'[q].pc = call[q].pc /\ ItemOf(q)' = ItemOf(q)
      BY <1>9, <1>15, <2>2, <3>1 DEF SameRequest, InProgress
    <3> QED  BY <1>0, <1>14, <3>1, <3>2, <3>3 DEF PromoInv, PromosOK, PurgeAt
  <2> QED  BY <2>1, <2>2
<1>18. TempsOK'
  <2>1. \A q \in Client : CallAt(q, "rename") => AtFiles(q)
    BY DEF CallAt, AtFiles
  <2> QED  BY <1>0, <1>14, <1>15, <2>1 DEF PromoInv, TempsOK, AggTempInUse
<1>19. SettledOK'
  <2>1. ~crossed' => ~crossed /\ InProgress = {}
    BY <1>0, <1>8 DEF HistTypes
  <2>2. ~crossed' => \A q \in Client : ~AtFiles(q) /\ ~AtFiles(q)'
    BY <1>15, <2>1 DEF InProgress, AtFiles, CallAt
  <2>3. ~crossed' => \A m \in Name : Settled(m)'
    BY <1>0, <1>14, <2>1, <2>2 DEF PromoInv, SettledOK, Settled
  <2> QED  BY <1>14, <2>1, <2>2, <2>3 DEF SettledOK
<1>20. KeptOK'
  <2>1. ~raced' => ~raced /\ PurgeAt("idle")
    BY <1>0, <1>8 DEF HistTypes
  <2>2. \A q \in Client : ~raced' /\ AtFiles(q)' => call'[q].content \in hashdirs'[NameOf(q)']
    BY <1>0, <1>14, <1>15, <2>1 DEF PromoInv, KeptOK
  <2> QED  BY <1>14, <2>1, <2>2 DEF KeptOK, PurgeAt
<1>21. AggregatesKept'
  BY <1>0, <1>8, <1>14 DEF PromoInv, AggregatesKept, HistTypes
<1>22. PromoInv'
  BY <1>16, <1>17, <1>18, <1>19, <1>20, <1>21 DEF PromoInv
<1> QED  BY <1>11, <1>12, <1>13, <1>22, TypePartsAfter

(* Handling a request before its files, or after them.                     *)
LEMMA QuietCall ==
  ASSUME TypeOK, PurgeInv, NEW p \in Client, NEW c \in Call,
         call' = [call EXCEPT ![p] = c],
         p \in InProgress, ~AtFiles(p), c.pc \notin {"symlink", "rename"}, SingleOK(c),
         UNCHANGED <<db, dirs, purge, lost, mixed, raced, crossed, hashdirs, files, temps, kills>>,
         c.pc \in {"look", "unlink", "link"} =>
            /\ c.items = call[p].items /\ c.i = call[p].i
            /\ \/ call[p].pc \in {"look", "unlink", "link"}
               \/ p \notin mixed /\ lost = 0 /\ AtOnce(ItemOf(p).rev) => ItemOf(p).rev \in dirs
  PROVE  PromoInv'
<1> USE DEF PromoInv
<1>0. PromoInv /\ PromoTypes
  BY TypeParts DEF PurgeInv
<1>1. call'[p] = c /\ \A q \in Client : q # p => call'[q] = call[q]
  BY <1>0 DEF PromoTypes
<1>2. InProgress' \subseteq InProgress
  BY <1>1 DEF InProgress, CallAt
<1>3. \A q \in Client : /\ AtFiles(q)' <=> AtFiles(q)
                        /\ CallAt(q, "rename")' <=> CallAt(q, "rename")
                        /\ q # p => NameOf(q)' = NameOf(q) /\ ItemOf(q)' = ItemOf(q)
                        /\ AtFiles(q) => q # p
  BY <1>1 DEF AtFiles, CallAt, NameOf, ItemOf
<1>4. SinglesOK'
  BY <1>0, <1>1 DEF SinglesOK
<1>6. PromosOK'
  <2> SUFFICES ASSUME NEW q \in InProgress', q \notin mixed
               PROVE  /\ PurgeAt("idle")
                      /\ lost = 0 /\ call'[q].pc \in {"look", "unlink", "link"} /\ AtOnce(ItemOf(q).rev)' =>
                            ItemOf(q)'.rev \in dirs
    BY DEF PromosOK, PurgeAt
  <2>1. PurgeAt("idle")
    BY <1>0, <1>2 DEF PromosOK
  <2>2. ASSUME lost = 0, call'[q].pc \in {"look", "unlink", "link"}, AtOnce(ItemOf(q).rev)'
        PROVE  ItemOf(q)'.rev \in dirs
    <3>1. ItemOf(q)' = ItemOf(q)
      BY <1>1, <1>3, <2>2 DEF ItemOf, InProgress
    <3>2. AtOnce(ItemOf(q).rev)
      BY <2>2, <3>1 DEF AtOnce
    <3>3. CASE q = p
      BY <1>0, <1>1, <2>2, <3>1, <3>2, <3>3 DEF PromosOK
    <3>4. CASE q # p
      BY <1>0, <1>1, <1>2, <2>2, <3>1, <3>2, <3>4 DEF PromosOK, InProgress
    <3> QED  BY <3>3, <3>4
  <2> QED  BY <2>1, <2>2
<1>7. TempsOK'
  <2>1. \A q \in Client : CallAt(q, "rename") => AtFiles(q)
    BY DEF CallAt, AtFiles
  <2> QED  BY <1>0, <1>1, <1>3, <2>1 DEF TempsOK, AggTempInUse
<1>8. SettledOK'
  BY <1>0, <1>1, <1>2, <1>3 DEF SettledOK, Settled
<1>9. KeptOK'
  BY <1>0, <1>1, <1>2, <1>3 DEF KeptOK, PurgeAt
<1>10. AggregatesKept'
  BY <1>0 DEF AggregatesKept
<1> QED  BY <1>4, <1>6, <1>7, <1>8, <1>9, <1>10

LEMMA CallType ==
  ASSUME PromoTypes, SinglesOK, NEW p \in Client
  PROVE  /\ call[p] \in [pc : CallPC, batch : BOOLEAN, items : Seq(Item), i : Nat, id : Nat,
                         undo : Seq(Undo), rows : Seq(Promotion), content : Content \cup {None},
                         file : Nat, before : [Link -> Rev \cup {None}], missed : SUBSET Link,
                         alone : BOOLEAN]
         /\ NoCall \in Call /\ NoCall.pc = "idle" /\ SingleOK(NoCall)
         /\ p \in InProgress =>
               /\ ~call[p].batch /\ ~CallAt(p, "rollback")
               /\ Len(call[p].items) = 1 /\ call[p].i = 1
               /\ ItemOf(p) \in Item /\ NameOf(p) \in Name /\ LinkOf(ItemOf(p)) \in Link
               /\ ItemOf(p).rev \in Rev
<1>1. call[p] \in Call
  BY DEF PromoTypes
<1>2. NoLinks \in [Link -> Rev \cup {None}]
  BY DEF NoLinks
<1>3. NoCall \in Call /\ NoCall.pc = "idle" /\ SingleOK(NoCall)
  BY <1>2 DEF NoCall, Call, CallPC, SingleOK
<1>4. ASSUME p \in InProgress
      PROVE  /\ ~call[p].batch /\ ~CallAt(p, "rollback")
             /\ Len(call[p].items) = 1 /\ call[p].i = 1
             /\ ItemOf(p) \in Item /\ NameOf(p) \in Name /\ LinkOf(ItemOf(p)) \in Link
             /\ ItemOf(p).rev \in Rev
  <2>1. /\ ~call[p].batch /\ ~CallAt(p, "rollback")
        /\ Len(call[p].items) = 1 /\ call[p].i = 1
    BY <1>4 DEF SinglesOK, SingleOK, InProgress, CallAt
  <2>2. ItemOf(p) \in Item /\ NameOf(p) = ItemOf(p).name
    BY <1>1, <2>1 DEF ItemOf, NameOf, Call
  <2>3. ItemOf(p).rev \in Rev /\ ItemOf(p).rev.pkg \in Package /\ ItemOf(p).name \in Name
    BY <2>2 DEF Item, Rev
  <2>4. LinkOf(ItemOf(p)) \in Link
    BY <2>3, PromotionsAssumption DEF LinkOf, Link
  <2> QED  BY <2>1, <2>2, <2>3, <2>4
<1> QED  BY <1>1, <1>3, <1>4 DEF Call

(* What is promoted has been found, unflagged, in the table.               *)
LEMMA CheckedIsThere ==
  ASSUME TypeOK, PurgeInv, NEW p \in InProgress, p \notin mixed, lost = 0,
         NEW r \in Rev, AtOnce(r), FindCommit(r) # {}, FindCommit(r) \cap purged = {}
  PROVE  r \in dirs
<1>0. BuildInv /\ PromoInv
  BY DEF PurgeInv
<1>1. PICK i \in FindCommit(r) : i \notin purged
  OBVIOUS
<1>2. i \in DOMAIN db /\ Success(i) /\ db[i].rev = r
  BY DEF FindCommit, Latest, Live, Success
<1>3. purge = NoPurge
  BY <1>0 DEF PromoInv, PromosOK, BuildInv, PurgeOK
<1>4. ~Flagged(i)
  BY <1>1, <1>3 DEF Flagged, NoPurge
<1> QED  BY <1>0, <1>2, <1>4 DEF BuildInv, GoneIsFlagged

\* What a promotion leaves alone.
PromotionFrame ==
    UNCHANGED <<db, purged, dirs, purge, lost, mixed, raced, crossed>>

LEMMA EndKeeps ==
  ASSUME TypeOK, PurgeInv, PromotionFrame, NEW p \in InProgress, EndCall(p), ~AtFiles(p),
         UNCHANGED <<hashdirs, files, temps, kills>>
  PROVE  call' \in [Client -> Call] /\ PromoInv'
<1>1. PromoTypes /\ SinglesOK /\ p \in Client
  BY TypeParts DEF PurgeInv, PromoInv, InProgress
<1>2. NoCall \in Call /\ NoCall.pc = "idle" /\ SingleOK(NoCall)
  BY <1>1, CallType
<1>3. call' = [call EXCEPT ![p] = NoCall]
  BY DEF EndCall
<1>4. call' \in [Client -> Call]
  BY <1>1, <1>2, <1>3 DEF PromoTypes
<1>5. PromoInv'
  BY <1>1, <1>2, <1>3, QuietCall DEF PromotionFrame
<1> QED  BY <1>4, <1>5

LEMMA CheckKeeps ==
  ASSUME TypeOK, PurgeInv, PromotionFrame, NEW p \in Client, Check(p)
  PROVE  PromoTypes' /\ PromoInv'
<1>1. PromoTypes /\ SinglesOK /\ p \in InProgress /\ ~AtFiles(p)
  BY TypeParts DEF PurgeInv, PromoInv, InProgress, Check, CallAt, AtFiles
<1>2. UNCHANGED <<plinks, promos, hashdirs, files, temps, kills>>
  BY DEF Check, aggVars
<1>3. CASE EndCall(p)
  BY <1>1, <1>2, <1>3, EndKeeps DEF PromoTypes
<1>4. CASE ~EndCall(p)
  <2>1. PICK i \in FindCommit(ItemOf(p).rev) :
           Acceptable(call[p].items) /\ call' = [call EXCEPT ![p].pc = "look", ![p].id = i]
    BY <1>4 DEF Check
  <2> DEFINE c == [call[p] EXCEPT !.pc = "look", !.id = i]
  <2>2. i \in Nat
    BY TypeParts, Rows DEF FindCommit, Latest, Live
  <2>3. call' = [call EXCEPT ![p] = c]
    BY <1>1, <2>1 DEF PromoTypes
  <2>4. /\ c \in Call /\ c.pc = "look" /\ c.items = call[p].items /\ c.i = call[p].i
        /\ c.batch = call[p].batch /\ c.file = call[p].file
    BY <1>1, <2>2, CallType DEF Call, CallPC
  <2> HIDE DEF c
  <2>5. SingleOK(c)
    BY <1>1, <2>4 DEF SinglesOK, SingleOK, Check, CallAt
  <2>6. p \notin mixed /\ lost = 0 /\ AtOnce(ItemOf(p).rev) => ItemOf(p).rev \in dirs
    <3> SUFFICES ASSUME p \notin mixed, lost = 0, AtOnce(ItemOf(p).rev)
                 PROVE  ItemOf(p).rev \in dirs
      OBVIOUS
    <3>1. PICK r \in Rev : r = ItemOf(p).rev
      BY <1>1, CallType
    <3>2. FindCommit(r) # {} /\ FindCommit(r) \cap purged = {}
      <4>1. 1 \in DOMAIN call[p].items /\ r = call[p].items[1].rev
        BY <1>1, <3>1, CallType DEF ItemOf
      <4> QED  BY <2>1, <4>1 DEF Acceptable
    <3> QED  BY <1>1, <3>1, <3>2, CheckedIsThere
  <2>7. PromoInv'
    BY <1>1, <1>2, <2>3, <2>4, <2>5, <2>6, QuietCall DEF PromotionFrame
  <2>8. PromoTypes'
    BY <1>1, <1>2, <2>3, <2>4 DEF PromoTypes
  <2> QED  BY <2>7, <2>8
<1> QED  BY <1>3, <1>4

LEMMA LookKeeps ==
  ASSUME TypeOK, PurgeInv, PromotionFrame, NEW p \in Client, Look(p)
  PROVE  PromoTypes' /\ PromoInv'
<1>1. PromoTypes /\ SinglesOK /\ p \in InProgress /\ ~AtFiles(p)
  BY TypeParts DEF PurgeInv, PromoInv, InProgress, Look, CallAt, AtFiles
<1>2. UNCHANGED <<plinks, promos, hashdirs, files, temps, kills>>
  BY DEF Look, aggVars
<1>3. PICK next \in {"link", "unlink"} : call' = [call EXCEPT ![p].pc = next]
  BY <1>1, CallType DEF Look
<1> DEFINE c == [call[p] EXCEPT !.pc = next]
<1>4. call' = [call EXCEPT ![p] = c]
  BY <1>1, <1>3 DEF PromoTypes
<1>5. /\ c \in Call /\ c.pc = next /\ c.items = call[p].items /\ c.i = call[p].i
      /\ c.batch = call[p].batch /\ c.file = call[p].file
  BY <1>1, CallType DEF Call, CallPC
<1> HIDE DEF c
<1>6. call[p].pc = "look"
  BY DEF Look, CallAt
<1>7. SingleOK(c)
  BY <1>1, <1>5, <1>6 DEF SinglesOK, SingleOK
<1>8. PromoInv'
  BY <1>1, <1>2, <1>4, <1>5, <1>6, <1>7, QuietCall DEF PromotionFrame
<1>9. PromoTypes'
  BY <1>1, <1>2, <1>4, <1>5 DEF PromoTypes
<1> QED  BY <1>8, <1>9

LEMMA UnlinkKeeps ==
  ASSUME TypeOK, PurgeInv, PromotionFrame, NEW p \in Client, Unlink(p)
  PROVE  PromoTypes' /\ PromoInv'
<1>1. PromoTypes /\ SinglesOK /\ p \in InProgress /\ ~AtFiles(p)
  BY TypeParts DEF PurgeInv, PromoInv, InProgress, Unlink, CallAt, AtFiles
<1>2. UNCHANGED <<promos, hashdirs, files, temps, kills>>
  BY DEF Unlink, aggVars
<1>3. CASE EndCall(p) /\ UNCHANGED plinks
  BY <1>1, <1>2, <1>3, EndKeeps DEF PromoTypes
<1>4. CASE /\ plinks' = [plinks EXCEPT ![LinkOf(ItemOf(p))] = None]
           /\ call' = [call EXCEPT ![p].pc = "link"]
  <2> DEFINE c == [call[p] EXCEPT !.pc = "link"]
  <2>1. call' = [call EXCEPT ![p] = c]
    BY <1>1, <1>4 DEF PromoTypes
  <2>2. /\ c \in Call /\ c.pc = "link" /\ c.items = call[p].items /\ c.i = call[p].i
        /\ c.batch = call[p].batch /\ c.file = call[p].file
    BY <1>1, CallType DEF Call, CallPC
  <2> HIDE DEF c
  <2>3. call[p].pc = "unlink"
    BY DEF Unlink, CallAt
  <2>4. SingleOK(c)
    BY <1>1, <2>2, <2>3 DEF SinglesOK, SingleOK
  <2>5. PromoInv'
    BY <1>1, <1>2, <2>1, <2>2, <2>3, <2>4, QuietCall DEF PromotionFrame
  <2>6. plinks' \in [Link -> Rev \cup {None}]
    BY <1>1, <1>4 DEF PromoTypes
  <2>7. PromoTypes'
    BY <1>1, <1>2, <2>1, <2>2, <2>6 DEF PromoTypes
  <2> QED  BY <2>5, <2>7
<1> QED  BY <1>3, <1>4 DEF Unlink

LEMMA MakeLinkKeeps ==
  ASSUME TypeOK, PurgeInv, PromotionFrame, NEW p \in Client, MakeLink(p)
  PROVE  PromoTypes' /\ PromoInv'
<1>1. PromoTypes /\ SinglesOK /\ p \in InProgress /\ ~AtFiles(p)
  BY TypeParts DEF PurgeInv, PromoInv, InProgress, MakeLink, CallAt, AtFiles
<1>2. UNCHANGED <<promos, hashdirs, files, temps, kills>>
  BY DEF MakeLink, aggVars
<1>3. /\ call[p].i = 1 /\ Len(call[p].items) = 1 /\ ~(call[p].i < Len(call[p].items))
      /\ LinkOf(ItemOf(p)) \in Link /\ ItemOf(p).rev \in Rev
      /\ call[p].rows \in Seq(Promotion) /\ call[p].id \in Nat
  <2>1. call[p].i = 1 /\ Len(call[p].items) = 1
    BY <1>1, CallType
  <2>2. LinkOf(ItemOf(p)) \in Link /\ ItemOf(p).rev \in Rev
    BY <1>1, CallType
  <2>3. call[p].rows \in Seq(Promotion) /\ call[p].id \in Nat
    BY <1>1, CallType
  <2>4. ~(call[p].i < Len(call[p].items))
    BY <2>1
  <2> QED  BY <2>1, <2>2, <2>3, <2>4
<1> DEFINE row == [id |-> call[p].id, name |-> LinkOf(ItemOf(p)).name, agg |-> None]
           rows == Append(call[p].rows, row)
           next == IF UseComponents THEN "aggregate" ELSE "insert"
           c == [call[p] EXCEPT !.pc = next, !.i = call[p].i, !.rows = rows]
<1>4. rows \in Seq(Promotion) /\ rows # <<>>
  <2>1. row \in Promotion
    BY <1>3 DEF Promotion, Link
  <2> QED  BY <1>3, <2>1
<1>5. /\ plinks' = [plinks EXCEPT ![LinkOf(ItemOf(p))] = ItemOf(p).rev]
      /\ call' = [call EXCEPT ![p] = c]
  BY <1>1, <1>3 DEF MakeLink
<1> HIDE DEF rows, row
<1>6. next \in {"aggregate", "insert"}
  OBVIOUS
<1> HIDE DEF next
<1>7. /\ c \in Call /\ c.pc = next /\ c.items = call[p].items /\ c.i = call[p].i
      /\ c.batch = call[p].batch /\ c.file = call[p].file /\ c.rows = rows
  BY <1>1, <1>4, <1>6, CallType DEF Call, CallPC
<1> HIDE DEF c
<1>8. call[p].pc = "link"
  BY DEF MakeLink, CallAt
<1>9. SingleOK(c)
  BY <1>1, <1>4, <1>6, <1>7, <1>8 DEF SinglesOK, SingleOK
<1>10. PromoInv'
  BY <1>1, <1>2, <1>5, <1>6, <1>7, <1>9, QuietCall DEF PromotionFrame
<1>11. plinks' \in [Link -> Rev \cup {None}]
  BY <1>1, <1>3, <1>5 DEF PromoTypes
<1>12. PromoTypes'
  BY <1>1, <1>2, <1>5, <1>7, <1>11 DEF PromoTypes
<1> QED  BY <1>10, <1>12

LEMMA EndsKeep ==
  ASSUME TypeOK, PurgeInv, PromotionFrame, NEW p \in Client,
         LinkFails(p) \/ RollBack(p) \/ Insert(p, TRUE)
  PROVE  PromoTypes' /\ PromoInv'
<1>0. PromoTypes /\ SinglesOK
  BY TypeParts DEF PurgeInv, PromoInv
<1>1. CASE LinkFails(p)
  <2>1. p \in InProgress /\ ~AtFiles(p)
    BY <1>1 DEF InProgress, LinkFails, CallAt, AtFiles
  <2>2. EndCall(p) /\ UNCHANGED <<plinks, promos, hashdirs, files, temps, kills>>
    BY <1>0, <1>1, <2>1, CallType DEF LinkFails, aggVars
  <2> QED  BY <1>0, <2>1, <2>2, EndKeeps DEF PromoTypes
<1>2. CASE RollBack(p)
  BY <1>0, <1>2 DEF RollBack, CallAt, SinglesOK, SingleOK
<1>3. CASE Insert(p, TRUE)
  <2>1. p \in InProgress /\ ~AtFiles(p)
    BY <1>3 DEF InProgress, Insert, CallAt, AtFiles
  <2>2. EndCall(p) /\ UNCHANGED <<plinks, hashdirs, files, temps, kills>>
    BY <1>3 DEF Insert, aggVars
  <2>3. promos' = promos \/ promos' = promos \o call[p].rows
    BY <1>3 DEF Insert
  <2>4. promos' \in Seq(Promotion)
    <3>1. promos \in Seq(Promotion) /\ call[p].rows \in Seq(Promotion)
      BY <1>0, CallType DEF PromoTypes
    <3>2. promos \o call[p].rows \in Seq(Promotion)
      BY <3>1
    <3> QED  BY <2>3, <3>1, <3>2
  <2> QED  BY <1>0, <2>1, <2>2, <2>4, EndKeeps DEF PromoTypes
<1> QED  BY <1>1, <1>2, <1>3

\* One request works on its files: the others are as they were.
FilesCall(p, c) ==
    /\ call' = [call EXCEPT ![p] = c]
    /\ c.pc # "idle" => c.items = call[p].items /\ c.i = call[p].i

LEMMA FilesCallKeeps ==
  ASSUME TypeOK, PurgeInv, PromotionFrame, NEW p \in InProgress, NEW c \in Call, FilesCall(p, c),
         SingleOK(c), c.pc \notin {"look", "unlink", "link", "rollback"}, UNCHANGED kills
  PROVE  /\ call' \in [Client -> Call] /\ call'[p] = c
         /\ \A q \in Client : q # p => call'[q] = call[q]
         /\ \A q \in Client : q # p \/ c.pc # "idle" => NameOf(q)' = NameOf(q)
         /\ InProgress' \subseteq InProgress
         /\ SinglesOK' /\ PromosOK'
<1>0. PromoTypes /\ PromoInv /\ p \in Client
  BY TypeParts DEF PurgeInv, InProgress
<1>1. /\ call' \in [Client -> Call] /\ call'[p] = c
      /\ \A q \in Client : q # p => call'[q] = call[q]
  BY <1>0 DEF PromoTypes, FilesCall
<1>2. InProgress' \subseteq InProgress
  BY <1>1 DEF InProgress, CallAt
<1>3. \A q \in Client : q # p \/ c.pc # "idle" => NameOf(q)' = NameOf(q) /\ ItemOf(q)' = ItemOf(q)
  BY <1>1 DEF NameOf, ItemOf, FilesCall
<1>4. SinglesOK'
  BY <1>0, <1>1 DEF PromoInv, SinglesOK
<1>5. PromosOK'
  <2> SUFFICES ASSUME NEW q \in InProgress', q \notin mixed
               PROVE  /\ PurgeAt("idle")
                      /\ lost = 0 /\ call'[q].pc \in {"look", "unlink", "link"} /\ AtOnce(ItemOf(q).rev)' =>
                            ItemOf(q)'.rev \in dirs
    BY DEF PromosOK, PurgeAt, PromotionFrame
  <2>1. PurgeAt("idle")
    BY <1>0, <1>2 DEF PromoInv, PromosOK
  <2>2. ASSUME lost = 0, call'[q].pc \in {"look", "unlink", "link"}, AtOnce(ItemOf(q).rev)'
        PROVE  ItemOf(q)'.rev \in dirs
    <3>1. q # p /\ call'[q] = call[q] /\ ItemOf(q)' = ItemOf(q)
      BY <1>1, <1>3, <2>2 DEF InProgress
    <3>2. AtOnce(ItemOf(q).rev)
      BY <2>2, <3>1 DEF AtOnce, PromotionFrame
    <3> QED  BY <1>0, <1>2, <2>2, <3>1, <3>2 DEF PromoInv, PromosOK
  <2> QED  BY <2>1, <2>2
<1> QED  BY <1>1, <1>2, <1>3, <1>4, <1>5

LEMMA AggregateKeeps ==
  ASSUME TypeOK, PurgeInv, PromotionFrame, NEW p \in Client, Aggregate(p)
  PROVE  PromoTypes' /\ PromoInv'
<1>0. PromoTypes /\ PromoInv /\ SinglesOK /\ p \in InProgress /\ ~AtFiles(p) /\ TableTypes
  BY TypeParts DEF PurgeInv, PromoInv, InProgress, Aggregate, CallAt, AtFiles
<1>1. PICK n \in Name : n = NameOf(p)
  BY <1>0, CallType
<1>2. PICK content \in Content : content = Aggregated(n)
  <2>1. Aggregated(n) \in Content
    BY <1>0 DEF Aggregated, Content, TableTypes
  <2> QED  BY <2>1
<1> DEFINE c == [call[p] EXCEPT !.pc = "symlink", !.content = content]
<1>3. /\ call[p].pc = "aggregate" /\ UNCHANGED <<plinks, promos, files, temps, kills>>
      /\ hashdirs' = [hashdirs EXCEPT ![n] = @ \cup {content}]
      /\ call' = [call EXCEPT ![p] = c]
  BY <1>0, <1>1, <1>2 DEF Aggregate, CallAt, PromoTypes
<1>4. /\ c \in Call /\ c.pc = "symlink" /\ c.items = call[p].items /\ c.i = call[p].i
      /\ c.batch = call[p].batch /\ c.file = call[p].file /\ c.rows = call[p].rows
      /\ c.content = content
  BY <1>0, CallType DEF Call, CallPC
<1> HIDE DEF c
<1>5. SingleOK(c) /\ c.file = 1
  BY <1>0, <1>3, <1>4 DEF SinglesOK, SingleOK
<1>6. FilesCall(p, c)
  BY <1>3, <1>4 DEF FilesCall
<1>7. /\ call' \in [Client -> Call] /\ call'[p] = c
      /\ \A q \in Client : q # p => call'[q] = call[q]
      /\ \A q \in Client : NameOf(q)' = NameOf(q)
      /\ InProgress' \subseteq InProgress
      /\ SinglesOK' /\ PromosOK'
  BY <1>0, <1>3, <1>4, <1>5, <1>6, FilesCallKeeps
<1>8. /\ hashdirs' \in [Name -> SUBSET Content] /\ content \in hashdirs'[n]
      /\ \A m \in Name : hashdirs[m] \subseteq hashdirs'[m]
  BY <1>0, <1>3 DEF PromoTypes
<1>9. PromoTypes'
  BY <1>0, <1>3, <1>7, <1>8 DEF PromoTypes
<1>10. TempsOK'
  <2>1. \A q \in Client : CallAt(q, "rename")' <=> CallAt(q, "rename")
    BY <1>3, <1>4, <1>7 DEF CallAt
  <2>2. \A q \in Client : CallAt(q, "rename") => call'[q] = call[q]
    BY <1>3, <1>7 DEF CallAt
  <2> QED  BY <1>0, <1>3, <1>7, <2>1, <2>2 DEF PromoInv, TempsOK, AggTempInUse
<1>11. SettledOK'
  <2> SUFFICES ASSUME ~crossed
               PROVE  /\ \A q, s \in InProgress' : q = s
                      /\ \A m \in Name : Settled(m)'
                      /\ \A q \in Client : AtFiles(q)' =>
                            \A f \in 1..(call'[q].file - 1) : files'[NameOf(q)'][f] = call'[q].content
    BY DEF SettledOK, PromotionFrame
  <2>1. \A q \in Client : ~AtFiles(q)
    BY <1>0 DEF PromoInv, SettledOK, AtFiles, InProgress, CallAt
  <2>2. \A q \in Client : AtFiles(q)' => q = p
    BY <1>7, <2>1 DEF AtFiles
  <2>3. \A m \in Name : Settled(m)'
    BY <1>0, <1>3, <2>1 DEF PromoInv, SettledOK, Settled
  <2>4. 1..(call'[p].file - 1) = {}
    BY <1>5, <1>7
  <2> QED  BY <1>0, <1>7, <2>2, <2>3, <2>4 DEF PromoInv, SettledOK
<1>12. KeptOK'
  <2> SUFFICES ASSUME ~raced
               PROVE  /\ ~PurgeAt("idle") => InProgress' = {}
                      /\ PurgeAt("hash") => purge.protected = files'[purge.name][1]
                      /\ \A q \in Client : AtFiles(q)' => call'[q].content \in hashdirs'[NameOf(q)']
    BY DEF KeptOK, PromotionFrame, PurgeAt
  <2>1. PurgeAt("idle")
    BY <1>0 DEF PromoInv, KeptOK
  <2>2. \A q \in Client : AtFiles(q)' => call'[q].content \in hashdirs'[NameOf(q)]
    <3> SUFFICES ASSUME NEW q \in Client, AtFiles(q)'
                 PROVE  call'[q].content \in hashdirs'[NameOf(q)]
      OBVIOUS
    <3>1. CASE q = p
      BY <1>1, <1>4, <1>7, <1>8, <3>1
    <3>2. CASE q # p
      <4>1. AtFiles(q) /\ q \in InProgress /\ call'[q] = call[q]
        BY <1>7, <3>2 DEF AtFiles, InProgress, CallAt
      <4> QED  BY <1>0, <1>8, <4>1, CallType DEF PromoInv, KeptOK
    <3> QED  BY <3>1, <3>2
  <2> QED  BY <1>7, <2>1, <2>2 DEF PurgeAt
<1>13. AggregatesKept'
  BY <1>0, <1>3, <1>8 DEF PromoInv, AggregatesKept, PromotionFrame
<1> QED  BY <1>7, <1>9, <1>10, <1>11, <1>12, <1>13 DEF PromoInv

LEMMA AggSymlinkKeeps ==
  ASSUME TypeOK, PurgeInv, PromotionFrame, NEW p \in Client, AggSymlink(p)
  PROVE  PromoTypes' /\ PromoInv'
<1>0. /\ PromoTypes /\ PromoInv /\ SinglesOK /\ p \in InProgress /\ AtFiles(p)
      /\ ~CallAt(p, "rename")
  BY TypeParts DEF PurgeInv, PromoInv, InProgress, AggSymlink, CallAt, AtFiles
<1>1. PICK n \in Name : n = NameOf(p)
  BY <1>0, CallType
<1>2. PICK f \in DOMAIN AggFile : f = call[p].file
  BY <1>0 DEF SinglesOK, SingleOK, AtFiles
<1>3. /\ call[p].pc = "symlink" /\ call[p].content \in Content
      /\ UNCHANGED <<plinks, promos, hashdirs, files, kills>>
  BY <1>0 DEF AggSymlink, CallAt, SinglesOK, SingleOK
<1>4. PICK c \in Call :
         /\ FilesCall(p, c) /\ SingleOK(c)
         /\ \/ c.pc = "idle" /\ temps[n][f] # None /\ UNCHANGED temps
            \/ /\ c.pc = "rename" /\ c.file = f /\ c.content = call[p].content
               /\ temps[n][f] = None /\ temps' = [temps EXCEPT ![n][f] = call[p].content]
  <2>1. CASE temps[n][f] # None
    <3>1. NoCall \in Call /\ NoCall.pc = "idle" /\ SingleOK(NoCall)
      BY <1>0, CallType
    <3>2. EndCall(p) /\ UNCHANGED temps
      BY <1>1, <1>2, <2>1 DEF AggSymlink
    <3> QED  BY <2>1, <3>1, <3>2 DEF FilesCall, EndCall
  <2>2. CASE temps[n][f] = None
    <3> DEFINE c == [call[p] EXCEPT !.pc = "rename"]
    <3>1. call' = [call EXCEPT ![p] = c] /\ temps' = [temps EXCEPT ![n][f] = call[p].content]
      BY <1>0, <1>1, <1>2, <2>2 DEF AggSymlink, PromoTypes
    <3>2. /\ c \in Call /\ c.pc = "rename" /\ c.items = call[p].items /\ c.i = call[p].i
          /\ c.batch = call[p].batch /\ c.file = call[p].file /\ c.rows = call[p].rows
          /\ c.content = call[p].content
      BY <1>0, CallType DEF Call, CallPC
    <3> HIDE DEF c
    <3>3. SingleOK(c)
      BY <1>0, <1>3, <3>2 DEF SinglesOK, SingleOK
    <3> QED  BY <1>2, <2>2, <3>1, <3>2, <3>3 DEF FilesCall
  <2> QED  BY <2>1, <2>2
<1>5. c.pc \in {"idle", "rename"} /\ c.pc \notin {"look", "unlink", "link", "rollback"}
  BY <1>4
<1>6. /\ call' \in [Client -> Call] /\ call'[p] = c
      /\ \A q \in Client : q # p => call'[q] = call[q]
      /\ \A q \in Client : q # p \/ c.pc # "idle" => NameOf(q)' = NameOf(q)
      /\ InProgress' \subseteq InProgress
      /\ SinglesOK' /\ PromosOK'
  <2>1. FilesCall(p, c) /\ SingleOK(c) /\ UNCHANGED kills
    BY <1>3, <1>4
  <2> QED  BY <1>0, <1>5, <2>1, FilesCallKeeps
<1>7. /\ temps' \in [Name -> [DOMAIN AggFile -> Content \cup {None}]]
      /\ \A m \in Name, g \in DOMAIN AggFile : m # n \/ g # f => temps'[m][g] = temps[m][g]
      /\ c.pc = "rename" => temps'[n][f] = call[p].content
      /\ c.pc = "idle" => temps' = temps
  <2>1. CASE UNCHANGED temps /\ c.pc = "idle"
    BY <1>0, <2>1 DEF PromoTypes
  <2>2. CASE temps' = [temps EXCEPT ![n][f] = call[p].content] /\ c.pc = "rename"
    BY <1>0, <1>3, <2>2 DEF PromoTypes
  <2> QED  BY <1>4, <2>1, <2>2
<1>8. PromoTypes'
  BY <1>0, <1>3, <1>6, <1>7 DEF PromoTypes
<1>9. \A q \in Client : AtFiles(q)' =>
         /\ AtFiles(q) /\ NameOf(q)' = NameOf(q)
         /\ call'[q].file = call[q].file /\ call'[q].content = call[q].content
  BY <1>0, <1>2, <1>4, <1>5, <1>6 DEF AtFiles
<1>10. \A q \in Client : q # p => (CallAt(q, "rename")' <=> CallAt(q, "rename"))
  BY <1>6 DEF CallAt
<1>11. TempsOK'
  <2>0. \A q \in Client : CallAt(q, "rename") =>
           /\ NameOf(q) \in Name /\ call[q].file \in DOMAIN AggFile /\ call[q].content \in Content
           /\ temps[NameOf(q)][call[q].file] = call[q].content
           /\ temps[NameOf(q)][call[q].file] # None
    <3> SUFFICES ASSUME NEW q \in Client, CallAt(q, "rename")
                 PROVE  /\ NameOf(q) \in Name /\ call[q].file \in DOMAIN AggFile
                        /\ call[q].content \in Content
                        /\ temps[NameOf(q)][call[q].file] = call[q].content
                        /\ temps[NameOf(q)][call[q].file] # None
      OBVIOUS
    <3>1. q \in InProgress
      BY DEF InProgress, CallAt
    <3>2. NameOf(q) \in Name
      BY <1>0, <3>1, CallType
    <3>3. call[q].file \in DOMAIN AggFile /\ call[q].content \in Content
      BY <1>0 DEF SinglesOK, SingleOK, CallAt
    <3>4. temps[NameOf(q)][call[q].file] = call[q].content
      BY <1>0 DEF PromoInv, TempsOK
    <3> QED  BY <3>2, <3>3, <3>4, NoneApart
  <2>1. CASE c.pc = "idle"
    <3>1. \A q \in Client : CallAt(q, "rename")' <=> CallAt(q, "rename")
      BY <1>0, <1>6, <1>10, <2>1 DEF CallAt
    <3>2. \A q \in Client : CallAt(q, "rename") => call'[q] = call[q] /\ NameOf(q)' = NameOf(q)
      BY <1>0, <1>6
    <3> QED  BY <1>0, <1>3, <1>7, <2>1, <3>1, <3>2 DEF PromoInv, TempsOK, AggTempInUse
  <2>2. CASE c.pc = "rename"
    <3>0. /\ temps[n][f] = None /\ c.file = f /\ c.content = call[p].content
          /\ NameOf(p)' = n /\ CallAt(p, "rename")' /\ temps'[n][f] = c.content
      BY <1>1, <1>4, <1>6, <1>7, <2>2 DEF CallAt
    <3>1. \A q \in Client : q # p /\ CallAt(q, "rename")' =>
             /\ CallAt(q, "rename") /\ call'[q] = call[q] /\ NameOf(q)' = NameOf(q)
             /\ NameOf(q) # n \/ call[q].file # f
      BY <1>6, <1>10, <2>0, <3>0
    <3>2. AggTempInUse'
      <4> SUFFICES ASSUME NEW m \in Name, NEW g \in DOMAIN AggFile, temps'[m][g] # None
                   PROVE  \E q \in Client : /\ CallAt(q, "rename")' /\ NameOf(q)' = m
                                            /\ call'[q].file = g /\ call'[q].content = temps'[m][g]
        BY <1>0, <1>3 DEF AggTempInUse, SinglesOK
      <4>1. CASE m = n /\ g = f
        BY <1>6, <3>0, <4>1
      <4>2. CASE m # n \/ g # f
        <5>1. PICK q \in Client : /\ CallAt(q, "rename") /\ NameOf(q) = m
                                  /\ call[q].file = g /\ call[q].content = temps'[m][g]
          BY <1>0, <1>7, <4>2 DEF PromoInv, TempsOK, AggTempInUse, SinglesOK
        <5> QED  BY <1>0, <1>6, <1>10, <5>1
      <4> QED  BY <4>1, <4>2
    <3>3. ASSUME NEW q \in Client, CallAt(q, "rename")'
          PROVE  temps'[NameOf(q)'][call'[q].file] = call'[q].content
      <4>1. CASE q = p
        BY <1>6, <3>0, <4>1
      <4>2. CASE q # p
        BY <1>7, <2>0, <3>1, <3>3, <4>2
      <4> QED  BY <4>1, <4>2
    <3>4. ASSUME NEW q \in Client, NEW s \in Client, CallAt(q, "rename")', CallAt(s, "rename")',
                 NameOf(q)' = NameOf(s)', call'[q].file = call'[s].file
          PROVE  q = s
      <4>1. CASE q # p /\ s # p
        BY <1>0, <3>1, <3>4, <4>1 DEF PromoInv, TempsOK
      <4>2. CASE q = p /\ s # p
        BY <1>6, <3>0, <3>1, <3>4, <4>2
      <4>3. CASE q # p /\ s = p
        BY <1>6, <3>0, <3>1, <3>4, <4>3
      <4> QED  BY <4>1, <4>2, <4>3
    <3> QED  BY <3>2, <3>3, <3>4 DEF TempsOK
  <2> QED  BY <1>5, <2>1, <2>2
<1>12. SettledOK'
  <2> SUFFICES ASSUME ~crossed
               PROVE  /\ \A q, s \in InProgress' : q = s
                      /\ \A m \in Name : Settled(m) \/ \E q \in Client : AtFiles(q)' /\ NameOf(q)' = m
                      /\ \A q \in Client : AtFiles(q)' =>
                            \A g \in 1..(call'[q].file - 1) : files[NameOf(q)'][g] = call'[q].content
    BY <1>3 DEF SettledOK, PromotionFrame, Settled
  <2>1. \A q, s \in InProgress : q = s
    BY <1>0 DEF PromoInv, SettledOK
  <2>2. c.pc = "rename"
    <3> SUFFICES ASSUME c.pc = "idle"
                 PROVE  FALSE
      BY <1>5
    <3>1. PICK q \in Client : CallAt(q, "rename")
      BY <1>0, <1>4 DEF PromoInv, TempsOK, AggTempInUse, SinglesOK
    <3>2. q \in InProgress /\ q # p
      BY <1>0, <3>1 DEF InProgress, CallAt
    <3> QED  BY <1>0, <2>1, <3>2
  <2>3. AtFiles(p)' /\ NameOf(p)' = NameOf(p)
    BY <1>6, <2>2 DEF AtFiles
  <2>4. \A q \in Client : AtFiles(q) => q = p
    BY <1>0, <2>1 DEF AtFiles, InProgress, CallAt
  <2> QED  BY <1>0, <1>6, <1>9, <2>1, <2>3, <2>4 DEF PromoInv, SettledOK
<1>13. KeptOK'
  <2> SUFFICES ASSUME ~raced
               PROVE  /\ ~PurgeAt("idle") => InProgress' = {}
                      /\ PurgeAt("hash") => purge.protected = files[purge.name][1]
                      /\ \A q \in Client : AtFiles(q)' => call'[q].content \in hashdirs[NameOf(q)']
    BY <1>3 DEF KeptOK, PromotionFrame, PurgeAt
  <2>1. PurgeAt("idle")
    BY <1>0 DEF PromoInv, KeptOK
  <2> QED  BY <1>0, <1>9, <2>1 DEF PromoInv, KeptOK, PurgeAt
<1>14. AggregatesKept'
  BY <1>0, <1>3 DEF PromoInv, AggregatesKept, PromotionFrame
<1> QED  BY <1>6, <1>8, <1>11, <1>12, <1>13, <1>14 DEF PromoInv

LEMMA AggRenameKeeps ==
  ASSUME TypeOK, PurgeInv, PromotionFrame, NEW p \in Client, AggRename(p)
  PROVE  PromoTypes' /\ PromoInv'
<1>0. /\ PromoTypes /\ PromoInv /\ SinglesOK /\ p \in InProgress /\ AtFiles(p)
      /\ CallAt(p, "rename")
  BY TypeParts DEF PurgeInv, PromoInv, InProgress, AggRename, CallAt, AtFiles
<1>1. PICK n \in Name : n = NameOf(p)
  BY <1>0, CallType
<1>2. PICK f \in DOMAIN AggFile : f = call[p].file
  BY <1>0 DEF SinglesOK, SingleOK, AtFiles
<1>3. PICK content \in Content : content = call[p].content
  BY <1>0 DEF SinglesOK, SingleOK, CallAt
<1>4. temps[n][f] = content /\ content # None
  BY <1>0, <1>1, <1>2, <1>3, NoneApart DEF PromoInv, TempsOK
<1>5. /\ files' = [files EXCEPT ![n][f] = temps[n][f]]
      /\ temps' = [temps EXCEPT ![n][f] = None]
      /\ UNCHANGED <<plinks, promos, hashdirs, kills>>
  BY <1>1, <1>2 DEF AggRename
<1>6. /\ files' \in [Name -> [DOMAIN AggFile -> Content \cup {None}]]
      /\ temps' \in [Name -> [DOMAIN AggFile -> Content \cup {None}]]
      /\ files'[n][f] = content /\ temps'[n][f] = None
      /\ \A m \in Name, g \in DOMAIN AggFile : m # n \/ g # f =>
            files'[m][g] = files[m][g] /\ temps'[m][g] = temps[m][g]
  BY <1>0, <1>4, <1>5 DEF PromoTypes
<1> DEFINE old == call[p].rows
           rows == [old EXCEPT ![Len(old)] = [old[Len(old)] EXCEPT !.agg = content]]
<1>7. rows \in Seq(Promotion) /\ rows # <<>>
  <2>1. old \in Seq(Promotion)
    BY <1>0, CallType
  <2>2. old # <<>>
    BY <1>0 DEF SinglesOK, SingleOK, CallAt
  <2> HIDE DEF old
  <2>3. Len(old) \in DOMAIN old /\ old[Len(old)] \in Promotion
    BY <2>1, <2>2
  <2>4. [old[Len(old)] EXCEPT !.agg = content] \in Promotion
    BY <2>3 DEF Promotion
  <2>5. rows \in Seq(Promotion)
    BY <2>1, <2>3, <2>4
  <2>6. Len(rows) = Len(old)
    BY <2>1, <2>3, <2>4
  <2> QED  BY <2>1, <2>2, <2>5, <2>6
<1>8. PICK next \in {"symlink", "insert"}, g \in DOMAIN AggFile :
         /\ next = IF f = Len(AggFile) THEN "insert" ELSE "symlink"
         /\ g = IF f = Len(AggFile) THEN f ELSE f + 1
  <2>1. f \in 1..Len(AggFile) /\ Len(AggFile) \in Nat /\ DOMAIN AggFile = 1..Len(AggFile)
    BY PromotionsAssumption
  <2> QED  BY <2>1
<1> DEFINE c == [call[p] EXCEPT !.pc = next, !.file = g, !.rows = rows]
<1>9. call' = [call EXCEPT ![p] = c]
  BY <1>0, <1>2, <1>3, <1>8 DEF AggRename, PromoTypes
<1> HIDE DEF rows, old
<1>10. /\ c \in Call /\ c.pc = next /\ c.items = call[p].items /\ c.i = call[p].i
       /\ c.batch = call[p].batch /\ c.file = g /\ c.rows = rows /\ c.content = content
  <2>1. g \in Nat
    BY PromotionsAssumption
  <2> QED  BY <1>0, <1>3, <1>7, <2>1, CallType DEF Call, CallPC
<1> HIDE DEF c
<1>11. SingleOK(c)
  BY <1>0, <1>7, <1>10 DEF SinglesOK, SingleOK, InProgress, CallAt
<1>12. /\ call' \in [Client -> Call] /\ call'[p] = c
       /\ \A q \in Client : q # p => call'[q] = call[q]
       /\ \A q \in Client : NameOf(q)' = NameOf(q)
       /\ InProgress' \subseteq InProgress
       /\ SinglesOK' /\ PromosOK'
  <2>1. FilesCall(p, c)
    BY <1>9, <1>10 DEF FilesCall
  <2>2. c.pc \notin {"look", "unlink", "link", "rollback"} /\ c.pc # "idle"
    BY <1>8, <1>10
  <2> QED  BY <1>0, <1>5, <1>10, <1>11, <2>1, <2>2, FilesCallKeeps
<1>13. PromoTypes'
  BY <1>0, <1>5, <1>6, <1>12 DEF PromoTypes
<1>14. \A q \in Client : q # p => /\ CallAt(q, "rename")' <=> CallAt(q, "rename")
                                  /\ AtFiles(q)' <=> AtFiles(q)
  BY <1>12 DEF CallAt, AtFiles
<1>15. TempsOK'
  <2>0. ~CallAt(p, "rename")'
    BY <1>8, <1>10, <1>12 DEF CallAt
  <2>1. \A q \in Client : CallAt(q, "rename")' =>
           /\ q # p /\ CallAt(q, "rename") /\ call'[q] = call[q] /\ NameOf(q)' = NameOf(q)
           /\ NameOf(q) # n \/ call[q].file # f
    BY <1>0, <1>1, <1>2, <1>12, <1>14, <2>0 DEF PromoInv, TempsOK
  <2>2. AggTempInUse'
    <3> SUFFICES ASSUME NEW m \in Name, NEW h \in DOMAIN AggFile, temps'[m][h] # None
                 PROVE  \E q \in Client : /\ CallAt(q, "rename")' /\ NameOf(q)' = m
                                          /\ call'[q].file = h /\ call'[q].content = temps'[m][h]
      BY DEF AggTempInUse
    <3>1. m # n \/ h # f
      BY <1>6
    <3>2. PICK q \in Client : /\ CallAt(q, "rename") /\ NameOf(q) = m
                              /\ call[q].file = h /\ call[q].content = temps'[m][h]
      BY <1>0, <1>6, <3>1 DEF PromoInv, TempsOK, AggTempInUse, SinglesOK
    <3>3. q # p
      BY <1>1, <1>2, <3>1, <3>2
    <3> QED  BY <1>12, <1>14, <3>2, <3>3
  <2>3. ASSUME NEW q \in Client, CallAt(q, "rename")'
        PROVE  temps'[NameOf(q)'][call'[q].file] = call'[q].content
    <3>1. q \in InProgress /\ CallAt(q, "rename")
      BY <2>1, <2>3 DEF InProgress, CallAt
    <3>2. NameOf(q) \in Name
      BY <1>0, <3>1, CallType
    <3>3. call[q].file \in DOMAIN AggFile
      BY <1>0, <3>1 DEF SinglesOK, SingleOK, CallAt
    <3>4. temps[NameOf(q)][call[q].file] = call[q].content
      BY <1>0, <3>1 DEF PromoInv, TempsOK
    <3> QED  BY <1>6, <2>1, <2>3, <3>2, <3>3, <3>4
  <2>4. ASSUME NEW q \in Client, NEW s \in Client, CallAt(q, "rename")', CallAt(s, "rename")',
               NameOf(q)' = NameOf(s)', call'[q].file = call'[s].file
        PROVE  q = s
    BY <1>0, <2>1, <2>4 DEF PromoInv, TempsOK
  <2> QED  BY <2>2, <2>3, <2>4 DEF TempsOK
<1>16. SettledOK'
  <2> SUFFICES ASSUME ~crossed
               PROVE  /\ \A q, s \in InProgress' : q = s
                      /\ \A m \in Name : Settled(m)' \/ \E q \in Client : AtFiles(q)' /\ NameOf(q)' = m
                      /\ \A q \in Client : AtFiles(q)' =>
                            \A h \in 1..(call'[q].file - 1) : files'[NameOf(q)'][h] = call'[q].content
    BY DEF SettledOK, PromotionFrame
  <2>1. \A q, s \in InProgress : q = s
    BY <1>0 DEF PromoInv, SettledOK
  <2>2. \A q \in Client : AtFiles(q) => q = p
    BY <1>0, <2>1 DEF AtFiles, InProgress, CallAt
  <2>3. \A q \in Client : AtFiles(q)' => q = p
    BY <1>14, <2>2
  <2>4. \A h \in 1..f : files'[n][h] = content
    <3> SUFFICES ASSUME NEW h \in 1..f
                 PROVE  files'[n][h] = content
      OBVIOUS
    <3>1. DOMAIN AggFile = 1..Len(AggFile) /\ Len(AggFile) \in Nat /\ f \in 1..Len(AggFile)
      BY PromotionsAssumption
    <3>2. h \in DOMAIN AggFile /\ (h = f \/ h \in 1..(f - 1))
      BY <3>1
    <3>3. h \in 1..(f - 1) => files[n][h] = content
      BY <1>0, <1>1, <1>2, <1>3 DEF PromoInv, SettledOK
    <3> QED  BY <1>6, <3>2, <3>3
  <2>5. \A m \in Name : m # n => Settled(m)'
    <3> SUFFICES ASSUME NEW m \in Name, m # n
                 PROVE  Settled(m)'
      OBVIOUS
    <3>1. Settled(m)
      BY <1>0, <1>1, <2>2 DEF PromoInv, SettledOK
    <3>2. 1 \in DOMAIN AggFile
      <4>1. AggFile \in Seq(STRING) /\ AggFile # <<>>
        BY PromotionsAssumption
      <4> QED  BY <4>1
    <3> QED  BY <1>6, <3>1, <3>2 DEF Settled
  <2>6. Settled(n)' \/ AtFiles(p)'
    <3>1. CASE f = Len(AggFile)
      <4>1. DOMAIN AggFile = 1..f /\ 1 \in 1..f
        BY <3>1, PromotionsAssumption
      <4> QED  BY <2>4, <4>1 DEF Settled
    <3>2. CASE f # Len(AggFile)
      BY <1>8, <1>10, <1>12, <3>2 DEF AtFiles
    <3> QED  BY <3>1, <3>2
  <2>7. AtFiles(p)' => \A h \in 1..(call'[p].file - 1) : files'[NameOf(p)'][h] = call'[p].content
    <3> SUFFICES ASSUME AtFiles(p)'
                 PROVE  \A h \in 1..(g - 1) : files'[n][h] = content
      BY <1>1, <1>10, <1>12
    <3>1. g = f + 1 /\ f \in Nat
      BY <1>8, <1>10, <1>12, PromotionsAssumption DEF AtFiles
    <3>2. 1..(g - 1) = 1..f
      BY <3>1
    <3> QED  BY <2>4, <3>2
  <2> QED  BY <1>1, <1>12, <2>1, <2>3, <2>5, <2>6, <2>7
<1>17. KeptOK'
  <2> SUFFICES ASSUME ~raced
               PROVE  /\ ~PurgeAt("idle") => InProgress' = {}
                      /\ PurgeAt("hash") => purge.protected = files'[purge.name][1]
                      /\ \A q \in Client : AtFiles(q)' => call'[q].content \in hashdirs[NameOf(q)']
    BY <1>5 DEF KeptOK, PromotionFrame, PurgeAt
  <2>1. PurgeAt("idle")
    BY <1>0 DEF PromoInv, KeptOK
  <2>2. ASSUME NEW q \in Client, AtFiles(q)'
        PROVE  call'[q].content \in hashdirs[NameOf(q)']
    <3>1. AtFiles(q)
      BY <1>0, <1>14, <2>2
    <3>2. call'[q].content = call[q].content
      BY <1>3, <1>10, <1>12
    <3> QED  BY <1>0, <1>12, <3>1, <3>2 DEF PromoInv, KeptOK
  <2> QED  BY <2>1, <2>2 DEF PurgeAt
<1>18. AggregatesKept'
  <2> SUFFICES ASSUME ~raced, NEW m \in Name, NEW h \in DOMAIN AggFile, files'[m][h] # None,
                      h = 1 \/ ~crossed
               PROVE  files'[m][h] \in hashdirs[m]
    BY <1>5 DEF AggregatesKept, PromotionFrame
  <2>1. CASE m = n /\ h = f
    BY <1>0, <1>1, <1>3, <1>6, <2>1 DEF PromoInv, KeptOK
  <2>2. CASE m # n \/ h # f
    BY <1>0, <1>6, <2>2 DEF PromoInv, AggregatesKept
  <2> QED  BY <2>1, <2>2
<1> QED  BY <1>12, <1>13, <1>15, <1>16, <1>17, <1>18 DEF PromoInv

LEMMA HandleKeeps ==
  ASSUME TypeOK, PurgeInv, NEW p \in Client, Handle(p)
  PROVE  TypeOK' /\ BuildInv' /\ PromoInv'
<1>0. TableTypes /\ BuildTypes /\ PromoTypes /\ HistTypes /\ BuildInv
  BY TypeParts DEF PurgeInv
<1>1. /\ PromotionStep(p, TRUE)
      /\ UNCHANGED <<tableVars, buildVars, purge, lost, again>>
      /\ PromotionFrame
      /\ UNCHANGED <<links, linked, day, working, mixed, raced, crossed, countVars>>
  <2>1. /\ PromotionStep(p, TRUE)
        /\ UNCHANGED <<buildVars, purgeVars, day, mixed, raced, crossed, again, countVars>>
    BY DEF Handle
  <2>2. UNCHANGED tableVars
    BY <2>1 DEF PromotionStep, Check, Look, Unlink, MakeLink, LinkFails, RollBack, Aggregate,
                AggSymlink, AggRename, Insert
  <2> QED  BY <2>1, <2>2 DEF tableVars, buildVars, purgeVars, PromotionFrame
<1>2. PromoTypes' /\ PromoInv'
  <2>1. CASE Check(p)
    BY <1>1, <2>1, CheckKeeps
  <2>2. CASE Look(p)
    BY <1>1, <2>2, LookKeeps
  <2>3. CASE Unlink(p)
    BY <1>1, <2>3, UnlinkKeeps
  <2>4. CASE MakeLink(p)
    BY <1>1, <2>4, MakeLinkKeeps
  <2>5. CASE LinkFails(p) \/ RollBack(p) \/ Insert(p, TRUE)
    BY <1>1, <2>5, EndsKeep
  <2>6. CASE Aggregate(p)
    BY <1>1, <2>6, AggregateKeeps
  <2>7. CASE AggSymlink(p)
    BY <1>1, <2>7, AggSymlinkKeeps
  <2>8. CASE AggRename(p)
    BY <1>1, <2>8, AggRenameKeeps
  <2> QED  BY <1>1, <2>1, <2>2, <2>3, <2>4, <2>5, <2>6, <2>7, <2>8 DEF PromotionStep
<1>3. TableTypes' /\ BuildInv'
  BY <1>0, <1>1, UnchangedKeeps
<1>4. BuildTypes'
  BY <1>0, <1>1 DEF BuildTypes, PromotionFrame, countVars, buildVars
<1>5. HistTypes'
  <2>1. born' = [n \in Name |-> [c \in Content |->
                   IF c \in hashdirs'[n] \ hashdirs[n] THEN day ELSE born[n][c]]]
    BY DEF Handle
  <2>2. born' \in [Name -> [Content -> Nat]]
    BY <1>0, <2>1 DEF HistTypes, BuildTypes
  <2> QED  BY <1>0, <1>1, <2>2 DEF HistTypes
<1> QED  BY <1>2, <1>3, <1>4, <1>5, TypePartsAfter

LEMMA StutterKeeps ==
  ASSUME PurgeInv, UNCHANGED vars
  PROVE  PurgeInv'
<1>1. /\ UNCHANGED <<db, purged, dirs, dtbuild, links, linked, day, working, purge, again, lost>>
      /\ UNCHANGED <<plinks, promos, hashdirs, files, temps, call, kills>>
      /\ UNCHANGED <<born, mixed, raced, crossed, builds, imports, rechecks>>
  BY DEF vars, tableVars, promotionVars, aggVars, buildVars, purgeVars, restVars, histVars, countVars
<1>2. TypeOK
  BY DEF PurgeInv
<1>3. TypeOK'
  BY <1>1, <1>2 DEF TypeOK, PromotionsTypeOK
<1>4. BuildInv'
  BY <1>1, <1>2, UnchangedKeeps DEF PurgeInv, tableVars, buildVars
<1>5. PromoInv'
  <2>1. SinglesOK' /\ PromosOK'
    BY <1>1 DEF PurgeInv, PromoInv, SinglesOK, SingleOK, PromosOK, InProgress, CallAt, ItemOf, PurgeAt,
                AtOnce
  <2>2. TempsOK'
    BY <1>1 DEF PurgeInv, PromoInv, TempsOK, AggTempInUse, CallAt, NameOf
  <2>3. SettledOK'
    BY <1>1 DEF PurgeInv, PromoInv, SettledOK, Settled, AtFiles, InProgress, CallAt, NameOf
  <2>4. KeptOK' /\ AggregatesKept'
    BY <1>1 DEF PurgeInv, PromoInv, KeptOK, AggregatesKept, AtFiles, InProgress, CallAt, NameOf,
                PurgeAt
  <2> QED  BY <2>1, <2>2, <2>3, <2>4 DEF PromoInv
<1> QED  BY <1>3, <1>4, <1>5 DEF PurgeInv

-----------------------------------------------------------------------------
(* The theorems                                                            *)

(* The inductive invariant: PurgeInv holds at first and every step keeps   *)
(* it.                                                                     *)
THEOREM Invariance == Spec => []PurgeInv
<1>1. Init => PurgeInv
  BY InitKeeps
<1>2. PurgeInv /\ [Next]_vars => PurgeInv'
  <2> SUFFICES ASSUME PurgeInv, [Next]_vars
               PROVE  PurgeInv'
    OBVIOUS
  <2>0. TypeOK
    BY DEF PurgeInv
  <2>1. CASE Build \/ Recheck \/ Tick
    BY <2>0, <2>1, OthersKeepPromotions DEF PurgeInv
  <2>2. CASE PurgeStep \/ KillPurge
    BY <2>0, <2>2, PurgeKeepsPromotions DEF PurgeInv
  <2>3. ASSUME NEW p \in Client, Promote(p)
        PROVE  PurgeInv'
    BY <2>0, <2>3, PromoteKeeps DEF PurgeInv
  <2>4. ASSUME NEW p \in Client, Handle(p)
        PROVE  PurgeInv'
    BY <2>0, <2>4, HandleKeeps DEF PurgeInv
  <2>5. CASE UNCHANGED vars
    BY <2>5, StutterKeeps
  <2> QED  BY <2>1, <2>2, <2>3, <2>4, <2>5 DEF Next
<1> QED  BY <1>1, <1>2, PTL DEF Spec

(* Every variable has its type, whatever builds, imports, rechecks, purges *)
(* and promotions do to each other.                                        *)
THEOREM TypeCorrect == Spec => []TypeOK
<1>1. PurgeInv => TypeOK
  BY DEF PurgeInv
<1> QED  BY <1>1, Invariance, PTL

(* The purge neither flags the newest success of a project nor removes its *)
(* directory, as usage.rst promises: not even when it is killed, when rows *)
(* come while it goes through its list, or when the project is under its   *)
(* age limit with all it has.                                              *)
THEOREM NewestKept == Spec => []NewestSuccessKept
<1>1. PurgeInv => NewestSuccessKept
  <2> SUFFICES ASSUME PurgeInv, NEW q \in Package, InBuildOrder(q),
                      NEW i \in LastSuccess(db, q), AtOnce(db[i].rev)
               PROVE  i \notin purged /\ db[i].rev \in dirs
    BY DEF NewestSuccessKept
  <2>1. /\ i \in DOMAIN db /\ Success(i) /\ db[i].rev.pkg = q
        /\ \A j \in DOMAIN db : Success(j) /\ db[j].rev.pkg = q => j <= i
    BY DEF LastSuccess, Latest, WithStatus, RowsOf, Live, Success
  <2>2. TableTypes
    BY TypeParts DEF PurgeInv
  <2>3. ~Superseded(i)
    <3>1. \A j \in DOMAIN db : j <= i => ~(i < j)
      BY <2>1, <2>2, Rows
    <3> QED  BY <2>1, <3>1 DEF Superseded
  <2> QED  BY <2>1, <2>3 DEF PurgeInv, BuildInv, FlagsOK, NewestThere, Flagged
<1> QED  BY <1>1, Invariance, PTL

(* The repositories that current and consistent lead to are whole: the     *)
(* purge removes no directory an excluded link shows, directly or through  *)
(* the packages linked into it, and none of current's between builds.      *)
THEOREM LinksComplete == Spec => []LinksAreComplete
<1>1. PurgeInv => LinksAreComplete
  <2> SUFFICES ASSUME PurgeInv, AllInOrder,
                      NEW d \in {"current", "consistent"}, links[d] # None, AtOnce(links[d]),
                      d \in ExcludeDirs \/ (d = "current" /\ WorkAt("none")),
                      NEW r \in {links[d]} \cup linked[links[d]], AtOnce(r)
               PROVE  r \in dirs
    BY DEF LinksAreComplete, AllInOrder
  <2>1. TableTypes /\ BuildTypes /\ BuildInv
    BY TypeParts DEF PurgeInv
  <2>2. links[d] \in Rev /\ r \in Rev
    BY <2>1 DEF BuildTypes
  <2>3. CASE d \in ExcludeDirs
    BY <2>1, <2>2, <2>3 DEF BuildInv, ExcludedOK, Shown
  <2>4. CASE d = "current" /\ WorkAt("none")
    <3>1. NewestRev(r)
      BY <2>1, <2>4 DEF BuildInv, CurrentOK, WorkAt
    <3> QED  BY <2>1, <3>1, NewestIsSafe DEF BuildInv
  <2> QED  BY <2>3, <2>4
<1> QED  BY <1>1, Invariance, PTL

(* The flag of a success tells whether its directory is there, when no     *)
(* purge is in progress: set whenever the directory is gone, unless a purge*)
(* lost its flags, and only then, unless the revision was imported again.  *)
THEOREM FlagsCorrect == Spec => []FlagsMatchDirs
<1>1. PurgeInv => FlagsMatchDirs
  <2> SUFFICES ASSUME PurgeInv, PurgeAt("idle"),
                      NEW i \in WithStatus(db, Live(db), "SUCCESS"), AtOnce(db[i].rev)
               PROVE  /\ lost = 0 /\ db[i].rev \notin dirs => i \in purged
                      /\ i \in purged /\ db[i].rev \notin again => db[i].rev \notin dirs
    BY DEF FlagsMatchDirs
  <2>1. i \in DOMAIN db /\ Success(i)
    BY DEF WithStatus, Live, Success
  <2>2. purge = NoPurge
    BY DEF PurgeInv, BuildInv, PurgeOK
  <2>3. ~Pending(i) /\ (Flagged(i) <=> i \in purged)
    BY <2>2 DEF Pending, Flagged, PurgeAt, NoPurge
  <2> QED  BY <2>1, <2>3 DEF PurgeInv, BuildInv, GoneIsFlagged, FlaggedIsGone
<1> QED  BY <1>1, Invariance, PTL

(* The first aggregated file of a name leads to a directory that is there, *)
(* and so do the others unless two promotions were in progress together:   *)
(* the purge of old directories spares it, as long as nobody promotes      *)
(* meanwhile.                                                              *)
THEOREM AggregatesCorrect == Spec => []AggregatesKept
<1>1. PurgeInv => AggregatesKept
  BY DEF PurgeInv, PromoInv
<1> QED  BY <1>1, Invariance, PTL

(* What a promotion links to is there: the check of the flag it begins with*)
(* is enough when no purge was in progress during it and none lost flags.  *)
THEOREM PromotedCorrect == Spec => PromotedExists
<1> DEFINE exists ==
      \A p \in Client, l \in Link :
          CallAt(p, "link") /\ call'[p].pc # "link" /\ plinks'[l] # plinks[l]
             /\ p \notin mixed /\ lost = 0 /\ AtOnce(plinks'[l]) => plinks'[l] \in dirs
<1>1. PurgeInv /\ [Next]_vars => [exists]_<<plinks, call>>
  <2> SUFFICES ASSUME PurgeInv, [Next]_vars,
                      NEW p \in Client, NEW l \in Link,
                      CallAt(p, "link"), call'[p].pc # "link", plinks'[l] # plinks[l],
                      p \notin mixed, lost = 0, AtOnce(plinks'[l])
               PROVE  plinks'[l] \in dirs
    OBVIOUS
  <2>0. PromoTypes /\ SinglesOK /\ PromosOK /\ p \in InProgress /\ call[p].pc = "link"
    BY TypeParts DEF PurgeInv, PromoInv, InProgress, CallAt
  <2>1. call'[p] # call[p] /\ plinks' # plinks
    BY DEF CallAt
  <2>2. PICK q \in Client : Handle(q)
    <3>1. UNCHANGED plinks \/ \E q \in Client : Handle(q)
      BY DEF Next, Build, StartBuild, StartImport, PostBuild, BuildFails, RecordSuccess, MoveCurrent,
             MoveConsistent, MoveLink, Recheck, Tick, PurgeStep, StartPurge, Visit, RemoveDir,
             StoreFlags, ReadProtected, RemoveHashes, EndPurge, KillPurge, Promote, StartPromotion,
             vars, promotionVars
    <3> QED  BY <2>1, <3>1
  <2>3. q = p
    <3>1. \A c : call' = [call EXCEPT ![q] = c] /\ q # p => call'[p] = call[p]
      BY <2>0 DEF PromoTypes
    <3>2. \E c : call' = [call EXCEPT ![q] = c]
      <4>1. PromotionStep(q, TRUE)
        BY <2>2 DEF Handle
      <4> QED  BY <4>1 DEF PromotionStep, Check, Look, Unlink, MakeLink, LinkFails, RollBack, Aggregate,
                           AggSymlink, AggRename, Insert, EndCall
    <3> QED  BY <2>1, <3>1, <3>2
  <2>4. MakeLink(p)
    <3>1. PromotionStep(p, TRUE)
      BY <2>2, <2>3 DEF Handle
    <3> QED  BY <2>0, <2>1, <3>1 DEF PromotionStep, Check, Look, Unlink, LinkFails, RollBack,
                Aggregate, AggSymlink, AggRename, Insert, CallAt
  <2>5. plinks' = [plinks EXCEPT ![LinkOf(ItemOf(p))] = ItemOf(p).rev]
    BY <2>4 DEF MakeLink
  <2>6. plinks'[l] = ItemOf(p).rev
    BY <2>0, <2>5 DEF PromoTypes
  <2> QED  BY <2>0, <2>6 DEF PromosOK
<1> QED  BY <1>1, Invariance, PTL DEF Spec, PromotedExists
=============================================================================

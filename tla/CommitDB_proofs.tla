--------------------------- MODULE CommitDB_proofs ---------------------------
(***************************************************************************)
(* What a change of the commits table does to the queries of CommitDB.     *)
(***************************************************************************)
EXTENDS CommitDB, FiniteSetTheorems, FunctionTheorems, TLAPS

(* There are finitely many revisions, so that a scan finds finitely many.  *)
LEMMA RevFinite == IsFiniteSet(Rev)
<1> DEFINE Commits == 1..MaxCommit
           Distros == 1..MaxDistro
           D == Package \X (Commits \X Distros)
           f == [t \in D |-> [pkg |-> t[1], commit |-> t[2][1], distro |-> t[2][2]]]
<1>1. IsFiniteSet(Commits) /\ IsFiniteSet(Distros)
  BY FS_Interval, CommitDBAssumption
<1>2. IsFiniteSet(Commits \X Distros)
  BY <1>1, FS_Product
<1>3. IsFiniteSet(D)
  BY <1>2, FS_Product, CommitDBAssumption
<1>4. f \in Surjection(D, Rev)
  <2>1. f \in [D -> Rev]
    BY DEF Rev
  <2>2. ASSUME NEW r \in Rev
        PROVE  \E t \in D : f[t] = r
    <3>1. <<r.pkg, <<r.commit, r.distro>>>> \in D
      BY DEF Rev
    <3>2. f[<<r.pkg, <<r.commit, r.distro>>>>] = r
      BY <3>1 DEF Rev
    <3> QED  BY <3>1, <3>2
  <2> QED  BY <2>1, <2>2 DEF Surjection
<1> QED  BY <1>3, <1>4, FS_Surjection

(* Rows stay rows when they are voted for, deleted or marked.              *)
LEMMA RowType ==
  \A row \in Row : /\ row.rev \in Rev
                   /\ row.rev.pkg \in Package
                   /\ [row EXCEPT !.vote = TRUE] \in Row
                   /\ [row EXCEPT !.gone = TRUE] \in Row
                   /\ [row EXCEPT !.status = "RETRY"] \in Row
BY DEF Row, Rev, Status

(* An entry of the table is a row, and may be replaced by one.             *)
LEMMA TableType ==
  ASSUME NEW db \in Seq(Row), NEW i \in DOMAIN db
  PROVE  /\ db[i] \in Row
         /\ \A row \in Row : [db EXCEPT ![i] = row] \in Seq(Row)
OBVIOUS

(* The three changes of a row the code makes keep the table a table.       *)
LEMMA TableChangeType ==
  ASSUME NEW db \in Seq(Row), NEW i \in DOMAIN db
  PROVE  /\ [db EXCEPT ![i].vote = TRUE] \in Seq(Row)
         /\ [db EXCEPT ![i].gone = TRUE] \in Seq(Row)
         /\ [db EXCEPT ![i].status = "RETRY"] \in Seq(Row)
BY TableType, RowType

-----------------------------------------------------------------------------
(* A finite set of numbers that is not empty has a largest one: a smallest *)
(* subset that holds everything above its elements cannot hold two.        *)
LEMMA LargestExists ==
  ASSUME NEW S \in SUBSET Nat, IsFiniteSet(S), S # {}
  PROVE  \E m \in S : \A k \in S : k <= m
<1> DEFINE R == StrictSubsetOrdering(S)
           F == FiniteSubsetsOf(S)
           C == {T \in F : T # {} /\ \A t \in T, u \in S \ T : u < t}
<1>1. IsWellFoundedOn(R, F)
  BY FS_StrictSubsetOrderingWellFounded
<1>2. \A T \in SUBSET S : T \in F
  BY FS_Subset DEF FiniteSubsetsOf
<1>3. S \in C
  BY <1>2
<1>4. C \subseteq F /\ C # {}
  BY <1>3
<1> HIDE DEF R, F
<1>5. PICK T \in C : \A U \in C : <<U, T>> \notin R
  BY <1>1, <1>4, WFMin
<1>6. T \in SUBSET S /\ T # {}
  BY <1>5 DEF F, FiniteSubsetsOf
<1>7. ASSUME NEW a \in T, NEW b \in T, a < b
      PROVE  FALSE
  <2> DEFINE U == {t \in T : a < t}
  <2>1. U \in SUBSET S /\ U # {} /\ U \in F
    BY <1>2, <1>6, <1>7
  <2>2. \A t \in U, u \in S \ U : u < t
    <3>1. ASSUME NEW t \in U, NEW u \in S \ U
          PROVE  u < t
      <4>1. CASE u \in T
        BY <1>6, <4>1
      <4>2. CASE u \notin T
        BY <1>5, <4>2
      <4> QED  BY <4>1, <4>2
    <3> QED  BY <3>1
  <2>3. U \in C
    BY <2>1, <2>2
  <2>4. U \subseteq T /\ U # T
    BY <1>6, <1>7
  <2>5. <<U, T>> \in R
    BY <1>6, <2>1, <2>4 DEF R, StrictSubsetOrdering
  <2> QED  BY <1>5, <2>3, <2>5
<1>8. PICK m \in T : TRUE
  BY <1>6
<1>9. ASSUME NEW k \in S
      PROVE  k <= m
  <2>1. m \in Nat /\ k \in Nat
    BY <1>6
  <2>2. CASE k \in T
    BY <1>7, <2>1, <2>2
  <2>3. CASE k \notin T
    BY <1>5, <2>1, <2>3
  <2> QED  BY <2>2, <2>3
<1> QED  BY <1>6, <1>9

(* Of rows there are, one is the newest.                                   *)
LEMMA LatestExists ==
  ASSUME NEW db \in Seq(Row), NEW S \in SUBSET DOMAIN db, S # {}
  PROVE  Latest(S) # {}
<1>1. S \in SUBSET Nat /\ Len(db) \in Nat /\ \A i \in S : i <= Len(db)
  OBVIOUS
<1>2. IsFiniteSet(S)
  BY <1>1, FS_BoundedSetOfNaturals
<1> QED  BY <1>1, <1>2, LargestExists DEF Latest

(* The newest row of S is one of S, and there is only one.                 *)
LEMMA LatestUnique ==
  ASSUME NEW S \in SUBSET Nat, NEW i \in Latest(S), NEW j \in Latest(S)
  PROVE  i = j
BY DEF Latest

(* A project whose newest row is a success has no other last outcome: what *)
(* a recheck or a bootstrap takes back is not a project in order.          *)
LEMMA LastProcessedIsNewest ==
  ASSUME NEW db \in Seq(Row), NEW pkg \in Package, NEW i \in LastProcessed(db, pkg),
         NewestSucceeded(db, pkg)
  PROVE  db[i].status = "SUCCESS" /\ Latest(RowsOf(db, pkg)) = {i}
<1>1. RowsOf(db, pkg) \subseteq Nat
  BY DEF RowsOf, Live
<1>2. PICK j \in Latest(RowsOf(db, pkg)) : db[j].status = "SUCCESS"
  BY DEF NewestSucceeded
<1>3. j \in Latest(RowsOf(db, pkg) \cap Processed(db))
  BY <1>1, <1>2 DEF Latest, Processed, RowsOf
<1>4. i = j
  BY <1>1, <1>3, LatestUnique DEF LastProcessed
<1> QED  BY <1>1, <1>2, <1>4, LatestUnique

(* A row of another project leaves a project's rows as they are.           *)
LEMMA AppendOther ==
  ASSUME NEW db \in Seq(Row), NEW row \in Row, NEW q \in Package, row.rev.pkg # q
  PROVE  /\ RowsOf(Append(db, row), q) = RowsOf(db, q)
         /\ NewestSucceeded(Append(db, row), q) <=> NewestSucceeded(db, q)
<1>1. RowsOf(Append(db, row), q) = RowsOf(db, q)
  BY DEF RowsOf, Live
<1>2. \A i \in RowsOf(db, q) : Append(db, row)[i] = db[i]
  BY DEF RowsOf, Live
<1> QED  BY <1>1, <1>2 DEF NewestSucceeded, Latest

(* An INSERT gives the newest row of its project.                          *)
LEMMA AppendOwn ==
  ASSUME NEW db \in Seq(Row), NEW row \in Row, ~row.gone
  PROVE  Latest(RowsOf(Append(db, row), row.rev.pkg)) = {Len(db) + 1}
<1> DEFINE S == RowsOf(Append(db, row), row.rev.pkg)
<1>1. Len(db) + 1 \in S
  BY DEF RowsOf, Live
<1>2. \A j \in S : j \in Nat /\ j <= Len(db) + 1
  BY DEF RowsOf, Live
<1> QED  BY <1>1, <1>2 DEF Latest

(* A change of one row that keeps its revision and its status, and deletes *)
(* nothing, changes no answer about any project.                           *)
LEMMA VoteKeeps ==
  ASSUME NEW db \in Seq(Row), NEW i \in DOMAIN db, NEW q \in Package
  PROVE  LET new == [db EXCEPT ![i].vote = TRUE] IN
         /\ RowsOf(new, q) = RowsOf(db, q)
         /\ NewestSucceeded(new, q) <=> NewestSucceeded(db, q)
<1> DEFINE new == [db EXCEPT ![i].vote = TRUE]
<1>1. DOMAIN new = DOMAIN db
  OBVIOUS
<1>2. \A j \in DOMAIN db : /\ new[j].rev = db[j].rev
                           /\ new[j].status = db[j].status
                           /\ new[j].gone = db[j].gone
  BY DEF Row
<1>3. RowsOf(new, q) = RowsOf(db, q)
  BY <1>1, <1>2 DEF RowsOf, Live
<1>4. \A j \in RowsOf(db, q) : new[j].status = db[j].status
  BY <1>2 DEF RowsOf, Live
<1> QED  BY <1>3, <1>4 DEF NewestSucceeded, Latest

(* Deleting a row, or marking it as RETRY, only touches its own project.   *)
LEMMA WithdrawOther ==
  ASSUME NEW db \in Seq(Row), NEW i \in DOMAIN db, NEW q \in Package, db[i].rev.pkg # q,
         NEW new \in Seq(Row), DOMAIN new = DOMAIN db,
         new[i].rev = db[i].rev,
         \A j \in DOMAIN db \ {i} : new[j] = db[j]
  PROVE  /\ RowsOf(new, q) = RowsOf(db, q)
         /\ NewestSucceeded(new, q) <=> NewestSucceeded(db, q)
<1>1. RowsOf(new, q) = RowsOf(db, q)
  BY DEF RowsOf, Live
<1>2. \A j \in RowsOf(db, q) : new[j] = db[j]
  BY DEF RowsOf, Live
<1> QED  BY <1>1, <1>2 DEF NewestSucceeded, Latest
=============================================================================

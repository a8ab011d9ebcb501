------------------------------ MODULE CommitDB ------------------------------
(***************************************************************************)
(* The "commits" table and the queries DLRN decides with.  A table is a    *)
(* sequence of rows in the order of their ids (a row's id is its index), a *)
(* deleted row stays as a tombstone so that ids never shift.               *)
(*                                                                         *)
(* A query that ends in .first() is modelled by the SET of indices it may  *)
(* return: empty when the code gets None, a singleton otherwise.           *)
(*                                                                         *)
(* Here and in the other modules an operator A_Change is a mutation of A,  *)
(* the way a slip in the code would change it; nothing else uses it.       *)
(***************************************************************************)
EXTENDS Naturals, Sequences, FiniteSets

CONSTANTS
    Package,       \* the project names
    MaxCommit,     \* bound: upstream commits per project
    MaxDistro,     \* bound: distgit commits per project
    DtCommit,      \* dt_commit of the n-th upstream commit, in git order
    SharedDistgit  \* TRUE: one distgit repository for all projects, so that
                   \* the same distro_hash may be current for several of them

ASSUME CommitDBAssumption ==
    /\ IsFiniteSet(Package)
    /\ MaxCommit \in Nat
    /\ MaxDistro \in Nat
    /\ DtCommit \in [1..MaxCommit -> Nat]
    /\ \A m, n \in 1..MaxCommit : m <= n => DtCommit[m] <= DtCommit[n]
    /\ SharedDistgit \in BOOLEAN

\* What is built: commit number "commit" of a project, packaged by commit
\* number "distro" of its distgit.  dt_distro is that number.
Rev == [pkg : Package, commit : 1..MaxCommit, distro : 1..MaxDistro]

Status == {"SUCCESS", "FAILED", "RETRY"}

\* "vote": a row of civotes refers to it; "gone": deleted by a recheck.
Row == [rev : Rev, status : Status, vote : BOOLEAN, gone : BOOLEAN]

Dt(r) == DtCommit[r.commit]

\* Equality of two distro_hash columns.
SameDistro(r, s) == /\ r.distro = s.distro
                    /\ SharedDistgit \/ r.pkg = s.pkg

-----------------------------------------------------------------------------
Live(db) == {i \in DOMAIN db : ~db[i].gone}

RowsOf(db, pkg) == {i \in Live(db) : db[i].rev.pkg = pkg}

\* order_by(desc(id)).first() over the rows S.
Latest(S) == {i \in S : \A j \in S : j <= i}

WithStatus(db, S, status) == {i \in S : db[i].status = status}

\* Rows a query with Commit.status != "RETRY" sees.
Processed(db) == {i \in Live(db) : db[i].status # "RETRY"}

\* db.getLastProcessedCommit
LastProcessed(db, pkg) == Latest(RowsOf(db, pkg) \cap Processed(db))

\* post_build's last_success, and the status test on its last_processed.
LastSuccess(db, pkg) == Latest(WithStatus(db, RowsOf(db, pkg), "SUCCESS"))

NewestSucceeded(db, pkg) ==
    \E i \in Latest(RowsOf(db, pkg)) : db[i].status = "SUCCESS"

FailedOthers_OnlyBuilt(db, pkg) ==
    {q \in Package \ {pkg} : \E i \in Latest(RowsOf(db, q)) : db[i].status # "SUCCESS"}

\* The projects post_build counts as failures when it builds the repository
\* of a revision of pkg.
FailedOthers(db, pkg) == {q \in Package \ {pkg} : ~NewestSucceeded(db, q)}

\* utils.timesretried
TimesRetried(db, r) ==
    Cardinality(WithStatus(db, {i \in Live(db) : db[i].rev = r}, "RETRY"))

\* The two queries of _add_commits.  The second has no filter on the project.
SameHashes(db, r) == \E i \in Processed(db) : db[i].rev = r

SameDate(db, r) ==
    \E i \in Processed(db) : Dt(db[i].rev) = Dt(r) /\ SameDistro(db[i].rev, r)

AlreadyHandled_Never(db, r) == FALSE
AlreadyHandled_ByHash(db, r) == SameHashes(db, r)

AlreadyHandled(db, r) == SameHashes(db, r) \/ SameDate(db, r)

GitLog_Exclusive(pkg, head, distro, since) ==
    {r \in Rev : /\ r.pkg = pkg /\ r.commit <= head /\ Dt(r) > since
                 /\ r.distro = distro}

\* What the driver's getinfo makes of "git log --after": the commits from a
\* date on, that date included, packaged with the newest distgit commit.
GitLog(pkg, head, distro, since) ==
    {r \in Rev : /\ r.pkg = pkg /\ r.commit <= head /\ Dt(r) >= since
                 /\ r.distro = distro}

\* shell.getinfo: everything from the date of the last processed commit on;
\* without one, only the tip.  "head" and "distro" are the tips upstream.
Since(db, pkg, head, distro) ==
    IF LastProcessed(db, pkg) = {}
    THEN {r \in GitLog(pkg, head, distro, 0) : r.commit = head}
    ELSE UNION {GitLog(pkg, head, distro, Dt(db[i].rev)) : i \in LastProcessed(db, pkg)}

\* The latest built commit is newer: import_commit skips the revision.
NewerBuilt(db, r) ==
    \E i \in LastProcessed(db, r.pkg) :
        Dt(db[i].rev) >= Dt(r) /\ db[i].rev.distro >= r.distro
=============================================================================

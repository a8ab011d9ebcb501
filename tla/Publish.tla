------------------------------- MODULE Publish -------------------------------
(***************************************************************************)
(* What happens to a finished build: post_build and process_build_result,  *)
(* run under the file lock remote.lck by the main dlrn process, by         *)
(* dlrn-remote and by the API's remote import.  One step per effect other  *)
(* processes or a crash can see: the directory of the new repository, the  *)
(* row, the temporary symbolic link, its rename, the CI vote.              *)
(***************************************************************************)
EXTENDS CommitDB

CONSTANTS
    Main,         \* the dlrn process
    Importer,     \* the processes that import a remote build, one each
    None,
    MaxRetries,   \* the option maxretries
    Stop,         \* the command line flag --stop
    SyncMayFail,  \* TRUE: rsyncdest is set and rsync may fail
    ForeignKeys   \* TRUE: the database enforces them, which SQLite does not

Proc == Importer \cup {Main}

ASSUME PublishAssumption ==
    /\ Main \notin Importer
    /\ None \notin Proc
    /\ None \notin Rev
    /\ MaxRetries \in Nat
    /\ Stop \in BOOLEAN
    /\ SyncMayFail \in BOOLEAN
    /\ ForeignKeys \in BOOLEAN

VARIABLES
    db,      \* the commits table
    links,   \* repos/current and repos/consistent: the revision they lead to
    tmp,     \* repos/current_ and repos/consistent_, left by a crash or in use
    dirs,    \* revisions of other projects whose rpms are linked in repos/<rev>
    lock,    \* who holds remote.lck
    pc,      \* where each process is in its "with lock_file" block
    job      \* the result it works on

publishVars == <<db, links, tmp, dirs, lock, pc, job>>

LinkName == {"current", "consistent"}

\* build_worker's result: no exception, an exception with a known error in
\* the log (isknownerror), any other exception.
Outcome == {"ok", "known", "error"}

Job == [rev : Rev \cup {None}, outcome : Outcome,
        consistent : BOOLEAN,       \* the argument "consistent", then the variable
        dirnames : Seq(LinkName),   \* the links still to be moved
        id : Nat,                   \* commit.id, 0 before the INSERT
        failed : BOOLEAN]           \* exit_code # 0

NewJob(r, o) == [rev |-> r, outcome |-> o, consistent |-> FALSE,
                 dirnames |-> <<>>, id |-> 0, failed |-> FALSE]

NoJob == NewJob(None, "ok")

\* Program points inside the "with lock_file" block.
Locked == {"post", "record", "symlink", "rename", "vote", "release"}

PC == Locked \cup {"idle", "wait", "done"}

InitPublish ==
    /\ db = <<>>
    /\ links = [d \in LinkName |-> None]
    /\ tmp = [d \in LinkName |-> None]
    /\ dirs = [r \in Rev |-> {}]
    /\ lock = None
    /\ pc = [p \in Proc |-> "idle"]
    /\ job = [p \in Proc |-> NoJob]

-----------------------------------------------------------------------------
Goto(p, l) == pc' = [pc EXCEPT ![p] = l]

\* A result is there to be processed.
Submit(p, r, o) ==
    /\ pc[p] = "idle"
    /\ Goto(p, "wait")
    /\ job' = [job EXCEPT ![p] = NewJob(r, o)]
    /\ UNCHANGED <<db, links, tmp, dirs, lock>>

Acquire_NoWait(p) ==
    /\ pc[p] = "wait"
    /\ lock' = p
    /\ Goto(p, IF job[p].outcome = "ok" THEN "post" ELSE "record")
    /\ UNCHANGED <<db, links, tmp, dirs, job>>

Acquire(p) ==
    /\ pc[p] = "wait"
    /\ lock = None
    /\ lock' = p
    /\ Goto(p, IF job[p].outcome = "ok" THEN "post" ELSE "record")
    /\ UNCHANGED <<db, links, tmp, dirs, job>>

\* The rpms post_build links into the repository of r: the last success of
\* every other project.
Linked(r) == {db[i].rev : i \in UNION {LastSuccess(db, q) : q \in Package \ {r.pkg}}}

\* Only the main process makes use of the number of failures.
PostBuild(p) ==
    LET r == job[p].rev IN
    /\ pc[p] = "post"
    /\ Linked(r) \cap dirs[r] = {}
    /\ dirs' = [dirs EXCEPT ![r] = @ \cup Linked(r)]
    /\ job' = [job EXCEPT ![p].consistent = p = Main /\ FailedOthers(db, r.pkg) = {}]
    /\ Goto(p, "record")
    /\ UNCHANGED <<db, links, tmp, lock>>

RecordedStatus_OneMore(j, synced) ==
    CASE j.outcome = "ok" -> IF synced THEN "SUCCESS" ELSE "FAILED"
      [] j.outcome = "known" /\ TimesRetried(db, j.rev) <= MaxRetries -> "RETRY"
      [] OTHER -> "FAILED"

RecordedStatus_NotSet(j, synced) ==
    CASE j.outcome = "ok" -> IF synced THEN "SUCCESS" ELSE "FAILED"
      [] j.outcome = "known" /\ TimesRetried(db, j.rev) < MaxRetries -> "RETRY"
      [] OTHER -> None

RecordedStatus(j, synced) ==
    CASE j.outcome = "ok" -> IF synced THEN "SUCCESS" ELSE "FAILED"
      [] j.outcome = "known" /\ TimesRetried(db, j.rev) < MaxRetries -> "RETRY"
      [] OTHER -> "FAILED"

\* --stop returns before session.add: the failed build leaves no row.
Discards(p) == p = Main /\ Stop /\ job[p].outcome # "ok"

Discard(p) ==
    /\ pc[p] = "record"
    /\ Discards(p)
    /\ job' = [job EXCEPT ![p].failed = TRUE]
    /\ Goto(p, "release")
    /\ UNCHANGED <<db, links, tmp, dirs, lock>>

\* A failed sync_repo takes "consistent" back.
StillConsistent_Anyway(j, synced) == j.consistent

StillConsistent(j, synced) == j.consistent /\ synced

\* The links to move, in the order of the loop.
DirNames_ConsistentFirst(ok, consistent) ==
    IF ~ok THEN <<>> ELSE IF consistent THEN <<"consistent", "current">> ELSE <<"current">>

DirNames_OnlyConsistent(ok, consistent) ==
    IF ok /\ consistent THEN <<"current", "consistent">> ELSE <<>>

DirNames(ok, consistent) ==
    IF ~ok THEN <<>> ELSE IF consistent THEN <<"current", "consistent">> ELSE <<"current">>

\* The status, sync_repo, the INSERT and the commit of the session.
Record(p) ==
    LET j == job[p]
        ok == j.outcome = "ok"
    IN
    /\ pc[p] = "record"
    /\ ~Discards(p)
    /\ \E synced \in {TRUE, ~SyncMayFail} :
         LET status == RecordedStatus(j, synced)
             dirnames == DirNames(ok, StillConsistent(j, synced))
         IN
         /\ db' = Append(db, [rev |-> j.rev, status |-> status,
                              vote |-> FALSE, gone |-> FALSE])
         /\ job' = [job EXCEPT ![p] =
              [@ EXCEPT !.consistent = StillConsistent(j, synced),
                        !.id = Len(db) + 1,
                        !.failed = status # "SUCCESS",
                        !.dirnames = dirnames]]
         /\ Goto(p, IF dirnames = <<>> THEN "release" ELSE "symlink")
    /\ UNCHANGED <<links, tmp, dirs, lock>>

\* os.symlink of the temporary name
Symlink(p) ==
    LET d == Head(job[p].dirnames) IN
    /\ pc[p] = "symlink"
    /\ tmp[d] = None
    /\ tmp' = [tmp EXCEPT ![d] = job[p].rev]
    /\ Goto(p, "rename")
    /\ UNCHANGED <<db, links, dirs, lock, job>>

Rename_KeepsTemp(p) ==
    LET d == Head(job[p].dirnames)
        rest == Tail(job[p].dirnames)
    IN
    /\ pc[p] = "rename"
    /\ links' = [links EXCEPT ![d] = tmp[d]]
    /\ job' = [job EXCEPT ![p].dirnames = rest]
    /\ Goto(p, IF rest # <<>> THEN "symlink"
               ELSE IF job[p].consistent THEN "vote" ELSE "release")
    /\ UNCHANGED <<db, tmp, dirs, lock>>

Rename_AlwaysVotes(p) ==
    LET d == Head(job[p].dirnames)
        rest == Tail(job[p].dirnames)
    IN
    /\ pc[p] = "rename"
    /\ links' = [links EXCEPT ![d] = tmp[d]]
    /\ tmp' = [tmp EXCEPT ![d] = None]
    /\ job' = [job EXCEPT ![p].dirnames = rest]
    /\ Goto(p, IF rest # <<>> THEN "symlink" ELSE "vote")
    /\ UNCHANGED <<db, dirs, lock>>

\* os.rename onto the real name
Rename(p) ==
    LET d == Head(job[p].dirnames)
        rest == Tail(job[p].dirnames)
    IN
    /\ pc[p] = "rename"
    /\ links' = [links EXCEPT ![d] = tmp[d]]
    /\ tmp' = [tmp EXCEPT ![d] = None]
    /\ job' = [job EXCEPT ![p].dirnames = rest]
    /\ Goto(p, IF rest # <<>> THEN "symlink"
               ELSE IF job[p].consistent THEN "vote" ELSE "release")
    /\ UNCHANGED <<db, dirs, lock>>

\* The INSERT into civotes, with the id the commit had when it was recorded.
Vote(p) ==
    /\ pc[p] = "vote"
    /\ ForeignKeys => ~db[job[p].id].gone
    /\ db' = [db EXCEPT ![job[p].id].vote = TRUE]
    /\ Goto(p, "release")
    /\ UNCHANGED <<links, tmp, dirs, lock, job>>

\* The process leaves the block, and the lock file is closed.  An importer has
\* nothing more to do; the main process goes on with its next result.
Leave(p, l) ==
    /\ lock' = IF lock = p THEN None ELSE lock
    /\ Goto(p, l)
    /\ job' = [job EXCEPT ![p] = NoJob]

Rest(p) == IF p = Main THEN "idle" ELSE "done"

Release(p) ==
    /\ pc[p] = "release"
    /\ Leave(p, Rest(p))
    /\ UNCHANGED <<db, links, tmp, dirs>>

-----------------------------------------------------------------------------
(* Exceptions nothing in the block catches.                                *)

\* post_build: os.symlink finds the rpm of another project already linked.
\* The links made before it stay.
RpmExists(p) ==
    LET r == job[p].rev IN
    /\ pc[p] = "post"
    /\ Linked(r) \cap dirs[r] # {}
    /\ \E made \in SUBSET (Linked(r) \ dirs[r]) :
          dirs' = [dirs EXCEPT ![r] = @ \cup made]
    /\ UNCHANGED <<db, links, tmp>>

\* The session reads the committed row again and a recheck has deleted it.
RowGone(p) ==
    /\ pc[p] = "symlink"
    /\ Head(job[p].dirnames) = "current"
    /\ db[job[p].id].gone
    /\ UNCHANGED <<db, links, tmp, dirs>>

\* os.symlink finds the temporary name of a process that died.
TempExists(p) ==
    /\ pc[p] = "symlink"
    /\ tmp[Head(job[p].dirnames)] # None
    /\ UNCHANGED <<db, links, tmp, dirs>>

\* The vote refers to a row a forced recheck has deleted.
VoteRefused(p) ==
    /\ pc[p] = "vote"
    /\ ForeignKeys
    /\ db[job[p].id].gone
    /\ UNCHANGED <<db, links, tmp, dirs>>

Raise(p) ==
    /\ RpmExists(p) \/ RowGone(p) \/ TempExists(p) \/ VoteRefused(p)
    /\ Leave(p, Rest(p))

\* Killed at any point after a result was there; the kernel drops the lock.
Kill(p) ==
    /\ pc[p] \in Locked \cup {"wait"}
    /\ Leave(p, "idle")
    /\ UNCHANGED <<db, links, tmp, dirs>>

\* One step of the block that does not leave it.
Advance(p) ==
    \/ Acquire(p) \/ PostBuild(p) \/ Discard(p) \/ Record(p)
    \/ Symlink(p) \/ Rename(p) \/ Vote(p)

-----------------------------------------------------------------------------
(* dlrn --recheck and the API's recheck_package, from a process of their   *)
(* own and without the lock.  A row a vote refers to cannot be deleted     *)
(* (commit_id would become NULL, which no database takes): the recheck     *)
(* fails.                                                                  *)
RecheckCommit_DropsVoted(pkg, force) ==
    \E i \in LastProcessed(db, pkg) :
        /\ db[i].status = "SUCCESS" => force
        /\ db' = [db EXCEPT ![i].gone = TRUE]
        /\ UNCHANGED <<links, tmp, dirs, lock, pc, job>>

RecheckCommit_AnyStatus(pkg, force) ==
    \E i \in LastProcessed(db, pkg) :
        /\ ~db[i].vote
        /\ db' = [db EXCEPT ![i].gone = TRUE]
        /\ UNCHANGED <<links, tmp, dirs, lock, pc, job>>

RecheckCommit(pkg, force) ==
    \E i \in LastProcessed(db, pkg) :
        /\ db[i].status = "SUCCESS" => force
        /\ ~db[i].vote
        /\ db' = [db EXCEPT ![i].gone = TRUE]
        /\ UNCHANGED <<links, tmp, dirs, lock, pc, job>>

PublishTypeOK ==
    /\ db \in Seq(Row)
    /\ links \in [LinkName -> Rev \cup {None}]
    /\ tmp \in [LinkName -> Rev \cup {None}]
    /\ dirs \in [Rev -> SUBSET Rev]
    /\ lock \in Proc \cup {None}
    /\ pc \in [Proc -> PC]
    /\ job \in [Proc -> Job]
=============================================================================

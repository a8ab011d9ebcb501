------------------------------ MODULE BuildRun ------------------------------
(***************************************************************************)
(* A DLRN installation: runs of the dlrn command one after another (scan   *)
(* the projects, queue what is new, build it in a pool, process the        *)
(* results in the order of the queue), imports of remote builds, rechecks  *)
(* by an operator or the API, and crashes.  Module Publish has the part    *)
(* they share.                                                             *)
(***************************************************************************)
EXTENDS Publish

CONSTANTS
    Targets,      \* sets of projects a run may be asked for; Package: all of them
    Workers,      \* the option workers, size of the build pool (unless sequential)
    Sequential,   \* the flag --sequential
    Bootstrap,    \* projects whose spec file mentions repo_bootstrap
    AllowForce,   \* the option allow_force_rechecks, used with --force-recheck
    MaxPush,      \* bound: pushes to the two repositories of a project
    MaxOrder,     \* bound: runs with the flag --order
    MaxCrash,     \* bound: processes killed
    MaxRecheck    \* bound: rows deleted by a recheck

ASSUME BuildRunAssumption ==
    /\ Targets \subseteq SUBSET Package
    /\ Workers \in Nat \ {0}
    /\ Sequential \in BOOLEAN
    /\ Bootstrap \subseteq Package
    /\ AllowForce \in BOOLEAN
    /\ MaxPush \in Nat
    /\ MaxOrder \in Nat
    /\ MaxCrash \in Nat
    /\ MaxRecheck \in Nat

VARIABLES
    head,      \* upstream: number of source commits of each project
    distro,    \* upstream: number of its newest distgit commit
    phase,     \* the main process: "idle", "scan" or "build"
    target,    \* the projects the run was asked for
    order,     \* whether it has the flag --order
    scanning,  \* those getinfo has still to look at
    found,     \* toprocess, as far as the scan has come
    queue,     \* toprocess, sorted
    built,     \* what the pool has made of each entry of the queue
    next,      \* the entry whose result the main process waits for
    boot,      \* how often each project occurs in bootstraplist
    orders, crashes, rechecks

upstreamVars == <<head, distro>>
runVars == <<phase, target, order, scanning, found, queue, built, next, boot>>
countVars == <<orders, crashes, rechecks>>
vars == <<publishVars, upstreamVars, runVars, countVars>>

BuildState == {"todo", "building"} \cup Outcome

Idle ==
    /\ phase = "idle"
    /\ target = {} /\ order = FALSE /\ scanning = {} /\ found = {}
    /\ queue = <<>> /\ built = <<>> /\ next = 1
    /\ boot = [q \in Package |-> 0]

Init ==
    /\ InitPublish
    /\ head = [q \in Package |-> 0]
    /\ distro = [q \in Package |-> 1]
    /\ Idle
    /\ orders = 0 /\ crashes = 0 /\ rechecks = 0

-----------------------------------------------------------------------------
(* Upstream                                                                *)

\* The first distgit commit is there from the start.
Pushes(q) == head[q] + distro[q] - 1

PushSource(q) ==
    /\ head[q] < MaxCommit /\ Pushes(q) < MaxPush
    /\ head' = [head EXCEPT ![q] = @ + 1]
    /\ UNCHANGED <<publishVars, distro, runVars, countVars>>

PushDistgit(q) ==
    /\ distro[q] < MaxDistro /\ Pushes(q) < MaxPush
    /\ distro' = [distro EXCEPT ![q] = @ + 1]
    /\ UNCHANGED <<publishVars, head, runVars, countVars>>

-----------------------------------------------------------------------------
(* The main process                                                        *)

StartRun ==
    /\ phase = "idle"
    /\ phase' = "scan"
    /\ \E T \in Targets : target' = T /\ scanning' = T
    /\ \/ order' = FALSE /\ UNCHANGED orders
       \/ orders < MaxOrder /\ order' = TRUE /\ orders' = orders + 1
    /\ UNCHANGED <<publishVars, upstreamVars, crashes, rechecks, found, queue, built, next, boot>>

\* getinfo for a project and _add_commits on what it returns
ScanPackage(q) ==
    /\ phase = "scan"
    /\ q \in scanning
    /\ scanning' = scanning \ {q}
    /\ found' = found \cup {r \in Since(db, q, head[q], distro[q]) : ~AlreadyHandled(db, r)}
    /\ UNCHANGED <<publishVars, upstreamVars, countVars, phase, target, order, queue, built, next, boot>>

\* refreshrepo failed: the project goes to skiplist.txt
SkipPackage(q) ==
    /\ phase = "scan"
    /\ q \in scanning
    /\ scanning' = scanning \ {q}
    /\ UNCHANGED <<publishVars, upstreamVars, countVars, phase, target, order, found, queue, built, next, boot>>

\* The orders the sort of toprocess may give: by date, or with --order project
\* by project.  The sort is stable, so a project's commits stay in git order.
BuildOrders(S, byOrder) ==
    {s \in [1..Cardinality(S) -> S] :
        \A i, j \in DOMAIN s : i < j =>
            IF s[i].pkg = s[j].pkg
            THEN /\ s[i].commit < s[j].commit
                 /\ byOrder => \A k \in i..j : s[k].pkg = s[i].pkg
            ELSE byOrder \/ Dt(s[i]) <= Dt(s[j])}

StartBuilds ==
    /\ phase = "scan"
    /\ scanning = {}
    /\ found # {}
    /\ phase' = "build"
    /\ queue' \in BuildOrders(found, order)
    /\ built' = [i \in DOMAIN queue' |-> "todo"]
    /\ boot' = [q \in Package |->
                  IF order /\ target = Package /\ q \in Bootstrap
                  THEN Cardinality({r \in found : r.pkg = q}) ELSE 0]
    /\ found' = {}
    /\ UNCHANGED <<publishVars, upstreamVars, countVars, target, order, scanning, next>>

\* The process is gone, and its pool with it.
StopRun ==
    /\ phase' = "idle"
    /\ target' = {} /\ order' = FALSE /\ scanning' = {} /\ found' = {}
    /\ queue' = <<>> /\ built' = <<>> /\ next' = 1
    /\ boot' = [q \in Package |-> 0]

NothingToBuild ==
    /\ phase = "scan"
    /\ scanning = {}
    /\ found = {}
    /\ StopRun
    /\ UNCHANGED <<publishVars, upstreamVars, countVars>>

FreshDirectory_Never(r) == dirs' = dirs

\* build.run: a build starts from an empty directory.
FreshDirectory(r) == dirs' = [dirs EXCEPT ![r] = {}]

\* pool.imap hands out the queue in order.  --order implies --sequential, and
\* then nothing is built while a result is processed.
StartBuild(i) ==
    /\ i \in DOMAIN queue
    /\ built[i] = "todo"
    /\ \A j \in 1..(i - 1) : built[j] # "todo"
    /\ IF Sequential \/ order
       THEN i = next /\ pc[Main] = "idle"
       ELSE Cardinality({j \in DOMAIN queue : built[j] = "building"}) < Workers
    /\ built' = [built EXCEPT ![i] = "building"]
    /\ FreshDirectory(queue[i])
    /\ UNCHANGED <<db, links, tmp, lock, pc, job, upstreamVars, countVars,
                   phase, target, order, scanning, found, queue, next, boot>>

FinishBuild(i) ==
    /\ i \in DOMAIN queue
    /\ built[i] = "building"
    /\ \E o \in Outcome : built' = [built EXCEPT ![i] = o]
    /\ UNCHANGED <<publishVars, upstreamVars, countVars, phase, target, order, scanning, found, queue, next, boot>>

\* iterator.next(): results come in the order of the queue.
TakeResult ==
    /\ phase = "build"
    /\ next \in DOMAIN queue
    /\ built[next] \in Outcome
    /\ Submit(Main, queue[next], built[next])
    /\ UNCHANGED <<upstreamVars, runVars, countVars>>

\* The end of one turn of the loop.
NextResult ==
    /\ Release(Main)
    /\ IF Stop /\ job[Main].failed
       THEN StopRun
       ELSE next' = next + 1 /\ UNCHANGED <<phase, target, order, scanning, found, queue, built, boot>>
    /\ UNCHANGED <<upstreamVars, countVars>>

LoopDone == phase = "build" /\ pc[Main] = "idle" /\ next > Len(queue)

\* After a full run with --order the packages built with repo_bootstrap are to be built again.
\* This is not under the lock.  A project whose rows are all RETRY (or gone)
\* ends the run with an AttributeError.
BootstrapPackage(q) ==
    /\ LoopDone
    /\ boot[q] > 0
    /\ IF LastProcessed(db, q) = {}
       THEN StopRun /\ UNCHANGED db
       ELSE /\ \E i \in LastProcessed(db, q) : db' = [db EXCEPT ![i].status = "RETRY"]
            /\ boot' = [boot EXCEPT ![q] = @ - 1]
            /\ UNCHANGED <<phase, target, order, scanning, found, queue, built, next>>
    /\ UNCHANGED <<links, tmp, dirs, lock, pc, job, upstreamVars, countVars>>

EndRun ==
    /\ LoopDone
    /\ \A q \in Package : boot[q] = 0
    /\ StopRun
    /\ UNCHANGED <<publishVars, upstreamVars, countVars>>

RunStep ==
    \/ StartRun \/ StartBuilds \/ NothingToBuild
    \/ \E i \in DOMAIN queue : StartBuild(i) \/ FinishBuild(i)
    \/ TakeResult \/ NextResult
    \/ \E q \in Package : BootstrapPackage(q)
    \/ EndRun

-----------------------------------------------------------------------------
(* dlrn-remote and the API's remote import: the check whether the revision *)
(* is still wanted and the downloads come before the lock.                 *)
ImportCommit(p) ==
    /\ \E r \in Rev, o \in Outcome :
         /\ r.commit <= head[r.pkg] /\ r.distro <= distro[r.pkg]
         /\ ~NewerBuilt(db, r)
         /\ Submit(p, r, o)
    /\ UNCHANGED <<upstreamVars, runVars, countVars>>

ImportDone(p) ==
    /\ Release(p)
    /\ UNCHANGED <<upstreamVars, runVars, countVars>>

\* A step of process_build_result, in the main process or in an importer.
Process(p) == Advance(p) /\ UNCHANGED <<upstreamVars, runVars, countVars>>

\* An uncaught exception: of the main process the whole run ends.
Abort(p) ==
    /\ Raise(p)
    /\ IF p = Main THEN StopRun ELSE UNCHANGED runVars
    /\ UNCHANGED <<upstreamVars, countVars>>

Crash(p) ==
    /\ crashes < MaxCrash
    /\ crashes' = crashes + 1
    /\ \/ Kill(p)
       \/ p = Main /\ pc[Main] = "idle" /\ phase # "idle" /\ UNCHANGED publishVars
    /\ IF p = Main THEN StopRun ELSE UNCHANGED runVars
    /\ UNCHANGED <<upstreamVars, orders, rechecks>>

Recheck(q) ==
    /\ rechecks < MaxRecheck
    /\ rechecks' = rechecks + 1
    /\ RecheckCommit(q, AllowForce)
    /\ UNCHANGED <<upstreamVars, runVars, orders, crashes>>

Next ==
    \/ RunStep
    \/ \E q \in Package : ScanPackage(q) \/ SkipPackage(q)
    \/ \E q \in Package : PushSource(q) \/ PushDistgit(q) \/ Recheck(q)
    \/ \E p \in Importer : ImportCommit(p) \/ ImportDone(p)
    \/ \E p \in Proc : Process(p) \/ Abort(p) \/ Crash(p)

Spec == Init /\ [][Next]_vars

\* dlrn is started again and again by a timer, and builds, rsync and lock
\* holders end (mock, requests and ssh have timeouts); the git servers answer
\* now and then.  Nobody has to push, recheck or import, and nothing has to
\* crash.
Fairness ==
    /\ WF_vars(RunStep)
    /\ \A q \in Package :
         /\ WF_vars(ScanPackage(q) \/ SkipPackage(q))
         /\ SF_vars(ScanPackage(q))
    /\ \A p \in Proc : WF_vars(Process(p) \/ Abort(p))
    /\ \A p \in Importer : WF_vars(ImportDone(p))

FairSpec == Spec /\ Fairness

-----------------------------------------------------------------------------
(* Properties                                                              *)

\* The table holds complete rows, each with one of the three states db.py:67
\* documents; lists, links, flags and counters are what the code takes them for.
TypeOK ==
    /\ PublishTypeOK
    /\ head \in [Package -> 0..MaxCommit]
    /\ distro \in [Package -> Nat]
    /\ phase \in {"idle", "scan", "build"}
    /\ target \subseteq Package /\ order \in BOOLEAN /\ scanning \subseteq Package
    /\ found \subseteq Rev
    /\ queue \in Seq(Rev)
    /\ built \in Seq(BuildState) /\ Len(built) = Len(queue)
    /\ next \in Nat \ {0}
    /\ boot \in [Package -> Nat]
    /\ orders \in Nat /\ crashes \in Nat /\ rechecks \in Nat

\* remote.lck: whoever is inside the block holds the lock, so that at most one
\* process at a time changes repositories and records results.
LockHeld == \A p \in Proc : pc[p] \in Locked <=> lock = p

\* As long as no process was killed, a temporary link belongs to the process
\* that is about to rename it: the symlink() calls never find one.
TempInUse ==
    crashes = 0 => \A d \in LinkName : tmp[d] # None =>
        \E p \in Proc : pc[p] = "rename" /\ Head(job[p].dirnames) = d /\ job[p].rev = tmp[d]

\* maxretries (installation.rst): a known error is recorded as RETRY at most
\* that often for a revision, whoever records it (a run with --order makes
\* RETRY rows of its own).
RetriesBounded == orders = 0 => \A r \in Rev : TimesRetried(db, r) <= MaxRetries

\* consistent only ever moves to a revision whose newest row is a success, at
\* a moment when the newest row of every project is one.
AllSucceeded == \A q \in Package : NewestSucceeded(db, q)

ConsistentIsClean ==
    [][links'["consistent"] # links["consistent"] =>
          /\ AllSucceeded
          /\ \E i \in Latest(RowsOf(db, links'["consistent"].pkg)) :
                db[i].rev = links'["consistent"]]_vars

\* The CI vote of "consistent" goes to the row the link leads to, while
\* everything still is a success.
VoteIsDeserved ==
    [][\A i \in DOMAIN db : db'[i].vote /\ ~db[i].vote =>
          AllSucceeded /\ links["consistent"] = db[i].rev]_vars

\* A row with a vote stays in the table as a success, also when rechecks are
\* forced at any moment; only a run with --order may want to build it again.
VotedRowStays ==
    \A i \in DOMAIN db : db[i].vote =>
        /\ ForeignKeys => ~db[i].gone
        /\ orders = 0 => db[i].status = "SUCCESS"

\* The consistent repository is that of a successful row still in the table,
\* unless rechecks are forced (or a run with --order wants to build it again).
ConsistentIsRecorded ==
    ~AllowForce /\ links["consistent"] # None =>
        \E i \in Live(db) : /\ db[i].rev = links["consistent"]
                            /\ orders = 0 => db[i].status = "SUCCESS"

\* _add_commits: without imports, nothing that has an outcome is built again
\* (whatever crashed, was retried or rechecked in between), ...
NothingBuiltTwice ==
    Importer = {} =>
        \A i, j \in Processed(db) : db[i].rev = db[j].rev => i = j

\* ... and the table lists the outcomes of a project in the order of its
\* history, which is what the queries by id rely on.
HistoryOrder ==
    \A i, j \in Processed(db) :
        Importer = {} /\ db[i].rev.pkg = db[j].rev.pkg /\ i < j =>
            /\ Dt(db[i].rev) <= Dt(db[j].rev)
            /\ db[i].rev.distro <= db[j].rev.distro
            /\ db[i].rev.distro = db[j].rev.distro => db[i].rev.commit < db[j].rev.commit

\* post_build never finds its links in place already: a build, also one that
\* repeats a build a crash has cut short, starts from an empty directory.
CleanDirectory ==
    pc[Main] = "post" => Linked(job[Main].rev) \cap dirs[job[Main].rev] = {}

IsTip(r) == r.commit = head[r.pkg] /\ r.distro = distro[r.pkg]

HasOutcome(r) == \E i \in Processed(db) : db[i].rev = r

\* The tip of every project comes to have an outcome other than RETRY: pushes
\* are finite, so its last tip does (internals.rst:96-101).  It takes a date of
\* its own: _add_commits skips a commit with the date and the distgit of one that
\* has an outcome, also when it is the later one, or of another project.
TipsAreBuilt ==
    \A q \in Package : []<>(\A r \in Rev : r.pkg = q /\ IsTip(r) => HasOutcome(r))

\* A successful build, recorded when no process will be killed any more, becomes
\* the current repository (repositories.rst:60-63).
SuccessRecorded(r) ==
    /\ crashes = MaxCrash
    /\ \E p \in Proc : pc[p] = "record" /\ job[p].outcome = "ok" /\ job[p].rev = r

SuccessIsPublished == \A r \in Rev : SuccessRecorded(r) ~> links["current"] = r

\* The same, provided no process that was killed has left its temporary link.
PublishedUnlessStale ==
    \A r \in Rev :
        (SuccessRecorded(r) /\ \A d \in LinkName : tmp[d] = None) ~> links["current"] = r

\* db.py:229: rows with status RETRY are ignored "as we want to retry these":
\* a revision put to RETRY eventually has another outcome.
RetriesAreRetried ==
    \A r \in Rev : (\E i \in Live(db) : db[i].rev = r /\ db[i].status = "RETRY") ~> HasOutcome(r)

\* remote.py:70: a revision is not imported when a newer one has been built.
ImportIsNewer ==
    [][\A p \in Importer :
          pc[p] = "record" /\ Len(db') > Len(db) => ~NewerBuilt(db, job[p].rev)]_vars

\* Seen from outside, with rechecks that are not forced, the installation makes
\* the steps of module Repository and no other: a result is recorded before it
\* is published, current before it is consistent, consistent before the vote.
Repo == INSTANCE Repository WITH db <- db, links <- links

ImplementsRepository == Repo!Spec

-----------------------------------------------------------------------------
(* The inductive invariant behind LockHeld and ImplementsRepository.       *)

\* What a process is about to do agrees with the table and with the links.
JobMatches(p) ==
    LET j == job[p] IN
    /\ pc[p] \in Locked \cup {"wait"} => j.rev \in Rev
    /\ pc[p] \in {"wait", "post"} => ~j.consistent
    /\ pc[p] = "post" => j.outcome = "ok"
    /\ j.consistent => p = Main /\ j.outcome = "ok"
    /\ pc[p] \in {"symlink", "rename"} =>
          j.dirnames \in IF j.consistent
                         THEN {<<"current", "consistent">>, <<"consistent">>}
                         ELSE {<<"current">>}
    /\ pc[p] \in {"symlink", "rename", "vote"} =>
          j.id \in DOMAIN db /\ db[j.id].rev = j.rev
    /\ pc[p] = "rename" => tmp[Head(j.dirnames)] = j.rev
    /\ pc[p] \in {"symlink", "rename"} /\ j.dirnames = <<"consistent">> =>
          links["current"] = j.rev
    /\ pc[p] = "vote" => j.consistent /\ links["consistent"] = j.rev

\* From post_build to the vote, no recheck, bootstrap or import makes untrue
\* what "consistent" was computed from.
StaysConsistent(p) ==
    LET j == job[p] IN
    ~AllowForce /\ j.consistent /\ pc[p] \in {"record", "symlink", "rename", "vote"} =>
        /\ FailedOthers(db, j.rev.pkg) = {}
        /\ pc[p] # "record" =>
              Latest(RowsOf(db, j.rev.pkg)) = {j.id} /\ db[j.id].status = "SUCCESS"

\* The lock is held by who is in the block, who works on what it recorded; with
\* rechecks not forced, "consistent" stays deserved until the vote.
BlockInv == LockHeld /\ \A p \in Proc : JobMatches(p) /\ StaysConsistent(p)
=============================================================================

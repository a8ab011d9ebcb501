------------------------------- MODULE Worker -------------------------------
(***************************************************************************)
(* The life of one project built in Koji with rhpkg: after a first run with*)
(* --order, whose order module BuildOrder computes, runs refresh its clone *)
(* (module GitRepo), list what is new, build it with workers that share    *)
(* the clone and the distgit, and report failures.  Imports of builds that *)
(* failed elsewhere refresh the same clone.                                *)
(*                                                                         *)
(* The source repository is the project's only one; its distgit has one    *)
(* branch, on which the commits are numbered.                              *)
(***************************************************************************)
EXTENDS CommitDB, GitRepo, BuildOrder

CONSTANTS
    Project,
    Settings,     \* the options a package and projects.ini may have
    Upstream,     \* the branches upstream may start with
    SpecLists,    \* the lists of spec files the first run may read
    MaxRetries,   \* the option maxretries
    Workers,      \* the option workers
    Stop,         \* the command line flag --stop
    Day,          \* 24 hours, in whole ticks of the clock
    MaxTime,      \* bound: the clock
    MaxRename,    \* bound: branches upstream renames
    MaxRuns,      \* bound: runs of dlrn
    MaxImport,    \* bound: imports of failed builds
    MaxTrouble    \* bound: calls to git, rhpkg and the mail server that fail oddly, and kills

ASSUME WorkerAssumption ==
    /\ Package = {Project}
    /\ Settings \subseteq GitOptions
    /\ Upstream \subseteq [Branch -> SUBSET (1..MaxCommit)]
    /\ \A upstream \in Upstream : upstream["master"] \cup upstream["main"] # {}
    /\ \A c \in 1..MaxCommit : DtCommit[c] = c
    /\ MaxDistro # 0
    /\ \A list \in SpecLists : list \in Seq(SpecFile) /\ SpecFile = {list[i] : i \in DOMAIN list}
    /\ None \notin Branch
    /\ MaxRetries \in Nat
    /\ Workers \in Nat \ {0}
    /\ Stop \in BOOLEAN
    /\ Day \in Nat
    /\ MaxTime \in Nat /\ MaxRename \in Nat /\ MaxRuns \in Nat
    /\ MaxImport \in Nat /\ MaxTrouble \in Nat

VARIABLES
    remote,    \* upstream: the branches of the source repository
    tip,       \* upstream: the newest commit of the distgit
    clone,     \* the clone of the source repository
    checkout,  \* the distgit commit that is checked out
    settings,
    db,        \* the commits table
    branches,  \* commit_branch of each row
    scanned,   \* the branch the last scan was on
    phase,     \* "order", "idle" or "build"
    queue,     \* toprocess, with the state of each build
    next,      \* the entry whose result the main process waits for
    report,    \* the failed result in work, under remote.lck
    email,     \* last_email of the project
    clock

\* History and counts
VARIABLES
    own,        \* the commits rhpkg has pushed to the distgit: of which source commit, and
                \* which distgit commit it was
    unknown,    \* those of them the worker did not get to know of
    overlap,    \* two workers have been at work at the same time, or an import during a run
    disturbed,  \* or something moved the clone under a worker
    mailed,     \* when the last e-mail was sent
    excused,    \* a process died with an e-mail sent and not recorded
    renames, runs, imports, trouble

repoVars == <<remote, tip, clone, checkout, settings>>
tableVars == <<db, branches, scanned>>
runVars == <<phase, queue, next>>
mailVars == <<report, email, mailed, excused>>
traceVars == <<own, unknown, overlap, disturbed>>
countVars == <<renames, runs, imports, trouble>>
vars == <<orderVars, repoVars, tableVars, runVars, mailVars, clock, traceVars, countVars>>

\* How far build_worker has come with a commit; the last three are results.
Result == {"ok", "known", "error"}
BuildState == {"todo", "checked out", "copied", "pushed"} \cup Result

\* "source" is the commit whose tree went into the source rpm.
Entry == [commit : 1..MaxCommit, branch : Branch, distro : 1..MaxDistro, source : 0..MaxCommit,
          state : BuildState]

NewEntry(c, b, d) == [commit |-> c, branch |-> b, distro |-> d, source |-> 0, state |-> "todo"]

\* A failure process_build_result works on: "sent" is the time of the e-mail.
Report == [entry : Entry, import : BOOLEAN, pc : {"notify", "record"}, sent : Nat]

ASSUME NoReportAssumption == None \notin Report

RevOf(entry) == [pkg |-> Project, commit |-> entry.commit, distro |-> entry.distro]

NoOrder == [s \in SpecFile |-> {}]

Init ==
    /\ \E graph \in [SpecFile -> SUBSET SpecFile], list \in SpecLists :
          /\ \A s \in SpecFile : s \notin graph[s]
          /\ InitOrder(graph, list)
    /\ remote \in Upstream
    /\ tip = 1
    /\ clone = NoClone
    /\ checkout = 1
    /\ settings \in Settings
    /\ db = <<>> /\ branches = <<>> /\ scanned = None
    /\ phase = "order" /\ queue = <<>> /\ next = 1
    /\ report = None
    /\ email = 0
    /\ clock = Day + 1
    /\ own = {} /\ unknown = {} /\ overlap = FALSE /\ disturbed = FALSE
    /\ mailed = 0 /\ excused = FALSE
    /\ renames = 0 /\ runs = 0 /\ imports = 0 /\ trouble = 0

-----------------------------------------------------------------------------
(* Upstream and the clock.  What happens to the source while a run is at   *)
(* work does not matter to it before the next one, and a run is short; its *)
(* distgit it pushes to.  How upstream is before the first run, the        *)
(* constants say.                                                          *)

BetweenRuns == phase = "idle" /\ runs < MaxRuns

UpstreamMoves == BetweenRuns /\ runs # 0

Commits == UNION {remote[b] : b \in Branch}

\* What an installation with the same settings and a new clone finds.
Elsewhere == Refresh(Cloned(remote), remote, settings)

\* Commits on other branches than the one the project follows change nothing.
PushSource ==
    /\ UpstreamMoves /\ report = None
    /\ Tip(Commits) < MaxCommit
    /\ \E b \in {Elsewhere.branch} \ {None, "eol"} :
         /\ remote' = [remote EXCEPT ![b] = @ \cup {Tip(Commits) + 1}]
    /\ UNCHANGED <<orderVars, tip, clone, checkout, settings, tableVars, runVars, mailVars, clock,
                   traceVars, countVars>>

\* A release is not maintained any more, then it is at its end of life; or the
\* default branch gets another name.
Renames == {<<"wanted", "unmaintained">>, <<"wanted", "eol">>, <<"unmaintained", "eol">>,
            <<"master", "main">>}

RenameBranch ==
    /\ UpstreamMoves /\ report = None
    /\ renames < MaxRename
    /\ renames' = renames + 1
    /\ \E r \in Renames :
         /\ remote[r[1]] # {} /\ remote[r[2]] = {}
         /\ remote' = [remote EXCEPT ![r[1]] = {}, ![r[2]] = remote[r[1]]]
    /\ UNCHANGED <<orderVars, tip, clone, checkout, settings, tableVars, runVars, mailVars, clock,
                   traceVars, runs, imports, trouble>>

PushDistgit ==
    /\ UpstreamMoves \/ phase = "build"
    /\ tip < MaxDistro
    /\ tip' = tip + 1
    /\ UNCHANGED <<orderVars, remote, clone, checkout, settings, tableVars, runVars, mailVars, clock,
                   traceVars, countVars>>

\* Until the first e-mail nothing depends on the time.
Tick ==
    /\ BetweenRuns /\ report = None
    /\ mailed # 0
    /\ clock < MaxTime
    /\ clock' = clock + 1
    /\ UNCHANGED <<orderVars, repoVars, tableVars, runVars, mailVars, traceVars, countVars>>

-----------------------------------------------------------------------------
(* The main process                                                        *)

Ordering ==
    /\ phase = "order"
    /\ ComputeOrder
    /\ UNCHANGED <<repoVars, tableVars, runVars, mailVars, clock, traceVars, countVars>>

\* The commits are sorted, and the order is forgotten.
Ordered ==
    /\ phase = "order"
    /\ Computed
    /\ phase' = "idle"
    /\ requires' = NoOrder /\ specs' = <<>> /\ nextspec' = 1
    /\ color' = [s \in SpecFile |-> 0] /\ orders' = <<>>
    /\ UNCHANGED <<stack, repoVars, tableVars, queue, next, mailVars, clock, traceVars, countVars>>

\* db.getLastBuiltCommit; dt_build grows with the id.
LastBuilt(b) == Latest({i \in RowsOf(db, Project) \cap Processed(db) : branches[i] = b})

\* shell.getinfo: the commits of HEAD since the last one processed on the branch
\* asked for; when the last one was of another branch, only the newest one.
Listed(history) ==
    LET last == LastProcessed(db, Project)
        Newer(i) == {c \in history : c >= Dt(db[i].rev)}
    IN IF last # {} /\ \A i \in last : branches[i] = "wanted" THEN UNION {Newer(i) : i \in last}
       ELSE {Tip(history)} \cap
            (IF last = {} \/ LastBuilt("wanted") = {} THEN history
             ELSE UNION {Newer(i) : i \in LastBuilt("wanted")})

InOrder(S) ==
    {s \in [1..Cardinality(S) -> S] : \A i, j \in DOMAIN s : i < j => s[i] < s[j]}

\* refreshrepo of the source: a directory that is not there is cloned, and so is
\* one that is no repository or has another URL; when upstream cannot be reached
\* the clone is removed.
Refreshed(case) ==
    IF case = "unreachable" THEN [branch |-> None, clone |-> NoClone]
    ELSE Refresh(IF case = "damaged" \/ ~clone.there THEN Cloned(remote) ELSE clone,
                 remote, settings)

Troubled(case) ==
    /\ case # "fine" => trouble < MaxTrouble
    /\ trouble' = IF case # "fine" THEN trouble + 1 ELSE trouble

\* getinfo of the driver (both clones) and _add_commits.  Without a branch the
\* project is skipped.
Scan ==
    /\ phase = "idle"
    /\ runs < MaxRuns
    /\ runs' = runs + 1
    /\ \E case \in {"fine", "damaged", "unreachable"} :
         LET result == Refreshed(case)
             b == result.branch
             history == IF b = "eol" THEN remote[b] ELSE result.clone.local[b]
             found == IF b = None THEN {}
                      ELSE {c \in Listed(history) :
                              ~AlreadyHandled(db, [pkg |-> Project, commit |-> c, distro |-> tip])}
         IN
         /\ Troubled(case)
         /\ clone' = result.clone
         /\ scanned' = b
         /\ \E list \in InOrder(found) :
               queue' = [i \in DOMAIN list |-> NewEntry(list[i], b, tip)]
         /\ phase' = IF found = {} THEN "idle" ELSE "build"
    /\ checkout' = tip
    /\ UNCHANGED <<orderVars, remote, tip, settings, db, branches, next, mailVars, clock, traceVars,
                   renames, imports>>

PushedByUs == {push[2] : push \in own}

\* What was pushed and is not in the table when a run ends early.
Unrecorded ==
    {push[2] : push \in {o \in own :
        \A i \in DOMAIN db : db[i].rev.commit # o[1] \/ db[i].rev.distro # o[2]}}

EndRun ==
    /\ phase' = "idle"
    /\ queue' = <<>>
    /\ next' = 1

-----------------------------------------------------------------------------
(* The workers: build_srpm.sh and the driver for Koji                      *)

Active == {i \in DOMAIN queue : queue[i].state \notin Result \cup {"todo"}}

Becomes(i, state) == queue' = [queue EXCEPT ![i].state = state]

\* Someone else has checked out a commit and has not yet copied the tree.
InUse(i) == \E j \in DOMAIN queue : j # i /\ queue[j].state = "checked out"

\* The pool hands out the commits in their order.  git checkout -f of the
\* commit; without a clone the script fails.
Begin(i) ==
    /\ queue[i].state = "todo"
    /\ \A j \in 1..(i - 1) : queue[j].state # "todo"
    /\ Cardinality(Active) < Workers
    /\ overlap' = (overlap \/ Active # {})
    /\ IF clone.there
       THEN /\ clone' = Checkout(clone, queue[i].commit)
            /\ disturbed' = (disturbed \/ InUse(i))
            /\ Becomes(i, "checked out")
       ELSE /\ Becomes(i, "error")
            /\ UNCHANGED <<clone, disturbed>>
    /\ UNCHANGED <<remote, tip, checkout, settings, phase, next, own, unknown, trouble>>

\* cp -pr of the tree, and the source rpm made of it.
Copy(i) ==
    /\ queue[i].state = "checked out"
    /\ IF clone.there
       THEN queue' = [queue EXCEPT ![i].state = "copied", ![i].source = clone.at]
       ELSE Becomes(i, "error")
    /\ UNCHANGED <<repoVars, phase, next, traceVars, trouble>>

\* The script fails, perhaps with one of the errors that are known to pass.
SourceFails(i) ==
    /\ queue[i].state = "checked out"
    /\ \E state \in {"known", "error"} : Becomes(i, state)
    /\ UNCHANGED <<repoVars, phase, next, traceVars, trouble>>

\* rhpkg import and commit -p, from a distgit that is up to date.
Push(i) ==
    /\ queue[i].state = "copied"
    /\ checkout = tip
    /\ tip < MaxDistro
    /\ tip' = tip + 1
    /\ checkout' = tip + 1
    /\ own' = own \cup {<<queue[i].commit, tip + 1>>}
    /\ UNCHANGED <<remote, clone, settings, phase, next, overlap, disturbed>>
    /\ \/ Becomes(i, "pushed") /\ UNCHANGED <<unknown, trouble>>
       \* The commit arrives, but the command fails or is timed out.
       \/ /\ trouble < MaxTrouble
          /\ trouble' = trouble + 1
          /\ unknown' = unknown \cup {tip + 1}
          /\ Becomes(i, "error")

\* Nothing is pushed: not a fast-forward, no ticket, nothing to commit.
PushFails(i) ==
    /\ queue[i].state = "copied"
    /\ Becomes(i, "error")
    /\ UNCHANGED <<repoVars, phase, next, traceVars, trouble>>

\* build_package: the build has failed when rhpkg has or is timed out (the task
\* is then cancelled, if it is found), when the log names no task, and when a
\* tag or the logs cannot be had.
BuildEnds == {"ok", "error"}

KojiBuild_Extended(i) ==
    /\ queue[i].state = "pushed"
    /\ \E state \in BuildEnds : Becomes(i, state)
    /\ UNCHANGED <<repoVars, phase, next, traceVars, trouble>>

\* The commit's distro_hash becomes that of HEAD, and its directory is renamed
\* accordingly.  Then rhpkg build, whose exception is raised in the end.
KojiBuild(i) ==
    /\ queue[i].state = "pushed"
    /\ \E state \in BuildEnds :
          queue' = [queue EXCEPT ![i].state = state, ![i].distro = checkout]
    /\ UNCHANGED <<repoVars, phase, next, traceVars, trouble>>

WorkerStep(i) ==
    /\ Begin(i) \/ Copy(i) \/ SourceFails(i) \/ Push(i) \/ PushFails(i) \/ KojiBuild(i)
    /\ UNCHANGED <<orderVars, tableVars, mailVars, clock, renames, runs, imports>>

-----------------------------------------------------------------------------
(* Results, one at a time under remote.lck                                 *)

AddRow_NoBranch(entry, status) ==
    /\ db' = Append(db, [rev |-> RevOf(entry), status |-> status, vote |-> FALSE, gone |-> FALSE])
    /\ UNCHANGED <<branches, scanned>>

AddRow(entry, status) ==
    /\ db' = Append(db, [rev |-> RevOf(entry), status |-> status, vote |-> FALSE, gone |-> FALSE])
    /\ branches' = Append(branches, entry.branch)
    /\ UNCHANGED scanned

\* After a result the run goes on, or it has ended.
NextResult == IF next < Len(queue) THEN next' = next + 1 /\ UNCHANGED <<phase, queue>> ELSE EndRun

Retried(entry) == entry.state = "known" /\ TimesRetried(db, RevOf(entry)) < MaxRetries

\* A result that makes no report: a success, or an error that is retried,
\* which with --stop ends the run without a row.
TakeResult ==
    /\ phase = "build"
    /\ report = None
    /\ LET entry == queue[next] IN
       \/ /\ entry.state = "ok"
          /\ AddRow(entry, "SUCCESS")
          /\ NextResult
          /\ UNCHANGED unknown
       \/ /\ Retried(entry)
          /\ IF Stop THEN EndRun /\ unknown' = unknown \cup Unrecorded /\ UNCHANGED tableVars
             ELSE AddRow(entry, "RETRY") /\ NextResult /\ UNCHANGED unknown
    /\ UNCHANGED <<orderVars, repoVars, mailVars, clock, own, overlap, disturbed,
                   countVars>>

NewReport(entry, import) == [entry |-> entry, import |-> import, pc |-> "notify", sent |-> 0]

TakeFailure ==
    /\ phase = "build"
    /\ report = None
    /\ queue[next].state \in {"known", "error"}
    /\ ~Retried(queue[next])
    /\ report' = NewReport(queue[next], FALSE)
    /\ UNCHANGED <<orderVars, repoVars, tableVars, runVars, email, mailed, excused, clock, traceVars,
                   countVars>>

\* import_commit of a build that failed elsewhere, of the newest commit.  Under
\* the lock the clones are refreshed, to have them there, whatever the workers
\* do with them; when that fails the import goes on.
Import ==
    /\ imports < MaxImport
    /\ imports' = imports + 1
    /\ BetweenRuns \/ phase = "build"
    /\ report = None
    /\ Elsewhere.branch # None
    /\ LET c == Elsewhere.clone.at
           entry == [NewEntry(c, Elsewhere.branch, tip) EXCEPT !.source = c, !.state = "error"]
       IN
       /\ ~NewerBuilt(db, RevOf(entry))
       /\ report' = NewReport(entry, TRUE)
    /\ \E case \in {"fine", "unreachable"} :
         /\ Troubled(case)
         /\ clone' = Refreshed(case).clone
    /\ checkout' = tip
    /\ disturbed' = (disturbed \/ Active # {})
    /\ overlap' = (overlap \/ phase = "build")
    /\ UNCHANGED <<orderVars, remote, tip, settings, tableVars, runVars, email, mailed, excused, clock,
                   own, unknown, renames, runs>>

Suppressed_Never == FALSE

\* suppress_email
Suppressed == clock - email <= Day

\* sendnotifymail.  An error of the mail server is logged; a server that cannot
\* be reached ends the process instead (notifications.py:105).
Notify ==
    /\ report # None
    /\ report.pc = "notify"
    /\ \/ /\ Suppressed
          /\ report' = [report EXCEPT !.pc = "record"]
          /\ UNCHANGED <<mailed, trouble, runVars, unknown>>
       \/ /\ ~Suppressed
          /\ report' = [report EXCEPT !.pc = "record", !.sent = clock]
          /\ mailed' = clock
          /\ UNCHANGED <<trouble, runVars, unknown>>
       \/ /\ ~Suppressed
          /\ trouble < MaxTrouble
          /\ trouble' = trouble + 1
          /\ report' = None
          /\ IF report.import THEN UNCHANGED <<runVars, unknown>>
             ELSE EndRun /\ unknown' = unknown \cup Unrecorded
          /\ UNCHANGED mailed
    /\ UNCHANGED <<orderVars, repoVars, tableVars, email, excused, clock, own, overlap, disturbed,
                   renames, runs, imports>>

\* The row and the time of the e-mail, in one transaction; with --stop neither.
Record ==
    /\ report # None
    /\ report.pc = "record"
    /\ report' = None
    /\ IF Stop /\ ~report.import
       THEN /\ EndRun
            /\ excused' = (excused \/ report.sent # 0)
            /\ unknown' = unknown \cup Unrecorded
            /\ UNCHANGED <<tableVars, email>>
       ELSE /\ AddRow(report.entry, "FAILED")
            /\ email' = IF report.sent # 0 THEN report.sent ELSE email
            /\ IF report.import THEN UNCHANGED runVars ELSE NextResult
            /\ UNCHANGED <<excused, unknown>>
    /\ UNCHANGED <<orderVars, repoVars, mailed, clock, own, overlap, disturbed, countVars>>

\* An importer is killed, or the main process and the workers with it.
Kill ==
    LET importing == report # None /\ report.import IN
    /\ trouble < MaxTrouble
    /\ trouble' = trouble + 1
    /\ \/ importing /\ report' = None /\ UNCHANGED runVars
       \/ phase = "build" /\ EndRun /\ report' = IF importing THEN report ELSE None
    /\ excused' = (excused \/ (report' # report /\ report.sent # 0))
    /\ unknown' = unknown \cup Unrecorded
    /\ UNCHANGED <<orderVars, repoVars, tableVars, email, mailed, clock, own, overlap, disturbed,
                   renames, runs, imports>>

Next ==
    \/ PushSource \/ RenameBranch \/ PushDistgit \/ Tick
    \/ Ordering \/ Ordered \/ Scan
    \/ \E i \in DOMAIN queue : WorkerStep(i)
    \/ TakeResult \/ TakeFailure \/ Import \/ Notify \/ Record \/ Kill

Spec == Init /\ [][Next]_vars

-----------------------------------------------------------------------------
(* Properties                                                              *)

TypeOK ==
    /\ OrderTypeOK
    /\ remote \in [Branch -> SUBSET (1..MaxCommit)]
    /\ tip \in 1..MaxDistro
    /\ clone \in Clone /\ clone.at <= MaxCommit
    /\ \A b \in Branch : clone.local[b] \subseteq 1..MaxCommit
    /\ checkout \in 1..tip
    /\ settings \in GitOptions
    /\ db \in Seq(Row)
    /\ branches \in Seq(Branch) /\ Len(branches) = Len(db)
    /\ scanned \in Branch \cup {None}
    /\ phase \in {"order", "idle", "build"}
    /\ queue \in Seq(Entry)
    /\ next \in Nat
    /\ report \in Report \cup {None}
    /\ email \in Nat /\ clock \in Nat
    /\ own \subseteq (Nat \X Nat) /\ unknown \subseteq PushedByUs
    /\ overlap \in BOOLEAN /\ disturbed \in BOOLEAN
    /\ mailed \in Nat /\ excused \in BOOLEAN
    /\ renames \in Nat /\ runs \in Nat /\ imports \in Nat /\ trouble \in Nat

\* A run looks at what upstream has now, on the branch that is asked for while
\* upstream has that, else on one the options allow: what an earlier run or a
\* build left in the clone is never what the next run builds.  Only a default
\* branch which upstream has renamed since may linger.
RefreshIsUpstream ==
    [][runs' # runs /\ scanned' # None =>
         /\ remote[scanned'] # {} =>
                /\ clone'.at = Tip(remote[scanned'])
                /\ \A i \in DOMAIN queue' : queue'[i].commit \in remote[scanned']
         /\ remote[scanned'] = {} => scanned' \in {"master", "rpm-master"}
         /\ scanned' # "wanted" => remote["wanted"] = {} /\ ~settings.nonfallback
         /\ scanned' \in {"master", "main"} =>
                settings.fallback /\ remote["unmaintained"] = {} /\ remote["eol"] = {}]_<<runs, scanned, clone, queue, remote>>

\* common-functions:82, "Reset the git repository to the right commit": the source
\* rpm of a build is made of the tree of the commit its row names.  The workers and
\* the imports of a project share one clone, and nothing keeps them apart between
\* the checkout and the copy.
SourcesMatch == \A i \in DOMAIN queue : queue[i].source # 0 => queue[i].source = queue[i].commit

\* kojidriver.py:191, "The distgit update will trigger yet another build on the
\* next run, causing an endless loop": a commit that a build has pushed to the
\* distgit is listed again only when the distgit has moved since by what others
\* pushed, or by a push of a build that did not get to know of it, provided no
\* two builds were in progress at once, nor an import and a run (a run killed
\* after an import has recorded a newer commit than its own last row goes back
\* to the commits between them).
OwnPushesAreKnown ==
    [][runs' # runs /\ ~overlap /\ ~disturbed =>
         \A i \in DOMAIN queue', push \in own :
            push[1] = queue'[i].commit /\ push[2] \notin unknown =>
               \E d \in (push[2] + 1)..tip : d \notin PushedByUs \/ d \in unknown]_<<runs, queue>>

\* db.py:126, "if the last email sent for this project was less then 24 hours
\* ago": two e-mails are more than a day apart, unless a process died before it
\* recorded the first one, or was told to --stop.
MailsApart ==
    [][report # None /\ report' # None /\ report'.sent # report.sent =>
         excused \/ mailed = 0 \/ report'.sent - mailed > Day]_<<report, mailed, excused>>
=============================================================================

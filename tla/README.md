# DLRN in TLA+

DLRN watches the source and the packaging (distgit) repositories of a set of
projects, builds an RPM for every new commit, and publishes a repository per
built revision with two links that move over time: `current` (the newest
success) and `consistent` (the newest one at which no project was failing).
This directory holds a TLA+ model of it, the TLC configurations that check the
model on small instances, and proofs for every value of the constants.
Paths such as `shell.py:731` are relative to `src/dlrn/`; those ending in
`.rst` to `src/doc/source/`.

To check a configuration: `tlc -config MCBuildRun_crash.cfg MCBuildRun`.
To check the proofs: `tlapm M.tla` for each module whose name ends in `_proofs`.

## Inventory

| component | state it keeps | operations | interacts with |
|---|---|---|---|
| commits table (`db.py`, `utils.py`) | rows of `commits` in id order, with status SUCCESS, FAILED or RETRY | INSERT of a result, DELETE by a recheck, status to RETRY after a bootstrap run, flag of a purge; the queries all others decide with | everything |
| dlrn run (`shell.py`, `build.py`) | `toprocess`, the pool, the loop over results | scan, sort, build, take results in queue order, bootstrap marks, `--recheck`, `--stop` | reads and writes the table, holds `remote.lck` while it processes a result |
| result processing (`shell.py`, `rsync.py`) | repository directories, links `current`, `consistent`, their temporary names, the vote `consistent` in `civotes` | `post_build`, `process_build_result`, `sync_repo`, `sync_symlinks` | called by the run and by imports, under the lock |
| remote import (`remote.py`, `dlrn_api.py:917`) | none of its own | `import_commit` | table, directories, lock |
| recheck of the API (`dlrn_api.py:1107`) | none | deletes the newest outcome | table, without the lock |
| promotions (`dlrn_api.py:661-914`, `utils.py:360-425`) | a link per promotion name and component, rows of `promotions`, aggregated files in `repos/<name>/xx/yy/<hash>` and the links to them | promote, promote a batch, roll back, aggregate | links, table, purge |
| CI votes (`dlrn_api.py:173-655`) | rows of `civotes`, `civotes_agg` | report a result, ask for (and announce a test of) the last tested repository | table, promotions |
| purge (`purge.py`) | flag PURGED, directories | remove old directories, keep each project's newest success and what excluded directories show, remove old aggregated files | table, directories, links |
| build order (`rpmspecfile.py`) | the stack and the colors of a depth first search | `compute_order` over BuildRequires | `--order` |
| git repositories (`repositories.py`) | clones | `refreshrepo` with its fallbacks | scan, import of a failed build |
| package info drivers (`drivers/rdoinfo.py`, `gitrepo.py`, `local.py`, `downstream.py`) | clones, `versions.csv` | `getinfo`, `getpackages`, `preprocess` | scan, build |
| build drivers (`drivers/mockdriver.py`, `coprdriver.py`, `kojidriver.py`) | tasks outside, the distgit (rhpkg pushes to it) | build a package, wait, fetch logs | build |
| API authentication (`api/drivers/`) | cache of roles, the object that asks IPA | authenticate, look up roles | every request that writes |
| notifications (`notifications.py`, `db.py:129`) | `projects.last_email` | e-mail, Gerrit review | result processing |
| users (`user.py`) | rows of `users` | create, delete, change a password | authentication, rows that name their user |
| reports, metrics, configuration, migrations | little or none | rendering, parsing | - |

Hard to test, and where the properties aim (the full list, each at its line,
is in `PROJECT.json` under `hazards`):

- several processes: one `dlrn` run with its pool, any number of imports, and
  rechecks from the command line or the API, of which only result processing
  takes the lock;
- results exist only in memory until they are recorded; a kill can come between
  any two effects, and the next run has nothing but the table, the directories
  and the links to start from;
- what to build next is decided by dates and by row ids, while dates repeat,
  RETRY rows are invisible to most queries, and rows are deleted;
- `consistent` is computed, recorded, linked and voted for in four steps;
- rsync, builds and fetches fail; `--stop` throws results away;
- a promotion is a dozen steps on links and files nothing locks, several
  requests can be at it at once, and a failure in the middle is undone by hand;
- the purge reads the table once, removes directories one by one and stores what
  it did at the end, while everything else goes on;
- threads of the API share a dictionary of roles that is filled in three steps;
- workers, runs and imports share one clone per project, and check out what they
  need in it; builds with rhpkg push to the distgit the next run looks at.

What makes the components correct: a revision gets one outcome and every tip
eventually has one; the table lists outcomes in the order of the history;
`consistent` and its vote are only given when nothing fails at that moment, and
stay backed by a row; a success becomes `current`; the lock makes result
processing one at a time; retries are bounded and do happen. Links, aggregated
files and rows of promotions agree, and a batch happens or is undone. A job in a
pipeline tests what the job before has voted for. The purge keeps what anybody
still needs, and the flags say what is gone. Roles are no older than the cache
allows. What is built is the commit the row names, of the branch upstream has,
and a build does not cause the next one. Mails are a day apart.

## Modules

```
              Publish ------- BuildRun ------ MCBuildRun (8 cfg files)
             /                |     |
CommitDB ---+---- Repository <+     +-- BuildRun_proofs, Outcomes_proofs
   |        |   (implemented by)
   |        +---- Purge ------------- MCPurge, Purge_proofs
   |       Promotions
   |        +---- CIVotes ---+
   |                         +- Api - MCApi
   |       Threads --- Auth -+   |
   |                             +--- Api_proofs, Requests_proofs
   +-- Worker ----------------------- MCWorker, Worker_proofs
   |    |   |
   |  GitRepo BuildOrder ------------ BuildOrder_proofs
   +-- CommitDB_proofs
```

A line means EXTENDS (`Promotions` extends `CommitDB` and `Threads`), and
INSTANCE at `Repository`. Four configurations of the system are composed and
checked: builds and imports (`BuildRun`), the purge beside builds and promotions
(`Purge`), the API server (`Api`), and one project with its clones, its build
driver and its mails (`Worker`). The commits table and its queries, module
`CommitDB`, are the same in all of them.

`CommitDB` - the table and the queries, without a variable. A table is a
sequence of rows; a row's index is its id and a deleted row stays as a
tombstone, so ids grow the way they do in the database. A revision (`Rev`) is a
source commit of a project together with the distgit commit that packages it;
its number stands for its hash and `DtCommit` gives its date, which several
commits may share. A query that ends in `.first()` is the set of rows it may
return.

`Publish` - the block under `remote.lck`. Its variables are the table, the two
links, their temporary names, which rpms of other projects are linked in a
repository directory, the lock, and for each process its place in the block and
the result it works on. One action per effect another process or a crash can
see:

| place (`pc`) | code | action |
|---|---|---|
| wait | `lock_file` | `Acquire` |
| post | `post_build_rpm` (skipped after a failed build) | `PostBuild`, or `RpmExists` raises |
| record | status, `--stop`, `sync_repo`, INSERT and commit: `shell.py:597-703` | `Record`, or `Discard` |
| symlink | `shell.py:731` | `Symlink`, or `RowGone`, `TempExists` raise |
| rename | `shell.py:733` | `Rename` |
| vote | `shell.py:745-753` | `Vote`, or `VoteRefused` raises |
| release | end of the `with` block | `Release` |

`RecheckCommit` is `dlrn --recheck` (and, not forced, `recheck_package` of the
API); it runs beside all this without the lock.

`BuildRun` - the installation: pushes upstream, runs of `dlrn` one after
another, imports, rechecks, exceptions and kills. A run scans the projects in
any order (the pool of getinfo), each project in one step; sorts the queue by
date, or project by project with `--order` (which implies `--sequential`);
builds with `Workers` at a time; takes the results in the order of the queue;
and after a full run with `--order` marks bootstrapped packages as RETRY.

`Promotions` - what `promote` and `promote_batch` do, as a record of its place
and its local variables per thread. One action per effect another request can
see:

| place | code | action |
|---|---|---|
| check | `dlrn_api.py:676-704`, `775-811` | `Check` |
| look | `lexists`, and for a batch the second look for the commit and the entry of the `rollback_list`: `816-845` | `Look` |
| unlink | `os.remove` | `Unlink`, which raises when another request was faster |
| link | `os.symlink` | `MakeLink`, or `LinkFails` |
| rollback | `_rollback_batch_promotion`, one entry at a time, whose `os.remove` or `os.symlink` may fail and is ignored | `RollBack` |
| aggregate | `utils.py:362-402`: read through the links of all components, write the hashed directory | `Aggregate` |
| symlink, rename | `utils.py:404-425` for each file | `AggSymlink` (or it raises), `AggRename` |
| insert | `session.commit` | `Insert`, which a database with foreign keys may refuse |

`CIVotes` - the two tables of votes, `getVote` with its three queries as sets of
the votes `.first()` may return, and the requests that use it.

`Auth` - Kerberos: one action per access to the cache (`Lookup`, `CheckAge`,
`ReadCache`, `Clear`, `Stamp`, `Store`), the three calls to IPA with the tries
of `retry_on_error`, and the decision. `names` says whose groups a lookup may
return: `self.ipa` is one attribute for all threads (`krbauthentication.py:165,214`).

`Api` - requests authenticate (by `Auth`, or with a password), then they are
handled; operators change groups, users and the table beside them.

`Purge` - dlrn-purge: the selection (`StartPurge`), one `Visit` per row, whose
outcome `Fate` says, `RemoveDir`, `StoreFlags`, then per promotion name
`ReadProtected` and `RemoveHashes`; killed anywhere. Beside it builds and imports,
as `Repository` sees them but with their directories, the rpms linked in them
and the day they were built, rechecks, and promotions step by step.

`BuildOrder` - `compute_order`: the recursion of `_visit` as a stack of frames.

`GitRepo` - `refreshrepo` as an operator on a clone and upstream's branches
(`Refresh`), without a variable; `Checkout` is what a build does to the clone.

`Worker` - one project built in Koji with rhpkg. First the order of a run with
`--order` is computed; then runs scan (`Scan`: refresh both clones, list, drop
what is handled), hand commits to workers (`Begin`, `Copy`, `Push`, `KojiBuild`,
and their failures), and take results (`TakeResult`, or `TakeFailure`, `Notify`,
`Record`). An import of a build that failed elsewhere refreshes the clone at any
time. Upstream pushes, renames and retires branches between runs.

`Repository` - the abstract specification: the table and the two links only,
five atomic steps (a result is added; current moves to something recorded;
consistent moves to what current leads to while nothing fails; a vote is cast
for it; a last outcome is withdrawn). `ImplementsRepository` says that
`BuildRun`, with rechecks not forced, makes no other visible step.

The modules `..._proofs` hold the theorems, see below. `Outcomes_proofs` extends
`BuildRun_proofs` with what stays true of links and rows, `Requests_proofs` extends
`Api_proofs` with promotions and votes, and `CommitDB_proofs` has the lemmas on the
queries that the others cite.

An operator named `A_Change` is a mutation of `A`, the way a slip in the code
would change it; it shows that the property listed with it in `PROJECT.json`
notices, and nothing else uses it.

## Abstractions

In `BuildRun` and its modules:

- A build is its outcome: success, failure with a known error in the log,
  other failure. Its directory starts empty (`build.py:317-321`).
- The scan of one project is atomic. A project whose repositories cannot be
  refreshed is skipped in that run.
- Dates do not decrease along the history of a project.
- One `dlrn` run at a time, as a cron job on a fixed schedule starts them
  (doc/specs/zuul-based-architecture.rst); nothing in the code keeps two apart.
  An importer imports one revision, a yaml with several is several
  importers.
- Every query reads what is committed. On a database with repeatable reads the
  session `import_commit` opens before the lock would answer from a snapshot.
- `ForeignKeys` is TRUE where the database enforces them (MariaDB). SQLite does
  not by default; a vote cast after a forced recheck then refers to no row.
- One component; branches are not switched; no extended hashes; the options
  `--run`, `--dev`, `--head-only`, `--no-repo` are not used.
- Reports, `commit.yaml`, e-mails, Gerrit reviews and log files are left out:
  no decision in the model reads them.

In the modules of the API:

- An aggregated file is the list of what it was made of, and its hash that list.
  The three files of a name are a constant sequence `AggFile`; each repeats the
  same two steps.
- Table and users change by a forced recheck and by `dlrn-user` only: new builds
  add rows the requests in progress do not look at.
- A request asks for something that exists, or is refused in one step
  (`Respond`); reads of several rows in one query are one step.
- With `LinkMayFail` any `os.remove` or `os.symlink` of a promotion's link may fail,
  those of a roll back included.
- A job that has announced its test of a revision (`last_tested_repo` with POST
  records a vote in progress) counts as one that has voted for it, in `getVote` and
  in `PipelineOrder`.
- Time is counted in ticks, and a request lasts at most `Patience` of them.

In `Purge`:

- Builds come as `Repository` lets them, one at a time under the lock, each in
  the steps another process can see; known errors are not retried in the
  instance. Ages are days, an rpm is the revision that built it.
- Rechecks are not forced: a forced recheck of the newest success after a purge
  leaves a project without the older ones, by whoever forces it.
- One component, promotions of single commits.
- `mixed`, `raced`, `crossed`, `again` and `lost` are history: they only record what
  a property needs as its condition (a promotion and a purge met, two promotions
  overlapped, a revision was imported a second time, flags were lost).

In `Worker`:

- Commits of the source are numbered by date. On branches the project does not
  follow nothing happens. How upstream is before the first run is among the
  initial states; after it, the source changes between runs and the distgit at
  any time. The clock moves between runs (a run is short), and only after the
  first e-mail, before which nothing depends on it.
- Imports are of the newest commit of the branch the project follows, which
  failed elsewhere. Imports of successes are in `BuildRun`.
- The order of the first run is computed from an arbitrary graph, then
  forgotten: what `BuildRun` does with an order is for any order.
- The distgit has one branch, and its clone is refreshed without the fallback to
  `rpm-master`; packages with `tags_only` or `version-from` are left out.
- Gerrit reviews: the call changes nothing here, and its failure is caught.

Bounds are constants: `MaxCommit` and `MaxDistro` (commits of source and distgit
per project), `MaxPush` (pushes to the two together),
`MaxOrder` (runs with `--order`), `MaxCrash`, `MaxRecheck`, and in the other
modules `MaxBatch`, `MaxVotes`, `MaxCalls`, `MaxAdmin`, `MaxKill`, `MaxTime`,
`Patience`, `MaxDay`, `MaxPromos`, `MaxBuilds`, `MaxTrouble`, `MaxRename`,
`MaxRuns`, `MaxImport`. The number of runs in `BuildRun` is not bounded.

## Runs

| run | instance | shows |
|---|---|---|
| `crash` | 2 projects with 2 commits each, 2 workers, 1 kill, 1 run with `--order`, both projects bootstrapped, rsync may fail, no retries | `TypeOK`; `CleanDirectory`: repeating a build never trips over an earlier attempt; `NothingBuiltTwice`: what was recorded before the kill is not recorded again; `ConsistentIsRecorded`: consistent is a successful row; `ImplementsRepository` |
| `forced` | 2 projects, 2 commits of the same date, 2 distgit commits, a forced recheck at any moment, `--sequential --stop`, rsync may fail | `HistoryOrder`, `NothingBuiltTwice`, `VotedRowStays` |
| `imports` | 2 projects, 2 importers, 2 workers, a recheck, runs for one or all projects | `LockHeld`, `TempInUse`, `BlockInv`, `ConsistentIsClean`, `VoteIsDeserved` |
| `live` | 1 project, 2 pushes to its source (commits with dates of their own) or distgit, 1 importer, 1 retry, a kill, fair | `RetriesBounded`; `TipsAreBuilt`: the last tip comes to have an outcome; `PublishedUnlessStale`: a success becomes current, unless the kill has left a temporary link |
| `retry`, `import_race`, `stale_link`, `shared_distgit`, `sources` | as small as shows it | the disagreements below |
| `purge` | 2 projects, one with an attempt to retry or a failure, 3 days, a purge of what is older than a day with `--exclude-dirs` on consistent, 2 builds or imports, 1 promotion of a name with two aggregated files, and one import, recheck or kill of the purge | `NewestSuccessKept`, `LinksAreComplete`, `FlagsMatchDirs`, `PromotedExists`, `AggregatesKept`, each under the condition its comment gives |
| `requests` | 2 threads, 2 requests, 2 components with a build each, batches of 2, 3 votes, 2 jobs, 1 user whose groups may change, 2 tries, a kill, an act of an operator, links that cannot be made or removed | `RolesAreFresh`; `AggTempInUse`: a temporary link belongs to the request about to rename it; `RollBackRestores`: a batch that fails leaves the links as it found them, but for those it cannot undo; `RecordedIsLinked`: rows, links and aggregated files agree; `PipelineOrder` |
| `project` | every graph of 3 spec files; 2 commits, 3 distgit commits, 2 runs with 2 workers, an import, a renamed branch, a call that fails or a kill, 1 retry, 4 settings of the fallbacks | `RequirementsFirst`; `RefreshIsUpstream`: a run builds what upstream has on the branch it should follow; `OwnPushesAreKnown`: a build is not the cause of the next one; `MailsApart` |

Why the bounds are enough: consistency needs a project that fails and another
that succeeds, hence two; order and skipping need two commits of a project, and
a distgit that moves between them; one retry separates "retried" from "given
up"; the races are between two processes in the block and a third outside of
it (a recheck), and one kill is enough to leave something behind for the next
run. Symmetry of projects and importers is used in safety runs only; these
runs have no temporal property other than action properties and
`ImplementsRepository`, which is an initial condition and a step condition.

A purge needs two projects, so that one's repository links the other's rpm, and
two builds, one to become old and one to replace it. A race of promotions needs
two requests; one batch of two commits covers roll backs of a link named twice
as well as of two. For an entry of the cache one thread has to read what another
is replacing; the proof covers any number. A branch has to be there, to be left
by the clone, and to be asked for again: two runs.

The runs on `BuildRun` keep the deadlock check: a run of `dlrn` can always be
started. `purge`, `requests` and `project` disable it, as requests, builds and
runs are bounded there: when they are used up, the system has nothing to do.

`live` has one project: what projects have in common is the lock, the links and,
with a distgit for all, the check of `shared_distgit`. Liveness with a bootstrap
run, with `--stop` and with two projects is left out, for its size. Forced rechecks
and other rechecks are in the safety runs only: with one at every moment nothing
stays built.

### Fairness

`FairSpec` assumes that runs are started again and again and make progress
(builds and lock holders end: mock, Koji, ssh and requests have time-outs), that
a scan ends, and that the git servers answer now and then (strong fairness of
`ScanPackage`, which a refresh failing each time would otherwise starve).
Pushes, imports, rechecks, crashes and the choice of a build's outcome are not
fair: nobody has to push, and a build may fail forever.

## Disagreements found

Each is a run that expects a violation; `PROJECT.json` quotes the text.

- `retry`: a RETRY revision is not retried when a later commit of its project
  gets an outcome (`db.py:229-237`).
- `import_race`: an import compares with the table before its downloads and
  before the lock, and may record an older revision over a newer one, or a
  revision a second time (`remote.py:70-87,124`).
- `stale_link`: a kill between `symlink` and `rename` stops all later
  publications (`shell.py:731-733`).
- `shared_distgit`: the check by date and distro hash also compares with other
  projects (`shell.py:97-102`), which matters with the gitrepo driver.
- `sources`: with two workers the source rpm of a commit may be made of the tree
  of another, as both use one clone, check out in it and copy it later
  (`common-functions:83-90`, `177`).

Observed on the way, without a run: the same check skips a commit that was pushed
after another one of the same date was built, although it is the later one
(`shell.py:98-102`; `internals.rst:96-101` has every later commit built, the comment
at `shell.py:79-90` only thinks of an earlier one, and says that a change in the
distgit works around it). `TipsAreBuilt` therefore has dates of their own as its
condition: with `MaxCommit = 2`, `MaxPush = 2` and `DtCommit <- SameDates` in
`MCBuildRun_shared_distgit.cfg`, for one project, TLC shows the commit that is
never built. When rsync fails, the row says FAILED but
`current` still moves to that revision (`shell.py:680-733`); a recheck of a
failed commit lets another project's build become consistent before the
rebuild, because the deleted failure no longer counts
(`repositories.rst:88-91`, `shell.py:271`); `--project-name` with a name no
project has leads to a full run (`shell.py:222-228,318`); with SQLite a vote
cast just after a forced recheck refers to a deleted row.

The same for the other modules. Where a property has a condition, this is what
happens without it.

- Promotions: a batch with several names aggregates the last one only
  (`dlrn_api.py:887`); when the aggregation fails the links stay moved and no row
  is added, though the links made before a failing link are undone
  (`api.rst:529`); a link whose removal or symlink fails while it is undone stays
  moved, or is gone (`dlrn_api.py:145-159`: "there is never a 100% guarantee"); a
  request killed between the two steps on a temporary name
  leaves a link that makes every later promotion of that name fail
  (`utils.py:407-412`).
- Votes: the filters on the name in `dlrn_api.py:198` and `209` have no effect. When
  no vote matches a job, the second query also returns "consistent" and votes of
  other components, against the comment at `193-194`, and the third other jobs'.
- Authentication: a lookup of one user's groups may be answered with those of
  another whose request came in between (`krbauthentication.py:165,214`);
  `retry_on_error` never ends when the answer is an empty list (`:53-56`), which
  IPA does not give, as it leaves the key out.
- Purge: the newest success is the one with the largest `dt_build`, the rows are
  visited by id; an import of an older build lets the purge remove every success
  of a project (`purge.py:188-197,222-239`). An old failed row removes the
  directory of its revision while a new attempt is in progress
  (`purge.py:225-234`). Rows without `dt_build` are never selected
  (`db.py:269`), though `purge.py:159` says they are purged. Between the check
  of a promotion and its link a purge may come. `current` is complete between
  builds only. `purge_promoted_hashes` protects the directory the first aggregated
  file leads to (`purge.py:81-102`); when two promotions of a name overlap, the
  other files may lead elsewhere, and lose their directory.
- Build order: with a cycle a member is listed before requirements that are not
  part of it (`rpmspecfile.py:131-146`).
- Branches: `git branch -D` is refused while HEAD is on the branch, which removes
  the clone and skips the project for a run (`repositories.py:78-87`). After
  upstream renames master, the local master stays and is fallen back to
  (`:111,143-147`).
- Builds: what `sources` shows for two workers, the refresh of an import
  (`remote.py:139`) can do too. A push that arrives although rhpkg fails leaves the old hash in the row
  (`kojidriver.py:168,197`), and with two workers HEAD may be the other one's push
  (`kojidriver.py:177`): both cause another build. When an import records the
  newest commit during a run, and the run is killed after it has recorded an older
  one, the older one is the last processed (`db.py:230-237`, by id), and the next run
  builds it again.
- Mails: `finally: s.close()` raises UnboundLocalError when the SMTP server cannot
  be reached, which ends the run with the failure not recorded
  (`notifications.py:97-105`); with `--stop` the time of the mail is not stored
  (`shell.py:634,672`). `notifications.py:40` names a variable that does not
  exist. When rsync fails a review is opened whatever the last build was
  (`shell.py:691-701`, other than `637-646`).

## Proofs

All are checked by TLAPS, for any finite set of projects, any importers, workers,
clients, votes and bounds, from the assumptions named `...Assumption` in the
modules, which every run evaluates: types of the constants, finitely many
projects, `Main` and `None` different from the rest, dates that do not decrease.
In `Promotions` there is at least one aggregated file; in `Api` a table to start
with is not empty and ends with a success, so that there is something to ask for;
in `Worker` the default branch is one of the branches, and a commit's number is
its date.

| theorem | statement |
|---|---|
| `BuildRun_proofs`: `TypeCorrect`, `LockIsHeld`, `BlockIsSound` | `Spec => []TypeOK`, `[]LockHeld`, `[]BlockInv` |
| `ConsistentStaysClean`, `VotesAreDeserved` | `~AllowForce` implies `Spec => ConsistentIsClean`, `VoteIsDeserved` |
| `Implementation` | `~AllowForce` implies `Spec => ImplementsRepository` |
| `Outcomes_proofs`: `TempLinksInUse`, `VotedRowsStay`, `ConsistentStaysRecorded`, `RetriesStayBounded` | `Spec => []TempInUse`, `[]VotedRowStays`, `[]ConsistentIsRecorded`, `[]RetriesBounded` |
| `HistoryCorrect`, `BuiltOnce`, `DirectoryClean` | `Spec => []HistoryOrder`, `[]NothingBuiltTwice`, `[](Importer = {} => CleanDirectory)` |
| `Api_proofs`: `RolesStayFresh` | `Spec => []RolesAreFresh` |
| `Requests_proofs`: `TypeCorrect`, `TempsInUse`, `PipelineCorrect` | `Spec => []TypeOK`, `[]AggTempInUse`, `[]PipelineOrder` |
| `RollBackCorrect` | `Spec => RollBackRestores` |
| `RecordedCorrect` | `ForeignKeys` implies `Spec => RecordedIsLinked` |
| `Worker_proofs`: `TypeCorrect`, `OrderCorrect` | `Spec => []TypeOK`, `[]RequirementsFirst` |
| `MailsCorrect`, `RefreshCorrect` | `Spec => MailsApart`, `RefreshIsUpstream` |
| `Purge_proofs`: `TypeCorrect`, `NewestKept`, `LinksComplete`, `FlagsCorrect`, `AggregatesCorrect` | `Spec => []TypeOK`, `[]NewestSuccessKept`, `[]LinksAreComplete`, `[]FlagsMatchDirs`, `[]AggregatesKept` |
| `PromotedCorrect` | `Spec => PromotedExists` |

### Builds and imports

The inductive invariant is `IInv == TypeOK /\ BlockInv`. `LockHeld` alone says
who is in the block, not what is true there. `JobMatches` adds that the job of a
process agrees with what it has done so far: after `Record` its id is the row of
its revision, before `Rename` the temporary link leads to its revision, the
links left to move tell which have moved. `StaysConsistent` is the heart: from
`PostBuild` to the vote, every other project's newest row is a success and, once
recorded, the job's own row is the newest of its project. It is kept by the
lock (no other process records), and by the fact that a recheck without force
deletes only a project's last FAILED outcome, while a project whose newest row
is a success has that row as its last outcome (`LastProcessedIsNewest`); the
bootstrap marks come when the main process, the only one that computes
consistent, is outside the block.

`AllowForce` has to be FALSE: a forced recheck deletes a success between
`PostBuild` and `Rename`, and consistent then moves although a project has no
outcome. What remains true with force is in run `forced`.

`Outcomes_proofs` builds on `IInv`. `Followers` says what any step can do to a
process inside the block, `TableEffects` which steps touch the table. `NoOrder`
(without a run with `--order` no bootstrap mark is pending) keeps rows from
turning into RETRY, `PendingSuccess` says that who can still vote has recorded a
success, and `Vouches` that a row stands for what consistent leads to. With
`TempLinksInUse`, `os.symlink` can only fail after a crash. For
`RetriesStayBounded` the rows `timesretried` counts are followed through every
change of the table: only `Record` adds one, under its guard, and no recheck
removes one.

`HistoryInv` is what the order of the outcomes needs, since an entry is recorded
long after the scan that found it new (`ScanIsNew`), when rows have been added,
withdrawn or marked RETRY and upstream has moved on. It says that whatever was
found, and whatever is left of the queue, is still after every outcome of its
project in date, packaging and commit (`FoundIsNew`, `QueueIsNew`), that what was
found of one project is of one packaging, that the result being processed is that
of the entry `next` (`InTurn`), and that a build which has begun has an empty
directory until `post_build` (`DirsEmpty`). Recording the entry `next` keeps the rest of
the queue new because the sort is stable (`HistorySort`); everything else only takes
outcomes away (`NoOutcome`). An imported revision may be anything the database does
not call older, at any moment: hence the condition that there are no importers,
which `HistoryOrder` and `NothingBuiltTwice` state themselves. With an importer of
the same revision `post_build` may find the links of the other process in place.

### Requests

`RolesStayFresh` rests on `AgeInv`. That a decision is fresh is seen from the
entry of the cache, and other threads fill entries step by step; so the
invariant says, of every entry with both, that its time stamp is at most twice
`Patience` younger than its groups (`EntryAge`), and of every thread how old what
it holds, or is about to read from the entry, can be at its place (`SessionAge`).
An entry may be stamped by one thread
and filled by another, both of which began within `Patience`: hence twice
`Patience` in the property. Emptying the entry before it is stamped is what the
proof needs at `Clear`: with the old groups left in (the mutation
`Clear_InPlace`) a new stamp would make them look fresh.

`RequestsInv` says of every promotion how far it has come (`Progress`) and that the
rows it will record are of its items (`RowsAreItems`). Of a request that is alone
it adds (`Undisturbed`): a link is as it was found, or the first entry for it in
the `rollback_list` says what was found, so that the list read from its end leads
back there, also when a batch names a link twice (`CanUndo`), or it is among the
links the roll back could not restore (`missed`, which is history); the link of an item
leads to the last item that has it, but while it is about to be made again
(`Linked`); and the aggregated content is what the links show. A recheck may
delete a row between the look and the commit; a database with foreign keys
refuses the promotion then, hence `ForeignKeys` in `RecordedCorrect`. The row of a
vote stays and is the one found for its revision (`VotesOK`), so that a job told of
that revision votes for the build the job before it voted for.

### A project

`OrderInv` is about the depth first search. A path in the graph of requirements
cannot be counted by induction here; instead "x requires y, directly or not" is
said as "every set closed under requirements that has what x requires has y",
and `StackIsPath` states that of any two frames of the stack. A requirement found
on the stack then means a cycle, a finished one has its place, and a project that
is on no cycle is appended after all its spec file requires. That the search ends
is not stated.

`WInv` adds what is true of clone and upstream (`RepoOK`: the default branch is
there, and a local `main` means that upstream has one), and of the last e-mail
(`MailOK`: its time is in the table, or in the report about to be recorded, unless
a process died or `--stop` threw it away). `RefreshCorrect` is then a case analysis over
`refreshrepo` and its fallbacks.

### The purge

`PurgeInv` has a part for rows and directories, which promotions do not touch, and
a part for promotions. A success is `Superseded` when a later success of its
project is there, or when an import has brought the project's builds out of order.
Rows are only added, and a recheck withdraws failures only, so that what is
superseded stays so, while "attempted once" (`AtOnce`) and "in build order" can
only be lost: that is why these two are the conditions of the properties. Then
the purge flags, in the table or in its session, superseded successes only
(`FlagsOK`), the directory of any other is there (`NewestThere`), and the row it
decides about is superseded since it visits rows from the newest on: `full` holds
a project only when a success of it that is newer than all that is left to visit
was seen. What a link shows is the newest success of each project at the moment
the link moved (`WorkOK`, `CurrentOK`) or, for excluded directories, what no step
of the purge removes (`ExcludedOK`); a build that is still between `post_build`
and its links is covered because its row is newer than what the purge selected.

For promotions: none that began while no purge was in progress overlaps one
(`PromosOK`), so that what its check found stays until its link. An aggregated
file leads to a directory that is there; during `purge_promoted_hashes` the
directory read from the first file is protected (`KeptOK`), and the other files
lead to the same one unless a promotion is just moving them (`SettledOK`). Two
promotions in progress together can leave the files of a name apart, and then
the purge may remove the directory of the second: the condition `~crossed`.

### Only model-checked

- The liveness properties (`TipsAreBuilt`, `PublishedUnlessStale`), which are beyond
  this prover.
- `OwnPushesAreKnown`. Its invariant has to follow, beside the distgit and the hash
  of each row through every push, which branches a project has been built from and
  which it may still fall back to: a commit pushed before the last one is not
  listed again because the branches that can follow one another have the same
  history, or the scan asks for what is newer than the last build of the branch
  wanted.
- What is computed by recursion for all inputs. That a finite set of row ids has a
  largest (`LatestExists`) is proved by well-founded minimality instead.

## Plan

1. (done) `CommitDB`, `Publish`, `BuildRun`, `Repository`, their runs and
   theorems.
2. (done) `Promotions`, `CIVotes`, `Auth`, `Api`; `Purge`; `BuildOrder`, `GitRepo`,
   `Worker`; their runs, and the theorem on roles.
3. (done) Theorems for `Api`, `Worker`, `BuildOrder` and `Purge`, and on the
   history of `BuildRun`.
4. A proof of `OwnPushesAreKnown`.
5. Snapshot reads of an import's session; the downstream driver and its extended
   hashes; the aggregation of current and consistent in `Publish`.

## Not modelled

Rendering of reports, GraphQL and metrics, which only read (a vote's pages, and
`dlrn_api.py:478` and `489`, which count a boundary in one sum and not in the
other); parsing of the configuration, of spec files and of API input; migrations;
what rpmbuild, mock, copr and rsync do; the downstream driver and the local one.

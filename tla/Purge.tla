------------------------------- MODULE Purge --------------------------------
(***************************************************************************)
(* dlrn-purge on an installation that goes on building, importing and      *)
(* promoting.  The purge takes no lock: it reads the table once, removes   *)
(* directories row by row, and stores all its flags at the end.  Builds    *)
(* are seen as module Repository has them, with their directories.  One    *)
(* component; the age of things is counted in days.                        *)
(***************************************************************************)
EXTENDS Promotions

CONSTANTS
    Start,         \* tables to start with, and the day each row was built
    OlderThan,     \* --older-than
    ExcludeDirs,   \* --exclude-dirs, which of "current" and "consistent"
    MaxRetries,    \* of module Repository
    MaxDay,        \* bound: the clock
    MaxPromos,     \* bound: promotions
    MaxBuilds,     \* bound: builds and imports
    MaxTrouble     \* bound: imports, rechecks and purges that are killed

ASSUME PurgeAssumption ==
    /\ \A s \in Start : /\ s.rows \in Seq(Row)
                        /\ s.days \in [DOMAIN s.rows -> {0, None}]
    /\ None \notin Nat
    /\ OlderThan \in Nat \ {0}
    /\ ExcludeDirs \subseteq {"current", "consistent"}
    /\ {MaxRetries, MaxDay, MaxPromos, MaxBuilds, MaxTrouble} \subseteq Nat

VARIABLES
    links,    \* repos/component/<component>/current and consistent
    linked,   \* the revisions whose rpms are linked into repos/<rev>
    dtbuild,  \* dt_build of each row: a day, or none in old rows
    day,
    working,  \* the build or import in progress, under remote.lck
    purge,    \* the purge in progress
    born,     \* the day each repos/<name>/xx/yy/<hash> was made
    lost,     \* history: the purges that did not store their flags,
    mixed,    \* the promotions during which a purge was in progress,
    raced,    \* whether there ever was one,
    crossed,  \* whether two promotions ever were in progress together,
    again,    \* and the revisions that were imported a second time
    builds, imports, rechecks

buildVars == <<links, linked, dtbuild, working>>
purgeVars == <<purge, lost>>
histVars == <<born, mixed, raced, crossed, again>>
countVars == <<builds, imports, rechecks>>
restVars == <<day, histVars, countVars>>
vars == <<tableVars, promotionVars, buildVars, purgeVars, restVars>>

Day == Nat \cup {None}

Working == [pc : {"none", "build", "record", "current", "consistent"},
            rev : Rev \cup {None}, day : Nat, consistent : BOOLEAN]

NoWork == [pc |-> "none", rev |-> None, day |-> 0, consistent |-> FALSE]

Purging == [pc : {"idle", "row", "remove", "names", "hash"},
            todo : SUBSET Nat,       \* ids of topurge that are still to visit
            before : Nat,            \* the day the purge goes back to
            full : SUBSET Package,   \* fullpurge
            marks : SUBSET Nat,      \* rows flagged in the session
            names : SUBSET Name,     \* promotion names still to look at
            name : Name \cup {None},
            protected : Content \cup {None}]

NoPurge == [pc |-> "idle", todo |-> {}, before |-> 0, full |-> {}, marks |-> {},
            names |-> {}, name |-> None, protected |-> None]

\* What post_build links: the last success of every other project.
OthersOf(r) == {db[i].rev : i \in UNION {LastSuccess(db, q) : q \in Package \ {r.pkg}}}

Init ==
    /\ \E s \in Start : db = s.rows /\ dtbuild = s.days
    /\ purged = {}
    /\ dirs = {db[i].rev : i \in Live(db)}
    /\ InitPromotions
    /\ links = [d \in {"current", "consistent"} |->
                  LET last == Latest(WithStatus(db, Live(db), "SUCCESS"))
                  IN IF last = {} THEN None ELSE db[CHOOSE i \in last : TRUE].rev]
    /\ linked = [r \in Rev |-> IF r = links["current"] THEN OthersOf(r) ELSE {}]
    /\ day = 0
    /\ working = NoWork
    /\ purge = NoPurge
    /\ born = [n \in Name |-> [c \in Content |-> 0]]
    /\ mixed = {}
    /\ raced = FALSE /\ crossed = FALSE
    /\ again = {}
    /\ lost = 0 /\ builds = 0 /\ imports = 0 /\ rechecks = 0

Troubled == imports + rechecks + lost >= MaxTrouble

-----------------------------------------------------------------------------
(* Builds and imports                                                      *)

WorkAt(l) == working.pc = l

StartBuild ==
    /\ builds < MaxBuilds
    /\ builds' = builds + 1
    /\ WorkAt("none")
    /\ \E q \in Package : \E r \in Since(db, q, MaxCommit, MaxDistro) :
         /\ ~AlreadyHandled(db, r)
         /\ working' = [NoWork EXCEPT !.pc = "build", !.rev = r, !.day = day]
         /\ dirs' = dirs \cup {r}
         /\ linked' = [linked EXCEPT ![r] = {}]
    /\ UNCHANGED <<db, purged, promotionVars, links, dtbuild, purgeVars, day, histVars, imports, rechecks>>

\* The build was made elsewhere, maybe some days ago.
StartImport ==
    /\ builds < MaxBuilds /\ ~Troubled
    /\ builds' = builds + 1 /\ imports' = imports + 1
    /\ WorkAt("none")
    /\ \E r \in Rev, d \in {e \in 0..MaxDay : e < day} :
         /\ ~NewerBuilt(db, r)
         /\ working' = [NoWork EXCEPT !.pc = "build", !.rev = r, !.day = d]
         /\ dirs' = dirs \cup {r}
         /\ again' = again \cup ({r} \cap {db[i].rev : i \in DOMAIN db})
    /\ UNCHANGED <<db, purged, promotionVars, links, linked, dtbuild, purgeVars,
                   day, born, mixed, raced, crossed, rechecks>>

\* Without its directory post_build raises, and leaves no row; so it does when
\* it finds its links in place.
PostBuild ==
    LET r == working.rev IN
    /\ WorkAt("build")
    /\ IF r \in dirs /\ linked[r] \cap OthersOf(r) = {}
       THEN /\ linked' = [linked EXCEPT ![r] = @ \cup OthersOf(r)]
            /\ working' = [working EXCEPT !.pc = "record",
                                          !.consistent = FailedOthers(db, r.pkg) = {}]
       ELSE working' = NoWork /\ UNCHANGED linked
    /\ UNCHANGED <<tableVars, promotionVars, links, dtbuild, purgeVars, restVars>>

AddRow_Undated(status) ==
    /\ db' = Append(db, [rev |-> working.rev, status |-> status, vote |-> FALSE, gone |-> FALSE])
    /\ UNCHANGED dtbuild

AddRow(status) ==
    /\ db' = Append(db, [rev |-> working.rev, status |-> status, vote |-> FALSE, gone |-> FALSE])
    /\ dtbuild' = Append(dtbuild, working.day)

BuildFails ==
    /\ WorkAt("build")
    /\ \E status \in {"FAILED", "RETRY"} :
         /\ status = "RETRY" => TimesRetried(db, working.rev) < MaxRetries
         /\ AddRow(status)
    /\ working' = NoWork
    /\ UNCHANGED <<purged, dirs, promotionVars, links, linked, purgeVars, restVars>>

RecordSuccess ==
    /\ WorkAt("record")
    /\ AddRow("SUCCESS")
    /\ working' = [working EXCEPT !.pc = "current"]
    /\ UNCHANGED <<purged, dirs, promotionVars, links, linked, purgeVars, restVars>>

MoveLink(d, then) ==
    /\ WorkAt(d)
    /\ links' = [links EXCEPT ![d] = working.rev]
    /\ working' = then
    /\ UNCHANGED <<tableVars, promotionVars, linked, dtbuild, purgeVars, restVars>>

MoveCurrent ==
    MoveLink("current", IF working.consistent THEN [working EXCEPT !.pc = "consistent"] ELSE NoWork)

MoveConsistent == MoveLink("consistent", NoWork)

Build ==
    \/ StartBuild \/ StartImport \/ PostBuild \/ BuildFails \/ RecordSuccess
    \/ MoveCurrent \/ MoveConsistent

\* dlrn --recheck of a failure, from a process of its own.
Recheck ==
    /\ ~Troubled
    /\ rechecks' = rechecks + 1
    /\ \E q \in Package : \E i \in LastProcessed(db, q) :
         db[i].status = "FAILED" /\ db' = [db EXCEPT ![i].gone = TRUE]
    /\ UNCHANGED <<purged, dirs, promotionVars, buildVars, purgeVars,
                   day, histVars, builds, imports>>

Tick ==
    /\ day < MaxDay
    /\ day' = day + 1
    /\ UNCHANGED <<tableVars, promotionVars, buildVars, purgeVars, histVars, countVars>>

-----------------------------------------------------------------------------
(* The purge                                                               *)

PurgeAt(l) == purge.pc = l

\* getCommits(before=...).  No row without dt_build is selected.
Before(d) == {i \in Live(db) : dtbuild[i] # None /\ dtbuild[i] < d}

StartPurge ==
    /\ PurgeAt("idle")
    /\ day > OlderThan
    /\ LET d == day - OlderThan IN
         purge' = [NoPurge EXCEPT !.pc = "row", !.before = d, !.todo = Before(d)]
    /\ mixed' = mixed \cup InProgress
    /\ raced' = (raced \/ InProgress # {})
    /\ UNCHANGED <<tableVars, promotionVars, buildVars, lost, day, born, crossed, again, countVars>>

Excluded_ByName(i) == \E d \in ExcludeDirs : db[i].rev = links[d]

\* is_commit_in_dirs: an rpm of the commit can be seen in one of the excluded
\* directories, as a file or through a link that leads somewhere.  Only a
\* success has artifacts.
Excluded(i) ==
    /\ db[i].status = "SUCCESS" /\ db[i].rev \in dirs
    /\ \E d \in ExcludeDirs :
         /\ links[d] \in dirs
         /\ db[i].rev = links[d] \/ db[i].rev \in linked[links[d]]

NewerSuccess_NotOlder(i) ==
    {j \in WithStatus(db, RowsOf(db, db[i].rev.pkg), "SUCCESS") :
        dtbuild[j] # None /\ dtbuild[j] >= dtbuild[i]}

\* previouscommits: successes of the project with a later dt_build.
NewerSuccess(i) ==
    {j \in WithStatus(db, RowsOf(db, db[i].rev.pkg), "SUCCESS") :
        dtbuild[j] # None /\ dtbuild[j] > dtbuild[i]}

\* othercommits: successes of the same commit of the project.
SameCommitSuccess(i) ==
    {j \in WithStatus(db, RowsOf(db, db[i].rev.pkg), "SUCCESS") :
        db[j].rev.commit = db[i].rev.commit}

Fate_FlagsExcluded(i, full) ==
    IF i \in purged THEN "stay"
    ELSE IF Excluded(i) THEN "flag"
    ELSE IF db[i].status = "SUCCESS"
    THEN IF db[i].rev.pkg \notin full /\ NewerSuccess(i) = {} THEN "stay" ELSE "remove"
    ELSE IF SameCommitSuccess(i) # {} THEN "flag"
    ELSE "remove"

\* What becomes of a row: it stays as it is, it is flagged, or its directory
\* is removed as well.
Fate(i, full) ==
    IF i \in purged \/ Excluded(i) THEN "stay"
    ELSE IF db[i].status = "SUCCESS"
    THEN IF db[i].rev.pkg \notin full /\ NewerSuccess(i) = {} THEN "stay" ELSE "remove"
    ELSE IF SameCommitSuccess(i) # {} THEN "flag"
    ELSE "remove"

\* One turn of the loop, up to the removal of a directory.  The newest row
\* comes first.
Visit ==
    /\ PurgeAt("row")
    /\ \E i \in Latest(purge.todo) :
         LET fate == Fate(i, purge.full) IN
         purge' = [purge EXCEPT
            !.pc = IF fate = "remove" THEN "remove" ELSE "row",
            !.todo = IF fate = "remove" THEN @ ELSE @ \ {i},
            !.full = IF fate = "remove" /\ db[i].status = "SUCCESS" THEN @ \cup {db[i].rev.pkg} ELSE @,
            !.marks = IF fate = "stay" THEN @ ELSE @ \cup {i}]
    /\ UNCHANGED <<tableVars, promotionVars, buildVars, lost, restVars>>

\* shutil.rmtree, which ignores errors.
RemoveDir ==
    /\ PurgeAt("remove")
    /\ \E i \in Latest(purge.todo) :
         /\ dirs' = dirs \ {db[i].rev}
         /\ linked' = [linked EXCEPT ![db[i].rev] = {}]
         /\ purge' = [purge EXCEPT !.pc = "row", !.todo = @ \ {i}]
    /\ UNCHANGED <<db, purged, promotionVars, links, dtbuild, working, lost, restVars>>

AfterRows ==
    IF UseComponents THEN [purge EXCEPT !.pc = "names", !.names = {promos[k].name : k \in DOMAIN promos}]
    ELSE NoPurge

\* session.commit.  A row a recheck has deleted cannot be updated: the purge
\* ends with StaleDataError, and no flag is stored.
StoreFlags ==
    /\ PurgeAt("row")
    /\ purge.todo = {}
    /\ IF \E i \in purge.marks : db[i].gone
       THEN purge' = NoPurge /\ lost' = lost + 1 /\ UNCHANGED purged
       ELSE purged' = purged \cup purge.marks /\ purge' = AfterRows /\ UNCHANGED lost
    /\ UNCHANGED <<db, dirs, promotionVars, buildVars, restVars>>

\* purge_promoted_hashes: the directory the repository file of a name is in
\* must stay.
ReadProtected ==
    /\ PurgeAt("names")
    /\ \E n \in purge.names :
         purge' = [purge EXCEPT !.pc = "hash", !.names = @ \ {n}, !.name = n, !.protected = files[n][1]]
    /\ UNCHANGED <<tableVars, promotionVars, buildVars, lost, restVars>>

OldHashes_All(n) == {c \in hashdirs[n] : born[n][c] < purge.before}

OldHashes(n) == {c \in hashdirs[n] : born[n][c] < purge.before /\ c # purge.protected}

RemoveHashes ==
    /\ PurgeAt("hash")
    /\ hashdirs' = [hashdirs EXCEPT ![purge.name] = @ \ OldHashes(purge.name)]
    /\ purge' = [purge EXCEPT !.pc = "names"]
    /\ UNCHANGED <<tableVars, plinks, promos, files, temps, call, kills, buildVars, lost, restVars>>

EndPurge ==
    /\ PurgeAt("names")
    /\ purge.names = {}
    /\ purge' = NoPurge
    /\ UNCHANGED <<tableVars, promotionVars, buildVars, lost, restVars>>

KillPurge ==
    /\ ~PurgeAt("idle")
    /\ ~Troubled
    /\ lost' = lost + 1
    /\ purge' = NoPurge
    /\ UNCHANGED <<tableVars, promotionVars, buildVars, restVars>>

PurgeStep ==
    StartPurge \/ Visit \/ RemoveDir \/ StoreFlags \/ ReadProtected \/ RemoveHashes \/ EndPurge

-----------------------------------------------------------------------------
(* Promotions (module Promotions) of single commits                        *)

Promote(p) ==
    /\ Len(promos) < MaxPromos
    /\ \E i \in DOMAIN db, n \in Name : StartPromotion(p, <<[rev |-> db[i].rev, name |-> n]>>, FALSE)
    /\ mixed' = IF PurgeAt("idle") THEN mixed \ {p} ELSE mixed \cup {p}
    /\ raced' = (raced \/ ~PurgeAt("idle"))
    /\ crossed' = (crossed \/ InProgress # {})
    /\ UNCHANGED <<buildVars, purgeVars, day, born, again, countVars>>

\* A directory with the same content keeps its age.
Handle(p) ==
    /\ PromotionStep(p, TRUE)
    /\ born' = [n \in Name |-> [c \in Content |->
                  IF c \in hashdirs'[n] \ hashdirs[n] THEN day ELSE born[n][c]]]
    /\ UNCHANGED <<buildVars, purgeVars, day, mixed, raced, crossed, again, countVars>>

Next ==
    \/ Build \/ Recheck \/ Tick
    \/ PurgeStep \/ KillPurge
    \/ \E p \in Client : Promote(p) \/ Handle(p)

Spec == Init /\ [][Next]_vars

-----------------------------------------------------------------------------
(* Properties                                                              *)

TypeOK ==
    /\ PromotionsTypeOK
    /\ links \in [{"current", "consistent"} -> Rev \cup {None}]
    /\ linked \in [Rev -> SUBSET Rev]
    /\ dtbuild \in Seq(Day) /\ Len(dtbuild) = Len(db)
    /\ day \in Nat
    /\ working \in Working
    /\ purge \in Purging /\ purge.marks \subseteq DOMAIN db
    /\ born \in [Name -> [Content -> Nat]]
    /\ mixed \subseteq Client
    /\ raced \in BOOLEAN /\ crossed \in BOOLEAN
    /\ again \subseteq Rev
    /\ lost \in Nat /\ builds \in Nat /\ imports \in Nat /\ rechecks \in Nat

\* The successes of a project were built in the order they were recorded in:
\* no import brought a build older than one that was there.
InBuildOrder(q) ==
    LET S == WithStatus(db, RowsOf(db, q), "SUCCESS") IN
    \A i, j \in S : i < j /\ None \notin {dtbuild[i], dtbuild[j]} => dtbuild[i] <= dtbuild[j]

\* There was one attempt at r only.
AtOnce(r) == \A i, j \in DOMAIN db : db[i].rev = r /\ db[j].rev = r => i = j

\* usage.rst:206-208, "There is one exception to this rule, when an old commit
\* is the newest one that was successfully built.  In that case, it will be
\* preserved": whatever the purge, killed or not, meets on its way.  (Not so
\* for a build an import brought out of order, and for a build that is still
\* in progress when the purge meets an old failure of the same commit.)
NewestSuccessKept ==
    \A q \in Package : InBuildOrder(q) =>
        \A i \in LastSuccess(db, q) : AtOnce(db[i].rev) => i \notin purged /\ db[i].rev \in dirs

\* Then the repositories current and consistent lead to are there, with every
\* package linked into them: the excluded ones always, current whenever no
\* build is in progress.  (Not so, by purge.py:43, once the directory the link
\* leads to is lost to an attempt to build it again.)
LinksAreComplete ==
    (\A q \in Package : InBuildOrder(q)) =>
        \A d \in {"current", "consistent"} :
            /\ links[d] # None /\ AtOnce(links[d])
            /\ d \in ExcludeDirs \/ (d = "current" /\ WorkAt("none"))
            => \A r \in {links[d]} \cup linked[links[d]] : AtOnce(r) => r \in dirs

\* Between purges the flag of a success tells whether its directory is there:
\* it is set when the directory is gone, as long as no purge was killed or met
\* a recheck, and only then, until the revision is imported again.
FlagsMatchDirs ==
    PurgeAt("idle") =>
        \A i \in WithStatus(db, Live(db), "SUCCESS") : AtOnce(db[i].rev) =>
            /\ lost = 0 /\ db[i].rev \notin dirs => i \in purged
            /\ i \in purged /\ db[i].rev \notin again => db[i].rev \notin dirs

\* A promotion links to a directory that is there, unless a purge was in
\* progress during it or has lost its flags.
PromotedExists ==
    [][\A p \in Client, l \in Link :
          CallAt(p, "link") /\ call'[p].pc # "link" /\ plinks'[l] # plinks[l]
             /\ p \notin mixed /\ lost = 0 /\ AtOnce(plinks'[l]) => plinks'[l] \in dirs]_<<plinks, call>>

\* The purge leaves the aggregated files a name leads to, unless a name was
\* promoted during a purge.  It looks at the first file only: the others lead
\* to the same directory unless two promotions were in progress together.
AggregatesKept ==
    ~raced => \A n \in Name, f \in DOMAIN AggFile :
        files[n][f] # None /\ (f = 1 \/ ~crossed) => files[n][f] \in hashdirs[n]
=============================================================================

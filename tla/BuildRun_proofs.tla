--------------------------- MODULE BuildRun_proofs ---------------------------
(***************************************************************************)
(* For any number of projects, importers and commits, any worker pool, any *)
(* interleaving of crashes and rechecks: the state is well typed, the lock *)
(* is held by who uses it, and, when rechecks are not forced, what the     *)
(* outside sees of the installation is a behaviour of module Repository.   *)
(***************************************************************************)
EXTENDS BuildRun, CommitDB_proofs

USE DEF Proc, LinkName

IInv == TypeOK /\ BlockInv

-----------------------------------------------------------------------------
(* Types                                                                   *)

(* A fresh job, whatever its result, is a job.                             *)
LEMMA NewJobType == \A r \in Rev \cup {None}, o \in Outcome : NewJob(r, o) \in Job
BY DEF NewJob, Job

(* So is the job of a process without work.                                *)
LEMMA NoJobType == NoJob \in Job
BY NewJobType DEF NoJob, Outcome

(* What the steps of the block change in a job.                            *)
LEMMA JobChangeType ==
  \A j \in Job :
    /\ j.dirnames \in Seq(LinkName)
    /\ \A c \in BOOLEAN : /\ [j EXCEPT !.consistent = c] \in Job
                          /\ [j EXCEPT !.failed = c] \in Job
    /\ \A d \in Seq(LinkName) : [j EXCEPT !.dirnames = d] \in Job
    /\ \A c \in BOOLEAN, n \in Nat, f \in BOOLEAN, d \in Seq(LinkName) :
         [j EXCEPT !.consistent = c, !.id = n, !.failed = f, !.dirnames = d] \in Job
BY DEF Job

(* What is left of the links to move once the first is moved.              *)
LEMMA TailType ==
  ASSUME NEW s \in Seq(LinkName), s # <<>>
  PROVE  Tail(s) \in Seq(LinkName)
OBVIOUS

(* The links a recorded result has to move are a sequence of link names.   *)
LEMMA DirNamesType ==
  ASSUME NEW ok, NEW consistent
  PROVE  DirNames(ok, consistent) \in Seq(LinkName)
<1>1. /\ <<>> \in Seq(LinkName)
      /\ <<"current">> \in Seq(LinkName)
      /\ <<"current", "consistent">> \in Seq(LinkName)
  OBVIOUS
<1> QED  BY <1>1 DEF DirNames

(* Leaving the block, in any way, keeps the types of lock, pc and job.     *)
LEMMA LeaveType ==
  ASSUME PublishTypeOK, NEW p \in Proc, NEW l \in PC, Leave(p, l)
  PROVE  /\ lock' \in Proc \cup {None}
         /\ pc' \in [Proc -> PC]
         /\ job' \in [Proc -> Job]
BY NoJobType DEF PublishTypeOK, Leave, Goto

(* Where a process rests is a program point.                               *)
LEMMA RestType == \A p \in Proc : Rest(p) \in PC
BY DEF Rest, PC

(* The rpms linked into a repository are those of revisions.               *)
LEMMA LinkedType ==
  ASSUME PublishTypeOK, NEW r \in Rev
  PROVE  Linked(r) \subseteq Rev
<1>1. \A q \in Package : LastSuccess(db, q) \subseteq DOMAIN db
  BY DEF LastSuccess, Latest, WithStatus, RowsOf, Live
<1>2. \A i \in DOMAIN db : db[i].rev \in Rev
  BY TableType, RowType DEF PublishTypeOK
<1> QED  BY <1>1, <1>2 DEF Linked

(* A process that moves links has one to move, and "consistent" is moved   *)
(* last.                                                                   *)
LEMMA MovesLinks ==
  ASSUME NEW p \in Proc, JobMatches(p), pc[p] \in {"symlink", "rename"}
  PROVE  LET j == job[p] IN
         /\ j.dirnames # <<>>
         /\ \/ /\ j.dirnames = <<"current">> /\ ~j.consistent
               /\ Head(j.dirnames) = "current" /\ Tail(j.dirnames) = <<>>
            \/ /\ j.dirnames = <<"current", "consistent">> /\ j.consistent
               /\ Head(j.dirnames) = "current" /\ Tail(j.dirnames) = <<"consistent">>
            \/ /\ j.dirnames = <<"consistent">> /\ j.consistent
               /\ Head(j.dirnames) = "consistent" /\ Tail(j.dirnames) = <<>>
<1>1. \/ job[p].dirnames = <<"current">> /\ ~job[p].consistent
      \/ job[p].dirnames = <<"current", "consistent">> /\ job[p].consistent
      \/ job[p].dirnames = <<"consistent">> /\ job[p].consistent
  BY DEF JobMatches
<1>2. /\ Head(<<"current">>) = "current" /\ Tail(<<"current">>) = <<>>
      /\ Head(<<"consistent">>) = "consistent" /\ Tail(<<"consistent">>) = <<>>
      /\ Head(<<"current", "consistent">>) = "current"
      /\ Tail(<<"current", "consistent">>) = <<"consistent">>
      /\ <<"current">> # <<>> /\ <<"consistent">> # <<>>
      /\ <<"current", "consistent">> # <<>>
  OBVIOUS
<1> QED  BY <1>1, <1>2

(* A step of the block that does not leave it.                             *)
LEMMA AdvanceType ==
  ASSUME PublishTypeOK, NEW p \in Proc, JobMatches(p), Advance(p)
  PROVE  PublishTypeOK'
<1> DEFINE j == job[p]
<1> USE DEF PublishTypeOK, Goto, Locked, PC
<1>1. pc[p] \in Locked \cup {"wait"} => j.rev \in Rev
  BY DEF JobMatches
<1>2. CASE Acquire(p)
  BY <1>2 DEF Acquire
<1>3. CASE PostBuild(p)
  <2>1. dirs' \in [Rev -> SUBSET Rev]
    BY <1>1, <1>3, LinkedType DEF PostBuild
  <2>2. job' \in [Proc -> Job]
    BY <1>3, JobChangeType DEF PostBuild
  <2> QED  BY <1>3, <2>1, <2>2 DEF PostBuild
<1>4. CASE Discard(p)
  <2>1. job' \in [Proc -> Job]
    BY <1>4, JobChangeType DEF Discard
  <2> QED  BY <1>4, <2>1 DEF Discard
<1>5. CASE Record(p)
  <2>1. PICK synced \in {TRUE, ~SyncMayFail} :
          LET status == RecordedStatus(j, synced)
              dirnames == DirNames(j.outcome = "ok", StillConsistent(j, synced))
          IN
          /\ db' = Append(db, [rev |-> j.rev, status |-> status,
                               vote |-> FALSE, gone |-> FALSE])
          /\ job' = [job EXCEPT ![p] =
               [@ EXCEPT !.consistent = StillConsistent(j, synced),
                         !.id = Len(db) + 1,
                         !.failed = status # "SUCCESS",
                         !.dirnames = dirnames]]
          /\ Goto(p, IF dirnames = <<>> THEN "release" ELSE "symlink")
    BY <1>5 DEF Record
  <2>2. RecordedStatus(j, synced) \in Status
    BY DEF RecordedStatus, Status
  <2>3. db' \in Seq(Row)
    BY <1>1, <1>5, <2>1, <2>2 DEF Record, Row
  <2>4. StillConsistent(j, synced) \in BOOLEAN
    BY DEF StillConsistent
  <2>5. DirNames(j.outcome = "ok", StillConsistent(j, synced)) \in Seq(LinkName)
    BY DirNamesType
  <2> DEFINE c == StillConsistent(j, synced)
             n == Len(db) + 1
             f == RecordedStatus(j, synced) # "SUCCESS"
             dirnames == DirNames(j.outcome = "ok", StillConsistent(j, synced))
             new == [j EXCEPT !.consistent = c, !.id = n, !.failed = f,
                              !.dirnames = dirnames]
  <2>6. job' = [job EXCEPT ![p] = new]
    BY <2>1
  <2>7. j \in Job /\ c \in BOOLEAN /\ n \in Nat /\ f \in BOOLEAN /\ dirnames \in Seq(LinkName)
    BY <2>4, <2>5
  <2>8. new \in Job
    <3> HIDE DEF c, n, f, dirnames
    <3> QED  BY ONLY <2>7, JobChangeType
  <2>9. job' \in [Proc -> Job]
    <3> HIDE DEF new
    <3> QED  BY <2>6, <2>8
  <2> QED  BY <1>5, <2>1, <2>3, <2>9 DEF Record
<1>6. CASE Symlink(p)
  BY <1>1, <1>6 DEF Symlink
<1>7. CASE Rename(p)
  <2>1. j.dirnames # <<>>
    BY <1>7, MovesLinks DEF Rename
  <2>2. j \in Job
    OBVIOUS
  <2>3. [j EXCEPT !.dirnames = Tail(j.dirnames)] \in Job
    BY <2>1, <2>2, TailType, JobChangeType
  <2>4. job' = [job EXCEPT ![p] = [j EXCEPT !.dirnames = Tail(j.dirnames)]]
    BY <1>7 DEF Rename
  <2>5. job' \in [Proc -> Job]
    BY <2>3, <2>4
  <2>6. links' \in [LinkName -> Rev \cup {None}]
    BY <1>1, <1>7 DEF Rename, JobMatches
  <2> QED  BY <1>7, <2>5, <2>6 DEF Rename
<1>8. CASE Vote(p)
  <2>1. j.id \in DOMAIN db
    BY <1>8 DEF Vote, JobMatches
  <2>2. db' \in Seq(Row)
    BY <1>8, <2>1, TableChangeType DEF Vote
  <2> QED  BY <1>8, <2>2 DEF Vote
<1> QED  BY <1>2, <1>3, <1>4, <1>5, <1>6, <1>7, <1>8 DEF Advance

(* What makes a process leave the block.                                   *)
LEMMA ReleaseType ==
  ASSUME PublishTypeOK, NEW p \in Proc, Release(p)
  PROVE  PublishTypeOK'
BY LeaveType, RestType DEF Release, PublishTypeOK

(* A killed process leaves well-typed state behind.                        *)
LEMMA KillType ==
  ASSUME PublishTypeOK, NEW p \in Proc, Kill(p)
  PROVE  PublishTypeOK'
<1>1. "idle" \in PC
  BY DEF PC
<1> QED  BY <1>1, LeaveType DEF Kill, PublishTypeOK

(* So does one that leaves the block by an exception.                      *)
LEMMA RaiseType ==
  ASSUME PublishTypeOK, NEW p \in Proc, JobMatches(p), Raise(p)
  PROVE  PublishTypeOK'
<1>1. /\ lock' \in Proc \cup {None}
      /\ pc' \in [Proc -> PC]
      /\ job' \in [Proc -> Job]
  BY LeaveType, RestType DEF Raise
<1>2. CASE RpmExists(p)
  <2>1. job[p].rev \in Rev
    BY <1>2 DEF RpmExists, JobMatches, Locked
  <2>2. dirs' \in [Rev -> SUBSET Rev]
    BY <1>2, <2>1, LinkedType DEF RpmExists, PublishTypeOK
  <2> QED  BY <1>1, <1>2, <2>2 DEF RpmExists, PublishTypeOK
<1>3. CASE RowGone(p) \/ TempExists(p) \/ VoteRefused(p)
  BY <1>1, <1>3 DEF RowGone, TempExists, VoteRefused, PublishTypeOK
<1> QED  BY <1>2, <1>3 DEF Raise

(* Handing in a result keeps the types.                                    *)
LEMMA SubmitType ==
  ASSUME PublishTypeOK, NEW p \in Proc, NEW r \in Rev, NEW o \in Outcome, Submit(p, r, o)
  PROVE  PublishTypeOK'
<1>1. NewJob(r, o) \in Job
  BY NewJobType
<1>2. job' \in [Proc -> Job] /\ pc' \in [Proc -> PC]
  BY <1>1 DEF Submit, PublishTypeOK, Goto, PC
<1> QED  BY <1>2 DEF Submit, PublishTypeOK

(* A recheck keeps the types, the table among them.                        *)
LEMMA RecheckType ==
  ASSUME PublishTypeOK, NEW q \in Package, NEW force, RecheckCommit(q, force)
  PROVE  PublishTypeOK'
<1>1. LastProcessed(db, q) \subseteq DOMAIN db
  BY DEF LastProcessed, Latest, RowsOf, Live
<1>2. PICK i \in DOMAIN db : db' = [db EXCEPT ![i].gone = TRUE]
  BY <1>1 DEF RecheckCommit
<1>3. db' \in Seq(Row)
  BY <1>2, TableChangeType DEF PublishTypeOK
<1> QED  BY <1>3 DEF RecheckCommit, PublishTypeOK

(* The variables of a run.                                                 *)
RunTypeOK ==
  /\ phase \in {"idle", "scan", "build"}
  /\ target \subseteq Package /\ order \in BOOLEAN /\ scanning \subseteq Package
  /\ found \subseteq Rev
  /\ queue \in Seq(Rev)
  /\ built \in Seq(BuildState) /\ Len(built) = Len(queue)
  /\ next \in Nat \ {0}
  /\ boot \in [Package -> Nat]

(* A step that leaves the run alone keeps its types.                       *)
LEMMA RunUnchanged ==
  ASSUME RunTypeOK, UNCHANGED runVars
  PROVE  RunTypeOK'
BY DEF RunTypeOK, runVars

(* A step that leaves repositories and table alone keeps theirs.           *)
LEMMA PublishUnchanged ==
  ASSUME PublishTypeOK, UNCHANGED publishVars
  PROVE  PublishTypeOK'
BY DEF PublishTypeOK, publishVars

(* The end of a run, in any way, keeps the types of the run.               *)
LEMMA StopRunType ==
  ASSUME StopRun
  PROVE  RunTypeOK'
<1>1. /\ queue' \in Seq(Rev)
      /\ built' \in Seq(BuildState) /\ Len(built') = Len(queue')
  BY DEF StopRun
<1>2. boot' \in [Package -> Nat] /\ next' \in Nat \ {0}
  BY DEF StopRun
<1> QED  BY <1>1, <1>2 DEF StopRun, RunTypeOK

(* The queue is a sequence because a scan finds finitely many revisions.   *)
LEMMA StartBuildsType ==
  ASSUME RunTypeOK, StartBuilds
  PROVE  RunTypeOK'
<1>1. Cardinality(found) \in Nat
  BY RevFinite, FS_Subset, FS_CardinalityType DEF RunTypeOK
<1>2. queue' \in [1..Cardinality(found) -> found]
  BY DEF StartBuilds, BuildOrders
<1>3. queue' \in Seq(Rev)
  <2> DEFINE n == Cardinality(found)
  <2>1. n \in Nat /\ queue' \in [1..n -> Rev]
    BY <1>1, <1>2 DEF RunTypeOK
  <2> HIDE DEF n
  <2> QED  BY ONLY <2>1
<1>4. built' \in Seq(BuildState) /\ Len(built') = Len(queue')
  <2>1. built' = [i \in 1..Len(queue') |-> "todo"]
    BY <1>3 DEF StartBuilds
  <2>2. "todo" \in BuildState
    BY DEF BuildState
  <2> QED  BY <1>3, <2>1, <2>2
<1>5. boot' \in [Package -> Nat]
  <2>1. \A q \in Package : Cardinality({r \in found : r.pkg = q}) \in Nat
    BY RevFinite, FS_Subset, FS_CardinalityType DEF RunTypeOK
  <2> QED  BY <2>1 DEF StartBuilds
<1> QED  BY <1>3, <1>4, <1>5 DEF StartBuilds, RunTypeOK

(* Starting and finishing a build in the pool keeps the types.             *)
LEMMA BuildType ==
  ASSUME RunTypeOK, NEW i \in DOMAIN queue, NEW b \in BuildState,
         built' = [built EXCEPT ![i] = b],
         UNCHANGED <<phase, target, order, scanning, found, queue, next, boot>>
  PROVE  RunTypeOK'
<1>1. i \in DOMAIN built
  BY DEF RunTypeOK
<1>2. built' \in Seq(BuildState) /\ Len(built') = Len(queue')
  BY <1>1 DEF RunTypeOK
<1> QED  BY <1>2 DEF RunTypeOK

(* Scanning or skipping a project keeps the types.                         *)
LEMMA ScanType ==
  ASSUME RunTypeOK, NEW q \in Package, ScanPackage(q) \/ SkipPackage(q)
  PROVE  RunTypeOK'
<1>1. Since(db, q, head[q], distro[q]) \subseteq Rev
  BY DEF Since, GitLog
<1> QED  BY <1>1 DEF RunTypeOK, ScanPackage, SkipPackage

UpstreamTypeOK ==
  /\ head \in [Package -> 0..MaxCommit]
  /\ distro \in [Package -> Nat]

CountTypeOK == orders \in Nat /\ crashes \in Nat /\ rechecks \in Nat

(* TypeOK by the part of the state it is about, ...                        *)
LEMMA TypeParts == TypeOK <=> PublishTypeOK /\ UpstreamTypeOK /\ RunTypeOK /\ CountTypeOK
BY DEF TypeOK, RunTypeOK, UpstreamTypeOK, CountTypeOK

(* ... in this state and in the next.                                      *)
LEMMA TypePartsNext ==
  ASSUME PublishTypeOK', UpstreamTypeOK', RunTypeOK', CountTypeOK'
  PROVE  TypeOK'
BY DEF TypeOK, RunTypeOK, UpstreamTypeOK, CountTypeOK

(* A step that leaves upstream and the counters alone keeps theirs.        *)
LEMMA OthersUnchanged ==
  /\ UpstreamTypeOK /\ UNCHANGED upstreamVars => UpstreamTypeOK'
  /\ CountTypeOK /\ UNCHANGED countVars => CountTypeOK'
BY DEF UpstreamTypeOK, CountTypeOK, upstreamVars, countVars

(* Every step of a run keeps TypeOK.                                       *)
LEMMA RunStepType ==
  ASSUME TypeOK, RunStep
  PROVE  TypeOK'
<1> USE TypeParts
<1>1. CASE StartRun
  <2>1. RunTypeOK'
    BY <1>1, BuildRunAssumption DEF StartRun, RunTypeOK
  <2>2. CountTypeOK'
    BY <1>1 DEF StartRun, CountTypeOK
  <2>3. UNCHANGED publishVars /\ UNCHANGED upstreamVars
    BY <1>1 DEF StartRun
  <2> QED  BY <2>1, <2>2, <2>3, PublishUnchanged, OthersUnchanged, TypePartsNext
<1>2. CASE StartBuilds
  <2>1. UNCHANGED publishVars /\ UNCHANGED upstreamVars /\ UNCHANGED countVars
    BY <1>2 DEF StartBuilds
  <2> QED  BY <1>2, <2>1, StartBuildsType, PublishUnchanged, OthersUnchanged, TypePartsNext
<1>3. CASE NothingToBuild \/ EndRun
  <2>1. StopRun /\ UNCHANGED publishVars /\ UNCHANGED upstreamVars /\ UNCHANGED countVars
    BY <1>3 DEF NothingToBuild, EndRun
  <2> QED  BY <2>1, StopRunType, PublishUnchanged, OthersUnchanged, TypePartsNext
<1>4. ASSUME NEW i \in DOMAIN queue, StartBuild(i)
      PROVE  TypeOK'
  <2>1. RunTypeOK'
    BY <1>4, BuildType DEF StartBuild, BuildState
  <2>2. PublishTypeOK'
    BY <1>4 DEF StartBuild, FreshDirectory, PublishTypeOK
  <2>3. UNCHANGED upstreamVars /\ UNCHANGED countVars
    BY <1>4 DEF StartBuild
  <2> QED  BY <2>1, <2>2, <2>3, OthersUnchanged, TypePartsNext
<1>5. ASSUME NEW i \in DOMAIN queue, FinishBuild(i)
      PROVE  TypeOK'
  <2>1. RunTypeOK'
    BY <1>5, BuildType DEF FinishBuild, BuildState
  <2>2. UNCHANGED publishVars /\ UNCHANGED upstreamVars /\ UNCHANGED countVars
    BY <1>5 DEF FinishBuild
  <2> QED  BY <2>1, <2>2, PublishUnchanged, OthersUnchanged, TypePartsNext
<1>6. CASE TakeResult
  <2>1. queue[next] \in Rev /\ built[next] \in Outcome
    BY <1>6 DEF TakeResult, RunTypeOK
  <2>2. PublishTypeOK'
    BY <1>6, <2>1, SubmitType DEF TakeResult
  <2>3. UNCHANGED upstreamVars /\ UNCHANGED runVars /\ UNCHANGED countVars
    BY <1>6 DEF TakeResult
  <2> QED  BY <2>2, <2>3, RunUnchanged, OthersUnchanged, TypePartsNext
<1>7. CASE NextResult
  <2>1. PublishTypeOK'
    BY <1>7, ReleaseType DEF NextResult
  <2>2. RunTypeOK'
    <3>1. CASE StopRun
      BY <3>1, StopRunType
    <3>2. CASE next' = next + 1 /\ UNCHANGED <<phase, target, order, scanning, found, queue, built, boot>>
      BY <3>2 DEF RunTypeOK
    <3> QED  BY <1>7, <3>1, <3>2 DEF NextResult
  <2>3. UNCHANGED upstreamVars /\ UNCHANGED countVars
    BY <1>7 DEF NextResult
  <2> QED  BY <2>1, <2>2, <2>3, OthersUnchanged, TypePartsNext
<1>8. ASSUME NEW q \in Package, BootstrapPackage(q)
      PROVE  TypeOK'
  <2>1. LastProcessed(db, q) \subseteq DOMAIN db
    BY DEF LastProcessed, Latest, RowsOf, Live
  <2>2. db' \in Seq(Row)
    <3>1. CASE UNCHANGED db
      BY <3>1 DEF PublishTypeOK
    <3>2. ASSUME NEW i \in LastProcessed(db, q), db' = [db EXCEPT ![i].status = "RETRY"]
          PROVE  db' \in Seq(Row)
      BY <2>1, <3>2, TableChangeType DEF PublishTypeOK
    <3> QED  BY <1>8, <3>1, <3>2 DEF BootstrapPackage
  <2>3. PublishTypeOK'
    BY <1>8, <2>2 DEF BootstrapPackage, PublishTypeOK
  <2>4. RunTypeOK'
    <3>1. CASE StopRun
      BY <3>1, StopRunType
    <3>2. CASE /\ boot' = [boot EXCEPT ![q] = @ - 1]
               /\ UNCHANGED <<phase, target, order, scanning, found, queue, built, next>>
      <4>1. boot[q] - 1 \in Nat
        BY <1>8 DEF BootstrapPackage, RunTypeOK
      <4> QED  BY <3>2, <4>1 DEF RunTypeOK
    <3> QED  BY <1>8, <3>1, <3>2 DEF BootstrapPackage
  <2>5. UNCHANGED upstreamVars /\ UNCHANGED countVars
    BY <1>8 DEF BootstrapPackage
  <2> QED  BY <2>3, <2>4, <2>5, OthersUnchanged, TypePartsNext
<1> QED  BY <1>1, <1>2, <1>3, <1>4, <1>5, <1>6, <1>7, <1>8 DEF RunStep

(* One step per action; RunStep above.                                     *)
LEMMA TypeStep ==
  ASSUME TypeOK, BlockInv, [Next]_vars
  PROVE  TypeOK'
<1> USE TypeParts
<1>0. \A p \in Proc : JobMatches(p)
  BY DEF BlockInv
<1>1. CASE RunStep
  BY <1>1, RunStepType
<1>2. ASSUME NEW q \in Package, ScanPackage(q) \/ SkipPackage(q)
      PROVE  TypeOK'
  <2>1. UNCHANGED publishVars /\ UNCHANGED upstreamVars /\ UNCHANGED countVars
    BY <1>2 DEF ScanPackage, SkipPackage
  <2> QED  BY <1>2, <2>1, ScanType, PublishUnchanged, OthersUnchanged, TypePartsNext
<1>3. ASSUME NEW q \in Package, PushSource(q) \/ PushDistgit(q)
      PROVE  TypeOK'
  <2>1. UpstreamTypeOK'
    <3>1. CASE PushSource(q)
      <4>1. head[q] + 1 \in 0..MaxCommit
        BY <3>1, CommitDBAssumption DEF PushSource, UpstreamTypeOK
      <4> QED  BY <3>1, <4>1 DEF PushSource, UpstreamTypeOK
    <3>2. CASE PushDistgit(q)
      BY <3>2 DEF PushDistgit, UpstreamTypeOK
    <3> QED  BY <1>3, <3>1, <3>2
  <2>2. UNCHANGED publishVars /\ UNCHANGED runVars /\ UNCHANGED countVars
    BY <1>3 DEF PushSource, PushDistgit
  <2> QED  BY <2>1, <2>2, PublishUnchanged, RunUnchanged, OthersUnchanged, TypePartsNext
<1>4. ASSUME NEW q \in Package, Recheck(q)
      PROVE  TypeOK'
  <2>1. CountTypeOK'
    BY <1>4 DEF Recheck, CountTypeOK
  <2>2. PublishTypeOK'
    BY <1>4, RecheckType DEF Recheck
  <2>3. UNCHANGED upstreamVars /\ UNCHANGED runVars
    BY <1>4 DEF Recheck
  <2> QED  BY <2>1, <2>2, <2>3, RunUnchanged, OthersUnchanged, TypePartsNext
<1>5. ASSUME NEW p \in Importer, ImportCommit(p) \/ ImportDone(p)
      PROVE  TypeOK'
  <2>1. PublishTypeOK'
    BY <1>5, SubmitType, ReleaseType DEF ImportCommit, ImportDone
  <2>2. UNCHANGED upstreamVars /\ UNCHANGED runVars /\ UNCHANGED countVars
    BY <1>5 DEF ImportCommit, ImportDone
  <2> QED  BY <2>1, <2>2, RunUnchanged, OthersUnchanged, TypePartsNext
<1>6. ASSUME NEW p \in Proc, Process(p)
      PROVE  TypeOK'
  <2>1. PublishTypeOK'
    BY <1>0, <1>6, AdvanceType DEF Process
  <2>2. UNCHANGED upstreamVars /\ UNCHANGED runVars /\ UNCHANGED countVars
    BY <1>6 DEF Process
  <2> QED  BY <2>1, <2>2, RunUnchanged, OthersUnchanged, TypePartsNext
<1>7. ASSUME NEW p \in Proc, Abort(p)
      PROVE  TypeOK'
  <2>1. PublishTypeOK'
    BY <1>0, <1>7, RaiseType DEF Abort
  <2>2. StopRun \/ UNCHANGED runVars
    BY <1>7 DEF Abort
  <2>3. UNCHANGED upstreamVars /\ UNCHANGED countVars
    BY <1>7 DEF Abort
  <2> QED  BY <2>1, <2>2, <2>3, StopRunType, RunUnchanged, OthersUnchanged, TypePartsNext
<1>8. ASSUME NEW p \in Proc, Crash(p)
      PROVE  TypeOK'
  <2>1. PublishTypeOK'
    BY <1>8, KillType, PublishUnchanged DEF Crash
  <2>2. StopRun \/ UNCHANGED runVars
    BY <1>8 DEF Crash
  <2>3. UpstreamTypeOK' /\ CountTypeOK'
    BY <1>8, OthersUnchanged DEF Crash, CountTypeOK
  <2> QED  BY <2>1, <2>2, <2>3, StopRunType, RunUnchanged, TypePartsNext
<1>9. CASE UNCHANGED vars
  <2>1. /\ UNCHANGED publishVars /\ UNCHANGED upstreamVars
        /\ UNCHANGED runVars /\ UNCHANGED countVars
    BY <1>9 DEF vars
  <2> QED  BY <2>1, PublishUnchanged, RunUnchanged, OthersUnchanged, TypePartsNext
<1> QED  BY <1>1, <1>2, <1>3, <1>4, <1>5, <1>6, <1>7, <1>8, <1>9 DEF Next

-----------------------------------------------------------------------------
(* The invariant of the block                                              *)

(* A process that takes no part in a step, nothing it looks at changes.    *)
LEMMA Undisturbed ==
  ASSUME NEW q \in Proc, JobMatches(q), StaysConsistent(q),
         UNCHANGED <<db, links, tmp>>, pc'[q] = pc[q], job'[q] = job[q]
  PROVE  JobMatches(q)' /\ StaysConsistent(q)'
<1>1. JobMatches(q)'
  BY DEF JobMatches
<1>2. StaysConsistent(q)'
  BY DEF StaysConsistent
<1> QED  BY <1>1, <1>2

(* A process outside the block relies on nothing that others change.       *)
LEMMA Bystander ==
  ASSUME NEW q \in Proc, JobMatches(q), pc[q] \notin Locked,
         pc'[q] = pc[q], job'[q] = job[q]
  PROVE  JobMatches(q)' /\ StaysConsistent(q)'
<1>1. JobMatches(q)'
  BY DEF JobMatches, Locked
<1>2. StaysConsistent(q)'
  BY DEF StaysConsistent, Locked
<1> QED  BY <1>1, <1>2

(* While one process is in the block, all others are outside.              *)
LEMMA OnlyOneInside ==
  ASSUME LockHeld, NEW p \in Proc, pc[p] \in Locked \/ lock = None
  PROVE  \A q \in Proc \ {p} : pc[q] \notin Locked
BY PublishAssumption DEF LockHeld

(* Rows that change but keep their revision leave the jobs in order.       *)
LEMMA RowChange ==
  ASSUME NEW q \in Proc, JobMatches(q), UNCHANGED <<links, tmp, pc, job>>,
         DOMAIN db' = DOMAIN db, \A i \in DOMAIN db : db'[i].rev = db[i].rev
  PROVE  JobMatches(q)'
BY DEF JobMatches

(* A job that was given up.                                                *)
LEMMA GivenUp ==
  ASSUME PublishTypeOK, NEW p \in Proc, NEW l \in {"idle", "done"}, Leave(p, l)
  PROVE  JobMatches(p)' /\ StaysConsistent(p)'
<1>1. pc'[p] = l /\ job'[p] = NoJob
  BY DEF Leave, Goto, PublishTypeOK
<1>2. ~NoJob.consistent
  BY DEF NoJob, NewJob
<1>3. JobMatches(p)'
  BY <1>1, <1>2 DEF JobMatches, Locked
<1>4. StaysConsistent(p)'
  BY <1>1, <1>2 DEF StaysConsistent
<1> QED  BY <1>3, <1>4

(* Leaving the block gives up the lock and nothing else.                   *)
LEMMA LeaveKeeps ==
  ASSUME PublishTypeOK, BlockInv, NEW p \in Proc, NEW l \in {"idle", "done"}, Leave(p, l),
         UNCHANGED <<db, links, tmp>>
  PROVE  BlockInv'
<1>1. LockHeld'
  BY PublishAssumption DEF BlockInv, LockHeld, Leave, Goto, PublishTypeOK, Locked
<1>2. \A q \in Proc : JobMatches(q)' /\ StaysConsistent(q)'
  <2> TAKE q \in Proc
  <2>1. CASE q = p
    BY <2>1, GivenUp
  <2>2. CASE q # p
    <3>1. pc'[q] = pc[q] /\ job'[q] = job[q]
      BY <2>2 DEF Leave, Goto, PublishTypeOK
    <3> QED  BY <3>1, Undisturbed DEF BlockInv
  <2> QED  BY <2>1, <2>2
<1> QED  BY <1>1, <1>2 DEF BlockInv

(* A process that rests is outside the block.                              *)
LEMMA RestIdle == \A p \in Proc : Rest(p) \in {"idle", "done"}
BY DEF Rest

(* Handing in a result keeps BlockInv: the lock is not touched.            *)
LEMMA SubmitKeeps ==
  ASSUME PublishTypeOK, BlockInv, NEW p \in Proc, NEW r \in Rev, NEW o \in Outcome,
         Submit(p, r, o)
  PROVE  BlockInv'
<1>1. pc'[p] = "wait" /\ job'[p] = NewJob(r, o)
  BY DEF Submit, Goto, PublishTypeOK
<1>2. NewJob(r, o).rev = r /\ ~NewJob(r, o).consistent
  BY DEF NewJob
<1>3. JobMatches(p)' /\ StaysConsistent(p)'
  <2>1. JobMatches(p)'
    BY <1>1, <1>2 DEF JobMatches
  <2>2. StaysConsistent(p)'
    BY <1>1, <1>2 DEF StaysConsistent
  <2> QED  BY <2>1, <2>2
<1>4. \A q \in Proc \ {p} : JobMatches(q)' /\ StaysConsistent(q)'
  <2> TAKE q \in Proc \ {p}
  <2>1. pc'[q] = pc[q] /\ job'[q] = job[q]
    BY DEF Submit, Goto, PublishTypeOK
  <2> QED  BY <2>1, Undisturbed DEF BlockInv, Submit
<1>5. LockHeld'
  BY DEF BlockInv, LockHeld, Submit, Goto, PublishTypeOK, Locked
<1> QED  BY <1>3, <1>4, <1>5 DEF BlockInv

(* A recheck that is not forced takes back the last outcome of a project   *)
(* whose newest row is no success: one that keeps "consistent" from moving.*)
LEMMA RecheckKeeps ==
  ASSUME PublishTypeOK, BlockInv, NEW q \in Package, RecheckCommit(q, AllowForce)
  PROVE  BlockInv'
<1>1. PICK i \in LastProcessed(db, q) :
        /\ db[i].status = "SUCCESS" => AllowForce
        /\ db' = [db EXCEPT ![i].gone = TRUE]
  BY DEF RecheckCommit
<1>2. UNCHANGED <<links, tmp, lock, pc, job>>
  BY DEF RecheckCommit
<1>3. i \in DOMAIN db /\ db[i].rev.pkg = q
  BY DEF LastProcessed, Latest, RowsOf, Live
<1>4. db \in Seq(Row) /\ db' \in Seq(Row)
  BY <1>1, <1>3, TableChangeType DEF PublishTypeOK
<1>5. /\ DOMAIN db' = DOMAIN db
      /\ \A n \in DOMAIN db : db'[n].rev = db[n].rev /\ db'[n].status = db[n].status
      /\ \A n \in DOMAIN db \ {i} : db'[n] = db[n]
  BY <1>1, <1>3, <1>4, TableType DEF Row
<1>6. \A r \in Package \ {q} : /\ RowsOf(db', r) = RowsOf(db, r)
                              /\ NewestSucceeded(db', r) <=> NewestSucceeded(db, r)
  BY <1>3, <1>4, <1>5, WithdrawOther
<1>7. ~AllowForce => ~NewestSucceeded(db, q)
  BY <1>1, <1>4, LastProcessedIsNewest
<1>8. ASSUME NEW p \in Proc
      PROVE  JobMatches(p)' /\ StaysConsistent(p)'
  <2>1. JobMatches(p)'
    BY <1>2, <1>5, RowChange DEF BlockInv
  <2> DEFINE Deserved == /\ FailedOthers(db', job[p].rev.pkg) = {}
                         /\ pc[p] # "record" =>
                               /\ Latest(RowsOf(db', job[p].rev.pkg)) = {job[p].id}
                               /\ db'[job[p].id].status = "SUCCESS"
  <2>2. ASSUME ~AllowForce, job[p].consistent,
               pc[p] \in {"record", "symlink", "rename", "vote"}
        PROVE  Deserved
    <3>1. job[p].rev.pkg \in Package
      BY <2>2 DEF BlockInv, JobMatches, Locked, Rev
    <3>2. FailedOthers(db, job[p].rev.pkg) = {}
      BY <2>2 DEF BlockInv, StaysConsistent
    <3>3. q = job[p].rev.pkg
      BY <1>7, <2>2, <3>2 DEF FailedOthers
    <3>4. FailedOthers(db', job[p].rev.pkg) = {}
      BY <1>6, <3>2, <3>3 DEF FailedOthers
    <3>5. CASE pc[p] # "record"
      <4>1. /\ Latest(RowsOf(db, job[p].rev.pkg)) = {job[p].id}
            /\ db[job[p].id].status = "SUCCESS"
        BY <2>2, <3>5 DEF BlockInv, StaysConsistent
      <4>2. NewestSucceeded(db, q)
        BY <3>3, <4>1 DEF NewestSucceeded
      <4> QED  BY <1>7, <2>2, <4>2
    <3> QED  BY <3>4, <3>5
  <2>3. StaysConsistent(p)'
    <3>1. ~AllowForce /\ job[p].consistent /\ pc[p] \in {"record", "symlink", "rename", "vote"}
            => Deserved
      BY <2>2
    <3> QED  BY <1>2, <3>1 DEF StaysConsistent
  <2> QED  BY <2>1, <2>3
<1>9. LockHeld'
  BY <1>2 DEF BlockInv, LockHeld
<1> QED  BY <1>8, <1>9 DEF BlockInv

(* Rows are marked for a bootstrap while the main process is outside the   *)
(* block, and importers do not move "consistent".                          *)
LEMMA BootstrapKeeps ==
  ASSUME PublishTypeOK, BlockInv, NEW q \in Package, BootstrapPackage(q)
  PROVE  BlockInv'
<1>1. UNCHANGED <<links, tmp, lock, pc, job>> /\ pc[Main] = "idle"
  BY DEF BootstrapPackage, LoopDone
<1>2. DOMAIN db' = DOMAIN db /\ \A n \in DOMAIN db : db'[n].rev = db[n].rev
  <2>1. CASE UNCHANGED db
    BY <2>1
  <2>2. ASSUME NEW i \in LastProcessed(db, q), db' = [db EXCEPT ![i].status = "RETRY"]
        PROVE  DOMAIN db' = DOMAIN db /\ \A n \in DOMAIN db : db'[n].rev = db[n].rev
    <3>1. i \in DOMAIN db
      BY DEF LastProcessed, Latest, RowsOf, Live
    <3> QED  BY <2>2, <3>1, TableType DEF Row, PublishTypeOK
  <2> QED  BY <2>1, <2>2 DEF BootstrapPackage
<1>3. ASSUME NEW p \in Proc
      PROVE  JobMatches(p)' /\ StaysConsistent(p)'
  <2>1. JobMatches(p)'
    BY <1>1, <1>2, RowChange DEF BlockInv
  <2>2. job[p].consistent => p = Main
    BY DEF BlockInv, JobMatches
  <2>3. StaysConsistent(p)'
    BY <1>1, <2>2 DEF StaysConsistent
  <2> QED  BY <2>1, <2>3
<1>4. LockHeld'
  BY <1>1 DEF BlockInv, LockHeld
<1> QED  BY <1>3, <1>4 DEF BlockInv

(* Only p moves, inside the block or into it.                              *)
LEMMA StepInside ==
  ASSUME PublishTypeOK, BlockInv, NEW p \in Proc, NEW l \in Locked, Goto(p, l),
         \/ pc[p] \in Locked /\ UNCHANGED lock
         \/ lock = None /\ lock' = p,
         \A q \in Proc \ {p} : job'[q] = job[q],
         JobMatches(p)', StaysConsistent(p)'
  PROVE  BlockInv'
<1>1. \A q \in Proc \ {p} : pc[q] \notin Locked /\ pc'[q] = pc[q]
  BY OnlyOneInside DEF BlockInv, Goto, PublishTypeOK
<1>2. \A q \in Proc \ {p} : JobMatches(q)' /\ StaysConsistent(q)'
  BY <1>1, Bystander DEF BlockInv
<1>3. LockHeld'
  BY <1>1, PublishAssumption DEF BlockInv, LockHeld, Goto, PublishTypeOK
<1> QED  BY <1>2, <1>3 DEF BlockInv

(* Taking the free lock keeps BlockInv.                                    *)
LEMMA AcquireKeeps ==
  ASSUME PublishTypeOK, BlockInv, NEW p \in Proc, Acquire(p)
  PROVE  BlockInv'
<1>1. pc[p] = "wait" /\ JobMatches(p) /\ pc'[p] \in {"post", "record"} /\ job' = job
  BY DEF Acquire, Goto, PublishTypeOK, BlockInv
<1>2. pc'[p] = "post" => job[p].outcome = "ok"
  BY DEF Acquire, Goto, PublishTypeOK
<1>3. JobMatches(p)'
  BY <1>1, <1>2 DEF JobMatches, Locked
<1>4. StaysConsistent(p)'
  BY <1>1 DEF StaysConsistent, JobMatches
<1> QED  BY <1>3, <1>4, StepInside DEF Acquire, Locked

(* So does post_build, which computes "consistent" from the table, ...     *)
LEMMA PostBuildKeeps ==
  ASSUME PublishTypeOK, BlockInv, NEW p \in Proc, PostBuild(p)
  PROVE  BlockInv'
<1>1. pc[p] = "post" /\ pc'[p] = "record" /\ JobMatches(p)
  BY DEF PostBuild, Goto, PublishTypeOK, BlockInv
<1>2. /\ job'[p].rev = job[p].rev /\ job'[p].outcome = job[p].outcome
      /\ job'[p].consistent = (p = Main /\ FailedOthers(db, job[p].rev.pkg) = {})
  BY DEF PostBuild, PublishTypeOK, Job
<1>3. JobMatches(p)'
  BY <1>1, <1>2 DEF JobMatches, Locked
<1>4. StaysConsistent(p)'
  BY <1>1, <1>2 DEF StaysConsistent, PostBuild
<1>5. \A q \in Proc \ {p} : job'[q] = job[q]
  BY DEF PostBuild, PublishTypeOK
<1> QED  BY <1>1, <1>3, <1>4, <1>5, StepInside DEF PostBuild, Locked

(* ... and dropping a failed result under --stop.                          *)
LEMMA DiscardKeeps ==
  ASSUME PublishTypeOK, BlockInv, NEW p \in Proc, Discard(p)
  PROVE  BlockInv'
<1>1. pc[p] = "record" /\ pc'[p] = "release" /\ JobMatches(p)
  BY DEF Discard, Goto, PublishTypeOK, BlockInv
<1>2. /\ job'[p].rev = job[p].rev /\ job'[p].outcome = job[p].outcome
      /\ job'[p].consistent = job[p].consistent
  BY DEF Discard, PublishTypeOK, Job
<1>3. JobMatches(p)'
  BY <1>1, <1>2 DEF JobMatches, Locked
<1>4. StaysConsistent(p)'
  BY <1>1 DEF StaysConsistent
<1>5. \A q \in Proc \ {p} : job'[q] = job[q]
  BY DEF Discard, PublishTypeOK
<1> QED  BY <1>1, <1>3, <1>4, <1>5, StepInside DEF Discard, Locked

(* The row of a consistent job is the newest of its project, a success.    *)
LEMMA RecordKeeps ==
  ASSUME PublishTypeOK, BlockInv, NEW p \in Proc, Record(p)
  PROVE  BlockInv'
<1> DEFINE j == job[p]
           ok == j.outcome = "ok"
<1>1. pc[p] = "record" /\ JobMatches(p) /\ StaysConsistent(p) /\ j.rev \in Rev /\ j \in Job
  BY DEF Record, PublishTypeOK, BlockInv, JobMatches, Locked
<1>2. PICK synced \in {TRUE, ~SyncMayFail} :
        LET status == RecordedStatus(j, synced)
            dirnames == DirNames(ok, StillConsistent(j, synced))
        IN
        /\ db' = Append(db, [rev |-> j.rev, status |-> status,
                             vote |-> FALSE, gone |-> FALSE])
        /\ job' = [job EXCEPT ![p] =
             [@ EXCEPT !.consistent = StillConsistent(j, synced),
                       !.id = Len(db) + 1,
                       !.failed = status # "SUCCESS",
                       !.dirnames = dirnames]]
        /\ Goto(p, IF dirnames = <<>> THEN "release" ELSE "symlink")
  BY DEF Record
<1> DEFINE status == RecordedStatus(j, synced)
           consistent == StillConsistent(j, synced)
           dirnames == DirNames(ok, consistent)
           row == [rev |-> j.rev, status |-> status, vote |-> FALSE, gone |-> FALSE]
<1>3. /\ job'[p].rev = j.rev /\ job'[p].outcome = j.outcome
      /\ job'[p].consistent = consistent
      /\ job'[p].id = Len(db) + 1
      /\ job'[p].dirnames = dirnames
  BY <1>1, <1>2 DEF PublishTypeOK, Job
<1>4. pc'[p] = IF dirnames = <<>> THEN "release" ELSE "symlink"
  BY <1>2 DEF Goto, PublishTypeOK
<1>5. row \in Row /\ db' = Append(db, row)
  BY <1>1, <1>2 DEF Row, Status, RecordedStatus
<1>6. consistent => j.consistent /\ ok /\ p = Main
  BY <1>1 DEF StillConsistent, JobMatches
<1>7. dirnames # <<>> => dirnames = IF consistent THEN <<"current", "consistent">> ELSE <<"current">>
  BY DEF DirNames
<1>8. Len(db) + 1 \in DOMAIN db' /\ db'[Len(db) + 1] = row
  BY <1>5 DEF PublishTypeOK
<1>9. JobMatches(p)'
  <2>1. dirnames # <<"consistent">>
    BY DEF DirNames
  <2>2. row.rev = j.rev
    OBVIOUS
  <2> HIDE DEF row, dirnames, consistent
  <2> QED  BY <1>1, <1>3, <1>4, <1>6, <1>7, <1>8, <2>1, <2>2 DEF JobMatches, Locked
<1>10. StaysConsistent(p)'
  <2>1. ASSUME ~AllowForce, consistent
        PROVE  /\ FailedOthers(db', j.rev.pkg) = {}
               /\ Latest(RowsOf(db', j.rev.pkg)) = {Len(db) + 1}
               /\ row.status = "SUCCESS"
    <3>1. FailedOthers(db, j.rev.pkg) = {}
      BY <1>1, <1>6, <2>1 DEF StaysConsistent
    <3>2. FailedOthers(db', j.rev.pkg) = {}
      BY <1>1, <1>5, <3>1, AppendOther DEF FailedOthers, PublishTypeOK
    <3>3. Latest(RowsOf(db', j.rev.pkg)) = {Len(db) + 1}
      BY <1>5, AppendOwn DEF PublishTypeOK
    <3>4. status = "SUCCESS"
      BY <1>6, <2>1 DEF RecordedStatus, StillConsistent
    <3> QED  BY <3>2, <3>3, <3>4
  <2> HIDE DEF row, dirnames, consistent
  <2> QED  BY <1>3, <1>8, <2>1 DEF StaysConsistent
<1>11. \A q \in Proc \ {p} : job'[q] = job[q]
  BY <1>2 DEF PublishTypeOK
<1> QED  BY <1>1, <1>2, <1>9, <1>10, <1>11, StepInside DEF Record, Locked

(* The temporary link is that of the job at work.                          *)
LEMMA SymlinkKeeps ==
  ASSUME PublishTypeOK, BlockInv, NEW p \in Proc, Symlink(p)
  PROVE  BlockInv'
<1> DEFINE d == Head(job[p].dirnames)
<1>1. pc[p] = "symlink" /\ pc'[p] = "rename" /\ JobMatches(p) /\ StaysConsistent(p)
  BY DEF Symlink, Goto, PublishTypeOK, BlockInv
<1>2. UNCHANGED <<db, links, job>> /\ tmp' = [tmp EXCEPT ![d] = job[p].rev]
  BY DEF Symlink
<1>3. tmp'[d] = job[p].rev
  <2>1. d \in LinkName
    BY <1>1, MovesLinks
  <2> QED  BY <1>2, <2>1 DEF PublishTypeOK
<1>4. JobMatches(p)'
  BY <1>1, <1>2, <1>3 DEF JobMatches, Locked
<1>5. StaysConsistent(p)'
  BY <1>1, <1>2 DEF StaysConsistent
<1> QED  BY <1>1, <1>2, <1>4, <1>5, StepInside DEF Symlink, Locked

(* "current" is moved first, and only a consistent job goes on to move     *)
(* "consistent" and to vote.                                               *)
LEMMA RenameKeeps ==
  ASSUME PublishTypeOK, BlockInv, NEW p \in Proc, Rename(p)
  PROVE  BlockInv'
<1> DEFINE d == Head(job[p].dirnames)
           rest == Tail(job[p].dirnames)
           l == IF rest # <<>> THEN "symlink"
                ELSE IF job[p].consistent THEN "vote" ELSE "release"
<1>1. pc[p] = "rename" /\ JobMatches(p) /\ StaysConsistent(p)
  BY DEF Rename, BlockInv
<1>2. UNCHANGED <<db, lock>> /\ Goto(p, l) /\ pc'[p] = l
  BY DEF Rename, Goto, PublishTypeOK
<1>3. d \in LinkName /\ links'[d] = job[p].rev
  <2>1. d \in LinkName
    BY <1>1, MovesLinks
  <2>2. links' = [links EXCEPT ![d] = tmp[d]]
    BY DEF Rename
  <2>3. tmp[d] = job[p].rev
    BY <1>1 DEF JobMatches
  <2> QED  BY <2>1, <2>2, <2>3 DEF PublishTypeOK
<1>4. /\ job'[p].rev = job[p].rev /\ job'[p].outcome = job[p].outcome
      /\ job'[p].consistent = job[p].consistent
      /\ job'[p].id = job[p].id
      /\ job'[p].dirnames = rest
  BY DEF Rename, PublishTypeOK, Job
<1>5. ASSUME rest # <<>>
      PROVE  JobMatches(p)' /\ StaysConsistent(p)'
  <2>1. job[p].consistent /\ d = "current" /\ rest = <<"consistent">> /\ l = "symlink"
    BY <1>1, <1>5, MovesLinks
  <2> HIDE DEF d, rest, l
  <2>2. JobMatches(p)'
    BY <1>1, <1>2, <1>3, <1>4, <2>1 DEF JobMatches, Locked
  <2>3. StaysConsistent(p)'
    BY <1>1, <1>2, <1>4, <2>1 DEF StaysConsistent
  <2> QED  BY <2>2, <2>3
<1>6. ASSUME rest = <<>>
      PROVE  JobMatches(p)' /\ StaysConsistent(p)'
  <2>1. job[p].consistent => d = "consistent" /\ l = "vote"
    BY <1>1, <1>6, MovesLinks
  <2>2. ~job[p].consistent => l = "release"
    BY <1>6
  <2> HIDE DEF d, rest, l
  <2>3. JobMatches(p)'
    BY <1>1, <1>2, <1>3, <1>4, <2>1, <2>2 DEF JobMatches, Locked
  <2>4. StaysConsistent(p)'
    BY <1>1, <1>2, <1>4, <2>1, <2>2 DEF StaysConsistent
  <2> QED  BY <2>3, <2>4
<1>7. \A q \in Proc \ {p} : job'[q] = job[q]
  BY DEF Rename, PublishTypeOK
<1>8. l \in Locked
  BY DEF Locked
<1> HIDE DEF l
<1> QED  BY <1>1, <1>2, <1>5, <1>6, <1>7, <1>8, StepInside DEF Locked

(* The vote changes no answer the block relies on.                         *)
LEMMA VoteKeepsBlock ==
  ASSUME PublishTypeOK, BlockInv, NEW p \in Proc, Vote(p)
  PROVE  BlockInv'
<1>1. pc[p] = "vote" /\ pc'[p] = "release" /\ JobMatches(p) /\ job' = job
  BY DEF Vote, Goto, PublishTypeOK, BlockInv
<1>2. JobMatches(p)'
  BY <1>1 DEF JobMatches, Locked
<1>3. StaysConsistent(p)'
  BY <1>1 DEF StaysConsistent
<1> QED  BY <1>1, <1>2, <1>3, StepInside DEF Vote, Locked

(* Every step of the specification keeps BlockInv.                         *)
LEMMA BlockStep ==
  ASSUME TypeOK, BlockInv, [Next]_vars
  PROVE  BlockInv'
<1>0. PublishTypeOK /\ RunTypeOK
  BY TypeParts
<1>1. ASSUME UNCHANGED publishVars
      PROVE  BlockInv'
  <2>1. LockHeld'
    BY <1>1 DEF publishVars, BlockInv, LockHeld
  <2>2. \A q \in Proc : JobMatches(q)' /\ StaysConsistent(q)'
    BY <1>1, Undisturbed DEF publishVars, BlockInv
  <2> QED  BY <2>1, <2>2 DEF BlockInv
<1>2. CASE RunStep
  <2>1. CASE StartRun \/ StartBuilds \/ NothingToBuild \/ EndRun
    BY <1>1, <2>1 DEF StartRun, StartBuilds, NothingToBuild, EndRun
  <2>2. ASSUME NEW i \in DOMAIN queue, StartBuild(i) \/ FinishBuild(i)
        PROVE  BlockInv'
    <3>1. UNCHANGED <<db, links, tmp, lock, pc, job>>
      BY <2>2 DEF StartBuild, FreshDirectory, FinishBuild, publishVars
    <3>2. LockHeld'
      BY <3>1 DEF BlockInv, LockHeld
    <3>3. \A q \in Proc : JobMatches(q)' /\ StaysConsistent(q)'
      BY <3>1, Undisturbed DEF BlockInv
    <3> QED  BY <3>2, <3>3 DEF BlockInv
  <2>3. CASE TakeResult
    <3>1. queue[next] \in Rev /\ built[next] \in Outcome
      BY <1>0, <2>3 DEF TakeResult, RunTypeOK
    <3> QED  BY <1>0, <2>3, <3>1, SubmitKeeps DEF TakeResult
  <2>4. CASE NextResult
    BY <1>0, <2>4, LeaveKeeps, RestIdle DEF NextResult, Release
  <2>5. ASSUME NEW q \in Package, BootstrapPackage(q)
        PROVE  BlockInv'
    BY <1>0, <2>5, BootstrapKeeps
  <2> QED  BY <1>2, <2>1, <2>2, <2>3, <2>4, <2>5 DEF RunStep
<1>3. ASSUME NEW q \in Package,
             ScanPackage(q) \/ SkipPackage(q) \/ PushSource(q) \/ PushDistgit(q)
      PROVE  BlockInv'
  BY <1>1, <1>3 DEF ScanPackage, SkipPackage, PushSource, PushDistgit
<1>4. ASSUME NEW q \in Package, Recheck(q)
      PROVE  BlockInv'
  BY <1>0, <1>4, RecheckKeeps DEF Recheck
<1>5. ASSUME NEW p \in Importer, ImportCommit(p) \/ ImportDone(p)
      PROVE  BlockInv'
  BY <1>0, <1>5, SubmitKeeps, LeaveKeeps, RestIdle DEF ImportCommit, ImportDone, Release
<1>6. ASSUME NEW p \in Proc, Process(p)
      PROVE  BlockInv'
  BY <1>0, <1>6, AcquireKeeps, PostBuildKeeps, DiscardKeeps, RecordKeeps, SymlinkKeeps,
     RenameKeeps, VoteKeepsBlock DEF Process, Advance
<1>7. ASSUME NEW p \in Proc, Abort(p)
      PROVE  BlockInv'
  <2>1. UNCHANGED <<db, links, tmp>> /\ Leave(p, Rest(p))
    BY <1>7 DEF Abort, Raise, RpmExists, RowGone, TempExists, VoteRefused
  <2> QED  BY <1>0, <2>1, LeaveKeeps, RestIdle
<1>8. ASSUME NEW p \in Proc, Crash(p)
      PROVE  BlockInv'
  BY <1>0, <1>1, <1>8, LeaveKeeps DEF Crash, Kill
<1>9. CASE UNCHANGED vars
  BY <1>1, <1>9 DEF vars
<1> QED  BY <1>2, <1>3, <1>4, <1>5, <1>6, <1>7, <1>8, <1>9 DEF Next

-----------------------------------------------------------------------------
(* What holds in every state                                               *)

(* The inductive invariant holds in the initial state.                     *)
LEMMA Initially == Init => IInv
<1> SUFFICES ASSUME Init PROVE IInv
  OBVIOUS
<1>1. PublishTypeOK
  BY NoJobType DEF Init, InitPublish, PublishTypeOK, PC
<1>2. RunTypeOK
  <2>1. queue \in Seq(Rev) /\ built \in Seq(BuildState) /\ Len(built) = Len(queue)
    BY DEF Init, Idle
  <2>2. boot \in [Package -> Nat] /\ next \in Nat \ {0}
    BY DEF Init, Idle
  <2> QED  BY <2>1, <2>2 DEF Init, Idle, RunTypeOK
<1>3. UpstreamTypeOK /\ CountTypeOK
  BY CommitDBAssumption DEF Init, UpstreamTypeOK, CountTypeOK
<1>4. \A p \in Proc : pc[p] = "idle" /\ ~job[p].consistent /\ lock # p
  BY PublishAssumption DEF Init, InitPublish, NoJob, NewJob
<1>5. \A p \in Proc : JobMatches(p) /\ StaysConsistent(p)
  BY <1>4 DEF JobMatches, StaysConsistent, Locked
<1>6. LockHeld
  BY <1>4 DEF LockHeld, Locked
<1> QED  BY <1>1, <1>2, <1>3, <1>5, <1>6, TypeParts DEF IInv, BlockInv

(* The inductive invariant: types, and BlockInv, in every reachable state. *)
THEOREM Invariance == Spec => []IInv
<1>1. IInv /\ [Next]_vars => IInv'
  BY TypeStep, BlockStep DEF IInv
<1> QED  BY Initially, <1>1, PTL DEF Spec

(* The variables keep their types: in particular a queue is a sequence of  *)
(* revisions, and every row, link and job names a revision that exists     *)
(* (build_worker, process_build_result).                                   *)
THEOREM TypeCorrect == Spec => []TypeOK
BY Invariance, PTL DEF IInv

(* lock_file: whoever is inside the block of process_build_result holds    *)
(* remote.lck, and nobody else does, whatever process is killed or raises  *)
(* an exception at any point.                                              *)
THEOREM LockIsHeld == Spec => []LockHeld
BY Invariance, PTL DEF IInv, BlockInv

(* What a process in the block is about to do agrees with the table and    *)
(* the links, and no recheck, bootstrap or import makes untrue what        *)
(* post_build has computed "consistent" from.                              *)
THEOREM BlockIsSound == Spec => []BlockInv
BY Invariance, PTL DEF IInv

-----------------------------------------------------------------------------
(* What a step may do to the table and the links                           *)

(* The only steps that touch either.                                       *)
LEMMA Effects ==
  ASSUME [Next]_vars
  PROVE  \/ UNCHANGED <<db, links>>
         \/ \E p \in Proc : Record(p) \/ Rename(p) \/ Vote(p)
         \/ \E q \in Package : RecheckCommit(q, AllowForce)
         \/ \E q \in Package : \E i \in LastProcessed(db, q) :
               db' = [db EXCEPT ![i].status = "RETRY"] /\ UNCHANGED links
<1>1. CASE RunStep
  <2>1. CASE StartRun \/ StartBuilds \/ NothingToBuild \/ EndRun
    BY <2>1 DEF StartRun, StartBuilds, NothingToBuild, EndRun, publishVars
  <2>2. ASSUME NEW i \in DOMAIN queue, StartBuild(i) \/ FinishBuild(i)
        PROVE  UNCHANGED <<db, links>>
    BY <2>2 DEF StartBuild, FreshDirectory, FinishBuild, publishVars
  <2>3. CASE TakeResult \/ NextResult
    BY <2>3 DEF TakeResult, Submit, NextResult, Release
  <2>4. ASSUME NEW q \in Package, BootstrapPackage(q)
        PROVE  /\ UNCHANGED links
               /\ \/ UNCHANGED db
                  \/ \E i \in LastProcessed(db, q) : db' = [db EXCEPT ![i].status = "RETRY"]
    BY <2>4 DEF BootstrapPackage
  <2> QED  BY <1>1, <2>1, <2>2, <2>3, <2>4 DEF RunStep
<1>2. ASSUME NEW q \in Package,
             ScanPackage(q) \/ SkipPackage(q) \/ PushSource(q) \/ PushDistgit(q)
      PROVE  UNCHANGED <<db, links>>
  BY <1>2 DEF ScanPackage, SkipPackage, PushSource, PushDistgit, publishVars
<1>3. ASSUME NEW q \in Package, Recheck(q)
      PROVE  RecheckCommit(q, AllowForce)
  BY <1>3 DEF Recheck
<1>4. ASSUME NEW p \in Importer, ImportCommit(p) \/ ImportDone(p)
      PROVE  UNCHANGED <<db, links>>
  BY <1>4 DEF ImportCommit, Submit, ImportDone, Release
<1>5. ASSUME NEW p \in Proc, Process(p)
      PROVE  UNCHANGED <<db, links>> \/ Record(p) \/ Rename(p) \/ Vote(p)
  BY <1>5 DEF Process, Advance, Acquire, PostBuild, Discard, Symlink
<1>6. ASSUME NEW p \in Proc, Abort(p)
      PROVE  UNCHANGED <<db, links>>
  BY <1>6 DEF Abort, Raise, RpmExists, RowGone, TempExists, VoteRefused
<1>7. ASSUME NEW p \in Proc, Crash(p)
      PROVE  UNCHANGED <<db, links>>
  BY <1>7 DEF Crash, Kill, publishVars
<1>8. CASE UNCHANGED vars
  BY <1>8 DEF vars, publishVars
<1> QED  BY <1>1, <1>2, <1>3, <1>4, <1>5, <1>6, <1>7, <1>8 DEF Next

(* When a process is about to move "consistent" or to vote, the newest row *)
(* of every project is a success, its own that of its revision.            *)
LEMMA Deserved ==
  ASSUME IInv, ~AllowForce, NEW p \in Proc, job[p].consistent, pc[p] \in {"rename", "vote"}
  PROVE  /\ AllSucceeded
         /\ job[p].rev \in Rev
         /\ job[p].id \in Latest(RowsOf(db, job[p].rev.pkg))
         /\ db[job[p].id].rev = job[p].rev
<1>1. /\ JobMatches(p) /\ StaysConsistent(p)
  BY DEF IInv, BlockInv
<1>2. job[p].rev \in Rev /\ job[p].rev.pkg \in Package /\ db[job[p].id].rev = job[p].rev
  BY <1>1 DEF JobMatches, Locked, Rev
<1>3. /\ FailedOthers(db, job[p].rev.pkg) = {}
      /\ Latest(RowsOf(db, job[p].rev.pkg)) = {job[p].id}
      /\ db[job[p].id].status = "SUCCESS"
  BY <1>1 DEF StaysConsistent
<1>4. NewestSucceeded(db, job[p].rev.pkg)
  BY <1>3 DEF NewestSucceeded
<1> QED  BY <1>2, <1>3, <1>4 DEF AllSucceeded, FailedOthers

(* A rename moves one link, to the revision of the job.                    *)
LEMMA RenameEffect ==
  ASSUME IInv, NEW p \in Proc, Rename(p)
  PROVE  /\ UNCHANGED db
         /\ job[p].rev \in Rev
         /\ job[p].id \in DOMAIN db /\ db[job[p].id].rev = job[p].rev
         /\ \/ links' = [links EXCEPT !["current"] = job[p].rev]
            \/ /\ links' = [links EXCEPT !["consistent"] = job[p].rev]
               /\ job[p].consistent /\ links["current"] = job[p].rev
<1>1. pc[p] = "rename" /\ JobMatches(p)
  BY DEF Rename, IInv, BlockInv
<1>2. job[p].rev \in Rev /\ job[p].id \in DOMAIN db /\ db[job[p].id].rev = job[p].rev
  BY <1>1 DEF JobMatches, Locked
<1>3. links' = [links EXCEPT ![Head(job[p].dirnames)] = job[p].rev]
  BY <1>1 DEF Rename, JobMatches
<1>4. \/ Head(job[p].dirnames) = "current"
      \/ /\ Head(job[p].dirnames) = "consistent"
         /\ job[p].dirnames = <<"consistent">> /\ job[p].consistent
  BY <1>1, MovesLinks
<1>5. job[p].dirnames = <<"consistent">> => links["current"] = job[p].rev
  BY <1>1 DEF JobMatches
<1> QED  BY <1>2, <1>3, <1>4, <1>5 DEF Rename

(* Without forced rechecks, "consistent" is only moved to the newest row   *)
(* of a project, a success like the newest rows of all the others; see     *)
(* post_build_rpm and the end of process_build_result_rpm.                 *)
THEOREM ConsistentStaysClean ==
  ASSUME ~AllowForce
  PROVE  Spec => ConsistentIsClean
<1> DEFINE Clean == links'["consistent"] # links["consistent"] =>
                      /\ AllSucceeded
                      /\ \E i \in Latest(RowsOf(db, links'["consistent"].pkg)) :
                            db[i].rev = links'["consistent"]
<1>1. ASSUME IInv, [Next]_vars
      PROVE  Clean
  <2>1. links \in [LinkName -> Rev \cup {None}]
    BY <1>1 DEF IInv, TypeOK, PublishTypeOK
  <2>2. CASE UNCHANGED links
    BY <2>2
  <2>3. ASSUME NEW p \in Proc, Rename(p)
        PROVE  Clean
    <3>1. pc[p] = "rename"
      BY <2>3 DEF Rename
    <3>2. CASE links' = [links EXCEPT !["current"] = job[p].rev]
      BY <2>1, <3>2
    <3>3. CASE /\ links' = [links EXCEPT !["consistent"] = job[p].rev]
               /\ job[p].consistent
      BY <1>1, <2>1, <3>1, <3>3, Deserved
    <3> QED  BY <1>1, <2>3, <3>2, <3>3, RenameEffect
  <2>4. \A p \in Proc : Record(p) \/ Vote(p) => UNCHANGED links
    BY DEF Record, Vote
  <2>5. \A q \in Package : RecheckCommit(q, AllowForce) => UNCHANGED links
    BY DEF RecheckCommit
  <2> QED  BY <1>1, <2>2, <2>3, <2>4, <2>5, Effects
<1>2. IInv /\ [Next]_vars => [Clean]_vars
  BY <1>1
<1> QED  BY <1>2, Invariance, PTL DEF Spec, ConsistentIsClean

(* Without forced rechecks, a CI vote is only given to the row "consistent"*)
(* leads to, while the newest row of every project is a success; see the   *)
(* end of process_build_result_rpm.                                        *)
THEOREM VotesAreDeserved ==
  ASSUME ~AllowForce
  PROVE  Spec => VoteIsDeserved
<1> DEFINE Fair == \A i \in DOMAIN db : db'[i].vote /\ ~db[i].vote =>
                      AllSucceeded /\ links["consistent"] = db[i].rev
           Keeps == \A i \in DOMAIN db : db'[i].vote = db[i].vote
<1>1. ASSUME IInv, [Next]_vars
      PROVE  Fair
  <2>1. db \in Seq(Row)
    BY <1>1 DEF IInv, TypeOK, PublishTypeOK
  <2>2. \A p \in Proc : Rename(p) => UNCHANGED db
    BY DEF Rename
  <2>3. ASSUME NEW p \in Proc, Record(p)
        PROVE  Keeps
    <3>1. PICK row : db' = Append(db, row)
      BY <2>3 DEF Record
    <3> QED  BY <2>1, <3>1
  <2>4. ASSUME NEW p \in Proc, Vote(p)
        PROVE  Fair
    <3>1. pc[p] = "vote" /\ db' = [db EXCEPT ![job[p].id].vote = TRUE]
      BY <2>4 DEF Vote
    <3>2. JobMatches(p)
      BY <1>1 DEF IInv, BlockInv
    <3>3. job[p].consistent /\ links["consistent"] = job[p].rev /\ db[job[p].id].rev = job[p].rev
      BY <3>1, <3>2 DEF JobMatches
    <3>4. AllSucceeded
      BY <1>1, <3>1, <3>3, Deserved
    <3>5. \A i \in DOMAIN db \ {job[p].id} : db'[i] = db[i]
      BY <3>1
    <3> QED  BY <3>3, <3>4, <3>5
  <2>5. ASSUME NEW q \in Package, RecheckCommit(q, AllowForce)
        PROVE  Keeps
    BY <2>1, <2>5, TableType DEF RecheckCommit, Row
  <2>6. ASSUME NEW q \in Package, NEW i \in LastProcessed(db, q),
               db' = [db EXCEPT ![i].status = "RETRY"]
        PROVE  Keeps
    BY <2>1, <2>6, TableType DEF Row
  <2> QED  BY <1>1, <2>2, <2>3, <2>4, <2>5, <2>6, Effects
<1>2. IInv /\ [Next]_vars => [Fair]_vars
  BY <1>1
<1> QED  BY <1>2, Invariance, PTL DEF Spec, VoteIsDeserved

-----------------------------------------------------------------------------
(* The installation implements Repository                                  *)

(* Both modules mean the same by their queries.                            *)
LEMMA SameQueries ==
  /\ Repo!Rev = Rev
  /\ Repo!Status = Status
  /\ \A d : Repo!Live(d) = Live(d)
  /\ \A S : Repo!Latest(S) = Latest(S)
  /\ \A d, q : Repo!RowsOf(d, q) = RowsOf(d, q)
  /\ \A d, q : Repo!LastProcessed(d, q) = LastProcessed(d, q)
  /\ \A d, q : Repo!NewestSucceeded(d, q) <=> NewestSucceeded(d, q)
  /\ \A d, r : Repo!TimesRetried(d, r) = TimesRetried(d, r)
  /\ Repo!AllSucceeded <=> AllSucceeded
<1>1. Repo!Rev = Rev /\ Repo!Status = Status
  BY DEF Repo!Rev, Rev, Repo!Status, Status
<1>2. \A d : Repo!Live(d) = Live(d)
  BY DEF Repo!Live, Live
<1>3. \A S : Repo!Latest(S) = Latest(S)
  BY DEF Repo!Latest, Latest
<1>4. \A d, q : Repo!RowsOf(d, q) = RowsOf(d, q)
  BY <1>2 DEF Repo!RowsOf, RowsOf
<1>5. \A d : Repo!Processed(d) = Processed(d)
  BY <1>2 DEF Repo!Processed, Processed
<1>6. \A d, q : Repo!LastProcessed(d, q) = LastProcessed(d, q)
  BY <1>3, <1>4, <1>5 DEF Repo!LastProcessed, LastProcessed
<1>7. \A d, q : Repo!NewestSucceeded(d, q) <=> NewestSucceeded(d, q)
  BY <1>3, <1>4 DEF Repo!NewestSucceeded, NewestSucceeded
<1>8. \A d, S, s : Repo!WithStatus(d, S, s) = WithStatus(d, S, s)
  BY DEF Repo!WithStatus, WithStatus
<1>9. \A d, r : Repo!TimesRetried(d, r) = TimesRetried(d, r)
  <2> TAKE d, r
  <2>1. {i \in Repo!Live(d) : d[i].rev = r} = {i \in Live(d) : d[i].rev = r}
    BY <1>2
  <2>2. Repo!WithStatus(d, {i \in Repo!Live(d) : d[i].rev = r}, "RETRY")
          = WithStatus(d, {i \in Live(d) : d[i].rev = r}, "RETRY")
    BY <1>8, <2>1
  <2>3. \A S : Repo!Cardinality(S) = Cardinality(S)
    BY Zenon DEF Repo!Cardinality, Cardinality
  <2> QED  BY <2>2, <2>3 DEF Repo!TimesRetried, TimesRetried
<1>10. Repo!AllSucceeded <=> AllSucceeded
  BY <1>7 DEF Repo!AllSucceeded, AllSucceeded
<1> QED  BY <1>1, <1>2, <1>3, <1>4, <1>6, <1>7, <1>9, <1>10

(* Seen from outside, Record adds the newest row of a project, ...         *)
LEMMA RecordAdds ==
  ASSUME IInv, NEW p \in Proc, Record(p)
  PROVE  Repo!AddResult
<1>1. PICK synced \in {TRUE, ~SyncMayFail} :
        db' = Append(db, [rev |-> job[p].rev, status |-> RecordedStatus(job[p], synced),
                          vote |-> FALSE, gone |-> FALSE])
  BY DEF Record
<1> DEFINE status == RecordedStatus(job[p], synced)
<1>2. job[p].rev \in Rev
  BY DEF Record, IInv, BlockInv, JobMatches, Locked
<1>3. status \in Status
  BY DEF RecordedStatus, Status
<1>4. status = "RETRY" => TimesRetried(db, job[p].rev) < MaxRetries
  BY DEF RecordedStatus
<1>5. UNCHANGED links
  BY DEF Record
<1> HIDE DEF status
<1> QED  BY <1>1, <1>2, <1>3, <1>4, <1>5, SameQueries DEF Repo!AddResult, status

(* ... Rename moves current or consistent, ...                             *)
LEMMA RenamePublishes ==
  ASSUME ~AllowForce, IInv, NEW p \in Proc, Rename(p)
  PROVE  Repo!MoveCurrent \/ Repo!MoveConsistent
<1>1. pc[p] = "rename"
  BY DEF Rename
<1>2. CASE links' = [links EXCEPT !["current"] = job[p].rev]
  BY <1>2, RenameEffect DEF Repo!MoveCurrent
<1>3. CASE /\ links' = [links EXCEPT !["consistent"] = job[p].rev]
           /\ job[p].consistent /\ links["current"] = job[p].rev
  BY <1>1, <1>3, Deserved, RenameEffect, SameQueries DEF Repo!MoveConsistent
<1> QED  BY <1>2, <1>3, RenameEffect

(* ... Vote votes for the row consistent leads to, ...                     *)
LEMMA VoteCasts ==
  ASSUME ~AllowForce, IInv, NEW p \in Proc, Vote(p)
  PROVE  Repo!CastVote
<1>1. /\ pc[p] = "vote" /\ UNCHANGED links
      /\ db' = [db EXCEPT ![job[p].id].vote = TRUE]
  BY DEF Vote
<1>2. /\ job[p].consistent /\ links["consistent"] = job[p].rev
      /\ job[p].id \in DOMAIN db /\ db[job[p].id].rev = job[p].rev
  BY <1>1 DEF IInv, BlockInv, JobMatches
<1>3. job[p].id \in Repo!Live(db)
  <2>1. StaysConsistent(p)
    BY DEF IInv, BlockInv
  <2>2. Latest(RowsOf(db, job[p].rev.pkg)) = {job[p].id}
    BY <1>1, <1>2, <2>1 DEF StaysConsistent
  <2> QED  BY <2>2, SameQueries DEF Latest, RowsOf
<1>4. AllSucceeded
  BY <1>1, <1>2, Deserved
<1> QED  BY <1>1, <1>2, <1>3, <1>4, SameQueries DEF Repo!CastVote

(* ... a recheck that is not forced withdraws a failure, ...               *)
LEMMA RecheckWithdraws ==
  ASSUME ~AllowForce, IInv, NEW q \in Package, RecheckCommit(q, AllowForce)
  PROVE  Repo!Withdraw
<1>1. PICK i \in LastProcessed(db, q) :
        /\ db[i].status = "SUCCESS" => AllowForce
        /\ ~db[i].vote
        /\ db' = [db EXCEPT ![i].gone = TRUE]
  BY DEF RecheckCommit
<1>2. i \in DOMAIN db /\ db[i].status # "RETRY"
  BY DEF LastProcessed, Latest, Processed, Live
<1>3. db[i].status \in Status
  BY <1>2, TableType DEF IInv, TypeOK, PublishTypeOK, Row
<1>4. db[i].status = "FAILED"
  BY <1>1, <1>2, <1>3 DEF Status
<1>5. UNCHANGED links
  BY DEF RecheckCommit
<1> QED  BY <1>1, <1>4, <1>5, SameQueries DEF Repo!Withdraw

(* ... and so does the end of a run with --order.                          *)
LEMMA BootstrapWithdraws ==
  ASSUME NEW q \in Package, NEW i \in LastProcessed(db, q),
         db' = [db EXCEPT ![i].status = "RETRY"], UNCHANGED links
  PROVE  Repo!Withdraw
BY SameQueries DEF Repo!Withdraw

(* Without forced rechecks, everything runs, imports, rechecks, crashes    *)
(* and failing rsyncs do to the table and to the two links (shell.py,      *)
(* remote.py) is a behaviour of the five atomic steps of Repository.       *)
THEOREM Implementation ==
  ASSUME ~AllowForce
  PROVE  Spec => ImplementsRepository
<1>1. Init => Repo!Init
  BY DEF Init, InitPublish, Repo!Init
<1>2. IInv /\ [Next]_vars => [Repo!Next]_<<db, links>>
  <2> SUFFICES ASSUME IInv, [Next]_vars
               PROVE  Repo!Next \/ UNCHANGED <<db, links>>
    OBVIOUS
  <2>1. ASSUME NEW p \in Proc, Record(p) \/ Rename(p) \/ Vote(p)
        PROVE  Repo!Next
    BY <2>1, RecordAdds, RenamePublishes, VoteCasts DEF Repo!Next
  <2>2. ASSUME NEW q \in Package, RecheckCommit(q, AllowForce)
        PROVE  Repo!Next
    BY <2>2, RecheckWithdraws DEF Repo!Next
  <2>3. ASSUME NEW q \in Package, NEW i \in LastProcessed(db, q),
               db' = [db EXCEPT ![i].status = "RETRY"], UNCHANGED links
        PROVE  Repo!Next
    BY <2>3, BootstrapWithdraws DEF Repo!Next
  <2> QED  BY <2>1, <2>2, <2>3, Effects
<1> QED  BY <1>1, <1>2, Invariance, PTL DEF Spec, ImplementsRepository, Repo!Spec
=============================================================================

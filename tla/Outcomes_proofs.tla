--------------------------- MODULE Outcomes_proofs ---------------------------
(***************************************************************************)
(* What stays true of links under construction and of recorded rows,       *)
(* rechecks forced or not; and, without imports, of the history the rows   *)
(* of a project tell and of the directories that are being built in.       *)
(***************************************************************************)
EXTENDS BuildRun_proofs

(* What a step may do to a process that has just recorded its result.      *)
LEMMA Followers ==
  ASSUME IInv, [Next]_vars, NEW q \in Proc
  PROVE  \/ pc'[q] = pc[q] /\ job'[q] = job[q]
         \/ Acquire(q) \/ PostBuild(q) \/ Discard(q) \/ Record(q)
         \/ Symlink(q) \/ Rename(q) \/ Vote(q)
         \/ pc'[q] \in {"idle", "wait", "done"} /\ (pc[q] = "rename" => crashes' # crashes)
<1> DEFINE Same == pc'[q] = pc[q] /\ job'[q] = job[q]
           Own == \/ Acquire(q) \/ PostBuild(q) \/ Discard(q) \/ Record(q)
                  \/ Symlink(q) \/ Rename(q) \/ Vote(q)
           Out == pc'[q] \in {"idle", "wait", "done"} /\ (pc[q] = "rename" => crashes' # crashes)
<1> SUFFICES Same \/ Own \/ Out
  OBVIOUS
<1>0. PublishTypeOK
  BY TypeParts DEF IInv
<1>1. ASSUME UNCHANGED <<pc, job>>
      PROVE  Same
  BY <1>1
<1>2. ASSUME NEW p \in Proc, Release(p) \/ Raise(p)
      PROVE  Same \/ Out
  <2>1. pc[p] # "rename"
    BY <1>2 DEF Release, Raise, RpmExists, RowGone, TempExists, VoteRefused
  <2>2. Leave(p, Rest(p))
    BY <1>2 DEF Release, Raise
  <2>3. CASE p = q
    BY <1>0, <2>1, <2>2, <2>3, RestIdle DEF Leave, Goto, PublishTypeOK
  <2>4. CASE p # q
    BY <1>0, <2>2, <2>4 DEF Leave, Goto, PublishTypeOK
  <2> QED  BY <2>3, <2>4
<1>3. ASSUME NEW p \in Proc, NEW r, NEW o, Submit(p, r, o)
      PROVE  Same \/ Out
  <2>1. CASE p = q
    BY <1>0, <1>3, <2>1 DEF Submit, Goto, PublishTypeOK
  <2>2. CASE p # q
    BY <1>0, <1>3, <2>2 DEF Submit, Goto, PublishTypeOK
  <2> QED  BY <2>1, <2>2
<1>4. CASE RunStep
  <2>1. CASE StartRun \/ StartBuilds \/ NothingToBuild \/ EndRun
    BY <1>1, <2>1 DEF StartRun, StartBuilds, NothingToBuild, EndRun, publishVars
  <2>2. ASSUME NEW i \in DOMAIN queue, StartBuild(i) \/ FinishBuild(i)
        PROVE  Same
    BY <1>1, <2>2 DEF StartBuild, FinishBuild, publishVars
  <2>3. CASE TakeResult
    BY <1>3, <2>3 DEF TakeResult, Proc
  <2>4. CASE NextResult
    BY <1>2, <2>4 DEF NextResult, Proc
  <2>5. ASSUME NEW b \in Package, BootstrapPackage(b)
        PROVE  Same
    BY <1>1, <2>5 DEF BootstrapPackage
  <2> QED  BY <1>4, <2>1, <2>2, <2>3, <2>4, <2>5 DEF RunStep
<1>5. ASSUME NEW b \in Package,
             ScanPackage(b) \/ SkipPackage(b) \/ PushSource(b) \/ PushDistgit(b) \/ Recheck(b)
      PROVE  Same
  BY <1>1, <1>5 DEF ScanPackage, SkipPackage, PushSource, PushDistgit, Recheck,
     RecheckCommit, publishVars
<1>6. ASSUME NEW p \in Importer, ImportCommit(p) \/ ImportDone(p)
      PROVE  Same \/ Out
  <2>1. p \in Proc
    BY DEF Proc
  <2>2. CASE ImportCommit(p)
    BY <1>3, <2>1, <2>2 DEF ImportCommit
  <2>3. CASE ImportDone(p)
    BY <1>2, <2>1, <2>3 DEF ImportDone
  <2> QED  BY <1>6, <2>2, <2>3
<1>7. ASSUME NEW p \in Proc, Process(p)
      PROVE  Same \/ Own
  <2>1. Advance(p)
    BY <1>7 DEF Process
  <2>2. CASE p = q
    BY <2>1, <2>2 DEF Advance
  <2>3. CASE p # q
    <3>1. pc'[q] = pc[q]
      BY <1>0, <2>1, <2>3 DEF Advance, Acquire, PostBuild, Discard, Record, Symlink,
         Rename, Vote, Goto, PublishTypeOK
    <3>2. job'[q] = job[q]
      BY <1>0, <2>1, <2>3 DEF Advance, Acquire, PostBuild, Discard, Record, Symlink,
         Rename, Vote, PublishTypeOK
    <3> QED  BY <3>1, <3>2
  <2> QED  BY <2>2, <2>3
<1>8. ASSUME NEW p \in Proc, Abort(p)
      PROVE  Same \/ Out
  BY <1>2, <1>8 DEF Abort
<1>9. ASSUME NEW p \in Proc, Crash(p)
      PROVE  Same \/ Out
  <2>1. crashes' # crashes
    BY <1>9 DEF Crash, IInv, TypeOK
  <2>2. CASE Kill(p) /\ p = q
    BY <1>0, <2>1, <2>2 DEF Kill, Leave, Goto, PublishTypeOK
  <2>3. CASE Kill(p) /\ p # q
    BY <1>0, <2>3 DEF Kill, Leave, Goto, PublishTypeOK
  <2> QED  BY <1>1, <1>9, <2>2, <2>3 DEF Crash, publishVars
<1>10. CASE UNCHANGED vars
  BY <1>1, <1>10 DEF vars, publishVars
<1> QED  BY <1>4, <1>5, <1>6, <1>7, <1>8, <1>9, <1>10 DEF Next

-----------------------------------------------------------------------------
(* Temporary links                                                         *)

(* The only steps that touch one.                                          *)
LEMMA TempEffects ==
  ASSUME IInv, [Next]_vars
  PROVE  /\ UNCHANGED tmp \/ \E p \in Proc : Symlink(p) \/ Rename(p)
         /\ crashes' = 0 => crashes = 0 /\ UNCHANGED crashes
<1>1. CASE RunStep
  <2>1. CASE StartRun \/ StartBuilds \/ NothingToBuild \/ EndRun
    BY <2>1 DEF StartRun, StartBuilds, NothingToBuild, EndRun, publishVars, countVars
  <2>2. ASSUME NEW i \in DOMAIN queue, StartBuild(i) \/ FinishBuild(i)
        PROVE  UNCHANGED <<tmp, crashes>>
    BY <2>2 DEF StartBuild, FinishBuild, publishVars, countVars
  <2>3. CASE TakeResult \/ NextResult
    BY <2>3 DEF TakeResult, Submit, NextResult, Release, countVars
  <2>4. ASSUME NEW b \in Package, BootstrapPackage(b)
        PROVE  UNCHANGED <<tmp, crashes>>
    BY <2>4 DEF BootstrapPackage, countVars
  <2> QED  BY <1>1, <2>1, <2>2, <2>3, <2>4 DEF RunStep
<1>2. ASSUME NEW b \in Package,
             ScanPackage(b) \/ SkipPackage(b) \/ PushSource(b) \/ PushDistgit(b) \/ Recheck(b)
      PROVE  UNCHANGED <<tmp, crashes>>
  BY <1>2 DEF ScanPackage, SkipPackage, PushSource, PushDistgit, Recheck, RecheckCommit,
     publishVars, countVars
<1>3. ASSUME NEW p \in Importer, ImportCommit(p) \/ ImportDone(p)
      PROVE  UNCHANGED <<tmp, crashes>>
  BY <1>3 DEF ImportCommit, Submit, ImportDone, Release, countVars
<1>4. ASSUME NEW p \in Proc, Process(p)
      PROVE  (UNCHANGED tmp \/ Symlink(p) \/ Rename(p)) /\ UNCHANGED crashes
  BY <1>4 DEF Process, Advance, Acquire, PostBuild, Discard, Record, Vote, countVars
<1>5. ASSUME NEW p \in Proc, Abort(p)
      PROVE  UNCHANGED <<tmp, crashes>>
  BY <1>5 DEF Abort, Raise, RpmExists, RowGone, TempExists, VoteRefused, countVars
<1>6. ASSUME NEW p \in Proc, Crash(p)
      PROVE  UNCHANGED tmp /\ crashes' # 0
  BY <1>6 DEF Crash, Kill, publishVars, IInv, TypeOK
<1>7. CASE UNCHANGED vars
  BY <1>7 DEF vars, publishVars, countVars
<1> QED  BY <1>1, <1>2, <1>3, <1>4, <1>5, <1>6, <1>7 DEF Next

(* "p is about to rename the temporary link d."                            *)
InUse(d, p) == pc[p] = "rename" /\ Head(job[p].dirnames) = d /\ job[p].rev = tmp[d]

(* As long as no process is killed, current_ and consistent_ belong to the *)
(* process that has just made them (process_build_result_rpm), so that no  *)
(* os.symlink of any run or import finds one in its place.                 *)
THEOREM TempLinksInUse == Spec => []TempInUse
<1>1. Init => TempInUse
  BY DEF Init, InitPublish, TempInUse
<1>2. ASSUME IInv, TempInUse, [Next]_vars
      PROVE  TempInUse'
  <2> SUFFICES ASSUME crashes' = 0, NEW d \in LinkName, tmp'[d] # None
               PROVE  \E p \in Proc : InUse(d, p)'
    BY DEF TempInUse, InUse
  <2>0. PublishTypeOK /\ LockHeld /\ crashes = 0 /\ crashes' = crashes
    BY <1>2, TempEffects, TypeParts DEF IInv, BlockInv
  <2>1. CASE UNCHANGED tmp
    <3>1. PICK p \in Proc : InUse(d, p)
      BY <1>2, <2>0, <2>1 DEF TempInUse, InUse
    <3>2. pc'[p] = pc[p] /\ job'[p] = job[p]
      <4>1. ~Rename(p)
        <5>1. tmp[d] # None /\ Head(job[p].dirnames) = d
          BY <2>1, <3>1 DEF InUse
        <5> QED  BY <2>0, <2>1, <5>1 DEF Rename, PublishTypeOK
      <4> QED  BY <1>2, <2>0, <3>1, <4>1, Followers DEF InUse, Acquire, PostBuild, Discard,
               Record, Symlink, Vote
    <3> QED  BY <2>1, <3>1, <3>2 DEF InUse
  <2>2. ASSUME NEW p \in Proc, Symlink(p)
        PROVE  InUse(d, p)'
    <3>1. pc[p] = "symlink" /\ pc'[p] = "rename" /\ job' = job
      BY <2>0, <2>2 DEF Symlink, Goto, PublishTypeOK
    <3>2. \A q \in Proc : pc[q] # "rename"
      BY <2>0, <3>1, OnlyOneInside DEF Locked
    <3>3. tmp[d] = None
      BY <1>2, <2>0, <3>2 DEF TempInUse
    <3>4. d = Head(job[p].dirnames)
      BY <2>0, <2>2, <3>3 DEF Symlink, PublishTypeOK
    <3>5. tmp'[d] = job[p].rev
      BY <2>0, <2>2, <3>4 DEF Symlink, PublishTypeOK
    <3> QED  BY <3>1, <3>4, <3>5 DEF InUse
  <2>3. ASSUME NEW p \in Proc, Rename(p)
        PROVE  FALSE
    <3>1. pc[p] = "rename" /\ tmp' = [tmp EXCEPT ![Head(job[p].dirnames)] = None]
      BY <2>3 DEF Rename
    <3>2. d # Head(job[p].dirnames) /\ tmp[d] # None
      BY <2>0, <3>1 DEF PublishTypeOK
    <3>3. PICK q \in Proc : InUse(d, q)
      BY <1>2, <2>0, <3>2 DEF TempInUse, InUse
    <3>4. q = p
      BY <2>0, <3>1, <3>3, OnlyOneInside DEF InUse, Locked
    <3> QED  BY <3>2, <3>3, <3>4 DEF InUse
  <2> QED  BY <1>2, <2>1, <2>2, <2>3, TempEffects
<1> QED  BY <1>1, <1>2, Invariance, PTL DEF Spec

-----------------------------------------------------------------------------
(* Rows                                                                    *)

(* Only a run with --order has something to bootstrap.                     *)
NoOrder == orders = 0 => ~order /\ \A q \in Package : boot[q] = 0

(* StopRun, the end of every run, leaves no order behind.                  *)
LEMMA StopRunOrder ==
  ASSUME StopRun
  PROVE  ~order' /\ \A q \in Package : boot'[q] = 0
BY DEF StopRun

(* Without a run with --order, none of its marks is pending.               *)
LEMMA NoOrderStep ==
  ASSUME IInv, NoOrder, [Next]_vars
  PROVE  NoOrder' /\ (orders' = 0 => orders = 0)
<1>0. orders \in Nat /\ boot \in [Package -> Nat]
  BY DEF IInv, TypeOK
<1>1. ASSUME UNCHANGED <<order, boot, orders>>
      PROVE  NoOrder' /\ (orders' = 0 => orders = 0)
  BY <1>1 DEF NoOrder
<1>2. ASSUME StopRun, UNCHANGED orders
      PROVE  NoOrder' /\ (orders' = 0 => orders = 0)
  BY <1>2, StopRunOrder DEF NoOrder
<1>3. CASE RunStep
  <2>1. CASE StartRun
    <3>1. UNCHANGED boot /\ (orders' = 0 => ~order' /\ orders = 0)
      BY <1>0, <2>1 DEF StartRun
    <3> QED  BY <3>1 DEF NoOrder
  <2>2. CASE StartBuilds
    <3>1. UNCHANGED <<order, orders>>
      BY <2>2 DEF StartBuilds, countVars
    <3>2. ~order => \A q \in Package : boot'[q] = 0
      BY <2>2 DEF StartBuilds
    <3> QED  BY <3>1, <3>2 DEF NoOrder
  <2>3. CASE NothingToBuild \/ EndRun
    BY <1>2, <2>3 DEF NothingToBuild, EndRun, countVars
  <2>4. ASSUME NEW i \in DOMAIN queue, StartBuild(i) \/ FinishBuild(i)
        PROVE  UNCHANGED <<order, boot, orders>>
    BY <2>4 DEF StartBuild, FinishBuild, countVars
  <2>5. CASE TakeResult
    BY <1>1, <2>5 DEF TakeResult, runVars, countVars
  <2>6. CASE NextResult
    BY <1>1, <1>2, <2>6 DEF NextResult, countVars
  <2>7. ASSUME NEW b \in Package, BootstrapPackage(b)
        PROVE  NoOrder' /\ (orders' = 0 => orders = 0)
    <3>1. orders # 0 /\ UNCHANGED orders
      BY <1>0, <2>7 DEF BootstrapPackage, NoOrder, countVars
    <3> QED  BY <3>1 DEF NoOrder
  <2> QED  BY <1>1, <1>3, <2>1, <2>2, <2>3, <2>4, <2>5, <2>6, <2>7 DEF RunStep
<1>4. ASSUME NEW b \in Package,
             ScanPackage(b) \/ SkipPackage(b) \/ PushSource(b) \/ PushDistgit(b) \/ Recheck(b)
      PROVE  UNCHANGED <<order, boot, orders>>
  BY <1>4 DEF ScanPackage, SkipPackage, PushSource, PushDistgit, Recheck, runVars, countVars
<1>5. ASSUME NEW p \in Importer, ImportCommit(p) \/ ImportDone(p)
      PROVE  UNCHANGED <<order, boot, orders>>
  BY <1>5 DEF ImportCommit, ImportDone, runVars, countVars
<1>6. ASSUME NEW p \in Proc, Process(p)
      PROVE  UNCHANGED <<order, boot, orders>>
  BY <1>6 DEF Process, runVars, countVars
<1>7. ASSUME NEW p \in Proc, Abort(p) \/ Crash(p)
      PROVE  (StopRun \/ UNCHANGED <<order, boot>>) /\ UNCHANGED orders
  BY <1>7 DEF Abort, Crash, runVars, countVars
<1>8. CASE UNCHANGED vars
  BY <1>1, <1>8 DEF vars, runVars, countVars
<1> QED  BY <1>1, <1>2, <1>3, <1>4, <1>5, <1>6, <1>7, <1>8 DEF Next

(* The steps that touch the table; a bootstrap mark needs a run with       *)
(* --order, and a recheck spares votes, and successes unless it is forced. *)
LEMMA TableEffects ==
  ASSUME IInv, NoOrder, [Next]_vars
  PROVE  \/ UNCHANGED db
         \/ \E p \in Proc : Record(p) \/ Vote(p)
         \/ \E q \in Package : RecheckCommit(q, AllowForce)
         \/ /\ orders # 0
            /\ \E i \in DOMAIN db : db' = [db EXCEPT ![i].status = "RETRY"]
<1>1. ASSUME NEW q \in Package, BootstrapPackage(q)
      PROVE  \/ UNCHANGED db
             \/ /\ orders # 0
                /\ \E i \in DOMAIN db : db' = [db EXCEPT ![i].status = "RETRY"]
  <2>1. orders # 0
    BY <1>1 DEF BootstrapPackage, NoOrder, IInv, TypeOK
  <2>2. LastProcessed(db, q) \subseteq DOMAIN db
    BY DEF LastProcessed, Latest, RowsOf, Live
  <2> QED  BY <1>1, <2>1, <2>2 DEF BootstrapPackage
<1>2. CASE RunStep
  <2>1. CASE StartRun \/ StartBuilds \/ NothingToBuild \/ EndRun
    BY <2>1 DEF StartRun, StartBuilds, NothingToBuild, EndRun, publishVars
  <2>2. ASSUME NEW i \in DOMAIN queue, StartBuild(i) \/ FinishBuild(i)
        PROVE  UNCHANGED db
    BY <2>2 DEF StartBuild, FinishBuild, publishVars
  <2>3. CASE TakeResult \/ NextResult
    BY <2>3 DEF TakeResult, Submit, NextResult, Release
  <2> QED  BY <1>1, <1>2, <2>1, <2>2, <2>3 DEF RunStep
<1>3. CASE ~RunStep
  <2>1. ASSUME NEW q \in Package,
               ScanPackage(q) \/ SkipPackage(q) \/ PushSource(q) \/ PushDistgit(q)
        PROVE  UNCHANGED db
    BY <2>1 DEF ScanPackage, SkipPackage, PushSource, PushDistgit, publishVars
  <2>2. ASSUME NEW q \in Package, Recheck(q)
        PROVE  RecheckCommit(q, AllowForce)
    BY <2>2 DEF Recheck
  <2>3. ASSUME NEW p \in Importer, ImportCommit(p) \/ ImportDone(p)
        PROVE  UNCHANGED db
    BY <2>3 DEF ImportCommit, Submit, ImportDone, Release
  <2>4. ASSUME NEW p \in Proc, Process(p)
        PROVE  UNCHANGED db \/ Record(p) \/ Vote(p)
    BY <2>4 DEF Process, Advance, Acquire, PostBuild, Discard, Symlink, Rename
  <2>5. ASSUME NEW p \in Proc, Abort(p) \/ Crash(p)
        PROVE  UNCHANGED db
    BY <2>5 DEF Abort, Raise, RpmExists, RowGone, TempExists, VoteRefused, Crash, Kill, publishVars
  <2>6. CASE UNCHANGED vars
    BY <2>6 DEF vars, publishVars
  <2> QED  BY <1>3, <2>1, <2>2, <2>3, <2>4, <2>5, <2>6 DEF Next
<1> QED  BY <1>2, <1>3

(* A recheck deletes one row: the last outcome of a project, without a     *)
(* vote, and a failure unless rechecks may be forced.                      *)
LEMMA RecheckEffect ==
  ASSUME PublishTypeOK, NEW q \in Package, RecheckCommit(q, AllowForce)
  PROVE  \E i \in DOMAIN db :
            /\ db' = [db EXCEPT ![i].gone = TRUE]
            /\ db[i].status # "RETRY" /\ ~db[i].vote
            /\ ~AllowForce => db[i].status = "FAILED"
<1>1. PICK i \in LastProcessed(db, q) :
        /\ db[i].status = "SUCCESS" => AllowForce
        /\ ~db[i].vote /\ db' = [db EXCEPT ![i].gone = TRUE]
  BY DEF RecheckCommit
<1>2. i \in DOMAIN db /\ db[i].status # "RETRY"
  BY DEF LastProcessed, Latest, Processed, Live
<1>3. db[i].status \in Status
  BY <1>2, TableType DEF PublishTypeOK, Row
<1> QED  BY <1>1, <1>2, <1>3 DEF Status

(* A row keeps its id, and its status as long as no run has --order.       *)
LEMMA RowsKeepStatus ==
  ASSUME IInv, NoOrder, [Next]_vars, NEW i \in DOMAIN db
  PROVE  i \in DOMAIN db' /\ (orders = 0 => db'[i].status = db[i].status)
<1>1. db \in Seq(Row)
  BY DEF IInv, TypeOK, PublishTypeOK
<1>2. ASSUME NEW p \in Proc, Record(p)
      PROVE  i \in DOMAIN db' /\ db'[i] = db[i]
  BY <1>1, <1>2 DEF Record
<1>3. ASSUME NEW p \in Proc, Vote(p)
      PROVE  i \in DOMAIN db' /\ db'[i].status = db[i].status
  BY <1>1, <1>3, TableType DEF Vote, Row
<1>4. ASSUME NEW q \in Package, RecheckCommit(q, AllowForce)
      PROVE  i \in DOMAIN db' /\ db'[i].status = db[i].status
  BY <1>1, <1>4, TableType DEF RecheckCommit, Row
<1> QED  BY <1>1, <1>2, <1>3, <1>4, TableEffects

(* A result that can still move "consistent" or get the vote is that of a  *)
(* row recorded as a success.                                              *)
PendingSuccess ==
  orders = 0 => \A p \in Proc :
     job[p].consistent /\ pc[p] \in {"symlink", "rename", "vote"} =>
        db[job[p].id].status = "SUCCESS"

(* No step of the block, and no recheck, takes that back.                  *)
LEMMA PendingSuccessStep ==
  ASSUME IInv, NoOrder, PendingSuccess, [Next]_vars
  PROVE  PendingSuccess'
<1> SUFFICES ASSUME orders' = 0, NEW q \in Proc,
                    job'[q].consistent, pc'[q] \in {"symlink", "rename", "vote"}
             PROVE  db'[job'[q].id].status = "SUCCESS"
  BY DEF PendingSuccess
<1>0. PublishTypeOK /\ JobMatches(q) /\ orders = 0
  BY TypeParts, NoOrderStep DEF IInv, BlockInv
<1>1. ASSUME pc[q] \in {"symlink", "rename", "vote"}, job[q].consistent, job'[q].id = job[q].id
      PROVE  db'[job'[q].id].status = "SUCCESS"
  <2>1. job[q].id \in DOMAIN db
    BY <1>0, <1>1 DEF JobMatches
  <2>2. db[job[q].id].status = "SUCCESS"
    BY <1>0, <1>1 DEF PendingSuccess
  <2> QED  BY <1>0, <1>1, <2>1, <2>2, RowsKeepStatus
<1>2. CASE Acquire(q) \/ PostBuild(q) \/ Discard(q) \/ Vote(q)
  BY <1>0, <1>2 DEF Acquire, PostBuild, Discard, Vote, Goto, PublishTypeOK
<1>3. CASE Record(q)
  <2>1. PICK synced \in {TRUE, ~SyncMayFail} :
          /\ db' = Append(db, [rev |-> job[q].rev, status |-> RecordedStatus(job[q], synced),
                               vote |-> FALSE, gone |-> FALSE])
          /\ job' = [job EXCEPT ![q] =
               [@ EXCEPT !.consistent = StillConsistent(job[q], synced),
                         !.id = Len(db) + 1,
                         !.failed = RecordedStatus(job[q], synced) # "SUCCESS",
                         !.dirnames = DirNames(job[q].outcome = "ok",
                                               StillConsistent(job[q], synced))]]
    BY <1>3 DEF Record
  <2>2. job'[q].consistent = StillConsistent(job[q], synced) /\ job'[q].id = Len(db) + 1
    BY <1>0, <2>1 DEF PublishTypeOK, Job
  <2>3. synced /\ job[q].outcome = "ok"
    BY <1>0, <2>2 DEF StillConsistent, JobMatches
  <2>4. RecordedStatus(job[q], synced) = "SUCCESS"
    BY <2>3 DEF RecordedStatus
  <2> QED  BY <1>0, <2>1, <2>2, <2>4 DEF PublishTypeOK
<1>4. CASE Symlink(q)
  BY <1>1, <1>4 DEF Symlink
<1>5. CASE Rename(q)
  <2>1. /\ pc[q] = "rename"
        /\ job' = [job EXCEPT ![q].dirnames = Tail(job[q].dirnames)]
    BY <1>5 DEF Rename
  <2>2. job'[q].consistent = job[q].consistent /\ job'[q].id = job[q].id
    BY <1>0, <2>1 DEF PublishTypeOK, Job
  <2> QED  BY <1>1, <2>1, <2>2
<1> QED  BY <1>1, <1>2, <1>3, <1>4, <1>5, Followers

(* A CI vote, once it is given, refers to a row that stays in the table as *)
(* a success whatever is imported, retried, killed or rechecked, by force  *)
(* or not (shell.py: process_build_result_rpm, recheck).                   *)
THEOREM VotedRowsStay == Spec => []VotedRowStays
<1> DEFINE Inv == VotedRowStays /\ NoOrder /\ PendingSuccess
<1>1. Init => Inv
  <2>1. Init => VotedRowStays
    BY DEF Init, InitPublish, VotedRowStays
  <2>2. Init => NoOrder
    BY DEF Init, Idle, NoOrder
  <2>3. Init => PendingSuccess
    BY DEF Init, InitPublish, PendingSuccess
  <2> QED  BY <2>1, <2>2, <2>3
<1>2. ASSUME IInv, Inv, [Next]_vars
      PROVE  Inv'
  <2>0. PublishTypeOK /\ (orders' = 0 => orders = 0)
    BY <1>2, TypeParts, NoOrderStep DEF IInv
  <2> SUFFICES ASSUME NEW i \in DOMAIN db', db'[i].vote
               PROVE  /\ ForeignKeys => ~db'[i].gone
                      /\ orders' = 0 => db'[i].status = "SUCCESS"
    BY <1>2, NoOrderStep, PendingSuccessStep DEF VotedRowStays
  <2>1. ASSUME i \in DOMAIN db, db[i].vote, ForeignKeys => (db'[i].gone => db[i].gone)
        PROVE  /\ ForeignKeys => ~db'[i].gone
               /\ orders' = 0 => db'[i].status = "SUCCESS"
    BY <1>2, <2>0, <2>1, RowsKeepStatus DEF VotedRowStays
  <2>2. CASE UNCHANGED db
    BY <2>1, <2>2
  <2>3. ASSUME NEW p \in Proc, Record(p)
        PROVE  i \in DOMAIN db /\ db'[i] = db[i]
    <3>1. PICK row : db' = Append(db, row) /\ row.vote = FALSE
      BY <2>3 DEF Record
    <3> QED  BY <2>0, <3>1 DEF PublishTypeOK
  <2>4. ASSUME NEW p \in Proc, Vote(p)
        PROVE  /\ ForeignKeys => ~db'[i].gone
               /\ orders' = 0 => db'[i].status = "SUCCESS"
    <3>1. /\ pc[p] = "vote" /\ db' = [db EXCEPT ![job[p].id].vote = TRUE]
          /\ ForeignKeys => ~db[job[p].id].gone
      BY <2>4 DEF Vote
    <3>2. job[p].id \in DOMAIN db /\ job[p].consistent
      BY <1>2, <3>1 DEF IInv, BlockInv, JobMatches
    <3>3. orders' = 0 => db'[job[p].id].status = "SUCCESS"
      BY <1>2, <2>0, <3>1, <3>2, RowsKeepStatus DEF PendingSuccess
    <3>4. i \in DOMAIN db /\ db'[i].gone = db[i].gone
      BY <2>0, <3>1, <3>2, TableType DEF PublishTypeOK, Row
    <3>5. CASE i = job[p].id
      BY <3>1, <3>3, <3>4, <3>5
    <3>6. CASE i # job[p].id
      BY <2>1, <3>1, <3>4, <3>6
    <3> QED  BY <3>5, <3>6
  <2>5. ASSUME NEW q \in Package, RecheckCommit(q, AllowForce)
        PROVE  i \in DOMAIN db /\ db[i].vote /\ db'[i].gone = db[i].gone
    <3>1. PICK k \in DOMAIN db : ~db[k].vote /\ db' = [db EXCEPT ![k].gone = TRUE]
      BY <2>0, <2>5, RecheckEffect
    <3>2. i \in DOMAIN db /\ db'[i].vote = db[i].vote
      BY <2>0, <3>1, TableType DEF PublishTypeOK, Row
    <3>3. i # k /\ db'[i] = db[i]
      BY <3>1, <3>2
    <3> QED  BY <3>2, <3>3
  <2>6. ASSUME NEW k \in DOMAIN db, db' = [db EXCEPT ![k].status = "RETRY"]
        PROVE  i \in DOMAIN db /\ db[i].vote /\ db'[i].gone = db[i].gone
    BY <2>0, <2>6, TableType DEF PublishTypeOK, Row
  <2> QED  BY <1>2, <2>1, <2>2, <2>3, <2>4, <2>5, <2>6, TableEffects
<1> QED  BY <1>1, <1>2, Invariance, PTL DEF Spec

-----------------------------------------------------------------------------
(* The consistent repository                                               *)

(* A row stands for a revision as long as it is neither deleted nor failed *)
(* (nor, without a run with --order, anything but a success).              *)
Vouches(i, r) ==
  /\ i \in Live(db) /\ db[i].rev = r
  /\ db[i].status # "FAILED" /\ (orders = 0 => db[i].status = "SUCCESS")

(* Without forced rechecks, it continues to do so.                         *)
LEMMA VouchesStays ==
  ASSUME ~AllowForce, IInv, NoOrder, [Next]_vars, NEW i, NEW r, Vouches(i, r)
  PROVE  Vouches(i, r)'
<1>1. /\ PublishTypeOK /\ (orders' = 0 => orders = 0)
      /\ i \in DOMAIN db /\ ~db[i].gone /\ db[i].rev = r
      /\ db[i].status # "FAILED" /\ (orders = 0 => db[i].status = "SUCCESS")
  BY TypeParts, NoOrderStep DEF IInv, Vouches, Live
<1> SUFFICES /\ i \in DOMAIN db' /\ ~db'[i].gone /\ db'[i].rev = r
             /\ db'[i].status # "FAILED"
  BY <1>1, RowsKeepStatus DEF Vouches, Live
<1>2. CASE UNCHANGED db
  BY <1>1, <1>2
<1>3. ASSUME NEW p \in Proc, Record(p)
      PROVE  i \in DOMAIN db' /\ db'[i] = db[i]
  BY <1>1, <1>3 DEF Record, PublishTypeOK
<1>4. ASSUME NEW p \in Proc, Vote(p)
      PROVE  i \in DOMAIN db' /\ db'[i] \in {db[i], [db[i] EXCEPT !.vote = TRUE]}
  BY <1>1, <1>4 DEF Vote, PublishTypeOK
<1>5. ASSUME NEW q \in Package, RecheckCommit(q, AllowForce)
      PROVE  i \in DOMAIN db' /\ db'[i] = db[i]
  BY <1>1, <1>5, RecheckEffect DEF PublishTypeOK
<1>6. ASSUME NEW k \in DOMAIN db, db' = [db EXCEPT ![k].status = "RETRY"]
      PROVE  i \in DOMAIN db' /\ db'[i] \in {db[i], [db[i] EXCEPT !.status = "RETRY"]}
  BY <1>1, <1>6 DEF PublishTypeOK
<1>7. db[i] \in Row
  BY <1>1, TableType DEF PublishTypeOK
<1> QED  BY <1>1, <1>2, <1>3, <1>4, <1>5, <1>6, <1>7, TableEffects DEF Row

(* Whoever moves consistent has recorded a row that stands for it.         *)
LEMMA RenameVouched ==
  ASSUME ~AllowForce, IInv, NEW p \in Proc, Rename(p)
  PROVE  \/ links'["consistent"] = links["consistent"]
         \/ \E i : Vouches(i, links'["consistent"])
<1>1. links \in [LinkName -> Rev \cup {None}] /\ pc[p] = "rename"
  BY DEF IInv, TypeOK, PublishTypeOK, Rename
<1>2. CASE links' = [links EXCEPT !["current"] = job[p].rev]
  BY <1>1, <1>2
<1>3. CASE /\ links' = [links EXCEPT !["consistent"] = job[p].rev]
           /\ job[p].consistent
  <2>1. /\ job[p].id \in Latest(RowsOf(db, job[p].rev.pkg))
        /\ db[job[p].id].rev = job[p].rev
    BY <1>1, <1>3, Deserved
  <2>2. db[job[p].id].status = "SUCCESS"
    BY <1>1, <1>3 DEF IInv, BlockInv, StaysConsistent
  <2>3. job[p].id \in Live(db)
    BY <2>1 DEF Latest, RowsOf
  <2> QED  BY <1>1, <1>3, <2>1, <2>2, <2>3 DEF Vouches
<1> QED  BY <1>2, <1>3, RenameEffect

(* Without forced rechecks, the row of the revision consistent leads to is *)
(* still in the table, as a success: nothing withdraws it afterwards       *)
(* (shell.py: process_build_result_rpm, recheck).                          *)
THEOREM ConsistentStaysRecorded == Spec => []ConsistentIsRecorded
<1> DEFINE Recorded == ~AllowForce /\ links["consistent"] # None =>
                          \E i : Vouches(i, links["consistent"])
           Inv == Recorded /\ NoOrder
<1>1. Init => Inv
  <2>1. Init => links["consistent"] = None
    BY DEF Init, InitPublish, LinkName
  <2>2. Init => NoOrder
    BY DEF Init, Idle, NoOrder
  <2> QED  BY <2>1, <2>2
<1>2. ASSUME IInv, Inv, [Next]_vars
      PROVE  Inv'
  <2> SUFFICES ASSUME ~AllowForce, links'["consistent"] # None
               PROVE  (\E i : Vouches(i, links["consistent"]))'
    BY <1>2, NoOrderStep
  <2>1. ASSUME NEW i, Vouches(i, links'["consistent"])
        PROVE  (\E j : Vouches(j, links["consistent"]))'
    BY <1>2, <2>1, VouchesStays
  <2>2. CASE links'["consistent"] = links["consistent"]
    BY <1>2, <2>1, <2>2
  <2>3. CASE links'["consistent"] # links["consistent"]
    <3>1. PICK p \in Proc : Rename(p)
      <4>1. \A p \in Proc : Record(p) \/ Vote(p) => UNCHANGED links
        BY DEF Record, Vote
      <4>2. \A q \in Package : RecheckCommit(q, AllowForce) => UNCHANGED links
        BY DEF RecheckCommit
      <4> QED  BY <1>2, <2>3, <4>1, <4>2, Effects
    <3> QED  BY <1>2, <2>1, <2>3, <3>1, RenameVouched
  <2> QED  BY <2>2, <2>3
<1>3. Inv => ConsistentIsRecorded
  BY DEF ConsistentIsRecorded, Vouches
<1> QED  BY <1>1, <1>2, <1>3, Invariance, PTL DEF Spec

-----------------------------------------------------------------------------
(* Retries                                                                 *)

(* The rows timesretried counts.                                           *)
RetriesOf(d, r) == WithStatus(d, {i \in Live(d) : d[i].rev = r}, "RETRY")

(* They are finitely many.                                                 *)
LEMMA RetriesFinite ==
  ASSUME NEW d \in Seq(Row), NEW r
  PROVE  IsFiniteSet(RetriesOf(d, r)) /\ RetriesOf(d, r) \subseteq DOMAIN d
<1>1. RetriesOf(d, r) \subseteq 1..Len(d)
  BY DEF RetriesOf, WithStatus, Live
<1> QED  BY <1>1, FS_Interval, FS_Subset

(* A new row is one more, if it is recorded as RETRY.                      *)
LEMMA RetriesAfterRecord ==
  ASSUME NEW d \in Seq(Row), NEW row \in Row, NEW r
  PROVE  LET n == Cardinality(RetriesOf(Append(d, row), r)) IN
         IF row.status = "RETRY" /\ row.rev = r
         THEN n <= Cardinality(RetriesOf(d, r)) + 1
         ELSE n = Cardinality(RetriesOf(d, r))
<1> DEFINE e == Append(d, row)
<1>1. /\ DOMAIN e = DOMAIN d \cup {Len(d) + 1} /\ Len(d) + 1 \notin DOMAIN d
      /\ e[Len(d) + 1] = row /\ \A i \in DOMAIN d : e[i] = d[i]
  OBVIOUS
<1> HIDE DEF e
<1>2. CASE row.status = "RETRY" /\ row.rev = r
  <2>1. RetriesOf(e, r) \subseteq RetriesOf(d, r) \cup {Len(d) + 1}
    BY <1>1 DEF RetriesOf, WithStatus, Live
  <2>2. /\ IsFiniteSet(RetriesOf(d, r) \cup {Len(d) + 1})
        /\ Cardinality(RetriesOf(d, r) \cup {Len(d) + 1}) = Cardinality(RetriesOf(d, r)) + 1
    BY <1>1, RetriesFinite, FS_AddElement
  <2>3. /\ Cardinality(RetriesOf(e, r)) <= Cardinality(RetriesOf(d, r) \cup {Len(d) + 1})
    BY <2>1, <2>2, FS_Subset
  <2> QED  BY <1>2, <2>2, <2>3 DEF e
<1>3. CASE ~(row.status = "RETRY" /\ row.rev = r)
  <2>1. RetriesOf(e, r) = RetriesOf(d, r)
    BY <1>1, <1>3 DEF RetriesOf, WithStatus, Live
  <2> QED  BY <1>3, <2>1 DEF e
<1> QED  BY <1>2, <1>3

(* A known error is recorded as RETRY at most maxretries times for a       *)
(* revision, whoever records it and whatever is rechecked in between       *)
(* (process_build_result_rpm, utils.timesretried).                         *)
THEOREM RetriesStayBounded == Spec => []RetriesBounded
<1> DEFINE Inv == RetriesBounded /\ NoOrder
<1>1. Init => Inv
  <2>1. Init => db = <<>>
    BY DEF Init, InitPublish
  <2>2. ASSUME db = <<>>, NEW r \in Rev
        PROVE  TimesRetried(db, r) = 0
    <3>1. RetriesOf(db, r) = {}
      BY <2>2 DEF RetriesOf, WithStatus, Live
    <3> QED  BY <3>1, FS_EmptySet DEF TimesRetried, RetriesOf
  <2>3. Init => RetriesBounded
    BY <2>1, <2>2, PublishAssumption DEF RetriesBounded
  <2> QED  BY <2>3 DEF Init, Idle, NoOrder
<1>2. ASSUME IInv, Inv, [Next]_vars
      PROVE  Inv'
  <2>0. PublishTypeOK /\ (orders' = 0 => orders = 0) /\ NoOrder'
    BY <1>2, TypeParts, NoOrderStep DEF IInv
  <2> SUFFICES ASSUME orders' = 0, NEW r \in Rev
               PROVE  Cardinality(RetriesOf(db', r)) <= MaxRetries
    BY <2>0 DEF RetriesBounded, TimesRetried, RetriesOf
  <2>1. Cardinality(RetriesOf(db, r)) <= MaxRetries /\ Cardinality(RetriesOf(db, r)) \in Nat
    BY <1>2, <2>0, RetriesFinite, FS_CardinalityType
       DEF RetriesBounded, TimesRetried, RetriesOf, PublishTypeOK
  <2>2. CASE UNCHANGED db
    BY <2>1, <2>2
  <2>3. ASSUME NEW p \in Proc, Record(p)
        PROVE  Cardinality(RetriesOf(db', r)) <= MaxRetries
    <3>1. PICK synced \in {TRUE, ~SyncMayFail} :
            db' = Append(db, [rev |-> job[p].rev, status |-> RecordedStatus(job[p], synced),
                              vote |-> FALSE, gone |-> FALSE])
      BY <2>3 DEF Record
    <3> DEFINE status == RecordedStatus(job[p], synced)
               row == [rev |-> job[p].rev, status |-> status, vote |-> FALSE, gone |-> FALSE]
    <3>2. job[p].rev \in Rev
      BY <1>2, <2>3 DEF Record, IInv, BlockInv, JobMatches, Locked
    <3>3. status \in Status
      BY DEF RecordedStatus, Status
    <3>4. status = "RETRY" => Cardinality(RetriesOf(db, job[p].rev)) < MaxRetries
      BY DEF RecordedStatus, TimesRetried, RetriesOf
    <3> HIDE DEF status
    <3>5. row \in Row
      BY <3>2, <3>3 DEF Row
    <3>6. db' = Append(db, row) /\ db \in Seq(Row)
      BY <2>0, <3>1 DEF status, PublishTypeOK
    <3>7. CASE status = "RETRY" /\ job[p].rev = r
      <4>1. Cardinality(RetriesOf(db', r)) <= Cardinality(RetriesOf(db, r)) + 1
        BY <3>5, <3>6, <3>7, RetriesAfterRecord
      <4>2. Cardinality(RetriesOf(db', r)) \in Nat
        <5>1. db' \in Seq(Row)
          BY <3>5, <3>6
        <5> QED  BY <5>1, RetriesFinite, FS_CardinalityType
      <4> QED  BY <2>1, <3>4, <3>7, <4>1, <4>2, PublishAssumption
    <3>8. CASE ~(status = "RETRY" /\ job[p].rev = r)
      BY <2>1, <3>5, <3>6, <3>8, RetriesAfterRecord
    <3> QED  BY <3>7, <3>8
  <2>4. ASSUME DOMAIN db' = DOMAIN db,
               \A i \in DOMAIN db :
                  /\ db'[i].rev = db[i].rev /\ db'[i].status = db[i].status
                  /\ db[i].status = "RETRY" => db'[i].gone = db[i].gone
        PROVE  Cardinality(RetriesOf(db', r)) <= MaxRetries
    <3>1. RetriesOf(db', r) = RetriesOf(db, r)
      BY <2>4 DEF RetriesOf, WithStatus, Live
    <3> QED  BY <2>1, <3>1
  <2>5. ASSUME NEW p \in Proc, Vote(p)
        PROVE  Cardinality(RetriesOf(db', r)) <= MaxRetries
    BY <2>0, <2>4, <2>5, TableType DEF Vote, PublishTypeOK, Row
  <2>6. ASSUME NEW q \in Package, RecheckCommit(q, AllowForce)
        PROVE  Cardinality(RetriesOf(db', r)) <= MaxRetries
    <3>1. PICK k \in DOMAIN db : db[k].status # "RETRY" /\ db' = [db EXCEPT ![k].gone = TRUE]
      BY <2>0, <2>6, RecheckEffect
    <3> QED  BY <2>0, <2>4, <3>1, TableType DEF PublishTypeOK, Row
  <2> QED  BY <1>2, <2>0, <2>2, <2>3, <2>5, <2>6, TableEffects
<1> QED  BY <1>1, <1>2, Invariance, PTL DEF Spec
-----------------------------------------------------------------------------
(* The history of a project                                                *)

\* r is to be recorded before s.
Precedes(r, s) ==
    /\ Dt(r) <= Dt(s)
    /\ r.distro <= s.distro
    /\ r.distro = s.distro => r.commit < s.commit

\* No outcome of its project is at or after r in the order of the history.
IsNew(r) == \A i \in Processed(db) : db[i].rev.pkg = r.pkg => Precedes(db[i].rev, r)

\* The distgit has got as far as r.
Upstream(r) == r.distro <= distro[r.pkg]

RecordedInOrder ==
    /\ \A i \in Processed(db) : Upstream(db[i].rev)
    /\ \A i, j \in Processed(db) :
          db[i].rev.pkg = db[j].rev.pkg /\ i < j => Precedes(db[i].rev, db[j].rev)

\* What the scan of a project has found is of one packaging, and new.
FoundIsNew ==
    \A r \in found :
       /\ r.pkg \notin scanning /\ Upstream(r) /\ IsNew(r)
       /\ \A s \in found : s.pkg = r.pkg => s.distro = r.distro

\* The main process has still to record the entry k of its queue.
Pending(k) == k > next \/ (k = next /\ pc[Main] \in {"idle", "wait", "post", "record"})

\* What is still to be recorded is new, whatever was recorded since the scan.
QueueIsNew ==
    /\ \A k \in DOMAIN queue : Upstream(queue[k]) /\ (Pending(k) => IsNew(queue[k]))
    /\ \A k, l \in DOMAIN queue :
          queue[k].pkg = queue[l].pkg /\ k < l => Precedes(queue[k], queue[l])

\* The result in process_build_result is that of the entry next.
InTurn ==
    /\ phase # "scan" => found = {}
    /\ pc[Main] # "idle" => phase = "build" /\ next \in DOMAIN queue /\ built[next] \in Outcome
    /\ pc[Main] \in {"wait", "post", "record"} => job[Main].rev = queue[next]

\* A build that has begun has an empty directory until post_build fills it.
DirsEmpty ==
    \A k \in DOMAIN queue :
       /\ built[k] # "todo"
       /\ k > next \/ (k = next /\ pc[Main] \in {"idle", "wait", "post"})
       => dirs[queue[k]] = {}

HistoryInv ==
    /\ NoOrder /\ RecordedInOrder /\ FoundIsNew /\ QueueIsNew /\ InTurn /\ DirsEmpty

(* The order of the history is one, and commits are in the order of their  *)
(* dates.                                                                  *)
LEMMA PrecedesIs ==
  ASSUME NEW r \in Rev, NEW s \in Rev
  PROVE  /\ r.pkg \in Package /\ s.pkg \in Package
         /\ Dt(r) \in Nat /\ Dt(s) \in Nat
         /\ r.commit \in Nat /\ s.commit \in Nat /\ r.distro \in Nat /\ s.distro \in Nat
         /\ Dt(r) < Dt(s) => r.commit < s.commit
         /\ r.commit < s.commit => Dt(r) <= Dt(s)
<1>1. r.commit \in 1..MaxCommit /\ s.commit \in 1..MaxCommit
      /\ r.distro \in Nat /\ s.distro \in Nat /\ r.pkg \in Package /\ s.pkg \in Package
  BY DEF Rev
<1>2. Dt(r) \in Nat /\ Dt(s) \in Nat
  BY <1>1, CommitDBAssumption DEF Dt
<1>3. r.commit < s.commit => Dt(r) <= Dt(s)
  BY <1>1, CommitDBAssumption DEF Dt
<1>4. s.commit <= r.commit => Dt(s) <= Dt(r)
  BY <1>1, CommitDBAssumption DEF Dt
<1>5. Dt(r) < Dt(s) => r.commit < s.commit
  BY <1>1, <1>2, <1>4, CommitDBAssumption
<1> QED  BY <1>1, <1>2, <1>3, <1>5, CommitDBAssumption

(* The commits getinfo returns for a project are of its newest packaging,  *)
(* and those _add_commits leaves are after every outcome in the table.     *)
LEMMA ScanIsNew ==
  ASSUME PublishTypeOK, RecordedInOrder, NEW q \in Package,
         NEW r \in Since(db, q, head[q], distro[q]), ~AlreadyHandled(db, r)
  PROVE  r \in Rev /\ r.pkg = q /\ r.distro = distro[q] /\ IsNew(r)
<1>0. db \in Seq(Row)
  BY DEF PublishTypeOK
<1>1. r \in Rev /\ r.pkg = q /\ r.distro = distro[q]
  BY DEF Since, GitLog
<1> SUFFICES ASSUME NEW i \in Processed(db), db[i].rev.pkg = q
             PROVE  Precedes(db[i].rev, r)
  BY <1>1 DEF IsNew
<1>2. i \in RowsOf(db, q) \cap Processed(db) /\ i \in DOMAIN db
  BY DEF Processed, RowsOf, Live
<1>3. RowsOf(db, q) \cap Processed(db) \in SUBSET DOMAIN db
  BY DEF Processed, RowsOf, Live
<1>4. LastProcessed(db, q) # {}
  BY <1>0, <1>2, <1>3, LatestExists DEF LastProcessed
<1>5. PICK j \in LastProcessed(db, q) : Dt(r) >= Dt(db[j].rev)
  BY <1>4 DEF Since, GitLog
<1>6. /\ j \in Processed(db) /\ db[j].rev.pkg = q /\ i <= j /\ j \in DOMAIN db
      /\ i \in Nat /\ j \in Nat
  <2>1. /\ j \in RowsOf(db, q) \cap Processed(db)
        /\ \A k \in RowsOf(db, q) \cap Processed(db) : k <= j
    BY <1>5 DEF LastProcessed, Latest
  <2>2. DOMAIN db \subseteq Nat
    BY <1>0
  <2> QED  BY <1>2, <1>3, <2>1, <2>2 DEF RowsOf
<1>7. db[i].rev \in Rev /\ db[j].rev \in Rev
  BY <1>0, <1>2, <1>6, TableType, RowType
<1>8. i = j \/ Dt(db[i].rev) <= Dt(db[j].rev)
  BY <1>6 DEF RecordedInOrder, Precedes
<1>9. Dt(db[i].rev) <= Dt(r)
  <2>1. Dt(db[i].rev) \in Nat /\ Dt(db[j].rev) \in Nat /\ Dt(r) \in Nat
    BY <1>1, <1>7, PrecedesIs
  <2>2. CASE i = j
    BY <1>5, <2>1, <2>2
  <2>3. CASE Dt(db[i].rev) <= Dt(db[j].rev)
    BY <1>5, <2>1, <2>3
  <2> QED  BY <1>8, <2>2, <2>3
<1>10. db[i].rev.distro <= r.distro
  BY <1>1 DEF RecordedInOrder, Upstream
<1>11. ASSUME db[i].rev.distro = r.distro
       PROVE  db[i].rev.commit < r.commit
  <2>1. Dt(db[i].rev) # Dt(r)
    BY <1>1, <1>11 DEF AlreadyHandled, SameDate, SameDistro
  <2>2. Dt(db[i].rev) \in Nat /\ Dt(r) \in Nat
    BY <1>1, <1>7, PrecedesIs
  <2>3. Dt(db[i].rev) < Dt(r)
    BY <1>9, <2>1, <2>2
  <2> QED  BY <1>1, <1>7, <2>3, PrecedesIs
<1> QED  BY <1>1, <1>9, <1>10, <1>11 DEF Precedes

\* No outcome is added to the table, and none is changed.
NoOutcome ==
    /\ Processed(db') \subseteq Processed(db)
    /\ \A i \in Processed(db') : db'[i].rev = db[i].rev

DistroGrows == \A q \in Package : distro'[q] >= distro[q]

(* Fewer outcomes and newer packagings leave everything new that was.      *)
LEMMA StillNew ==
  ASSUME TypeOK, HistoryInv, NoOutcome, DistroGrows, TypeOK'
  PROVE  /\ RecordedInOrder'
         /\ \A r \in Rev : (Upstream(r) => Upstream(r)') /\ (IsNew(r) => IsNew(r)')
<1>1. \A r \in Rev : Upstream(r) => Upstream(r)'
  <2> SUFFICES ASSUME NEW r \in Rev, Upstream(r)
               PROVE  Upstream(r)'
    OBVIOUS
  <2>1. r.pkg \in Package /\ r.distro \in Nat
    BY PrecedesIs
  <2>2. distro[r.pkg] \in Nat /\ distro'[r.pkg] \in Nat /\ distro'[r.pkg] >= distro[r.pkg]
    BY <2>1 DEF TypeOK, DistroGrows
  <2> QED  BY <2>1, <2>2 DEF Upstream
<1>2. \A r \in Rev : IsNew(r) => IsNew(r)'
  BY DEF NoOutcome, IsNew, Precedes
<1>3. \A i \in Processed(db) : db[i].rev \in Rev
  BY TableType, RowType DEF TypeOK, PublishTypeOK, Processed, Live
<1>4. RecordedInOrder'
  <2>1. \A i \in Processed(db') : i \in Processed(db) /\ db'[i].rev = db[i].rev
    BY DEF NoOutcome
  <2>2. RecordedInOrder
    BY DEF HistoryInv
  <2>3. ASSUME NEW i \in Processed(db')
        PROVE  Upstream(db[i].rev)'
    <3>1. db[i].rev \in Rev /\ Upstream(db[i].rev) /\ db'[i].rev = db[i].rev
      BY <1>3, <2>1, <2>2 DEF RecordedInOrder
    <3>2. \A r \in Rev : r.distro <= distro[r.pkg] => r.distro <= distro'[r.pkg]
      BY <1>1 DEF Upstream
    <3> QED  BY <3>1, <3>2 DEF Upstream
  <2>4. \A i, j \in Processed(db') :
          db'[i].rev.pkg = db'[j].rev.pkg /\ i < j => Precedes(db'[i].rev, db'[j].rev)
    BY <2>1, <2>2 DEF RecordedInOrder
  <2> QED  BY <2>3, <2>4 DEF RecordedInOrder, Precedes
<1> QED  BY <1>1, <1>2, <1>4

(* A vote, a recheck and the mark of a bootstrap add no outcome.           *)
LEMMA ChangeIsNoOutcome ==
  ASSUME db \in Seq(Row), NEW i \in DOMAIN db,
         \/ db' = [db EXCEPT ![i].vote = TRUE]
         \/ db' = [db EXCEPT ![i].gone = TRUE]
         \/ db' = [db EXCEPT ![i].status = "RETRY"]
  PROVE  NoOutcome
<1>1. DOMAIN db' = DOMAIN db /\ \A k \in DOMAIN db : db[k] \in Row
  OBVIOUS
<1>2. \A k \in DOMAIN db :
        /\ db'[k].rev = db[k].rev
        /\ ~db'[k].gone => ~db[k].gone
        /\ db'[k].status # "RETRY" => db[k].status # "RETRY"
  BY <1>1 DEF Row
<1> QED  BY <1>1, <1>2 DEF NoOutcome, Processed, Live

(* The vote of the main process is for a row of the table.                 *)
LEMMA VoteNoOutcome ==
  ASSUME TypeOK, Vote(Main), JobMatches(Main)
  PROVE  NoOutcome
<1>1. job[Main].id \in DOMAIN db /\ db' = [db EXCEPT ![job[Main].id].vote = TRUE]
  BY DEF Vote, JobMatches
<1> QED  BY <1>1, ChangeIsNoOutcome DEF TypeOK, PublishTypeOK

(* A step that records nothing, when the queue stays, and what was found.  *)
LEMMA HistoryFrame ==
  ASSUME TypeOK, HistoryInv, NoOutcome, DistroGrows, TypeOK', NoOrder', InTurn', DirsEmpty',
         UNCHANGED queue, found' = {} \/ (UNCHANGED found /\ scanning' \subseteq scanning),
         \A k \in DOMAIN queue : Pending(k)' => Pending(k)
  PROVE  HistoryInv'
<1>1. /\ RecordedInOrder'
      /\ \A r \in Rev : (Upstream(r) => Upstream(r)') /\ (IsNew(r) => IsNew(r)')
  BY StillNew
<1>2. FoundIsNew'
  <2>1. CASE found' = {}
    BY <2>1 DEF FoundIsNew
  <2>2. CASE UNCHANGED found /\ scanning' \subseteq scanning
    <3>1. FoundIsNew /\ found \subseteq Rev
      BY DEF HistoryInv, TypeOK
    <3>2. \A r \in found : r.pkg \notin scanning' /\ Upstream(r)' /\ IsNew(r)'
      BY <1>1, <2>2, <3>1 DEF FoundIsNew
    <3> QED  BY <2>2, <3>1, <3>2 DEF FoundIsNew
  <2> QED  BY <2>1, <2>2
<1>3. QueueIsNew'
  <2>1. QueueIsNew /\ \A k \in DOMAIN queue : queue[k] \in Rev
    BY DEF HistoryInv, TypeOK
  <2>2. \A k \in DOMAIN queue : Upstream(queue[k])' /\ (Pending(k)' => IsNew(queue[k])')
    <3> SUFFICES ASSUME NEW k \in DOMAIN queue
                 PROVE  Upstream(queue[k])' /\ (Pending(k)' => IsNew(queue[k])')
      OBVIOUS
    <3>1. PICK r \in Rev : r = queue[k]
      BY <2>1
    <3>2. (Upstream(r))' /\ (Pending(k)' => IsNew(r)')
      BY <1>1, <2>1, <3>1 DEF QueueIsNew
    <3>3. queue'[k] = r
      BY <3>1
    <3> QED  BY <3>2, <3>3 DEF Upstream, IsNew
  <2>3. \A k, l \in DOMAIN queue :
          queue[k].pkg = queue[l].pkg /\ k < l => Precedes(queue[k], queue[l])
    BY <2>1 DEF QueueIsNew
  <2> QED  BY <2>2, <2>3 DEF QueueIsNew, Precedes
<1> QED  BY <1>1, <1>2, <1>3 DEF HistoryInv

(* The run is over: there is nothing found and nothing in the queue.       *)
LEMMA HistoryEnds ==
  ASSUME TypeOK, HistoryInv, NoOutcome, DistroGrows, TypeOK', NoOrder', StopRun, pc'[Main] = "idle"
  PROVE  HistoryInv'
<1>1. RecordedInOrder'
  BY StillNew
<1>2. phase' = "idle" /\ found' = {} /\ queue' = <<>>
  BY DEF StopRun
<1>3. FoundIsNew' /\ QueueIsNew' /\ InTurn' /\ DirsEmpty'
  BY <1>2 DEF FoundIsNew, QueueIsNew, InTurn, DirsEmpty
<1> QED  BY <1>1, <1>3 DEF HistoryInv

(* StartRun: the projects to be scanned are named, nothing is found yet.   *)
LEMMA HistoryStart ==
  ASSUME TypeOK, HistoryInv, TypeOK', NoOrder', StartRun
  PROVE  HistoryInv'
<1>1. found' = {} /\ pc[Main] = "idle" /\ UNCHANGED <<db, distro, dirs, queue, built, next, pc, job>>
  BY DEF StartRun, HistoryInv, InTurn, publishVars, upstreamVars
<1>2. NoOutcome /\ DistroGrows
  BY <1>1 DEF NoOutcome, DistroGrows, TypeOK
<1>3. InTurn' /\ DirsEmpty'
  BY <1>1 DEF InTurn, DirsEmpty, HistoryInv
<1> QED  BY <1>1, <1>2, <1>3, HistoryFrame DEF Pending

(* ScanPackage: what it finds is new, and of a project not scanned before. *)
LEMMA HistoryScan ==
  ASSUME TypeOK, HistoryInv, TypeOK', NoOrder', NEW q \in Package, ScanPackage(q)
  PROVE  HistoryInv'
<1> DEFINE new == {r \in Since(db, q, head[q], distro[q]) : ~AlreadyHandled(db, r)}
<1>0. /\ UNCHANGED <<db, distro, dirs, queue, built, next, pc, job, phase>> /\ phase = "scan"
      /\ q \in scanning /\ scanning' = scanning \ {q} /\ found' = found \cup new
  BY DEF ScanPackage, publishVars, upstreamVars
<1>1. \A r \in new : r \in Rev /\ r.pkg = q /\ r.distro = distro[q] /\ IsNew(r)
  BY ScanIsNew DEF TypeOK, HistoryInv
<1> HIDE DEF new
<1>2. distro[q] \in Nat /\ FoundIsNew /\ found \subseteq Rev
  BY DEF TypeOK, HistoryInv
<1>3. \A r \in found \cup new : r.pkg \notin scanning' /\ Upstream(r) /\ IsNew(r)
  BY <1>0, <1>1, <1>2 DEF FoundIsNew, Upstream
<1>4. \A r, s \in found \cup new : s.pkg = r.pkg => s.distro = r.distro
  BY <1>0, <1>1, <1>2 DEF FoundIsNew
<1>5. FoundIsNew'
  BY <1>0, <1>3, <1>4 DEF FoundIsNew, Upstream, IsNew
<1>6. RecordedInOrder' /\ QueueIsNew' /\ InTurn' /\ DirsEmpty'
  <2>1. RecordedInOrder'
    BY <1>0 DEF HistoryInv, RecordedInOrder, Upstream
  <2>2. QueueIsNew'
    BY <1>0 DEF HistoryInv, QueueIsNew, Upstream, IsNew, Pending
  <2>3. InTurn' /\ DirsEmpty'
    BY <1>0 DEF HistoryInv, InTurn, DirsEmpty
  <2> QED  BY <2>1, <2>2, <2>3
<1> QED  BY <1>5, <1>6 DEF HistoryInv

(* StartBuilds: the sort keeps a project's commits in the order of git.    *)
LEMMA HistorySort ==
  ASSUME TypeOK, HistoryInv, TypeOK', NoOrder', StartBuilds
  PROVE  HistoryInv'
<1>0. /\ UNCHANGED <<db, distro, dirs, pc, job, next>> /\ phase = "scan" /\ phase' = "build"
      /\ queue' \in BuildOrders(found, order) /\ found' = {}
      /\ built' = [i \in DOMAIN queue' |-> "todo"]
  BY DEF StartBuilds, publishVars, upstreamVars
<1>1. pc[Main] = "idle" /\ FoundIsNew /\ found \subseteq Rev /\ Cardinality(found) \in Nat
  <2>1. found \subseteq Rev
    BY DEF TypeOK
  <2>2. Cardinality(found) \in Nat
    BY <2>1, RevFinite, FS_Subset, FS_CardinalityType
  <2> QED  BY <1>0, <2>1, <2>2 DEF HistoryInv, InTurn
<1>2. /\ \A k \in DOMAIN queue' : queue'[k] \in found
      /\ \A k, l \in DOMAIN queue' :
            k < l /\ queue'[k].pkg = queue'[l].pkg => queue'[k].commit < queue'[l].commit
  BY <1>0 DEF BuildOrders
<1>3. \A r, s \in found : r.pkg = s.pkg /\ r.commit < s.commit => Precedes(r, s)
  <2> SUFFICES ASSUME NEW r \in found, NEW s \in found, r.pkg = s.pkg, r.commit < s.commit
               PROVE  Precedes(r, s)
    OBVIOUS
  <2>1. r.distro = s.distro /\ r \in Rev /\ s \in Rev
    BY <1>1 DEF FoundIsNew
  <2> QED  BY <2>1, PrecedesIs DEF Precedes
<1>4. QueueIsNew'
  <2>1. \A k \in DOMAIN queue' : Upstream(queue'[k]) /\ IsNew(queue'[k])
    BY <1>1, <1>2 DEF FoundIsNew
  <2>2. \A k \in DOMAIN queue' : Upstream(queue[k])' /\ IsNew(queue[k])'
    BY <1>0, <2>1 DEF Upstream, IsNew
  <2>3. \A k, l \in DOMAIN queue' :
          queue'[k].pkg = queue'[l].pkg /\ k < l => Precedes(queue'[k], queue'[l])
    BY <1>2, <1>3
  <2> QED  BY <2>2, <2>3 DEF QueueIsNew, Precedes
<1>5. RecordedInOrder'
  BY <1>0 DEF HistoryInv, RecordedInOrder, Upstream
<1>6. FoundIsNew' /\ InTurn' /\ DirsEmpty'
  BY <1>0, <1>1 DEF FoundIsNew, InTurn, DirsEmpty
<1> QED  BY <1>4, <1>5, <1>6 DEF HistoryInv

(* StartBuild and FinishBuild: the entry that is being processed is built  *)
(* already, and an entry whose build begins gets an empty directory.       *)
LEMMA HistoryBuild ==
  ASSUME TypeOK, HistoryInv, TypeOK', NoOrder', NEW i \in DOMAIN queue,
         StartBuild(i) \/ FinishBuild(i)
  PROVE  HistoryInv'
<1>0. UNCHANGED <<db, distro, phase, scanning, found, queue, next, pc, job>>
  BY DEF StartBuild, FinishBuild, publishVars, upstreamVars
<1>1. NoOutcome /\ DistroGrows
  BY <1>0 DEF NoOutcome, DistroGrows, TypeOK
<1>2. InTurn /\ DirsEmpty /\ queue[i] \in Rev /\ dirs \in [Rev -> SUBSET Rev]
      /\ built \in Seq(BuildState) /\ DOMAIN built = DOMAIN queue
      /\ \A k \in DOMAIN queue : queue[k] \in Rev
  <2>1. built \in Seq(BuildState) /\ queue \in Seq(Rev) /\ Len(built) = Len(queue)
    BY DEF TypeOK
  <2> QED  BY <2>1 DEF TypeOK, PublishTypeOK, HistoryInv
<1>3. \/ /\ built[i] = "todo" /\ built' = [built EXCEPT ![i] = "building"]
         /\ dirs' = [dirs EXCEPT ![queue[i]] = {}]
      \/ /\ built[i] = "building" /\ dirs' = dirs
         /\ \E o \in Outcome : built' = [built EXCEPT ![i] = o]
  BY DEF StartBuild, FreshDirectory, FinishBuild, publishVars
<1>4. \A k \in DOMAIN queue : built[k] \in Outcome => built'[k] \in Outcome
  BY <1>2, <1>3 DEF Outcome
<1>5. InTurn'
  BY <1>0, <1>2, <1>4 DEF InTurn
<1>6. DirsEmpty'
  <2>1. ASSUME NEW k \in DOMAIN queue, built'[k] # "todo",
               k > next \/ (k = next /\ pc[Main] \in {"idle", "wait", "post"})
        PROVE  dirs'[queue[k]] = {}
    <3>1. CASE built[k] # "todo"
      <4>1. dirs[queue[k]] = {}
        BY <1>2, <2>1, <3>1 DEF DirsEmpty
      <4> QED  BY <1>2, <1>3, <4>1
    <3>2. CASE built[k] = "todo"
      <4>1. k = i
        BY <1>2, <1>3, <2>1, <3>2
      <4> QED  BY <1>2, <1>3, <3>2, <4>1
    <3> QED  BY <3>1, <3>2
  <2> QED  BY <1>0, <2>1 DEF DirsEmpty
<1> QED  BY <1>0, <1>1, <1>5, <1>6, HistoryFrame DEF Pending

(* TakeResult and NextResult: the results are processed one by one, in the *)
(* order of the queue.                                                     *)
LEMMA HistoryTurn ==
  ASSUME TypeOK, HistoryInv, TypeOK', NoOrder', TakeResult \/ NextResult
  PROVE  HistoryInv'
<1>0. NoOutcome /\ DistroGrows
  <2>1. UNCHANGED <<db, distro>>
    BY DEF TakeResult, Submit, NextResult, Release, upstreamVars
  <2> QED  BY <2>1 DEF NoOutcome, DistroGrows, TypeOK
<1>1. InTurn /\ DirsEmpty /\ pc \in [Proc -> PC] /\ job \in [Proc -> Job] /\ Main \in Proc
  <2>1. InTurn /\ DirsEmpty
    BY DEF HistoryInv
  <2>2. pc \in [Proc -> PC] /\ job \in [Proc -> Job] /\ Main \in Proc
    BY DEF TypeOK, PublishTypeOK, Proc
  <2> QED  BY <2>1, <2>2
<1>2. CASE TakeResult
  <2>1. /\ UNCHANGED <<dirs, phase, scanning, found, queue, built, next>> /\ phase = "build"
        /\ next \in DOMAIN queue /\ built[next] \in Outcome /\ pc[Main] = "idle"
        /\ pc'[Main] = "wait" /\ job'[Main].rev = queue[next]
    BY <1>1, <1>2 DEF TakeResult, Submit, Goto, NewJob, runVars
  <2>2. InTurn' /\ DirsEmpty'
    BY <1>1, <2>1 DEF InTurn, DirsEmpty
  <2> QED  BY <1>0, <2>1, <2>2, HistoryFrame DEF Pending
<1>3. CASE NextResult
  <2>1. UNCHANGED dirs /\ pc[Main] = "release" /\ pc'[Main] = "idle"
    BY <1>1, <1>3 DEF NextResult, Release, Leave, Goto, Rest
  <2>2. CASE StopRun
    BY <1>0, <2>1, <2>2, HistoryEnds
  <2>3. CASE next' = next + 1 /\ UNCHANGED <<phase, target, order, scanning, found, queue, built, boot>>
    <3>1. \A k \in DOMAIN queue : k \in Nat /\ next \in Nat /\ (k >= next + 1 => k > next)
      BY DEF TypeOK
    <3>2. \A k \in DOMAIN queue : k > next' \/ k = next' => k > next
      BY <2>3, <3>1
    <3>3. InTurn'
      BY <1>1, <2>1, <2>3 DEF InTurn
    <3>4. DirsEmpty'
      BY <1>1, <2>1, <2>3, <3>2 DEF DirsEmpty
    <3> QED  BY <1>0, <2>3, <3>2, <3>3, <3>4, HistoryFrame DEF Pending
  <2> QED  BY <1>3, <2>2, <2>3 DEF NextResult
<1> QED  BY <1>2, <1>3

(* Two entries of the queue are never the same revision.                   *)
LEMMA QueueDistinct ==
  ASSUME TypeOK, QueueIsNew, NEW k \in DOMAIN queue, NEW l \in DOMAIN queue, k < l
  PROVE  queue[k] # queue[l]
<1>1. queue[k] \in Rev
  BY DEF TypeOK
<1>2. queue[k].commit \in Nat
  BY <1>1, PrecedesIs
<1> QED  BY <1>2 DEF QueueIsNew, Precedes

(* A new row, and what it is for the outcomes.                             *)
LEMMA OneMoreOutcome ==
  ASSUME NEW d \in Seq(Row), NEW row \in Row
  PROVE  LET e == Append(d, row) IN
         /\ Processed(e) \subseteq Processed(d) \cup {Len(d) + 1}
         /\ e[Len(d) + 1] = row
         /\ \A i \in Processed(d) : e[i] = d[i] /\ i < Len(d) + 1 /\ i \in Nat
<1> DEFINE e == Append(d, row)
<1>1. /\ DOMAIN e = DOMAIN d \cup {Len(d) + 1} /\ Len(d) + 1 \notin DOMAIN d
      /\ e[Len(d) + 1] = row /\ \A i \in DOMAIN d : e[i] = d[i] /\ i < Len(d) + 1 /\ i \in Nat
  OBVIOUS
<1> HIDE DEF e
<1>2. Processed(d) \subseteq DOMAIN d /\ Processed(e) \subseteq DOMAIN e
  BY DEF Processed, Live
<1>3. Processed(e) \subseteq Processed(d) \cup {Len(d) + 1}
  BY <1>1, <1>2 DEF Processed, Live
<1> QED  BY <1>1, <1>2, <1>3 DEF e

(* Record: the row is after all outcomes of its project, and before what   *)
(* is left of the queue.                                                   *)
LEMMA HistoryRecord ==
  ASSUME TypeOK, HistoryInv, TypeOK', NoOrder', Record(Main), UNCHANGED <<upstreamVars, runVars>>
  PROVE  HistoryInv'
<1> DEFINE r == queue[next]
<1>0. /\ UNCHANGED <<distro, dirs, phase, scanning, found, queue, built, next>>
      /\ pc[Main] = "record" /\ pc'[Main] \in {"release", "symlink"}
  BY DEF Record, Goto, upstreamVars, runVars, TypeOK, PublishTypeOK
<1>1. /\ InTurn /\ DirsEmpty /\ QueueIsNew /\ RecordedInOrder /\ db \in Seq(Row)
      /\ phase = "build" /\ next \in DOMAIN queue /\ built[next] \in Outcome
      /\ job[Main].rev = r /\ found = {} /\ r \in Rev /\ \A k \in DOMAIN queue : queue[k] \in Rev
  BY <1>0 DEF HistoryInv, InTurn, TypeOK, PublishTypeOK
<1>2. PICK row \in Row : db' = Append(db, row) /\ row.rev = r
  <2>1. PICK synced \in {TRUE, ~SyncMayFail} :
          db' = Append(db, [rev |-> r, status |-> RecordedStatus(job[Main], synced),
                            vote |-> FALSE, gone |-> FALSE])
    BY <1>1 DEF Record
  <2>2. RecordedStatus(job[Main], synced) \in Status
    BY DEF RecordedStatus, Status
  <2> DEFINE new == [rev |-> r, status |-> RecordedStatus(job[Main], synced),
                     vote |-> FALSE, gone |-> FALSE]
  <2>3. new \in Row /\ new.rev = r
    BY <1>1, <2>2 DEF Row
  <2>4. db' = Append(db, new)
    BY <2>1
  <2> HIDE DEF new
  <2> QED  BY <2>3, <2>4
<1> DEFINE n == Len(db) + 1
<1>3. /\ Processed(db') \subseteq Processed(db) \cup {n} /\ db'[n].rev = r
      /\ \A i \in Processed(db) : db'[i].rev = db[i].rev /\ i < n /\ i \in Nat
      /\ n \in Nat
  <2> DEFINE e == Append(db, row)
  <2>1. /\ Processed(e) \subseteq Processed(db) \cup {Len(db) + 1}
        /\ e[Len(db) + 1] = row
        /\ \A i \in Processed(db) : e[i] = db[i] /\ i < Len(db) + 1 /\ i \in Nat
    BY <1>1, OneMoreOutcome
  <2>2. db' = e /\ row.rev = r /\ n \in Nat
    BY <1>1, <1>2
  <2> HIDE DEF e
  <2> QED  BY <2>1, <2>2
<1>4. Upstream(r) /\ IsNew(r)
  BY <1>0, <1>1 DEF QueueIsNew, Pending
<1> HIDE DEF n, r
<1>5. RecordedInOrder'
  <2>1. ASSUME NEW i \in Processed(db')
        PROVE  db'[i].rev.distro <= distro[db'[i].rev.pkg]
    BY <1>1, <1>3, <1>4, <2>1 DEF RecordedInOrder, Upstream
  <2>2. ASSUME NEW i \in Processed(db'), NEW j \in Processed(db'),
               db'[i].rev.pkg = db'[j].rev.pkg, i < j
        PROVE  Precedes(db'[i].rev, db'[j].rev)
    <3>1. CASE i \in Processed(db) /\ j \in Processed(db)
      BY <1>1, <1>3, <2>2, <3>1 DEF RecordedInOrder
    <3>2. CASE i \in Processed(db) /\ j = n
      BY <1>3, <1>4, <2>2, <3>2 DEF IsNew
    <3>3. i # n
      BY <1>3, <2>2
    <3> QED  BY <1>3, <3>1, <3>2, <3>3
  <2> QED  BY <1>0, <2>1, <2>2 DEF RecordedInOrder, Upstream, Precedes
<1>6. QueueIsNew'
  <2>1. ASSUME NEW k \in DOMAIN queue, k > next, NEW i \in Processed(db'), db'[i].rev.pkg = queue[k].pkg
        PROVE  Precedes(db'[i].rev, queue[k])
    <3>1. CASE i \in Processed(db)
      BY <1>1, <1>3, <2>1, <3>1 DEF QueueIsNew, Pending, IsNew
    <3>2. CASE i = n
      BY <1>1, <1>3, <2>1, <3>2 DEF QueueIsNew, r
    <3> QED  BY <1>3, <3>1, <3>2
  <2>2. \A k \in DOMAIN queue : Pending(k)' => k > next
    BY <1>0 DEF Pending
  <2>3. \A k \in DOMAIN queue : Pending(k)' => IsNew(queue[k])'
    BY <1>0, <2>1, <2>2 DEF IsNew, Precedes
  <2>4. \A k \in DOMAIN queue : Upstream(queue[k])'
    BY <1>0, <1>1 DEF QueueIsNew, Upstream
  <2> QED  BY <1>0, <1>1, <2>3, <2>4 DEF QueueIsNew, Precedes
<1>7. FoundIsNew' /\ InTurn' /\ DirsEmpty'
  BY <1>0, <1>1 DEF FoundIsNew, InTurn, DirsEmpty
<1> QED  BY <1>5, <1>6, <1>7 DEF HistoryInv

(* The rest of process_build_result: post_build fills the directory of the *)
(* one revision, and nothing else is recorded.                             *)
LEMMA HistoryProcess ==
  ASSUME TypeOK, HistoryInv, TypeOK', NoOrder', Advance(Main), JobMatches(Main),
         UNCHANGED <<upstreamVars, runVars>>
  PROVE  HistoryInv'
<1>0. /\ UNCHANGED <<distro, phase, scanning, found, queue, built, next>>
      /\ InTurn /\ DirsEmpty /\ QueueIsNew
      /\ pc \in [Proc -> PC] /\ job \in [Proc -> Job] /\ dirs \in [Rev -> SUBSET Rev]
      /\ Main \in Proc /\ DistroGrows
  <2>1. UNCHANGED <<distro, phase, scanning, found, queue, built, next>>
    BY DEF upstreamVars, runVars
  <2>2. InTurn /\ DirsEmpty /\ QueueIsNew
    BY DEF HistoryInv
  <2>3. /\ pc \in [Proc -> PC] /\ job \in [Proc -> Job] /\ dirs \in [Rev -> SUBSET Rev]
        /\ Main \in Proc
    BY DEF TypeOK, PublishTypeOK, Proc
  <2>4. DistroGrows
    BY <2>1 DEF TypeOK, DistroGrows
  <2> QED  BY <2>1, <2>2, <2>3, <2>4
<1>1. CASE Record(Main)
  BY <1>1, HistoryRecord
<1>2. ASSUME NoOutcome, pc[Main] # "idle", pc'[Main] \in Locked,
             pc'[Main] \in {"post", "record"} =>
                pc[Main] \in {"wait", "post", "record"} /\ job'[Main].rev = job[Main].rev,
             \/ UNCHANGED dirs /\ (pc'[Main] = "post" => pc[Main] = "wait")
             \/ /\ pc[Main] = "post" /\ pc'[Main] = "record"
                /\ \A s \in Rev \ {job[Main].rev} : dirs'[s] = dirs[s]
      PROVE  HistoryInv'
  <2>1. InTurn'
    BY <1>0, <1>2 DEF InTurn, Locked
  <2>2. \A k \in DOMAIN queue : Pending(k)' => Pending(k)
    BY <1>0, <1>2 DEF Pending, Locked
  <2>3. DirsEmpty'
    <3> SUFFICES ASSUME NEW k \in DOMAIN queue, built[k] # "todo",
                        k > next \/ (k = next /\ pc'[Main] = "post")
                 PROVE  dirs'[queue[k]] = {}
      BY <1>0, <1>2 DEF DirsEmpty, Locked
    <3>1. dirs[queue[k]] = {}
      BY <1>0, <1>2 DEF DirsEmpty
    <3>2. CASE UNCHANGED dirs
      BY <3>1, <3>2
    <3>3. CASE /\ pc[Main] = "post" /\ pc'[Main] = "record"
               /\ \A s \in Rev \ {job[Main].rev} : dirs'[s] = dirs[s]
      <4>1. k > next /\ job[Main].rev = queue[next] /\ next \in DOMAIN queue /\ queue[k] \in Rev
            /\ next < k
        BY <1>0, <3>3 DEF InTurn, TypeOK
      <4>2. queue[next] # queue[k]
        BY <1>0, <4>1, QueueDistinct
      <4> QED  BY <3>1, <3>3, <4>1, <4>2
    <3> QED  BY <1>2, <3>2, <3>3
  <2> QED  BY <1>0, <1>2, <2>1, <2>2, <2>3, HistoryFrame
<1>3. CASE Acquire(Main)
  <2>1. UNCHANGED <<db, dirs, job>> /\ pc[Main] = "wait" /\ pc'[Main] \in {"post", "record"}
    BY <1>0, <1>3 DEF Acquire, Goto
  <2>2. NoOutcome
    BY <2>1 DEF NoOutcome
  <2> QED  BY <1>2, <2>1, <2>2 DEF Locked
<1>4. CASE PostBuild(Main)
  <2>1. /\ UNCHANGED db /\ pc[Main] = "post" /\ pc'[Main] = "record"
        /\ job'[Main].rev = job[Main].rev
    BY <1>0, <1>4 DEF PostBuild, Goto, Job
  <2>2. \A s \in Rev \ {job[Main].rev} : dirs'[s] = dirs[s]
    BY <1>0, <1>4 DEF PostBuild
  <2>3. NoOutcome
    BY <2>1 DEF NoOutcome
  <2> QED  BY <1>2, <2>1, <2>2, <2>3 DEF Locked
<1>5. CASE Discard(Main) \/ Symlink(Main) \/ Rename(Main)
  <2>1. /\ UNCHANGED <<db, dirs>> /\ pc[Main] # "idle"
        /\ pc'[Main] \in Locked /\ pc'[Main] \notin {"post", "record"}
    BY <1>0, <1>5 DEF Discard, Symlink, Rename, Goto, Locked
  <2>2. NoOutcome
    BY <2>1 DEF NoOutcome
  <2> QED  BY <1>2, <2>1, <2>2
<1>6. CASE Vote(Main)
  <2>1. UNCHANGED dirs /\ pc[Main] # "idle" /\ pc'[Main] = "release"
    BY <1>0, <1>6 DEF Vote, Goto
  <2>2. NoOutcome
    BY <1>6, VoteNoOutcome
  <2> QED  BY <1>2, <2>1, <2>2 DEF Locked
<1> QED  BY <1>1, <1>3, <1>4, <1>5, <1>6 DEF Advance

(* A bootstrap takes an outcome back, after the last entry of the queue.   *)
LEMMA HistoryBootstrap ==
  ASSUME TypeOK, HistoryInv, TypeOK', NoOrder', NEW q \in Package, BootstrapPackage(q)
  PROVE  HistoryInv'
<1>0. /\ UNCHANGED <<distro, dirs, pc, job>> /\ pc[Main] = "idle" /\ db \in Seq(Row) /\ DistroGrows
      /\ InTurn /\ DirsEmpty
  BY DEF BootstrapPackage, LoopDone, upstreamVars, TypeOK, PublishTypeOK, DistroGrows, HistoryInv
<1>1. CASE StopRun /\ UNCHANGED db
  <2>1. NoOutcome
    BY <1>1 DEF NoOutcome
  <2> QED  BY <1>0, <1>1, <2>1, HistoryEnds
<1>2. CASE ~(StopRun /\ UNCHANGED db)
  <2>1. PICK i \in LastProcessed(db, q) : db' = [db EXCEPT ![i].status = "RETRY"]
    BY <1>2 DEF BootstrapPackage
  <2>2. i \in DOMAIN db
    BY DEF LastProcessed, Latest, RowsOf, Live
  <2>3. NoOutcome
    BY <1>0, <2>1, <2>2, ChangeIsNoOutcome
  <2>4. UNCHANGED <<phase, scanning, found, queue, built, next>>
    BY <1>2 DEF BootstrapPackage
  <2>5. InTurn' /\ DirsEmpty'
    BY <1>0, <2>4 DEF InTurn, DirsEmpty
  <2> QED  BY <1>0, <2>3, <2>4, <2>5, HistoryFrame DEF Pending
<1> QED  BY <1>1, <1>2

(* Upstream, rechecks and a project whose scan fails.                      *)
LEMMA HistoryAround ==
  ASSUME TypeOK, HistoryInv, TypeOK', NoOrder', NEW q \in Package,
         SkipPackage(q) \/ PushSource(q) \/ PushDistgit(q) \/ Recheck(q)
  PROVE  HistoryInv'
<1>0. db \in Seq(Row) /\ InTurn /\ DirsEmpty /\ distro \in [Package -> Nat]
  BY DEF TypeOK, PublishTypeOK, HistoryInv
<1>1. UNCHANGED <<dirs, phase, found, queue, built, next, pc, job>> /\ scanning' \subseteq scanning
  BY DEF SkipPackage, PushSource, PushDistgit, Recheck, RecheckCommit, publishVars, runVars
<1>2. DistroGrows
  <2>1. UNCHANGED distro \/ distro' = [distro EXCEPT ![q] = @ + 1]
    BY DEF SkipPackage, PushSource, PushDistgit, Recheck, upstreamVars
  <2> QED  BY <1>0, <2>1 DEF DistroGrows
<1>3. NoOutcome
  <2>1. CASE UNCHANGED db
    BY <2>1 DEF NoOutcome
  <2>2. CASE Recheck(q)
    <3>1. PICK i \in LastProcessed(db, q) : db' = [db EXCEPT ![i].gone = TRUE]
      BY <2>2 DEF Recheck, RecheckCommit
    <3>2. i \in DOMAIN db
      BY DEF LastProcessed, Latest, RowsOf, Live
    <3> QED  BY <1>0, <3>1, <3>2, ChangeIsNoOutcome
  <2> QED  BY <2>1, <2>2 DEF SkipPackage, PushSource, PushDistgit, publishVars
<1>4. InTurn' /\ DirsEmpty'
  BY <1>0, <1>1 DEF InTurn, DirsEmpty
<1> QED  BY <1>1, <1>2, <1>3, <1>4, HistoryFrame DEF Pending

(* The end of a run, be it done, stopped, failed or killed.                *)
LEMMA HistoryStops ==
  ASSUME TypeOK, HistoryInv, TypeOK', NoOrder',
         NothingToBuild \/ EndRun \/ Abort(Main) \/ Crash(Main)
  PROVE  HistoryInv'
<1>0. pc \in [Proc -> PC] /\ job \in [Proc -> Job] /\ Main \in Proc /\ InTurn
  BY DEF TypeOK, PublishTypeOK, HistoryInv, Proc
<1>1. StopRun /\ UNCHANGED <<db, distro>>
  BY DEF NothingToBuild, EndRun, Abort, Crash, Raise, RpmExists, RowGone, TempExists, VoteRefused,
     Kill, publishVars, upstreamVars
<1>2. NoOutcome /\ DistroGrows
  BY <1>1 DEF NoOutcome, DistroGrows, TypeOK
<1>3. pc'[Main] = "idle"
  <2>1. CASE NothingToBuild \/ EndRun
    BY <1>0, <2>1 DEF NothingToBuild, EndRun, LoopDone, InTurn, publishVars
  <2>2. CASE Abort(Main)
    BY <1>0, <2>2 DEF Abort, Raise, Leave, Goto, Rest
  <2>3. CASE Crash(Main)
    BY <1>0, <2>3 DEF Crash, Kill, Leave, Goto, publishVars
  <2> QED  BY <2>1, <2>2, <2>3
<1> QED  BY <1>1, <1>2, <1>3, HistoryEnds

(* What dlrn relies on when nothing is imported: what is still to be       *)
(* recorded is new, and is recorded in turn.                               *)
LEMMA HistoryStep ==
  ASSUME Importer = {}, IInv, HistoryInv, [Next]_vars
  PROVE  HistoryInv'
<1>0. TypeOK /\ TypeOK' /\ NoOrder' /\ Proc = {Main} /\ JobMatches(Main)
  BY TypeStep, NoOrderStep DEF IInv, BlockInv, HistoryInv, Proc
<1>1. CASE RunStep
  BY <1>0, <1>1, HistoryStart, HistorySort, HistoryStops, HistoryBuild, HistoryTurn, HistoryBootstrap
     DEF RunStep
<1>2. ASSUME NEW q \in Package,
             ScanPackage(q) \/ SkipPackage(q) \/ PushSource(q) \/ PushDistgit(q) \/ Recheck(q)
      PROVE  HistoryInv'
  BY <1>0, <1>2, HistoryScan, HistoryAround
<1>3. CASE Process(Main)
  BY <1>0, <1>3, HistoryProcess DEF Process
<1>4. CASE Abort(Main) \/ Crash(Main)
  BY <1>0, <1>4, HistoryStops
<1>5. CASE UNCHANGED vars
  <2>1. UNCHANGED <<db, distro, dirs, phase, scanning, found, queue, built, next, pc, job>>
    BY <1>5 DEF vars, publishVars, upstreamVars, runVars
  <2>2. NoOutcome /\ DistroGrows
    BY <1>0, <2>1 DEF NoOutcome, DistroGrows, TypeOK
  <2>3. InTurn' /\ DirsEmpty'
    BY <2>1 DEF InTurn, DirsEmpty, HistoryInv
  <2> QED  BY <1>0, <2>1, <2>2, <2>3, HistoryFrame DEF Pending
<1> QED  BY <1>0, <1>1, <1>2, <1>3, <1>4, <1>5 DEF Next

(* Nothing is found, recorded or built at first.                           *)
LEMMA HistoryInit == Init => HistoryInv
<1> SUFFICES ASSUME Init
             PROVE  HistoryInv
  OBVIOUS
<1>1. /\ db = <<>> /\ found = {} /\ queue = <<>> /\ pc[Main] = "idle" /\ NoOrder
  BY DEF Init, InitPublish, Idle, NoOrder, Proc
<1>2. Processed(db) = {}
  BY <1>1 DEF Processed, Live
<1> QED  BY <1>1, <1>2 DEF HistoryInv, RecordedInOrder, FoundIsNew, QueueIsNew, InTurn, DirsEmpty

(* _add_commits and the queue: without imports, the table lists the        *)
(* outcomes of a project in the order of its history, whatever crashed,    *)
(* was retried or rechecked in between.                                    *)
THEOREM HistoryCorrect == Spec => []HistoryOrder
<1> DEFINE Inv == Importer = {} => HistoryInv
<1>1. Init => Inv
  BY HistoryInit
<1>2. IInv /\ Inv /\ [Next]_vars => Inv'
  BY HistoryStep
<1>3. Inv => HistoryOrder
  BY DEF HistoryInv, RecordedInOrder, Precedes, HistoryOrder
<1> QED  BY <1>1, <1>2, <1>3, Invariance, PTL DEF Spec

(* ... so that nothing that has an outcome is built a second time.         *)
THEOREM BuiltOnce == Spec => []NothingBuiltTwice
<1>1. IInv /\ HistoryOrder => NothingBuiltTwice
  <2> SUFFICES ASSUME IInv, HistoryOrder, Importer = {}, NEW i \in Processed(db), NEW j \in Processed(db),
                      db[i].rev = db[j].rev, i < j
               PROVE  FALSE
    <3>1. IInv => Processed(db) \subseteq Nat
      BY DEF IInv, TypeOK, PublishTypeOK, Processed, Live
    <3> QED  BY <3>1 DEF NothingBuiltTwice
  <2>1. db[i].rev \in Rev
    BY TableType, RowType DEF IInv, TypeOK, PublishTypeOK, Processed, Live
  <2>2. db[i].rev.commit \in Nat
    BY <2>1, PrecedesIs
  <2> QED  BY <2>2 DEF HistoryOrder
<1> QED  BY <1>1, HistoryCorrect, Invariance, PTL

(* post_build finds none of its links in place: without imports, nobody    *)
(* but the main process fills the directory a build has emptied, and that  *)
(* only once, also when the revision was built before and that run killed. *)
THEOREM DirectoryClean == Spec => [](Importer = {} => CleanDirectory)
<1> DEFINE Inv == Importer = {} => HistoryInv
<1>1. Init => Inv
  BY HistoryInit
<1>2. IInv /\ Inv /\ [Next]_vars => Inv'
  BY HistoryStep
<1>3. Inv => (Importer = {} => CleanDirectory)
  <2> SUFFICES ASSUME HistoryInv, pc[Main] = "post"
               PROVE  dirs[job[Main].rev] = {}
    BY DEF CleanDirectory
  <2>1. next \in DOMAIN queue /\ built[next] \in Outcome /\ job[Main].rev = queue[next]
    BY DEF HistoryInv, InTurn
  <2> QED  BY <2>1 DEF HistoryInv, DirsEmpty, Outcome
<1> QED  BY <1>1, <1>2, <1>3, Invariance, PTL DEF Spec
=============================================================================

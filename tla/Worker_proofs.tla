---------------------------- MODULE Worker_proofs ----------------------------
(***************************************************************************)
(* What holds of the life of one project, for any upstream with a default  *)
(* branch, any settings, any requirements between the spec files, and any  *)
(* number of workers, runs, imports, failures and kills.                   *)
(***************************************************************************)
EXTENDS Worker, BuildOrder_proofs, CommitDB_proofs

CommitNumber == 1..MaxCommit

Histories == [Branch -> SUBSET CommitNumber]

CloneType == [there : BOOLEAN, local : Histories, on : Branch \cup {None}, at : 0..MaxCommit]

\* Upstream has a default branch.
HasDefault(upstream) == upstream["master"] \cup upstream["main"] # {}

-----------------------------------------------------------------------------
(* Operators of GitRepo                                                    *)

(* A branch that is there has a newest commit.                             *)
LEMMA TipOf ==
  ASSUME NEW S \in SUBSET CommitNumber, S # {}
  PROVE  Tip(S) \in S /\ (\A d \in S : d <= Tip(S)) /\ Tip(S) \in CommitNumber
<1>1. MaxCommit \in Nat /\ S \in SUBSET Nat /\ \A c \in S : c <= MaxCommit
  BY CommitDBAssumption DEF CommitNumber
<1>2. IsFiniteSet(S)
  BY <1>1, FS_BoundedSetOfNaturals
<1>3. \E c \in S : \A d \in S : d <= c
  BY <1>1, <1>2, LargestExists
<1> QED  BY <1>3 DEF Tip

LEMMA BranchNames ==
  /\ Branch = {"wanted", "unmaintained", "eol", "master", "main", "rpm-master"}
  /\ None \notin Branch
BY WorkerAssumption DEF Branch

LEMMA ClonedType ==
  ASSUME NEW upstream \in Histories, HasDefault(upstream)
  PROVE  /\ Cloned(upstream) \in CloneType
         /\ Cloned(upstream).there
         /\ Cloned(upstream).local["main"] # {} => upstream["main"] # {}
<1> DEFINE b == DefaultBranch(upstream)
<1>1. b \in {"master", "main"} /\ b \in Branch
  BY DEF DefaultBranch, Branch
<1>2. upstream[b] # {} /\ upstream[b] \in SUBSET CommitNumber
  BY <1>1 DEF HasDefault, Histories, DefaultBranch
<1>3. Tip(upstream[b]) \in CommitNumber
  BY <1>2, TipOf
<1>4. Tip(upstream[b]) \in 0..MaxCommit
  BY <1>3, CommitDBAssumption DEF CommitNumber
<1>5. [NoBranches EXCEPT ![b] = upstream[b]] \in Histories
  BY <1>1, <1>2 DEF NoBranches, Histories
<1>6. Cloned(upstream) = [there |-> TRUE, local |-> [NoBranches EXCEPT ![b] = upstream[b]],
                          on |-> b, at |-> Tip(upstream[b])]
  BY DEF Cloned
<1>7. [NoBranches EXCEPT ![b] = upstream[b]]["main"] # {} => upstream["main"] # {}
  BY <1>1, <1>2 DEF NoBranches, Branch
<1> QED  BY <1>1, <1>4, <1>5, <1>6, <1>7 DEF CloneType

LEMMA NoCloneType == NoClone \in CloneType /\ ~NoClone.there /\ NoClone.local["main"] = {}
BY CommitDBAssumption DEF NoClone, CloneType, NoBranches, Histories, Branch

\* The branches refreshrepo falls back to, in the order it looks for them.
FallbackOrder == <<"unmaintained", "eol", "master", "main">>

(* The first of these that is there.                                       *)
LEMMA FirstIs ==
  ASSUME NEW S
  PROVE  LET b == FirstOf(FallbackOrder, S) IN
         /\ b = None => {"unmaintained", "eol", "master", "main"} \cap S = {}
         /\ b # None => b \in {"unmaintained", "eol", "master", "main"} \cap S
         /\ b \in {"master", "main"} => {"unmaintained", "eol"} \cap S = {}
<1> DEFINE found == {i \in DOMAIN FallbackOrder : FallbackOrder[i] \in S}
           b == FirstOf(FallbackOrder, S)
<1>1. /\ DOMAIN FallbackOrder = {1, 2, 3, 4}
      /\ FallbackOrder[1] = "unmaintained" /\ FallbackOrder[2] = "eol"
      /\ FallbackOrder[3] = "master" /\ FallbackOrder[4] = "main"
  BY DEF FallbackOrder
<1>2. b = IF found = {} THEN None
          ELSE FallbackOrder[CHOOSE i \in found : \A j \in found : i <= j]
  BY DEF FirstOf
<1>3. None \notin {"unmaintained", "eol", "master", "main"}
  BY BranchNames
<1>4. CASE found = {}
  BY <1>1, <1>2, <1>3, <1>4
<1>5. CASE found # {}
  <2> DEFINE k == CHOOSE i \in found : \A j \in found : i <= j
  <2>1. found \subseteq {1, 2, 3, 4}
    BY <1>1
  <2>2. \E i \in found : \A j \in found : i <= j
    BY <1>5, <2>1
  <2>3. k \in found /\ \A j \in found : k <= j
    BY <2>2
  <2>4. b = FallbackOrder[k] /\ FallbackOrder[k] \in S
    BY <1>2, <1>5, <2>3
  <2>5. \A j \in {1, 2, 3, 4} : FallbackOrder[j] \in S => k <= j
    BY <1>1, <2>3
  <2>6. k \in {1, 2, 3, 4}
    BY <2>1, <2>3
  <2> HIDE DEF found, k, b
  <2>7. "unmaintained" \in S => k = 1
    BY <1>1, <2>5, <2>6
  <2>8. "eol" \in S => k <= 2
    BY <1>1, <2>5, <2>6
  <2>9. k \in {1, 2} => b \in {"unmaintained", "eol"}
    BY <1>1, <2>4
  <2>10. b \in {"unmaintained", "eol", "master", "main"}
    BY <1>1, <2>4, <2>6
  <2>11. b \in {"master", "main"} => k \in {3, 4}
    BY <1>1, <2>4, <2>6, <2>9
  <2> USE DEF b
  <2> QED  BY <1>3, <2>4, <2>7, <2>8, <2>10, <2>11
<1> QED  BY <1>4, <1>5

\* What refreshrepo makes of a clone: it ends up on the newest commit of a
\* branch upstream has, or of one that only the clone still has.
WellRefreshed(old, upstream, options, new) ==
    LET b == new.branch IN
    /\ new.clone \in CloneType /\ b \in Branch \cup {None}
    /\ old.there /\ b # None => new.clone.there
    /\ b = "eol" => upstream["eol"] # {} /\ new.clone.at = Tip(upstream["eol"])
    /\ b \notin {None, "eol"} =>
          /\ new.clone.local[b] = IF upstream[b] # {} THEN upstream[b] ELSE old.local[b]
          /\ new.clone.local[b] # {}
          /\ new.clone.at = Tip(new.clone.local[b])
    /\ b # None =>
          /\ upstream[b] = {} => b \in {"master", "main", "rpm-master"} /\ old.local[b] # {}
          /\ b # "wanted" => upstream["wanted"] = {} /\ ~options.nonfallback
          /\ b \in {"master", "main"} =>
                options.fallback /\ upstream["unmaintained"] = {} /\ upstream["eol"] = {}
    /\ \A c \in Branch : new.clone.local[c] # {} => old.local[c] # {} \/ upstream[c] # {}

(* refreshrepo comes to this whatever the clone was before.                *)
LEMMA RefreshType ==
  ASSUME NEW old \in CloneType, NEW upstream \in Histories, NEW options \in GitOptions
  PROVE  WellRefreshed(old, upstream, options, Refresh(old, upstream, options))
<1> DEFINE clear == [old EXCEPT !.local["wanted"] = IF Gone(old, upstream) THEN {} ELSE @]
           target == IF upstream["wanted"] # {} THEN "wanted" ELSE Fallback(clear, upstream, options)
           checked == CheckedOut(clear, upstream, target)
           reset == Reset(checked, upstream, target)
           new == Refresh(old, upstream, options)
<1> USE DEF WellRefreshed
<1>1. clear \in CloneType /\ clear.there = old.there
  BY DEF CloneType, Histories, Branch
<1>2. \A c \in Branch : clear.local[c] = IF c = "wanted" /\ Gone(old, upstream) THEN {} ELSE old.local[c]
  BY DEF CloneType, Histories, Branch
<1>3. /\ target \in Branch \cup {None}
      /\ target # None /\ target # "wanted" =>
            upstream["wanted"] = {} /\ ~options.nonfallback
      /\ target = "wanted" => upstream["wanted"] # {}
      /\ target \in {"unmaintained", "eol"} => upstream[target] # {}
      /\ target \in {"master", "main"} =>
            options.fallback /\ upstream["unmaintained"] = {} /\ upstream["eol"] = {}
  <2> DEFINE up == {b \in {"unmaintained", "eol"} : upstream[b] # {}}
             local == {b \in {"master", "main"} : options.fallback /\ clear.local[b] # {}}
             first == FirstOf(FallbackOrder, up \cup local)
  <2>1. Fallback(clear, upstream, options) =
           IF options.nonfallback THEN None
           ELSE IF options.kind = "source" THEN first
           ELSE IF options.kind = "rdo" /\ options.fallback THEN "rpm-master" ELSE None
    BY DEF Fallback, FallbackOrder
  <2>2. /\ first # None => first \in {"unmaintained", "eol", "master", "main"} \cap (up \cup local)
        /\ first \in {"master", "main"} => {"unmaintained", "eol"} \cap (up \cup local) = {}
    BY FirstIs
  <2>3. /\ first \in {"unmaintained", "eol"} => upstream[first] # {}
        /\ first \in {"master", "main"} =>
              options.fallback /\ upstream["unmaintained"] = {} /\ upstream["eol"] = {}
        /\ first # None => first \in {"unmaintained", "eol", "master", "main"}
    <3> HIDE DEF first
    <3>1. CASE first = None
      BY <3>1, BranchNames
    <3>2. CASE first \in {"unmaintained", "eol"}
      <4>1. first \in up
        BY <2>2, <3>2, BranchNames
      <4> QED  BY <3>2, <4>1
    <3>3. CASE first \in {"master", "main"}
      <4>1. first \in local /\ "unmaintained" \notin up /\ "eol" \notin up
        BY <2>2, <3>3, BranchNames
      <4> QED  BY <3>3, <4>1
    <3> QED  BY <2>2, <3>1, <3>2, <3>3
  <2> HIDE DEF first
  <2> QED  BY <2>1, <2>3, BranchNames
<1> HIDE DEF clear, target
<1>4. \/ new = [branch |-> None, clone |-> NoClone]
      \/ new = [branch |-> None, clone |-> clear]
      \/ /\ target # None /\ upstream[target] \cup clear.local[target] # {}
         /\ new = [branch |-> target, clone |-> reset]
  BY DEF Refresh, clear, target
<1>5. CASE new = [branch |-> None, clone |-> NoClone]
  <2>1. \A c \in Branch : NoClone.local[c] = {}
    BY DEF NoClone, NoBranches
  <2> QED  BY <1>5, <2>1, NoCloneType, BranchNames
<1>6. CASE new = [branch |-> None, clone |-> clear]
  BY <1>1, <1>2, <1>6, BranchNames
<1>7. CASE /\ target # None /\ upstream[target] \cup clear.local[target] # {}
           /\ new = [branch |-> target, clone |-> reset]
  <2>1. target \in Branch
    BY <1>3, <1>7
  <2>2. CASE target = "eol"
    <3>1. upstream["eol"] # {} /\ upstream["eol"] \in SUBSET CommitNumber
      BY <1>3, <2>1, <2>2 DEF Histories
    <3>2. Tip(upstream["eol"]) \in 0..MaxCommit
      BY <3>1, TipOf, CommitDBAssumption DEF CommitNumber
    <3>3. reset = [clear EXCEPT !.on = None, !.at = Tip(upstream["eol"])]
      BY <2>2 DEF Reset, CheckedOut
    <3>4. /\ reset \in CloneType /\ reset.there = clear.there /\ reset.local = clear.local
          /\ reset.at = Tip(upstream["eol"])
      BY <1>1, <3>2, <3>3 DEF CloneType
    <3> QED  BY <1>1, <1>2, <1>3, <1>7, <2>1, <2>2, <3>1, <3>4, BranchNames
  <2>3. CASE target # "eol"
    <3> DEFINE history == IF upstream[target] # {} THEN upstream[target] ELSE checked.local[target]
    <3>1. checked = [clear EXCEPT !.on = target,
                        !.local[target] = IF @ = {} THEN upstream[target] ELSE @]
      BY <2>3 DEF CheckedOut
    <3> DEFINE L == [clear.local EXCEPT ![target] = IF @ = {} THEN upstream[target] ELSE @]
    <3>1a. clear.local \in Histories /\ upstream[target] \in SUBSET CommitNumber
      BY <1>1, <2>1 DEF CloneType, Histories
    <3>1b. L \in Histories
      BY <2>1, <3>1a DEF Histories
    <3>1c. checked = [clear EXCEPT !.on = target, !.local = L]
      BY <3>1
    <3>2. /\ checked \in CloneType /\ checked.there = clear.there
          /\ checked.local[target] =
                IF clear.local[target] = {} THEN upstream[target] ELSE clear.local[target]
          /\ \A c \in Branch \ {target} : checked.local[c] = clear.local[c]
      <4>1. checked \in CloneType /\ checked.there = clear.there /\ checked.local = L
        <5> HIDE DEF L
        <5> QED  BY <1>1, <2>1, <3>1b, <3>1c DEF CloneType
      <4> QED  BY <2>1, <3>1a, <4>1 DEF Histories
    <3>3. /\ history = IF upstream[target] # {} THEN upstream[target] ELSE clear.local[target]
          /\ history # {}
          /\ history \in SUBSET CommitNumber
      BY <1>1, <1>7, <2>1, <3>2 DEF CloneType, Histories
    <3> HIDE DEF history
    <3>4. Tip(history) \in 0..MaxCommit
      <4>1. Tip(history) \in CommitNumber
        <5>1. history \in SUBSET CommitNumber /\ history # {}
          BY <3>3
        <5> QED  BY <5>1, TipOf
      <4> QED  BY <4>1, CommitDBAssumption DEF CommitNumber
    <3>5. reset = [checked EXCEPT !.local[target] = history, !.at = Tip(history)]
      BY <2>3 DEF Reset, history
    <3> DEFINE M == [checked.local EXCEPT ![target] = history]
    <3>5a. checked.local \in Histories /\ M \in Histories
      BY <2>1, <3>2, <3>3 DEF CloneType, Histories
    <3>5b. reset = [checked EXCEPT !.local = M, !.at = Tip(history)]
      BY <3>5
    <3>6. /\ reset \in CloneType /\ reset.there = checked.there
          /\ reset.local[target] = history /\ reset.at = Tip(history)
          /\ \A c \in Branch \ {target} : reset.local[c] = checked.local[c]
      <4>1. /\ reset \in CloneType /\ reset.there = checked.there /\ reset.local = M
            /\ reset.at = Tip(history)
        <5> HIDE DEF M
        <5> QED  BY <3>2, <3>4, <3>5a, <3>5b DEF CloneType
      <4> QED  BY <2>1, <3>5a, <4>1 DEF Histories
    <3>7. target = "wanted" => upstream["wanted"] # {}
      BY <1>3
    <3>8. history = IF upstream[target] # {} THEN upstream[target] ELSE old.local[target]
      BY <1>2, <2>1, <3>3, <3>7
    <3>9. \A c \in Branch : reset.local[c] # {} => old.local[c] # {} \/ upstream[c] # {}
      BY <1>2, <3>2, <3>3, <3>6, <3>8
    <3>10. upstream[target] = {} => target \in {"master", "main", "rpm-master"} /\ old.local[target] # {}
      BY <1>3, <2>1, <2>3, <3>3, <3>8, BranchNames
    <3> QED  BY <1>1, <1>3, <1>7, <2>1, <2>3, <3>2, <3>3, <3>6, <3>8, <3>9, <3>10, BranchNames
  <2> QED  BY <2>2, <2>3
<1> QED  BY <1>4, <1>5, <1>6, <1>7

-----------------------------------------------------------------------------
(* The invariant                                                           *)

RepoOK ==
    /\ remote \in Histories /\ HasDefault(remote)
    /\ tip \in 1..MaxDistro
    /\ clone \in CloneType
    \* A branch "main" is never renamed: the clone has it only when upstream has.
    /\ clone.local["main"] # {} => remote["main"] # {}
    /\ checkout \in 1..tip
    /\ settings \in GitOptions

RowsOK ==
    /\ db \in Seq(Row)
    /\ branches \in Seq(Branch) /\ Len(branches) = Len(db)
    /\ scanned \in Branch \cup {None}

RunOK ==
    /\ phase \in {"order", "idle", "build"}
    /\ queue \in Seq(Entry)
    /\ next \in Nat
    /\ IF phase = "build" THEN next \in DOMAIN queue ELSE queue = <<>> /\ next = 1

\* The time of the last e-mail is in the table, or about to be recorded.
MailOK ==
    /\ report \in Report \cup {None}
    /\ email \in Nat /\ mailed \in Nat /\ excused \in BOOLEAN
    /\ clock \in Nat \ {0}
    /\ report # None /\ report.pc = "notify" => report.sent = 0
    /\ ~excused => mailed = IF report # None /\ report.sent # 0 THEN report.sent ELSE email

TraceOK ==
    /\ own \subseteq (Nat \X Nat) /\ unknown \subseteq PushedByUs
    /\ overlap \in BOOLEAN /\ disturbed \in BOOLEAN

CountsOK == renames \in Nat /\ runs \in Nat /\ imports \in Nat /\ trouble \in Nat

WInv == OrderInv /\ RepoOK /\ RowsOK /\ RunOK /\ MailOK /\ TraceOK /\ CountsOK

(* The clone as the type invariant has it.                                 *)
LEMMA InvTypes == WInv => TypeOK
<1> SUFFICES ASSUME WInv PROVE TypeOK
  OBVIOUS
<1>1. OrderTypeOK
  BY DEF WInv, OrderInv
<1>2. clone \in Clone /\ clone.at <= MaxCommit /\ \A b \in Branch : clone.local[b] \subseteq 1..MaxCommit
  <2>1. clone \in CloneType
    BY DEF WInv, RepoOK
  <2>2. clone.local \in Branches /\ \A b \in Branch : clone.local[b] \subseteq 1..MaxCommit
    BY <2>1 DEF CloneType, Histories, CommitNumber, Branches
  <2>3. clone.at \in Nat /\ clone.at <= MaxCommit
    BY <2>1, CommitDBAssumption DEF CloneType
  <2> QED  BY <2>1, <2>2, <2>3 DEF CloneType, Clone
<1>3. remote \in [Branch -> SUBSET (1..MaxCommit)]
  BY DEF WInv, RepoOK, Histories, CommitNumber
<1> QED  BY <1>1, <1>2, <1>3 DEF WInv, RepoOK, RowsOK, RunOK, MailOK, TraceOK, CountsOK, TypeOK

-----------------------------------------------------------------------------
(* The parts a step leaves alone                                           *)

LEMMA OrderFrame ==
  ASSUME OrderInv, UNCHANGED orderVars
  PROVE  OrderInv'
<1>1. /\ requires' = requires /\ specs' = specs /\ nextspec' = nextspec
      /\ stack' = stack /\ color' = color /\ orders' = orders
  BY DEF orderVars
<1>2. OrderTypeOK'
  BY <1>1 DEF OrderInv, OrderTypeOK
<1>3. ProcessedIsPlaced' /\ ProcessingIsStacked' /\ CallsProgress'
  BY <1>1 DEF OrderInv, ProcessedIsPlaced, ProcessingIsStacked, CallsProgress
<1>4. StackIsPath'
  BY <1>1, PathStays
<1>5. RequirementsFirst'
  BY <1>1, OrderStays
<1> QED  BY <1>2, <1>3, <1>4, <1>5 DEF OrderInv

LEMMA RepoFrame == RepoOK /\ UNCHANGED repoVars => RepoOK'
BY DEF RepoOK, repoVars, HasDefault

LEMMA RowsFrame == RowsOK /\ UNCHANGED tableVars => RowsOK'
BY DEF RowsOK, tableVars

LEMMA RunFrame == RunOK /\ UNCHANGED runVars => RunOK'
BY DEF RunOK, runVars

LEMMA MailFrame == MailOK /\ UNCHANGED <<mailVars, clock>> => MailOK'
BY DEF MailOK, mailVars

LEMMA TraceFrame == TraceOK /\ UNCHANGED traceVars => TraceOK'
BY DEF TraceOK, traceVars, PushedByUs

LEMMA CountsFrame == CountsOK /\ UNCHANGED countVars => CountsOK'
BY DEF CountsOK, countVars

(* What ends early was ours: the pushes nobody will know of.               *)
LEMMA UnrecordedFrame ==
  ASSUME TraceOK, UNCHANGED <<own, overlap, disturbed>>,
         unknown' = unknown \cup Unrecorded \/ UNCHANGED unknown
  PROVE  TraceOK'
BY DEF TraceOK, Unrecorded, PushedByUs

(* The end of a run.                                                       *)
LEMMA EndRunKeeps ==
  ASSUME EndRun
  PROVE  RunOK'
BY DEF EndRun, RunOK

-----------------------------------------------------------------------------
(* Rows                                                                    *)

LEMMA ProjectIsPackage == Project \in Package /\ Package = {Project}
BY WorkerAssumption

LEMMA EntryRev ==
  ASSUME NEW entry \in Entry
  PROVE  RevOf(entry) \in Rev /\ RevOf(entry).pkg = Project
         /\ RevOf(entry).commit = entry.commit /\ RevOf(entry).distro = entry.distro
BY ProjectIsPackage DEF Entry, RevOf, Rev

LEMMA AddRowKeeps ==
  ASSUME RowsOK, NEW entry \in Entry, NEW status \in Status, AddRow(entry, status)
  PROVE  RowsOK'
<1>1. [rev |-> RevOf(entry), status |-> status, vote |-> FALSE, gone |-> FALSE] \in Row
  BY EntryRev DEF Row
<1>2. entry.branch \in Branch
  BY DEF Entry
<1> QED  BY <1>1, <1>2 DEF AddRow, RowsOK

(* After a result the run goes on or ends.                                 *)
LEMMA NextResultKeeps ==
  ASSUME RunOK, NextResult
  PROVE  RunOK'
<1>1. CASE next < Len(queue)
  <2>1. next' = next + 1 /\ UNCHANGED <<phase, queue>>
    BY <1>1 DEF NextResult
  <2>2. phase = "build" /\ next \in DOMAIN queue
    BY <1>1 DEF RunOK
  <2>3. next + 1 \in DOMAIN queue
    BY <1>1, <2>2 DEF RunOK
  <2> QED  BY <2>1, <2>2, <2>3 DEF RunOK
<1>2. CASE ~(next < Len(queue))
  BY <1>2, EndRunKeeps DEF NextResult
<1> QED  BY <1>1, <1>2


-----------------------------------------------------------------------------
(* The steps                                                               *)

LEMMA InitKeeps == Init => WInv
<1> SUFFICES ASSUME Init PROVE WInv
  OBVIOUS
<1>1. OrderInv
  BY WorkerAssumption, OrderStarts DEF Init, InitOrder
<1>2. RepoOK
  <2>1. remote \in Histories /\ HasDefault(remote) /\ settings \in GitOptions
    BY WorkerAssumption DEF Init, Histories, CommitNumber, HasDefault
  <2>2. tip \in 1..MaxDistro /\ checkout \in 1..tip
    BY WorkerAssumption, CommitDBAssumption DEF Init
  <2> QED  BY <2>1, <2>2, NoCloneType DEF Init, RepoOK
<1>3. RowsOK /\ RunOK
  BY DEF Init, RowsOK, RunOK
<1>4. MailOK
  <2>1. Day + 1 \in Nat \ {0}
    BY WorkerAssumption
  <2> QED  BY <2>1 DEF Init, MailOK
<1>5. TraceOK /\ CountsOK
  BY DEF Init, TraceOK, CountsOK
<1> QED  BY <1>1, <1>2, <1>3, <1>4, <1>5 DEF WInv

(* What a new clone elsewhere comes to: the newest commit of a branch.     *)
LEMMA ElsewhereIs ==
  ASSUME RepoOK
  PROVE  /\ Elsewhere.branch \in Branch \cup {None}
         /\ Elsewhere.branch # None => Elsewhere.clone.at \in CommitNumber
<1> DEFINE b == Elsewhere.branch
           local == Elsewhere.clone.local
<1>1. WellRefreshed(Cloned(remote), remote, settings, Elsewhere)
  BY ClonedType, RefreshType DEF Elsewhere, RepoOK
<1>2. Elsewhere.clone \in CloneType /\ b \in Branch \cup {None}
  BY <1>1 DEF WellRefreshed
<1>3. ASSUME b # None PROVE Elsewhere.clone.at \in CommitNumber
  <2>1. CASE b = "eol"
    <3>1. remote["eol"] \in SUBSET CommitNumber /\ remote["eol"] # {}
      BY <1>1, <2>1, BranchNames DEF WellRefreshed, RepoOK, Histories
    <3> QED  BY <1>1, <2>1, <3>1, TipOf DEF WellRefreshed
  <2>2. CASE b # "eol"
    <3>1. local[b] # {} /\ Elsewhere.clone.at = Tip(local[b])
      BY <1>1, <1>3, <2>2 DEF WellRefreshed
    <3>2. local[b] \in SUBSET CommitNumber
      BY <1>2, <1>3 DEF CloneType, Histories
    <3> HIDE DEF local
    <3> QED  BY <3>1, <3>2, TipOf
  <2> QED  BY <2>1, <2>2
<1> QED  BY <1>2, <1>3

\* What moves upstream only.
LEMMA PushSourceKeeps == WInv /\ PushSource => WInv'
<1> SUFFICES ASSUME WInv, PushSource PROVE WInv'
  OBVIOUS
<1>1. UNCHANGED <<orderVars, tip, clone, checkout, settings, tableVars, runVars, mailVars, clock,
                  traceVars, countVars>>
  BY DEF PushSource
<1>2. PICK b \in Branch : remote' = [remote EXCEPT ![b] = @ \cup {Tip(Commits) + 1}]
  <2>1. Elsewhere.branch \in Branch \cup {None}
    BY ElsewhereIs DEF WInv
  <2> QED  BY <2>1, BranchNames DEF PushSource
<1>3. Tip(Commits) + 1 \in CommitNumber
  <2>1. Commits \in SUBSET CommitNumber /\ Commits # {}
    BY BranchNames DEF Commits, WInv, RepoOK, Histories, HasDefault
  <2>2. Tip(Commits) \in CommitNumber
    BY <2>1, TipOf
  <2> QED  BY <2>2, CommitDBAssumption DEF PushSource, CommitNumber
<1>4. RepoOK'
  <2>1. remote' \in Histories /\ \A c \in Branch : remote[c] # {} => remote'[c] # {}
    BY <1>2, <1>3 DEF WInv, RepoOK, Histories
  <2> QED  BY <1>1, <2>1, BranchNames DEF WInv, RepoOK, HasDefault
<1> QED  BY <1>1, <1>4, OrderFrame, RowsFrame, RunFrame, MailFrame, TraceFrame, CountsFrame
         DEF WInv, runVars, traceVars


LEMMA RenameBranchKeeps == WInv /\ RenameBranch => WInv'
<1> SUFFICES ASSUME WInv, RenameBranch PROVE WInv'
  OBVIOUS
<1>1. UNCHANGED <<orderVars, tip, clone, checkout, settings, tableVars, runVars, mailVars, clock,
                  traceVars, runs, imports, trouble>>
      /\ renames' = renames + 1
  BY DEF RenameBranch
<1>2. PICK r \in Renames : /\ remote[r[1]] # {} /\ remote[r[2]] = {}
                           /\ remote' = [remote EXCEPT ![r[1]] = {}, ![r[2]] = remote[r[1]]]
  BY DEF RenameBranch
<1>3. /\ r[1] \in Branch /\ r[2] \in Branch /\ r[1] # r[2] /\ r[1] # "main"
      /\ r[1] = "master" => r[2] = "main"
  BY DEF Renames, Branch
<1>4. /\ remote' \in Histories
      /\ remote'[r[1]] = {} /\ remote'[r[2]] = remote[r[1]]
      /\ \A c \in Branch \ {r[1], r[2]} : remote'[c] = remote[c]
  <2>1. remote \in [Branch -> SUBSET CommitNumber]
    BY DEF WInv, RepoOK, Histories
  <2>2. remote[r[1]] \in SUBSET CommitNumber
    BY <1>3, <2>1
  <2> QED  BY <1>2, <1>3, <2>1, <2>2 DEF Histories
<1>5. HasDefault(remote') /\ (remote["main"] # {} => remote'["main"] # {})
  BY <1>2, <1>3, <1>4, BranchNames DEF WInv, RepoOK, HasDefault
<1>6. RepoOK'
  BY <1>1, <1>4, <1>5 DEF WInv, RepoOK, HasDefault
<1>7. CountsOK'
  BY <1>1 DEF WInv, CountsOK
<1> QED  BY <1>1, <1>6, <1>7, OrderFrame, RowsFrame, RunFrame, MailFrame, TraceFrame
         DEF WInv, runVars, traceVars

LEMMA PushDistgitKeeps == WInv /\ PushDistgit => WInv'
<1> SUFFICES ASSUME WInv, PushDistgit PROVE WInv'
  OBVIOUS
<1>1. UNCHANGED <<orderVars, remote, clone, checkout, settings, tableVars, runVars, mailVars, clock,
                  traceVars, countVars>>
      /\ tip < MaxDistro /\ tip' = tip + 1
  BY DEF PushDistgit
<1>2. RepoOK'
  BY <1>1, CommitDBAssumption DEF WInv, RepoOK, HasDefault
<1> QED  BY <1>1, <1>2, OrderFrame, RowsFrame, RunFrame, MailFrame, TraceFrame, CountsFrame
         DEF WInv, runVars, traceVars

LEMMA TickKeeps == WInv /\ Tick => WInv'
<1> SUFFICES ASSUME WInv, Tick PROVE WInv'
  OBVIOUS
<1>1. UNCHANGED <<orderVars, repoVars, tableVars, runVars, mailVars, traceVars, countVars>>
      /\ clock' = clock + 1
  BY DEF Tick
<1>2. MailOK'
  BY <1>1 DEF WInv, MailOK, mailVars
<1> QED  BY <1>1, <1>2, OrderFrame, RepoFrame, RowsFrame, RunFrame, TraceFrame, CountsFrame
         DEF WInv, runVars, traceVars, repoVars

LEMMA OrderingKeeps == WInv /\ Ordering => WInv'
<1> SUFFICES ASSUME WInv, Ordering PROVE WInv'
  OBVIOUS
<1>1. UNCHANGED <<repoVars, tableVars, runVars, mailVars, clock, traceVars, countVars>> /\ ComputeOrder
  BY DEF Ordering
<1>2. OrderInv'
  BY <1>1, OrderStep DEF WInv
<1> QED  BY <1>1, <1>2, RepoFrame, RowsFrame, RunFrame, MailFrame, TraceFrame, CountsFrame
         DEF WInv, runVars, traceVars, repoVars

LEMMA OrderedKeeps == WInv /\ Ordered => WInv'
<1> SUFFICES ASSUME WInv, Ordered PROVE WInv'
  OBVIOUS
<1>1. UNCHANGED <<stack, repoVars, tableVars, queue, next, mailVars, clock, traceVars, countVars>>
      /\ phase = "order" /\ phase' = "idle"
  BY DEF Ordered
<1>2. OrderInv'
  <2>1. /\ requires' = NoOrder /\ specs' = <<>> /\ nextspec' = 1 /\ stack' = <<>>
        /\ color' = [s \in SpecFile |-> 0] /\ orders' = <<>>
    BY DEF Ordered, Computed
  <2>2. NoOrder \in [SpecFile -> SUBSET SpecFile]
    BY DEF NoOrder
  <2> HIDE DEF NoOrder
  <2>3. DOMAIN stack' = {} /\ DOMAIN orders' = {}
    BY <2>1
  <2>4. OrderTypeOK'
    BY <2>1, <2>2 DEF OrderTypeOK
  <2>5. ProcessedIsPlaced' /\ ProcessingIsStacked'
    BY <2>1 DEF ProcessedIsPlaced, ProcessingIsStacked
  <2> QED  BY <2>3, <2>4, <2>5 DEF OrderInv, CallsProgress, StackIsPath, RequirementsFirst
<1>3. RunOK'
  BY <1>1 DEF WInv, RunOK
<1> QED  BY <1>1, <1>2, <1>3, RepoFrame, RowsFrame, MailFrame, TraceFrame, CountsFrame
         DEF WInv, traceVars, repoVars


-----------------------------------------------------------------------------
(* The scan                                                                *)

\* The history a scan looks at.
HistoryOf(new) == IF new.branch = "eol" THEN remote[new.branch] ELSE new.clone.local[new.branch]

(* What refreshrepo of the project's clone comes to.                       *)
LEMMA RefreshedIs ==
  ASSUME RepoOK, NEW case
  PROVE  LET new == Refreshed(case)
             b == new.branch
         IN
         /\ new.clone \in CloneType /\ b \in Branch \cup {None}
         /\ new.clone.local["main"] # {} => remote["main"] # {}
         /\ b # None =>
               /\ HistoryOf(new) \in SUBSET CommitNumber /\ HistoryOf(new) # {}
               /\ new.clone.at = Tip(HistoryOf(new))
               /\ remote[b] # {} => HistoryOf(new) = remote[b]
               /\ remote[b] = {} => b \in {"master", "rpm-master"}
               /\ b # "wanted" => remote["wanted"] = {} /\ ~settings.nonfallback
               /\ b \in {"master", "main"} =>
                     settings.fallback /\ remote["unmaintained"] = {} /\ remote["eol"] = {}
<1> DEFINE new == Refreshed(case)
           b == new.branch
           old == IF case = "damaged" \/ ~clone.there THEN Cloned(remote) ELSE clone
<1>1. CASE case = "unreachable"
  <2>1. new = [branch |-> None, clone |-> NoClone]
    BY <1>1 DEF Refreshed
  <2> QED  BY <2>1, NoCloneType
<1>2. CASE case # "unreachable"
  <2>1. new = Refresh(old, remote, settings)
    BY <1>2 DEF Refreshed
  <2>2. old \in CloneType /\ (old.local["main"] # {} => remote["main"] # {})
    BY ClonedType DEF RepoOK
  <2> HIDE DEF old, new
  <2>3. /\ new.clone \in CloneType /\ b \in Branch \cup {None}
        /\ b = "eol" => remote["eol"] # {} /\ new.clone.at = Tip(remote["eol"])
        /\ b \notin {None, "eol"} =>
              /\ new.clone.local[b] = IF remote[b] # {} THEN remote[b] ELSE old.local[b]
              /\ new.clone.local[b] # {}
              /\ new.clone.at = Tip(new.clone.local[b])
        /\ b # None =>
              /\ remote[b] = {} => b \in {"master", "main", "rpm-master"} /\ old.local[b] # {}
              /\ b # "wanted" => remote["wanted"] = {} /\ ~settings.nonfallback
              /\ b \in {"master", "main"} =>
                    settings.fallback /\ remote["unmaintained"] = {} /\ remote["eol"] = {}
        /\ \A c \in Branch : new.clone.local[c] # {} => old.local[c] # {} \/ remote[c] # {}
    <3>1. old \in CloneType /\ remote \in Histories /\ settings \in GitOptions
      BY <2>2 DEF RepoOK
    <3>2. WellRefreshed(old, remote, settings, new)
      BY ONLY <2>1, <3>1, RefreshType
    <3> QED  BY <3>2 DEF WellRefreshed
  <2>4. new.clone.local["main"] # {} => remote["main"] # {}
    BY <2>2, <2>3, BranchNames
  <2>5. ASSUME b # None
        PROVE  HistoryOf(new) \in SUBSET CommitNumber /\ HistoryOf(new) # {}
    BY <2>3, <2>5 DEF HistoryOf, CloneType, Histories, RepoOK
  <2>6. ASSUME b # None
        PROVE  /\ new.clone.at = Tip(HistoryOf(new))
               /\ remote[b] # {} => HistoryOf(new) = remote[b]
    BY <2>3, <2>6 DEF HistoryOf
  <2>7. ASSUME b # None, remote[b] = {}
        PROVE  b \in {"master", "rpm-master"}
    BY <2>2, <2>3, <2>7
  <2> USE DEF new
  <2> QED  BY <2>3, <2>4, <2>5, <2>6, <2>7
<1> QED  BY <1>1, <1>2

LEMMA ListedIn == \A history : Listed(history) \subseteq history
BY DEF Listed

\* The commits a scan finds to build.
Found(new) ==
    IF new.branch = None THEN {}
    ELSE {c \in Listed(HistoryOf(new)) :
            ~AlreadyHandled(db, [pkg |-> Project, commit |-> c, distro |-> tip])}

(* What a scan makes of the state.                                         *)
LEMMA ScanIs ==
  ASSUME RepoOK, Scan
  PROVE  \E case \in {"fine", "damaged", "unreachable"} :
         LET new == Refreshed(case) IN
         /\ clone' = new.clone /\ scanned' = new.branch
         /\ Found(new) \in SUBSET CommitNumber
         /\ new.branch # None => Found(new) \subseteq HistoryOf(new)
         /\ DOMAIN queue' = 1..Cardinality(Found(new))
         /\ queue' \in Seq(Entry) /\ Len(queue') = Cardinality(Found(new))
         /\ \A i \in DOMAIN queue' : /\ queue'[i].commit \in Found(new)
                                     /\ queue'[i] = NewEntry(queue'[i].commit, new.branch, tip)
         /\ \A i, j \in DOMAIN queue' : i < j => queue'[i].commit < queue'[j].commit
         /\ phase' = IF queue' = <<>> THEN "idle" ELSE "build"
         /\ trouble' = trouble \/ trouble' = trouble + 1
<1>1. PICK case \in {"fine", "damaged", "unreachable"} :
         LET new == Refreshed(case) IN
         /\ Troubled(case)
         /\ clone' = new.clone
         /\ scanned' = new.branch
         /\ \E list \in InOrder(Found(new)) :
               queue' = [i \in DOMAIN list |-> NewEntry(list[i], new.branch, tip)]
         /\ phase' = IF Found(new) = {} THEN "idle" ELSE "build"
  BY DEF Scan, Found, HistoryOf
<1> DEFINE new == Refreshed(case)
           found == Found(new)
           n == Cardinality(found)
<1>2. new.branch # None => found \subseteq HistoryOf(new) /\ HistoryOf(new) \in SUBSET CommitNumber
  BY RefreshedIs, ListedIn DEF Found
<1>3. found \in SUBSET CommitNumber
  BY <1>2 DEF Found
<1> HIDE DEF found
<1>4. IsFiniteSet(found) /\ n \in Nat /\ (n = 0 <=> found = {})
  <2>1. IsFiniteSet(CommitNumber)
    BY FS_Interval, CommitDBAssumption DEF CommitNumber
  <2>2. IsFiniteSet(found)
    BY <1>3, <2>1, FS_Subset
  <2> QED  BY <2>2, FS_CardinalityType, FS_EmptySet
<1>5. PICK list \in InOrder(found) : queue' = [i \in DOMAIN list |-> NewEntry(list[i], new.branch, tip)]
  BY <1>1 DEF found
<1>6. list \in [1..n -> found] /\ DOMAIN list = 1..n /\ \A i, j \in 1..n : i < j => list[i] < list[j]
  BY <1>5 DEF InOrder
<1>7. DOMAIN queue' = 1..n /\ \A i \in 1..n : queue'[i] = NewEntry(list[i], new.branch, tip)
  BY <1>5, <1>6
<1>8. ASSUME NEW i \in 1..n
      PROVE  /\ queue'[i] \in Entry /\ queue'[i].commit = list[i] /\ list[i] \in found
             /\ queue'[i] = NewEntry(queue'[i].commit, new.branch, tip)
  <2>1. list[i] \in found /\ list[i] \in CommitNumber
    BY <1>3, <1>6
  <2>2. found # {}
    BY <2>1
  <2>3. new.branch \in Branch
    BY <2>2, RefreshedIs DEF found, Found
  <2>4. tip \in 1..MaxDistro /\ 0 \in 0..MaxCommit
    BY CommitDBAssumption DEF RepoOK
  <2>5. NewEntry(list[i], new.branch, tip) \in Entry /\ NewEntry(list[i], new.branch, tip).commit = list[i]
    BY <2>1, <2>3, <2>4 DEF NewEntry, Entry, BuildState, CommitNumber
  <2> QED  BY <1>7, <2>1, <2>5
<1>9. queue' \in Seq(Entry) /\ Len(queue') = n
  <2>1. queue' \in [1..n -> Entry]
    BY <1>5, <1>6, <1>7, <1>8
  <2> QED  BY <1>4, <2>1
<1>10. queue' = <<>> <=> found = {}
  BY <1>4, <1>9
<1>11. trouble' = trouble \/ trouble' = trouble + 1
  BY <1>1 DEF Troubled
<1> QED  BY <1>1, <1>2, <1>3, <1>6, <1>7, <1>8, <1>9, <1>10, <1>11 DEF found

LEMMA ScanKeeps == WInv /\ Scan => WInv'
<1> SUFFICES ASSUME WInv, Scan PROVE WInv'
  OBVIOUS
<1>1. UNCHANGED <<orderVars, remote, tip, settings, db, branches, next, mailVars, clock, traceVars,
                  renames, imports>>
      /\ checkout' = tip /\ runs' = runs + 1 /\ phase = "idle"
  BY DEF Scan
<1>2. PICK case \in {"fine", "damaged", "unreachable"} :
         LET new == Refreshed(case) IN
         /\ clone' = new.clone /\ scanned' = new.branch
         /\ queue' \in Seq(Entry)
         /\ \A i \in DOMAIN queue' : queue'[i] = NewEntry(queue'[i].commit, new.branch, tip)
         /\ phase' = IF queue' = <<>> THEN "idle" ELSE "build"
         /\ trouble' = trouble \/ trouble' = trouble + 1
  BY ScanIs DEF WInv
<1>3. RepoOK'
  <2>1. clone' \in CloneType /\ (clone'.local["main"] # {} => remote["main"] # {})
    BY <1>2, RefreshedIs DEF WInv
  <2>2. checkout' \in 1..tip
    BY <1>1, CommitDBAssumption DEF WInv, RepoOK
  <2> QED  BY <1>1, <2>1, <2>2 DEF WInv, RepoOK, HasDefault
<1>4. RowsOK'
  <2>1. scanned' \in Branch \cup {None}
    BY <1>2, RefreshedIs DEF WInv
  <2> QED  BY <1>1, <2>1 DEF WInv, RowsOK
<1>5. RunOK'
  <2>1. next' = 1
    BY <1>1 DEF WInv, RunOK
  <2>2. queue' # <<>> => 1 \in DOMAIN queue'
    BY <1>2
  <2> QED  BY <1>2, <2>1, <2>2 DEF RunOK
<1>6. CountsOK'
  BY <1>1, <1>2 DEF WInv, CountsOK
<1> QED  BY <1>1, <1>3, <1>4, <1>5, <1>6, OrderFrame, MailFrame, TraceFrame DEF WInv

-----------------------------------------------------------------------------
(* The workers                                                             *)

LEMMA QueueType ==
  ASSUME RunOK, NEW i \in DOMAIN queue
  PROVE  /\ queue \in Seq(Entry) /\ queue[i] \in Entry
         /\ queue[i].commit \in CommitNumber /\ queue[i].source \in 0..MaxCommit
         /\ phase = "build" /\ next \in DOMAIN queue
<1>1. queue \in Seq(Entry) /\ (IF phase = "build" THEN next \in DOMAIN queue ELSE queue = <<>>)
  BY DEF RunOK
<1>2. queue[i] \in Entry
  BY <1>1
<1> QED  BY <1>1, <1>2 DEF Entry, CommitNumber

LEMMA ReplacedEntry ==
  ASSUME NEW q \in Seq(Entry), NEW i \in DOMAIN q, NEW new \in Entry
  PROVE  LET changed == [q EXCEPT ![i] = new] IN
         /\ changed \in Seq(Entry) /\ DOMAIN changed = DOMAIN q /\ changed[i] = new
         /\ \A j \in DOMAIN q \ {i} : changed[j] = q[j]
OBVIOUS

(* A build that comes to another state leaves the others where they are.   *)
LEMMA BecomesType ==
  ASSUME RunOK, NEW i \in DOMAIN queue, NEW state \in BuildState, Becomes(i, state),
         UNCHANGED <<phase, next>>
  PROVE  /\ RunOK' /\ queue' \in Seq(Entry) /\ DOMAIN queue' = DOMAIN queue
         /\ queue'[i] = [queue[i] EXCEPT !.state = state]
         /\ \A j \in DOMAIN queue \ {i} : queue'[j] = queue[j]
<1> DEFINE new == [queue[i] EXCEPT !.state = state]
<1>1. queue[i] \in Entry /\ queue \in Seq(Entry)
  BY DEF RunOK
<1>2. new \in Entry
  BY <1>1 DEF Entry
<1>3. queue' = [queue EXCEPT ![i] = new]
  BY DEF Becomes
<1> HIDE DEF new
<1>4. /\ queue' \in Seq(Entry) /\ DOMAIN queue' = DOMAIN queue /\ queue'[i] = new
      /\ \A j \in DOMAIN queue \ {i} : queue'[j] = queue[j]
  BY <1>1, <1>2, <1>3
<1>5. RunOK'
  <2>1. queue # <<>> /\ phase = "build" /\ next \in DOMAIN queue
    BY DEF RunOK
  <2> QED  BY <1>4, <2>1 DEF RunOK
<1> USE DEF new
<1> QED  BY <1>4, <1>5

LEMMA BeginKeeps ==
  ASSUME WInv, NEW i \in DOMAIN queue, Begin(i)
  PROVE  RepoOK' /\ RunOK' /\ TraceOK'
<1>1. /\ UNCHANGED <<remote, tip, checkout, settings, phase, next, own, unknown, trouble>>
      /\ overlap' = (overlap \/ Active # {})
  BY DEF Begin
<1>2. RepoOK /\ RunOK /\ TraceOK
  BY DEF WInv
<1>3. CASE clone.there
  <2>1. /\ clone' = Checkout(clone, queue[i].commit)
        /\ disturbed' = (disturbed \/ InUse(i))
        /\ Becomes(i, "checked out")
    BY <1>3 DEF Begin
  <2>2. /\ RunOK' /\ DOMAIN queue' = DOMAIN queue
        /\ queue'[i] = [queue[i] EXCEPT !.state = "checked out"]
        /\ \A j \in DOMAIN queue \ {i} : queue'[j] = queue[j]
    <3>1. "checked out" \in BuildState
      BY DEF BuildState
    <3> QED  BY <1>1, <1>2, <2>1, <3>1, BecomesType
  <2>3. queue[i] \in Entry /\ queue[i].commit \in 0..MaxCommit
    <3>1. queue[i] \in Entry /\ queue[i].commit \in CommitNumber
      BY <1>2, QueueType
    <3> QED  BY <3>1, CommitDBAssumption DEF CommitNumber
  <2>4. clone' \in CloneType /\ clone'.local = clone.local /\ clone'.at = queue[i].commit
    BY <1>2, <2>1, <2>3 DEF RepoOK, CloneType, Checkout
  <2>5. RepoOK'
    BY <1>1, <1>2, <2>4 DEF RepoOK, HasDefault
  <2>6. disturbed' \in BOOLEAN /\ overlap' \in BOOLEAN
    BY <1>1, <1>2, <2>1 DEF TraceOK
  <2>7. TraceOK'
    BY <1>1, <1>2, <2>6 DEF TraceOK, PushedByUs
  <2> QED  BY <2>2, <2>5, <2>7
<1>4. CASE ~clone.there
  <2>1. Becomes(i, "error") /\ UNCHANGED <<clone, disturbed>>
    BY <1>4 DEF Begin
  <2>2. RunOK'
    <3>1. "error" \in BuildState
      BY DEF BuildState, Result
    <3> QED  BY <1>1, <1>2, <2>1, <3>1, BecomesType
  <2>3. TraceOK'
    BY <1>1, <1>2, <2>1 DEF TraceOK, PushedByUs
  <2> QED  BY <1>1, <1>2, <2>1, <2>2, <2>3, RepoFrame DEF repoVars
<1> QED  BY <1>3, <1>4

LEMMA CopyKeeps ==
  ASSUME WInv, NEW i \in DOMAIN queue, Copy(i)
  PROVE  RunOK'
<1>1. UNCHANGED <<repoVars, phase, next, traceVars, trouble>> /\ queue[i].state = "checked out"
  BY DEF Copy
<1>2. RepoOK /\ RunOK
  BY DEF WInv
<1>3. CASE clone.there
  <2> DEFINE new == [queue[i] EXCEPT !.state = "copied", !.source = clone.at]
  <2>1. queue' = [queue EXCEPT ![i] = new]
    BY <1>3 DEF Copy
  <2>2. queue[i] \in Entry /\ clone.at \in 0..MaxCommit
    BY <1>2 DEF RepoOK, RunOK, CloneType
  <2>3. new \in Entry
    BY <2>2 DEF Entry, BuildState
  <2> HIDE DEF new
  <2>4. /\ queue' \in Seq(Entry) /\ DOMAIN queue' = DOMAIN queue /\ queue'[i] = new
        /\ \A j \in DOMAIN queue \ {i} : queue'[j] = queue[j]
    BY <1>2, <2>1, <2>3 DEF RunOK
  <2>5. phase = "build" /\ next \in DOMAIN queue
    BY <1>2 DEF RunOK
  <2> QED  BY <1>1, <1>2, <2>4, <2>5 DEF RunOK
<1>4. CASE ~clone.there
  <2>1. "error" \in BuildState /\ Becomes(i, "error")
    BY <1>4 DEF BuildState, Result, Copy
  <2> QED  BY <1>1, <1>2, <2>1, BecomesType DEF repoVars, traceVars
<1> QED  BY <1>3, <1>4

LEMMA PushKeeps ==
  ASSUME WInv, NEW i \in DOMAIN queue, Push(i), UNCHANGED <<renames, runs, imports>>
  PROVE  RepoOK' /\ RunOK' /\ TraceOK' /\ CountsOK'
<1>1. /\ UNCHANGED <<remote, clone, settings, phase, next, overlap, disturbed>>
      /\ tip < MaxDistro /\ tip' = tip + 1 /\ checkout' = tip + 1
      /\ own' = own \cup {<<queue[i].commit, tip + 1>>}
  BY DEF Push
<1>2. RepoOK /\ RunOK /\ TraceOK /\ CountsOK
  BY DEF WInv
<1>3. \/ Becomes(i, "pushed") /\ unknown' = unknown /\ trouble' = trouble
      \/ Becomes(i, "error") /\ unknown' = unknown \cup {tip + 1} /\ trouble' = trouble + 1
  BY DEF Push
<1>4. tip \in Nat /\ queue[i].commit \in Nat
  <2>1. queue[i] \in Entry
    BY <1>2 DEF RunOK
  <2> QED  BY <1>2, <2>1, CommitDBAssumption DEF RepoOK, Entry
<1>5. RepoOK'
  <2>1. tip' \in 1..MaxDistro /\ checkout' \in 1..tip'
    BY <1>1, <1>4, CommitDBAssumption
  <2> QED  BY <1>1, <1>2, <2>1 DEF RepoOK, HasDefault
<1>6. RunOK'
  <2>1. {"pushed", "error"} \subseteq BuildState
    BY DEF BuildState, Result
  <2> QED  BY <1>1, <1>2, <1>3, <2>1, BecomesType
<1>7. TraceOK'
  <2>1. own' \subseteq (Nat \X Nat)
    BY <1>1, <1>2, <1>4 DEF TraceOK
  <2>2. PushedByUs' = PushedByUs \cup {tip + 1}
    <3> DEFINE push == <<queue[i].commit, tip + 1>>
    <3>1. push[2] = tip + 1
      OBVIOUS
    <3> HIDE DEF push
    <3>2. own' = own \cup {push}
      BY <1>1 DEF push
    <3> QED  BY <3>1, <3>2 DEF PushedByUs
  <2> QED  BY <1>1, <1>2, <1>3, <2>1, <2>2 DEF TraceOK
<1>8. CountsOK'
  BY <1>2, <1>3 DEF CountsOK
<1> QED  BY <1>5, <1>6, <1>7, <1>8

LEMMA KojiBuildKeeps ==
  ASSUME WInv, NEW i \in DOMAIN queue, KojiBuild(i)
  PROVE  RunOK'
<1>1. UNCHANGED <<repoVars, phase, next, traceVars, trouble>>
  BY DEF KojiBuild
<1>2. RepoOK /\ RunOK
  BY DEF WInv
<1>3. PICK state \in BuildEnds :
         queue' = [queue EXCEPT ![i].state = state, ![i].distro = checkout]
  BY DEF KojiBuild
<1> DEFINE new == [queue[i] EXCEPT !.state = state, !.distro = checkout]
<1>4. queue' = [queue EXCEPT ![i] = new]
  <2>1. queue[i] \in Entry /\ queue \in Seq(Entry)
    BY <1>2 DEF RunOK
  <2> QED  BY <1>3, <2>1 DEF Entry
<1>5. queue[i] \in Entry /\ checkout \in 1..MaxDistro
  BY <1>2, CommitDBAssumption DEF RepoOK, RunOK
<1>6. new \in Entry
  BY <1>5 DEF Entry, BuildState, Result, BuildEnds
<1> HIDE DEF new
<1>7. /\ queue' \in Seq(Entry) /\ DOMAIN queue' = DOMAIN queue /\ queue'[i] = new
      /\ \A j \in DOMAIN queue \ {i} : queue'[j] = queue[j]
  BY <1>2, <1>4, <1>6, QueueType, ReplacedEntry
<1>8. phase = "build" /\ next \in DOMAIN queue
  BY <1>2 DEF RunOK
<1> QED  BY <1>1, <1>2, <1>7, <1>8 DEF RunOK

LEMMA WorkerStepKeeps == WInv /\ (\E i \in DOMAIN queue : WorkerStep(i)) => WInv'
<1> SUFFICES ASSUME WInv, NEW i \in DOMAIN queue, WorkerStep(i) PROVE WInv'
  OBVIOUS
<1>1. UNCHANGED <<orderVars, tableVars, mailVars, clock, renames, runs, imports>>
  BY DEF WorkerStep
<1>2. OrderInv' /\ RowsOK' /\ MailOK'
  BY <1>1, OrderFrame, RowsFrame, MailFrame DEF WInv
<1>3. CASE Begin(i)
  <2>1. CountsOK'
    BY <1>1, <1>3, CountsFrame DEF Begin, WInv, countVars
  <2> QED  BY <1>2, <1>3, <2>1, BeginKeeps DEF WInv
<1>4. ASSUME UNCHANGED <<repoVars, phase, next, traceVars, trouble>>
      PROVE  RepoOK' /\ TraceOK' /\ CountsOK'
  BY <1>1, <1>4, RepoFrame, TraceFrame, CountsFrame DEF WInv, countVars
<1>5. CASE Copy(i)
  BY <1>2, <1>4, <1>5, CopyKeeps DEF WInv, Copy
<1>6. CASE SourceFails(i) \/ PushFails(i)
  <2>1. PICK state \in {"known", "error"} : Becomes(i, state)
    BY <1>6 DEF SourceFails, PushFails
  <2>2. state \in BuildState
    BY DEF BuildState, Result
  <2>3. UNCHANGED <<repoVars, phase, next, traceVars, trouble>>
    BY <1>6 DEF SourceFails, PushFails
  <2>4. RunOK'
    BY <2>1, <2>2, <2>3, BecomesType DEF WInv, repoVars, traceVars
  <2> QED  BY <1>2, <1>4, <2>3, <2>4 DEF WInv
<1>7. CASE Push(i)
  BY <1>1, <1>2, <1>7, PushKeeps DEF WInv
<1>8. CASE KojiBuild(i)
  BY <1>2, <1>4, <1>8, KojiBuildKeeps DEF WInv, KojiBuild
<1> QED  BY <1>3, <1>5, <1>6, <1>7, <1>8 DEF WorkerStep

-----------------------------------------------------------------------------
(* Results                                                                 *)

LEMMA TakeResultKeeps == WInv /\ TakeResult => WInv'
<1> SUFFICES ASSUME WInv, TakeResult PROVE WInv'
  OBVIOUS
<1>1. UNCHANGED <<orderVars, repoVars, mailVars, clock, own, overlap, disturbed, countVars>>
  BY DEF TakeResult
<1>2. RowsOK /\ RunOK /\ TraceOK /\ phase = "build" /\ next \in DOMAIN queue
  BY DEF WInv, TakeResult, RunOK
<1>3. queue[next] \in Entry /\ clone' = clone /\ disturbed' = disturbed
  BY <1>1, <1>2, QueueType DEF repoVars
<1>4. RowsOK' /\ RunOK' /\ TraceOK'
  <2>1. CASE /\ AddRow(queue[next], "SUCCESS") \/ AddRow(queue[next], "RETRY")
             /\ NextResult /\ UNCHANGED unknown
    <3>1. RowsOK'
      BY <1>2, <1>3, <2>1, AddRowKeeps DEF Status
    <3>2. RunOK'
      BY <1>2, <1>3, <2>1, NextResultKeeps
    <3> QED  BY <1>1, <1>2, <2>1, <3>1, <3>2, UnrecordedFrame
  <2>2. CASE EndRun /\ unknown' = unknown \cup Unrecorded /\ UNCHANGED tableVars
    BY <1>1, <1>2, <1>3, <2>2, RowsFrame, EndRunKeeps, UnrecordedFrame
  <2> QED  BY <2>1, <2>2 DEF TakeResult
<1> QED  BY <1>1, <1>4, OrderFrame, RepoFrame, MailFrame, CountsFrame DEF WInv

LEMMA TakeFailureKeeps == WInv /\ TakeFailure => WInv'
<1> SUFFICES ASSUME WInv, TakeFailure PROVE WInv'
  OBVIOUS
<1>1. UNCHANGED <<orderVars, repoVars, tableVars, runVars, email, mailed, excused, clock, traceVars,
                  countVars>>
      /\ report = None /\ report' = NewReport(queue[next], FALSE)
  BY DEF TakeFailure
<1>2. queue[next] \in Entry
  BY QueueType DEF TakeFailure, WInv, RunOK
<1>3. NewReport(queue[next], FALSE) \in Report /\ NewReport(queue[next], FALSE).sent = 0
  BY <1>2 DEF NewReport, Report
<1>4. MailOK'
  BY <1>1, <1>3 DEF WInv, MailOK
<1> QED  BY <1>1, <1>4, OrderFrame, RepoFrame, RowsFrame, RunFrame, TraceFrame, CountsFrame
         DEF WInv, repoVars, runVars, traceVars

LEMMA ImportKeeps == WInv /\ Import => WInv'
<1> SUFFICES ASSUME WInv, Import PROVE WInv'
  OBVIOUS
<1>1. /\ UNCHANGED <<orderVars, remote, tip, settings, tableVars, runVars, email, mailed, excused, clock,
                     own, unknown, renames, runs>>
      /\ overlap' = (overlap \/ phase = "build")
      /\ imports' = imports + 1 /\ checkout' = tip /\ report = None
      /\ disturbed' = (disturbed \/ Active # {})
  BY DEF Import
<1>2. PICK case \in {"fine", "unreachable"} : Troubled(case) /\ clone' = Refreshed(case).clone
  BY DEF Import
<1> DEFINE c == Elsewhere.clone.at
           entry == [NewEntry(c, Elsewhere.branch, tip) EXCEPT !.source = c, !.state = "error"]
<1>3. report' = NewReport(entry, TRUE) /\ Elsewhere.branch # None
  BY DEF Import
<1>4. entry \in Entry
  <2>1. c \in CommitNumber /\ Elsewhere.branch \in Branch /\ tip \in 1..MaxDistro
    BY <1>3, ElsewhereIs DEF WInv, RepoOK
  <2>2. c \in 0..MaxCommit
    BY <2>1, CommitDBAssumption DEF CommitNumber
  <2>3. NewEntry(c, Elsewhere.branch, tip) \in Entry
    <3> HIDE DEF c
    <3> QED  BY <2>1, CommitDBAssumption DEF NewEntry, Entry, BuildState, CommitNumber
  <2>4. \A e \in Entry : [e EXCEPT !.source = c, !.state = "error"] \in Entry
    <3> HIDE DEF c
    <3> QED  BY <2>2 DEF Entry, BuildState, Result
  <2> QED  BY <2>3, <2>4
<1>5. RepoOK'
  <2>1. clone' \in CloneType /\ (clone'.local["main"] # {} => remote["main"] # {})
    BY <1>2, RefreshedIs DEF WInv
  <2>2. checkout' \in 1..tip
    BY <1>1, CommitDBAssumption DEF WInv, RepoOK
  <2> QED  BY <1>1, <2>1, <2>2 DEF WInv, RepoOK, HasDefault
<1>6. MailOK'
  <2> HIDE DEF entry
  <2>1. NewReport(entry, TRUE) \in Report /\ NewReport(entry, TRUE).sent = 0
    BY <1>4 DEF NewReport, Report
  <2> QED  BY <1>1, <1>3, <2>1 DEF WInv, MailOK
<1>7. TraceOK' /\ CountsOK'
  <2>1. disturbed' \in BOOLEAN /\ overlap' \in BOOLEAN
    BY <1>1 DEF WInv, TraceOK
  <2>2. trouble' = trouble \/ trouble' = trouble + 1
    BY <1>2 DEF Troubled
  <2>3. TraceOK'
    BY <1>1, <2>1 DEF WInv, TraceOK, PushedByUs
  <2>4. CountsOK'
    BY <1>1, <2>2 DEF WInv, CountsOK
  <2> QED  BY <2>3, <2>4
<1> QED  BY <1>1, <1>5, <1>6, <1>7, OrderFrame, RowsFrame, RunFrame DEF WInv

(* The mail of a report that waits for it.                                 *)
LEMMA NotifyKeeps == WInv /\ Notify => WInv'
<1> SUFFICES ASSUME WInv, Notify PROVE WInv'
  OBVIOUS
<1>1. /\ UNCHANGED <<orderVars, repoVars, tableVars, email, excused, clock, own, overlap, disturbed,
                     renames, runs, imports>>
      /\ report # None /\ report.pc = "notify"
  BY DEF Notify
<1>2. /\ report \in Report /\ report.sent = 0 /\ clock \in Nat \ {0} /\ MailOK
      /\ ~excused => mailed = email
  BY <1>1 DEF WInv, MailOK
<1>3. /\ [report EXCEPT !.pc = "record"] \in Report
      /\ [report EXCEPT !.pc = "record"].sent = 0
      /\ [report EXCEPT !.pc = "record"].pc = "record"
      /\ [report EXCEPT !.pc = "record", !.sent = clock] \in Report
      /\ [report EXCEPT !.pc = "record", !.sent = clock].sent = clock
      /\ [report EXCEPT !.pc = "record", !.sent = clock].pc = "record"
  BY <1>2 DEF Report
<1>5. CASE report' = [report EXCEPT !.pc = "record"] /\ UNCHANGED <<mailed, trouble, runVars, unknown>>
  <2>1. MailOK'
    BY <1>1, <1>2, <1>3, <1>5 DEF MailOK
  <2> QED  BY <1>1, <1>5, <2>1, OrderFrame, RepoFrame, RowsFrame, RunFrame, TraceFrame,
              CountsFrame DEF WInv, repoVars, runVars, traceVars, countVars
<1>6. CASE /\ report' = [report EXCEPT !.pc = "record", !.sent = clock] /\ mailed' = clock
           /\ UNCHANGED <<trouble, runVars, unknown>>
  <2>1. MailOK'
    <3>1. report' \in Report /\ report'.sent = clock /\ report'.pc = "record" /\ report' # None
      BY <1>3, <1>6, NoReportAssumption
    <3> QED  BY <1>1, <1>2, <1>6, <3>1 DEF MailOK
  <2> QED  BY <1>1, <1>6, <2>1, OrderFrame, RepoFrame, RowsFrame, RunFrame, TraceFrame,
              CountsFrame DEF WInv, repoVars, runVars, traceVars, countVars
<1>7. CASE /\ trouble' = trouble + 1 /\ report' = None /\ UNCHANGED mailed
           /\ IF report.import THEN UNCHANGED <<runVars, unknown>>
              ELSE EndRun /\ unknown' = unknown \cup Unrecorded
  <2>1. MailOK'
    BY <1>1, <1>2, <1>7 DEF MailOK
  <2>2. RunOK' /\ TraceOK'
    <3>1. CASE report.import
      BY <1>1, <1>7, <3>1, RunFrame, TraceFrame DEF WInv, runVars, traceVars, repoVars
    <3>2. CASE ~report.import
      BY <1>1, <1>7, <3>2, EndRunKeeps, UnrecordedFrame DEF WInv
    <3> QED  BY <3>1, <3>2
  <2>3. CountsOK'
    BY <1>1, <1>7 DEF WInv, CountsOK
  <2> QED  BY <1>1, <2>1, <2>2, <2>3, OrderFrame, RepoFrame, RowsFrame DEF WInv
<1> QED  BY <1>5, <1>6, <1>7 DEF Notify

LEMMA RecordKeeps == WInv /\ Record => WInv'
<1> SUFFICES ASSUME WInv, Record PROVE WInv'
  OBVIOUS
<1>1. /\ UNCHANGED <<orderVars, repoVars, mailed, clock, own, overlap, disturbed, countVars>>
      /\ report # None /\ report' = None
  BY DEF Record
<1>2. report \in Report /\ MailOK /\ report.entry \in Entry /\ report.sent \in Nat
  BY <1>1 DEF WInv, MailOK, Report
<1>3. clone' = clone
  BY <1>1 DEF repoVars
<1>4. CASE /\ EndRun /\ excused' = (excused \/ report.sent # 0)
           /\ unknown' = unknown \cup Unrecorded /\ UNCHANGED <<tableVars, email>>
  <2>1. excused' \in BOOLEAN
    BY <1>2, <1>4 DEF MailOK
  <2>2. MailOK'
    BY <1>1, <1>2, <1>4, <2>1 DEF MailOK
  <2> QED  BY <1>1, <1>4, <2>2, OrderFrame, RepoFrame, RowsFrame, EndRunKeeps, UnrecordedFrame,
              CountsFrame DEF WInv
<1>5. CASE /\ AddRow(report.entry, "FAILED")
           /\ email' = IF report.sent # 0 THEN report.sent ELSE email
           /\ IF report.import THEN UNCHANGED runVars ELSE NextResult
           /\ UNCHANGED <<excused, unknown>>
  <2>1. MailOK'
    BY <1>1, <1>2, <1>5 DEF MailOK
  <2>2. RowsOK'
    BY <1>2, <1>5, AddRowKeeps DEF WInv, Status
  <2>3. RunOK'
    <3>1. CASE report.import
      BY <1>1, <1>3, <1>5, <3>1, RunFrame DEF WInv, runVars
    <3>2. CASE ~report.import
      BY <1>1, <1>3, <1>5, <3>2, NextResultKeeps DEF WInv
    <3> QED  BY <3>1, <3>2
  <2> QED  BY <1>1, <1>5, <2>1, <2>2, <2>3, OrderFrame, RepoFrame, UnrecordedFrame, CountsFrame DEF WInv
<1> QED  BY <1>4, <1>5 DEF Record

LEMMA KillKeeps == WInv /\ Kill => WInv'
<1> SUFFICES ASSUME WInv, Kill PROVE WInv'
  OBVIOUS
<1>1. /\ UNCHANGED <<orderVars, repoVars, tableVars, email, mailed, clock, own, overlap, disturbed,
                     renames, runs, imports>>
      /\ trouble' = trouble + 1
      /\ excused' = (excused \/ (report' # report /\ report.sent # 0))
      /\ unknown' = unknown \cup Unrecorded
  BY DEF Kill
<1>2. report' = report \/ report' = None
  BY DEF Kill
<1>3. MailOK'
  <2>1. MailOK /\ excused' \in BOOLEAN
    BY <1>1 DEF WInv, MailOK
  <2> QED  BY <1>1, <1>2, <2>1 DEF MailOK
<1>4. RunOK'
  <2>1. UNCHANGED runVars \/ EndRun
    BY DEF Kill
  <2> QED  BY <1>1, <2>1, RunFrame, EndRunKeeps DEF WInv, runVars, repoVars
<1>5. CountsOK'
  BY <1>1 DEF WInv, CountsOK
<1> QED  BY <1>1, <1>3, <1>4, <1>5, OrderFrame, RepoFrame, RowsFrame, UnrecordedFrame DEF WInv

LEMMA StutterKeeps == WInv /\ UNCHANGED vars => WInv'
BY OrderFrame, RepoFrame, RowsFrame, RunFrame, MailFrame, TraceFrame, CountsFrame
   DEF WInv, vars, repoVars, runVars, traceVars

-----------------------------------------------------------------------------
(* The theorems                                                            *)

(* The inductive invariant: WInv holds at first and every step keeps it.   *)
THEOREM Invariance == Spec => []WInv
<1>1. Init => WInv
  BY InitKeeps
<1>2. WInv /\ [Next]_vars => WInv'
  BY PushSourceKeeps, RenameBranchKeeps, PushDistgitKeeps, TickKeeps, OrderingKeeps, OrderedKeeps,
     ScanKeeps, WorkerStepKeeps, TakeResultKeeps, TakeFailureKeeps, ImportKeeps, NotifyKeeps,
     RecordKeeps, KillKeeps, StutterKeeps DEF Next
<1> QED  BY <1>1, <1>2, PTL DEF Spec

(* Every variable has its type: rows, queue, reports and the clone are what*)
(* the code makes of them, whatever upstream, the workers and the imports  *)
(* do meanwhile.                                                           *)
THEOREM TypeCorrect == Spec => []TypeOK
BY Invariance, InvTypes, PTL

(* dlrn --order builds what a project requires before the project, unless  *)
(* the project is on a cycle, for every graph of requirements.             *)
THEOREM OrderCorrect == Spec => []RequirementsFirst
<1>1. WInv => RequirementsFirst
  BY DEF WInv, OrderInv
<1> QED  BY <1>1, Invariance, PTL

(* sendnotifymail: two e-mails about a project are more than 24 hours apart*)
(* unless a process died, or was told to --stop, with one not recorded.    *)
THEOREM MailsCorrect == Spec => MailsApart
<1> DEFINE apart == report # None /\ report' # None /\ report'.sent # report.sent =>
                       excused \/ mailed = 0 \/ report'.sent - mailed > Day
<1>1. WInv /\ [Next]_vars => [apart]_<<report, mailed, excused>>
  <2> SUFFICES ASSUME WInv, Next, report # None, report' # None, report'.sent # report.sent
               PROVE  excused \/ mailed = 0 \/ report'.sent - mailed > Day
    BY DEF vars, mailVars
  <2>1. report' # report /\ report' # None
    OBVIOUS
  <2>2. Notify
    BY <2>1 DEF Next, PushSource, RenameBranch, PushDistgit, Tick, Ordering, Ordered, Scan, WorkerStep,
                TakeResult, TakeFailure, Import, Record, Kill, mailVars
  <2>3. /\ report \in Report /\ report.pc = "notify" /\ report.sent = 0
        /\ ~excused => mailed = email
    BY <2>2 DEF WInv, MailOK, Notify
  <2>4. ~Suppressed /\ report' = [report EXCEPT !.pc = "record", !.sent = clock]
    <3>1. [report EXCEPT !.pc = "record"].sent = report.sent
      BY <2>3 DEF Report
    <3> QED  BY <2>1, <2>2, <3>1 DEF Notify
  <2>5. report'.sent = clock
    BY <2>3, <2>4 DEF Report
  <2> QED  BY <2>3, <2>4, <2>5, WorkerAssumption DEF Suppressed, WInv, MailOK
<1> QED  BY <1>1, Invariance, PTL DEF Spec, MailsApart

(* What a run builds is what upstream has now on the branch asked for, else*)
(* on one the options allow: nothing an earlier run, an import or a worker *)
(* left in the clone shows.                                                *)
THEOREM RefreshCorrect == Spec => RefreshIsUpstream
<1> DEFINE upstream ==
      runs' # runs /\ scanned' # None =>
         /\ remote[scanned'] # {} =>
                /\ clone'.at = Tip(remote[scanned'])
                /\ \A i \in DOMAIN queue' : queue'[i].commit \in remote[scanned']
         /\ remote[scanned'] = {} => scanned' \in {"master", "rpm-master"}
         /\ scanned' # "wanted" => remote["wanted"] = {} /\ ~settings.nonfallback
         /\ scanned' \in {"master", "main"} =>
                settings.fallback /\ remote["unmaintained"] = {} /\ remote["eol"] = {}
<1>1. WInv /\ [Next]_vars => [upstream]_<<runs, scanned, clone, queue, remote>>
  <2> SUFFICES ASSUME WInv, Next, runs' # runs, scanned' # None PROVE upstream
    BY DEF vars, countVars
  <2>1. Scan
    BY DEF Next, PushSource, RenameBranch, PushDistgit, Tick, Ordering, Ordered, WorkerStep, TakeResult,
           TakeFailure, Import, Notify, Record, Kill, countVars
  <2>2. PICK case \in {"fine", "damaged", "unreachable"} :
           LET new == Refreshed(case) IN
           /\ clone' = new.clone /\ scanned' = new.branch
           /\ new.branch # None => Found(new) \subseteq HistoryOf(new)
           /\ \A i \in DOMAIN queue' : queue'[i].commit \in Found(new)
    BY <2>1, ScanIs DEF WInv
  <2> QED  BY <2>2, RefreshedIs DEF WInv
<1> QED  BY <1>1, Invariance, PTL DEF Spec, RefreshIsUpstream
=============================================================================

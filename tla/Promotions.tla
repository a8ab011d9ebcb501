----------------------------- MODULE Promotions -----------------------------
(***************************************************************************)
(* promote and promote_batch of the API: requests of several clients that  *)
(* move named symbolic links to repositories, aggregate the repository     *)
(* files of all components and record what was promoted.  Nothing locks    *)
(* the links or the files; every change another request can see is a step. *)
(***************************************************************************)
EXTENDS CommitDB, Threads

CONSTANTS
    Name,           \* promotion names ("current" and "consistent" are refused)
    Component,
    ComponentOf,    \* the component of each project
    UseComponents,  \* the option use_components
    AggFile,        \* the aggregated files, in the order they are linked
    MaxBatch,       \* bound: commits in a request
    LinkMayFail,    \* TRUE: os.symlink and os.remove of a link may fail (permissions,
                    \* disk full)
    ForeignKeys,    \* TRUE: the database enforces them, which SQLite does not
    MaxKill         \* bound: requests whose server process is killed

ASSUME PromotionsAssumption ==
    /\ None \notin Rev
    /\ None \notin [Component -> Rev \cup {None}]
    /\ ComponentOf \in [Package -> Component]
    /\ UseComponents \in BOOLEAN
    /\ AggFile \in Seq(STRING) \ {<<>>}
    /\ MaxBatch \in Nat
    /\ LinkMayFail \in BOOLEAN
    /\ ForeignKeys \in BOOLEAN
    /\ MaxKill \in Nat

VARIABLES
    db,       \* the commits table
    purged,   \* ids of the rows with FLAG_PURGED
    dirs,     \* the revisions whose directory repos/<rev> exists
    plinks,   \* repos/component/<component>/<name>: the revision it leads to
    promos,   \* the promotions table
    hashdirs, \* repos/<name>/xx/yy/<hash>, by their content
    files,    \* repos/<name>/<file>: the content its link leads to
    temps,    \* repos/<name>/<file>_
    call,     \* the promotion each thread works on
    kills

tableVars == <<db, purged, dirs>>
aggVars == <<hashdirs, files, temps>>
promotionVars == <<plinks, promos, aggVars, call, kills>>

Item == [rev : Rev, name : Name]
Link == [comp : Component, name : Name]

\* An aggregated file is the files of the components, one after the other.
Content == [Component -> Rev \cup {None}]

Promotion == [id : Nat, name : Name, agg : Content \cup {None}]

CallPC == {"idle", "check", "look", "unlink", "link", "rollback",
           "aggregate", "symlink", "rename", "insert"}

Undo == [link : Link, prev : Rev \cup {None}]

Call == [pc : CallPC,
         batch : BOOLEAN,
         items : Seq(Item),              \* promote_batch
         i : Nat,                        \* the item in work
         id : Nat,                       \* commit.id of that item
         undo : Seq(Undo),               \* rollback_list
         rows : Seq(Promotion),          \* added to the session
         content : Content \cup {None},  \* of the aggregated files
         file : Nat,                     \* the aggregated file in work
         alone : BOOLEAN,                \* history: nobody else is at work; of such a one
         before : [Link -> Rev \cup {None}],  \* the links it found, and
         missed : SUBSET Link]           \* those the roll back could not restore

NoLinks == [l \in Link |-> None]

NoCall == [pc |-> "idle", batch |-> FALSE, items |-> <<>>, i |-> 1, id |-> 0,
           undo |-> <<>>, rows |-> <<>>, content |-> None, file |-> 1,
           before |-> NoLinks, missed |-> {}, alone |-> TRUE]

InitPromotions ==
    /\ plinks = NoLinks
    /\ promos = <<>>
    /\ hashdirs = [n \in Name |-> {}]
    /\ files = [n \in Name |-> [f \in DOMAIN AggFile |-> None]]
    /\ temps = [n \in Name |-> [f \in DOMAIN AggFile |-> None]]
    /\ call = [p \in Client |-> NoCall]
    /\ kills = 0

-----------------------------------------------------------------------------
\* _get_commit: the newest successful build with these hashes.
FindCommit(r) == Latest({i \in Live(db) : db[i].rev = r /\ db[i].status = "SUCCESS"})

LinkOf(item) == [comp |-> ComponentOf[item.rev.pkg], name |-> item.name]

CallAt(p, l) == call[p].pc = l

ItemOf(p) == call[p].items[call[p].i]

\* The name whose files are aggregated: that of the last item.
NameOf(p) == call[p].items[Len(call[p].items)].name

InProgress == {p \in Client : ~CallAt(p, "idle")}

\* The response, whatever it is.
EndCall(p) == call' = [call EXCEPT ![p] = NoCall]

\* What the links were is not kept of a request that others interfere with.
Joined(c) == [c EXCEPT !.alone = FALSE, !.before = NoLinks, !.missed = {}]

StartPromotion(p, items, batch) ==
    LET new == [NoCall EXCEPT !.pc = "check", !.batch = batch, !.items = items, !.before = plinks]
    IN
    /\ CallAt(p, "idle")
    /\ Len(items) \in 1..MaxBatch
    /\ ~batch => Len(items) = 1
    /\ call' = [q \in Client |->
         IF q = p THEN IF InProgress = {} THEN new ELSE Joined(new)
         ELSE IF q \in InProgress THEN Joined(call[q]) ELSE call[q]]
    /\ UNCHANGED <<tableVars, plinks, promos, aggVars, kills>>

Acceptable_AlsoPurged(items) ==
    \A k \in DOMAIN items : FindCommit(items[k].rev) # {}

\* Every commit is there and has not been purged.
Acceptable(items) ==
    \A k \in DOMAIN items :
        /\ FindCommit(items[k].rev) # {}
        /\ FindCommit(items[k].rev) \cap purged = {}

Check(p) ==
    /\ CallAt(p, "check")
    /\ IF Acceptable(call[p].items)
       THEN \E i \in FindCommit(ItemOf(p).rev) :
                call' = [call EXCEPT ![p].pc = "look", ![p].id = i]
       ELSE EndCall(p)
    /\ UNCHANGED <<tableVars, plinks, promos, aggVars, kills>>

\* os.path.lexists.  A batch asks for the commit once more, and fails on a row
\* that is gone by now, without a roll back; what it is about to change goes to
\* the rollback_list.
Look(p) ==
    LET l == LinkOf(ItemOf(p))
        c == call[p]
        found == FindCommit(ItemOf(p).rev)
        next == IF plinks[l] = None THEN "link" ELSE "unlink"
    IN
    /\ CallAt(p, "look")
    /\ IF ~c.batch THEN call' = [call EXCEPT ![p].pc = next]
       ELSE IF found = {} THEN EndCall(p)
       ELSE \E i \in found :
              call' = [call EXCEPT ![p] =
                 [c EXCEPT !.pc = next, !.id = i,
                           !.undo = Append(c.undo, [link |-> l, prev |-> plinks[l]])]]
    /\ UNCHANGED <<tableVars, plinks, promos, aggVars, kills>>

\* os.remove of the old link.  When it fails, or another request was faster,
\* the exception ends this one, also without a roll back.
Unlink(p) ==
    LET l == LinkOf(ItemOf(p)) IN
    /\ CallAt(p, "unlink")
    /\ \/ /\ LinkMayFail \/ plinks[l] = None
          /\ EndCall(p) /\ UNCHANGED plinks
       \/ /\ plinks[l] # None
          /\ plinks' = [plinks EXCEPT ![l] = None]
          /\ call' = [call EXCEPT ![p].pc = "link"]
    /\ UNCHANGED <<tableVars, promos, aggVars, kills>>

\* os.symlink
MakeLink(p) ==
    LET l == LinkOf(ItemOf(p))
        c == call[p]
    IN
    /\ CallAt(p, "link")
    /\ plinks[l] = None
    /\ plinks' = [plinks EXCEPT ![l] = ItemOf(p).rev]
    /\ call' = [call EXCEPT ![p] =
         [c EXCEPT !.pc = IF c.i < Len(c.items) THEN "look"
                          ELSE IF UseComponents THEN "aggregate" ELSE "insert",
                   !.i = IF c.i < Len(c.items) THEN c.i + 1 ELSE c.i,
                   !.rows = Append(c.rows, [id |-> c.id, name |-> l.name, agg |-> None])]]
    /\ UNCHANGED <<tableVars, promos, aggVars, kills>>

LinkFails_Swallowed(p) ==
    LET l == LinkOf(ItemOf(p)) IN
    /\ CallAt(p, "link")
    /\ LinkMayFail \/ plinks[l] # None
    /\ IF call[p].batch THEN call' = [call EXCEPT ![p].pc = "rollback"]
       ELSE call' = [call EXCEPT ![p].pc = "insert",
                        ![p].rows = <<[id |-> call[p].id, name |-> l.name, agg |-> None]>>]
    /\ UNCHANGED <<tableVars, plinks, promos, aggVars, kills>>

\* It fails, also when another request has made the link: 500, and a batch
\* rolls back.
LinkFails(p) ==
    /\ CallAt(p, "link")
    /\ LinkMayFail \/ plinks[LinkOf(ItemOf(p))] # None
    /\ IF call[p].batch THEN call' = [call EXCEPT ![p].pc = "rollback"] ELSE EndCall(p)
    /\ UNCHANGED <<tableVars, plinks, promos, aggVars, kills>>

\* What os.remove and os.symlink make of a link in the rollback_list, each of
\* them ignored when it fails: the link as it was before; none, when only
\* os.symlink fails; the one that is there, when os.remove does (os.symlink
\* finds it in place then).
AfterUndo(entry) == {entry.prev} \cup IF LinkMayFail THEN {None, plinks[entry.link]} ELSE {}

RollBack_Forward(p) ==
    LET undo == call[p].undo IN
    /\ CallAt(p, "rollback")
    /\ IF undo = <<>> THEN EndCall(p) /\ UNCHANGED plinks
       ELSE \E r \in AfterUndo(Head(undo)) :
              LET l == Head(undo).link IN
              /\ plinks' = [plinks EXCEPT ![l] = r]
              /\ call' = [call EXCEPT
                   ![p].undo = Tail(undo),
                   ![p].missed = IF r = Head(undo).prev THEN @ \ {l} ELSE @ \cup {l}]
    /\ UNCHANGED <<tableVars, promos, aggVars, kills>>

\* _rollback_batch_promotion, an entry of the list at a time, the last one
\* first, whatever fails; then the response.
RollBack(p) ==
    LET c == call[p]
        last == c.undo[Len(c.undo)]
        l == last.link
    IN
    /\ CallAt(p, "rollback")
    /\ IF c.undo = <<>> THEN EndCall(p) /\ UNCHANGED plinks
       ELSE \E r \in AfterUndo(last) :
              /\ plinks' = [plinks EXCEPT ![l] = r]
              /\ call' = [call EXCEPT ![p] =
                   [c EXCEPT !.undo = SubSeq(c.undo, 1, Len(c.undo) - 1),
                             !.missed = IF r = last.prev THEN c.missed \ {l}
                                        ELSE c.missed \cup {l}]]
    /\ UNCHANGED <<tableVars, promos, aggVars, kills>>

-----------------------------------------------------------------------------
(* aggregate_repo_files(promote_name, ..., hashed_dir=True)                *)

\* The components with a row in the table.
Built == {ComponentOf[db[i].rev.pkg] : i \in Live(db)}

\* What the link of each component leads to, if that is there.
Aggregated(name) ==
    [c \in Component |->
        LET r == plinks[[comp |-> c, name |-> name]] IN
        IF c \in Built /\ r # None /\ r \in dirs THEN r ELSE None]

\* The files are written to a directory named after their hash.
Aggregate(p) ==
    LET n == NameOf(p) IN
    /\ CallAt(p, "aggregate")
    /\ hashdirs' = [hashdirs EXCEPT ![n] = @ \cup {Aggregated(n)}]
    /\ call' = [call EXCEPT ![p].pc = "symlink", ![p].content = Aggregated(n)]
    /\ UNCHANGED <<tableVars, plinks, promos, files, temps, kills>>

\* os.symlink of the temporary name: FileExistsError when another request, or
\* one that died, has it.
AggSymlink(p) ==
    LET n == NameOf(p)
        f == call[p].file
    IN
    /\ CallAt(p, "symlink")
    /\ IF temps[n][f] # None THEN EndCall(p) /\ UNCHANGED temps
       ELSE /\ temps' = [temps EXCEPT ![n][f] = call[p].content]
            /\ call' = [call EXCEPT ![p].pc = "rename"]
    /\ UNCHANGED <<tableVars, plinks, promos, hashdirs, files, kills>>

AggRename_Copy(p) ==
    LET n == NameOf(p)
        c == call[p]
        f == c.file
        done == f = Len(AggFile)
    IN
    /\ CallAt(p, "rename")
    /\ files' = [files EXCEPT ![n][f] = temps[n][f]]
    /\ call' = [call EXCEPT ![p] =
         [c EXCEPT !.pc = IF done THEN "insert" ELSE "symlink",
                   !.file = IF done THEN f ELSE f + 1,
                   !.rows[Len(c.rows)].agg = c.content]]
    /\ UNCHANGED <<tableVars, plinks, promos, hashdirs, temps, kills>>

\* os.rename onto the real name.  The hash goes to the last row.
AggRename(p) ==
    LET n == NameOf(p)
        c == call[p]
        f == c.file
        done == f = Len(AggFile)
    IN
    /\ CallAt(p, "rename")
    /\ files' = [files EXCEPT ![n][f] = temps[n][f]]
    /\ temps' = [temps EXCEPT ![n][f] = None]
    /\ call' = [call EXCEPT ![p] =
         [c EXCEPT !.pc = IF done THEN "insert" ELSE "symlink",
                   !.file = IF done THEN f ELSE f + 1,
                   !.rows[Len(c.rows)].agg = c.content]]
    /\ UNCHANGED <<tableVars, plinks, promos, hashdirs, kills>>

\* session.commit.  A database with foreign keys refuses rows for a commit a
\* forced recheck has deleted, or of a user who is not (any more) known.
Insert(p, known) ==
    LET rows == call[p].rows IN
    /\ CallAt(p, "insert")
    /\ IF ~known \/ (ForeignKeys /\ \E k \in DOMAIN rows : db[rows[k].id].gone)
       THEN UNCHANGED promos
       ELSE promos' = promos \o rows
    /\ EndCall(p)
    /\ UNCHANGED <<tableVars, plinks, aggVars, kills>>

PromotionStep(p, known) ==
    \/ Check(p) \/ Look(p) \/ Unlink(p) \/ MakeLink(p) \/ LinkFails(p) \/ RollBack(p)
    \/ Aggregate(p) \/ AggSymlink(p) \/ AggRename(p) \/ Insert(p, known)

\* The server process dies, and what it added to the session with it.
KillPromotion(p) ==
    /\ kills < MaxKill
    /\ kills' = kills + 1
    /\ ~CallAt(p, "idle")
    /\ EndCall(p)
    /\ UNCHANGED <<tableVars, plinks, promos, aggVars>>

-----------------------------------------------------------------------------
PromotionsTypeOK ==
    /\ db \in Seq(Row)
    /\ purged \subseteq DOMAIN db
    /\ dirs \subseteq Rev
    /\ plinks \in [Link -> Rev \cup {None}]
    /\ promos \in Seq(Promotion)
    /\ hashdirs \in [Name -> SUBSET Content]
    /\ files \in [Name -> [DOMAIN AggFile -> Content \cup {None}]]
    /\ temps \in [Name -> [DOMAIN AggFile -> Content \cup {None}]]
    /\ call \in [Client -> Call]
    /\ kills \in Nat

\* A request that rolls back leaves the links as it found them, except those it
\* could not restore ("we will try our best, but there is never a 100% guarantee",
\* dlrn_api.py:145), whatever fails for the others and also when a link occurs
\* twice in the batch; provided no other promotion was in progress (api.rst:529).
RollBackRestores ==
    [][\A p \in Client :
          CallAt(p, "rollback") /\ call'[p].pc = "idle" /\ kills' = kills /\ call[p].alone =>
              \A l \in Link \ call[p].missed : plinks'[l] = call[p].before[l]]_<<plinks, call, kills>>

\* As long as no request was killed, a temporary name belongs to the request
\* that is about to rename it, also when several are in progress.
AggTempInUse ==
    kills = 0 => \A n \in Name, f \in DOMAIN AggFile : temps[n][f] # None =>
        \E p \in Client : /\ CallAt(p, "rename") /\ NameOf(p) = n /\ call[p].file = f
                          /\ call[p].content = temps[n][f]
=============================================================================

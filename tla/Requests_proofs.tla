--------------------------- MODULE Requests_proofs ---------------------------
(***************************************************************************)
(* What the requests of the API leave behind, for any number of threads,   *)
(* projects, components, jobs and aggregated files: the temporary names of *)
(* aggregated files, the links a batch rolls back, the rows of promotions, *)
(* the votes.                                                              *)
(***************************************************************************)
EXTENDS Api_proofs

-----------------------------------------------------------------------------
(* The invariant                                                           *)

TableOK ==
    /\ db \in Seq(Row)
    /\ purged \subseteq DOMAIN db
    /\ dirs \subseteq Rev

FilesOK ==
    /\ plinks \in [Link -> Rev \cup {None}]
    /\ promos \in Seq(Promotion)
    /\ hashdirs \in [Name -> SUBSET Content]
    /\ files \in [Name -> [DOMAIN AggFile -> Content \cup {None}]]
    /\ temps \in [Name -> [DOMAIN AggFile -> Content \cup {None}]]
    /\ kills \in Nat

\* How far a promotion has come.
Progress(c) ==
    /\ c \in Call
    /\ c.pc # "idle" =>
          /\ c.i \in DOMAIN c.items
          /\ ~c.batch => Len(c.items) = 1
          /\ c.file \in DOMAIN AggFile
          /\ c.pc = "check" => c.i = 1 /\ c.rows = <<>>
          /\ c.pc \in {"look", "unlink", "link"} => Len(c.rows) = c.i - 1
          /\ c.pc \in {"unlink", "link"} /\ c.batch =>
                \E k \in DOMAIN c.undo : c.undo[k].link = LinkOf(c.items[c.i])
          /\ c.pc = "rollback" => c.batch
          /\ c.pc # "rollback" => c.missed = {}
          /\ c.pc \in {"aggregate", "symlink", "rename", "insert"} => Len(c.rows) = Len(c.items)
          /\ c.pc \in {"aggregate", "symlink", "rename"} => UseComponents
          /\ c.pc \in {"symlink", "rename", "insert"} /\ UseComponents => c.content \in Content
          /\ c.pc = "insert" /\ UseComponents => c.rows[Len(c.rows)].agg = c.content

\* The rows it will record are of the items.
RowsAreItems(c) ==
    /\ c.pc \in {"unlink", "link"} \/ (c.pc = "look" /\ ~c.batch) =>
          c.id \in DOMAIN db /\ db[c.id].rev = c.items[c.i].rev
    /\ c.pc # "idle" =>
          \A k \in DOMAIN c.rows :
             /\ k \in DOMAIN c.items
             /\ c.rows[k].id \in DOMAIN db /\ db[c.rows[k].id].rev = c.items[k].rev
             /\ c.rows[k].name = c.items[k].name

\* Going through the rollback_list from its end leads back to what the request
\* found: of each link that is still to be undone, the first entry says it; any
\* other is as it was, or could not be restored.
CanUndo(c) ==
    \A l \in Link :
       \/ (plinks[l] = c.before[l] \/ l \in c.missed) /\ \A k \in DOMAIN c.undo : c.undo[k].link # l
       \/ \E k \in DOMAIN c.undo :
             /\ c.undo[k].link = l /\ c.undo[k].prev = c.before[l]
             /\ \A m \in 1..(k - 1) : c.undo[m].link # l

\* The link of each item leads to the last one that has it, but while it is
\* about to be made again.
Linked(c) ==
    \A k \in DOMAIN c.rows :
       \/ plinks[LinkOf(c.items[k])] = c.items[k].rev
       \/ \E m \in (k + 1)..Len(c.rows) : LinkOf(c.items[m]) = LinkOf(c.items[k])
       \/ c.pc = "link" /\ LinkOf(c.items[c.i]) = LinkOf(c.items[k])

\* The aggregated files are made of the links.
AggregatedLinks(c) ==
    \A comp \in Built :
       LET r == plinks[[comp |-> comp, name |-> c.items[Len(c.items)].name]] IN
       r # None /\ r \in dirs => c.content[comp] = r

\* All that holds of a request nobody else interferes with.
Undisturbed(c) ==
    c.alone =>
        /\ c.batch /\ c.pc \in {"check", "look", "unlink", "link", "rollback"} => CanUndo(c)
        /\ c.pc \notin {"idle", "rollback"} => Linked(c)
        /\ UseComponents /\ c.pc \in {"symlink", "rename", "insert"} => AggregatedLinks(c)

CallsOK ==
    \A p \in Client :
       /\ Progress(call[p]) /\ RowsAreItems(call[p]) /\ Undisturbed(call[p])
       /\ ~CallAt(p, "idle") => AuthAt(p, "granted")
       /\ ~CallAt(p, "idle") /\ call[p].alone => InProgress = {p}

\* A vote is of the row one finds for its revision, which stays.
Voted(row) == row \in DOMAIN db /\ db[row].vote /\ row \in FindCommit(db[row].rev)

VotesOK ==
    /\ votes \in Seq(CIVote)
    /\ aggvotes \in Seq(AggVote)
    /\ \A i \in DOMAIN votes : Voted(votes[i].row)

CountsOK == authors \subseteq User /\ calls \in Nat /\ admins \in Nat

RequestsInv ==
    /\ TableOK /\ FilesOK /\ call \in [Client -> Call]
    /\ CallsOK /\ VotesOK /\ CountsOK
    /\ PipelineOrder /\ AggTempInUse
-----------------------------------------------------------------------------
(* The table: rows are flagged, never moved                                *)

RowsKept ==
    /\ DOMAIN db' = DOMAIN db
    /\ \A i \in DOMAIN db :
          /\ db'[i].rev = db[i].rev /\ db'[i].status = db[i].status
          /\ db[i].gone => db'[i].gone
          /\ db[i].vote => db'[i].vote /\ db'[i].gone = db[i].gone

LEMMA RowType ==
  ASSUME TableOK, NEW i \in DOMAIN db
  PROVE  db[i] \in Row /\ db[i].rev \in Rev /\ i \in Nat
<1>1. db \in Seq(Row)
  BY DEF TableOK
<1>2. db[i] \in Row /\ i \in Nat
  BY <1>1
<1> QED  BY <1>2 DEF Row

LEMMA ReplacedRow ==
  ASSUME NEW table \in Seq(Row), NEW i \in DOMAIN table, NEW new \in Row
  PROVE  LET changed == [table EXCEPT ![i] = new] IN
         /\ changed \in Seq(Row) /\ DOMAIN changed = DOMAIN table /\ changed[i] = new
         /\ \A j \in DOMAIN table \ {i} : changed[j] = table[j]
OBVIOUS

LEMMA SameRows ==
  ASSUME TableOK, UNCHANGED tableVars
  PROVE  TableOK' /\ RowsKept
BY DEF TableOK, RowsKept, tableVars

(* A vote flags a row.                                                     *)
LEMMA VoteFlags ==
  ASSUME TableOK, NEW row \in DOMAIN db, db' = [db EXCEPT ![row].vote = TRUE],
         UNCHANGED <<purged, dirs>>
  PROVE  TableOK' /\ RowsKept /\ db'[row].vote
<1> DEFINE new == [db[row] EXCEPT !.vote = TRUE]
<1>1. db[row] \in Row /\ db \in Seq(Row)
  BY RowType DEF TableOK
<1>2. new \in Row /\ new.rev = db[row].rev /\ new.status = db[row].status /\ new.vote
      /\ new.gone = db[row].gone
  BY <1>1 DEF Row
<1>3. db' = [db EXCEPT ![row] = new]
  OBVIOUS
<1>4. db' \in Seq(Row) /\ DOMAIN db' = DOMAIN db /\ db'[row] = new
      /\ \A i \in DOMAIN db \ {row} : db'[i] = db[i]
  <2> HIDE DEF new
  <2> DEFINE changed == [db EXCEPT ![row] = new]
  <2>1. changed \in Seq(Row) /\ DOMAIN changed = DOMAIN db /\ changed[row] = new
        /\ \A i \in DOMAIN db \ {row} : changed[i] = db[i]
    BY <1>1, <1>2, ReplacedRow
  <2>2. db' = changed
    BY <1>3
  <2> HIDE DEF changed
  <2> QED  BY ONLY <2>1, <2>2
<1> HIDE DEF new
<1> QED  BY <1>2, <1>4 DEF TableOK, RowsKept

(* A forced recheck deletes a row no vote refers to.                       *)
LEMMA RecheckFlags ==
  ASSUME TableOK, NEW row \in DOMAIN db, ~db[row].vote, db' = [db EXCEPT ![row].gone = TRUE],
         UNCHANGED <<purged, dirs>>
  PROVE  TableOK' /\ RowsKept
<1> DEFINE new == [db[row] EXCEPT !.gone = TRUE]
<1>1. db[row] \in Row /\ db \in Seq(Row)
  BY RowType DEF TableOK
<1>2. new \in Row /\ new.rev = db[row].rev /\ new.status = db[row].status /\ new.gone
  BY <1>1 DEF Row
<1>3. db' = [db EXCEPT ![row] = new]
  OBVIOUS
<1>4. db' \in Seq(Row) /\ DOMAIN db' = DOMAIN db /\ db'[row] = new
      /\ \A i \in DOMAIN db \ {row} : db'[i] = db[i]
  <2> HIDE DEF new
  <2> DEFINE changed == [db EXCEPT ![row] = new]
  <2>1. changed \in Seq(Row) /\ DOMAIN changed = DOMAIN db /\ changed[row] = new
        /\ \A i \in DOMAIN db \ {row} : changed[i] = db[i]
    BY <1>1, <1>2, ReplacedRow
  <2>2. db' = changed
    BY <1>3
  <2> HIDE DEF changed
  <2> QED  BY ONLY <2>1, <2>2
<1> HIDE DEF new
<1> QED  BY <1>2, <1>4 DEF TableOK, RowsKept

(* The newest successful row of a revision stays that when it has a vote.  *)
LEMMA FoundStays ==
  ASSUME TableOK, TableOK', RowsKept, NEW row \in DOMAIN db, db[row].vote,
         row \in FindCommit(db[row].rev)
  PROVE  row \in FindCommit(db[row].rev)'
<1> DEFINE r == db[row].rev
           rows == {i \in Live(db) : db[i].rev = r /\ db[i].status = "SUCCESS"}
<1>1. row \in rows /\ \A j \in rows : j <= row
  BY DEF FindCommit, Latest
<1>2. Live(db)' \subseteq Live(db) /\ row \in Live(db)'
  BY <1>1 DEF Live, RowsKept
<1>3. rows' \subseteq rows /\ row \in rows'
  BY <1>1, <1>2 DEF RowsKept, Live
<1> QED  BY <1>1, <1>3 DEF FindCommit, Latest

LEMMA FindCommitIs ==
  ASSUME NEW r, NEW i \in FindCommit(r)
  PROVE  i \in DOMAIN db /\ db[i].rev = r /\ ~db[i].gone
BY DEF FindCommit, Latest, Live

LEMMA BuiltShrinks == RowsKept => Built' \subseteq Built
BY DEF RowsKept, Built, Live

LEMMA BuiltIsComponent == TableOK => Built \subseteq Component
BY RowType, PromotionsAssumption DEF Built, Live, Rev

-----------------------------------------------------------------------------
(* A request others leave alone                                            *)

LEMMA ItemType ==
  ASSUME NEW item \in Item
  PROVE  LinkOf(item) \in Link /\ LinkOf(item).name = item.name /\ item.rev \in Rev /\ item.name \in Name
         /\ LinkOf(item).comp = ComponentOf[item.rev.pkg] /\ ComponentOf[item.rev.pkg] \in Component
BY PromotionsAssumption DEF Item, LinkOf, Link, Rev

LEMMA RowsFrame ==
  ASSUME NEW p \in Client, RowsAreItems(call[p]), RowsKept,
         call'[p].pc = call[p].pc, call'[p].batch = call[p].batch, call'[p].items = call[p].items,
         call'[p].i = call[p].i, call'[p].id = call[p].id, call'[p].rows = call[p].rows
  PROVE  RowsAreItems(call[p])'
BY DEF RowsAreItems, RowsKept

(* How far a request is depends on these fields alone.                     *)
LEMMA ProgressAlike ==
  ASSUME NEW c, NEW d, Progress(c), d \in Call,
         d.pc = c.pc, d.batch = c.batch, d.items = c.items, d.i = c.i, d.rows = c.rows,
         d.undo = c.undo, d.missed \in {c.missed, {}}, d.content = c.content, d.file = c.file
  PROVE  Progress(d)
BY DEF Progress

(* A request others interfere with goes on as before.                      *)
LEMMA JoinedType ==
  ASSUME NEW c \in Call
  PROVE  /\ Joined(c) \in Call
         /\ Joined(c).pc = c.pc /\ Joined(c).batch = c.batch /\ Joined(c).items = c.items
         /\ Joined(c).i = c.i /\ Joined(c).id = c.id /\ Joined(c).rows = c.rows
         /\ Joined(c).undo = c.undo /\ Joined(c).content = c.content
         /\ Joined(c).file = c.file /\ Joined(c).alone = FALSE /\ Joined(c).missed = {}
<1>1. NoLinks \in [Link -> Rev \cup {None}]
  BY DEF NoLinks
<1> HIDE DEF NoLinks
<1> QED  BY <1>1 DEF Joined, Call

(* Neither rows that go nor what others do matters to a thread that is     *)
(* idle or not alone, or when they leave the links as they are.            *)
LEMMA CallFrame ==
  ASSUME NEW p \in Client, Progress(call[p]), RowsAreItems(call[p]), Undisturbed(call[p]),
         RowsKept, UNCHANGED dirs,
         \/ UNCHANGED <<plinks, call>>
         \/ UNCHANGED plinks /\ call'[p] = call[p]
         \/ (~call[p].alone \/ CallAt(p, "idle")) /\ call'[p] = call[p]
         \/ call'[p] = Joined(call[p])
  PROVE  Progress(call[p])' /\ RowsAreItems(call[p])' /\ Undisturbed(call[p])'
<1>0. call[p] \in Call
  BY DEF Progress
<1>1. CASE UNCHANGED plinks /\ call'[p] = call[p]
  <2>1. Progress(call[p])'
    BY <1>0, <1>1, ProgressAlike
  <2>2. RowsAreItems(call[p])'
    BY <1>1, RowsFrame
  <2>3. CanUndo(call[p]) => CanUndo(call[p])'
    BY <1>1 DEF CanUndo
  <2>4. Linked(call[p]) => Linked(call[p])'
    BY <1>1 DEF Linked
  <2>5. AggregatedLinks(call[p]) => AggregatedLinks(call[p])'
    BY <1>1, BuiltShrinks DEF AggregatedLinks
  <2> QED  BY <1>1, <2>1, <2>2, <2>3, <2>4, <2>5 DEF Undisturbed
<1>2. CASE (~call[p].alone \/ CallAt(p, "idle")) /\ call'[p] = call[p]
  <2>1. Progress(call[p])'
    BY <1>0, <1>2, ProgressAlike
  <2>2. RowsAreItems(call[p])'
    BY <1>2, RowsFrame
  <2> QED  BY <1>2, <2>1, <2>2 DEF Undisturbed, CallAt
<1>3. CASE call'[p] = Joined(call[p])
  <2>1. /\ call'[p].pc = call[p].pc /\ call'[p].batch = call[p].batch /\ call'[p].items = call[p].items
        /\ call'[p].i = call[p].i /\ call'[p].id = call[p].id /\ call'[p].rows = call[p].rows
        /\ call'[p].undo = call[p].undo /\ call'[p].content = call[p].content
        /\ call'[p].file = call[p].file /\ ~call'[p].alone /\ call'[p] \in Call
        /\ call'[p].missed = {}
    BY <1>0, <1>3, JoinedType
  <2>2. Progress(call[p])'
    BY <2>1, ProgressAlike
  <2> QED  BY <2>1, <2>2, RowsFrame DEF Undisturbed
<1> QED  BY <1>1, <1>2, <1>3

(* The response.                                                           *)
LEMMA NoCallType == NoCall \in Call /\ NoCall.pc = "idle" /\ NoCall.rows = <<>>
<1>1. NoLinks \in [Link -> Rev \cup {None}]
  BY DEF NoLinks
<1> HIDE DEF NoLinks
<1> QED  BY <1>1 DEF NoCall, Call, CallPC

\* What a step of its own keeps of a request.
Kept(p) ==
    /\ Progress(call[p])' /\ RowsAreItems(call[p])' /\ Undisturbed(call[p])'
    /\ \E new \in Call : /\ call' = [call EXCEPT ![p] = new]
                         /\ new.pc # "idle" => new.alone = call[p].alone

LEMMA EndKeeps ==
  ASSUME RequestsInv, NEW p \in Client, EndCall(p)
  PROVE  Kept(p)
<1>1. call' = [call EXCEPT ![p] = NoCall] /\ call'[p] = NoCall
  BY DEF EndCall, RequestsInv
<1>2. Progress(call[p])' /\ RowsAreItems(call[p])'
  BY <1>1, NoCallType DEF Progress, RowsAreItems
<1>3. Undisturbed(call[p])'
  <2>1. ~NoCall.batch
    BY DEF NoCall
  <2> QED  BY <1>1, <2>1, NoCallType DEF Undisturbed
<1> QED  BY <1>1, <1>2, <1>3, NoCallType DEF Kept

\* A request with a step of its own, in the words of its record.
LEMMA MoveIs ==
  ASSUME RequestsInv, NEW p \in Client, NEW new \in Call, call' = [call EXCEPT ![p] = new],
         new.alone = call[p].alone, Progress(new)
  PROVE  /\ call'[p] = new /\ Progress(call[p])'
         /\ RowsAreItems(call[p])' /\ Undisturbed(call[p])' => Kept(p)
<1>1. call'[p] = new
  BY DEF RequestsInv
<1>2. Progress(call[p])'
  BY <1>1 DEF Progress, LinkOf
<1> QED  BY <1>1, <1>2 DEF Kept

LEMMA UndoFrame ==
  ASSUME NEW p \in Client, CanUndo(call[p]), UNCHANGED plinks,
         call'[p].undo = call[p].undo, call'[p].before = call[p].before,
         call'[p].missed = call[p].missed
  PROVE  CanUndo(call[p])'
BY DEF CanUndo

LEMMA LinkedFrame ==
  ASSUME NEW p \in Client, Linked(call[p]), UNCHANGED plinks,
         DOMAIN call'[p].rows = DOMAIN call[p].rows, Len(call'[p].rows) = Len(call[p].rows),
         call'[p].items = call[p].items, call[p].pc # "link"
  PROVE  Linked(call[p])'
BY DEF Linked

LEMMA CallIs ==
  ASSUME RequestsInv, NEW p \in Client, ~CallAt(p, "idle")
  PROVE  /\ call[p] \in Call /\ Progress(call[p]) /\ RowsAreItems(call[p]) /\ Undisturbed(call[p])
         /\ call[p].i \in DOMAIN call[p].items /\ call[p].items \in Seq(Item) /\ call[p].i \in Nat
         /\ ItemOf(p) \in Item /\ LinkOf(ItemOf(p)) \in Link /\ ItemOf(p).rev \in Rev
         /\ NameOf(p) \in Name /\ Len(call[p].items) \in DOMAIN call[p].items
<1>1. call[p] \in Call /\ Progress(call[p]) /\ RowsAreItems(call[p]) /\ Undisturbed(call[p])
  BY DEF RequestsInv, CallsOK
<1>2. call[p].i \in DOMAIN call[p].items /\ call[p].items \in Seq(Item) /\ call[p].i \in Nat
  BY <1>1 DEF Progress, Call, CallAt
<1>3. Len(call[p].items) \in DOMAIN call[p].items
  BY <1>2
<1>4. ItemOf(p) \in Item /\ call[p].items[Len(call[p].items)] \in Item
  BY <1>2, <1>3 DEF ItemOf
<1> QED  BY <1>1, <1>2, <1>3, <1>4, ItemType DEF NameOf

LEMMA CheckKeeps ==
  ASSUME RequestsInv, NEW p \in Client, Check(p)
  PROVE  Kept(p)
<1> DEFINE c == call[p]
<1>0. ~CallAt(p, "idle") /\ c.pc = "check" /\ UNCHANGED <<tableVars, plinks>>
  BY DEF Check, CallAt
<1>1. CASE EndCall(p)
  BY <1>1, EndKeeps
<1>2. CASE ~EndCall(p)
  <2>1. PICK i \in FindCommit(ItemOf(p).rev) : call' = [call EXCEPT ![p].pc = "look", ![p].id = i]
    BY <1>2 DEF Check
  <2> DEFINE new == [c EXCEPT !.pc = "look", !.id = i]
  <2>2. i \in DOMAIN db /\ db[i].rev = c.items[c.i].rev /\ i \in Nat
    BY <2>1, FindCommitIs, RowType DEF ItemOf, RequestsInv
  <2>3. /\ new \in Call /\ new.pc = "look" /\ new.id = i /\ new.rows = c.rows /\ new.i = c.i
        /\ new.items = c.items /\ new.batch = c.batch /\ new.undo = c.undo /\ new.before = c.before
        /\ new.alone = c.alone /\ new.file = c.file /\ new.missed = c.missed
    BY <1>0, <2>2, CallIs DEF Call, CallPC
  <2>4. call' = [call EXCEPT ![p] = new]
    BY <2>1 DEF RequestsInv
  <2> HIDE DEF new
  <2>5. c.i = 1 /\ c.rows = <<>> /\ Progress(new)
    BY <1>0, <2>3, CallIs DEF Progress, CallAt
  <2>6. call'[p] = new /\ (RowsAreItems(call[p])' /\ Undisturbed(call[p])' => Kept(p))
    BY <2>3, <2>4, <2>5, MoveIs
  <2>7. RowsAreItems(call[p])'
    BY <1>0, <2>2, <2>3, <2>5, <2>6 DEF RowsAreItems, tableVars
  <2>8. Undisturbed(call[p])'
    <3>1. CanUndo(c) => CanUndo(call[p])'
      BY <1>0, <2>3, <2>6, UndoFrame
    <3>2. Linked(call[p])'
      BY <2>3, <2>5, <2>6 DEF Linked
    <3> QED  BY <1>0, <2>3, <2>6, <3>1, <3>2, CallIs DEF Undisturbed
  <2> QED  BY <2>6, <2>7, <2>8
<1> QED  BY <1>1, <1>2

LEMMA LookKeeps ==
  ASSUME RequestsInv, NEW p \in Client, Look(p)
  PROVE  Kept(p)
<1> DEFINE c == call[p]
           l == LinkOf(ItemOf(p))
           next == IF plinks[l] = None THEN "link" ELSE "unlink"
<1>0. ~CallAt(p, "idle") /\ c.pc = "look" /\ UNCHANGED <<tableVars, plinks>>
  BY DEF Look, CallAt
<1>1. CASE EndCall(p)
  BY <1>1, EndKeeps
<1>2. CASE ~c.batch
  <2> DEFINE new == [c EXCEPT !.pc = next]
  <2>1. call' = [call EXCEPT ![p] = new]
    BY <1>2 DEF Look, RequestsInv
  <2>2. /\ new \in Call /\ new.pc \in {"link", "unlink"} /\ new.id = c.id /\ new.rows = c.rows
        /\ new.i = c.i /\ new.items = c.items /\ ~new.batch /\ new.alone = c.alone /\ new.file = c.file
        /\ new.missed = c.missed
    BY <1>0, <1>2, CallIs DEF Call, CallPC
  <2> HIDE DEF new, next
  <2>3. Progress(new)
    BY <1>0, <1>2, <2>2, CallIs DEF Progress, CallAt
  <2>4. call'[p] = new /\ (RowsAreItems(call[p])' /\ Undisturbed(call[p])' => Kept(p))
    BY <2>1, <2>2, <2>3, MoveIs
  <2>5. RowsAreItems(call[p])'
    BY SMTT(30), <1>0, <1>2, <2>2, <2>4, CallIs DEF RowsAreItems, tableVars
  <2>6. Linked(c) => Linked(call[p])'
    BY <1>0, <2>2, <2>4, LinkedFrame
  <2>7. Undisturbed(call[p])'
    BY <1>0, <2>2, <2>4, <2>6, CallIs DEF Undisturbed
  <2> QED  BY <2>4, <2>5, <2>7
<1>3. CASE c.batch /\ ~EndCall(p)
  <2>1. PICK i \in FindCommit(ItemOf(p).rev) :
          call' = [call EXCEPT ![p] =
             [c EXCEPT !.pc = next, !.id = i, !.undo = Append(c.undo, [link |-> l, prev |-> plinks[l]])]]
    <3>1. FindCommit(ItemOf(p).rev) # {}
      BY <1>3 DEF Look
    <3> QED  BY <1>3, <3>1 DEF Look
  <2> DEFINE entry == [link |-> l, prev |-> plinks[l]]
             new == [c EXCEPT !.pc = next, !.id = i, !.undo = Append(c.undo, entry)]
  <2>2. i \in DOMAIN db /\ db[i].rev = c.items[c.i].rev /\ i \in Nat
    BY <2>1, FindCommitIs, RowType DEF ItemOf, RequestsInv
  <2>3. entry \in Undo /\ entry.link = l /\ entry.prev = plinks[l] /\ c.undo \in Seq(Undo)
    BY <1>0, CallIs DEF Undo, RequestsInv, FilesOK, Call
  <2>3a. Append(c.undo, entry) \in Seq(Undo)
    BY <2>3
  <2>3b. next \in {"link", "unlink"} /\ next \in CallPC
    BY DEF CallPC
  <2> HIDE DEF entry, next
  <2>4. /\ new \in Call /\ new.pc \in {"link", "unlink"} /\ new.id = i /\ new.rows = c.rows
        /\ new.i = c.i /\ new.items = c.items /\ new.batch /\ new.alone = c.alone /\ new.file = c.file
        /\ new.before = c.before /\ new.undo = Append(c.undo, entry) /\ new.missed = c.missed
    BY <1>0, <1>3, <2>2, <2>3a, <2>3b, CallIs DEF Call
  <2>5. call' = [call EXCEPT ![p] = new]
    BY <2>1 DEF entry
  <2> HIDE DEF new
  <2>6. /\ DOMAIN new.undo = DOMAIN c.undo \cup {Len(c.undo) + 1} /\ new.undo[Len(c.undo) + 1] = entry
        /\ \A k \in DOMAIN c.undo : new.undo[k] = c.undo[k]
        /\ Len(c.undo) + 1 \notin DOMAIN c.undo
    BY <2>3, <2>4
  <2>7. Progress(new)
    <3>1. /\ Progress(c) /\ c.pc = "look" /\ c.batch
      BY <1>0, <1>3, CallIs
    <3>2. \E k \in DOMAIN new.undo : new.undo[k].link = LinkOf(new.items[new.i])
      BY <2>3, <2>4, <2>6 DEF ItemOf
    <3>3. /\ new.i \in DOMAIN new.items /\ new.file \in DOMAIN AggFile
          /\ Len(new.rows) = new.i - 1 /\ new.missed = {}
      BY <2>4, <3>1 DEF Progress
    <3> QED  BY <2>4, <3>2, <3>3 DEF Progress
  <2>8. call'[p] = new /\ (RowsAreItems(call[p])' /\ Undisturbed(call[p])' => Kept(p))
    BY <2>4, <2>5, <2>7, MoveIs
  <2>9. RowsAreItems(call[p])'
    <3>1. RowsAreItems(c) /\ db' = db /\ c.pc # "idle"
      BY <1>0, CallIs DEF tableVars
    <3> QED  BY <2>2, <2>4, <2>8, <3>1 DEF RowsAreItems
  <2>10. Linked(c) => Linked(call[p])'
    BY <1>0, <2>4, <2>8, LinkedFrame
  <2>11. ASSUME CanUndo(c) PROVE CanUndo(call[p])'
    <3> SUFFICES ASSUME NEW m \in Link
                 PROVE  \/ /\ plinks[m] = new.before[m] \/ m \in new.missed
                           /\ \A k \in DOMAIN new.undo : new.undo[k].link # m
                        \/ \E k \in DOMAIN new.undo :
                              /\ new.undo[k].link = m /\ new.undo[k].prev = new.before[m]
                              /\ \A j \in 1..(k - 1) : new.undo[j].link # m
      BY <1>0, <2>8 DEF CanUndo
    <3>0. c.missed = {}
      BY <1>0, CallIs DEF Progress
    <3>1. CASE \E k \in DOMAIN c.undo : /\ c.undo[k].link = m /\ c.undo[k].prev = c.before[m]
                                        /\ \A j \in 1..(k - 1) : c.undo[j].link # m
      <4>1. PICK k \in DOMAIN c.undo : /\ c.undo[k].link = m /\ c.undo[k].prev = c.before[m]
                                       /\ \A j \in 1..(k - 1) : c.undo[j].link # m
        BY <3>1
      <4>2. 1..(k - 1) \subseteq DOMAIN c.undo
        BY <2>3
      <4> QED  BY <2>4, <2>6, <4>1, <4>2
    <3>2. CASE plinks[m] = c.before[m] /\ (\A k \in DOMAIN c.undo : c.undo[k].link # m) /\ m # l
      BY <2>3, <2>4, <2>6, <3>2
    <3>3. CASE plinks[m] = c.before[m] /\ (\A k \in DOMAIN c.undo : c.undo[k].link # m) /\ m = l
      <4>1. 1..((Len(c.undo) + 1) - 1) = DOMAIN c.undo
        BY <2>3
      <4>2. Len(c.undo) + 1 \in DOMAIN new.undo /\ new.undo[Len(c.undo) + 1] = entry
        BY <2>4, <2>6
      <4>3. \A j \in DOMAIN c.undo : new.undo[j].link # m
        BY <2>6, <3>3
      <4>4. new.undo[Len(c.undo) + 1].link = m /\ new.undo[Len(c.undo) + 1].prev = new.before[m]
        BY <2>3, <2>4, <3>3, <4>2
      <4>5. \A j \in 1..((Len(c.undo) + 1) - 1) : new.undo[j].link # m
        BY <4>1, <4>3
      <4> QED  BY <4>2, <4>4, <4>5
    <3> QED  BY <2>11, <3>0, <3>1, <3>2, <3>3 DEF CanUndo
  <2>12. Undisturbed(call[p])'
    BY <1>0, <1>3, <2>4, <2>8, <2>10, <2>11, CallIs DEF Undisturbed
  <2> QED  BY <2>8, <2>9, <2>12
<1> QED  BY <1>1, <1>2, <1>3

(* A link that changes and is in the rollback_list can still be undone.    *)
LEMMA UndoStays ==
  ASSUME NEW p \in Client, CanUndo(call[p]), FilesOK, NEW l \in Link, NEW r \in Rev \cup {None},
         plinks' = [plinks EXCEPT ![l] = r],
         \E k \in DOMAIN call[p].undo : call[p].undo[k].link = l,
         call'[p].undo = call[p].undo, call'[p].before = call[p].before,
         call'[p].missed = call[p].missed
  PROVE  CanUndo(call[p])'
<1>1. \A m \in Link \ {l} : plinks'[m] = plinks[m]
  BY DEF FilesOK
<1> QED  BY <1>1 DEF CanUndo

LEMMA LinkType ==
  ASSUME FilesOK, NEW l \in Link, NEW r \in Rev \cup {None}, plinks' = [plinks EXCEPT ![l] = r],
         UNCHANGED <<promos, aggVars>>, kills' = kills
  PROVE  /\ FilesOK' /\ plinks'[l] = r
         /\ \A m \in Link \ {l} : plinks'[m] = plinks[m]
BY DEF FilesOK, aggVars

LEMMA UnlinkKeeps ==
  ASSUME RequestsInv, NEW p \in Client, Unlink(p)
  PROVE  Kept(p) /\ FilesOK'
<1> DEFINE c == call[p]
           l == LinkOf(ItemOf(p))
<1>0. /\ ~CallAt(p, "idle") /\ c.pc = "unlink" /\ UNCHANGED <<tableVars, promos, aggVars, kills>>
      /\ FilesOK
  BY DEF Unlink, CallAt, RequestsInv
<1>1. CASE EndCall(p) /\ UNCHANGED plinks
  BY <1>0, <1>1, EndKeeps DEF FilesOK, aggVars
<1>2. CASE plinks' = [plinks EXCEPT ![l] = None] /\ call' = [call EXCEPT ![p].pc = "link"]
  <2> DEFINE new == [c EXCEPT !.pc = "link"]
  <2>1. call' = [call EXCEPT ![p] = new]
    BY <1>2 DEF RequestsInv
  <2>2. /\ new \in Call /\ new.pc = "link" /\ new.id = c.id /\ new.rows = c.rows
        /\ new.i = c.i /\ new.items = c.items /\ new.batch = c.batch /\ new.alone = c.alone
        /\ new.file = c.file /\ new.undo = c.undo /\ new.before = c.before
      /\ new.missed = c.missed
        /\ new.missed = c.missed
    BY <1>0, CallIs DEF Call, CallPC
  <2> HIDE DEF new
  <2>3. Progress(new)
    BY <1>0, <2>2, CallIs DEF Progress, CallAt
  <2>4. call'[p] = new /\ (RowsAreItems(call[p])' /\ Undisturbed(call[p])' => Kept(p))
    BY <2>1, <2>2, <2>3, MoveIs
  <2>5. RowsAreItems(call[p])'
    <3>1. RowsAreItems(c) /\ db' = db /\ c.pc = "unlink"
      BY <1>0, CallIs DEF tableVars
    <3> QED  BY <2>2, <2>4, <3>1 DEF RowsAreItems
  <2>6. l \in Link /\ None \in Rev \cup {None}
    BY <1>0, CallIs
  <2>7. FilesOK' /\ \A m \in Link \ {l} : plinks'[m] = plinks[m]
    BY <1>0, <1>2, <2>6, LinkType
  <2>8. ASSUME c.batch, CanUndo(c) PROVE CanUndo(call[p])'
    <3>1. \E k \in DOMAIN c.undo : c.undo[k].link = l
      BY <1>0, <2>8, CallIs DEF Progress, ItemOf
    <3> QED  BY <1>0, <1>2, <2>2, <2>4, <2>6, <2>8, <3>1, UndoStays
  <2>9. ASSUME Linked(c) PROVE Linked(call[p])'
    <3> SUFFICES ASSUME NEW k \in DOMAIN c.rows
                 PROVE  \/ plinks'[LinkOf(c.items[k])] = c.items[k].rev
                        \/ \E m \in (k + 1)..Len(c.rows) : LinkOf(c.items[m]) = LinkOf(c.items[k])
                        \/ l = LinkOf(c.items[k])
      BY <2>2, <2>4 DEF Linked, ItemOf
    <3>1. c.items[k] \in Item
      BY <1>0, CallIs DEF RowsAreItems
    <3>2. LinkOf(c.items[k]) \in Link
      BY <3>1, ItemType
    <3> QED  BY <1>0, <2>7, <2>9, <3>2 DEF Linked
  <2>10. Undisturbed(call[p])'
    BY <1>0, <2>2, <2>4, <2>8, <2>9, CallIs DEF Undisturbed
  <2> QED  BY <2>4, <2>5, <2>7, <2>10
<1> QED  BY <1>1, <1>2 DEF Unlink

LEMMA MakeLinkKeeps ==
  ASSUME RequestsInv, NEW p \in Client, MakeLink(p)
  PROVE  Kept(p) /\ FilesOK'
<1> DEFINE c == call[p]
           l == LinkOf(ItemOf(p))
           more == c.i < Len(c.items)
           row == [id |-> c.id, name |-> l.name, agg |-> None]
           new == [c EXCEPT !.pc = IF more THEN "look"
                                   ELSE IF UseComponents THEN "aggregate" ELSE "insert",
                            !.i = IF more THEN c.i + 1 ELSE c.i,
                            !.rows = Append(c.rows, row)]
<1>0. /\ ~CallAt(p, "idle") /\ c.pc = "link" /\ UNCHANGED <<tableVars, promos, aggVars, kills>>
      /\ plinks' = [plinks EXCEPT ![l] = ItemOf(p).rev]
      /\ FilesOK /\ TableOK /\ call' = [call EXCEPT ![p] = new]
  BY DEF MakeLink, CallAt, RequestsInv
<1>1. /\ c \in Call /\ c.i \in DOMAIN c.items /\ c.i \in Nat /\ c.items \in Seq(Item)
      /\ c.rows \in Seq(Promotion) /\ Len(c.rows) = c.i - 1
      /\ Progress(c) /\ RowsAreItems(c) /\ Undisturbed(c)
      /\ ItemOf(p) \in Item /\ l \in Link /\ ItemOf(p).rev \in Rev \cup {None}
      /\ l.name = ItemOf(p).name /\ l.name \in Name
  BY <1>0, CallIs, ItemType DEF Progress, Call
<1>2. row \in Promotion /\ row.id = c.id /\ row.name = ItemOf(p).name
  <2>1. c.id \in Nat
    BY <1>1 DEF Call
  <2> QED  BY <1>1, <2>1 DEF Promotion
<1> HIDE DEF row
<1>3. Append(c.rows, row) \in Seq(Promotion)
  BY <1>1, <1>2
<1>4. /\ new \in Call /\ new.id = c.id /\ new.rows = Append(c.rows, row)
      /\ new.pc = IF more THEN "look" ELSE IF UseComponents THEN "aggregate" ELSE "insert"
      /\ new.i = IF more THEN c.i + 1 ELSE c.i
      /\ new.items = c.items /\ new.batch = c.batch /\ new.alone = c.alone
      /\ new.file = c.file /\ new.undo = c.undo /\ new.before = c.before
      /\ new.missed = c.missed
  <2>1. (IF more THEN c.i + 1 ELSE c.i) \in Nat
    BY <1>1
  <2> HIDE DEF more
  <2> QED  BY <1>1, <1>3, <2>1 DEF Call, CallPC
<1> HIDE DEF new
<1>5. /\ Len(new.rows) = c.i /\ DOMAIN new.rows = DOMAIN c.rows \cup {c.i} /\ c.i \notin DOMAIN c.rows
      /\ new.rows[c.i] = row /\ \A k \in DOMAIN c.rows : new.rows[k] = c.rows[k]
  <2> DEFINE rows == c.rows
             longer == Append(rows, row)
  <2>1. rows \in Seq(Promotion) /\ row \in Promotion /\ c.i = Len(rows) + 1
    BY <1>1, <1>2
  <2> HIDE DEF rows
  <2>2. /\ Len(longer) = Len(rows) + 1 /\ DOMAIN longer = 1..(Len(rows) + 1)
        /\ DOMAIN rows = 1..Len(rows) /\ Len(rows) \in Nat
    BY <2>1
  <2>3. longer[Len(rows) + 1] = row
    BY <2>1
  <2>4. \A k \in DOMAIN rows : longer[k] = rows[k]
    BY <2>1
  <2>5. new.rows = longer
    BY <1>4 DEF rows
  <2> HIDE DEF longer
  <2>6. /\ Len(new.rows) = c.i /\ DOMAIN new.rows = DOMAIN rows \cup {c.i} /\ c.i \notin DOMAIN rows
        /\ new.rows[c.i] = row /\ \A k \in DOMAIN rows : new.rows[k] = rows[k]
    <3>1. Len(rows) + 1 = c.i
      BY <2>1
    <3>2. 1..(Len(rows) + 1) = 1..Len(rows) \cup {Len(rows) + 1} /\ Len(rows) + 1 \notin 1..Len(rows)
      BY <2>2
    <3> QED  BY <2>2, <2>3, <2>4, <2>5, <3>1, <3>2
  <2> QED  BY <2>6 DEF rows
<1>6. ~c.batch => Len(c.items) = 1 /\ ~more
  <2>1. ~c.batch => Len(c.items) = 1
    BY <1>0, <1>1 DEF Progress
  <2>2. Len(c.items) = 1 => c.i = 1 /\ ~(c.i < Len(c.items))
    BY <1>1
  <2> QED  BY <2>1, <2>2
<1>7. Progress(new)
  <2>1. more => c.i + 1 \in DOMAIN c.items
    BY <1>1
  <2>2. ~more => c.i = Len(c.items)
    BY <1>1
  <2>3. c.file \in DOMAIN AggFile /\ new.missed = {}
    BY <1>0, <1>1, <1>4 DEF Progress
  <2>4. new.pc \in {"look", "aggregate", "insert"} /\ (new.pc = "look" <=> more)
        /\ (new.pc = "insert" => ~UseComponents) /\ (new.pc = "aggregate" => UseComponents)
    BY <1>4
  <2>5. more => Len(new.rows) = new.i - 1
    BY <1>1, <1>4, <1>5
  <2> HIDE DEF more
  <2> QED  BY <1>4, <1>5, <1>6, <2>1, <2>2, <2>3, <2>4, <2>5 DEF Progress
<1>8. call'[p] = new /\ (RowsAreItems(call[p])' /\ Undisturbed(call[p])' => Kept(p))
  BY <1>0, <1>4, <1>7, MoveIs
<1>9. RowsAreItems(call[p])'
  <2>1. db' = db /\ c.id \in DOMAIN db /\ db[c.id].rev = ItemOf(p).rev
    BY <1>0, <1>1 DEF RowsAreItems, ItemOf, tableVars
  <2>2. new.pc = "look" => new.batch
    BY <1>4, <1>6
  <2>3. new.pc \notin {"unlink", "link", "idle"}
    BY <1>4
  <2>4. ASSUME NEW k \in DOMAIN new.rows
        PROVE  /\ k \in DOMAIN new.items
               /\ new.rows[k].id \in DOMAIN db /\ db[new.rows[k].id].rev = new.items[k].rev
               /\ new.rows[k].name = new.items[k].name
    <3>1. CASE k = c.i
      BY <1>1, <1>2, <1>4, <1>5, <2>1, <3>1 DEF ItemOf
    <3>2. CASE k \in DOMAIN c.rows
      BY <1>0, <1>1, <1>4, <1>5, <3>2 DEF RowsAreItems
    <3> QED  BY <1>5, <3>1, <3>2
  <2> QED  BY <1>8, <2>1, <2>2, <2>3, <2>4 DEF RowsAreItems
<1>10. FilesOK' /\ plinks'[l] = ItemOf(p).rev /\ \A m \in Link \ {l} : plinks'[m] = plinks[m]
  BY <1>0, <1>1, LinkType
<1>11. ASSUME c.batch, CanUndo(c) PROVE CanUndo(call[p])'
  <2>1. \E k \in DOMAIN c.undo : c.undo[k].link = l
    BY <1>0, <1>1, <1>11 DEF Progress, ItemOf
  <2> QED  BY ZenonT(30), <1>0, <1>1, <1>4, <1>8, <1>11, <2>1, UndoStays
<1>12. ASSUME Linked(c) PROVE Linked(call[p])'
  <2> SUFFICES ASSUME NEW k \in DOMAIN new.rows
               PROVE  \/ plinks'[LinkOf(c.items[k])] = c.items[k].rev
                      \/ \E m \in (k + 1)..c.i : LinkOf(c.items[m]) = LinkOf(c.items[k])
    <3>1. call'[p].rows = new.rows /\ call'[p].items = c.items /\ Len(new.rows) = c.i
      BY <1>4, <1>5, <1>8
    <3> HIDE DEF c
    <3> QED  BY <3>1 DEF Linked
  <2>1. CASE k = c.i
    BY <1>10, <2>1 DEF ItemOf
  <2>2. CASE k \in DOMAIN c.rows
    <3>1. k \in 1..(c.i - 1)
      BY <1>1, <2>2
    <3>2. c.items[k] \in Item
      BY <1>0, <1>1, <2>2 DEF RowsAreItems
    <3>3. LinkOf(c.items[k]) \in Link
      BY <3>2, ItemType
    <3>4. CASE LinkOf(c.items[k]) = l
      <4>1. c.i \in (k + 1)..c.i
        BY <1>1, <3>1
      <4> QED  BY <3>4, <4>1 DEF ItemOf
    <3>5. CASE LinkOf(c.items[k]) # l
      <4>1. \/ plinks[LinkOf(c.items[k])] = c.items[k].rev
            \/ \E m \in (k + 1)..Len(c.rows) : LinkOf(c.items[m]) = LinkOf(c.items[k])
        BY <1>12, <2>2, <3>5 DEF Linked, ItemOf
      <4>2. (k + 1)..Len(c.rows) \subseteq (k + 1)..c.i
        BY <1>1, <3>1
      <4> QED  BY <1>10, <3>3, <3>5, <4>1, <4>2
    <3> QED  BY <3>4, <3>5
  <2> QED  BY <1>5, <2>1, <2>2
<1>13. Undisturbed(call[p])'
  <2>1. c.alone /\ c.batch => CanUndo(c)
    BY <1>0, <1>1 DEF Undisturbed
  <2>2. c.alone => Linked(c)
    BY <1>0, <1>1 DEF Undisturbed
  <2>3. new.pc \in {"look", "aggregate", "insert"} /\ (new.pc = "insert" => ~UseComponents)
    BY <1>4
  <2> QED  BY <1>4, <1>8, <1>11, <1>12, <2>1, <2>2, <2>3 DEF Undisturbed
<1> QED  BY <1>8, <1>9, <1>10, <1>13

LEMMA LinkFailsKeeps ==
  ASSUME RequestsInv, NEW p \in Client, LinkFails(p)
  PROVE  Kept(p)
<1> DEFINE c == call[p]
<1>0. ~CallAt(p, "idle") /\ c.pc = "link" /\ UNCHANGED <<tableVars, plinks>>
  BY DEF LinkFails, CallAt
<1>1. CASE EndCall(p)
  BY <1>1, EndKeeps
<1>2. CASE c.batch /\ call' = [call EXCEPT ![p].pc = "rollback"]
  <2> DEFINE new == [c EXCEPT !.pc = "rollback"]
  <2>1. call' = [call EXCEPT ![p] = new]
    BY <1>2 DEF RequestsInv
  <2>2. /\ new \in Call /\ new.pc = "rollback" /\ new.rows = c.rows
        /\ new.i = c.i /\ new.items = c.items /\ new.batch = c.batch /\ new.alone = c.alone
        /\ new.file = c.file /\ new.undo = c.undo /\ new.before = c.before
      /\ new.missed = c.missed
        /\ new.missed = c.missed
    BY <1>0, CallIs DEF Call, CallPC
  <2> HIDE DEF new
  <2>3. Progress(new)
    <3>1. new.batch
      BY <1>2, <2>2
    <3> QED  BY <1>0, <2>2, <3>1, CallIs DEF Progress, CallAt
  <2>4. call'[p] = new /\ (RowsAreItems(call[p])' /\ Undisturbed(call[p])' => Kept(p))
    BY <2>1, <2>2, <2>3, MoveIs
  <2>5. RowsAreItems(call[p])'
    <3>1. RowsAreItems(c) /\ db' = db /\ c.pc = "link"
      BY <1>0, CallIs DEF tableVars
    <3> QED  BY <2>2, <2>4, <3>1 DEF RowsAreItems
  <2>6. CanUndo(c) => CanUndo(call[p])'
    BY <1>0, <2>2, <2>4, UndoFrame
  <2>7. Undisturbed(call[p])'
    BY <1>0, <2>2, <2>4, <2>6, CallIs DEF Undisturbed
  <2> QED  BY <2>4, <2>5, <2>7
<1> QED  BY <1>1, <1>2 DEF LinkFails

(* The rollback_list without its last entry.                               *)
LEMMA FrontIs ==
  ASSUME NEW s \in Seq(Undo), s # <<>>
  PROVE  LET front == SubSeq(s, 1, Len(s) - 1) IN
         /\ front \in Seq(Undo) /\ DOMAIN front = 1..(Len(s) - 1)
         /\ \A k \in 1..(Len(s) - 1) : front[k] = s[k]
<1>1. Len(s) \in Nat /\ Len(s) - 1 \in Nat /\ DOMAIN s = 1..Len(s)
  OBVIOUS
<1> DEFINE front == SubSeq(s, 1, Len(s) - 1)
<1>2. Len(front) = Len(s) - 1 /\ DOMAIN front = 1..(Len(s) - 1)
  BY <1>1
<1>3. ASSUME NEW k \in 1..(Len(s) - 1)
      PROVE  front[k] = s[k] /\ s[k] \in Undo
  BY <1>1
<1>4. front \in Seq(Undo)
  BY <1>1, <1>2, <1>3
<1> QED  BY <1>2, <1>3, <1>4

LEMMA RollsBack ==
  ASSUME RequestsInv, NEW p \in Client, RollBack(p)
  PROVE  /\ ~CallAt(p, "idle") /\ call[p].pc = "rollback" /\ call[p].batch
         /\ call[p] \in Call /\ call[p].undo \in Seq(Undo) /\ FilesOK
         /\ UNCHANGED <<tableVars, promos, aggVars, kills>>
<1>1. /\ ~CallAt(p, "idle") /\ call[p].pc = "rollback" /\ FilesOK
      /\ UNCHANGED <<tableVars, promos, aggVars, kills>>
  BY DEF RollBack, CallAt, RequestsInv
<1> QED  BY <1>1, CallIs DEF Progress, Call

\* What undoing an entry does, to the list and to the links.
LEMMA RollBackIs ==
  ASSUME RequestsInv, NEW p \in Client, RollBack(p), call[p].undo # <<>>
  PROVE  LET c == call[p]
             last == c.undo[Len(c.undo)]
         IN
         /\ last.link \in Link
         /\ \A m \in Link \ {last.link} : plinks'[m] = plinks[m]
         /\ FilesOK'
         /\ call' = [call EXCEPT ![p] =
              [c EXCEPT !.undo = SubSeq(c.undo, 1, Len(c.undo) - 1),
                        !.missed = IF plinks'[last.link] = last.prev THEN c.missed \ {last.link}
                                   ELSE c.missed \cup {last.link}]]
<1> DEFINE c == call[p]
           last == c.undo[Len(c.undo)]
<1>1. c.undo \in Seq(Undo) /\ FilesOK /\ UNCHANGED <<promos, aggVars, kills>>
  BY RollsBack
<1>2. last \in Undo
  BY <1>1
<1>3. last.link \in Link /\ last.prev \in Rev \cup {None}
  BY <1>2 DEF Undo
<1>4. PICK r \in AfterUndo(last) :
        /\ plinks' = [plinks EXCEPT ![last.link] = r]
        /\ call' = [call EXCEPT ![p] =
              [c EXCEPT !.undo = SubSeq(c.undo, 1, Len(c.undo) - 1),
                        !.missed = IF r = last.prev THEN c.missed \ {last.link}
                                   ELSE c.missed \cup {last.link}]]
  BY DEF RollBack
<1> HIDE DEF last
<1>5. r \in Rev \cup {None}
  BY <1>1, <1>3, <1>4 DEF AfterUndo, FilesOK
<1>6. FilesOK' /\ plinks'[last.link] = r /\ \A m \in Link \ {last.link} : plinks'[m] = plinks[m]
  BY <1>1, <1>3, <1>4, <1>5, LinkType
<1> QED  BY <1>3, <1>4, <1>6 DEF last

LEMMA RollBackKeeps ==
  ASSUME RequestsInv, NEW p \in Client, RollBack(p)
  PROVE  Kept(p) /\ FilesOK'
<1> DEFINE c == call[p]
           n == Len(c.undo)
           l == c.undo[n].link
           front == SubSeq(c.undo, 1, n - 1)
           missed == IF plinks'[l] = c.undo[n].prev THEN c.missed \ {l} ELSE c.missed \cup {l}
           new == [c EXCEPT !.undo = front, !.missed = missed]
<1>0. /\ ~CallAt(p, "idle") /\ c.pc = "rollback" /\ c.batch /\ c \in Call /\ c.undo \in Seq(Undo)
      /\ FilesOK /\ UNCHANGED <<tableVars, promos, aggVars, kills>>
  BY RollsBack
<1>1. CASE c.undo = <<>>
  <2>1. EndCall(p) /\ UNCHANGED plinks
    BY <1>1 DEF RollBack
  <2> QED  BY <1>0, <2>1, EndKeeps DEF FilesOK, aggVars
<1>2. CASE c.undo # <<>>
  <2>0. /\ l \in Link /\ FilesOK' /\ \A m \in Link \ {l} : plinks'[m] = plinks[m]
        /\ call' = [call EXCEPT ![p] = new]
    BY <1>2, RollBackIs
  <2>1. front \in Seq(Undo) /\ DOMAIN front = 1..(n - 1)
        /\ \A k \in 1..(n - 1) : front[k] = c.undo[k]
    BY <1>0, <1>2, FrontIs
  <2>2. missed \subseteq Link
    BY <1>0, <2>0 DEF Call
  <2>2a. /\ \A m \in Link \ {l} : m \in c.missed => m \in missed
         /\ plinks'[l] = c.undo[n].prev \/ l \in missed
    OBVIOUS
  <2> HIDE DEF front, missed
  <2>3. /\ new \in Call /\ new.pc = "rollback" /\ new.rows = c.rows
        /\ new.i = c.i /\ new.items = c.items /\ new.batch /\ new.alone = c.alone
        /\ new.file = c.file /\ new.before = c.before /\ new.undo = front /\ new.missed = missed
    BY <1>0, <2>1, <2>2 DEF Call
  <2> HIDE DEF new
  <2>4. Progress(new)
    BY <1>0, <2>3, CallIs DEF Progress
  <2>5. call'[p] = new /\ (RowsAreItems(call[p])' /\ Undisturbed(call[p])' => Kept(p))
    BY <2>0, <2>3, <2>4, MoveIs
  <2>6. RowsAreItems(call[p])'
    <3>1. RowsAreItems(c) /\ db' = db
      BY <1>0, CallIs DEF tableVars
    <3>2. c.pc # "idle" /\ c.rows = new.rows /\ c.items = new.items
      BY <1>0, <2>3
    <3> QED  BY <2>3, <2>5, <3>1, <3>2 DEF RowsAreItems
  <2>7. ASSUME CanUndo(c) PROVE CanUndo(call[p])'
    <3>0. n \in Nat \ {0} /\ DOMAIN c.undo = 1..n
      BY <1>0, <1>2
    <3> HIDE DEF n
    <3> SUFFICES ASSUME NEW m \in Link
                 PROVE  \/ /\ plinks'[m] = c.before[m] \/ m \in missed
                           /\ \A k \in 1..(n - 1) : c.undo[k].link # m
                        \/ \E k \in 1..(n - 1) :
                              /\ c.undo[k].link = m /\ c.undo[k].prev = c.before[m]
                              /\ \A j \in 1..(k - 1) : c.undo[j].link # m
      <4>1. ASSUME NEW k \in 1..(n - 1), NEW j \in 1..(k - 1)
            PROVE  j \in 1..(n - 1)
        BY <3>0
      <4>2. call'[p].undo = front /\ call'[p].before = c.before /\ call'[p].missed = missed
        BY <2>3, <2>5
      <4>3. SUFFICES ASSUME NEW q \in Link
                     PROVE  \/ /\ plinks'[q] = call'[p].before[q] \/ q \in call'[p].missed
                               /\ \A k \in DOMAIN call'[p].undo : call'[p].undo[k].link # q
                            \/ \E k \in DOMAIN call'[p].undo :
                                  /\ call'[p].undo[k].link = q
                                  /\ call'[p].undo[k].prev = call'[p].before[q]
                                  /\ \A j \in 1..(k - 1) : call'[p].undo[j].link # q
        BY DEF CanUndo
      <4>4. CASE (plinks'[q] = c.before[q] \/ q \in missed) /\ \A k \in 1..(n - 1) : c.undo[k].link # q
        BY <2>1, <4>2, <4>4
      <4>5. CASE \E k \in 1..(n - 1) : /\ c.undo[k].link = q /\ c.undo[k].prev = c.before[q]
                                       /\ \A j \in 1..(k - 1) : c.undo[j].link # q
        BY <2>1, <4>1, <4>2, <4>5
      <4> QED  BY <4>4, <4>5
    <3>1. CASE (plinks[m] = c.before[m] \/ m \in c.missed) /\ \A k \in DOMAIN c.undo : c.undo[k].link # m
      <4>1. n \in DOMAIN c.undo /\ \A k \in 1..(n - 1) : k \in DOMAIN c.undo
        BY <3>0
      <4>2. m # l
        BY <3>1, <4>1
      <4> QED  BY <2>0, <2>2a, <3>1, <4>1, <4>2
    <3>2. CASE \E k \in DOMAIN c.undo : /\ c.undo[k].link = m /\ c.undo[k].prev = c.before[m]
                                        /\ \A j \in 1..(k - 1) : c.undo[j].link # m
      <4>1. PICK k \in DOMAIN c.undo : /\ c.undo[k].link = m /\ c.undo[k].prev = c.before[m]
                                       /\ \A j \in 1..(k - 1) : c.undo[j].link # m
        BY <3>2
      <4>2. k = n \/ k \in 1..(n - 1)
        BY <3>0, <4>1
      <4>3. CASE k = n
        <5>1. m = l /\ c.undo[n].prev = c.before[m]
          BY <4>1, <4>3
        <5> QED  BY <2>2a, <4>1, <4>3, <5>1
      <4>4. CASE k \in 1..(n - 1)
        BY <4>1, <4>4
      <4> QED  BY <4>2, <4>3, <4>4
    <3> QED  BY <2>7, <3>1, <3>2 DEF CanUndo
  <2>8. Undisturbed(call[p])'
    BY <1>0, <2>3, <2>5, <2>7, CallIs DEF Undisturbed
  <2> QED  BY <2>0, <2>5, <2>6, <2>8
<1> QED  BY <1>1, <1>2

(* The end of a roll back.                                                 *)
LEMMA RollBackEnds ==
  ASSUME RequestsInv, NEW p \in Client, RollBack(p), call'[p].pc = "idle", call[p].alone
  PROVE  \A m \in Link \ call[p].missed : plinks'[m] = call[p].before[m]
<1> DEFINE c == call[p]
<1>0. ~CallAt(p, "idle") /\ c.pc = "rollback" /\ c.batch /\ c \in Call
  BY RollsBack
<1>1. c.undo = <<>>
  <2> SUFFICES ASSUME c.undo # <<>>
               PROVE  FALSE
    OBVIOUS
  <2>1. \E new : call' = [call EXCEPT ![p] = new] /\ new.pc = c.pc
    <3> DEFINE last == c.undo[Len(c.undo)]
               front == SubSeq(c.undo, 1, Len(c.undo) - 1)
               missed == IF plinks'[last.link] = last.prev THEN c.missed \ {last.link}
                         ELSE c.missed \cup {last.link}
    <3>1. call' = [call EXCEPT ![p] = [c EXCEPT !.undo = front, !.missed = missed]]
      BY RollBackIs
    <3> HIDE DEF front, missed
    <3>2. [c EXCEPT !.undo = front, !.missed = missed].pc = c.pc
      BY <1>0 DEF Call
    <3> QED  BY <3>1, <3>2
  <2>2. call'[p].pc = c.pc
    BY <2>1 DEF RequestsInv
  <2> QED  BY <1>0, <2>2
<1>2. CanUndo(c)
  BY <1>0, CallIs DEF Undisturbed
<1>3. UNCHANGED plinks
  BY <1>1 DEF RollBack
<1> QED  BY <1>1, <1>2, <1>3 DEF CanUndo

-----------------------------------------------------------------------------
(* The aggregated files                                                    *)

LEMMA AggregatedType ==
  ASSUME TableOK, FilesOK, NEW n \in Name
  PROVE  Aggregated(n) \in Content /\ Aggregated(n) # None
<1>1. ASSUME NEW comp \in Component
      PROVE  plinks[[comp |-> comp, name |-> n]] \in Rev \cup {None}
  BY DEF FilesOK, Link
<1>2. Aggregated(n) \in Content
  BY <1>1 DEF Aggregated, Content
<1> QED  BY <1>2, PromotionsAssumption DEF Content

LEMMA ReplacedPromotion ==
  ASSUME NEW rows \in Seq(Promotion), NEW i \in DOMAIN rows, NEW new \in Promotion
  PROVE  LET changed == [rows EXCEPT ![i] = new] IN
         /\ changed \in Seq(Promotion) /\ DOMAIN changed = DOMAIN rows /\ Len(changed) = Len(rows)
         /\ changed[i] = new /\ \A j \in DOMAIN rows \ {i} : changed[j] = rows[j]
OBVIOUS

\* A step while it aggregates the files.
LEMMA AggregateMove ==
  ASSUME RequestsInv, NEW p \in Client, NEW new \in Call, call' = [call EXCEPT ![p] = new],
         UNCHANGED <<tableVars, plinks>>,
         call[p].pc \in {"aggregate", "symlink", "rename"}, new.pc \in {"symlink", "rename", "insert"},
         new.items = call[p].items, new.i = call[p].i, new.batch = call[p].batch,
         new.alone = call[p].alone, new.file \in DOMAIN AggFile, new.content \in Content,
         new.missed = call[p].missed,
         DOMAIN new.rows = DOMAIN call[p].rows, Len(new.rows) = Len(call[p].rows),
         \A k \in DOMAIN call[p].rows :
             new.rows[k].id = call[p].rows[k].id /\ new.rows[k].name = call[p].rows[k].name,
         new.pc = "insert" => new.rows[Len(new.rows)].agg = new.content,
         call[p].alone => AggregatedLinks(new)
  PROVE  Kept(p)
<1> DEFINE c == call[p]
<1>0. ~CallAt(p, "idle") /\ c.pc # "idle"
  BY DEF CallAt
<1>1. Progress(c) /\ RowsAreItems(c) /\ Undisturbed(c) /\ UseComponents
  BY <1>0, CallIs DEF Progress
<1>2. Progress(new)
  BY <1>0, <1>1 DEF Progress
<1>3. call'[p] = new /\ (RowsAreItems(call[p])' /\ Undisturbed(call[p])' => Kept(p))
  BY <1>2, MoveIs
<1>4. RowsAreItems(call[p])'
  <2>1. db' = db
    BY DEF tableVars
  <2> QED  BY <1>0, <1>1, <1>3, <2>1 DEF RowsAreItems
<1>5. Linked(c) => Linked(call[p])'
  BY <1>3, LinkedFrame
<1>6. AggregatedLinks(new) => AggregatedLinks(call[p])'
  BY <1>3 DEF AggregatedLinks, Built, tableVars
<1>7. Undisturbed(call[p])'
  BY <1>0, <1>1, <1>3, <1>5, <1>6 DEF Undisturbed
<1> QED  BY <1>3, <1>4, <1>7

LEMMA AggregateKeeps ==
  ASSUME RequestsInv, NEW p \in Client, Aggregate(p)
  PROVE  Kept(p) /\ FilesOK'
<1> DEFINE c == call[p]
           n == NameOf(p)
           new == [c EXCEPT !.pc = "symlink", !.content = Aggregated(n)]
<1>0. /\ ~CallAt(p, "idle") /\ c.pc = "aggregate" /\ TableOK /\ FilesOK
      /\ UNCHANGED <<tableVars, plinks, promos, files, temps, kills>>
      /\ hashdirs' = [hashdirs EXCEPT ![n] = @ \cup {Aggregated(n)}]
      /\ call' = [call EXCEPT ![p] = new]
  BY DEF Aggregate, CallAt, RequestsInv
<1>1. n \in Name /\ c \in Call /\ Progress(c)
  BY <1>0, CallIs
<1>2. Aggregated(n) \in Content
  BY <1>0, <1>1, AggregatedType
<1>3. /\ new \in Call /\ new.pc = "symlink" /\ new.items = c.items /\ new.i = c.i
      /\ new.batch = c.batch /\ new.alone = c.alone /\ new.file = c.file
      /\ new.rows = c.rows /\ new.content = Aggregated(n) /\ new.missed = c.missed
  BY <1>1, <1>2 DEF Call, CallPC
<1>4. AggregatedLinks(new)
  <2>1. ASSUME NEW comp \in Built, plinks[[comp |-> comp, name |-> n]] # None,
               plinks[[comp |-> comp, name |-> n]] \in dirs
        PROVE  Aggregated(n)[comp] = plinks[[comp |-> comp, name |-> n]]
    BY <1>0, <2>1, BuiltIsComponent DEF Aggregated
  <2> HIDE DEF new
  <2> QED  BY <1>3, <2>1 DEF AggregatedLinks, NameOf
<1> HIDE DEF new
<1>5. c.file \in DOMAIN AggFile
  BY <1>0, <1>1 DEF Progress
<1>6. Kept(p)
  BY <1>0, <1>2, <1>3, <1>4, <1>5, AggregateMove
<1>7. FilesOK'
  BY <1>0, <1>1, <1>2 DEF FilesOK
<1> QED  BY <1>6, <1>7

LEMMA AggSymlinkKeeps ==
  ASSUME RequestsInv, NEW p \in Client, AggSymlink(p)
  PROVE  Kept(p) /\ FilesOK'
<1> DEFINE c == call[p]
           n == NameOf(p)
           f == c.file
           new == [c EXCEPT !.pc = "rename"]
<1>0. /\ ~CallAt(p, "idle") /\ c.pc = "symlink" /\ FilesOK
      /\ UNCHANGED <<tableVars, plinks, promos, hashdirs, files, kills>>
  BY DEF AggSymlink, CallAt, RequestsInv
<1>1. n \in Name /\ c \in Call /\ Progress(c) /\ Undisturbed(c)
  BY <1>0, CallIs
<1>2. f \in DOMAIN AggFile /\ c.content \in Content /\ UseComponents
  BY <1>0, <1>1 DEF Progress
<1>3. CASE EndCall(p) /\ UNCHANGED temps
  <2>1. FilesOK'
    BY <1>0, <1>3 DEF FilesOK
  <2> QED  BY <1>3, <2>1, EndKeeps
<1>4. CASE temps' = [temps EXCEPT ![n][f] = c.content] /\ call' = [call EXCEPT ![p] = new]
  <2>1. /\ new \in Call /\ new.pc = "rename" /\ new.items = c.items /\ new.i = c.i
        /\ new.batch = c.batch /\ new.alone = c.alone /\ new.file = c.file
        /\ new.rows = c.rows /\ new.content = c.content /\ new.missed = c.missed
    BY <1>1 DEF Call, CallPC
  <2>2. c.alone => AggregatedLinks(new)
    BY <1>0, <1>1, <1>2, <2>1 DEF Undisturbed, AggregatedLinks
  <2> HIDE DEF new
  <2>3. Kept(p)
    BY <1>0, <1>2, <1>4, <2>1, <2>2, AggregateMove
  <2>4. FilesOK'
    BY <1>0, <1>1, <1>2, <1>4 DEF FilesOK
  <2> QED  BY <2>3, <2>4
<1>5. call' = [call EXCEPT ![p].pc = "rename"] => call' = [call EXCEPT ![p] = new]
  OBVIOUS
<1> QED  BY <1>3, <1>4, <1>5 DEF AggSymlink

LEMMA AggRenameKeeps ==
  ASSUME RequestsInv, NEW p \in Client, AggRename(p)
  PROVE  Kept(p) /\ FilesOK'
<1> DEFINE c == call[p]
           n == NameOf(p)
           f == c.file
           m == Len(c.rows)
           pc == IF f = Len(AggFile) THEN "insert" ELSE "symlink"
           next == IF f = Len(AggFile) THEN f ELSE f + 1
           row == [c.rows[m] EXCEPT !.agg = c.content]
           rows == [c.rows EXCEPT ![m] = row]
           new == [c EXCEPT !.pc = pc, !.file = next, !.rows = rows]
<1>0. /\ ~CallAt(p, "idle") /\ c.pc = "rename" /\ FilesOK
      /\ UNCHANGED <<tableVars, plinks, promos, hashdirs, kills>>
      /\ files' = [files EXCEPT ![n][f] = temps[n][f]]
      /\ temps' = [temps EXCEPT ![n][f] = None]
      /\ call' = [call EXCEPT ![p] = new]
  BY DEF AggRename, CallAt, RequestsInv
<1>1. n \in Name /\ c \in Call /\ Progress(c) /\ Undisturbed(c)
      /\ c.i \in DOMAIN c.items /\ c.items \in Seq(Item)
  BY <1>0, CallIs
<1>2. f \in DOMAIN AggFile /\ c.content \in Content /\ UseComponents /\ m = Len(c.items)
      /\ c.rows \in Seq(Promotion)
  BY <1>0, <1>1 DEF Progress, Call
<1>3. m \in DOMAIN c.rows
  BY <1>1, <1>2
<1>4. row \in Promotion /\ row.id = c.rows[m].id /\ row.name = c.rows[m].name /\ row.agg = c.content
  <2>1. c.rows[m] \in Promotion
    BY <1>2, <1>3
  <2> HIDE DEF m
  <2> QED  BY <1>2, <2>1 DEF Promotion
<1> HIDE DEF row
<1>5. /\ rows \in Seq(Promotion) /\ DOMAIN rows = DOMAIN c.rows /\ Len(rows) = Len(c.rows)
      /\ rows[m] = row /\ \A j \in DOMAIN c.rows \ {m} : rows[j] = c.rows[j]
  BY <1>2, <1>3, <1>4, ReplacedPromotion
<1> HIDE DEF rows
<1>6. next \in DOMAIN AggFile /\ next \in Nat /\ pc \in {"insert", "symlink"} /\ pc \in CallPC
  <2>1. AggFile \in Seq(STRING)
    BY PromotionsAssumption
  <2> QED  BY <1>2, <2>1 DEF CallPC
<1> HIDE DEF next, pc
<1>7. /\ new \in Call /\ new.pc = pc /\ new.items = c.items /\ new.i = c.i
      /\ new.batch = c.batch /\ new.alone = c.alone /\ new.file = next
      /\ new.rows = rows /\ new.content = c.content /\ new.missed = c.missed
  BY <1>1, <1>5, <1>6 DEF Call
<1>8. c.alone => AggregatedLinks(new)
  BY <1>0, <1>1, <1>2, <1>7 DEF Undisturbed, AggregatedLinks
<1> HIDE DEF new
<1>9. new.rows[Len(new.rows)].agg = new.content
  BY <1>4, <1>5, <1>7
<1>10. \A k \in DOMAIN c.rows : new.rows[k].id = c.rows[k].id /\ new.rows[k].name = c.rows[k].name
  BY <1>4, <1>5, <1>7
<1>11. Kept(p)
  BY <1>0, <1>2, <1>5, <1>6, <1>7, <1>8, <1>9, <1>10, AggregateMove
<1>12. FilesOK'
  BY <1>0, <1>1, <1>2 DEF FilesOK
<1> QED  BY <1>11, <1>12

LEMMA InsertKeeps ==
  ASSUME RequestsInv, NEW p \in Client, NEW known, Insert(p, known)
  PROVE  Kept(p) /\ FilesOK' /\ UNCHANGED tableVars
<1>1. /\ ~CallAt(p, "idle") /\ EndCall(p) /\ FilesOK
      /\ UNCHANGED <<tableVars, plinks, aggVars, kills>>
  BY DEF Insert, CallAt, RequestsInv
<1>2. call[p].rows \in Seq(Promotion)
  BY <1>1, CallIs DEF Call
<1>3. promos' \in Seq(Promotion)
  <2>1. promos \in Seq(Promotion)
    BY <1>1 DEF FilesOK
  <2>2. promos' = promos \/ promos' = promos \o call[p].rows
    BY DEF Insert
  <2>3. promos \o call[p].rows \in Seq(Promotion)
    BY <1>2, <2>1
  <2> QED  BY <2>1, <2>2, <2>3
<1>4. FilesOK'
  BY <1>1, <1>3 DEF FilesOK, aggVars
<1> QED  BY <1>1, <1>4, EndKeeps
-----------------------------------------------------------------------------
(* Every step of a promotion                                               *)

(* Temporary names stay in use when those who are to rename them stay.     *)
LEMMA TempsFrame ==
  ASSUME AggTempInUse, UNCHANGED <<temps, kills>>,
         \A q \in Client : CallAt(q, "rename") =>
             /\ CallAt(q, "rename")' /\ call'[q].items = call[q].items
             /\ call'[q].file = call[q].file /\ call'[q].content = call[q].content
  PROVE  AggTempInUse'
BY DEF AggTempInUse, NameOf

LEMMA SymlinkInUse ==
  ASSUME RequestsInv, NEW p \in Client, AggSymlink(p)
  PROVE  AggTempInUse'
<1> DEFINE c == call[p]
           n == NameOf(p)
           f == c.file
<1>0. ~CallAt(p, "idle") /\ ~CallAt(p, "rename") /\ c.pc = "symlink" /\ FilesOK /\ UNCHANGED kills
  BY DEF AggSymlink, CallAt, RequestsInv
<1>1. n \in Name /\ c \in Call /\ Progress(c)
  BY <1>0, CallIs
<1>2. f \in DOMAIN AggFile /\ c.content \in Content
  BY <1>0, <1>1 DEF Progress
<1>3. CASE EndCall(p) /\ UNCHANGED temps
  BY <1>0, <1>3, TempsFrame DEF EndCall, RequestsInv, CallAt
<1>4. CASE temps' = [temps EXCEPT ![n][f] = c.content] /\ call' = [call EXCEPT ![p].pc = "rename"]
  <2>1. /\ CallAt(p, "rename")' /\ call'[p].items = c.items /\ call'[p].file = f
        /\ call'[p].content = c.content
    BY <1>1, <1>4 DEF CallAt, RequestsInv, Call
  <2>2. \A q \in Client \ {p} : call'[q] = call[q]
    BY <1>4 DEF RequestsInv
  <2>3. temps'[n][f] = c.content
        /\ \A m \in Name, g \in DOMAIN AggFile : (m # n \/ g # f) => temps'[m][g] = temps[m][g]
    BY <1>0, <1>1, <1>2, <1>4 DEF FilesOK
  <2> SUFFICES ASSUME kills = 0, NEW m \in Name, NEW g \in DOMAIN AggFile, temps'[m][g] # None
               PROVE  \E q \in Client : /\ CallAt(q, "rename")' /\ NameOf(q)' = m /\ call'[q].file = g
                                        /\ call'[q].content = temps'[m][g]
    BY <1>0 DEF AggTempInUse
  <2>4. CASE m = n /\ g = f
    BY <2>1, <2>3, <2>4 DEF NameOf
  <2>5. CASE m # n \/ g # f
    <3>1. PICK q \in Client : /\ CallAt(q, "rename") /\ NameOf(q) = m /\ call[q].file = g
                              /\ call[q].content = temps[m][g]
      BY <2>3, <2>5 DEF AggTempInUse, RequestsInv
    <3>2. call'[q] = call[q]
      BY <1>0, <2>2, <3>1
    <3> QED  BY <2>3, <2>5, <3>1, <3>2 DEF CallAt, NameOf
  <2> QED  BY <2>4, <2>5
<1> QED  BY <1>3, <1>4 DEF AggSymlink

LEMMA RenameInUse ==
  ASSUME RequestsInv, NEW p \in Client, AggRename(p)
  PROVE  AggTempInUse'
<1> DEFINE c == call[p]
           n == NameOf(p)
           f == c.file
<1>0. ~CallAt(p, "idle") /\ c.pc = "rename" /\ FilesOK /\ UNCHANGED kills
      /\ temps' = [temps EXCEPT ![n][f] = None]
  BY DEF AggRename, CallAt, RequestsInv
<1>1. n \in Name /\ c \in Call /\ Progress(c)
  BY <1>0, CallIs
<1>2. f \in DOMAIN AggFile
  BY <1>0, <1>1 DEF Progress
<1>3. \A q \in Client \ {p} : call'[q] = call[q]
  BY DEF AggRename, RequestsInv
<1>4. temps'[n][f] = None
      /\ \A m \in Name, g \in DOMAIN AggFile : (m # n \/ g # f) => temps'[m][g] = temps[m][g]
  BY <1>0, <1>1, <1>2 DEF FilesOK
<1> SUFFICES ASSUME kills = 0, NEW m \in Name, NEW g \in DOMAIN AggFile, temps'[m][g] # None
             PROVE  \E q \in Client : /\ CallAt(q, "rename")' /\ NameOf(q)' = m /\ call'[q].file = g
                                      /\ call'[q].content = temps'[m][g]
  BY <1>0 DEF AggTempInUse
<1>5. m # n \/ g # f
  BY <1>4
<1>6. PICK q \in Client : /\ CallAt(q, "rename") /\ NameOf(q) = m /\ call[q].file = g
                          /\ call[q].content = temps[m][g]
  BY <1>4, <1>5 DEF AggTempInUse, RequestsInv
<1>7. call'[q] = call[q]
  BY <1>3, <1>5, <1>6
<1> QED  BY <1>4, <1>5, <1>6, <1>7 DEF CallAt, NameOf

LEMMA PromotionStepKeeps ==
  ASSUME RequestsInv, NEW p \in Client, NEW known, PromotionStep(p, known)
  PROVE  /\ Kept(p) /\ FilesOK' /\ UNCHANGED tableVars
         /\ AggTempInUse' /\ ~CallAt(p, "idle")
<1>1. ASSUME Kept(p), UNCHANGED <<temps, kills>>, ~CallAt(p, "rename")
      PROVE  AggTempInUse'
  <2>1. \A q \in Client \ {p} : call'[q] = call[q]
    BY <1>1 DEF Kept, RequestsInv
  <2>2. AggTempInUse
    BY DEF RequestsInv
  <2> QED  BY <1>1, <2>1, <2>2, TempsFrame DEF CallAt
<1>2. CASE Check(p) \/ Look(p) \/ LinkFails(p)
  <2>1. Kept(p)
    BY <1>2, CheckKeeps, LookKeeps, LinkFailsKeeps
  <2>2. UNCHANGED <<tableVars, plinks, promos, aggVars, kills>> /\ ~CallAt(p, "idle") /\ ~CallAt(p, "rename")
    BY <1>2 DEF Check, Look, LinkFails, CallAt
  <2>3. FilesOK' /\ UNCHANGED <<temps, kills>>
    BY <2>2 DEF FilesOK, RequestsInv, aggVars
  <2> QED  BY <1>1, <2>1, <2>2, <2>3
<1>3. CASE Unlink(p) \/ MakeLink(p) \/ RollBack(p)
  <2>1. Kept(p) /\ FilesOK'
    BY <1>3, UnlinkKeeps, MakeLinkKeeps, RollBackKeeps
  <2>2. UNCHANGED <<tableVars, temps, kills>> /\ ~CallAt(p, "idle") /\ ~CallAt(p, "rename")
    BY <1>3 DEF Unlink, MakeLink, RollBack, CallAt, aggVars
  <2> QED  BY <1>1, <2>1, <2>2
<1>4. CASE Aggregate(p)
  <2>1. UNCHANGED <<tableVars, temps, kills>> /\ ~CallAt(p, "idle") /\ ~CallAt(p, "rename")
    BY <1>4 DEF Aggregate, CallAt
  <2> QED  BY <1>1, <1>4, <2>1, AggregateKeeps
<1>5. CASE AggSymlink(p)
  <2>1. UNCHANGED tableVars /\ ~CallAt(p, "idle")
    BY <1>5 DEF AggSymlink, CallAt
  <2> QED  BY <1>5, <2>1, AggSymlinkKeeps, SymlinkInUse
<1>6. CASE AggRename(p)
  <2>1. UNCHANGED tableVars /\ ~CallAt(p, "idle")
    BY <1>6 DEF AggRename, CallAt
  <2> QED  BY <1>6, <2>1, AggRenameKeeps, RenameInUse
<1>7. CASE Insert(p, known)
  <2>1. UNCHANGED <<temps, kills>> /\ ~CallAt(p, "idle") /\ ~CallAt(p, "rename")
    BY <1>7 DEF Insert, CallAt, aggVars
  <2> QED  BY <1>1, <1>7, <2>1, InsertKeeps
<1> QED  BY <1>2, <1>3, <1>4, <1>5, <1>6, <1>7 DEF PromotionStep

(* What the threads of the server hold, after a step of one of them ...    *)
LEMMA CallsAfterOwn ==
  ASSUME RequestsInv, NEW p \in Client, Kept(p), ~CallAt(p, "idle"), RowsKept, UNCHANGED dirs,
         call'[p].pc # "idle" => auth'[p].pc = auth[p].pc,
         \A q \in Client \ {p} : auth'[q] = auth[q]
  PROVE  call' \in [Client -> Call] /\ CallsOK'
<1>1. PICK new \in Call : /\ call' = [call EXCEPT ![p] = new]
                          /\ new.pc # "idle" => new.alone = call[p].alone
  BY DEF Kept
<1>2. call \in [Client -> Call] /\ CallsOK
  BY DEF RequestsInv
<1>3. call' \in [Client -> Call] /\ call'[p] = new /\ \A q \in Client \ {p} : call'[q] = call[q]
  BY <1>1, <1>2
<1>4. p \in InProgress
  BY DEF InProgress
<1>5. ASSUME NEW q \in Client
      PROVE  Progress(call[q])' /\ RowsAreItems(call[q])' /\ Undisturbed(call[q])'
  <2>1. CASE q = p
    BY <2>1 DEF Kept
  <2>2. CASE q # p
    <3>1. ~call[q].alone \/ CallAt(q, "idle")
      BY <1>2, <1>4, <2>2 DEF CallsOK
    <3> QED  BY <1>2, <1>3, <2>2, <3>1, CallFrame DEF CallsOK
  <2> QED  BY <2>1, <2>2
<1>6. ASSUME NEW q \in Client, ~CallAt(q, "idle")'
      PROVE  /\ AuthAt(q, "granted")' /\ ~CallAt(q, "idle")
             /\ call'[q].alone => InProgress' = {q}
  <2>1. ~CallAt(q, "idle")
    BY <1>3, <1>6 DEF CallAt
  <2>2. AuthAt(q, "granted")'
    BY <1>2, <1>6, <2>1 DEF CallsOK, AuthAt, CallAt
  <2>3. InProgress' \subseteq InProgress /\ q \in InProgress'
    BY <1>3, <1>4, <1>6 DEF InProgress, CallAt
  <2>4. call'[q].alone => call[q].alone
    BY <1>1, <1>3, <1>6 DEF CallAt
  <2> QED  BY <1>2, <2>1, <2>2, <2>3, <2>4 DEF CallsOK
<1> QED  BY <1>3, <1>5, <1>6 DEF CallsOK

(* ... and after one of somebody else.                                     *)
LEMMA CallsAfterOther ==
  ASSUME RequestsInv, UNCHANGED <<plinks, call, dirs>>, RowsKept,
         \A q \in Client : ~CallAt(q, "idle") => auth'[q].pc = auth[q].pc
  PROVE  call' \in [Client -> Call] /\ CallsOK'
<1>1. call \in [Client -> Call] /\ CallsOK
  BY DEF RequestsInv
<1>2. ASSUME NEW q \in Client
      PROVE  Progress(call[q])' /\ RowsAreItems(call[q])' /\ Undisturbed(call[q])'
  BY <1>1, CallFrame DEF CallsOK
<1>3. InProgress' = InProgress
  BY DEF InProgress, CallAt
<1> QED  BY <1>1, <1>2, <1>3 DEF CallsOK, CallAt, AuthAt

(* A promotion begins: from now on no request is alone, but this one if    *)
(* nobody else is at work.                                                 *)
LEMMA StartKeeps ==
  ASSUME RequestsInv, NEW p \in Client, NEW items \in Requests, NEW batch \in BOOLEAN,
         StartPromotion(p, items, batch), AuthAt(p, "granted"), UNCHANGED auth
  PROVE  call' \in [Client -> Call] /\ CallsOK' /\ FilesOK' /\ AggTempInUse'
<1> DEFINE opened == [NoCall EXCEPT !.pc = "check", !.batch = batch, !.items = items,
                                    !.before = plinks]
           new == IF InProgress = {} THEN opened ELSE Joined(opened)
<1>0. /\ CallAt(p, "idle") /\ Len(items) \in 1..MaxBatch /\ (~batch => Len(items) = 1)
      /\ UNCHANGED <<tableVars, plinks, promos, aggVars, kills>>
      /\ call' = [q \in Client |->
           IF q = p THEN new
           ELSE IF q \in InProgress THEN Joined(call[q]) ELSE call[q]]
      /\ call \in [Client -> Call] /\ CallsOK /\ TableOK /\ FilesOK
  BY DEF StartPromotion, RequestsInv
<1>1. items \in Seq(Item) /\ 1 \in DOMAIN items /\ (~batch => Len(items) = 1)
  <2>0. Len(items) \in 1..MaxBatch /\ (~batch => Len(items) = 1)
    BY <1>0
  <2>1. PICK n \in 1..MaxBatch : items \in [1..n -> Item]
    BY DEF Requests
  <2>2. n \in Nat
    BY <2>1, PromotionsAssumption
  <2>3. items \in Seq(Item)
    BY <2>1, <2>2
  <2>4. 1 \in DOMAIN items
    BY <2>0, <2>2, <2>3, PromotionsAssumption
  <2> QED  BY <2>0, <2>3, <2>4
<1>2. /\ new \in Call /\ new.pc = "check" /\ new.batch = batch /\ new.items = items /\ new.i = 1
      /\ new.rows = <<>> /\ new.undo = <<>> /\ new.file = 1 /\ new.missed = {}
      /\ new.alone = (InProgress = {}) /\ (new.alone => new.before = plinks)
  <2>1. plinks \in [Link -> Rev \cup {None}]
    BY <1>0 DEF FilesOK
  <2>2. "check" \in CallPC
    BY DEF CallPC
  <2>3. NoCall \in Call /\ NoCall.i = 1 /\ NoCall.rows = <<>> /\ NoCall.undo = <<>> /\ NoCall.file = 1
        /\ NoCall.missed = {} /\ NoCall.alone = TRUE
    BY NoCallType DEF NoCall
  <2> HIDE DEF InProgress, NoCall
  <2>4. /\ opened \in Call /\ opened.pc = "check" /\ opened.batch = batch /\ opened.items = items
        /\ opened.i = 1 /\ opened.rows = <<>> /\ opened.undo = <<>> /\ opened.file = 1
        /\ opened.before = plinks /\ opened.missed = {} /\ opened.alone = TRUE
    BY <1>1, <2>1, <2>2, <2>3 DEF Call
  <2> HIDE DEF opened
  <2> QED  BY <2>4, JoinedType
<1> HIDE DEF new
<1>3. 1 \in DOMAIN AggFile
  BY PromotionsAssumption
<1>4. call'[p] = new
      /\ \A q \in Client \ {p} :
            call'[q] = IF q \in InProgress THEN Joined(call[q]) ELSE call[q]
  BY <1>0
<1>5. TableOK' /\ RowsKept /\ UNCHANGED dirs
  BY <1>0, SameRows DEF tableVars
<1>6. Progress(call[p])' /\ RowsAreItems(call[p])' /\ Undisturbed(call[p])'
  <2>1. Progress(call[p])'
    BY <1>1, <1>2, <1>3, <1>4 DEF Progress, LinkOf
  <2>2. RowsAreItems(call[p])'
    BY <1>2, <1>4 DEF RowsAreItems
  <2>3. new.alone => CanUndo(call[p])'
    BY <1>0, <1>2, <1>4 DEF CanUndo
  <2>4. Linked(call[p])'
    BY <1>2, <1>4 DEF Linked
  <2> QED  BY <1>2, <1>4, <2>1, <2>2, <2>3, <2>4 DEF Undisturbed
<1>7. ASSUME NEW q \in Client \ {p}
      PROVE  Progress(call[q])' /\ RowsAreItems(call[q])' /\ Undisturbed(call[q])'
  <2>1. \/ call'[q] = Joined(call[q])
        \/ CallAt(q, "idle") /\ call'[q] = call[q]
    BY <1>4 DEF InProgress
  <2> QED  BY <1>0, <1>5, <2>1, CallFrame DEF CallsOK
<1>8. ASSUME NEW q \in Client \ {p}
      PROVE  /\ call'[q] \in Call /\ call'[q].pc = call[q].pc /\ call'[q].items = call[q].items
             /\ call'[q].file = call[q].file /\ call'[q].content = call[q].content
             /\ ~CallAt(q, "idle") => ~call'[q].alone
  <2>1. call[q] \in Call
    BY <1>0
  <2>2. call'[q] = Joined(call[q]) \/ (CallAt(q, "idle") /\ call'[q] = call[q])
    BY <1>4 DEF InProgress
  <2> QED  BY <2>1, <2>2, JoinedType
<1>9. call' = [q \in Client |-> call'[q]]
  BY <1>0
<1>10. call' \in [Client -> Call]
  BY <1>2, <1>4, <1>8, <1>9
<1>11. new.alone => InProgress' = {p}
  BY ZenonT(30), <1>2, <1>4, <1>8 DEF InProgress, CallAt
<1>12. CallsOK'
  <2>1. ASSUME NEW q \in Client, ~CallAt(q, "idle")'
        PROVE  AuthAt(q, "granted")' /\ (call'[q].alone => InProgress' = {q})
    <3>1. CASE q = p
      BY <1>4, <1>11, <3>1 DEF AuthAt
    <3>2. CASE q # p
      BY <1>0, <1>8, <2>1, <3>2 DEF AuthAt, CallAt, CallsOK
    <3> QED  BY <3>1, <3>2
  <2> QED  BY <1>6, <1>7, <2>1 DEF CallsOK
<1>13. FilesOK'
  BY <1>0 DEF FilesOK, aggVars
<1>14. AggTempInUse'
  <2>1. \A q \in Client : CallAt(q, "rename") =>
             /\ CallAt(q, "rename")' /\ call'[q].items = call[q].items
             /\ call'[q].file = call[q].file /\ call'[q].content = call[q].content
    BY <1>0, <1>8 DEF CallAt
  <2> QED  BY <1>0, <2>1, TempsFrame DEF RequestsInv, aggVars
<1> QED  BY <1>10, <1>12, <1>13, <1>14

-----------------------------------------------------------------------------
(* The votes                                                               *)

(* A vote is of a row that is found for its revision, and stays that.      *)
LEMMA VotesFrame ==
  ASSUME TableOK, TableOK', VotesOK, RowsKept, UNCHANGED votes, aggvotes' \in Seq(AggVote)
  PROVE  VotesOK'
<1>1. ASSUME NEW row, Voted(row)
      PROVE  Voted(row)'
  <2>1. row \in DOMAIN db' /\ db'[row].vote /\ db'[row].rev = db[row].rev
    BY <1>1 DEF Voted, RowsKept
  <2>2. row \in FindCommit(db[row].rev)'
    BY <1>1, FoundStays DEF Voted
  <2> QED  BY <2>1, <2>2 DEF Voted, FindCommit
<1> QED  BY <1>1 DEF VotesOK

(* A new vote of a row that is found for its revision; in a pipeline, of   *)
(* one the job before has voted for.                                       *)
LEMMA CastKeeps ==
  ASSUME TableOK, VotesOK, PipelineOrder, NEW vote \in CIVote, Cast(vote),
         vote.row \in DOMAIN db, vote.row \in FindCommit(db[vote.row].rev),
         vote.after # None =>
             \E j \in DOMAIN votes : votes[j].row = vote.row /\ votes[j].job = vote.after
  PROVE  TableOK' /\ RowsKept /\ VotesOK' /\ PipelineOrder' /\ UNCHANGED dirs
<1> DEFINE row == vote.row
<1>1. votes' = Append(votes, vote) /\ UNCHANGED <<purged, dirs, aggvotes>>
      /\ db' = [db EXCEPT ![row].vote = TRUE]
  BY DEF Cast
<1>2. TableOK' /\ RowsKept /\ db'[row].vote
  BY <1>1, VoteFlags
<1>3. votes \in Seq(CIVote) /\ Len(votes) \in Nat
  BY DEF VotesOK
<1>4. /\ votes' \in Seq(CIVote) /\ DOMAIN votes' = DOMAIN votes \cup {Len(votes) + 1}
      /\ votes'[Len(votes) + 1] = vote /\ \A i \in DOMAIN votes : votes'[i] = votes[i]
  BY <1>1, <1>3
<1>5. VotesOK'
  <2>1. \A i \in DOMAIN db : db'[i].gone = db[i].gone
    <3>1. ASSUME NEW i \in DOMAIN db
          PROVE  db'[i].gone = db[i].gone
      <4>1. db[i] \in Row /\ db \in Seq(Row)
        BY RowType DEF TableOK
      <4> QED  BY <1>1, <4>1 DEF Row
    <3> QED  BY <3>1
  <2>2. ASSUME NEW r \in DOMAIN db, db[r].vote \/ r = row, r \in FindCommit(db[r].rev)
        PROVE  Voted(r)'
    <3> DEFINE rows(rev) == {i \in Live(db) : db[i].rev = rev /\ db[i].status = "SUCCESS"}
    <3>1. r \in DOMAIN db' /\ db'[r].vote /\ db'[r].rev = db[r].rev
      BY <1>2, <2>2 DEF RowsKept
    <3>2. \A rev : rows(rev)' = rows(rev)
      BY <1>2, <2>1 DEF RowsKept, Live
    <3> QED  BY <2>2, <3>1, <3>2 DEF Voted, FindCommit, Latest
  <2>3. ASSUME NEW i \in DOMAIN votes'
        PROVE  Voted(votes[i].row)'
    <3>1. PICK r : /\ r = votes'[i].row /\ r \in DOMAIN db
                   /\ db[r].vote \/ r = row
                   /\ r \in FindCommit(db[r].rev)
      BY <1>4 DEF VotesOK, Voted
    <3>2. Voted(r)'
      BY <2>2, <3>1
    <3> QED  BY <3>1, <3>2 DEF Voted, FindCommit
  <2>4. aggvotes' \in Seq(AggVote)
    BY <1>1 DEF VotesOK
  <2> QED  BY <1>4, <2>3, <2>4 DEF VotesOK
<1>6. PipelineOrder'
  <2> SUFFICES ASSUME NEW i \in DOMAIN votes', votes'[i].after # None
               PROVE  \E j \in 1..(i - 1) : votes'[j].row = votes'[i].row
                                            /\ votes'[j].job = votes'[i].after
    BY DEF PipelineOrder
  <2>1. CASE i \in DOMAIN votes
    <3>1. PICK j \in 1..(i - 1) : votes[j].row = votes[i].row /\ votes[j].job = votes[i].after
      BY <1>4, <2>1 DEF PipelineOrder
    <3>2. j \in DOMAIN votes
      BY <1>3, <2>1
    <3> QED  BY <1>4, <2>1, <3>1, <3>2
  <2>2. CASE i = Len(votes) + 1
    <3>1. PICK j \in DOMAIN votes : votes[j].row = vote.row /\ votes[j].job = vote.after
      BY <1>4, <2>2
    <3>2. j \in 1..(i - 1)
      BY <1>3, <2>2
    <3> QED  BY <1>4, <2>2, <3>1, <3>2
  <2> QED  BY <1>4, <2>1, <2>2
<1> QED  BY <1>1, <1>2, <1>5, <1>6
LEMMA ReportKeeps ==
  ASSUME TableOK, VotesOK, PipelineOrder, NEW r, NEW job \in Job, NEW success \in BOOLEAN,
         NEW ts \in Nat, ReportResult(r, job, success, ts)
  PROVE  TableOK' /\ RowsKept /\ VotesOK' /\ PipelineOrder' /\ UNCHANGED dirs
<1>1. PICK i \in FindCommit(r) :
        Cast([row |-> i, job |-> job, success |-> success, inProgress |-> FALSE, ts |-> ts, after |-> None])
  BY DEF ReportResult
<1> DEFINE vote == [row |-> i, job |-> job, success |-> success, inProgress |-> FALSE, ts |-> ts, after |-> None]
<1>2. i \in DOMAIN db /\ db[i].rev = r /\ i \in Nat
  BY FindCommitIs, RowType
<1>3. vote \in CIVote /\ vote.row = i /\ vote.after = None
  BY <1>2 DEF CIVote
<1>4. Cast(vote)
  BY <1>1
<1> HIDE DEF vote
<1> QED  BY <1>2, <1>3, <1>4, CastKeeps

LEMMA GetVoteIs ==
  ASSUME NEW since, NEW success, NEW job, NEW comp, NEW fallback,
         NEW i \in GetVote(since, success, job, comp, fallback)
  PROVE  i \in DOMAIN votes /\ (~fallback => Matches(votes[i].job, job))
BY DEF GetVote, NewestVote, Asked, OfComponent, Real, Recent

LEMMA TestKeeps ==
  ASSUME TableOK, VotesOK, PipelineOrder, NEW me \in Job, NEW previous \in Job,
         NEW sequential \in BOOLEAN, NEW comp, NEW job, NEW ts \in Nat,
         TestLast(me, sequential, 0, NotGiven, job, previous, comp, ts)
  PROVE  TableOK' /\ RowsKept /\ VotesOK' /\ PipelineOrder' /\ UNCHANGED dirs
<1> DEFINE after == IF sequential THEN previous ELSE None
           vote(i) == [row |-> votes[i].row, job |-> me, success |-> FALSE, inProgress |-> TRUE,
                       ts |-> ts, after |-> after]
<1>1. PICK i \in LastTested(sequential, 0, NotGiven, job, previous, comp) : Cast(vote(i))
  BY DEF TestLast
<1>2. i \in DOMAIN votes /\ (sequential => votes[i].job = previous)
  <2>1. previous # NotGiven
    BY CIVotesAssumption
  <2>2. CASE sequential
    <3>1. i \in GetVote(0, NotGiven, previous, comp, FALSE)
      BY <1>1, <2>2 DEF LastTested
    <3>2. i \in DOMAIN votes /\ Matches(votes[i].job, previous)
      BY <3>1, GetVoteIs
    <3> QED  BY <2>1, <3>2 DEF Matches
  <2>3. CASE ~sequential
    <3>1. i \in GetVote(0, NotGiven, job, comp, TRUE)
      BY <1>1, <2>3 DEF LastTested
    <3> QED  BY <2>3, <3>1, GetVoteIs
  <2> QED  BY <2>2, <2>3
<1>3. Voted(votes[i].row) /\ votes[i].row \in Nat
  <2>1. votes[i] \in CIVote
    BY <1>2 DEF VotesOK
  <2> QED  BY <1>2, <2>1 DEF VotesOK, CIVote
<1>4. after \in Job \cup {None}
  OBVIOUS
<1>5. after # None => after = previous /\ sequential
  OBVIOUS
<1> HIDE DEF after
<1>6. vote(i) \in CIVote /\ vote(i).row = votes[i].row /\ vote(i).after = after
  BY <1>3, <1>4 DEF CIVote
<1> HIDE DEF vote
<1> QED  BY <1>1, <1>2, <1>3, <1>5, <1>6, CastKeeps DEF Voted

-----------------------------------------------------------------------------
(* Every step                                                              *)

(* Who has been granted the role stays so during the authentication of     *)
(* others.                                                                 *)
LEMMA GrantedStays ==
  ASSUME AgeInv, NEW p \in Client, AuthStep(p), NEW q \in Client, AuthAt(q, "granted")
  PROVE  auth'[q].pc = auth[q].pc
<1>1. auth \in [Client -> Session] /\ q \notin Asking
  BY DEF AgeInv, AuthTypeOK, AuthAt, Asking, Remote
<1>2. p # q
  BY DEF AuthStep, Lookup, CheckAge, ReadCache, CallSucceeds, CallFails, CallRaises, Clear, Stamp,
         Store, Decide, AuthAt, Remote
<1>3. auth'[q] = auth[q]
  <2>1. CASE Ask(p)
    BY <1>1, <1>2, <2>1 DEF Ask
  <2>2. CASE Leave(p) \/ \E l \in AuthPC : Proceed(p, l)
    BY <1>1, <1>2, <2>2 DEF Leave, Proceed
  <2>3. CASE Lookup(p) \/ CheckAge(p) \/ Clear(p) \/ Stamp(p) \/ Store(p)
    <3>1. {"age", "read", "stamp", "store", "decide"} \subseteq AuthPC
      BY DEF AuthPC
    <3> QED  BY <2>1, <2>2, <2>3, <3>1 DEF Lookup, CheckAge, Clear, Stamp, Store
  <2>4. CASE ReadCache(p) \/ CallSucceeds(p) \/ CallFails(p) \/ CallRaises(p) \/ Decide(p)
    BY <1>1, <1>2, <2>2, <2>4 DEF ReadCache, CallSucceeds, CallFails, CallRaises, Decide
  <2> QED  BY <2>3, <2>4 DEF AuthStep
<1> QED  BY <1>3

LEMMA UserKnown ==
  ASSUME AgeInv, NEW p \in Client, AuthAt(p, "granted")
  PROVE  auth[p].user \in User
BY DEF AgeInv, SessionAge, AuthAt

(* What a step does to the table, given that the promotions stay.          *)
LEMMA OtherKeeps ==
  ASSUME RequestsInv, UNCHANGED promotionVars, TableOK', RowsKept, UNCHANGED dirs,
         \A q \in Client : ~CallAt(q, "idle") => auth'[q].pc = auth[q].pc,
         VotesOK', PipelineOrder', CountsOK'
  PROVE  RequestsInv'
<1>1. call' \in [Client -> Call] /\ CallsOK'
  BY CallsAfterOther DEF promotionVars
<1>2. FilesOK'
  BY DEF promotionVars, aggVars, FilesOK, RequestsInv
<1>3. AggTempInUse'
  BY TempsFrame DEF promotionVars, aggVars, RequestsInv, CallAt
<1> QED  BY <1>1, <1>2, <1>3 DEF RequestsInv

LEMMA SameVotes ==
  ASSUME RequestsInv, TableOK', RowsKept, UNCHANGED voteVars
  PROVE  VotesOK' /\ PipelineOrder'
<1>1. VotesOK'
  BY VotesFrame DEF RequestsInv, VotesOK, voteVars
<1>2. PipelineOrder'
  BY DEF RequestsInv, PipelineOrder, voteVars
<1> QED  BY <1>1, <1>2

(* The request of somebody who is not promoting is answered.               *)
LEMMA AnsweredKeeps ==
  ASSUME AgeInv, RequestsInv, NEW p \in Client, NEW signs \in BOOLEAN, Granted(p, signs),
         TableOK', RowsKept, UNCHANGED dirs, VotesOK', PipelineOrder'
  PROVE  RequestsInv'
<1>1. /\ CallAt(p, "idle") /\ AuthAt(p, "granted") /\ auth' = [auth EXCEPT ![p] = NoSession]
      /\ UNCHANGED <<promotionVars, calls, admins>>
  BY DEF Granted
<1>2. \A q \in Client : ~CallAt(q, "idle") => auth'[q].pc = auth[q].pc
  BY <1>1 DEF AgeInv, AuthTypeOK
<1>3. CountsOK'
  BY <1>1, UserKnown DEF Granted, CountsOK, RequestsInv
<1> QED  BY <1>1, <1>2, <1>3, OtherKeeps

LEMMA RequestsStep ==
  ASSUME AgeInv, RequestsInv, [Next]_vars
  PROVE  RequestsInv'
<1>0. TableOK /\ VotesOK /\ PipelineOrder /\ CountsOK /\ now \in Nat /\ auth \in [Client -> Session]
  BY DEF RequestsInv, AgeInv, AuthTypeOK
<1>1. ASSUME UNCHANGED <<tableVars, promotionVars, voteVars, authors>>, CountsOK',
             \A q \in Client : ~CallAt(q, "idle") => auth'[q].pc = auth[q].pc
      PROVE  RequestsInv'
  <2>1. TableOK' /\ RowsKept /\ UNCHANGED dirs
    BY <1>0, <1>1, SameRows DEF tableVars
  <2> QED  BY <1>1, <2>1, SameVotes, OtherKeeps
<1>2. CASE UNCHANGED vars
  BY <1>0, <1>1, <1>2 DEF vars, apiVars, authVars, CountsOK
<1>3. ASSUME NEW p \in Client, Negotiate(p) \/ VerifyPassword(p) \/ Authorization(p)
      PROVE  RequestsInv'
  <2>1. UNCHANGED <<tableVars, promotionVars, voteVars, authors>> /\ CountsOK'
    BY <1>0, <1>3 DEF Negotiate, VerifyPassword, Authorization, apiVars, CountsOK
  <2>2. \A q \in Client : ~CallAt(q, "idle") => auth'[q].pc = auth[q].pc
    <3>1. CASE Negotiate(p) \/ VerifyPassword(p)
      BY <1>0, <3>1 DEF Negotiate, VerifyPassword, Idle, Authenticate
    <3>2. CASE Authorization(p)
      BY <3>2, GrantedStays DEF Authorization, RequestsInv, CallsOK
    <3> QED  BY <1>3, <3>1, <3>2
  <2> QED  BY <1>1, <2>1, <2>2
<1>4. ASSUME NEW p \in Client, Promote(p)
      PROVE  RequestsInv'
  <2>1. PICK items \in Requests, batch \in BOOLEAN : StartPromotion(p, items, batch)
    BY <1>4 DEF Promote
  <2>2. AuthAt(p, "granted") /\ UNCHANGED <<voteVars, auth, authors, calls, admins>>
    BY <1>4 DEF Promote, authVars, apiVars
  <2>3. TableOK' /\ RowsKept
    BY <1>0, <2>1, SameRows DEF StartPromotion
  <2> QED  BY <1>0, <2>1, <2>2, <2>3, StartKeeps, SameVotes DEF RequestsInv, CountsOK
<1>5. ASSUME NEW p \in Client, Handle(p)
      PROVE  RequestsInv'
  <2>1. /\ Kept(p) /\ FilesOK' /\ UNCHANGED tableVars
        /\ AggTempInUse' /\ ~CallAt(p, "idle")
    BY <1>5, PromotionStepKeeps DEF Handle
  <2>2. TableOK' /\ RowsKept /\ UNCHANGED dirs
    BY <1>0, <2>1, SameRows DEF tableVars
  <2>3. /\ call'[p].pc # "idle" => auth'[p].pc = auth[p].pc
        /\ \A q \in Client \ {p} : auth'[q] = auth[q]
    BY <1>0, <1>5 DEF Handle
  <2>4. auth[p].user \in User
    BY <2>1, UserKnown DEF RequestsInv, CallsOK
  <2>5. CountsOK' /\ UNCHANGED voteVars
    BY <1>0, <1>5, <2>4 DEF Handle, CountsOK
  <2> QED  BY <2>1, <2>2, <2>3, <2>5, CallsAfterOwn, SameVotes DEF RequestsInv
<1>6. ASSUME NEW p \in Client, Kill(p)
      PROVE  RequestsInv'
  <2>1. /\ ~CallAt(p, "idle") /\ EndCall(p) /\ kills' = kills + 1
        /\ UNCHANGED <<tableVars, plinks, promos, aggVars, voteVars, authors, calls, admins>>
        /\ auth' = [auth EXCEPT ![p] = NoSession]
    BY <1>6 DEF Kill, KillPromotion, apiVars
  <2>2. TableOK' /\ RowsKept /\ UNCHANGED dirs
    BY <1>0, <2>1, SameRows DEF tableVars
  <2>3. FilesOK' /\ kills' # 0
    BY <2>1 DEF FilesOK, RequestsInv, aggVars
  <2>4. Kept(p)
    BY <2>1, EndKeeps
  <2>5. call'[p].pc = "idle"
    BY <2>1, NoCallType DEF EndCall, RequestsInv
  <2>6. \A q \in Client \ {p} : auth'[q] = auth[q]
    BY <1>0, <2>1
  <2>7. call' \in [Client -> Call] /\ CallsOK'
    BY <2>1, <2>2, <2>4, <2>5, <2>6, CallsAfterOwn
  <2> QED  BY <1>0, <2>1, <2>2, <2>3, <2>7, SameVotes DEF RequestsInv, CountsOK, AggTempInUse
<1>7. ASSUME NEW p \in Client, Report(p)
      PROVE  RequestsInv'
  <2>1. PICK r \in Rev, job \in Job, success \in BOOLEAN, ts \in 0..now :
          ReportResult(r, job, success, ts)
    BY <1>7 DEF Report
  <2>2. ts \in Nat
    BY <1>0
  <2> QED  BY <1>0, <1>7, <2>1, <2>2, ReportKeeps, AnsweredKeeps DEF Report
<1>8. ASSUME NEW p \in Client, ReportAgg(p)
      PROVE  RequestsInv'
  <2>1. PICK k \in DOMAIN promos, job \in Job, success \in BOOLEAN :
          promos[k].agg # None /\ ReportAggregate(promos[k].agg, job, success, now)
    BY <1>8 DEF ReportAgg
  <2>2. promos[k].agg \in Content
    <3>1. promos[k] \in Promotion
      BY DEF RequestsInv, FilesOK
    <3> QED  BY <2>1, <3>1 DEF Promotion
  <2> DEFINE vote == [ref |-> promos[k].agg, job |-> job, success |-> success, ts |-> now]
  <2>3. vote \in AggVote
    BY <1>0, <2>2 DEF AggVote
  <2>4. aggvotes' = Append(aggvotes, vote) /\ UNCHANGED <<tableVars, votes>>
    BY <2>1 DEF ReportAggregate
  <2> HIDE DEF vote
  <2>5. aggvotes' \in Seq(AggVote)
    BY <1>0, <2>3, <2>4 DEF VotesOK
  <2>6. TableOK' /\ RowsKept /\ UNCHANGED dirs
    BY <1>0, <2>4, SameRows DEF tableVars
  <2>7. VotesOK' /\ PipelineOrder'
    BY <1>0, <2>4, <2>5, <2>6, VotesFrame DEF PipelineOrder
  <2> QED  BY <1>8, <2>6, <2>7, AnsweredKeeps DEF ReportAgg
<1>9. ASSUME NEW p \in Client, Test(p)
      PROVE  RequestsInv'
  <2>1. PICK me \in Job, previous \in Job, sequential \in BOOLEAN, comp \in Component \cup {NotGiven},
             job \in Job \cup {NotGiven} :
          TestLast(me, sequential, 0, NotGiven, job, previous, comp, now)
    BY <1>9 DEF Test
  <2> QED  BY <1>0, <1>9, <2>1, TestKeeps, AnsweredKeeps DEF Test
<1>10. ASSUME NEW p \in Client, Respond(p)
       PROVE  RequestsInv'
  <2>1. TableOK' /\ RowsKept /\ UNCHANGED dirs
    BY <1>0, <1>10, SameRows DEF Respond, tableVars
  <2> QED  BY <1>10, <2>1, SameVotes, AnsweredKeeps DEF Respond
<1>11. CASE Administer
  <2>1. UNCHANGED <<promotionVars, voteVars, authors, calls>> /\ admins' = admins + 1 /\ CountsOK'
    BY <1>0, <1>11 DEF Administer, CountsOK
  <2>2. CASE Recheck
    <3>0. PICK q \in Package : \E i \in LastProcessed(db, q) :
            ~db[i].vote /\ db' = [db EXCEPT ![i].gone = TRUE]
      BY <2>2 DEF Recheck
    <3>1. PICK i \in LastProcessed(db, q) : ~db[i].vote /\ db' = [db EXCEPT ![i].gone = TRUE]
      BY <3>0
    <3>2. i \in DOMAIN db
      BY DEF LastProcessed, Latest, RowsOf, Live
    <3>3. UNCHANGED <<purged, dirs, auth>>
      BY <2>2 DEF Recheck, authVars
    <3>4. TableOK' /\ RowsKept
      BY <1>0, <3>1, <3>2, <3>3, RecheckFlags
    <3> QED  BY <2>1, <3>3, <3>4, SameVotes, OtherKeeps
  <2>3. CASE UNCHANGED <<tableVars, auth>>
    BY <1>1, <2>1, <2>3
  <2> QED  BY <1>11, <2>2, <2>3 DEF Administer, ChangeGroups, authVars
<1>12. CASE Clock
  BY <1>0, <1>1, <1>12 DEF Clock, Tick, apiVars, CountsOK
<1> QED  BY <1>2, <1>3, <1>4, <1>5, <1>6, <1>7, <1>8, <1>9, <1>10, <1>11, <1>12 DEF Next, Serve

LEMMA RequestsInit == Init => RequestsInv
<1> SUFFICES ASSUME Init
             PROVE  RequestsInv
  OBVIOUS
<1> DEFINE n == Len(Table)
           new == [Table[n] EXCEPT !.vote = TRUE]
<1>1. Table \in Seq(Row) /\ n \in DOMAIN Table /\ n \in Nat /\ DOMAIN Table = 1..n
  BY ApiAssumption
<1>2. /\ new \in Row /\ new.rev = Table[n].rev /\ new.status = "SUCCESS" /\ ~new.gone /\ new.vote
  <2>1. Table[n] \in Row
    BY <1>1
  <2> HIDE DEF n
  <2> QED  BY <2>1, ApiAssumption DEF Row, n
<1>3. db = [Table EXCEPT ![n] = new]
  BY DEF Init
<1> HIDE DEF new
<1>4. db \in Seq(Row) /\ DOMAIN db = DOMAIN Table /\ db[n] = new
      /\ \A j \in DOMAIN Table \ {n} : db[j] = Table[j]
  <2> DEFINE changed == [Table EXCEPT ![n] = new]
  <2>1. /\ changed \in Seq(Row) /\ DOMAIN changed = DOMAIN Table /\ changed[n] = new
        /\ \A j \in DOMAIN Table \ {n} : changed[j] = Table[j]
    BY <1>1, <1>2, ReplacedRow
  <2>2. db = changed
    BY <1>3
  <2> HIDE DEF changed
  <2> QED  BY ONLY <2>1, <2>2
<1>5. TableOK
  <2>1. ASSUME NEW i \in DOMAIN Table
        PROVE  Table[i].rev \in Rev
    <3>1. Table[i] \in Row
      BY <1>1
    <3> QED  BY <3>1 DEF Row
  <2> QED  BY <1>4, <2>1 DEF Init, TableOK
<1>6. FilesOK
  <2>1. NoLinks \in [Link -> Rev \cup {None}]
    BY DEF NoLinks
  <2> QED  BY <2>1 DEF Init, InitPromotions, FilesOK
<1>7. call = [p \in Client |-> NoCall]
  BY DEF Init, InitPromotions
<1>8. call \in [Client -> Call] /\ \A p \in Client : call[p].pc = "idle" /\ call[p] = NoCall
  BY <1>7, NoCallType
<1>9. CallsOK
  BY <1>8 DEF CallsOK, CallAt, Progress, RowsAreItems, Undisturbed
<1>10. votes = <<ConsistentVote(n)>> /\ aggvotes = <<>>
  BY DEF Init
<1>11. ConsistentVote(n) \in CIVote /\ ConsistentVote(n).row = n /\ ConsistentVote(n).after = None
  BY <1>1 DEF ConsistentVote, CIVote
<1>12. Voted(n)
  <2>1. n \in {i \in Live(db) : db[i].rev = db[n].rev /\ db[i].status = "SUCCESS"}
    BY <1>1, <1>2, <1>4 DEF Live
  <2>2. \A i \in Live(db) : i <= n
    BY <1>1, <1>4 DEF Live
  <2> QED  BY <1>1, <1>2, <1>4, <2>1, <2>2 DEF Voted, FindCommit, Latest
<1> HIDE DEF n
<1>13. VotesOK /\ PipelineOrder
  <2> HIDE DEF ConsistentVote
  <2>1. votes \in Seq(CIVote) /\ DOMAIN votes = {1} /\ votes[1] = ConsistentVote(n)
    BY <1>10, <1>11
  <2>2. aggvotes \in Seq(AggVote)
    BY <1>10
  <2> QED  BY <1>11, <1>12, <2>1, <2>2 DEF VotesOK, PipelineOrder
<1>14. CountsOK /\ AggTempInUse
  BY DEF Init, InitPromotions, CountsOK, AggTempInUse
<1> QED  BY <1>5, <1>6, <1>8, <1>9, <1>13, <1>14 DEF RequestsInv

\* All of it holds of every request, whatever the requests of the other threads
\* and the operators do.
THEOREM RequestsCorrect == Spec => [](AgeInv /\ RequestsInv)
<1>1. Init => AgeInv /\ RequestsInv
  BY AgeInit, RequestsInit
<1>2. AgeInv /\ RequestsInv /\ [Next]_vars => (AgeInv /\ RequestsInv)'
  BY AgeStep, RequestsStep
<1> QED  BY <1>1, <1>2, PTL DEF Spec

\* Links, rows and votes stay of their types; in particular a row that is
\* recorded names a row of the commits table.
THEOREM TypeCorrect == Spec => []TypeOK
<1>1. AgeInv /\ RequestsInv => TypeOK
  BY DEF AgeInv, RequestsInv, TypeOK, PromotionsTypeOK, TableOK, FilesOK, VotesOK, CountsOK
<1> QED  BY <1>1, RequestsCorrect, PTL

\* As long as no request was killed, the temporary name of an aggregated file
\* is there only for the request that is about to rename it.
THEOREM TempsInUse == Spec => []AggTempInUse
<1>1. RequestsInv => AggTempInUse
  BY DEF RequestsInv
<1> QED  BY <1>1, RequestsCorrect, PTL

\* In a pipeline a job tests only what the job before it has a vote for.
THEOREM PipelineCorrect == Spec => []PipelineOrder
<1>1. RequestsInv => PipelineOrder
  BY DEF RequestsInv
<1> QED  BY <1>1, RequestsCorrect, PTL

(* The end of a request is a step of its own.                              *)
LEMMA EndIsOwn ==
  ASSUME AgeInv, RequestsInv, [Next]_vars, NEW p \in Client, ~CallAt(p, "idle"), CallAt(p, "idle")'
  PROVE  Handle(p) \/ Kill(p)
<1>0. call \in [Client -> Call]
  BY DEF RequestsInv
<1>1. call'[p] # call[p]
  BY DEF CallAt
<1>2. \/ UNCHANGED call
      \/ \E q \in Client : Promote(q) \/ Handle(q) \/ Kill(q)
  <2>1. ASSUME NEW q \in Client, Negotiate(q) \/ VerifyPassword(q) \/ Authorization(q)
        PROVE  UNCHANGED call
    BY <2>1 DEF Negotiate, VerifyPassword, Authorization, promotionVars
  <2>2. ASSUME NEW q \in Client, Report(q) \/ ReportAgg(q) \/ Test(q) \/ Respond(q)
        PROVE  UNCHANGED call
    BY <2>2 DEF Report, ReportAgg, Test, Respond, Granted, promotionVars
  <2>3. Administer \/ Clock \/ UNCHANGED vars => UNCHANGED call
    BY DEF Administer, Clock, vars, promotionVars
  <2> QED  BY <2>1, <2>2, <2>3 DEF Next, Serve
<1>3. ASSUME NEW q \in Client, Promote(q)
      PROVE  FALSE
  <2>1. PICK items \in Requests, batch \in BOOLEAN : StartPromotion(q, items, batch)
    BY <1>3 DEF Promote
  <2>2. CallAt(q, "idle") /\ p # q
    BY <2>1 DEF StartPromotion
  <2>3. call'[p] = IF p \in InProgress THEN Joined(call[p]) ELSE call[p]
    BY <2>1, <2>2 DEF StartPromotion
  <2>4. call[p] \in Call
    BY <1>0
  <2>5. Joined(call[p]).pc = call[p].pc
    BY <2>4, JoinedType
  <2>6. call'[p].pc = call[p].pc
    BY <2>3, <2>5
  <2> QED  BY <2>6 DEF CallAt
<1>4. ASSUME NEW q \in Client \ {p}, Handle(q) \/ Kill(q)
      PROVE  FALSE
  <2>1. Kept(q)
    BY <1>4, PromotionStepKeeps, EndKeeps DEF Handle, Kill, KillPromotion
  <2>2. call'[p] = call[p]
    BY <1>0, <2>1 DEF Kept
  <2> QED  BY <1>1, <2>2
<1> QED  BY <1>1, <1>2, <1>3, <1>4

LEMMA RestoresStep ==
  ASSUME AgeInv, RequestsInv, [Next]_vars
  PROVE  \A p \in Client :
            CallAt(p, "rollback") /\ call'[p].pc = "idle" /\ kills' = kills /\ call[p].alone =>
                \A l \in Link \ call[p].missed : plinks'[l] = call[p].before[l]
<1> SUFFICES ASSUME NEW p \in Client, CallAt(p, "rollback"), call'[p].pc = "idle", kills' = kills,
                    call[p].alone
             PROVE  \A l \in Link \ call[p].missed : plinks'[l] = call[p].before[l]
  OBVIOUS
<1>1. Handle(p) \/ Kill(p)
  BY EndIsOwn DEF CallAt
<1>2. ~Kill(p)
  BY DEF Kill, KillPromotion, RequestsInv, FilesOK
<1>3. RollBack(p)
  BY <1>1, <1>2 DEF Handle, PromotionStep, Check, Look, Unlink, MakeLink, LinkFails, Aggregate,
     AggSymlink, AggRename, Insert, CallAt
<1> QED  BY <1>3, RollBackEnds

\* A batch that rolls back, and was the only promotion in progress all the
\* time, leaves every link as it found it but those it could not restore: also
\* when it had the same link to make several times, or failed for others.
THEOREM RollBackCorrect == Spec => RollBackRestores
<1>1. AgeInv /\ RequestsInv /\ [Next]_vars =>
        [\A p \in Client :
            CallAt(p, "rollback") /\ call'[p].pc = "idle" /\ kills' = kills /\ call[p].alone =>
                \A l \in Link \ call[p].missed :
                   plinks'[l] = call[p].before[l]]_<<plinks, call, kills>>
  BY RestoresStep
<1> QED  BY <1>1, RequestsCorrect, PTL DEF Spec, RollBackRestores

(* What a request that ends with rows in the table has recorded.           *)
LEMMA RecordedRows ==
  ASSUME AgeInv, RequestsInv, [Next]_vars, ForeignKeys, NEW p \in Client, promos' # promos,
         CallAt(p, "insert"), call'[p].pc = "idle"
  PROVE  /\ promos' = promos \o call[p].rows /\ UNCHANGED <<plinks, tableVars>>
         /\ \A k \in DOMAIN call[p].rows : ~db[call[p].rows[k].id].gone
<1>1. Handle(p)
  <2>1. Handle(p) \/ Kill(p)
    BY EndIsOwn DEF CallAt
  <2> QED  BY <2>1 DEF Kill, KillPromotion
<1>2. PICK known : Insert(p, known)
  BY <1>1 DEF Handle, PromotionStep, Check, Look, Unlink, MakeLink, LinkFails, RollBack, Aggregate,
     AggSymlink, AggRename, CallAt
<1> QED  BY <1>2 DEF Insert

LEMMA Appended ==
  ASSUME NEW s \in Seq(Promotion), NEW t \in Seq(Promotion)
  PROVE  LET st == s \o t IN
         /\ DOMAIN st = 1..(Len(s) + Len(t)) /\ Len(st) = Len(s) + Len(t)
         /\ \A i \in DOMAIN t : st[Len(s) + i] = t[i] /\ Len(s) + i \in DOMAIN st
OBVIOUS

LEMMA RecordedStep ==
  ASSUME AgeInv, RequestsInv, [Next]_vars, ForeignKeys, NEW p \in Client, promos' # promos,
         CallAt(p, "insert"), call'[p].pc = "idle", call[p].alone,
         NEW j \in DOMAIN call[p].items, NEW item, item = call[p].items[j],
         NEW k \in Latest(PromotionsShown(NotGiven, LinkOf(item).name, NotGiven, LinkOf(item).comp)')
  PROVE  LET l == LinkOf(item)
             last == promos'[Len(promos')]
             r == db[promos'[k].id].rev
         IN
         /\ plinks[l] = r
         /\ UseComponents /\ last.name = l.name /\ r \in dirs => last.agg[l.comp] = r
<1> DEFINE c == call[p]
           l == LinkOf(item)
           n == Len(promos)
           m == k - n
           shown == PromotionsShown(NotGiven, l.name, NotGiven, l.comp)
           last == promos'[Len(promos')]
           r == db[promos'[k].id].rev
<1>1. promos' = promos \o c.rows /\ UNCHANGED <<plinks, tableVars>>
      /\ \A i \in DOMAIN c.rows : ~db[c.rows[i].id].gone
  BY RecordedRows
<1>2. /\ c \in Call /\ Progress(c) /\ RowsAreItems(c) /\ Undisturbed(c) /\ c.items \in Seq(Item)
      /\ c.pc = "insert" /\ c.rows \in Seq(Promotion) /\ promos \in Seq(Promotion)
  BY CallIs DEF CallAt, RequestsInv, FilesOK, Call
<1>3. Len(c.rows) = Len(c.items) /\ DOMAIN c.rows = DOMAIN c.items /\ n \in Nat
      /\ Len(c.rows) \in DOMAIN c.rows
  BY <1>2 DEF Progress
<1>4. /\ DOMAIN promos' = 1..(n + Len(c.rows)) /\ Len(promos') = n + Len(c.rows)
      /\ \A i \in DOMAIN c.rows : promos'[n + i] = c.rows[i] /\ n + i \in DOMAIN promos'
  <2> DEFINE st == promos \o c.rows
  <2>1. /\ DOMAIN st = 1..(n + Len(c.rows)) /\ Len(st) = n + Len(c.rows)
        /\ \A i \in DOMAIN c.rows : st[n + i] = c.rows[i] /\ n + i \in DOMAIN st
    BY <1>2, Appended
  <2>2. promos' = st
    BY <1>1
  <2> HIDE DEF st
  <2> QED  BY <2>1, <2>2
<1>5. ASSUME NEW i \in DOMAIN c.rows
      PROVE  /\ c.rows[i].id \in DOMAIN db /\ db[c.rows[i].id].rev = c.items[i].rev
             /\ c.rows[i].name = c.items[i].name /\ c.items[i] \in Item
             /\ LinkOf(c.items[i]) = [comp |-> LinkOf(c.items[i]).comp, name |-> LinkOf(c.items[i]).name]
             /\ LinkOf(c.items[i]).name = c.items[i].name
             /\ LinkOf(c.items[i]).comp = ComponentOf[c.items[i].rev.pkg]
  <2>1. i \in DOMAIN c.items /\ c.items[i] \in Item
    BY <1>2, <1>3
  <2>2. /\ c.rows[i].id \in DOMAIN db /\ db[c.rows[i].id].rev = c.items[i].rev
        /\ c.rows[i].name = c.items[i].name
    BY <1>2 DEF RowsAreItems
  <2> QED  BY <2>1, <2>2 DEF LinkOf
<1>6. l.name # NotGiven /\ l.comp # NotGiven
  <2>1. l \in Link
    BY <1>3, <1>5, ItemType
  <2> QED  BY <2>1, CIVotesAssumption DEF Link
<1>7. ASSUME NEW i \in DOMAIN c.rows
      PROVE  n + i \in shown' <=> LinkOf(c.items[i]) = l
  <2>1. n + i \in shown' <=> c.items[i].name = l.name /\ ComponentOf[c.items[i].rev.pkg] = l.comp
    <3>1. db' = db /\ promos'[n + i] = c.rows[i] /\ n + i \in DOMAIN promos'
      BY <1>1, <1>4 DEF tableVars
    <3> QED  BY <1>5, <1>6, <3>1 DEF PromotionsShown, Matches
  <2>2. LinkOf(c.items[i]) = l <=> c.items[i].name = l.name /\ ComponentOf[c.items[i].rev.pkg] = l.comp
    BY DEF LinkOf
  <2> QED  BY <2>1, <2>2
<1>8. k \in shown' /\ \A i \in shown' : i <= k
  BY DEF Latest
<1>9. k \in DOMAIN promos' /\ n + j <= k
  BY <1>3, <1>7, <1>8 DEF PromotionsShown
<1>10. m \in DOMAIN c.rows /\ k = n + m
  <2>1. c.rows \in Seq(Promotion) /\ j \in 1..Len(c.rows)
    BY <1>2, <1>3
  <2>2. DOMAIN c.rows = 1..Len(c.rows) /\ Len(c.rows) \in Nat
    BY <2>1
  <2>3. k \in 1..(n + Len(c.rows))
    BY <1>4, <1>9
  <2> QED  BY <1>3, <1>9, <2>1, <2>2, <2>3
<1> HIDE DEF m
<1>11. LinkOf(c.items[m]) = l /\ promos'[k] = c.rows[m] /\ r = c.items[m].rev
  BY <1>4, <1>5, <1>7, <1>8, <1>10
<1>12. plinks[l] = r
  <2>1. ASSUME NEW i \in (m + 1)..Len(c.rows), LinkOf(c.items[i]) = l
        PROVE  FALSE
    <3>1. m \in Nat /\ m >= 1 /\ Len(c.rows) \in Nat
      BY <1>2, <1>10
    <3>2. i \in DOMAIN c.rows /\ i > m
      BY <1>2, <2>1, <3>1
    <3>3. n + i <= n + m
      BY <1>7, <1>8, <1>10, <2>1, <3>2
    <3> QED  BY <1>3, <3>1, <3>2, <3>3
  <2>2. Linked(c)
    BY <1>2 DEF Undisturbed
  <2> QED  BY <1>2, <1>10, <1>11, <2>1, <2>2 DEF Linked
<1>13. ASSUME UseComponents, last.name = l.name, r \in dirs
       PROVE  last.agg[l.comp] = r
  <2>1. last = c.rows[Len(c.rows)] /\ last.agg = c.content /\ l.name = c.items[Len(c.items)].name
    <3>1. last = c.rows[Len(c.rows)]
      BY <1>3, <1>4
    <3>2. last.agg = c.content
      BY <1>2, <1>13, <3>1 DEF Progress
    <3>3. c.rows[Len(c.rows)].name = c.items[Len(c.rows)].name
      BY <1>3, <1>5
    <3> HIDE DEF last
    <3> QED  BY <1>3, <1>13, <3>1, <3>2, <3>3
  <2>2. l.comp \in Built
    <3>1. c.rows[m].id \in Live(db)
      BY <1>1, <1>5, <1>10 DEF Live
    <3>2. ComponentOf[db[c.rows[m].id].rev.pkg] = l.comp
      BY <1>5, <1>10, <1>11
    <3> QED  BY <3>1, <3>2 DEF Built
  <2>3. [comp |-> l.comp, name |-> c.items[Len(c.items)].name] = l
    BY <2>1 DEF LinkOf
  <2>4. AggregatedLinks(c)
    BY <1>2, <1>13 DEF Undisturbed
  <2>5. r # None
    <3>1. r \in Rev
      BY <1>5, <1>10, <1>11 DEF Item
    <3> QED  BY <3>1, PromotionsAssumption
  <2> QED  BY <1>12, <1>13, <2>1, <2>2, <2>3, <2>4, <2>5 DEF AggregatedLinks
<1> QED  BY <1>12, <1>13

\* What a promotion records when no other was in progress is what the links and
\* the aggregated files show, on a database that enforces foreign keys.
THEOREM RecordedCorrect ==
  ASSUME ForeignKeys
  PROVE  Spec => RecordedIsLinked
<1>1. ASSUME AgeInv, RequestsInv, [Next]_vars
      PROVE  \A p \in Client :
          promos' # promos /\ CallAt(p, "insert") /\ call'[p].pc = "idle" /\ call[p].alone =>
            \A item \in {call[p].items[k] : k \in DOMAIN call[p].items} :
              LET l == LinkOf(item)
                  shown == PromotionsShown(NotGiven, l.name, NotGiven, l.comp)'
                  last == promos'[Len(promos')]
              IN \A k \in Latest(shown) :
                   LET r == db[promos'[k].id].rev IN
                   /\ plinks[l] = r
                   /\ UseComponents /\ last.name = l.name /\ r \in dirs => last.agg[l.comp] = r
  <2> SUFFICES ASSUME NEW p \in Client, promos' # promos, CallAt(p, "insert"),
                      call'[p].pc = "idle", call[p].alone,
                      NEW j \in DOMAIN call[p].items, NEW item, item = call[p].items[j],
                      NEW k \in Latest(PromotionsShown(NotGiven, LinkOf(item).name, NotGiven,
                                                       LinkOf(item).comp)')
               PROVE  LET l == LinkOf(item)
                          last == promos'[Len(promos')]
                          r == db[promos'[k].id].rev
                      IN
                      /\ plinks[l] = r
                      /\ UseComponents /\ last.name = l.name /\ r \in dirs => last.agg[l.comp] = r
    OBVIOUS
  <2> QED  BY <1>1, RecordedStep
<1> QED  BY <1>1, RequestsCorrect, PTL DEF Spec, RecordedIsLinked
=============================================================================

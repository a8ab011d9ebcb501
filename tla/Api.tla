--------------------------------- MODULE Api ---------------------------------
(***************************************************************************)
(* The API server: threads that authenticate a request (module Auth, or a  *)
(* password), then handle it (modules Promotions and CIVotes), while       *)
(* operators change users, groups and, with a forced recheck, the table.   *)
(***************************************************************************)
EXTENDS CIVotes, Auth

CONSTANTS
    Table,       \* the commits table at the start
    MaxCalls,    \* bound: requests
    MaxAdmin     \* bound: what operators do (admins, users, groups)

ASSUME ApiAssumption ==
    /\ Table \in Seq(Row) \ {<<>>}
    /\ Table[Len(Table)].status = "SUCCESS" /\ ~Table[Len(Table)].gone
    /\ MaxCalls \in Nat
    /\ MaxAdmin \in Nat

VARIABLES
    accounts,  \* the users table
    authors,   \* the users named in rows of votes and promotions
    calls, admins

apiVars == <<accounts, authors, calls, admins>>
vars == <<tableVars, promotionVars, voteVars, authVars, apiVars>>

\* A repository became consistent when its last row was recorded.
ConsistentVote(i) == [row |-> i, job |-> "consistent", success |-> TRUE,
                      inProgress |-> FALSE, ts |-> 0, after |-> None]

Init ==
    /\ db = [Table EXCEPT ![Len(Table)].vote = TRUE]
    /\ purged = {}
    /\ dirs = {Table[i].rev : i \in DOMAIN Table}
    /\ InitPromotions
    /\ votes = <<ConsistentVote(Len(Table))>>
    /\ aggvotes = <<>>
    /\ InitAuth
    /\ accounts = User
    /\ authors = {}
    /\ calls = 0 /\ admins = 0

-----------------------------------------------------------------------------
(* A request that writes                                                   *)

Idle(p) == AuthAt(p, "idle") /\ CallAt(p, "idle")

\* With a Kerberos token (verify_user), ...
Negotiate(p) ==
    /\ Idle(p)
    /\ calls < MaxCalls
    /\ calls' = calls + 1
    /\ \E u \in User : Authenticate(p, u)
    /\ UNCHANGED <<tableVars, promotionVars, voteVars, accounts, authors, admins>>

\* ... or with a name and a password: DBAuthentication has no roles.
VerifyPassword(p) ==
    /\ Idle(p)
    /\ calls < MaxCalls
    /\ calls' = calls + 1
    /\ \E u \in accounts : auth' = [auth EXCEPT ![p] = NewSession(u, "granted")]
    /\ UNCHANGED <<tableVars, promotionVars, voteVars, now, ipa, cache, accounts, authors, admins>>

Authorization(p) ==
    /\ AuthStep(p)
    /\ UNCHANGED <<tableVars, promotionVars, voteVars, apiVars>>

Requests == UNION {[1..n -> Item] : n \in 1..MaxBatch}

\* Rows name their user, which is a key of the users table.
KnownUser(p) == ForeignKeys => auth[p].user \in accounts

Promote(p) ==
    /\ AuthAt(p, "granted") /\ CallAt(p, "idle")
    /\ \E items \in Requests, batch \in BOOLEAN : StartPromotion(p, items, batch)
    /\ UNCHANGED <<voteVars, authVars, apiVars>>

\* The thread answers with the last step of the handler.
Handle(p) ==
    /\ PromotionStep(p, KnownUser(p))
    /\ IF call'[p].pc = "idle" THEN auth' = [auth EXCEPT ![p] = NoSession] ELSE UNCHANGED auth
    /\ authors' = IF promos' # promos THEN authors \cup {auth[p].user} ELSE authors
    /\ UNCHANGED <<voteVars, now, ipa, cache, accounts, calls, admins>>

Kill(p) ==
    /\ KillPromotion(p)
    /\ auth' = [auth EXCEPT ![p] = NoSession]
    /\ UNCHANGED <<voteVars, now, ipa, cache, apiVars>>

\* A request that is handled in one step; "signs": it adds a row.
Granted(p, signs) ==
    /\ AuthAt(p, "granted") /\ CallAt(p, "idle")
    /\ signs => KnownUser(p)
    /\ auth' = [auth EXCEPT ![p] = NoSession]
    /\ authors' = IF signs THEN authors \cup {auth[p].user} ELSE authors
    /\ UNCHANGED <<promotionVars, now, ipa, cache, accounts, calls, admins>>

Report(p) ==
    /\ Granted(p, TRUE)
    /\ \E r \in Rev, job \in Job, success \in BOOLEAN, ts \in 0..now :
          ReportResult(r, job, success, ts)

ReportAgg(p) ==
    /\ Granted(p, TRUE)
    /\ \E k \in DOMAIN promos, job \in Job, success \in BOOLEAN :
          /\ promos[k].agg # None
          /\ ReportAggregate(promos[k].agg, job, success, now)

\* What it may ask for besides only narrows the votes down.
Test(p) ==
    /\ Granted(p, TRUE)
    /\ \E me, previous \in Job, sequential \in BOOLEAN, comp \in Component \cup {NotGiven} :
       \E job \in IF sequential THEN {NotGiven} ELSE Job \cup {NotGiven} :
          TestLast(me, sequential, 0, NotGiven, job, previous, comp, now)

\* Anything else the request may be, and everything that is refused.
Respond(p) == Granted(p, FALSE) /\ UNCHANGED <<tableVars, voteVars>>

-----------------------------------------------------------------------------
(* The operators                                                           *)

\* dlrn --recheck --force-recheck.  A row a vote or a promotion refers to
\* cannot be deleted.
Recheck ==
    /\ \E q \in Package : \E i \in LastProcessed(db, q) :
          /\ ~db[i].vote
          /\ \A k \in DOMAIN promos : promos[k].id # i
          /\ db' = [db EXCEPT ![i].gone = TRUE]
    /\ UNCHANGED <<purged, dirs, authVars, accounts>>

\* dlrn-user create and delete
CreateUser(u) == u \notin accounts /\ accounts' = accounts \cup {u}
DeleteUser(u) ==
    /\ u \in accounts
    /\ ForeignKeys => u \notin authors
    /\ accounts' = accounts \ {u}

Administer ==
    /\ admins < MaxAdmin
    /\ admins' = admins + 1
    /\ \/ Recheck
       \/ /\ \E u \in User : CreateUser(u) \/ DeleteUser(u)
          /\ UNCHANGED <<tableVars, authVars>>
       \/ /\ \E u \in User : ChangeGroups(u)
          /\ UNCHANGED <<tableVars, accounts>>
    /\ UNCHANGED <<promotionVars, voteVars, authors, calls>>

Clock == Tick /\ UNCHANGED <<tableVars, promotionVars, voteVars, apiVars>>

Serve(p) ==
    \/ Authorization(p) \/ Promote(p) \/ Handle(p) \/ Report(p) \/ ReportAgg(p) \/ Test(p)
    \/ Respond(p)

Next ==
    \/ \E p \in Client : Negotiate(p) \/ VerifyPassword(p) \/ Serve(p) \/ Kill(p)
    \/ Administer
    \/ Clock

Spec == Init /\ [][Next]_vars

-----------------------------------------------------------------------------
(* Properties                                                              *)

TypeOK ==
    /\ PromotionsTypeOK
    /\ votes \in Seq(CIVote)
    /\ aggvotes \in Seq(AggVote)
    /\ AuthTypeOK
    /\ accounts \subseteq User /\ authors \subseteq User
    /\ calls \in Nat /\ admins \in Nat

\* In a pipeline of jobs (sequential mode) a job tests only what the job before
\* it has a vote for, be it one in progress: a build gets through the jobs in
\* their order.
PipelineOrder ==
    \A i \in DOMAIN votes : votes[i].after # None =>
        \E j \in 1..(i - 1) : votes[j].row = votes[i].row /\ votes[j].job = votes[i].after
=============================================================================

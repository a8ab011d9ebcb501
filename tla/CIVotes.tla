------------------------------ MODULE CIVotes -------------------------------
(***************************************************************************)
(* The votes of CI jobs: report_result, last_tested_repo and the requests  *)
(* that read votes, promotions and builds.  A request to the database that *)
(* ends in .first() is the set of ids it may return: votes of the same     *)
(* second have no order.                                                   *)
(***************************************************************************)
EXTENDS Promotions

CONSTANTS
    Job,        \* names of CI jobs
    NotGiven,   \* a parameter that is not given
    MaxVotes    \* bound: votes

ASSUME CIVotesAssumption ==
    /\ NotGiven \notin Job \cup BOOLEAN \cup Component \cup Name \cup Nat
    /\ "consistent" \notin Job
    /\ MaxVotes \in Nat

VARIABLES
    votes,    \* the civotes table
    aggvotes  \* the civotes_agg table

voteVars == <<votes, aggvotes>>

\* "after" is history: the job before, when the vote announces a test in
\* sequential mode.
CIVote == [row : Nat, job : Job \cup {"consistent"}, success : BOOLEAN,
           inProgress : BOOLEAN, ts : Nat, after : Job \cup {None}]

AggVote == [ref : Content, job : Job, success : BOOLEAN, ts : Nat]

ComponentOfVote(v) == ComponentOf[db[v.row].rev.pkg]

Matches(value, parameter) == parameter = NotGiven \/ value = parameter

\* order_by(desc(timestamp)).first()
NewestVote(S) == {i \in S : \A j \in S : votes[j].ts <= votes[i].ts}

\* What all queries of getVote filter by; in-progress votes are no success.
Recent(since, success) ==
    {i \in DOMAIN votes : votes[i].ts > since /\ Matches(votes[i].success, success)}

Real(S) == {i \in S : votes[i].job # "consistent"}

OfComponent(S, comp) == {i \in S : Matches(ComponentOfVote(votes[i]), comp)}

\* The first query of getVote.
Asked(since, success, job, comp) ==
    {i \in OfComponent(Real(Recent(since, success)), comp) : Matches(votes[i].job, job)}

\* getVote.  The second query, for a job without a vote, and the third drop the
\* filter on the name (dlrn_api.py:198 and 209), the second also the component.
GetVote(since, success, job, comp, fallback) ==
    LET asked == Asked(since, success, job, comp)
        second == IF job = NotGiven THEN {} ELSE Recent(since, success)
        third == OfComponent(Recent(since, success), comp)
    IN IF asked # {} \/ ~fallback THEN NewestVote(asked)
       ELSE IF second # {} THEN NewestVote(second)
       ELSE NewestVote(third)

LastTested_Fallback(sequential, since, success, job, previous, comp) ==
    IF sequential THEN GetVote(since, success, previous, comp, TRUE)
    ELSE GetVote(since, success, job, comp, TRUE)

\* last_tested_repo: in sequential mode the job before must have voted.
LastTested(sequential, since, success, job, previous, comp) ==
    IF sequential THEN GetVote(since, success, previous, comp, FALSE)
    ELSE GetVote(since, success, job, comp, TRUE)

InitVotes ==
    /\ votes = <<>>
    /\ aggvotes = <<>>

-----------------------------------------------------------------------------
Cast(vote) ==
    /\ Len(votes) < MaxVotes
    /\ votes' = Append(votes, vote)
    /\ db' = [db EXCEPT ![vote.row].vote = TRUE]
    /\ UNCHANGED <<purged, dirs, aggvotes>>

\* report_result for hashes: the job itself says when it voted.
ReportResult(r, job, success, ts) ==
    \E i \in FindCommit(r) :
        Cast([row |-> i, job |-> job, success |-> success, inProgress |-> FALSE,
              ts |-> ts, after |-> None])

\* report_result for an aggregate hash, which must have been promoted.
ReportAggregate(content, job, success, ts) ==
    /\ Len(aggvotes) < MaxVotes
    /\ \E k \in DOMAIN promos : promos[k].agg = content
    /\ aggvotes' = Append(aggvotes, [ref |-> content, job |-> job, success |-> success, ts |-> ts])
    /\ UNCHANGED <<tableVars, votes>>

\* last_tested_repo, POST: the job announces that it tests what it was given.
TestLast(me, sequential, since, success, job, previous, comp, ts) ==
    \E i \in LastTested(sequential, since, success, job, previous, comp) :
        Cast([row |-> votes[i].row, job |-> me, success |-> FALSE, inProgress |-> TRUE,
              ts |-> ts, after |-> IF sequential THEN previous ELSE None])

-----------------------------------------------------------------------------
(* Requests that only read                                                 *)

\* promotions: the rows of a promotion name, an aggregate and a component, each
\* of which may be NotGiven, and of a row of the commits table, or all.
PromotionsShown(i, name, agg, comp) ==
    {k \in DOMAIN promos :
        /\ Matches(promos[k].id, i) /\ Matches(promos[k].name, name)
        /\ Matches(promos[k].agg, agg)
        /\ Matches(ComponentOf[db[promos[k].id].rev.pkg], comp)}

-----------------------------------------------------------------------------
\* What is recorded is what the links show: the newest promotion shown for the
\* name and the component of anything a request has promoted is what the link
\* leads to, and what the aggregated files of that name were made of, provided
\* no other promotion was in progress.
RecordedIsLinked ==
    [][\A p \in Client :
          promos' # promos /\ CallAt(p, "insert") /\ call'[p].pc = "idle" /\ call[p].alone =>
            \A item \in {call[p].items[k] : k \in DOMAIN call[p].items} :
              LET l == LinkOf(item)
                  shown == PromotionsShown(NotGiven, l.name, NotGiven, l.comp)'
                  last == promos'[Len(promos')]
              IN \A k \in Latest(shown) :
                   LET r == db[promos'[k].id].rev IN
                   /\ plinks[l] = r
                   /\ UseComponents /\ last.name = l.name /\ r \in dirs => last.agg[l.comp] = r
      ]_<<plinks, promos, call>>
=============================================================================

----------------------------- MODULE Repository -----------------------------
(***************************************************************************)
(* What an installation promises to those who read it, the API and the CI  *)
(* jobs: the table of results and the two links, without processes, lock   *)
(* or temporary files.  Every change is one of five atomic steps.          *)
(***************************************************************************)
EXTENDS CommitDB

CONSTANTS None, MaxRetries

VARIABLES db, links

AllSucceeded == \A q \in Package : NewestSucceeded(db, q)

Init ==
    /\ db = <<>>
    /\ links = [d \in {"current", "consistent"} |-> None]

\* A result enters the table as its newest row.
AddResult ==
    /\ \E r \in Rev, s \in Status :
         /\ s = "RETRY" => TimesRetried(db, r) < MaxRetries
         /\ db' = Append(db, [rev |-> r, status |-> s, vote |-> FALSE, gone |-> FALSE])
    /\ UNCHANGED links

\* Only what has been recorded is published.
MoveCurrent ==
    /\ \E i \in DOMAIN db : links' = [links EXCEPT !["current"] = db[i].rev]
    /\ UNCHANGED db

\* The current repository becomes the consistent one when the newest result
\* of every project is a success.
MoveConsistent ==
    /\ AllSucceeded
    /\ \E r \in Rev :
         /\ links["current"] = r
         /\ \E i \in Latest(RowsOf(db, r.pkg)) : db[i].rev = r
         /\ links' = [links EXCEPT !["consistent"] = r]
    /\ UNCHANGED db

\* The vote for the repository "consistent" leads to.
CastVote ==
    /\ AllSucceeded
    /\ \E i \in Live(db) : db[i].rev = links["consistent"] /\ db' = [db EXCEPT ![i].vote = TRUE]
    /\ UNCHANGED links

\* The last outcome of a project is withdrawn to be built again: a failure
\* loses its row, or the row is marked as one to retry.
Withdraw ==
    /\ \E q \in Package : \E i \in LastProcessed(db, q) :
         \/ db[i].status = "FAILED" /\ ~db[i].vote /\ db' = [db EXCEPT ![i].gone = TRUE]
         \/ db' = [db EXCEPT ![i].status = "RETRY"]
    /\ UNCHANGED links

Next == AddResult \/ MoveCurrent \/ MoveConsistent \/ CastVote \/ Withdraw

Spec == Init /\ [][Next]_<<db, links>>
=============================================================================

------------------------------ MODULE MCWorker ------------------------------
(* Worker on a small instance: three spec files, all ways they may require *)
(* each other, and a project whose release upstream retires.               *)
EXTENDS Worker, TLC

CONSTANTS P1, S1, S2, S3

\* A project with two commits is listed twice.
Lists == {<<S1, S2, S2, S3>>}

Dates == [n \in 1..MaxCommit |-> n]

\* A release branch beside the default branch, or none.
Upstreams == {[NoBranches EXCEPT !["master"] = {1}, !["wanted"] = {1}],
              [NoBranches EXCEPT !["master"] = {1}]}

FewOptions ==
    {[kind |-> "source", nonfallback |-> FALSE, fallback |-> f] : f \in BOOLEAN} \cup
    {[kind |-> "source", nonfallback |-> TRUE, fallback |-> TRUE],
     [kind |-> "rdo", nonfallback |-> FALSE, fallback |-> TRUE]}
=============================================================================

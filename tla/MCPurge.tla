------------------------------ MODULE MCPurge -------------------------------
(* Purge on a small instance: one component, two projects.                 *)
EXTENDS Purge, TLC

CONSTANTS P1, P2, C

Entry(pkg, n, status) == [rev |-> [pkg |-> pkg, commit |-> n, distro |-> 1], status |-> status,
                          vote |-> FALSE, gone |-> FALSE]

\* A success of each project, and an attempt at the next commit of the first:
\* one a recheck may withdraw, or one to retry, from before dt_build was stored.
Tables ==
    {[rows |-> <<Entry(P1, 1, "SUCCESS"), Entry(P2, 1, "SUCCESS"), Entry(P1, 2, "FAILED")>>,
      days |-> <<0, 0, 0>>],
     [rows |-> <<Entry(P1, 1, "SUCCESS"), Entry(P1, 2, "RETRY"), Entry(P2, 1, "SUCCESS")>>,
      days |-> <<None, None, 0>>]}

OneComponent == [q \in Package |-> C]

Dates == [n \in 1..MaxCommit |-> n]

TwoFiles == <<"repo", "md5">>
=============================================================================

-------------------------------- MODULE MCApi --------------------------------
(* Api on a small instance: two components with a build each.             *)
EXTENDS Api, TLC

CONSTANTS P1, P2, C1, C2

Success(pkg, n) == [rev |-> [pkg |-> pkg, commit |-> n, distro |-> 1], status |-> "SUCCESS",
                    vote |-> FALSE, gone |-> FALSE]

SmallTable == <<Success(P1, 1), Success(P2, 1)>>

Components == (P1 :> C1) @@ (P2 :> C2)

Dates == [n \in 1..MaxCommit |-> n]

OneFile == <<"repo">>

ClientSymmetry == Permutations(Client)
=============================================================================

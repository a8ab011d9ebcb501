----------------------------- MODULE MCBuildRun -----------------------------
(* BuildRun on small instances.                                            *)
EXTENDS BuildRun, TLC

\* Every source commit has a date of its own / all have the same date.
DistinctDates == [n \in 1..MaxCommit |-> n]
SameDates == [n \in 1..MaxCommit |-> 1]

\* Full runs only / full runs and runs for one project.
FullRuns == {Package}
AnyRuns == {Package} \cup {{q} : q \in Package}

\* Projects, and importers, are interchangeable in safety properties.
Projects == Permutations(Package) \cup Permutations(Importer)
=============================================================================

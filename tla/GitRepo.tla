------------------------------ MODULE GitRepo -------------------------------
(***************************************************************************)
(* refreshrepo: the clone of a project's source repository that the runs   *)
(* and the workers share, and the branch it falls back to when upstream    *)
(* has retired the one that is asked for.                                  *)
(*                                                                         *)
(* A commit is a number, its date; a branch is the set of its commits, {}  *)
(* when it is not there.                                                   *)
(***************************************************************************)
EXTENDS Naturals

CONSTANTS None

\* "wanted" is the branch asked for, "eol" the tag <release>-eol.
Branch == {"wanted", "unmaintained", "eol", "master", "main", "rpm-master"}

Branches == [Branch -> SUBSET Nat]

NoBranches == [b \in Branch |-> {}]

Tip(history) == CHOOSE c \in history : \A d \in history : d <= c

\* What the name of the branch asked for is: config_options.source, a name that
\* ends in "-rdo", or anything else.
Kind == {"source", "rdo", "other"}

\* The package's branch and the options nonfallback_branches (whether one of
\* them matches it) and fallback_to_master.
GitOptions == [kind : Kind, nonfallback : BOOLEAN, fallback : BOOLEAN]

\* HEAD is at commit "at", on branch "on" or detached.
Clone == [there : BOOLEAN, local : Branches, on : Branch \cup {None}, at : Nat]

NoClone == [there |-> FALSE, local |-> NoBranches, on |-> None, at |-> 0]

\* git clone checks out the default branch, which every repository has.
DefaultBranch(remote) == IF remote["master"] # {} THEN "master" ELSE "main"

Cloned(remote) ==
    LET b == DefaultBranch(remote) IN
    [there |-> TRUE, local |-> [NoBranches EXCEPT ![b] = remote[b]], on |-> b, at |-> Tip(remote[b])]

\* "git branch -vv" shows the upstream of the branch as gone.
Gone(clone, remote) == clone.local["wanted"] # {} /\ remote["wanted"] = {}

Checkout(clone, commit) == [clone EXCEPT !.on = None, !.at = commit]

FirstOf(branches, S) ==
    LET found == {i \in DOMAIN branches : branches[i] \in S}
    IN IF found = {} THEN None ELSE branches[CHOOSE i \in found : \A j \in found : i <= j]

\* The branch to fall back to, None when there is none.  For the unmaintained
\* branch and the tag upstream's list counts, for master and main the local
\* one; rpm-master is not looked for.
Fallback(clone, remote, options) ==
    LET upstream == {b \in {"unmaintained", "eol"} : remote[b] # {}}
        local == {b \in {"master", "main"} : options.fallback /\ clone.local[b] # {}}
    IN IF options.nonfallback THEN None
       ELSE IF options.kind = "source"
            THEN FirstOf(<<"unmaintained", "eol", "master", "main">>, upstream \cup local)
            ELSE IF options.kind = "rdo" /\ options.fallback THEN "rpm-master" ELSE None

\* git checkout of a branch, which makes a local one when only upstream has it.
CheckedOut(clone, remote, b) ==
    IF b = "eol" THEN [clone EXCEPT !.on = None, !.at = Tip(remote[b])]
    ELSE [clone EXCEPT !.on = b, !.local[b] = IF @ = {} THEN remote[b] ELSE @]

Reset_Never(clone, remote, b) == clone

\* git reset --hard origin/<branch>, or to what is called <branch> here.
Reset(clone, remote, b) ==
    IF b = "eol" THEN clone
    ELSE LET history == IF remote[b] # {} THEN remote[b] ELSE clone.local[b]
         IN [clone EXCEPT !.local[b] = history, !.at = Tip(history)]

\* The result of refreshrepo: no branch when it raises an exception.  A branch
\* that is gone upstream is deleted, which git refuses while HEAD is on it; then
\* the clone is removed.
Refresh(old, remote, options) ==
    LET clone == [old EXCEPT !.local["wanted"] = IF Gone(old, remote) THEN {} ELSE @]
        target == IF remote["wanted"] # {} THEN "wanted" ELSE Fallback(clone, remote, options)
        failed == \/ target = None
                  \/ remote[target] \cup clone.local[target] = {}
    IN IF Gone(old, remote) /\ old.on = "wanted" THEN [branch |-> None, clone |-> NoClone]
       ELSE IF failed THEN [branch |-> None, clone |-> clone]
       ELSE [branch |-> target,
             clone |-> Reset(CheckedOut(clone, remote, target), remote, target)]
=============================================================================

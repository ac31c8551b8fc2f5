----------------------------- MODULE MergeHistory -----------------------------
(***************************************************************************)
(* The search over a history with merges.  git_utils.candidate_commits     *)
(* flattens the ancestry path into a list in which parents come before     *)
(* their children; BisectSearch bisects that list.  Here a commit is       *)
(* regressed because it, or one of its ancestors, introduced the           *)
(* regression.                                                             *)
(*                                                                         *)
(* firstBad of BisectSearch, a position in a list that is good up to it    *)
(* and bad from it on, means nothing here and stays n - 1.                 *)
(***************************************************************************)
EXTENDS BisectSearch, FiniteSets

CONSTANT MaxParents     \* bound: parents a commit has on the ancestry path

VARIABLES
  parents,              \* the parents of each candidate, -1 for the known-good commit
  culprit               \* the one commit that introduced the regression

historyVars == <<parents, culprit>>

ParentSets(i) == {P \in SUBSET (-1 .. i - 1) : P # {} /\ Cardinality(P) <= MaxParents}

\* The commits from which the known-bad commit descends, i.e. every candidate.
OnTheAncestryPath(p) ==
  \A i \in 0 .. n - 2 : \E j \in i + 1 .. n - 1 : i \in p[j]

Histories ==
  {p \in [0 .. n - 1 -> SUBSET (-1 .. n - 2)] :
     /\ \A i \in 0 .. n - 1 : p[i] \in ParentSets(i)
     /\ OnTheAncestryPath(p)}

HistoryInit ==
  /\ firstBad = n - 1
  /\ parents \in Histories
  /\ culprit \in 0 .. n - 1

\* Whether each candidate has the regression.
Regressed ==
  LET has[i \in 0 .. n - 1] == i = culprit \/ \E j \in parents[i] \ {-1} : has[j]
  IN has

\* A history without merges: each candidate follows the one before it.
Linear == \A i \in 0 .. n - 1 : parents[i] = {i - 1}

=============================================================================

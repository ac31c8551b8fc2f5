---- MODULE MCToolingSnapshot ----
EXTENDS ToolingSnapshot, TLC

\* What files are called and what they contain is never told apart; a link is.
MCSymmetry == Permutations(Files) \cup Permutations(Plain)

\* The worktree starts as the checkout of a commit with the tooling, if there is one: edits do the rest.
MCInit ==
  /\ Init
  /\ (\E c \in Commits : tree = committed[c]) \/ (\A c \in Commits : committed[c] = Empty)

MCSpec == MCInit /\ [][Next]_vars
====

------------------------- MODULE MCAttemptProcesses -------------------------
(* Every mode, three commands and one restart; the bounds are in the .cfg.  *)
EXTENDS AttemptProcesses

\* Commits are interchangeable, so the first command may be at any one of them.
StartsAtOne == attempts # << >> => attempts[1].commit = CHOOSE c \in Commits : TRUE

=============================================================================

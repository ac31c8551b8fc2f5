--------------------------- MODULE EnvReconstruct ---------------------------
(***************************************************************************)
(* Rebuilding one commit on disk: the source clone of                      *)
(* runner._prepare_source_clone and the environment of                     *)
(* env_setup.ensure_env, over several attempts at the commit, each of      *)
(* which may be killed at any point (a candidate timeout and the           *)
(* docker rm -f of the next attempt, an interrupt, a host going down).     *)
(*                                                                         *)
(* A killed attempt takes its processes with it: what an orphaned child of *)
(* a local-reconstruct runner still does is not modelled here.             *)
(* The installers, git and the import check are external: they fail when   *)
(* they like, and fault remembers that one did in this attempt.            *)
(***************************************************************************)
EXTENDS Integers

CONSTANTS
  Forces,               \* values --force_reinstall may have in an attempt
  MaxAttempts           \* bound: attempts considered

ASSUME ForcesAssumption == Forces \subseteq BOOLEAN /\ MaxAttempts \in Nat

VARIABLES
  tree,                 \* the clone: "absent", "damaged", "dirty" or "ready"
  lock,                 \* a git lock file: "none", "known" (one of the three names), "other"
  env,                  \* the venv directory: its interpreter, packages and built.ok
  sound,                \* whether the commit's complete environment imports on this host
  force,                \* --force_reinstall of this attempt
  recloned,             \* the clone was reset in this attempt
  reused,               \* EnvHandle.reused
  pc,                   \* the step the attempt is in
  outcome,              \* how the last attempt ended
  fault,                \* history: an external command failed in this attempt
  torn,                 \* history: a forced removal of the venv was ever interrupted
  attempts              \* bounded counter

source == <<tree, lock, recloned>>
vars == <<source, env, sound, force, reused, pc, outcome, fault, torn, attempts>>

NoEnv == [python |-> FALSE, packages |-> "none", sealed |-> FALSE]

\* What may be left of e while, or after, some of its files are deleted.
Remains(e) ==
  {r \in [python : BOOLEAN, packages : {"none", "partial", "complete"}, sealed : BOOLEAN] :
     /\ r.python => e.python
     /\ r.sealed => e.sealed
     /\ r.packages = "complete" => e.packages = "complete"
     /\ e.packages = "none" => r.packages = "none"}

ReusableByInterpreter == env.python
Reusable == env.sealed /\ env.python

Steps == {"source", "clone", "locks", "checkout", "reset", "discard", "check",
          "remove", "venv", "install", "support", "verify", "seal"}

Init ==
  /\ tree = "absent"
  /\ lock = "none"
  /\ env = NoEnv
  /\ sound \in BOOLEAN
  /\ force = FALSE
  /\ recloned = FALSE
  /\ reused = FALSE
  /\ pc = "idle"
  /\ outcome = "none"
  /\ fault = FALSE
  /\ torn = FALSE
  /\ attempts = 0

StartAttempt ==
  /\ pc = "idle"
  /\ attempts < MaxAttempts
  /\ attempts' = attempts + 1
  /\ force' \in Forces
  /\ recloned' = FALSE
  /\ reused' = FALSE
  /\ fault' = FALSE
  /\ outcome' = "none"
  /\ pc' = "source"
  /\ UNCHANGED <<tree, lock, env, sound, torn>>

-----------------------------------------------------------------------------
(* The source clone: _prepare_source_clone, _materialize_source_clone.     *)

KeepEnv == UNCHANGED <<env, sound, force, reused, torn, attempts>>

EnterClone ==
  /\ pc = "source"
  /\ pc' = IF tree = "absent" THEN "clone" ELSE "locks"
  /\ UNCHANGED <<source, outcome, fault>>
  /\ KeepEnv

Clone ==
  /\ pc = "clone"
  /\ tree' = "dirty"
  /\ pc' = "locks"
  /\ UNCHANGED <<lock, recloned, outcome, fault>>
  /\ KeepEnv

ClearStaleGitLocks ==
  /\ pc = "locks"
  /\ lock' = IF lock = "known" THEN "none" ELSE lock
  /\ pc' = "checkout"
  /\ UNCHANGED <<tree, recloned, outcome, fault>>
  /\ KeepEnv

\* Fetch, checkout -f, clean.
Checkout ==
  /\ pc = "checkout"
  /\ tree # "damaged"
  /\ lock = "none"
  /\ tree' = "ready"
  /\ pc' = "discard"
  /\ UNCHANGED <<lock, recloned, outcome, fault>>
  /\ KeepEnv

GitFails ==
  /\ pc \in {"clone", "checkout"}
  /\ fault' = (fault \/ pc = "clone" \/ (tree # "damaged" /\ lock = "none"))
  /\ IF recloned THEN pc' = "idle" /\ outcome' = "source_checkout_failed"
                 ELSE pc' = "reset" /\ outcome' = outcome
  /\ UNCHANGED source
  /\ KeepEnv

\* The removal ignores errors: root-owned residue may survive it.
ResetSourceDir ==
  /\ pc = "reset"
  /\ \E residue \in BOOLEAN :
       /\ residue => tree # "absent"
       /\ tree' = IF residue THEN "damaged" ELSE "absent"
       /\ fault' = (fault \/ residue)
  /\ lock' = "none"
  /\ recloned' = TRUE
  /\ pc' = "source"
  /\ UNCHANGED outcome
  /\ KeepEnv

-----------------------------------------------------------------------------
(* The environment: ensure_env.                                            *)

KeepSource == UNCHANGED <<source, sound, force, attempts>>

\* shutil.rmtree, file by file in no particular order, when there is something to remove.
EraseSome ==
  /\ pc \in {"discard", "remove"}
  /\ pc = "discard" => force
  /\ env # NoEnv
  /\ env' \in Remains(env) \ {env}
  /\ UNCHANGED <<pc, reused, outcome, fault, torn>>
  /\ KeepSource

Discarded ==
  /\ pc = "discard"
  /\ force => env = NoEnv
  /\ pc' = "check"
  /\ UNCHANGED <<env, reused, outcome, fault, torn>>
  /\ KeepSource

CheckReuse ==
  /\ pc = "check"
  /\ reused' = Reusable
  /\ pc' = IF Reusable THEN "support" ELSE "remove"
  /\ UNCHANGED <<env, outcome, fault, torn>>
  /\ KeepSource

Removed ==
  /\ pc = "remove"
  /\ env = NoEnv
  /\ pc' = "venv"
  /\ UNCHANGED <<env, reused, outcome, fault, torn>>
  /\ KeepSource

CreateVenvSealed ==
  /\ pc = "venv"
  /\ env' = [env EXCEPT !.python = TRUE, !.sealed = TRUE]
  /\ pc' = "install"
  /\ UNCHANGED <<reused, outcome, fault, torn>>
  /\ KeepSource
CreateVenv ==
  /\ pc = "venv"
  /\ env' = [env EXCEPT !.python = TRUE]
  /\ pc' = "install"
  /\ UNCHANGED <<reused, outcome, fault, torn>>
  /\ KeepSource

InstallBegins ==
  /\ pc = "install"
  /\ env.packages = "none"
  /\ env' = [env EXCEPT !.packages = "partial"]
  /\ UNCHANGED <<pc, reused, outcome, fault, torn>>
  /\ KeepSource

InstallEnds ==
  /\ pc = "install"
  /\ env.packages = "partial"
  /\ env' = [env EXCEPT !.packages = "complete"]
  /\ pc' = "support"
  /\ UNCHANGED <<reused, outcome, fault, torn>>
  /\ KeepSource

\* ensure_benchmark_support, which reused environments get too.
InstallSupport ==
  /\ pc = "support"
  /\ env.python
  /\ pc' = "verify"
  /\ UNCHANGED <<env, reused, outcome, fault, torn>>
  /\ KeepSource

\* Importing a few modules: a gutted environment may pass.
VerifyImports ==
  /\ pc = "verify"
  /\ env.packages = "complete" => sound
  /\ IF reused THEN pc' = "idle" /\ outcome' = "ready"
               ELSE pc' = "seal" /\ outcome' = outcome
  /\ UNCHANGED <<env, reused, fault, torn>>
  /\ KeepSource

VerifyFails ==
  /\ pc = "verify"
  /\ fault' = (fault \/ (sound /\ env.packages = "complete"))
  /\ outcome' = "runtime_incompatible"
  /\ pc' = "idle"
  /\ UNCHANGED <<env, reused, torn>>
  /\ KeepSource

Seal ==
  /\ pc = "seal"
  /\ env' = [env EXCEPT !.sealed = TRUE]
  /\ outcome' = "ready"
  /\ pc' = "idle"
  /\ UNCHANGED <<reused, fault, torn>>
  /\ KeepSource

InstallFails ==
  /\ pc \in {"venv", "install", "support"}
  /\ \E category \in {"install_failed", "dependency_unavailable"} :
       /\ category = "dependency_unavailable" => pc = "install"
       /\ outcome' = category
  /\ fault' = TRUE
  /\ pc' = "idle"
  /\ UNCHANGED <<env, reused, torn>>
  /\ KeepSource

-----------------------------------------------------------------------------
\* The attempt is killed; git may leave a broken clone and locks behind.
Kill ==
  /\ pc # "idle"
  /\ tree' \in CASE pc = "clone"    -> {"absent", "damaged"}
                 [] pc = "checkout" -> {tree, "dirty", "damaged"}
                 [] pc = "reset"    -> {tree, "damaged"}
                 [] OTHER           -> {tree}
  /\ lock' \in IF pc = "checkout" THEN {lock, "known", "other"} ELSE {lock}
  /\ torn' = (torn \/ (pc = "discard" /\ force /\ env # NoEnv))
  /\ outcome' = "killed"
  /\ pc' = "idle"
  /\ UNCHANGED <<recloned, env, sound, force, reused, fault, attempts>>

PrepareSource == EnterClone \/ Clone \/ ClearStaleGitLocks \/ Checkout \/ GitFails
                 \/ ResetSourceDir
EnsureEnv == EraseSome \/ Discarded \/ CheckReuse \/ Removed \/ CreateVenv \/ InstallBegins
             \/ InstallEnds \/ InstallSupport \/ VerifyImports \/ VerifyFails \/ Seal
             \/ InstallFails

Step == PrepareSource \/ EnsureEnv

Next == StartAttempt \/ Step \/ Kill

Spec == Init /\ [][Next]_vars

-----------------------------------------------------------------------------
(* Correctness.                                                            *)

\* Whatever was killed before, an environment that carries built.ok and an interpreter is
\* whole, unless its forced removal is under way or was interrupted.
SealedMeansWhole ==
  Reusable /\ ~torn /\ ~(pc = "discard" /\ force) => env.packages = "complete"

\* A kill never costs a later attempt its measurement: on a sound commit an attempt in
\* which nothing external failed ends ready, unless a forced removal was interrupted.
KillsCostOnlyTheirAttempt ==
  sound /\ ~fault /\ ~torn => outcome \in {"none", "ready", "killed"}

=============================================================================

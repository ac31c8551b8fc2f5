------------------------------- MODULE ProbeLoop -------------------------------
(***************************************************************************)
(* engine._run_probe_loop, which precedes every benchmark command: a model *)
(* looks at the container and declares it ready, gives up, runs a debug    *)
(* command, or has a Docker image built with further system packages.  A   *)
(* repaired image is used for the rest of the run through the marker file  *)
(* repairs/active_docker_image.json.                                       *)
(*                                                                         *)
(* An image is the sequence of package sets layered over the plan's image, *)
(* as its tag is a digest of its base and packages.  The plan's image, the *)
(* empty sequence, stands in the marker for no repair.  The decisions of   *)
(* the model are arbitrary.                                                *)
(***************************************************************************)
EXTENDS Integers, Sequences

CONSTANTS
  Runners,              \* "docker": docker-reconstruct with an image; "other": any other
  PolicyBudgets,        \* values --probe_max_attempts may have; -1 is no probe policy
  MaxAttempts,          \* max_attempts of _run_probe_loop, 3 in the code
  Requests,             \* package sets the model may ask for
  Allowed,              \* ALLOWED_APT_PACKAGES
  MaxLayers             \* bound: repairs considered

ASSUME ProbeAssumption ==
  /\ Runners \subseteq {"docker", "other"}
  /\ PolicyBudgets \subseteq Int
  /\ MaxAttempts \in Nat /\ MaxLayers \in Nat

VARIABLES
  runner, policyBudget, \* the plan's runner, the policy's budget
  marker,               \* active_docker_image.json
  built,                \* history: the images whose build exited with 0, in time
  image,                \* the runner image of active_plan; in "build", the one being built
  attempt,              \* attempts at this container so far
  loop                  \* where the loop is: "idle", "decide", "debug", "build", "ready", "blocked"

probeInputs == <<runner, policyBudget>>
repairs == <<marker, built>>
probeVars == <<probeInputs, repairs, image, attempt, loop>>

NoPolicy == -1
PlanImage == << >>

ProbeInit ==
  /\ runner \in Runners
  /\ policyBudget \in PolicyBudgets
  /\ marker = PlanImage
  /\ built = {}
  /\ image = PlanImage
  /\ attempt = 0
  /\ loop = "idle"

\* _plan_with_active_repair, and the first look at the policy.
BeginLoop ==
  /\ image' = IF runner = "docker" THEN marker ELSE PlanImage
  /\ attempt' = 0
  /\ loop' = IF policyBudget = NoPolicy THEN "ready" ELSE "decide"
  /\ UNCHANGED <<probeInputs, repairs>>

NextAttemptUncounted ==
  /\ attempt' = attempt
  /\ loop' = "decide"
NextAttempt ==
  /\ attempt' = attempt + 1
  /\ loop' = IF attempt = MaxAttempts THEN "blocked" ELSE "decide"

\* The model is asked only within the policy's budget.
Asked == loop = "decide" /\ attempt < policyBudget

DeclareReady ==
  /\ Asked
  /\ loop' = "ready"
  /\ UNCHANGED <<probeInputs, repairs, image, attempt>>

\* A plan issue, a blocked harness, an invalid or empty reply, no model, no budget left.
GiveUp ==
  /\ loop = "decide"
  /\ loop' = "blocked"
  /\ UNCHANGED <<probeInputs, repairs, image, attempt>>

RunDebugCommand ==
  /\ Asked
  /\ loop' = "debug"
  /\ UNCHANGED <<probeInputs, repairs, image, attempt>>

\* It ends by itself or at its limit, whatever it did.
DebugCommandEnds ==
  /\ loop = "debug"
  /\ NextAttempt
  /\ UNCHANGED <<probeInputs, repairs, image>>

\* _apply_base_image_repair: the packages are validated before the build.  An image that is
\* already the active one is not built again.
Valid(request) == request # {} /\ request \subseteq Allowed

RepairBaseImage == \E request \in Requests :
  /\ Asked
  /\ Len(image) < MaxLayers
  /\ IF runner # "docker" \/ ~Valid(request)
     THEN loop' = "blocked" /\ UNCHANGED <<image, attempt>>
     ELSE LET repaired == Append(image, request) IN
            /\ image' = repaired
            /\ IF repaired = marker THEN NextAttempt ELSE loop' = "build" /\ UNCHANGED attempt
  /\ UNCHANGED <<probeInputs, repairs>>

BuildSucceeds ==
  /\ loop = "build"
  /\ built' = built \cup {image}
  /\ marker' = image
  /\ NextAttempt
  /\ UNCHANGED <<probeInputs, image>>

\* The build exits with another code or reaches its limit; the plan keeps its old image.
BuildFailsUnnoticed ==
  /\ loop = "build"
  /\ marker' = image
  /\ NextAttempt
  /\ UNCHANGED <<probeInputs, built, image>>
BuildFails ==
  /\ loop = "build"
  /\ image' = SubSeq(image, 1, Len(image) - 1)
  /\ loop' = "blocked"
  /\ UNCHANGED <<probeInputs, repairs, attempt>>

ProbeStep ==
  \/ DeclareReady
  \/ GiveUp
  \/ RunDebugCommand
  \/ DebugCommandEnds
  \/ RepairBaseImage
  \/ BuildSucceeds
  \/ BuildFails

\* The process dies; a marker cut off while it was written reads like an absent one.
ProbeDies ==
  /\ marker' \in IF loop = "build" THEN {marker, PlanImage} ELSE {marker}
  /\ loop' = "idle"
  /\ attempt' = 0
  /\ image' = PlanImage
  /\ UNCHANGED <<probeInputs, built>>

-----------------------------------------------------------------------------
\* A benchmark command runs in the plan's own image or in one whose build succeeded, also
\* for a commit whose own probe asked for nothing and after a death of the process.
BenchmarkedImagesExist ==
  loop = "ready" => image = PlanImage \/ (runner = "docker" /\ image \in built)

=============================================================================

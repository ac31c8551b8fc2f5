---- MODULE ToolingSnapshot ----
(***************************************************************************)
(* The benchmark tooling that every measurement of a run is pinned to:     *)
(* tooling.resolve_tooling_plan and materialize_tooling_snapshot as        *)
(* cli.main calls them, and the check each runner makes of the snapshot    *)
(* before it works (runner._verify_mounted_tooling).                       *)
(*                                                                         *)
(* The snapshot is a directory below the output directory, rebuilt by      *)
(* every run from a commit or from the worktree.  The worktree is edited   *)
(* while it is hashed and copied, file by file; a run dies at any point;   *)
(* a plan of an earlier run is used again, on a clone that may lack its    *)
(* commit.  A bundle is a function from the files there are to what they   *)
(* hold and stands for its own hash (sha256 does not collide here).        *)
(*                                                                         *)
(* A file holds plain content or is a symbolic link.  Hashing takes the    *)
(* target's name of a link to a file and passes over a link to a directory *)
(* or to nothing; copying follows every link and leaves plain files.       *)
(***************************************************************************)
EXTENDS Naturals, FiniteSets

CONSTANTS Files,      \* files of tools/perf_smoke_test
          Plain,      \* what a regular file can contain
          FileLinks,  \* links to files, by their target's name
          OtherLinks, \* links to directories, or to nothing
          Commits,    \* full SHAs a user may pin
          Modes,      \* runner modes of a plan
          MaxRuns,    \* runs on the directory
          MaxEdits,   \* edits of the worktree
          MaxDrifts   \* changes to a finished snapshot by something else

ASSUME ToolingAssumption == "WORKTREE" \notin Commits /\ "none" \notin Commits /\ "tag" \notin Commits

\* The name of a link's target is not what a regular file contains.
ASSUME LinkAssumption == Plain \cap (FileLinks \cup OtherLinks) = {} /\ FileLinks \cap OtherLinks = {}

VARIABLES tree,       \* the worktree
          committed,  \* the tree of each commit, without files where it has no tooling
          clone,      \* the commits that the clone has
          stage,      \* where the run is
          plan,       \* its plan: mode, tooling ref and pinned bundle
          todo, seen, \* files still to read or copy; what was read
          snapshot,   \* output_dir/tooling, as far as it exists
          manifest,   \* tooling_manifest.json
          plans,      \* every plan.resolved.json ever written
          reason,     \* why the run was blocked
          driver,     \* the bundle that the attempt's driver came from
          drifted,    \* history: the snapshot changed since the attempt checked it
          accepted,   \* history: accepted metrics of undisturbed attempts, with driver and result builder
          runs, edits, drifts

setup == <<todo, seen, snapshot>>
attempt == <<driver, drifted, accepted>>
counts == <<runs, edits, drifts>>
vars == <<tree, committed, clone, stage, plan, todo, seen, snapshot, manifest,
          plans, reason, driver, drifted, accepted, runs, edits, drifts>>

Versions == Plain \cup FileLinks \cup OtherLinks
Trees == UNION {[F -> Versions] : F \in SUBSET Files}
Empty == [f \in {} |-> f]
Bundles == Trees \ {Empty}
With(b, f, v) == [g \in DOMAIN b \cup {f} |-> IF g = f THEN v ELSE b[g]]
Without(b, f) == [g \in DOMAIN b \ {f} |-> b[g]]

\* What hashing sees of a tree: is_file() follows a link, and of a link the target's name is read.
Hashed(b) == [f \in {g \in DOMAIN b : b[g] \notin OtherLinks} |-> b[f]]
HasLink(b) == \E f \in DOMAIN b : b[f] \notin Plain

\* "none" is no ref or no full SHA, "tag" the full SHA of an annotated tag.
Refs == Commits \cup {"WORKTREE", "none", "tag"}
Plans == [mode : Modes \cup {"none"}, ref : Refs, bundle : Trees]
NoPlan == [mode |-> "none", ref |-> "none", bundle |-> Empty]
Setups == {"hashing", "removing", "checking", "copying", "verifying", "recording"}
Attempts == {"mounted", "dispatched", "prepared", "driven"}
Reasons == {"none", "tooling_sha_required", "tooling_sha_unavailable", "tooling_sha_mismatch", "tooling_hash_mismatch"}

Init ==
  /\ tree \in Bundles /\ committed \in [Commits -> Trees] /\ clone \in SUBSET Commits
  /\ stage = "idle" /\ plan = NoPlan /\ todo = {} /\ seen = Empty
  /\ snapshot = Empty /\ manifest = NoPlan /\ plans = {} /\ reason = "none"
  /\ driver = Empty /\ drifted = FALSE /\ accepted = {}
  /\ runs = 0 /\ edits = 0 /\ drifts = 0

----------------------------------------------------------------------------
(* What others do. *)

\* A developer adds, changes or removes a file of the worktree.
Edit ==
  /\ edits < MaxEdits
  /\ edits' = edits + 1
  /\ \E f \in Files : \/ \E v \in Versions : tree' = With(tree, f, v)
                      \/ tree' = Without(tree, f)
  /\ UNCHANGED <<committed, clone, stage, plan, setup, manifest, plans, reason, attempt, runs, drifts>>

\* Commits are fetched or pruned, or the directory is used from another clone.
CloneChanges ==
  /\ stage = "idle"
  /\ clone' \in SUBSET Commits
  /\ UNCHANGED <<tree, committed, stage, plan, setup, manifest, plans, reason, attempt, counts>>

\* Something else changes a file of the snapshot while a run measures.
Drift ==
  /\ stage \in Attempts \cup {"measuring"} /\ drifts < MaxDrifts
  /\ \E f \in Files, v \in Versions : snapshot' = With(snapshot, f, v)
  /\ drifts' = drifts + 1 /\ drifted' = TRUE
  /\ UNCHANGED <<tree, committed, clone, stage, plan, todo, seen, manifest, plans, reason, driver, accepted, runs, edits>>

\* The run is over, killed, or failed with an exception: nothing here tells of it.
RunEnds ==
  /\ stage # "idle"
  /\ stage' = "idle" /\ plan' = NoPlan /\ todo' = {} /\ seen' = Empty /\ driver' = Empty /\ drifted' = FALSE
  /\ UNCHANGED <<tree, committed, clone, snapshot, manifest, plans, reason, accepted, counts>>

----------------------------------------------------------------------------
(* The setup of a run. *)

Block(why) == stage' = "idle" /\ reason' = why
Proceed(next) == stage' = next /\ UNCHANGED reason

\* A new run, without a pin or with the plan of an earlier run.
StartRun ==
  /\ stage = "idle" /\ runs < MaxRuns
  /\ runs' = runs + 1 /\ seen' = Empty /\ reason' = "none"
  /\ \/ \E mode \in Modes, ref \in Refs :
          /\ plan' = [mode |-> mode, ref |-> ref, bundle |-> Empty]
          /\ todo' = (IF ref = "WORKTREE" THEN DOMAIN tree ELSE {})
          /\ stage' = "hashing"
     \/ \E p \in plans : plan' = p /\ todo' = {} /\ stage' = "removing"
  /\ UNCHANGED <<tree, committed, clone, snapshot, manifest, plans, attempt, edits, drifts>>

\* git archive needs the commit, and the tooling in it.
Archivable(c) == c \in clone /\ committed[c] # Empty

\* Authoritative runs require the full SHA of a commit that can be archived; a tag's resolves to another.
RefRejected ==
  /\ stage = "hashing"
  /\ \/ plan.ref = "none" /\ Block("tooling_sha_required")
     \/ plan.ref = "tag" /\ (Block("tooling_sha_mismatch") \/ Block("tooling_sha_unavailable"))
     \/ plan.ref \in Commits /\ ~Archivable(plan.ref) /\ Block("tooling_sha_unavailable")
  /\ UNCHANGED <<tree, committed, clone, plan, setup, manifest, plans, attempt, counts>>

\* A commit's tree is archived and hashed; nothing to hash is an error that nothing catches.
ResolveCommit ==
  /\ stage = "hashing" /\ plan.ref \in Commits /\ Archivable(plan.ref) /\ Hashed(committed[plan.ref]) # Empty
  /\ plan' = [plan EXCEPT !.bundle = Hashed(committed[plan.ref])]
  /\ Proceed("removing")
  /\ UNCHANGED <<tree, committed, clone, setup, manifest, plans, attempt, counts>>

\* Files of the worktree are hashed one after another; one that is gone, or
\* is a link to no file, is passed over.
ReadFile ==
  /\ stage \in {"hashing", "checking"} /\ plan.ref = "WORKTREE"
  /\ \E f \in todo : /\ todo' = todo \ {f}
                     /\ seen' = IF f \in DOMAIN Hashed(tree) THEN With(seen, f, tree[f]) ELSE seen
  /\ UNCHANGED <<tree, committed, clone, stage, plan, snapshot, manifest, plans, reason, attempt, counts>>

\* The hash of the worktree becomes the plan's; an empty one is an error that nothing catches.
ResolveWorktree ==
  /\ stage = "hashing" /\ plan.ref = "WORKTREE" /\ todo = {} /\ seen # Empty
  /\ plan' = [plan EXCEPT !.bundle = seen] /\ seen' = Empty
  /\ Proceed("removing")
  /\ UNCHANGED <<tree, committed, clone, todo, snapshot, manifest, plans, attempt, counts>>

\* The snapshot of the run before is removed, file by file, before anything is checked.
RemoveFile ==
  /\ stage = "removing"
  /\ \E f \in DOMAIN snapshot : snapshot' = Without(snapshot, f)
  /\ UNCHANGED <<tree, committed, clone, stage, plan, todo, seen, manifest, plans, reason, attempt, counts>>

Removed ==
  /\ stage = "removing" /\ DOMAIN snapshot = {}
  /\ \/ plan.ref = "WORKTREE" /\ todo' = DOMAIN tree /\ Proceed("checking")
     \/ plan.ref \in Commits /\ Archivable(plan.ref) /\ todo' = DOMAIN committed[plan.ref] /\ Proceed("copying")
     \/ plan.ref \in Commits /\ ~Archivable(plan.ref) /\ todo' = {} /\ Block("tooling_sha_unavailable")
  /\ seen' = Empty
  /\ UNCHANGED <<tree, committed, clone, plan, snapshot, manifest, plans, attempt, counts>>

\* The worktree must still have the pinned hash; then its files are listed to be copied.
CheckWorktree ==
  /\ stage = "checking" /\ todo = {} /\ seen # Empty
  /\ \/ seen = plan.bundle /\ todo' = DOMAIN tree /\ Proceed("copying")
     \/ seen # plan.bundle /\ todo' = {} /\ Block("tooling_hash_mismatch")
  /\ seen' = Empty
  /\ UNCHANGED <<tree, committed, clone, plan, snapshot, manifest, plans, attempt, counts>>

SourceFromWorktree == tree
Source == IF plan.ref = "WORKTREE" THEN tree ELSE committed[plan.ref]

\* One file is copied, a link as what it leads to: some content, for a directory perhaps none.
\* A listed file that is gone, or a link to nothing, fails the copy, which is RunEnds.
CopyFile ==
  /\ stage = "copying"
  /\ \E f \in todo \cap DOMAIN Source :
       /\ todo' = todo \ {f}
       /\ \/ \E v \in Plain : /\ Source[f] \in Plain => v = Source[f]
                              /\ snapshot' = With(snapshot, f, v)
          \/ Source[f] \in OtherLinks /\ UNCHANGED snapshot
  /\ UNCHANGED <<tree, committed, clone, stage, plan, seen, manifest, plans, reason, attempt, counts>>

Copied ==
  /\ stage = "copying" /\ todo = {}
  /\ Proceed("verifying")
  /\ UNCHANGED <<tree, committed, clone, plan, setup, manifest, plans, attempt, counts>>

\* The copy itself is hashed.
IsPinnedByCount == Cardinality(DOMAIN Hashed(snapshot)) = Cardinality(DOMAIN plan.bundle)
IsPinned == Hashed(snapshot) = plan.bundle
Verify ==
  /\ stage = "verifying" /\ Hashed(snapshot) # Empty
  /\ \/ IsPinned /\ Proceed("recording")
     \/ ~IsPinned /\ Block("tooling_hash_mismatch")
  /\ UNCHANGED <<tree, committed, clone, plan, setup, manifest, plans, attempt, counts>>

\* tooling_manifest.json, and then plan.resolved.json.
WriteManifest ==
  /\ stage = "recording" /\ manifest # plan
  /\ manifest' = plan
  /\ UNCHANGED <<tree, committed, clone, stage, plan, setup, plans, reason, attempt, counts>>

WritePlan ==
  /\ stage = "recording" /\ manifest = plan
  /\ plans' = plans \cup {plan} /\ drifted' = FALSE
  /\ Proceed("measuring")
  /\ UNCHANGED <<tree, committed, clone, plan, setup, manifest, driver, accepted, counts>>

----------------------------------------------------------------------------
(* One attempt: the runner checks what it was given, works for hours, then  *)
(* runs the driver and the result builder from the snapshot.                *)

StartAttempt ==
  /\ stage = "measuring"
  /\ Proceed("mounted")
  /\ UNCHANGED <<tree, committed, clone, plan, setup, manifest, plans, attempt, counts>>

\* The runner, and in docker-reconstruct mode the runner in its container again.
MountedUnchecked == stage = "mounted" \/ (stage = "dispatched" /\ plan.mode = "docker-reconstruct")
TakenOnTrust == TRUE
MountedIsPinned == Hashed(snapshot) = plan.bundle
VerifyMounted ==
  /\ MountedUnchecked
  /\ \/ /\ MountedIsPinned /\ drifted' = FALSE
        /\ Proceed(IF stage = "mounted" /\ plan.mode = "docker-reconstruct" THEN "dispatched" ELSE "prepared")
     \/ /\ ~MountedIsPinned /\ UNCHANGED drifted
        /\ Proceed("measuring")
  /\ UNCHANGED <<tree, committed, clone, plan, setup, manifest, plans, driver, accepted, counts>>

RunDriver ==
  /\ stage = "prepared"
  /\ driver' = Hashed(snapshot)
  /\ Proceed("driven")
  /\ UNCHANGED <<tree, committed, clone, plan, setup, manifest, plans, drifted, accepted, counts>>

\* The result is built from the snapshot and accepted by the engine, or the attempt failed.
EndAttempt ==
  /\ stage = "driven"
  /\ Proceed("measuring")
  /\ driver' = Empty
  /\ \/ ~drifted /\ accepted' = accepted \cup {[plan |-> plan, driver |-> driver, builder |-> Hashed(snapshot)]}
     \/ UNCHANGED accepted
  /\ UNCHANGED <<tree, committed, clone, plan, setup, manifest, plans, drifted, counts>>

Next == \/ Edit \/ CloneChanges \/ Drift \/ RunEnds
        \/ StartRun \/ RefRejected \/ ResolveCommit \/ ReadFile \/ ResolveWorktree
        \/ RemoveFile \/ Removed \/ CheckWorktree \/ CopyFile \/ Copied \/ Verify
        \/ WriteManifest \/ WritePlan
        \/ StartAttempt \/ VerifyMounted \/ RunDriver \/ EndAttempt

Spec == Init /\ [][Next]_vars

----------------------------------------------------------------------------
(* Properties. *)

TypeOK ==
  /\ tree \in Trees /\ committed \in [Commits -> Trees] /\ clone \subseteq Commits
  /\ stage \in {"idle", "measuring"} \cup Setups \cup Attempts
  /\ plan \in Plans /\ plans \subseteq Plans
  /\ todo \subseteq Files /\ seen \in Trees /\ snapshot \in Trees /\ reason \in Reasons /\ drifted \in BOOLEAN

\* A run that measures has, until something else changes it, exactly the pinned files in its
\* snapshot and its own plan in tooling_manifest.json: whatever was edited while the worktree
\* was hashed, hashed again and copied, and whatever a dead run left there before.
SnapshotIsPinned ==
  stage \in {"measuring"} \cup Attempts /\ ~drifted => Hashed(snapshot) = plan.bundle /\ manifest = plan

\* Every accepted metric was measured by the driver and built by the result builder of its
\* plan's pin, and for an authoritative plan these are the commit's own: across runs, relaunches
\* of an old plan and changed snapshots, except one that changed after the attempt's last check.
MeasuredWithThePin ==
  \A a \in accepted :
    /\ a.driver = a.plan.bundle /\ a.builder = a.plan.bundle
    /\ a.plan.ref \in Commits => a.driver = Hashed(committed[a.plan.ref])

\* A plan pinned to a commit whose tooling holds no link is never blocked by a hash: it runs on any
\* clone that has the commit, whatever the worktree beside it looks like (cli._relaunch_tooling_fields).
\* With a link to a file it cannot be so: no run whose pin holds one gets past the hash of its copy.
RelaunchIsPortable ==
  /\ reason = "tooling_hash_mismatch" => plan.ref = "WORKTREE" \/ HasLink(committed[plan.ref])
  /\ stage \in {"recording", "measuring"} \cup Attempts => ~HasLink(plan.bundle)
====

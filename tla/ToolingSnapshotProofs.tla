---- MODULE ToolingSnapshotProofs ----
(***************************************************************************)
(* For every set of files, versions and commits and any number of runs,    *)
(* edits and changed snapshots: a run measures with exactly the tooling    *)
(* its plan is pinned to, and a plan pinned to a commit whose tooling      *)
(* holds no link is never blocked by a hash.                               *)
(***************************************************************************)
EXTENDS ToolingSnapshot, TLAPS

Measuring == {"measuring"} \cup Attempts

\* A pin on a commit is the hash of what the commit contains.
TruePin(p) == p.ref \notin {"none", "tag"} /\ (p.ref \in Commits => p.bundle = Hashed(committed[p.ref]))
PinsAreTrue ==
  /\ stage \notin {"idle", "hashing"} => TruePin(plan)
  /\ \A p \in plans : TruePin(p)

\* What is copied from a commit without links so far is as the commit has it, and the rest is on the list.
CopyIsTrue ==
  plan.ref \in Commits =>
    /\ stage # "checking"
    /\ stage = "copying" /\ ~HasLink(committed[plan.ref]) =>
         /\ todo \cup DOMAIN snapshot = DOMAIN committed[plan.ref]
         /\ \A f \in DOMAIN snapshot : snapshot[f] = committed[plan.ref][f]
    /\ stage = "verifying" /\ ~HasLink(committed[plan.ref]) => snapshot = committed[plan.ref]

\* A copy holds no link, so that a verified pin holds none either.
CopyIsPlain ==
  /\ stage \in {"checking", "copying", "verifying"} => ~HasLink(snapshot)
  /\ stage \in {"recording"} \cup Measuring => ~HasLink(plan.bundle)

\* Once verified, the snapshot is the pinned bundle until something else changes it.
SettledIsPinned ==
  /\ stage = "recording" => Hashed(snapshot) = plan.bundle
  /\ stage \in Measuring => TruePin(plan) /\ manifest = plan
  /\ stage \in Measuring /\ ~drifted => Hashed(snapshot) = plan.bundle
  /\ stage = "driven" /\ ~drifted => driver = plan.bundle

\* A blocked run has ended.
NotBlocked == stage # "idle" => reason = "none"

\* Only a worktree, or a link, is blocked by a hash.
BlockedByLink == reason = "tooling_hash_mismatch" => plan.ref = "WORKTREE" \/ HasLink(committed[plan.ref])

IInv == TypeOK /\ NotBlocked /\ PinsAreTrue /\ CopyIsTrue /\ CopyIsPlain /\ SettledIsPinned /\ MeasuredWithThePin /\ BlockedByLink

\* Changing or adding a file of a bundle gives a bundle.
LEMMA WithIsATree == ASSUME NEW b \in Trees, NEW f \in Files, NEW v \in Versions
                     PROVE  With(b, f, v) \in Trees /\ DOMAIN With(b, f, v) = DOMAIN b \cup {f}
<1>1. PICK F \in SUBSET Files : b \in [F -> Versions]
  BY DEF Trees
<1>2. With(b, f, v) \in [F \cup {f} -> Versions]
  BY <1>1 DEF With
<1>3. F \cup {f} \in SUBSET Files
  BY <1>1
<1> QED BY <1>1, <1>2, <1>3 DEF Trees

\* Taking a file out of a bundle leaves a bundle.
LEMMA WithoutIsATree == ASSUME NEW b \in Trees, NEW f
                        PROVE  Without(b, f) \in Trees
<1>1. PICK F \in SUBSET Files : b \in [F -> Versions]
  BY DEF Trees
<1>2. Without(b, f) \in [F \ {f} -> Versions]
  BY <1>1 DEF Without
<1> QED BY <1>1, <1>2 DEF Trees

\* The bundle without files is a bundle; a bundle maps some of the files.
LEMMA TreeFacts == /\ Empty \in Trees
                   /\ \A b \in Trees : /\ DOMAIN b \subseteq Files
                                       /\ \A f \in DOMAIN b : b[f] \in Versions
<1>1. Empty \in [{} -> Versions]
  BY DEF Empty
<1>2. Empty \in Trees
  BY <1>1 DEF Trees
<1>3. ASSUME NEW b \in Trees PROVE DOMAIN b \subseteq Files /\ \A f \in DOMAIN b : b[f] \in Versions
  <2>1. PICK F \in SUBSET Files : b \in [F -> Versions]
    BY <1>3 DEF Trees
  <2> QED BY <2>1
<1> QED BY <1>2, <1>3

\* Two bundles with the same files and versions are the same.
LEMMA SameTree == ASSUME NEW b \in Trees, NEW c \in Trees, DOMAIN b = DOMAIN c,
                         \A f \in DOMAIN b : b[f] = c[f]
                  PROVE  b = c
<1>1. PICK F \in SUBSET Files : b \in [F -> Versions]
  BY DEF Trees
<1>2. PICK G \in SUBSET Files : c \in [G -> Versions]
  BY DEF Trees
<1>3. F = G /\ b = [f \in F |-> b[f]] /\ c = [f \in F |-> c[f]]
  BY <1>1, <1>2
<1> QED BY <1>1, <1>2, <1>3

\* What is hashed of a tree is a tree, and all of it where it holds no link.
LEMMA HashedFacts == ASSUME NEW b \in Trees
                     PROVE  /\ Hashed(b) \in Trees
                            /\ DOMAIN Hashed(b) \subseteq DOMAIN b
                            /\ ~HasLink(b) => Hashed(b) = b
<1>1. PICK F \in SUBSET Files : b \in [F -> Versions]
  BY DEF Trees
<1> DEFINE G == {g \in F : b[g] \notin OtherLinks}
<1>2. Hashed(b) = [f \in G |-> b[f]]
  BY <1>1 DEF Hashed
<1>3. Hashed(b) \in [G -> Versions] /\ G \in SUBSET Files
  BY <1>1, <1>2
<1>4. ASSUME ~HasLink(b) PROVE Hashed(b) = b
  <2>1. \A f \in F : b[f] \notin OtherLinks
    BY <1>1, <1>4, LinkAssumption DEF HasLink
  <2>2. G = F /\ b = [f \in F |-> b[f]]
    BY <1>1, <2>1
  <2> QED BY <1>2, <2>2
<1> QED BY <1>1, <1>2, <1>3, <1>4 DEF Trees

\* Every variable keeps its type.
LEMMA TypeStep == ASSUME TypeOK, PinsAreTrue, [Next]_vars PROVE TypeOK'
<1>1. CASE Edit
  <2>1. PICK f \in Files : (\E v \in Versions : tree' = With(tree, f, v)) \/ tree' = Without(tree, f)
    BY <1>1 DEF Edit
  <2>2. tree \in Trees
    BY DEF TypeOK
  <2>3. tree' \in Trees
    <3>1. CASE \E v \in Versions : tree' = With(tree, f, v)
      <4>1. PICK v \in Versions : tree' = With(tree, f, v)
        BY <3>1
      <4>2. With(tree, f, v) \in Trees
        BY <2>2, WithIsATree
      <4> QED BY <4>1, <4>2
    <3>2. CASE tree' = Without(tree, f)
      BY <2>2, <3>2, WithoutIsATree
    <3> QED BY <2>1, <3>1, <3>2
  <2> QED BY <1>1, <2>3 DEF Edit, setup, attempt, TypeOK
<1>2. CASE CloneChanges
  BY <1>2, TreeFacts DEF CloneChanges, setup, attempt, counts, Block, Proceed, TypeOK, Setups, Attempts, Plans, Reasons
<1>3. CASE Drift
  <2>1. PICK f \in Files, v \in Versions : snapshot' = With(snapshot, f, v)
    BY <1>3 DEF Drift
  <2>2. snapshot' \in Trees
    BY <2>1, WithIsATree DEF TypeOK
  <2> QED BY <1>3, <2>2 DEF Drift, TypeOK, Attempts
<1>4. CASE RunEnds
  BY <1>4, TreeFacts DEF RunEnds, setup, attempt, counts, Block, Proceed, TypeOK, Setups, Attempts, Plans, Reasons, NoPlan, Refs
<1>5. CASE StartRun
  BY <1>5, TreeFacts DEF StartRun, setup, attempt, counts, Block, Proceed, TypeOK, Setups, Attempts, Plans, Reasons
<1>6. CASE RefRejected
  BY <1>6, TreeFacts DEF RefRejected, setup, attempt, counts, Block, Proceed, TypeOK, Setups, Attempts, Plans, Reasons
<1>7. CASE ResolveCommit
  <2>1. Hashed(committed[plan.ref]) \in Trees
    BY <1>7, HashedFacts DEF ResolveCommit, TypeOK
  <2> QED BY <1>7, <2>1 DEF ResolveCommit, setup, attempt, counts, Proceed, TypeOK, Setups, Attempts, Plans, Reasons
<1>8. CASE ReadFile
  <2>1. PICK f \in todo : /\ todo' = todo \ {f}
                         /\ seen' = IF f \in DOMAIN Hashed(tree) THEN With(seen, f, tree[f]) ELSE seen
    BY <1>8 DEF ReadFile
  <2>2. seen \in Trees /\ f \in Files /\ (f \in DOMAIN Hashed(tree) => tree[f] \in Versions)
    BY TreeFacts, HashedFacts DEF TypeOK
  <2>3. seen' \in Trees
    <3>1. CASE f \in DOMAIN Hashed(tree)
      BY <2>1, <2>2, <3>1, WithIsATree
    <3>2. CASE f \notin DOMAIN Hashed(tree)
      BY <2>1, <2>2, <3>2
    <3> QED BY <3>1, <3>2
  <2> QED BY <1>8, <2>1, <2>3 DEF ReadFile, attempt, TypeOK
<1>9. CASE ResolveWorktree
  BY <1>9, TreeFacts DEF ResolveWorktree, setup, attempt, counts, Block, Proceed, TypeOK, Setups, Attempts, Plans, Reasons
<1>10. CASE RemoveFile
  BY <1>10, WithoutIsATree DEF RemoveFile, setup, attempt, counts, Block, Proceed, TypeOK, Setups, Attempts, Plans, Reasons
<1>11. CASE Removed
  BY <1>11, TreeFacts DEF Removed, setup, attempt, counts, Block, Proceed, TypeOK, Setups, Attempts, Plans, Reasons, Bundles
<1>12. CASE CheckWorktree
  BY <1>12, TreeFacts DEF CheckWorktree, setup, attempt, counts, Block, Proceed, TypeOK, Setups, Attempts, Plans, Reasons
<1>13. CASE CopyFile
  <2>1. PICK f \in todo \cap DOMAIN Source :
          /\ todo' = todo \ {f}
          /\ \/ \E v \in Plain : snapshot' = With(snapshot, f, v)
             \/ UNCHANGED snapshot
    BY <1>13 DEF CopyFile
  <2>2. f \in Files /\ todo' \subseteq Files
    BY <2>1 DEF TypeOK
  <2>3. snapshot' \in Trees
    <3>1. snapshot \in Trees
      BY DEF TypeOK
    <3>2. ASSUME NEW v \in Plain, snapshot' = With(snapshot, f, v) PROVE snapshot' \in Trees
      <4>1. v \in Versions
        BY DEF Versions
      <4> QED BY <2>2, <3>1, <3>2, <4>1, WithIsATree
    <3> QED BY <2>1, <3>1, <3>2
  <2> QED BY <1>13, <2>2, <2>3 DEF CopyFile, attempt, TypeOK
<1>14. CASE Copied
  BY <1>14, TreeFacts DEF Copied, setup, attempt, counts, Block, Proceed, TypeOK, Setups, Attempts, Plans, Reasons
<1>15. CASE Verify
  BY <1>15, TreeFacts DEF Verify, setup, attempt, counts, Block, Proceed, TypeOK, Setups, Attempts, Plans, Reasons
<1>16. CASE WriteManifest
  BY <1>16, TreeFacts DEF WriteManifest, setup, attempt, counts, Block, Proceed, TypeOK, Setups, Attempts, Plans, Reasons
<1>17. CASE WritePlan
  BY <1>17, TreeFacts DEF WritePlan, setup, attempt, counts, Block, Proceed, TypeOK, Setups, Attempts, Plans, Reasons
<1>18. CASE StartAttempt
  BY <1>18, TreeFacts DEF StartAttempt, setup, attempt, counts, Block, Proceed, TypeOK, Setups, Attempts, Plans, Reasons
<1>19. CASE VerifyMounted
  BY <1>19, TreeFacts DEF VerifyMounted, setup, attempt, counts, Block, Proceed, TypeOK, Setups, Attempts, Plans, Reasons
<1>20. CASE RunDriver
  BY <1>20, TreeFacts DEF RunDriver, setup, attempt, counts, Block, Proceed, TypeOK, Setups, Attempts, Plans, Reasons
<1>21. CASE EndAttempt
  BY <1>21, TreeFacts DEF EndAttempt, setup, attempt, counts, Block, Proceed, TypeOK, Setups, Attempts, Plans, Reasons
<1>22. CASE UNCHANGED vars
  BY <1>22 DEF vars, setup, attempt, counts, setup, attempt, counts, Block, Proceed, TypeOK, Setups, Attempts, Plans, Reasons
<1> QED BY <1>1, <1>2, <1>3, <1>4, <1>5, <1>6, <1>7, <1>8, <1>9, <1>10, <1>11, <1>12, <1>13, <1>14, <1>15, <1>16, <1>17, <1>18, <1>19, <1>20, <1>21, <1>22 DEF Next

\* The pins stay true.
LEMMA PinsStep == ASSUME TypeOK, PinsAreTrue, [Next]_vars PROVE PinsAreTrue'
<1>1. CASE Edit
  BY <1>1, ToolingAssumption DEF Edit, setup, attempt, counts, Block, Proceed, TypeOK, PinsAreTrue, TruePin, Attempts
<1>2. CASE CloneChanges
  BY <1>2, ToolingAssumption DEF CloneChanges, setup, attempt, counts, Block, Proceed, TypeOK, PinsAreTrue, TruePin, Attempts
<1>3. CASE Drift
  BY <1>3, ToolingAssumption DEF Drift, setup, attempt, counts, Block, Proceed, TypeOK, PinsAreTrue, TruePin, Attempts
<1>4. CASE RunEnds
  BY <1>4, ToolingAssumption DEF RunEnds, setup, attempt, counts, Block, Proceed, TypeOK, PinsAreTrue, TruePin, Attempts, NoPlan
<1>5. CASE StartRun
  BY <1>5, ToolingAssumption DEF StartRun, setup, attempt, counts, Block, Proceed, TypeOK, PinsAreTrue, TruePin, Attempts
<1>6. CASE RefRejected
  BY <1>6, ToolingAssumption DEF RefRejected, setup, attempt, counts, Block, Proceed, TypeOK, PinsAreTrue, TruePin, Attempts
<1>7. CASE ResolveCommit
  BY <1>7, ToolingAssumption DEF ResolveCommit, setup, attempt, counts, Block, Proceed, TypeOK, PinsAreTrue, TruePin, Attempts, Plans
<1>8. CASE ReadFile
  BY <1>8, ToolingAssumption DEF ReadFile, setup, attempt, counts, Block, Proceed, TypeOK, PinsAreTrue, TruePin, Attempts
<1>9. CASE ResolveWorktree
  BY <1>9, ToolingAssumption DEF ResolveWorktree, setup, attempt, counts, Block, Proceed, TypeOK, PinsAreTrue, TruePin, Attempts, Plans
<1>10. CASE RemoveFile
  BY <1>10, ToolingAssumption DEF RemoveFile, setup, attempt, counts, Block, Proceed, TypeOK, PinsAreTrue, TruePin, Attempts
<1>11. CASE Removed
  BY <1>11, ToolingAssumption DEF Removed, setup, attempt, counts, Block, Proceed, TypeOK, PinsAreTrue, TruePin, Attempts
<1>12. CASE CheckWorktree
  BY <1>12, ToolingAssumption DEF CheckWorktree, setup, attempt, counts, Block, Proceed, TypeOK, PinsAreTrue, TruePin, Attempts
<1>13. CASE CopyFile
  BY <1>13, ToolingAssumption DEF CopyFile, setup, attempt, counts, Block, Proceed, TypeOK, PinsAreTrue, TruePin, Attempts
<1>14. CASE Copied
  BY <1>14, ToolingAssumption DEF Copied, setup, attempt, counts, Block, Proceed, TypeOK, PinsAreTrue, TruePin, Attempts
<1>15. CASE Verify
  BY <1>15, ToolingAssumption DEF Verify, setup, attempt, counts, Block, Proceed, TypeOK, PinsAreTrue, TruePin, Attempts
<1>16. CASE WriteManifest
  BY <1>16, ToolingAssumption DEF WriteManifest, setup, attempt, counts, Block, Proceed, TypeOK, PinsAreTrue, TruePin, Attempts
<1>17. CASE WritePlan
  BY <1>17, ToolingAssumption DEF WritePlan, setup, attempt, counts, Block, Proceed, TypeOK, PinsAreTrue, TruePin, Attempts
<1>18. CASE StartAttempt
  BY <1>18, ToolingAssumption DEF StartAttempt, setup, attempt, counts, Block, Proceed, TypeOK, PinsAreTrue, TruePin, Attempts
<1>19. CASE VerifyMounted
  BY <1>19, ToolingAssumption DEF VerifyMounted, MountedUnchecked, MountedIsPinned, setup, attempt, counts, Block, Proceed, TypeOK, PinsAreTrue, TruePin, Attempts
<1>20. CASE RunDriver
  BY <1>20, ToolingAssumption DEF RunDriver, setup, attempt, counts, Block, Proceed, TypeOK, PinsAreTrue, TruePin, Attempts
<1>21. CASE EndAttempt
  BY <1>21, ToolingAssumption DEF EndAttempt, setup, attempt, counts, Block, Proceed, TypeOK, PinsAreTrue, TruePin, Attempts
<1>22. CASE UNCHANGED vars
  BY <1>22 DEF vars, setup, attempt, counts, setup, attempt, counts, Block, Proceed, TypeOK, PinsAreTrue, TruePin, Attempts
<1> QED BY <1>1, <1>2, <1>3, <1>4, <1>5, <1>6, <1>7, <1>8, <1>9, <1>10, <1>11, <1>12, <1>13, <1>14, <1>15, <1>16, <1>17, <1>18, <1>19, <1>20, <1>21, <1>22 DEF Next

\* The copy stays true.
LEMMA CopyStep == ASSUME TypeOK, TypeOK', PinsAreTrue, CopyIsTrue, [Next]_vars PROVE CopyIsTrue'
<1>1. CASE Edit
  BY <1>1, ToolingAssumption DEF Edit, setup, attempt, counts, Block, Proceed, CopyIsTrue, Attempts
<1>2. CASE CloneChanges
  BY <1>2, ToolingAssumption DEF CloneChanges, setup, attempt, counts, Block, Proceed, CopyIsTrue, Attempts
<1>3. CASE Drift
  BY <1>3, ToolingAssumption DEF Drift, setup, attempt, counts, Block, Proceed, CopyIsTrue, Attempts
<1>4. CASE RunEnds
  BY <1>4, ToolingAssumption DEF RunEnds, setup, attempt, counts, Block, Proceed, CopyIsTrue, Attempts
<1>5. CASE StartRun
  BY <1>5, ToolingAssumption DEF StartRun, setup, attempt, counts, Block, Proceed, CopyIsTrue, Attempts
<1>6. CASE RefRejected
  BY <1>6, ToolingAssumption DEF RefRejected, setup, attempt, counts, Block, Proceed, CopyIsTrue, Attempts
<1>7. CASE ResolveCommit
  BY <1>7, ToolingAssumption DEF ResolveCommit, setup, attempt, counts, Block, Proceed, CopyIsTrue, Attempts
<1>8. CASE ReadFile
  BY <1>8, ToolingAssumption DEF ReadFile, setup, attempt, counts, Block, Proceed, CopyIsTrue, Attempts
<1>9. CASE ResolveWorktree
  BY <1>9, ToolingAssumption DEF ResolveWorktree, setup, attempt, counts, Block, Proceed, CopyIsTrue, Attempts
<1>10. CASE RemoveFile
  BY <1>10, ToolingAssumption DEF RemoveFile, setup, attempt, counts, Block, Proceed, CopyIsTrue, Attempts
<1>11. CASE Removed
  BY <1>11, ToolingAssumption DEF Removed, setup, attempt, counts, Block, Proceed, CopyIsTrue, Attempts
<1>12. CASE CheckWorktree
  BY <1>12, ToolingAssumption DEF CheckWorktree, setup, attempt, counts, Block, Proceed, CopyIsTrue, Attempts
<1>13. CASE CopyFile
  <2>1. PICK f \in todo \cap DOMAIN Source :
          /\ todo' = todo \ {f}
          /\ \/ \E v \in Plain : /\ Source[f] \in Plain => v = Source[f]
                                 /\ snapshot' = With(snapshot, f, v)
             \/ Source[f] \in OtherLinks /\ UNCHANGED snapshot
    BY <1>13 DEF CopyFile
  <2> SUFFICES ASSUME plan.ref \in Commits, ~HasLink(committed[plan.ref])
               PROVE  /\ todo' \cup DOMAIN snapshot' = DOMAIN committed[plan.ref]
                      /\ \A g \in DOMAIN snapshot' : snapshot'[g] = committed[plan.ref][g]
    BY <1>13 DEF CopyFile, CopyIsTrue
  <2>2. Source = committed[plan.ref]
    BY ToolingAssumption DEF Source
  <2>3. Source[f] \in Plain
    BY <2>1, <2>2 DEF HasLink
  <2>4. snapshot' = With(snapshot, f, Source[f])
    BY <2>1, <2>3, LinkAssumption
  <2>5. /\ DOMAIN snapshot' = DOMAIN snapshot \cup {f}
        /\ \A g \in DOMAIN snapshot' : snapshot'[g] = IF g = f THEN Source[f] ELSE snapshot[g]
    BY <2>4 DEF With
  <2>6. /\ todo \cup DOMAIN snapshot = DOMAIN committed[plan.ref]
        /\ \A g \in DOMAIN snapshot : snapshot[g] = committed[plan.ref][g]
    BY <1>13 DEF CopyFile, CopyIsTrue
  <2> QED BY <2>1, <2>2, <2>5, <2>6
<1>14. CASE Copied
  <2> SUFFICES ASSUME plan.ref \in Commits, ~HasLink(committed[plan.ref]) PROVE snapshot = committed[plan.ref]
    BY <1>14 DEF Copied, Proceed, setup, CopyIsTrue
  <2>1. /\ DOMAIN snapshot = DOMAIN committed[plan.ref]
        /\ \A f \in DOMAIN snapshot : snapshot[f] = committed[plan.ref][f]
    BY <1>14 DEF Copied, CopyIsTrue
  <2>2. snapshot \in Trees /\ committed[plan.ref] \in Trees
    BY DEF TypeOK
  <2> QED BY <2>1, <2>2, SameTree
<1>15. CASE Verify
  BY <1>15, ToolingAssumption DEF Verify, setup, attempt, counts, Block, Proceed, CopyIsTrue, Attempts
<1>16. CASE WriteManifest
  BY <1>16, ToolingAssumption DEF WriteManifest, setup, attempt, counts, Block, Proceed, CopyIsTrue, Attempts
<1>17. CASE WritePlan
  BY <1>17, ToolingAssumption DEF WritePlan, setup, attempt, counts, Block, Proceed, CopyIsTrue, Attempts
<1>18. CASE StartAttempt
  BY <1>18, ToolingAssumption DEF StartAttempt, setup, attempt, counts, Block, Proceed, CopyIsTrue, Attempts
<1>19. CASE VerifyMounted
  BY <1>19, ToolingAssumption DEF VerifyMounted, MountedUnchecked, MountedIsPinned, setup, attempt, counts, Block, Proceed, CopyIsTrue, Attempts
<1>20. CASE RunDriver
  BY <1>20, ToolingAssumption DEF RunDriver, setup, attempt, counts, Block, Proceed, CopyIsTrue, Attempts
<1>21. CASE EndAttempt
  BY <1>21, ToolingAssumption DEF EndAttempt, setup, attempt, counts, Block, Proceed, CopyIsTrue, Attempts
<1>22. CASE UNCHANGED vars
  BY <1>22 DEF vars, setup, attempt, counts, setup, attempt, counts, Block, Proceed, CopyIsTrue, Attempts
<1> QED BY <1>1, <1>2, <1>3, <1>4, <1>5, <1>6, <1>7, <1>8, <1>9, <1>10, <1>11, <1>12, <1>13, <1>14, <1>15, <1>16, <1>17, <1>18, <1>19, <1>20, <1>21, <1>22 DEF Next

\* The copy and a verified pin stay without links.
LEMMA PlainStep == ASSUME TypeOK, CopyIsPlain, [Next]_vars PROVE CopyIsPlain'
<1>1. CASE Edit
  BY <1>1 DEF Edit, setup, attempt, counts, Block, Proceed, CopyIsPlain, Measuring, Attempts
<1>2. CASE CloneChanges
  BY <1>2 DEF CloneChanges, setup, attempt, counts, Block, Proceed, CopyIsPlain, Measuring, Attempts
<1>3. CASE Drift
  BY <1>3 DEF Drift, setup, attempt, counts, Block, Proceed, CopyIsPlain, Measuring, Attempts
<1>4. CASE RunEnds
  BY <1>4 DEF RunEnds, setup, attempt, counts, Block, Proceed, CopyIsPlain, Measuring, Attempts
<1>5. CASE StartRun
  BY <1>5 DEF StartRun, setup, attempt, counts, Block, Proceed, CopyIsPlain, Measuring, Attempts
<1>6. CASE RefRejected
  BY <1>6 DEF RefRejected, setup, attempt, counts, Block, Proceed, CopyIsPlain, Measuring, Attempts
<1>7. CASE ResolveCommit
  BY <1>7 DEF ResolveCommit, setup, attempt, counts, Block, Proceed, CopyIsPlain, Measuring, Attempts
<1>8. CASE ReadFile
  BY <1>8 DEF ReadFile, setup, attempt, counts, Block, Proceed, CopyIsPlain, Measuring, Attempts
<1>9. CASE ResolveWorktree
  BY <1>9 DEF ResolveWorktree, setup, attempt, counts, Block, Proceed, CopyIsPlain, Measuring, Attempts
<1>10. CASE RemoveFile
  BY <1>10 DEF RemoveFile, setup, attempt, counts, Block, Proceed, CopyIsPlain, Measuring, Attempts
<1>11. CASE Removed
  <2>1. ~HasLink(snapshot)
    BY <1>11 DEF Removed, HasLink
  <2> QED BY <1>11, <2>1 DEF Removed, Block, Proceed, CopyIsPlain, Measuring, Attempts
<1>12. CASE CheckWorktree
  BY <1>12 DEF CheckWorktree, setup, attempt, counts, Block, Proceed, CopyIsPlain, Measuring, Attempts
<1>13. CASE CopyFile
  <2>1. PICK f \in todo \cap DOMAIN Source :
          (\E v \in Plain : snapshot' = With(snapshot, f, v)) \/ UNCHANGED snapshot
    BY <1>13 DEF CopyFile
  <2>2. ~HasLink(snapshot)
    BY <1>13 DEF CopyFile, CopyIsPlain
  <2>3. ~HasLink(snapshot')
    BY <2>1, <2>2 DEF HasLink, With
  <2> QED BY <1>13, <2>3 DEF CopyFile, CopyIsPlain, Measuring, Attempts
<1>14. CASE Copied
  BY <1>14 DEF Copied, setup, attempt, counts, Block, Proceed, CopyIsPlain, Measuring, Attempts
<1>15. CASE Verify
  <2>1. ~HasLink(snapshot) /\ snapshot \in Trees
    BY <1>15 DEF Verify, CopyIsPlain, TypeOK
  <2>2. Hashed(snapshot) = snapshot
    BY <2>1, HashedFacts
  <2> QED BY <1>15, <2>1, <2>2 DEF Verify, IsPinned, setup, Block, Proceed, CopyIsPlain, Measuring, Attempts
<1>16. CASE WriteManifest
  BY <1>16 DEF WriteManifest, setup, attempt, counts, Block, Proceed, CopyIsPlain, Measuring, Attempts
<1>17. CASE WritePlan
  BY <1>17 DEF WritePlan, setup, attempt, counts, Block, Proceed, CopyIsPlain, Measuring, Attempts
<1>18. CASE StartAttempt
  BY <1>18 DEF StartAttempt, setup, attempt, counts, Block, Proceed, CopyIsPlain, Measuring, Attempts
<1>19. CASE VerifyMounted
  BY <1>19 DEF VerifyMounted, MountedUnchecked, setup, attempt, counts, Block, Proceed, CopyIsPlain, Measuring, Attempts
<1>20. CASE RunDriver
  BY <1>20 DEF RunDriver, setup, attempt, counts, Block, Proceed, CopyIsPlain, Measuring, Attempts
<1>21. CASE EndAttempt
  BY <1>21 DEF EndAttempt, setup, attempt, counts, Block, Proceed, CopyIsPlain, Measuring, Attempts
<1>22. CASE UNCHANGED vars
  BY <1>22 DEF vars, setup, attempt, counts, CopyIsPlain, Measuring, Attempts
<1> QED BY <1>1, <1>2, <1>3, <1>4, <1>5, <1>6, <1>7, <1>8, <1>9, <1>10, <1>11, <1>12, <1>13, <1>14, <1>15, <1>16, <1>17, <1>18, <1>19, <1>20, <1>21, <1>22 DEF Next

\* What is settled stays settled.
LEMMA SettledStep == ASSUME TypeOK, PinsAreTrue, SettledIsPinned, [Next]_vars PROVE SettledIsPinned'
<1>1. CASE Edit
  BY <1>1, ToolingAssumption DEF Edit, setup, attempt, counts, Block, Proceed, SettledIsPinned, Measuring, Attempts, TruePin, PinsAreTrue
<1>2. CASE CloneChanges
  BY <1>2, ToolingAssumption DEF CloneChanges, setup, attempt, counts, Block, Proceed, SettledIsPinned, Measuring, Attempts, TruePin, PinsAreTrue
<1>3. CASE Drift
  BY <1>3, ToolingAssumption DEF Drift, setup, attempt, counts, Block, Proceed, SettledIsPinned, Measuring, Attempts, TruePin, PinsAreTrue
<1>4. CASE RunEnds
  BY <1>4, ToolingAssumption DEF RunEnds, setup, attempt, counts, Block, Proceed, SettledIsPinned, Measuring, Attempts, TruePin, PinsAreTrue
<1>5. CASE StartRun
  BY <1>5, ToolingAssumption DEF StartRun, setup, attempt, counts, Block, Proceed, SettledIsPinned, Measuring, Attempts, TruePin, PinsAreTrue
<1>6. CASE RefRejected
  BY <1>6, ToolingAssumption DEF RefRejected, setup, attempt, counts, Block, Proceed, SettledIsPinned, Measuring, Attempts, TruePin, PinsAreTrue
<1>7. CASE ResolveCommit
  BY <1>7, ToolingAssumption DEF ResolveCommit, setup, attempt, counts, Block, Proceed, SettledIsPinned, Measuring, Attempts, TruePin, PinsAreTrue
<1>8. CASE ReadFile
  BY <1>8, ToolingAssumption DEF ReadFile, setup, attempt, counts, Block, Proceed, SettledIsPinned, Measuring, Attempts, TruePin, PinsAreTrue
<1>9. CASE ResolveWorktree
  BY <1>9, ToolingAssumption DEF ResolveWorktree, setup, attempt, counts, Block, Proceed, SettledIsPinned, Measuring, Attempts, TruePin, PinsAreTrue
<1>10. CASE RemoveFile
  BY <1>10, ToolingAssumption DEF RemoveFile, setup, attempt, counts, Block, Proceed, SettledIsPinned, Measuring, Attempts, TruePin, PinsAreTrue
<1>11. CASE Removed
  BY <1>11, ToolingAssumption DEF Removed, setup, attempt, counts, Block, Proceed, SettledIsPinned, Measuring, Attempts, TruePin, PinsAreTrue
<1>12. CASE CheckWorktree
  BY <1>12, ToolingAssumption DEF CheckWorktree, setup, attempt, counts, Block, Proceed, SettledIsPinned, Measuring, Attempts, TruePin, PinsAreTrue
<1>13. CASE CopyFile
  BY <1>13, ToolingAssumption DEF CopyFile, setup, attempt, counts, Block, Proceed, SettledIsPinned, Measuring, Attempts, TruePin, PinsAreTrue
<1>14. CASE Copied
  BY <1>14, ToolingAssumption DEF Copied, setup, attempt, counts, Block, Proceed, SettledIsPinned, Measuring, Attempts, TruePin, PinsAreTrue
<1>15. CASE Verify
  BY <1>15, ToolingAssumption DEF Verify, IsPinned, setup, attempt, counts, Block, Proceed, SettledIsPinned, Measuring, Attempts, TruePin, PinsAreTrue
<1>16. CASE WriteManifest
  BY <1>16, ToolingAssumption DEF WriteManifest, setup, attempt, counts, Block, Proceed, SettledIsPinned, Measuring, Attempts, TruePin, PinsAreTrue
<1>17. CASE WritePlan
  BY <1>17, ToolingAssumption DEF WritePlan, setup, attempt, counts, Block, Proceed, SettledIsPinned, Measuring, Attempts, TruePin, PinsAreTrue
<1>18. CASE StartAttempt
  BY <1>18, ToolingAssumption DEF StartAttempt, setup, attempt, counts, Block, Proceed, SettledIsPinned, Measuring, Attempts, TruePin, PinsAreTrue
<1>19. CASE VerifyMounted
  BY <1>19, ToolingAssumption DEF VerifyMounted, MountedUnchecked, MountedIsPinned, setup, attempt, counts, Block, Proceed, SettledIsPinned, Measuring, Attempts, TruePin, PinsAreTrue
<1>20. CASE RunDriver
  BY <1>20, ToolingAssumption DEF RunDriver, setup, attempt, counts, Block, Proceed, SettledIsPinned, Measuring, Attempts, TruePin, PinsAreTrue
<1>21. CASE EndAttempt
  BY <1>21, ToolingAssumption DEF EndAttempt, setup, attempt, counts, Block, Proceed, SettledIsPinned, Measuring, Attempts, TruePin, PinsAreTrue
<1>22. CASE UNCHANGED vars
  BY <1>22 DEF vars, setup, attempt, counts, setup, attempt, counts, Block, Proceed, SettledIsPinned, Measuring, Attempts, TruePin, PinsAreTrue
<1> QED BY <1>1, <1>2, <1>3, <1>4, <1>5, <1>6, <1>7, <1>8, <1>9, <1>10, <1>11, <1>12, <1>13, <1>14, <1>15, <1>16, <1>17, <1>18, <1>19, <1>20, <1>21, <1>22 DEF Next

\* Only pinned tooling has ever measured.
LEMMA MeasuredStep == ASSUME SettledIsPinned, MeasuredWithThePin, [Next]_vars PROVE MeasuredWithThePin'
<1>1. CASE Edit
  BY <1>1 DEF Edit, setup, attempt, counts, Block, Proceed, MeasuredWithThePin
<1>2. CASE CloneChanges
  BY <1>2 DEF CloneChanges, setup, attempt, counts, Block, Proceed, MeasuredWithThePin
<1>3. CASE Drift
  BY <1>3 DEF Drift, setup, attempt, counts, Block, Proceed, MeasuredWithThePin
<1>4. CASE RunEnds
  BY <1>4 DEF RunEnds, setup, attempt, counts, Block, Proceed, MeasuredWithThePin
<1>5. CASE StartRun
  BY <1>5 DEF StartRun, setup, attempt, counts, Block, Proceed, MeasuredWithThePin
<1>6. CASE RefRejected
  BY <1>6 DEF RefRejected, setup, attempt, counts, Block, Proceed, MeasuredWithThePin
<1>7. CASE ResolveCommit
  BY <1>7 DEF ResolveCommit, setup, attempt, counts, Block, Proceed, MeasuredWithThePin
<1>8. CASE ReadFile
  BY <1>8 DEF ReadFile, setup, attempt, counts, Block, Proceed, MeasuredWithThePin
<1>9. CASE ResolveWorktree
  BY <1>9 DEF ResolveWorktree, setup, attempt, counts, Block, Proceed, MeasuredWithThePin
<1>10. CASE RemoveFile
  BY <1>10 DEF RemoveFile, setup, attempt, counts, Block, Proceed, MeasuredWithThePin
<1>11. CASE Removed
  BY <1>11 DEF Removed, setup, attempt, counts, Block, Proceed, MeasuredWithThePin
<1>12. CASE CheckWorktree
  BY <1>12 DEF CheckWorktree, setup, attempt, counts, Block, Proceed, MeasuredWithThePin
<1>13. CASE CopyFile
  BY <1>13 DEF CopyFile, setup, attempt, counts, Block, Proceed, MeasuredWithThePin
<1>14. CASE Copied
  BY <1>14 DEF Copied, setup, attempt, counts, Block, Proceed, MeasuredWithThePin
<1>15. CASE Verify
  BY <1>15 DEF Verify, setup, attempt, counts, Block, Proceed, MeasuredWithThePin
<1>16. CASE WriteManifest
  BY <1>16 DEF WriteManifest, setup, attempt, counts, Block, Proceed, MeasuredWithThePin
<1>17. CASE WritePlan
  BY <1>17 DEF WritePlan, setup, attempt, counts, Block, Proceed, MeasuredWithThePin
<1>18. CASE StartAttempt
  BY <1>18 DEF StartAttempt, setup, attempt, counts, Block, Proceed, MeasuredWithThePin
<1>19. CASE VerifyMounted
  BY <1>19 DEF VerifyMounted, setup, attempt, counts, Block, Proceed, MeasuredWithThePin
<1>20. CASE RunDriver
  BY <1>20 DEF RunDriver, setup, attempt, counts, Block, Proceed, MeasuredWithThePin
<1>21. CASE EndAttempt
  BY <1>21 DEF EndAttempt, setup, attempt, counts, Block, Proceed, MeasuredWithThePin, SettledIsPinned, Measuring, Attempts, TruePin
<1>22. CASE UNCHANGED vars
  BY <1>22 DEF vars, setup, attempt, counts, setup, attempt, counts, Block, Proceed, MeasuredWithThePin
<1> QED BY <1>1, <1>2, <1>3, <1>4, <1>5, <1>6, <1>7, <1>8, <1>9, <1>10, <1>11, <1>12, <1>13, <1>14, <1>15, <1>16, <1>17, <1>18, <1>19, <1>20, <1>21, <1>22 DEF Next

\* Only a worktree, or a link, is blocked by a hash.
LEMMA BlockedStep == ASSUME TypeOK, NotBlocked, PinsAreTrue, CopyIsTrue, BlockedByLink, [Next]_vars
                      PROVE  BlockedByLink' /\ NotBlocked'
<1>1. CASE Edit
  BY <1>1, ToolingAssumption DEF Edit, setup, attempt, counts, Block, Proceed, NotBlocked, Attempts, BlockedByLink
<1>2. CASE CloneChanges
  BY <1>2, ToolingAssumption DEF CloneChanges, setup, attempt, counts, Block, Proceed, NotBlocked, Attempts, BlockedByLink
<1>3. CASE Drift
  BY <1>3, ToolingAssumption DEF Drift, setup, attempt, counts, Block, Proceed, NotBlocked, Attempts, BlockedByLink
<1>4. CASE RunEnds
  BY <1>4, ToolingAssumption DEF RunEnds, setup, attempt, counts, Block, Proceed, NotBlocked, Attempts, BlockedByLink
<1>5. CASE StartRun
  BY <1>5, ToolingAssumption DEF StartRun, setup, attempt, counts, Block, Proceed, NotBlocked, Attempts, BlockedByLink
<1>6. CASE RefRejected
  BY <1>6, ToolingAssumption DEF RefRejected, setup, attempt, counts, Block, Proceed, NotBlocked, Attempts, BlockedByLink
<1>7. CASE ResolveCommit
  BY <1>7, ToolingAssumption DEF ResolveCommit, setup, attempt, counts, Block, Proceed, NotBlocked, Attempts, BlockedByLink
<1>8. CASE ReadFile
  BY <1>8, ToolingAssumption DEF ReadFile, setup, attempt, counts, Block, Proceed, NotBlocked, Attempts, BlockedByLink
<1>9. CASE ResolveWorktree
  BY <1>9, ToolingAssumption DEF ResolveWorktree, setup, attempt, counts, Block, Proceed, NotBlocked, Attempts, BlockedByLink
<1>10. CASE RemoveFile
  BY <1>10, ToolingAssumption DEF RemoveFile, setup, attempt, counts, Block, Proceed, NotBlocked, Attempts, BlockedByLink
<1>11. CASE Removed
  BY <1>11, ToolingAssumption DEF Removed, setup, attempt, counts, Block, Proceed, NotBlocked, Attempts, BlockedByLink
<1>12. CASE CheckWorktree
  BY <1>12, ToolingAssumption DEF CheckWorktree, CopyIsTrue, TypeOK, Plans, Refs, PinsAreTrue, TruePin, setup, attempt, counts, Block, Proceed, NotBlocked, Attempts, BlockedByLink
<1>13. CASE CopyFile
  BY <1>13, ToolingAssumption DEF CopyFile, setup, attempt, counts, Block, Proceed, NotBlocked, Attempts, BlockedByLink
<1>14. CASE Copied
  BY <1>14, ToolingAssumption DEF Copied, setup, attempt, counts, Block, Proceed, NotBlocked, Attempts, BlockedByLink
<1>15. CASE Verify
  <2> SUFFICES ASSUME ~IsPinned, plan.ref # "WORKTREE" PROVE HasLink(committed[plan.ref])
    BY <1>15 DEF Verify, setup, Block, Proceed, NotBlocked, BlockedByLink
  <2>1. stage = "verifying" /\ TruePin(plan)
    BY <1>15 DEF Verify, PinsAreTrue
  <2>2. CASE plan.ref \in Commits
    <3> SUFFICES ASSUME ~HasLink(committed[plan.ref]) PROVE FALSE
      OBVIOUS
    <3>1. snapshot = committed[plan.ref]
      BY <2>1, <2>2 DEF CopyIsTrue
    <3> QED BY <2>1, <2>2, <3>1 DEF TruePin, IsPinned
  <2>3. CASE plan.ref \notin Commits
    BY <2>1, <2>3 DEF TypeOK, Plans, Refs, TruePin
  <2> QED BY <2>2, <2>3
<1>16. CASE WriteManifest
  BY <1>16, ToolingAssumption DEF WriteManifest, setup, attempt, counts, Block, Proceed, NotBlocked, Attempts, BlockedByLink
<1>17. CASE WritePlan
  BY <1>17, ToolingAssumption DEF WritePlan, setup, attempt, counts, Block, Proceed, NotBlocked, Attempts, BlockedByLink
<1>18. CASE StartAttempt
  BY <1>18, ToolingAssumption DEF StartAttempt, setup, attempt, counts, Block, Proceed, NotBlocked, Attempts, BlockedByLink
<1>19. CASE VerifyMounted
  BY <1>19, ToolingAssumption DEF VerifyMounted, MountedUnchecked, MountedIsPinned, setup, attempt, counts, Block, Proceed, NotBlocked, Attempts, BlockedByLink
<1>20. CASE RunDriver
  BY <1>20, ToolingAssumption DEF RunDriver, setup, attempt, counts, Block, Proceed, NotBlocked, Attempts, BlockedByLink
<1>21. CASE EndAttempt
  BY <1>21, ToolingAssumption DEF EndAttempt, setup, attempt, counts, Block, Proceed, NotBlocked, Attempts, BlockedByLink
<1>22. CASE UNCHANGED vars
  BY <1>22 DEF vars, setup, attempt, counts, setup, attempt, counts, Block, Proceed, NotBlocked, Attempts, BlockedByLink
<1> QED BY <1>1, <1>2, <1>3, <1>4, <1>5, <1>6, <1>7, <1>8, <1>9, <1>10, <1>11, <1>12, <1>13, <1>14, <1>15, <1>16, <1>17, <1>18, <1>19, <1>20, <1>21, <1>22 DEF Next

\* The invariant holds from the start and through every step.
LEMMA ToolingInvariance == Spec => []IInv
<1>1. Init => IInv
  <2> SUFFICES ASSUME Init PROVE IInv
    OBVIOUS
  <2>1. TypeOK
    <3>1. NoPlan \in Plans
      BY TreeFacts DEF NoPlan, Plans, Refs
    <3>2. tree \in Trees /\ committed \in [Commits -> Trees] /\ clone \subseteq Commits
      BY DEF Init, Bundles
    <3> QED BY <3>1, <3>2, TreeFacts DEF Init, TypeOK, Reasons
  <2> QED BY <2>1 DEF Init, IInv, PinsAreTrue, CopyIsTrue, SettledIsPinned, MeasuredWithThePin,
        BlockedByLink, CopyIsPlain, NotBlocked, Measuring, Attempts
<1>2. IInv /\ [Next]_vars => IInv'
  BY TypeStep, PinsStep, CopyStep, PlainStep, SettledStep, MeasuredStep, BlockedStep DEF IInv
<1> QED BY <1>1, <1>2, PTL DEF Spec

\* A run that measures has the pinned tooling in its snapshot and its own plan as the manifest
\* (materialize_tooling_snapshot), whatever was edited meanwhile and whatever died before.
THEOREM PinnedSnapshot == Spec => []SnapshotIsPinned
<1>1. IInv => SnapshotIsPinned
  BY DEF IInv, SettledIsPinned, SnapshotIsPinned, Measuring
<1> QED BY <1>1, ToolingInvariance, PTL

\* Every accepted metric came from the driver and the result builder its plan is pinned to.
THEOREM MeasuredWithPin == Spec => []MeasuredWithThePin
<1>1. IInv => MeasuredWithThePin
  BY DEF IInv
<1> QED BY <1>1, ToolingInvariance, PTL

\* A plan pinned to a commit is blocked by a hash mismatch only if the commit's tooling holds a
\* link (_file_manifest hashes a link's target name, copytree copies what it leads to), and no
\* plan whose pin holds one is ever measured with.
THEOREM PortableRelaunch == Spec => []RelaunchIsPortable
<1>1. IInv => RelaunchIsPortable
  BY DEF IInv, BlockedByLink, CopyIsPlain, RelaunchIsPortable, Measuring
<1> QED BY <1>1, ToolingInvariance, PTL
====

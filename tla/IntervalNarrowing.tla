------------------------- MODULE IntervalNarrowing -------------------------
(***************************************************************************)
(* What a bisection promises, whatever order it probes in: it keeps a      *)
(* commit measured good and a later one measured bad, moves either bound   *)
(* only to a commit strictly between them, and ends with exactly one of    *)
(* three claims.  "exact" names a single first bad commit, so the bounds   *)
(* must be neighbours; "bracket" says a non-empty run of commits between   *)
(* the bounds could not be measured; "stopped" claims nothing more.        *)
(* BisectSearch refines this specification.                                *)
(***************************************************************************)
EXTENDS Integers

CONSTANT Lengths        \* possible lengths of the candidate list

VARIABLES
  lo,                   \* index of the last commit known good (-1: the good ref)
  hi,                   \* index of the earliest commit known bad
  claim                 \* "open" until the search ends

vars == <<lo, hi, claim>>

Claims == {"open", "exact", "bracket", "stopped"}

Init == /\ lo = -1
        /\ \E n \in Lengths : hi = n - 1
        /\ claim = "open"

\* A commit strictly inside the interval is measured good: raise the lower bound.
RaiseLow == /\ claim = "open"
            /\ \E i \in lo + 1 .. hi - 1 : lo' = i
            /\ UNCHANGED <<hi, claim>>

\* A commit strictly inside the interval is measured bad: lower the upper bound.
LowerHigh == /\ claim = "open"
             /\ \E i \in lo + 1 .. hi - 1 : hi' = i
             /\ UNCHANGED <<lo, claim>>

ClaimExact == /\ claim = "open"
              /\ hi = lo + 1
              /\ claim' = "exact"
              /\ UNCHANGED <<lo, hi>>

ClaimBracket == /\ claim = "open"
                /\ hi > lo + 1
                /\ claim' = "bracket"
                /\ UNCHANGED <<lo, hi>>

\* Giving up is allowed only while there is still something left to measure.
Stop == /\ claim = "open"
        /\ hi > lo + 1
        /\ claim' = "stopped"
        /\ UNCHANGED <<lo, hi>>

Next == RaiseLow \/ LowerHigh \/ ClaimExact \/ ClaimBracket \/ Stop

Spec == Init /\ [][Next]_vars

=============================================================================

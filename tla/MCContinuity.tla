---------------------------- MODULE MCContinuity ----------------------------
(* Small instances of Continuity for TLC.                                  *)
EXTENDS Continuity, TLC

CONSTANTS c1, c2, c3, p1, p2, kept, changed

\* c1 and c2 are threads of one process; c2 only observes, with a policy of
\* its own; c3 has the inputs of c1.
MCProcessOf == c1 :> p1 @@ c2 :> p1 @@ c3 :> p2
MCProfileOf == c1 :> "guard" @@ c2 :> "observe" @@ c3 :> "guard"
MCPolicyOf  == c1 :> "guarding" @@ c2 :> "observing" @@ c3 :> "guarding"
MCSourceOf  == c1 :> "own" @@ c2 :> "explicit" @@ c3 :> "own"
MCGoalOf    == [c \in Caller |-> "goal"]

\* The target as it was, and with an uncommitted edit of its policy file.
MCPolicyIn  == kept :> "own" @@ changed :> "other"
=============================================================================

----------------------------- MODULE Evaluation -----------------------------
(***************************************************************************)
(* Verdict aggregation and profile enforcement (kernel/evaluation.py): the *)
(* pure function that every protected transition asks for permission. Of a *)
(* finding only its verdict and its integrity flag are looked at here; the *)
(* order of the findings in the result is layout.                          *)
(***************************************************************************)
EXTENDS Naturals

Verdict == {"pass", "warn", "unknown", "block"}

VERDICT_RANK == [v \in Verdict |-> CASE v = "pass" -> 0 [] v = "warn" -> 1
                                     [] v = "unknown" -> 2 [] v = "block" -> 3]

Profile == {"observe", "guard", "strict"}

\* The worst verdict of a set of findings, "pass" without findings.
Worst(findings) ==
  CHOOSE v \in Verdict :
    /\ v = "pass" \/ \E f \in findings : f.verdict = v
    /\ \A f \in findings : VERDICT_RANK[f.verdict] <= VERDICT_RANK[v]

\* Whether a profile lets a transition happen.
Allowed(profile, findings) ==
  /\ \A f \in findings : ~f.integrity_failure
  /\ profile = "guard" => Worst(findings) \in {"pass", "warn"}
  /\ profile = "strict" => Worst(findings) = "pass"

EvaluationResult(profile, findings) ==
  [verdict |-> Worst(findings), transition_allowed |-> Allowed(profile, findings)]

\* _forced_refusal: a refusal that no profile can turn into a permission.
ForcedRefusal(result) ==
  IF ~result.transition_allowed
  THEN result
  ELSE [verdict |-> IF result.verdict = "pass" THEN "unknown" ELSE result.verdict,
        transition_allowed |-> FALSE]
=============================================================================

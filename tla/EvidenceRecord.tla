--------------------------- MODULE EvidenceRecord ---------------------------
(***************************************************************************)
(* Evidence/v1 records (kernel/evidence.py): which ones can be built, and  *)
(* what the context of an evaluation (kernel/invalidation.py) says of one  *)
(* of them alone. Identities and digests are values that are compared, a   *)
(* logical time is a number: canonical whole seconds sort as text. That a  *)
(* field has its type and that collections are sorted is taken as given.   *)
(***************************************************************************)
EXTENDS Integers

CONSTANT None \* a field that is not given

\* The record a caller asks for has all the fields of EvidenceV1; receipt holds
\* terminal_status, the two output digests, the count and pagination_complete.
WholeReceipt(r) ==
  /\ None \notin {r.terminal_status, r.declared, r.observed, r.count}
  /\ r.declared = r.observed
  /\ r.count > 0
  /\ r.paginated = TRUE

\* mutant: a command that collected no check is as good as any
AdmittedUncounted(e) ==
  /\ e.expires_at # None => e.expires_at >= e.observed_at
  /\ e.receipt.count # None => e.receipt.count >= 0
  /\ e.authority = "deterministic" => e.facts # {}

\* validate_evidence: what the constructor of EvidenceV1 lets pass.
Admitted(e) ==
  /\ e.expires_at # None => e.expires_at >= e.observed_at
  /\ e.receipt.count # None => e.receipt.count >= 0
  /\ e.authority = "deterministic" => e.facts # {}
  /\ e.kind = "command" /\ e.completeness = "complete" => WholeReceipt(e.receipt)

-----------------------------------------------------------------------------
(* What the context says.                                                  *)

Required(e, kind) == {v.subject_id : v \in {v \in e.invalidators : v.required /\ v.kind = kind}}

\* Of what a citation's observation tells; c.citations holds what was observed.
CitationState(e, subject, c) ==
  IF subject \notin DOMAIN c.citations THEN "unknown"
  ELSE LET o == c.citations[subject]
           digest == IF o.span_digest # None THEN o.span_digest ELSE o.file_digest
       IN  CASE ~o.stable -> "unknown"
             [] o.stable /\ ~o.available ->
                  IF o.unknown_code = "citation.path_missing" THEN "invalidated" ELSE "unknown"
             [] o.stable /\ o.available ->
                  IF o.unknown_code # None \/ digest = None THEN "unknown"
                  ELSE IF digest # e.subject_digest THEN "invalidated"
                  ELSE "current"

\* The record belongs to another target, checkpoint or producer.
Elsewhere(e, c) ==
  \/ e.target_id # c.target_id
  \/ e.checkpoint_id # c.checkpoint_id
  \/ e.producer \notin c.producer_ids

\* What its required invalidators say, an observation each.
Observations(e, c) ==
  {CitationState(e, s, c) : s \in Required(e, "citation")}
  \cup (IF \/ Required(e, "target") \ {c.target_id} # {}
           \/ Required(e, "checkpoint") \ {c.checkpoint_id} # {}
           \/ Required(e, "producer") \ c.producer_ids # {}
        THEN {"invalidated"} ELSE {})
  \cup (IF Required(e, "policy") # {} THEN {"unknown"} ELSE {})

\* _evaluate_direct: the state of the record without its dependencies.
Direct(e, c) ==
  IF e.completeness # "complete" THEN "unknown"
  ELSE IF e.expires_at # None /\ c.logical_time >= e.expires_at THEN "invalidated"
  ELSE IF Elsewhere(e, c) \/ "invalidated" \in Observations(e, c) THEN "invalidated"
  ELSE IF "unknown" \in Observations(e, c) THEN "unknown"
  ELSE "current"
=============================================================================

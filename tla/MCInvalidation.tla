--------------------------- MODULE MCInvalidation ---------------------------
(* Small instances of Invalidation for TLC.                                *)
EXTENDS Invalidation, TLC

Observed(stable, available, code, digest) ==
  [stable |-> stable, available |-> available, unknown_code |-> code,
   file_digest |-> "file", span_digest |-> digest]

MCContext ==
  [logical_time |-> 5, target_id |-> "target", checkpoint_id |-> "checkpoint",
   producer_ids |-> {"producer"},
   citations |-> "same"    :> Observed(TRUE, TRUE, None, "subject")
              @@ "changed" :> Observed(TRUE, TRUE, None, "other")
              @@ "torn"    :> Observed(FALSE, TRUE, None, "subject")
              @@ "gone"    :> Observed(TRUE, FALSE, "citation.path_missing", None)]

Cites(S) == [kind : {"citation"}, subject_id : S, required : {TRUE}]

\* A receipt of a command, valid until after the evaluation, with a citation.
Whole ==
  [kind |-> "command", authority |-> "deterministic", completeness |-> "complete",
   observed_at |-> 3, expires_at |-> 6, target_id |-> "target",
   checkpoint_id |-> "checkpoint", producer |-> "producer",
   subject_digest |-> "subject", facts |-> {"fact"}, invalidators |-> Cites({"same"}),
   receipt |-> [terminal_status |-> 0, declared |-> "output", observed |-> "output",
                count |-> 1, paginated |-> TRUE]]

\* Records that are current, advisory, in doubt and invalid, and some that must
\* not be admitted: without a check, and expired before they were observed.
Records ==
  {Whole,
   [Whole EXCEPT !.authority = "advisory", !.facts = {}],
   [Whole EXCEPT !.invalidators = Cites({"same", "torn"})],
   [Whole EXCEPT !.invalidators = Cites({"torn", "changed"})],
   [Whole EXCEPT !.invalidators = Cites({"gone"})],
   [Whole EXCEPT !.expires_at = Context.logical_time],
   [Whole EXCEPT !.receipt.count = 0],
   [Whole EXCEPT !.expires_at = 2],
   [Whole EXCEPT !.facts = {}]}

\* Every graph on the evidence; only the first may also require an absent id.
Graphs ==
  {g \in [Evidence -> SUBSET (Evidence \cup Absent)] :
     \A e \in Evidence : g[e] \cap Absent # {} => e = 1}
=============================================================================

---------------------------- MODULE Invalidation ----------------------------
(***************************************************************************)
(* evaluate_invalidations (kernel/invalidation.py): which pieces of        *)
(* evidence are still current, given what each says of itself and which    *)
(* others it requires. The strongly connected components by two iterative  *)
(* depth-first searches, the direct outcomes, cycles marked unknown, and   *)
(* the propagation along required dependencies in a bounded number of      *)
(* rounds; then the findings and the verdict.                              *)
(*                                                                         *)
(* Evidence ids are numbers because the code sorts them. An outcome keeps  *)
(* its state and its transitive path; its code and its causes are text.    *)
(* The direct outcomes need no component and come first in the code; here  *)
(* the records are picked when their outcomes meet the components. An id   *)
(* is a digest of contents that hold the ids a record depends on: no graph *)
(* built from contents has a cycle, and the code deals with cycles anyway. *)
(***************************************************************************)
EXTENDS Evaluation, EvidenceRecord, SequencesExt

CONSTANTS
  Evidence,  \* ids of the evidence graph
  Absent,    \* ids it depends on and does not hold
  Graph,     \* required dependencies: functions from Evidence to sets of ids
  Record,    \* the records callers ask for, without their dependencies
  Context    \* what they are evaluated against

ASSUME EvidenceAssumption ==
  /\ Evidence \cup Absent \subseteq Nat
  /\ Evidence \cap Absent = {} /\ Evidence # {} /\ IsFiniteSet(Evidence)
  /\ Graph \subseteq [Evidence -> SUBSET (Evidence \cup Absent)]

\* Times and counts are numbers, if given at all.
ASSUME RecordAssumption ==
  /\ Context.logical_time \in Int
  /\ \A r \in Record : r.expires_at \in Int \cup {None} /\ r.receipt.count \in Int \cup {None}

VARIABLES
  deps,        \* the graph
  phase,
  visited,     \* first search: nodes pushed so far
  stack,       \* first search: [node, left], left its neighbours not yet tried
  finish_order,
  assigned,    \* second search: nodes that have a component
  pending,     \* second search: nodes of the open component to expand
  members,     \* second search: nodes of the open component expanded
  components,
  record,      \* the evidence
  values,      \* the outcomes
  round

search == <<visited, stack, finish_order, assigned, pending, members, components>>
vars == <<deps, phase, search, record, values, round>>

Current == [state |-> "current", path |-> <<>>]
Outcome(state, path) == [state |-> state, path |-> path]

-----------------------------------------------------------------------------
(* Strongly connected components.                                          *)

Neighbours(n) == deps[n] \cap Evidence

Init ==
  /\ deps \in Graph
  /\ phase = "search"
  /\ visited = {}
  /\ stack = <<>>
  /\ finish_order = <<>>
  /\ assigned = {}
  /\ pending = {}
  /\ members = {}
  /\ components = {}
  /\ record = [e \in {} |-> {}]
  /\ values = [e \in Evidence |-> Current]
  /\ round = 0

Push(s, n) == Append(s, [node |-> n, left |-> Neighbours(n)])

Outcomes == UNCHANGED <<deps, record, values, round>>
SecondSearch == UNCHANGED <<assigned, pending, members, components>>

\* The next root of the first search, in the order of ids.
SearchRoot ==
  /\ phase = "search"
  /\ stack = <<>>
  /\ IF visited = Evidence
     THEN phase' = "collect" /\ UNCHANGED <<visited, stack>>
     ELSE LET root == Min(Evidence \ visited)
          IN  /\ visited' = visited \cup {root}
              /\ stack' = Push(stack, root)
              /\ UNCHANGED phase
  /\ UNCHANGED finish_order /\ SecondSearch /\ Outcomes

\* mutant: a node is marked when it is finished, not when it is pushed
SearchStepLate ==
  /\ phase = "search"
  /\ stack # <<>>
  /\ LET top  == Last(stack)
         next == Min(top.left)
         rest == Append(Front(stack), [top EXCEPT !.left = @ \ {next}])
     IN  IF top.left = {}
         THEN /\ finish_order' = Append(finish_order, top.node)
              /\ visited' = visited \cup {top.node}
              /\ stack' = Front(stack)
         ELSE /\ stack' = IF next \in visited THEN rest ELSE Push(rest, next)
              /\ UNCHANGED <<visited, finish_order>>
  /\ UNCHANGED phase /\ SecondSearch /\ Outcomes

\* One turn of the inner loop: the next neighbour, or the node is finished.
SearchStep ==
  /\ phase = "search"
  /\ stack # <<>>
  /\ LET top  == Last(stack)
         next == Min(top.left)
         rest == Append(Front(stack), [top EXCEPT !.left = @ \ {next}])
     IN  IF top.left = {}
         THEN /\ finish_order' = Append(finish_order, top.node)
              /\ stack' = Front(stack)
              /\ UNCHANGED visited
         ELSE /\ visited' = visited \cup {next}
              /\ stack' = IF next \in visited THEN rest ELSE Push(rest, next)
              /\ UNCHANGED finish_order
  /\ UNCHANGED phase /\ SecondSearch /\ Outcomes

FirstSearch == UNCHANGED <<visited, stack, finish_order>>

\* Places in the finish order of nodes without a component.
Unassigned == {i \in DOMAIN finish_order : finish_order[i] \notin assigned}

\* mutant: the second search takes its roots in the order they finished
CollectRootForwards ==
  /\ phase = "collect"
  /\ pending = {} /\ members = {}
  /\ IF assigned = Evidence
     THEN phase' = "direct" /\ UNCHANGED <<assigned, pending>>
     ELSE LET root == finish_order[Min(Unassigned)]
          IN  /\ assigned' = assigned \cup {root}
              /\ pending' = {root}
              /\ UNCHANGED phase
  /\ UNCHANGED <<members, components>> /\ FirstSearch /\ Outcomes

\* The next root of the second search, last finished first.
CollectRoot ==
  /\ phase = "collect"
  /\ pending = {} /\ members = {}
  /\ IF assigned = Evidence
     THEN phase' = "direct" /\ UNCHANGED <<assigned, pending>>
     ELSE LET root == finish_order[Max(Unassigned)]
          IN  /\ assigned' = assigned \cup {root}
              /\ pending' = {root}
              /\ UNCHANGED phase
  /\ UNCHANGED <<members, components>> /\ FirstSearch /\ Outcomes

Dependants(n) == {m \in Evidence : n \in deps[m]}

\* mutant: nodes are collected again
CollectStepAgain ==
  /\ phase = "collect"
  /\ pending # {}
  /\ LET node == Min(pending)
     IN  /\ pending' = (pending \ {node}) \cup Dependants(node)
         /\ assigned' = assigned \cup Dependants(node)
         /\ members' = members \cup {node}
  /\ UNCHANGED <<phase, components>> /\ FirstSearch /\ Outcomes

\* One node of the open component: its unassigned dependants join.
CollectStep ==
  /\ phase = "collect"
  /\ pending # {}
  /\ LET node == Min(pending)
     IN  /\ pending' = (pending \ {node}) \cup (Dependants(node) \ assigned)
         /\ assigned' = assigned \cup Dependants(node)
         /\ members' = members \cup {node}
  /\ UNCHANGED <<phase, components>> /\ FirstSearch /\ Outcomes

CloseComponent ==
  /\ phase = "collect"
  /\ pending = {} /\ members # {}
  /\ components' = components \cup {members}
  /\ members' = {}
  /\ UNCHANGED <<phase, assigned, pending>> /\ FirstSearch /\ Outcomes

-----------------------------------------------------------------------------
(* Outcomes.                                                               *)

ComponentOf(e) == CHOOSE c \in components : e \in c

\* In a cycle: the component has others, or it requires itself.
Cyclic(e) == ComponentOf(e) # {e} \/ e \in deps[e]

\* The members of S, ascending.
Sorted(S) ==
  CHOOSE s \in [1..Cardinality(S) -> S] : \A i, j \in DOMAIN s : i < j => s[i] < s[j]

\* The direct outcomes, then _mark_cycles_unknown.
MarkDirect ==
  /\ phase = "direct"
  /\ record' \in [Evidence -> {r \in Record : Admitted(r)}]
  /\ values' = [e \in Evidence |->
       IF Cyclic(e) THEN Outcome("unknown", <<e>> \o Sorted(ComponentOf(e) \ {e}))
       ELSE IF Direct(record'[e], Context) = "current" THEN Current
       ELSE Outcome(Direct(record'[e], Context), <<e>>)]
  /\ phase' = "propagate"
  /\ UNCHANGED <<deps, search, round>>

Invalid(e) == {d \in deps[e] \cap Evidence : values[d].state = "invalidated"}

\* Dependencies that leave e in doubt: absent, unknown, or only advisory.
Doubtful(e) ==
  {d \in deps[e] \ Invalid(e) :
     d \in Evidence => values[d].state = "unknown" \/ record[d].authority = "advisory"}

\* mutant: a path lists the causes and does not follow them
PathViaSelf(e, causes) == <<e>> \o Sorted(causes)

\* The smallest path to a cause starts with the smallest dependency.
PathVia(e, causes) ==
  LET d == Min(causes)
  IN  <<e>> \o (IF d \in Evidence /\ values[d].path # <<>> THEN values[d].path ELSE <<d>>)

\* mutant: an unknown outcome is never looked at again
PropagatedOnce(e) ==
  IF Cyclic(e) \/ values[e].state # "current" THEN values[e]
  ELSE IF Invalid(e) # {} THEN Outcome("invalidated", PathVia(e, Invalid(e)))
  ELSE IF Doubtful(e) = {} THEN values[e]
  ELSE Outcome("unknown", PathVia(e, Doubtful(e)))

\* mutant: an invalidated outcome is computed again like any other
PropagatedAnew(e) ==
  IF Cyclic(e) THEN values[e]
  ELSE IF Invalid(e) # {} THEN Outcome("invalidated", PathVia(e, Invalid(e)))
  ELSE IF values[e].state = "unknown" \/ Doubtful(e) = {} THEN values[e]
  ELSE Outcome("unknown", PathVia(e, Doubtful(e)))

\* A required dependency that is invalid invalidates, doubt only adds doubt;
\* cycles stay unknown and an invalidated outcome stays.
Propagated(e) ==
  IF Cyclic(e) \/ values[e].state = "invalidated" THEN values[e]
  ELSE IF Invalid(e) # {} THEN Outcome("invalidated", PathVia(e, Invalid(e)))
  ELSE IF values[e].state = "unknown" \/ Doubtful(e) = {} THEN values[e]
  ELSE Outcome("unknown", PathVia(e, Doubtful(e)))

\* One round of _propagate_to_fixed_point, every outcome from the last round's.
Propagate ==
  /\ phase = "propagate"
  /\ values' = [e \in Evidence |-> Propagated(e)]
  /\ round' = round + 1
  /\ phase' = IF values' = values \/ round' = Cardinality(Evidence)
              THEN "done" ELSE "propagate"
  /\ UNCHANGED <<deps, search, record>>

\* mutant: evidence in doubt is only worth a warning
FindingsWarn ==
  {[subject |-> e,
    verdict |-> IF values[e].state = "invalidated" THEN "block" ELSE "warn",
    integrity_failure |-> FALSE] : e \in {e \in Evidence : values[e].state # "current"}}

\* findings_from_invalidations: one per outcome that is not current.
Findings ==
  {[subject |-> e,
    verdict |-> IF values[e].state = "invalidated" THEN "block" ELSE "unknown",
    integrity_failure |-> FALSE] : e \in {e \in Evidence : values[e].state # "current"}}

Next ==
  \/ SearchRoot \/ SearchStep
  \/ CollectRoot \/ CollectStep \/ CloseComponent
  \/ MarkDirect \/ Propagate

\* The evaluation is a function call that runs to its end.
Spec == Init /\ [][Next]_vars /\ WF_vars(Next)
-----------------------------------------------------------------------------
(* Properties.                                                             *)

Phases == {"search", "collect", "direct", "propagate", "done"}
EvidenceState == {"current", "unknown", "invalidated"}
Sharpness == [s \in EvidenceState |-> CASE s = "current" -> 0 [] s = "unknown" -> 1
                                        [] s = "invalidated" -> 2]

\* Every variable keeps its type; the first search pushes and finishes a node
\* once, and the rounds stay within their bound.
TypeOK ==
  /\ deps \in Graph /\ phase \in Phases
  /\ visited \subseteq Evidence /\ assigned \subseteq Evidence
  /\ pending \subseteq Evidence /\ members \subseteq Evidence
  /\ components \subseteq SUBSET Evidence
  /\ IsInjective([i \in DOMAIN stack |-> stack[i].node])
  /\ IsInjective(finish_order) /\ ToSet(finish_order) \subseteq Evidence
  /\ \A e \in Evidence : values[e].state \in EvidenceState
  /\ round \in 0..Cardinality(Evidence)

\* Of nodes, what x leads to along required dependencies: all that is in every
\* set that holds x and, with a member, what it requires.
Along(nodes, x) ==
  {y \in nodes : \A S \in SUBSET nodes :
     x \in S /\ (\A n \in S : deps[n] \cap nodes \subseteq S) => y \in S}

Reached(x) == Along(Evidence, x)
OnCycle(x) == \E d \in Neighbours(x) : x \in Reached(d)

\* The two searches find the strongly connected components: classes of
\* evidence that require each other, directly or not.
ComponentsAreClasses ==
  phase = "direct" =>
    components = {{m \in Reached(e) : e \in Reached(m)} : e \in Evidence}

\* What makes evidence doubtful without looking at other outcomes.
Problem(x) ==
  \/ Direct(record[x], Context) # "current"
  \/ OnCycle(x)
  \/ \E d \in deps[x] : d \notin Evidence \/ record[d].authority = "advisory"

\* Evidence that leads to an invalid piece without meeting a cycle.
LeadsToInvalid ==
  LET acyclic == {x \in Evidence : ~OnCycle(x)}
      invalid == {x \in acyclic : Direct(record[x], Context) = "invalidated"}
  IN  {e \in acyclic : Along(acyclic, e) \cap invalid # {}}

\* The bounded rounds reach the answer that graph reachability defines:
\* evidence is current exactly when nothing it requires, however indirectly,
\* has a problem, and invalidated exactly when it leads to an invalid one.
AgreesWithReachability ==
  phase = "done" =>
    LET problems == {x \in Evidence : Problem(x)}
        invalid  == LeadsToInvalid
    IN  \A e \in Evidence :
          /\ values[e].state = "current" <=> Reached(e) \cap problems = {}
          /\ values[e].state = "invalidated" <=> e \in invalid

\* A path explains its outcome: it goes from the evidence along required
\* dependencies, without repeating itself, to a root cause, which is a direct
\* outcome of the same state, an absent or advisory dependency, or a cycle.
PathsExplain ==
  phase = "done" => \A e \in Evidence : values[e].state # "current" =>
    LET path == values[e].path
        turn == {i \in DOMAIN path : path[i] \in Evidence /\ OnCycle(path[i])}
        stop == IF turn = {} THEN Len(path) ELSE Min(turn)
        root == path[stop]
    IN  /\ path[1] = e
        /\ IsInjective(path)
        /\ \A i \in 1..stop - 1 : path[i] \in Evidence /\ path[i + 1] \in deps[path[i]]
        /\ turn # {} => \A i \in stop..Len(path) :
             path[i] \in Reached(root) /\ root \in Reached(path[i])
        /\ \/ root \in Evidence /\ turn = {} /\ Direct(record[root], Context) = values[e].state
           \/ /\ values[e].state = "unknown"
              /\ root \in Evidence => turn # {} \/ (stop > 1 /\ record[root].authority = "advisory")

\* Rounds only sharpen outcomes, and an invalidated one never changes again.
OnlySharpens ==
  [][phase = "propagate" => \A e \in Evidence :
       /\ Sharpness[values[e].state] <= Sharpness[values'[e].state]
       /\ values[e].state = "invalidated" => values'[e] = values[e]]_vars

\* Neither guard nor strict allows a transition on evidence that requires
\* something with a problem.
RefusesDoubtfulEvidence ==
  phase = "done" => \A profile \in {"guard", "strict"} :
    EvaluationResult(profile, Findings).transition_allowed =>
      \A x \in Evidence : ~Problem(x)

\* What an attentive reader would ask of evidence before relying on it.
Proven(r) ==
  /\ r.completeness = "complete"
  /\ r.expires_at # None => r.expires_at > Context.logical_time
  /\ <<r.target_id, r.checkpoint_id>> = <<Context.target_id, Context.checkpoint_id>>
  /\ r.producer \in Context.producer_ids
  /\ r.kind = "command" => /\ r.receipt.declared = r.receipt.observed
                           /\ r.receipt.count \in Nat \ {0}
  /\ r.authority = "deterministic" => r.facts # {}
  /\ \A v \in r.invalidators : v.required =>
       /\ v.kind = "citation" =>
            \E s \in DOMAIN Context.citations : s = v.subject_id /\
              LET o == Context.citations[s]
              IN  o.stable /\ o.available /\ r.subject_digest \in {o.span_digest, o.file_digest}
       /\ v.kind = "target" => v.subject_id = Context.target_id
       /\ v.kind = "checkpoint" => v.subject_id = Context.checkpoint_id
       /\ v.kind = "producer" => v.subject_id \in Context.producer_ids
       /\ v.kind # "policy"

\* Admission and evaluation together leave no gap: evidence that ends up current
\* is proven, and so is all it requires, however indirectly, and of what it
\* requires nothing is absent or only advisory.
CurrentIsProven ==
  phase = "done" =>
    \A e \in Evidence : values[e].state = "current" =>
      \A x \in Reached(e) :
        /\ Proven(record[x])
        /\ \A d \in deps[x] : d \in Evidence /\ record[d].authority # "advisory"

\* The evaluation of every graph ends.
Ends == <>(phase = "done")
=============================================================================

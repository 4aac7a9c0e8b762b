----------------------------- MODULE Continuity -----------------------------
(***************************************************************************)
(* The Continuity facade (api.py): initialize, checkpoint and verify of    *)
(* one session, called by threads of several processes, over a target that *)
(* somebody else may change between any two captures.                      *)
(*                                                                         *)
(* The session's database is the specification AtomicStore, which module   *)
(* StateStore implements: a commit is called, takes effect at one instant  *)
(* and is answered later, or fails either way. A capture is what one       *)
(* TargetAdapter.capture returns: the state of the target at one instant.  *)
(* The target of a snapshot stands for target, instruction manifest and    *)
(* policy digest together.                                                 *)
(***************************************************************************)
EXTENDS Evaluation, Sequences, FiniteSets

CONSTANTS
  Caller,     \* Continuity objects, each used by a thread of its own
  Process,
  ProcessOf,  \* which process a caller lives in
  ProfileOf,  \* profile of the policy each caller has loaded
  PolicyOf,   \* its compiled policy id
  SourceOf,   \* the target policy digest it must find: see MatchesPolicy
  GoalOf,     \* goal and criteria it would initialize with
  Founder,    \* callers that may have initialized before the behaviour starts
  NoCaller,
  NoTx,
  NoHead,
  State,      \* states of the target
  NoState,
  Clean,      \* those whose work tree is clean
  PolicyIn,   \* the target policy digest of each state
  Instant,    \* what the clock may say at an initialize
  MaxAttempts, \* _CHECKPOINT_ATTEMPTS
  MaxChanges, \* bound: changes of the target
  MaxCalls    \* bound: facade calls in a behaviour

ASSUME CallerAssumption ==
  /\ ProcessOf \in [Caller -> Process]
  /\ ProfileOf \in [Caller -> Profile]
  /\ DOMAIN PolicyOf = Caller /\ DOMAIN SourceOf = Caller /\ DOMAIN GoalOf = Caller
  /\ Founder \subseteq Caller /\ NoCaller \notin Caller
  /\ NoState \notin State /\ Clean \subseteq State /\ DOMAIN PolicyIn = State
  /\ MaxAttempts \in Nat \ {0} /\ MaxChanges \in Nat /\ MaxCalls \in Nat

VARIABLES
  world,     \* the state of the target now
  changes,   \* bounded by MaxChanges
  lock,      \* per process: the caller that holds _database_lock
  pc,        \* per caller: where its call is
  op,        \* per caller: which call
  attempt,   \* checkpoint attempts of the call so far
  head,      \* the sequence of the head, or selected checkpoint, it works on
  snap,      \* snapshot A of the call
  looked,    \* history: the last capture of the call, and the length of the log then
  began,     \* history: length of the log when the call, or one that gave up, began
  result,    \* what its last call returned
  results,   \* history: receipts of initialize calls
  calls,     \* bounded by MaxCalls
  history, phase, tx, answer, receipts  \* of AtomicStore

store == <<history, phase, tx, answer, receipts>>
local == <<op, attempt, head, snap, looked, began>>
told == <<result, results, calls>>
vars == <<world, changes, lock, pc, local, told, store>>

HeadName == "checkpoint"

Goal == {GoalOf[c] : c \in Caller}
Policy == {PolicyOf[c] : c \in Caller}
Intent == [goal : Goal, target : State, policy : Policy]

\* Parents are named by the sequence of the event that made them, 0 for none.
Checkpoint == [parent : Nat, audit_parent : Nat, target : State, policy : Policy,
               intent : Intent]

ASSUME NoHeadAssumption == NoHead \notin [record : Checkpoint, seq : Nat]

\* What tells transactions of the same content apart: the clock of an
\* initialize, and the random invocation digest of a checkpoint call, for which
\* the caller stands, who has one call at a time.
Stamp == [by : Caller, at : {0}] \cup [by : {NoCaller}, at : Instant]

Transaction ==
  [request : [kind : {"initialize", "checkpoint"}, stamp : Stamp,
              news : [{HeadName} -> Checkpoint]],
   expected : [{HeadName} -> [record : Checkpoint, seq : Nat] \cup {NoHead}]]

Store == INSTANCE AtomicStore WITH
  Handle <- Caller, HeadName <- {HeadName}, Tx <- Transaction

CheckpointAt(i) == history[i].request.news[HeadName]

-----------------------------------------------------------------------------
(* Evaluation of captures (capture/coordinator.py, api.py).                *)

Observation(code) ==
  [code |-> code, subject |-> "target", verdict |-> "unknown",
   integrity_failure |-> FALSE]

SnapshotFindings(a, b) ==
  {Observation("target.dirty") : s \in {a, b} \ Clean}
    \cup {Observation("capture.unstable") : s \in {a} \ {b}}

\* evaluate_checkpoint_capture: also unstable when the checkpoint is not of
\* this target or of the caller's policy.
CheckpointFindings(c, cp, a, b) ==
  SnapshotFindings(a, b)
    \cup {Observation("capture.unstable") :
            x \in {p \in {<<cp.target, cp.policy>>} : p # <<a, PolicyOf[c]>>}}

\* The caller's policy is still the one the target holds: "explicit" for a
\* caller whose policy does not come from the target.
MatchesPolicy(c, s) == SourceOf[c] = "explicit" \/ SourceOf[c] = PolicyIn[s]

\* The captured target is the one of the checkpoint.
MatchesCheckpoint(cp, s) == s = cp.target

\* The result of captures a and b for checkpoint cp, and whether the code
\* refuses whatever the profile says.
Result(c, cp, a, b) ==
  LET evaluated == EvaluationResult(ProfileOf[c], CheckpointFindings(c, cp, a, b))
  IN  IF b = a /\ MatchesCheckpoint(cp, a) /\ MatchesPolicy(c, a) /\ MatchesPolicy(c, b)
      THEN evaluated
      ELSE ForcedRefusal(evaluated)

GenesisResult(c, a, b) ==
  LET evaluated == EvaluationResult(ProfileOf[c], SnapshotFindings(a, b))
  IN  IF b = a /\ MatchesPolicy(c, a) /\ MatchesPolicy(c, b)
      THEN evaluated
      ELSE ForcedRefusal(evaluated)

IntentOf(c, s) == [goal |-> GoalOf[c], target |-> s, policy |-> PolicyOf[c]]

Genesis(c, s) ==
  [parent |-> 0, audit_parent |-> 0, target |-> s, policy |-> PolicyOf[c],
   intent |-> IntentOf(c, s)]

\* build_subsequent_checkpoint copies the protected state of the parent.
Child(c) ==
  [CheckpointAt(head[c]) EXCEPT !.parent = head[c], !.audit_parent = head[c]]

\* What commit_many is called with.
GenesisTx(c, s, t) ==
  [request  |-> [kind |-> "initialize", stamp |-> [by |-> NoCaller, at |-> t],
                 news |-> [n \in {HeadName} |-> Genesis(c, s)]],
   expected |-> [n \in {HeadName} |-> NoHead]]

\* mutant: the head is read again for the comparison
ChildTxLatest(c) ==
  [request  |-> [kind |-> "checkpoint", stamp |-> [by |-> c, at |-> 0],
                 news |-> [n \in {HeadName} |-> Child(c)]],
   expected |-> [n \in {HeadName} |-> Store!Current(HeadName)]]

ChildTx(c) ==
  [request  |-> [kind |-> "checkpoint", stamp |-> [by |-> c, at |-> 0],
                 news |-> [n \in {HeadName} |-> Child(c)]],
   expected |-> [n \in {HeadName} |->
                   [record |-> CheckpointAt(head[c]), seq |-> head[c]]]]

-----------------------------------------------------------------------------
\* A session that a founder had initialized before.
Initialized ==
  \E c \in Founder, s \in State, t \in Instant :
    /\ GenesisResult(c, s, s).transition_allowed
    /\ history = <<GenesisTx(c, s, t)>>

NoLook == [state |-> NoState, at |-> 0]

Init ==
  /\ world \in State
  /\ changes = 0
  /\ lock = [p \in Process |-> NoCaller]
  /\ pc = [c \in Caller |-> "idle"]
  /\ op = [c \in Caller |-> "none"]
  /\ attempt = [c \in Caller |-> 0]
  /\ head = [c \in Caller |-> 0]
  /\ snap = [c \in Caller |-> NoState]
  /\ looked = [c \in Caller |-> NoLook]
  /\ began = [c \in Caller |-> 0]
  /\ result = [c \in Caller |-> "none"]
  /\ results = {}
  /\ calls = 0
  /\ history = <<>> \/ Initialized
  /\ Store!NobodyCalled

Goto(c, at) == pc' = [pc EXCEPT ![c] = at]

Unlock(c) == lock' = [p \in Process |-> IF lock[p] = c THEN NoCaller ELSE lock[p]]

\* The call is over: its with-statements release the lock and the store.
Finish(c, r) ==
  /\ Goto(c, "idle")
  /\ Unlock(c)
  /\ op' = [op EXCEPT ![c] = "none"]
  /\ attempt' = [attempt EXCEPT ![c] = 0]
  /\ head' = [head EXCEPT ![c] = 0]
  /\ looked' = [looked EXCEPT ![c] = NoLook]
  /\ result' = [result EXCEPT ![c] = r]
  /\ snap' = [snap EXCEPT ![c] = NoState]
  /\ began' = [began EXCEPT ![c] = IF r = "conflict" THEN @ ELSE 0]
  /\ UNCHANGED calls

Quiet == UNCHANGED <<world, changes>>

\* Whoever works on the target.
Change ==
  /\ changes < MaxChanges
  /\ changes' = changes + 1
  /\ world' \in State \ {world}
  /\ UNCHANGED <<lock, pc, local, told, store>>

\* A call. A checkpoint or verify looks for its session first: the session is
\* there once its head is (_discover_database_name).
Start(c, call) ==
  /\ pc[c] = "idle"
  /\ calls < MaxCalls
  /\ calls' = calls + 1
  /\ IF call # "initialize" /\ history = <<>>
     THEN /\ result' = [result EXCEPT ![c] = "unavailable"]
          /\ began' = [began EXCEPT ![c] = 0]
          /\ UNCHANGED <<pc, op>>
     ELSE /\ result' = [result EXCEPT ![c] = "none"]
          /\ began' = [began EXCEPT ![c] = Len(history)]
          /\ op' = [op EXCEPT ![c] = call]
          /\ Goto(c, CASE call = "initialize" -> "A" [] call = "checkpoint" -> "lock"
                       [] call = "verify" -> "head")
  /\ UNCHANGED <<lock, attempt, head, snap, looked, results, store>>
  /\ Quiet

\* mutant: each caller has a lock of its own
LockIgnored(c) ==
  /\ pc[c] = "lock"
  /\ Goto(c, "head")
  /\ UNCHANGED <<lock, local, told, store>> /\ Quiet

\* _database_lock, one per process and database.
Lock(c) ==
  /\ pc[c] = "lock"
  /\ lock[ProcessOf[c]] = NoCaller
  /\ lock' = [lock EXCEPT ![ProcessOf[c]] = c]
  /\ Goto(c, "head")
  /\ UNCHANGED <<local, told, store>> /\ Quiet

\* The store is open: an initialize adopts the head it finds or commits; a
\* checkpoint works on the head, a verify on any checkpoint of the lineage.
ReadHead(c) ==
  /\ pc[c] = "head"
  /\ \/ /\ op[c] = "initialize"
        /\ Goto(c, IF history = <<>> THEN "commit" ELSE "reconcile")
        /\ UNCHANGED head
     \/ /\ op[c] = "checkpoint"
        /\ head' = [head EXCEPT ![c] = Len(history)]
        /\ Goto(c, "A")
     \/ /\ op[c] = "verify"
        /\ \E i \in DOMAIN history : head' = [head EXCEPT ![c] = i]
        /\ Goto(c, "A")
  /\ UNCHANGED <<lock, op, attempt, snap, looked, began, told, store>> /\ Quiet

Look(c) == looked' = [looked EXCEPT ![c] = [state |-> world, at |-> Len(history)]]

CaptureA(c) ==
  /\ pc[c] = "A"
  /\ snap' = [snap EXCEPT ![c] = world]
  /\ Look(c)
  /\ Goto(c, "B")
  /\ UNCHANGED <<lock, op, attempt, head, began, told, store>> /\ Quiet

\* Snapshot B and the evaluation; a verify ends here.
CaptureB(c) ==
  /\ pc[c] = "B"
  /\ LET r == IF op[c] = "initialize"
              THEN GenesisResult(c, snap[c], world)
              ELSE Result(c, CheckpointAt(head[c]), snap[c], world)
     IN  IF op[c] # "verify" /\ r.transition_allowed
         THEN /\ Goto(c, "C")
              /\ Look(c)
              /\ UNCHANGED <<lock, op, attempt, head, snap, began, told>>
         ELSE /\ Finish(c, IF r.transition_allowed THEN "allowed" ELSE "refused")
              /\ UNCHANGED results
  /\ UNCHANGED store /\ Quiet

\* mutant: snapshot C is taken and not compared
CaptureCUnread(c) ==
  /\ pc[c] = "C"
  /\ Look(c)
  /\ Goto(c, IF op[c] = "initialize" THEN "lock" ELSE "commit")
  /\ UNCHANGED <<lock, op, attempt, head, snap, began, told, store>> /\ Quiet

\* Snapshot C, just before the transaction.
CaptureC(c) ==
  /\ pc[c] = "C"
  /\ IF world = snap[c] /\ MatchesPolicy(c, world)
     THEN /\ Look(c)
          /\ Goto(c, IF op[c] = "initialize" THEN "lock" ELSE "commit")
          /\ UNCHANGED <<lock, op, attempt, head, snap, began, told>>
     ELSE Finish(c, "refused") /\ UNCHANGED results
  /\ UNCHANGED store /\ Quiet

-----------------------------------------------------------------------------
(* The commit and its answers.                                             *)

Commit(c) ==
  /\ pc[c] = "commit"
  /\ \/ /\ op[c] = "initialize"
        /\ \E t \in Instant : tx' = [tx EXCEPT ![c] = GenesisTx(c, snap[c], t)]
     \/ /\ op[c] = "checkpoint"
        /\ tx' = [tx EXCEPT ![c] = ChildTx(c)]
  /\ Store!Invoke(c)
  /\ Goto(c, "wait")
  /\ UNCHANGED <<lock, local, told>> /\ Quiet

TakeEffect(c) ==
  /\ pc[c] = "wait"
  /\ Store!TakeEffect(c)
  /\ UNCHANGED <<lock, pc, local, told>> /\ Quiet

\* A CheckpointReceipt for the event of the log at seq.
Receive(c, seq) ==
  /\ results' = results \cup {[seq |-> seq, intent |-> IntentOf(c, snap[c])] :
                                call \in {op[c]} \cap {"initialize"}}
  /\ Finish(c, "receipt")

Answered(c) ==
  /\ pc[c] = "wait"
  /\ Store!GiveReceipt(c)
  /\ \E r \in receipts' : r.tx = tx[c] /\ Receive(c, r.seq)
  /\ Quiet

\* mutant: the next attempt starts inside the lock
RetryLocked(c) ==
  /\ Goto(c, "lock")
  /\ attempt' = [attempt EXCEPT ![c] = @ + 1]
  /\ UNCHANGED <<lock, op, head, snap, looked, began, told>>

\* A checkpoint whose head has moved starts over, outside the lock.
Retry(c) ==
  /\ Goto(c, "lock")
  /\ Unlock(c)
  /\ attempt' = [attempt EXCEPT ![c] = @ + 1]
  /\ UNCHANGED <<op, head, snap, looked, began, told>>

\* mutant: the bound is tested before the attempt is counted
ConflictOnceMore(c) ==
  /\ pc[c] = "wait"
  /\ Store!GiveConflict(c)
  /\ IF op[c] = "initialize"
     THEN Goto(c, "reconcile") /\ UNCHANGED <<lock, local, told>>
     ELSE IF attempt[c] = MaxAttempts
          THEN Finish(c, "conflict") /\ UNCHANGED results
          ELSE Retry(c)
  /\ Quiet

\* The expected head was stale.
Conflict(c) ==
  /\ pc[c] = "wait"
  /\ Store!GiveConflict(c)
  /\ IF op[c] = "initialize"
     THEN Goto(c, "reconcile") /\ UNCHANGED <<lock, local, told>>
     ELSE IF attempt[c] + 1 = MaxAttempts
          THEN Finish(c, "conflict") /\ UNCHANGED results
          ELSE Retry(c)
  /\ Quiet

\* The store admits sensitive local values in a genesis only, unless this very
\* genesis is there and still the head.
GenesisGate(c) ==
  /\ pc[c] = "wait"
  /\ op[c] = "initialize"
  /\ phase[c] = "pending"
  /\ history # <<>>
  /\ Len(history) # 1 \/ history[1] # tx[c]
  /\ Store!GiveUp(c)
  /\ Goto(c, "reconcile")
  /\ UNCHANGED <<lock, local, told>> /\ Quiet

\* mutant: an existing session is taken for the caller's own
ReconcileAny(c) ==
  /\ pc[c] = "reconcile"
  /\ Receive(c, Len(history))
  /\ UNCHANGED store /\ Quiet

\* _reconcile_existing: the receipt of the head, if the intent is the same.
Reconcile(c) ==
  /\ pc[c] = "reconcile"
  /\ IF CheckpointAt(Len(history)).intent = IntentOf(c, snap[c])
     THEN Receive(c, Len(history))
     ELSE Finish(c, "already") /\ UNCHANGED results
  /\ UNCHANGED store /\ Quiet

\* A capture or a store call raises, whether or not a commit took effect.
Raise(c) ==
  /\ pc[c] \notin {"idle", "lock"}
  /\ IF pc[c] = "wait" THEN Store!GiveUp(c) ELSE UNCHANGED store
  /\ Finish(c, "error")
  /\ UNCHANGED results /\ Quiet

Step(c) ==
  \/ Raise(c) \/ Lock(c) \/ ReadHead(c)
  \/ CaptureA(c) \/ CaptureB(c) \/ CaptureC(c)
  \/ Commit(c) \/ TakeEffect(c) \/ Answered(c) \/ Conflict(c)
  \/ GenesisGate(c) \/ Reconcile(c)

Next ==
  \/ Change
  \/ \E c \in Caller :
       \/ \E call \in {"initialize", "checkpoint", "verify"} : Start(c, call)
       \/ Step(c)

Spec == Init /\ [][Next]_vars

\* Captures, SQLite calls and their timeouts are bounded: while some call can
\* go on, one of them does.
FairSpec == Spec /\ WF_vars(\E c \in Caller : Step(c))
-----------------------------------------------------------------------------
(* Properties.                                                             *)

Places == {"idle", "lock", "head", "A", "B", "C", "commit", "wait",
           "reconcile"}

\* Every variable keeps its type, and a checkpoint call makes at most
\* MaxAttempts attempts.
TypeOK ==
  /\ world \in State
  /\ changes \in 0..MaxChanges
  /\ lock \in [Process -> Caller \cup {NoCaller}]
  /\ pc \in [Caller -> Places]
  /\ op \in [Caller -> {"none", "initialize", "checkpoint", "verify"}]
  /\ attempt \in [Caller -> 0..(MaxAttempts - 1)]
  /\ head \in [Caller -> Nat]
  /\ snap \in [Caller -> State \cup {NoState}]
  /\ looked \in [Caller -> [state : State \cup {NoState}, at : Nat]]
  /\ began \in [Caller -> Nat]
  /\ result \in [Caller -> {"none", "unavailable", "refused", "allowed", "receipt",
                            "conflict", "already", "error"}]
  /\ results \subseteq [seq : Nat, intent : Intent]
  /\ calls \in 0..MaxCalls
  /\ \A c \in Caller : tx[c] \in Transaction \cup {NoTx}

\* The lineage is one chain: event 1 is the only genesis, and each later
\* checkpoint is the child of the checkpoint and of the audit event before it,
\* with the intent, the target and the policy of the genesis.
LinearChain ==
  \A i \in DOMAIN history :
    /\ CheckpointAt(i) = [CheckpointAt(1) EXCEPT !.parent = i - 1,
                                                 !.audit_parent = i - 1]
    /\ (i = 1) <=> (history[i].request.kind = "initialize")

\* The last capture before a checkpoint is committed is younger than its parent
\* event and shows the target the checkpoint names; outside the observe profile
\* that target was clean and the policy of the lineage is the caller's own.
CommittedWasSeen ==
  \A c \in Caller : phase[c] = "done" /\ op[c] = "checkpoint" =>
    \E i \in DOMAIN history :
      /\ history[i] = tx[c]
      /\ looked[c] = [state |-> CheckpointAt(i).target, at |-> i - 1]
      /\ ProfileOf[c] # "observe" =>
           CheckpointAt(i).target \in Clean /\ CheckpointAt(i).policy = PolicyOf[c]

\* An initialize succeeds only in a session with its own goal, target and
\* policy, whoever initialized it and however far the lineage has gone.
InitializeAgrees ==
  \A r \in results :
    r.seq \in DOMAIN history /\ CheckpointAt(r.seq).intent = r.intent

\* A checkpoint gives up only when other processes have committed at least
\* once for each of its attempts: threads of its own process never cost it one.
GivesUpForOthers ==
  \A c \in Caller : result[c] = "conflict" =>
    Cardinality({i \in began[c] + 1 .. Len(history) :
                   LET by == history[i].request.stamp.by
                   IN  by = NoCaller \/ ProcessOf[by] # ProcessOf[c]}) >= MaxAttempts

\* Every facade call ends: as a behaviour has finitely many calls, the callers are
\* all idle again.
CallsEnd ==
  (\E c \in Caller : pc[c] # "idle") ~> (\A c \in Caller : pc[c] = "idle")

\* Repeating an initialization returns the existing receipt.
InitializeIsIdempotent ==
  \A r, s \in results : r.intent = s.intent => r.seq = s.seq
=============================================================================

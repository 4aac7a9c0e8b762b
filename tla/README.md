# Verification of agent-continuity-guard

TLA+ models of the parts of agent-continuity-guard where order, concurrency and
failure decide whether it is correct: the SQLite store of a session, the creation of
its database file, the `Continuity` facade over it, the captures of the target, and
the Git children they run, and the evaluation of findings and evidence. TLC checks the models on small instances;
TLAPS proves every safety property of the passing runs, and the refinement of the
store, for all instances that meet the stated assumptions. Paths below are
relative to `src/src/agent_continuity/` unless they say otherwise.

## The system

A *session* is a lineage of *checkpoints* of one target (a Git work tree). Several
agents, threads or operating-system processes call `Continuity.open`, then
`initialize`, `checkpoint` and `verify`. Each call captures the target, evaluates
what it saw under a profile (`observe`, `guard`, `strict`), and for a transition
commits an audit event and a new head to the session's SQLite file.

| Component | Source | State | Operations |
|---|---|---|---|
| Store handles | `store/sqlite.py`, `store/schema.sql` | records, local values, audit log and heads in one file; per handle two descriptors and a connection | open with verification, `read_head`, `commit_many`, readback, close |
| Database creation | `store/sqlite.py`, `api.py` | the name, the inodes it has linked to, how complete each is | O_EXCL create, schema, metadata, self-validation, unlink, adoption, reconnection |
| Facade | `api.py`, `kernel/checkpoint.py` | a lock per process and database; per object the policy and the discovered name | `initialize`, `checkpoint`, `verify` |
| Evaluation | `kernel/evaluation.py`, `kernel/findings.py` | none | `evaluate` |
| Evidence and its invalidation | `kernel/evidence.py`, `kernel/invalidation.py` | none outside the call | construction of a record, `evaluate_invalidations` |
| Git capture | `capture/git.py`, `_git_locator.py`, `_git_proof.py` | pinned descriptors, a deadline | `capture`, `_capture_live`, `read_target_policy` |
| Capture coordinator | `capture/coordinator.py` | an ephemeral directory of copies | `capture_stable`, copies of required files, findings of a pair of snapshots |
| Git subprocess | `capture/_git_process.py` | two drain threads, an overflow event, a stop lock | `_run_bounded` |
| State root | `store/paths.py` | the directories of its path; per handle a pinned directory | open or make, path and permission checks |
| Audit anchors | `store/sqlite.py`, `kernel/audit.py` | an exported (sequence, event id) | `make_anchor`, `verify_audit` |
| Policy, records, canonical JSON, CLI | `policy.py`, `kernel/*.py`, `cli.py` | none | parse, encode, format |

Components interact in four ways: the facade calls the capture adapter and the
store; handles of different processes meet in SQLite's locks, and handles of one
process in POSIX record locks, which belong to a process and not to a descriptor;
creators meet in the directory entry of the file; and everybody meets the outside
world that edits the target.

What is hard here, and what makes each component correct:

- **Store.** Two writers between reading a head and comparing it; a lost answer and
  its retry; verification passes that are not one transaction; a process that dies
  at any instruction; a reader that meets a journal. Correct when the committed log
  only grows, the heads, records and local values are what the log says, a
  transaction is there at most once, and receipts stay true.
- **Creation.** A file is visible under its name before it is complete; its creator
  unlinks by name when validation fails; others pin it by descriptor and connect by
  path. Correct when nobody uses an incomplete file, no genesis is lost, and an
  interrupted creation does not block the session.
- **Facade.** The target changes between captures; the head moves during an
  attempt; threads of one process and other processes compete; calls are repeated.
  Correct when the lineage is one chain of checkpoints that were seen in the target,
  repeated and concurrent initializations agree, and every call ends.
- **Invalidation.** Arbitrary graphs, cycles, doubt and invalidity arriving in
  different rounds, a bound on the rounds. Correct when the result is what
  reachability says and nothing doubtful passes a guarding profile.
- **Capture.** Many reads of a moving target, and a branch that moves between two
  files. Correct when what is returned was the whole target at one instant, the copies
  are of that instant, and a refusal has a reason in the target.
- **Git subprocess.** Three threads and a deadline compete to stop one child, whose
  pipes may outlive it. Correct when a result is all the child wrote, the limit is
  exact, and no child stays behind.

## Modules

| Module | Models |
|---|---|
| `AuditLog` | The pure part of the store: transactions and their signature, the decision of `commit_many`, the append, the replay of `_verify_state`. |
| `AtomicStore` | Abstract: a multi-head compare-and-swap with a history, seen by its callers. |
| `StateStore` | Handles on an existing database, at the grain of SQL statements and journal states; implements `AtomicStore`. |
| `StoreOpen` | The life of the state root and the database file while processes initialize one session. |
| `Evaluation` | `evaluate`, `_forced_refusal`, verdict ranks and profiles. |
| `Continuity` | The facade's three operations, over `AtomicStore`, a changing target and the lock of each process. |
| `EvidenceRecord` | Which evidence can be built, and what the context says of one record. |
| `Invalidation` | `evaluate_invalidations` step by step: two searches, cycle marking, rounds of propagation, findings. |
| `Capture` | Captures of a moving target: two observations, each of sources, census and walk, the one retry of `capture_stable` and its copies. |
| `BoundedProcess` | One Git child: its drains, output limit, deadline and stop. |
| `AuditLogProofs`, `StateStoreProofs`, `StateStoreRefinement` | Theorems about the store: its operators, its invariants, its refinement of `AtomicStore`. |
| `StoreOpenProofs`, `ContinuityProofs`, `InvalidationProofs`, `CaptureProofs`, `BoundedProcessProofs` | Theorems about the module each is named after. |
| `MC*` | Instances for TLC. |

`StateStore` extends `AuditLog` and is checked against `AtomicStore` by a refinement
mapping; `Continuity` uses `AtomicStore` as its store, so the facade's properties
rest on what the store was shown to provide. `Continuity` and `Invalidation` extend
`Evaluation`, `Invalidation` also `EvidenceRecord`. `Continuity` takes a capture as one
look at the target at one instant; `Capture` shows what of this a capture of many reads
provides. `Capture` takes a Git child as one step that answers or is late;
`BoundedProcess` shows that a child's answer is never a part of one and that it ends.

### How state and actions correspond to the code

**StateStore.** `pages`, `journal` and `rollback` are the database file, whether a
`-journal` exists, not yet synced (`cold`) or synced (`hot`), and what it would
restore. `lock` is SQLite's RESERVED lock; the EXCLUSIVE phase of a commit is
`committing`. `pc`, `mode`, `scan` and `view` are where a handle is and what its
verification pass has read; `base` is the image its transaction works on. `Open`,
`Scan`, `PassOpen`, `FailOpen` and `WritableConnection` are the open of an existing
file: a pass on a `mode=ro` connection, then for a writer a second one. `Begin`,
`Busy`, `Refuse`, `Repeat`, `Insert`, `StartCommit`, `FinishCommit` and `Fail` are
`commit_many`, in the order of its statements and with each of its early returns.
`Confirm`, `Unconfirmed` and `Unserved` are `_reconcile_committed`. `Close` drops
the record locks of its process, as POSIX does. `Crash(p)` ends every handle of a
process wherever each is. SQLite and the operating system are modelled from how
the code uses them and are marked external.

**AuditLog.** An event is its transaction; a record is its id, since ids are
digests of contents. `Verified` replays the log as `_verify_state` does and compares
the tables with the result. `Decision` is the order of checks in `commit_many`:
exact retry, stale head, late local values, dangling heads.

**StoreOpen.** `depth` is how much of the state root's path exists; `OpenRoot` and
`MakeComponent` are the traversal of `open_external_state_root`, where losing
`os.mkdir` costs an attempt of the bounded loop. `name` is the directory entry, `disk` each inode's progress, `fd` the
descriptor an open has pinned. A verification pass is two SELECTs. Which failures the
bounded loop retries (store errors) is kept apart from those that end the call (`retry`).
A file that somebody has unlinked gives either: its descriptor has no link left, which is a
store error and goes round the loop again (`sqlite.py:534`, `api.py:144`), perhaps to create
the next file; when the unlink falls between that `fstat` and the `stat` of the name, or
before a `mode=ro` connection, a `FileNotFoundError` or an `OperationalError` leaves the
loop. `Inode` bounds how many files are ever made: `NewFile` needs one that is free.

**Continuity.** A snapshot is a state of the target, which stands for work tree,
instructions and policy file together. `ReadHead`, `CaptureA/B/C`, `Commit` and the
answers are the steps of the two transitions; `Lock` is `_database_lock`; every way
out goes through `Finish`, which releases what the `with` statements release.
`GenesisGate` is the store's refusal of late local values, which `initialize`
recognizes by its text. `Initialized` is a log that starts with the genesis of a founder
whose own evaluation allowed it. `verify` selects any checkpoint of the lineage. `Raise` is
an error of a capture or of the store at any place.

**EvidenceRecord.** `Admitted` is `validate_evidence`; `Direct` is `_evaluate_direct`
without the dependencies. A logical time is a number. A record that is not admitted
never gets to an evaluation: `CurrentIsProven` depends on it, since the evaluation does
not look at receipts. Ids are digests of contents that hold the dependencies, so the
code's callers cannot build a cycle; the evaluation does not rely on that, and neither
does the model.

**Invalidation.** One step of the inner loops of each search is one action, with the
stack and the finish order of the code; evidence ids are numbers since the code sorts
them. A round of propagation is one action because it reads only the last round.
Codes and cause lists are not kept, transitive paths are. Reachability, which the
properties use and the code does not compute, is membership in every set that is closed
under required dependencies, and `Sorted` is the one ascending sequence of a set: proofs
cannot look into recursive operators or into `SortSeq`.

**Capture.** An object of the target has a value and a stamp, its stat identity; each
change gives it a new one. `mode` says which capture runs: `GitTargetAdapter.capture`
(`clean`), `capture_stable` over the Git adapter (`live`) or over
`FilesystemTargetAdapter` (`files`), or `read_target_policy` (`policy`). `ReadBefore`
and `ReadAfter` read the sources one by one: root and Git directory
(`_locator_manifest`), the policy file, the config file, packed-refs, HEAD with its
loose ref, and the index; `ReadPolicy` is the first of the two reads of the policy file
alone. `HEAD` is the branch as a loose ref and `Packed` its entry in packed-refs; a
branch in neither form or in both is refused. `Admit` is `git config --list`, which
reads the config file a second time.
`ListIndex`, `ListDeleted` and `ListUntracked` are the Git children. `Enter`,
`ReadLeaf` and `Leave` are the recursive walk, in any order of the entries: listing
with identities, one leaf, listing again. `seen`, `ids` and `closed` are what the walk
holds on its stack and in its manifests. `ReadAfter` of the last source completes an
observation and, for the second, compares the two as the code does: with all
identities in a clean capture, with the values of HEAD and index and the identities of
the walk in a live one. `Raise` is every `CaptureUnknownError`, with the retry of
`capture_stable`; `Deny` is the `CaptureRequestError` for a required path that is not
there, which is not retried. `StartCopy`, `CopyFile`, `CopyDone` and `CopyFails` are
`_materialize`, outside the retry. `Edit`, `Add`, `Remove`, `Stage`, `CommitIndex`,
`Pack`, `Prune` and `Configure` are the outside.

`pivot` is history: the target when the second observation read HEAD (the root, for a
plain directory), which is the instant that is reported. The end of the first walk, which looks
like the natural choice, is not one: a live capture compares HEAD and the index by
value, so a branch that is removed, added and put back by eight changes between the two
readings leaves the two observations equal, and the branch absent, for an instant, in
between. The proof of the instant needs the readings of the two observations only; the
identities compared within one walk (`ids`) are in the model because the code refuses
on them.

**BoundedProcess.** `pc` is where the caller and the two drains are; `stopping` is the
holder of the lock in `stop_once`, whose steps `Poll`, `Terminate`, `Await` and `Reap`
any of them may take. `Collect` and `Keep` are one `stream.read`, which collects until
it has a chunk or the stream ends, and what is done with it. The child writes, blocks on
a full pipe, exits, hangs or ignores SIGTERM, and may leave a pipe to a process of its
own (`heir`). Each timed wait ends at any moment after it began.

## Runs

| Run | Shows | States |
|---|---|---|
| `store` | Two handles in two processes: history, receipts, isolation, nobody waits for a waiting writer, refinement of `AtomicStore`, calls end | 98,416 |
| `store_hot` | Finding: a hot journal is never played back | counterexample |
| `store_readback` | Finding: a committed call is refused at its readback | counterexample |
| `store_threads` | Finding: a close in one thread breaks the lock of another | counterexample |
| `creation` | Three initializing processes, one death: the state root, complete files, agreeing receipts, unlinks | 2,694,696 |
| `creation_unlink` | Finding: the creator removes a committed genesis | counterexample |
| `creation_crash` | Finding: an interrupted creation blocks the session | counterexample |
| `continuity` | Two threads and another process, target changes: chain, captures, initialization, retries, calls end | 394,216 |
| `continuity_repeat` | Finding: repeated initialization after a checkpoint | counterexample |
| `invalidation` | All graphs on three pieces of evidence, with records of every kind: reachability, paths, doubt and missing proof are refused | 495,146 |
| `capture` | Three kinds of capture, with and without required files, and reads of the policy file, against edits, additions, removals, staging, commits, packed refs and config: one instant, copies of it, clean means clean, refusals have a reason, captures end | 652,287 |
| `git_child` | One child, two drains, deadline, limit: results are complete, the limit is exact, no child stays, the call ends | 236,864 |

Bounds, and why they are enough:

- `store`: two handles are enough for every race of one commit against another
  reader or writer, since a third waits for the same lock. Three requests (a genesis
  with local values, one that moves two heads and repeats a record, one that dangles)
  reach every decision; `MaxCalls = 2` gives a retry after a lost answer and a stale
  head. Deaths are not bounded. `store_threads` needs a third handle: two threads and
  the process they let in.
- `creation`: three processes, two with the same inputs; two attempts, one death,
  seven inodes (more than the calls can create), and a state root of which one
  directory may be missing, so that the attempts could be used up over it. `SYMMETRY`
  exchanges the two processes with the same inputs, in the safety run only.
- `continuity`: two threads of one process (one of them observing only, with a policy
  of its own) and one of another; two attempts rather than the code's three, so that
  three calls can use them up; one change of the target. A session may have been
  initialized before by the caller in `Founder`, which saves calls for what follows.
- `invalidation`: three ids with every set of required dependencies, self-loops and
  cycles included, one absent id, and records that are current, advisory, in doubt
  and invalid, and three that must not be admitted (no check in the receipt, expired
  before it was observed, deterministic without facts). Three is the least number at
  which a cycle, its predecessor and two rounds of propagation meet.
- `capture`: a file in a directory and a file at the root, so that a walk can be inside
  one directory while the other's entry changes; two contents; two changes, enough for
  a file that is edited and edited back behind the walk and for one change on each side
  of a read. Targets start with both files committed to a loose ref and either content
  in the policy file, or with the policy file alone committed to a packed ref and an
  untracked empty directory, which a clean capture refuses although Git calls the target
  clean. A caller requires nothing or the file in the directory.
- `git_child`: a limit of three units, read in chunks of two through pipes of two, and
  four units written at most: output ends at the limit in the middle of a chunk, goes
  past it, or blocks on a full pipe.

`MaxCalls`, `MaxChanges` and `MaxCrashes` bound behaviours and nothing in the code;
`MaxAttempts` is the code's constant made small. Runs whose calls are bounded say
`CHECK_DEADLOCK FALSE`, because callers stop calling. `store` checks deadlock: its
handles can always be opened and closed.

### Fairness

`StateStore!FairSpec` has weak fairness of the steps of a handle: SQLite's busy
timeout (`sqlite.py:599`) and bounded statements make each of them end. So `CallsEnd`
holds of a call that meets a lock, whoever has it; that the timeout is never what ends
a cyclic wait is the invariant `HolderNeverWaits`. Neither callers nor crashes are fair.
`ReopeningSpec` adds that callers keep opening the
store, so that the hot journal of `store_hot` is not a lack of opens.
`StoreOpen!FairSpec` is likewise the progress of each open and of repeated calls.
`Continuity!FairSpec` has weak fairness of the calls together: captures have a deadline
and the store's calls end, so while some call can go on one does. `Capture!FairSpec`
has weak fairness of the capture as a whole: reads end and a Git child is stopped after 30 s at the latest; whoever works in the
target is not fair. `BoundedProcess!FairSpec` has weak fairness of each thread. A child
that does not hang writes and exits; the deadline is counted on only for one that does,
so that `CallEnds` would show a child blocked by a drain that does not read; a process
that inherited a pipe may keep it for ever. A Python `Lock` is not fair; that a waiting
caller gets it relies on calls being finitely many in the instance. `Invalidation` is one function
call that runs.

## What the runs found

Each is a `violation` run on the code as it is, with the sentence it contradicts in
`PROJECT.json`:

1. A process that dies inside COMMIT leaves a hot journal; every open verifies first
   on a read-only connection, which cannot play it back, so the store stays unusable
   (`sqlite.py:383`).
2. Closing `_database_fd` drops the locks of other connections of its process, and a
   committed event can be overwritten (`sqlite.py:703`). `verify` and the search for
   the session's file open and close the store outside `_database_lock`.
3. Between COMMIT and readback another process may commit; the caller is told of an
   integrity failure (`sqlite.py:1116`).
4. The creator's self-validation is not one transaction; it can fail because another
   process committed its genesis, and the file is then unlinked with it
   (`sqlite.py:425`).
5. A death between creation and the metadata commit leaves a file every later
   `initialize` refuses (`sqlite.py:364`).
6. A repeated, identical `initialize` returns the receipt of the current head, which
   is not the one it returned before once a checkpoint exists (`api.py:544`).

## Proofs

For every value of the constants that meets the assumptions stated with them: any
handles, processes, callers, requests, states of the target, trees of files, graphs of
evidence, limits and bounds. The assumptions on constants say that names of absent
things (`NoHead`, `NoHandle`, `NoInode`, `Nothing`, ...) are not names of things, that
functions have their domains, and otherwise:

- `RequestAssumption`: requests are as `_normalize_*` leaves them: at least one head
  moves, and no head twice.
- `EvidenceAssumption`: finitely many ids, which are ordered; `RecordAssumption`: times
  and counts are integers.
- `CaptureAssumption`: directories form a tree (each node is one deeper than its
  parent); `TargetsAssumption`: a target holds no path without its parent.
- `ProcessAssumption` and `StreamAssumption`: limits and attempts are at least one.

The theorems about `StateStore` except `TypeCorrect` assume `SingleHandle` besides: no
process has the store open twice at the same time. The code does not enforce it, and run
`store_threads` shows that without it they are false.

Each component has one inductive invariant, `IInv`, a conjunction of named parts with a
comment each; where it is not the property itself, these are what the property needs.

- `AuditLogProofs`: the empty image verifies; `AppendVerifies`, an append admitted by
  `Decision` keeps an image verified; `VerifiedHasNoDuplicate`, a verified image holds
  no transaction twice. The last needs no history: the second copy would expect heads
  the first has moved.
- `StateStoreProofs`: `LockInv` says that the RESERVED lock is held exactly by the handle
  between BEGIN IMMEDIATE and the end of its transaction, and that the journal says how
  far that handle is: not hot before its inserts, cold while it writes, hot during
  COMMIT. `WorkInv` says that such a handle works on the committed image, with a
  transaction that passed every check against it, and that once committed its event
  stays where it is. That the log only grows depends on the image a COMMIT writes, that
  image on who owns the lock, and the lock on the processes of the handles.
  `StoreAlwaysVerifies`, `WriterAlone`, `NobodyWaitsInVain`, `AtMostOnce`, `ReceiptsStayTrue`, `AppendOnly` and
  `NeverDirty` follow, with the two theorems about `AuditLog`.
- `StateStoreRefinement`: `Refinement`, the step mapping. A call is pending from `Call`
  and done at its readback; its event is appended by `FinishCommit`, when the hot journal
  is gone, so that a death inside COMMIT loses a call that had no effect. Statements in
  between are stutters. It uses `IInv` of the store and a lemma of its own: the head the
  code reads from its table is the one the abstract store finds in the history.
- `StoreOpenProofs`: `HoldInv` says what each process knows of the file it holds whoever
  else holds it (complete where a pass has found it complete, its own genesis where it is
  confirmed, still linked where it is about to be unlinked), `SoleCreator` that no file
  has two creators, `RootInv` that every lost attempt was lost to a directory made since.
  `CompleteWhenOpen`, `ReceiptsHold`, `UnlinkIsOwn` and `RootLosses` follow.
- `ContinuityProofs`: `Sighted` says what the captures of a call have established about
  what it is going to commit and about the length of the log at the time; `Counted` counts
  the events of other processes since the call began, which are as many as the
  attempts it has lost because the lock of its process keeps its own away (`LockHeld`).
  `OneChain`, `CommitIsOfSight`, `InitializesOwn` and `OnlyOthersWin` follow.
- `BoundedProcessProofs`: `FlowInv` says that what was written is in the pipe, in the
  read in progress or kept, until the limit is met; `DoneInv` that a drain ends with all
  its stream will ever carry or after the limit; `StopInv` that whoever was inside
  `_stop_process` leaves the child exited or killed. `LimitExact`, `CompleteResult` and
  `ChildStopped` follow.
- `InvalidationProofs`: `SearchInv` is the invariant of the first search: the stack is a
  way in the graph, and what a finished node requires has finished before it or leads to
  all that finished since. `CollectInv` is that of the second: closed components are
  classes nobody outside requires, the open one is within the class of its root. From
  both, `ComponentsFound`. `Sound` says that doubt and invalidity have a reason in the
  graph, `Rounds` that a round which is not the last adds evidence to one of them, so that
  as many rounds as evidence are enough: `RoundsReachAnswer`, `RoundsSharpen`,
  `DoubtRefused`, `CurrentProven`. `PathInv` says that each path goes along required
  dependencies, off all cycles, to a root; that it repeats nothing holds because
  evidence that comes twice would be on a cycle: `PathsSound`. `EvaluationMonotone` is about
  `evaluate` alone.
- `CaptureProofs`: readings are ordered by their stamps. A reading made before an instant
  has at most the stamp its object has then, one made after it at least that (`PivotInv`);
  when both have the same stamp, both are what the object was. `CheckedInv` says this of
  the sources that were read again, `WalkInv` that a walk hangs together, `CleanInv` that
  what a clean capture walked is what is tracked, `DiskInv` that a change gives a new
  stamp. `InstantReported`, `CopiesOfInstant` and `CleanWas` follow. `OnlyForReason`
  has an invariant of its own, `QuietInv`: while nothing has changed since an attempt
  began, all its readings are what the target is, so that no comparison of them fails.

Attempts that failed changed the models where these were wrong or could not be
reasoned about: the instant a capture reports (above), a `NewFile` without a free inode,
distinctness that `CaptureAssumption` did not say, and recursive closures.

Only model-checked: liveness (`CallsEnd` of `store` and of `continuity`, `Ends`,
`CapturesEnd`, `CallEnds`), because fairness and ENABLED are outside the prover's reach;
and the findings, which are counterexamples.

## Not modelled

- Canonical JSON, digests, record and schema validation, path encodings: encoders and
  validators of immutable values. Models take digests as injective.
- Policy loading, command line, output, clock: no state, no interaction.
- The state root's checks (outside the target, mode, owner) and its replacement under an
  open handle; the in-memory store, which is the same code without files and processes.
- Audit anchors. Event ids are taken as prefixes of the log, so that an anchor matches
  exactly the logs that extend its own would hold by construction.
- Of captures: the parsers of trees, indexes, configuration and refs, attribute and
  ignore files and alternates among the sources, chains of symbolic refs, a detached
  HEAD, remotes, limits, symlinks and hard links, exclusions; how the adapter finds and
  pins the Git executable and Git's directories, and their replacement before a child
  runs in them. Stamps assume that the file system's clock tells two changes apart. A
  live capture says nothing of a directory no census path is in. A single `capture` of a
  plain directory is one observation: the model pairs observations as `capture_stable`
  does. Whether the directory of the copies lies in the target is not modelled.
- Of Git children: the admitted commands and the environment; `input_data`, which no
  caller passes.
- Of evidence: the construction of citations and capabilities, and the decoders.
- Damage from outside (edited files, restored backups): the models start from files
  the code made.

## Plan

Order so far: `AuditLog`, `AtomicStore`, `StateStore`, proofs of both, `StoreOpen`,
`Evaluation`, `Continuity`, `Invalidation`, `Capture`, `BoundedProcess`,
`EvidenceRecord`. What could still be modelled:

1. The pinning of the Git adapter: `.git` files and worktrees, the identities verified
   before each child, and a replacement between the verification and the child.
2. Discovery across sessions in `Continuity`: several files, refused read-only opens.
3. Anchors with event ids that are values of their own, and restored backups.

Theorems: every invariant and action property of a passing run is proved. What is left
is liveness, where it is a matter of safety: that a measure of each call decreases
with every step of it could be proved as an action property (attempts left, places left,
bytes left), and with the fairness above it is why `CallsEnd`, `Ends`, `CapturesEnd` and
`CallEnds` hold; and what `store_threads` leaves open, a weaker assumption than
`SingleHandle` under which the store's theorems still hold (no `Close` of a process while
another handle of it holds a lock).

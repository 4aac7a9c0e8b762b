----------------------------- MODULE StoreOpen -----------------------------
(***************************************************************************)
(* The life of the database file while processes initialize one session:   *)
(* the directories of the state root, the lookup by name, the O_EXCL       *)
(* creation, schema and metadata, the self-validation of the creator with  *)
(* its unlink on failure, the passes of the processes that adopt the file, *)
(* and the genesis commit.                                                 *)
(*                                                                         *)
(* Each process makes one initialize call at a time, and repeats it after  *)
(* a refused open or a death; _database_lock lets at most one call per     *)
(* process get here. What happens inside an open database is module        *)
(* StateStore; of its contents only the genesis event matters here. A      *)
(* verification pass is two SELECTs (records, then audit_events), and a    *)
(* genesis that appears between them makes the pass fail.                  *)
(***************************************************************************)
EXTENDS Naturals, FiniteSets

CONSTANTS
  Process,
  NoProcess,
  Intent,
  IntentOf,     \* initialization intent of each process's call
  Inode,
  NoInode,
  RootDepth,    \* components of the state root's path that may be missing
  MaxAttempts,  \* _STORE_OPEN_ATTEMPTS
  MaxCrashes    \* bound: deaths in a behaviour

ASSUME ProcessAssumption ==
  /\ NoProcess \notin Process
  /\ IntentOf \in [Process -> Intent]
  /\ NoInode \notin Inode
  /\ RootDepth \in Nat
  /\ MaxAttempts \in Nat \ {0}
  /\ MaxCrashes \in Nat

VARIABLES
  depth,     \* how many of those components are there
  name,      \* the inode the database name links to
  disk,      \* per inode: how complete it is, and who committed its genesis
  pc,
  fd,        \* the inode _database_fd pins
  created,   \* this open created its inode
  table,     \* which SELECT of its pass comes next
  seen,      \* the genesis its pass saw in table records
  reached,   \* components of the state root it has opened
  retry,     \* the failure being cleaned up is one the open loop retries
  attempts,
  answer,
  receipts,  \* history: [by, genesis, inode] of every receipt
  lost,      \* history: attempts of the call that failed over the state root
  crashes

root == <<depth, reached, lost>>
files == <<root, name, disk>>
told == <<answer, receipts, crashes>>
vars == <<files, pc, fd, created, table, seen, retry, attempts, told>>

Stage == {"free", "empty", "schema", "ready"}
Passes == {"self", "first", "second"}
Creating == {"schema", "metadata", "self", "cleanup", "unlink"}
Open == {"open", "commit", "readback", "confirming"}
Places == {"root", "mkdir", "lookup", "create", "opened", "reconnect", "connecting", "done"}
            \cup Creating \cup Passes \cup Open

Init ==
  /\ depth \in 0..RootDepth
  /\ reached = [p \in Process |-> 0]
  /\ name = NoInode
  /\ disk = [i \in Inode |-> [state |-> "free", genesis |-> NoProcess]]
  /\ pc = [p \in Process |-> "root"]
  /\ fd = [p \in Process |-> NoInode]
  /\ created = [p \in Process |-> FALSE]
  /\ table = [p \in Process |-> "records"]
  /\ seen = [p \in Process |-> NoProcess]
  /\ retry = [p \in Process |-> TRUE]
  /\ attempts = [p \in Process |-> 0]
  /\ answer = [p \in Process |-> "none"]
  /\ receipts = {}
  /\ lost = [p \in Process |-> 0]
  /\ crashes = 0

\* An empty file gets the name; inode numbers are interchangeable, and Inode
\* bounds how many are ever used.
NewFile ==
  /\ \E i \in Inode : disk[i].state = "free"
  /\ name' = CHOOSE i \in Inode : disk[i].state = "free"
  /\ disk' = [disk EXCEPT ![name'].state = "empty"]
  /\ UNCHANGED root

Goto(p, at) == pc' = [pc EXCEPT ![p] = at]

\* The handle is closed and what it knew is gone.
Drop(p, at) ==
  /\ Goto(p, at)
  /\ fd' = [fd EXCEPT ![p] = NoInode]
  /\ created' = [created EXCEPT ![p] = FALSE]
  /\ table' = [table EXCEPT ![p] = "records"]
  /\ seen' = [seen EXCEPT ![p] = NoProcess]
  /\ retry' = [retry EXCEPT ![p] = TRUE]

\* The call raises.
Raise(p, a) ==
  /\ Drop(p, "done")
  /\ answer' = [answer EXCEPT ![p] = a]
  /\ UNCHANGED <<attempts, receipts, crashes>>

\* The call returns the receipt of the genesis in the file it holds.
Receive(p) ==
  /\ receipts' = receipts \cup
       {[by |-> p, genesis |-> disk[fd[p]].genesis, inode |-> fd[p]]}
  /\ answer' = [answer EXCEPT ![p] = "receipt"]
  /\ Drop(p, "done")
  /\ UNCHANGED <<attempts, crashes>>

\* mutant: the bound is tested before the attempt is counted
AgainOnceMore(p) ==
  IF attempts[p] = MaxAttempts
  THEN Raise(p, "refused")
  ELSE /\ attempts' = [attempts EXCEPT ![p] = @ + 1]
       /\ Drop(p, "root")
       /\ UNCHANGED told

\* A StoreIntegrityError of an open: again, up to the bound.
Again(p) ==
  IF attempts[p] + 1 = MaxAttempts
  THEN Raise(p, "refused")
  ELSE /\ attempts' = [attempts EXCEPT ![p] = @ + 1]
       /\ Drop(p, "root")
       /\ UNCHANGED told

\* mutant: every failed open unlinks the name
FailOpenUnlinks(p) ==
  /\ Goto(p, "cleanup")
  /\ UNCHANGED <<fd, created, table, seen, retry, attempts, told>>

\* A failed open unlinks what it created before it raises.
FailOpen(p) ==
  IF created[p]
  THEN /\ Goto(p, "cleanup")
       /\ UNCHANGED <<fd, created, table, seen, retry, attempts, told>>
  ELSE Again(p)

\* _assert_database_live: the name still links to the pinned inode.
Live(p) == name = fd[p]

\* What its failure raises: a store error, since the pinned file has lost its
\* link or the name links elsewhere. Only when the name goes between the fstat
\* of the one and the stat of the other, or before a connection in mode=ro, is
\* it an error the open loop does not retry.
NotLive(p) ==
  \/ FailOpen(p)
  \/ name = NoInode /\ Raise(p, "error")

Stay == UNCHANGED <<fd, created, retry, attempts, told>>

StartPass(p, at) ==
  /\ Goto(p, at)
  /\ table' = [table EXCEPT ![p] = "records"]
  /\ seen' = [seen EXCEPT ![p] = NoProcess]

-----------------------------------------------------------------------------
(* The state root, opened and where necessary made component by component. *)

\* open_external_state_root opens every component that is there; nobody removes
\* one.
OpenRoot(p) ==
  /\ pc[p] = "root"
  /\ IF depth = RootDepth
     THEN Goto(p, "lookup") /\ UNCHANGED reached
     ELSE Goto(p, "mkdir") /\ reached' = [reached EXCEPT ![p] = depth]
  /\ UNCHANGED <<depth, lost, name, disk, fd, created, table, seen, retry>>
  /\ UNCHANGED <<attempts, told>>

\* The directory is there already: StatePathError, which the loop retries.
LoseRoot(p) ==
  /\ lost' = [lost EXCEPT ![p] = @ + 1]
  /\ Again(p)

\* mutant: the attempt that fails removes the directory
MakeOrRemove(p) ==
  /\ pc[p] = "mkdir"
  /\ reached' = [reached EXCEPT ![p] = 0]
  /\ IF depth > reached[p]
     THEN depth' = reached[p] /\ LoseRoot(p)
     ELSE /\ depth' = depth + 1
          /\ Goto(p, "root")
          /\ UNCHANGED <<lost, fd, created, table, seen, retry, attempts, told>>
  /\ UNCHANGED <<name, disk>>

\* os.mkdir of the first missing component; the traversal then goes on.
MakeComponent(p) ==
  /\ pc[p] = "mkdir"
  /\ reached' = [reached EXCEPT ![p] = 0]
  /\ IF depth > reached[p]
     THEN LoseRoot(p) /\ UNCHANGED depth
     ELSE /\ depth' = depth + 1
          /\ Goto(p, "root")
          /\ UNCHANGED <<lost, fd, created, table, seen, retry, attempts, told>>
  /\ UNCHANGED <<name, disk>>

-----------------------------------------------------------------------------
(* Creating.                                                               *)

Lookup(p) ==
  /\ pc[p] = "lookup"
  /\ IF name = NoInode
     THEN Goto(p, "create") /\ UNCHANGED fd
     ELSE Goto(p, "opened") /\ fd' = [fd EXCEPT ![p] = name]
  /\ UNCHANGED <<files, created, table, seen, retry, attempts, told>>

\* O_CREAT|O_EXCL fails when another process was faster.
Create(p) ==
  /\ pc[p] = "create"
  /\ IF name # NoInode
     THEN Again(p) /\ UNCHANGED files
     ELSE /\ NewFile
          /\ fd' = [fd EXCEPT ![p] = name']
          /\ created' = [created EXCEPT ![p] = TRUE]
          /\ Goto(p, "schema")
          /\ UNCHANGED <<table, seen, retry, attempts, told>>

WriteSchema(p) ==
  /\ pc[p] = "schema"
  /\ disk' = [disk EXCEPT ![fd[p]].state = "schema"]
  /\ Goto(p, "metadata")
  /\ UNCHANGED <<root, name, table, seen>> /\ Stay

\* The metadata rows commit, and the file can be adopted from here on.
WriteMetadata(p) ==
  /\ pc[p] = "metadata"
  /\ disk' = [disk EXCEPT ![fd[p]].state = "ready"]
  /\ StartPass(p, "self")
  /\ UNCHANGED <<root, name>> /\ Stay

\* An SQLite or system error during creation, which the loop does not retry.
Fault(p) ==
  /\ pc[p] \in {"schema", "metadata", "self"}
  /\ retry' = [retry EXCEPT ![p] = FALSE]
  /\ Goto(p, "cleanup")
  /\ UNCHANGED <<files, fd, created, table, seen, attempts, told>>

\* The cleanup unlinks by name, after a check that the name is still its own.
Cleanup(p) ==
  /\ pc[p] = "cleanup"
  /\ IF Live(p)
     THEN /\ Goto(p, "unlink")
          /\ UNCHANGED <<table, seen>> /\ Stay
     ELSE IF retry[p] THEN Again(p) ELSE Raise(p, "error")
  /\ UNCHANGED files

Unlink(p) ==
  /\ pc[p] = "unlink"
  /\ name' = NoInode
  /\ IF retry[p] THEN Again(p) ELSE Raise(p, "error")
  /\ UNCHANGED <<root, disk>>

-----------------------------------------------------------------------------
(* Adopting and verifying.                                                 *)

\* mutant: the path is connected to without asking what it links to now
ConnectUnchecked(p) ==
  /\ pc[p] = "opened"
  /\ StartPass(p, "open")
  /\ Stay
  /\ UNCHANGED files

\* The read-only connection of the first pass.
ConnectFirst(p) ==
  /\ pc[p] = "opened"
  /\ IF Live(p) THEN StartPass(p, "first") /\ Stay ELSE NotLive(p)
  /\ UNCHANGED files

\* Schema, metadata and then table records; a file its creator has not
\* finished is refused.
ScanRecords(p) ==
  /\ pc[p] \in Passes
  /\ table[p] = "records"
  /\ IF disk[fd[p]].state = "ready"
     THEN /\ seen' = [seen EXCEPT ![p] = disk[fd[p]].genesis]
          /\ table' = [table EXCEPT ![p] = "log"]
          /\ UNCHANGED pc /\ Stay
     ELSE FailOpen(p)
  /\ UNCHANGED files

\* Table audit_events: a genesis committed since table records is a mismatch.
ScanLog(p) ==
  /\ pc[p] \in Passes
  /\ table[p] = "log"
  /\ IF seen[p] # disk[fd[p]].genesis THEN FailOpen(p)
     ELSE IF pc[p] = "first" THEN StartPass(p, "reconnect") /\ Stay
     ELSE IF Live(p) THEN StartPass(p, "open") /\ Stay
     ELSE IF created[p] THEN FailOpen(p) ELSE NotLive(p)
  /\ UNCHANGED files

\* _connect for writing, for the second pass of an open or for the readback
\* of a commit: a check, sqlite3.connect by path, and the check again. Only
\* the failure of an open is retried.
ConnectFails(p) ==
  IF pc[p] \in {"reconnect", "connecting"} THEN NotLive(p) ELSE Raise(p, "error")

Reconnect(p) ==
  /\ pc[p] \in {"reconnect", "readback"}
  /\ IF Live(p)
     THEN /\ StartPass(p, IF pc[p] = "reconnect" THEN "connecting" ELSE "confirming")
          /\ Stay
     ELSE ConnectFails(p)
  /\ UNCHANGED files

\* sqlite3.connect creates a file where the name is absent, and the pinned one
\* is seen to have lost its link; the name may also go after it.
Connect(p) ==
  /\ pc[p] \in {"connecting", "confirming"}
  /\ \/ /\ Live(p)
        /\ IF pc[p] = "connecting"
           THEN StartPass(p, "second") /\ Stay
           ELSE Receive(p)
        /\ UNCHANGED files
     \/ /\ name = NoInode
        /\ NewFile
        /\ IF pc[p] = "connecting" THEN Again(p) ELSE Raise(p, "error")
     \/ /\ ~Live(p)
        /\ ConnectFails(p)
        /\ UNCHANGED files

-----------------------------------------------------------------------------
(* The genesis.                                                            *)

\* mutant: whatever genesis is there is reported as the caller's own
ReconcileAny(p) == Receive(p)

\* _reconcile_existing: success only for the intent that is there.
Reconcile(p) ==
  IF IntentOf[disk[fd[p]].genesis] = IntentOf[p]
  THEN Receive(p)
  ELSE Raise(p, "already")

ReadHead(p) ==
  /\ pc[p] = "open"
  /\ IF disk[fd[p]].genesis # NoProcess
     THEN Reconcile(p)
     ELSE /\ Goto(p, "commit")
          /\ UNCHANGED <<table, seen>> /\ Stay
  /\ UNCHANGED files

\* The compare-and-swap of the head from absent to the genesis.
Commit(p) ==
  /\ pc[p] = "commit"
  /\ \/ /\ ~Live(p)
        /\ Raise(p, "error")
        /\ UNCHANGED files
     \/ /\ Live(p)
        /\ disk[fd[p]].genesis # NoProcess
        /\ Reconcile(p)
        /\ UNCHANGED files
     \/ /\ Live(p)
        /\ disk[fd[p]].genesis = NoProcess
        /\ disk' = [disk EXCEPT ![fd[p]].genesis = p]
        /\ StartPass(p, "readback")
        /\ UNCHANGED <<root, name>> /\ Stay

\* The process dies and its caller runs initialize again in a new one.
Crash(p) ==
  /\ pc[p] \notin {"root", "done"}
  /\ crashes < MaxCrashes
  /\ crashes' = crashes + 1
  /\ Drop(p, "root")
  /\ attempts' = [attempts EXCEPT ![p] = 0]
  /\ lost' = [lost EXCEPT ![p] = 0]
  /\ reached' = [reached EXCEPT ![p] = 0]
  /\ UNCHANGED <<depth, name, disk, answer, receipts>>

\* A caller whose open was refused calls initialize again.
Restart(p) ==
  /\ pc[p] = "done"
  /\ answer[p] = "refused"
  /\ Goto(p, "root")
  /\ attempts' = [attempts EXCEPT ![p] = 0]
  /\ lost' = [lost EXCEPT ![p] = 0]
  /\ answer' = [answer EXCEPT ![p] = "none"]
  /\ UNCHANGED <<depth, reached, name, disk, fd, created, table, seen, retry>>
  /\ UNCHANGED <<receipts, crashes>>

Step(p) ==
  \/ OpenRoot(p) \/ MakeComponent(p)
  \/ Lookup(p) \/ Create(p) \/ WriteSchema(p) \/ WriteMetadata(p)
  \/ Fault(p) \/ Cleanup(p) \/ Unlink(p)
  \/ ConnectFirst(p) \/ ScanRecords(p) \/ ScanLog(p)
  \/ Reconnect(p) \/ Connect(p)
  \/ ReadHead(p) \/ Commit(p)

Next == \E p \in Process : Step(p) \/ Restart(p) \/ Crash(p)

Spec == Init /\ [][Next]_vars

\* Every step is a bounded file operation or SQLite statement, and callers do
\* not give up.
FairSpec ==
  Spec /\ \A p \in Process : WF_vars(Step(p)) /\ WF_vars(Restart(p))
-----------------------------------------------------------------------------
(* Properties.                                                             *)

\* Every variable keeps its type.
TypeOK ==
  /\ depth \in 0..RootDepth
  /\ reached \in [Process -> 0..RootDepth]
  /\ lost \in [Process -> 0..MaxAttempts]
  /\ name \in Inode \cup {NoInode}
  /\ disk \in [Inode -> [state : Stage, genesis : Process \cup {NoProcess}]]
  /\ pc \in [Process -> Places]
  /\ fd \in [Process -> Inode \cup {NoInode}]
  /\ created \in [Process -> BOOLEAN]
  /\ table \in [Process -> {"records", "log"}]
  /\ seen \in [Process -> Process \cup {NoProcess}]
  /\ retry \in [Process -> BOOLEAN]
  /\ attempts \in [Process -> 0..(MaxAttempts - 1)]
  /\ answer \in [Process -> {"none", "receipt", "already", "refused", "error"}]
  /\ receipts \subseteq [by : Process, genesis : Process, inode : Inode]
  /\ crashes \in 0..MaxCrashes

\* Whoever else makes the directories of the state root at the same time, a call
\* loses at most one attempt for each of them: while more attempts than missing
\* directories are allowed, none is refused over the state root.
RootLossesBounded == \A p \in Process : lost[p] <= RootDepth

\* No call gets to the head of a file that is still being created: whoever
\* has opened it, its schema and its identity are complete.
OpenIsComplete ==
  \A p \in Process : pc[p] \in Open => disk[fd[p]].state = "ready"

\* A genesis is never replaced inside a file, and success is only reported to
\* a call whose intent is the committed one.
ReceiptsAgree ==
  \A r \in receipts :
    /\ disk[r.inode].genesis = r.genesis
    /\ IntentOf[r.by] = IntentOf[r.genesis]

\* The name is only ever removed by the process that created the file it
\* links to, whatever happened between its check and its unlink.
UnlinksOwnCreation ==
  [][name # NoInode /\ name' # name =>
       /\ name' = NoInode
       /\ \E p \in Process : created[p] /\ fd[p] = name /\ pc[p] = "unlink"]_vars

\* Concurrent initialization has one winner, whose genesis stays: the file a
\* receipt was given for is the one the name links to.
GenesisKept == \A r \in receipts : name = r.inode

\* A file that is still being created is completed or removed, whatever
\* interrupts its creator.
CreationRecovers ==
  (name # NoInode /\ disk[name].state # "ready")
    ~> (name = NoInode \/ disk[name].state = "ready")
=============================================================================

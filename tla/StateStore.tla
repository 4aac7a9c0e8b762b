----------------------------- MODULE StateStore -----------------------------
(***************************************************************************)
(* SQLiteStateStore handles on one existing database: opening with full    *)
(* verification, commit_many under BEGIN IMMEDIATE, the COMMIT through the *)
(* rollback journal, the readback on a second connection, closing, and the *)
(* death of a whole operating-system process at any of these points.       *)
(*                                                                         *)
(* SQLite (journal_mode DELETE, synchronous FULL) and POSIX advisory locks *)
(* are external: they appear as the database pages, the -journal file, the *)
(* RESERVED lock and what a close() does to the locks of its process.      *)
(* Every SELECT outside BEGIN IMMEDIATE reads the committed image of its   *)
(* own instant: _verify_state is a sequence of such reads.                 *)
(***************************************************************************)
EXTENDS AuditLog, FiniteSets

CONSTANTS
  Handle,     \* SQLiteStateStore objects
  Process,    \* operating-system processes
  ProcessOf,  \* which process a handle lives in
  NoHandle,
  NoTx,
  MaxCalls    \* bound: commit_many calls in a behaviour

ASSUME HandleAssumption ==
  /\ ProcessOf \in [Handle -> Process]
  /\ NoHandle \notin Handle
  /\ NoTx \notin Tx
  /\ MaxCalls \in Nat

VARIABLES
  pages,      \* what the database file holds
  journal,    \* -journal: none, cold (not yet synced, ignored) or hot
  rollback,   \* the image a hot journal restores
  lock,       \* the handle whose connection owns the RESERVED lock
  pc,         \* where each handle is
  mode,       \* ro or rw
  scan,       \* next table its verification pass reads
  view,       \* what that pass has read so far
  seen,       \* heads its caller has read
  tx,         \* the transaction in progress
  base,       \* the image its write transaction works on
  answer,     \* what its last commit_many told its caller
  receipts,   \* history: every receipt ever returned
  calls       \* history: commit_many calls so far

file == <<pages, journal, rollback, lock>>
call == <<seen, tx, base, answer>>
pass == <<scan, view>>
vars == <<file, pc, mode, pass, call, receipts, calls>>

ScanStage == {"records", "locals", "log", "heads", "done"}
After == [s \in ScanStage \ {"done"} |->
            CASE s = "records" -> "locals" [] s = "locals" -> "log"
              [] s = "log" -> "heads"      [] s = "heads" -> "done"]

Verifying == {"open_check", "open_recheck", "readback"}
Calling   == {"called", "locked", "writing", "committing", "readback"}

-----------------------------------------------------------------------------
(* SQLite and the operating system (external).                             *)

\* No connection holds RESERVED, so a reader takes the journal for hot.
Hot == journal = "hot" /\ lock = NoHandle

\* What a connection reads: the file, with a hot journal played back first.
Content == IF Hot THEN rollback ELSE pages

\* The image of the last committed transaction.
Durable == IF journal = "hot" THEN rollback ELSE pages

\* A COMMIT holds the EXCLUSIVE lock; others wait for the busy timeout.
ExclusiveIgnored == FALSE \* mutant: readers open the file as immutable
Exclusive == lock # NoHandle /\ pc[lock] = "committing"

\* A hot journal is played back by the first connection that may write.
PlayBack ==
  /\ pages' = rollback
  /\ rollback' = EmptyImage
  /\ journal' = "none"

ReadPages ==
  IF Hot THEN PlayBack ELSE UNCHANGED <<pages, journal, rollback>>

\* What a COMMIT interrupted while it overwrites the file may leave there.
Mixed(old, new) ==
  [records : {old.records, new.records}, locals : {old.locals, new.locals},
   log : {old.log, new.log}, heads : {old.heads, new.heads}]

\* POSIX drops every lock a process holds on a file when the process closes
\* any descriptor of that file, here SQLiteStateStore._database_fd.
DropLocksOf(p) ==
  lock' = IF lock # NoHandle /\ ProcessOf[lock] = p THEN NoHandle ELSE lock

-----------------------------------------------------------------------------
Init ==
  /\ pages = EmptyImage
  /\ journal = "none"
  /\ rollback = EmptyImage
  /\ lock = NoHandle
  /\ pc = [h \in Handle |-> "closed"]
  /\ mode = [h \in Handle |-> "rw"]
  /\ scan = [h \in Handle |-> "done"]
  /\ view = [h \in Handle |-> EmptyImage]
  /\ seen = [h \in Handle |-> EmptyImage.heads]
  /\ tx = [h \in Handle |-> NoTx]
  /\ base = [h \in Handle |-> EmptyImage]
  /\ answer = [h \in Handle |-> "none"]
  /\ receipts = {}
  /\ calls = 0

\* A verification pass starts: its first SELECT comes next.
StartPass(h, at) ==
  /\ pc' = [pc EXCEPT ![h] = at]
  /\ scan' = [scan EXCEPT ![h] = "records"]
  /\ view' = [view EXCEPT ![h] = EmptyImage]

EndPass(h, at) ==
  /\ pc' = [pc EXCEPT ![h] = at]
  /\ scan' = [scan EXCEPT ![h] = "done"]
  /\ view' = [view EXCEPT ![h] = EmptyImage]

\* The handle is gone: its call is forgotten and its descriptor closed.
Forget(H) ==
  /\ pc' = [h \in Handle |-> IF h \in H THEN "closed" ELSE pc[h]]
  /\ scan' = [h \in Handle |-> IF h \in H THEN "done" ELSE scan[h]]
  /\ view' = [h \in Handle |-> IF h \in H THEN EmptyImage ELSE view[h]]
  /\ seen' = [h \in Handle |-> IF h \in H THEN EmptyImage.heads ELSE seen[h]]
  /\ tx' = [h \in Handle |-> IF h \in H THEN NoTx ELSE tx[h]]
  /\ base' = [h \in Handle |-> IF h \in H THEN EmptyImage ELSE base[h]]
  /\ answer' = [h \in Handle |-> IF h \in H THEN "none" ELSE answer[h]]
  /\ UNCHANGED <<mode, receipts, calls>>

-----------------------------------------------------------------------------
(* Opening and closing.                                                    *)

\* A read-only handle refuses any sidecar; closing the descriptor it had
\* opened drops the locks of its process.
Open(h, m) ==
  /\ pc[h] = "closed"
  /\ mode' = [mode EXCEPT ![h] = m]
  /\ IF m = "ro" /\ journal # "none"
     THEN DropLocksOf(ProcessOf[h]) /\ UNCHANGED <<pc, pass>>
     ELSE StartPass(h, "open_check") /\ UNCHANGED lock
  /\ UNCHANGED <<pages, journal, rollback, call, receipts, calls>>

\* The first pass of an open runs on a read-only connection in both modes.
WritableConnection(h) ==
  pc[h] \in {"open_recheck", "readback"} \/ (pc[h] = "ready" /\ mode[h] = "rw")

\* One SELECT of _verify_state.
Scan(h) ==
  /\ pc[h] \in Verifying
  /\ scan[h] # "done"
  /\ ~Exclusive
  /\ Hot => WritableConnection(h)
  /\ ReadPages
  /\ view' = [view EXCEPT ![h][scan[h]] = Content[scan[h]]]
  /\ scan' = [scan EXCEPT ![h] = After[@]]
  /\ UNCHANGED <<lock, pc, mode, call, receipts, calls>>

\* The SELECT cannot be served: the busy timeout of 5 s ran out, or a
\* read-only connection met a hot journal, which it cannot play back.
ScanImpossible(h) ==
  /\ pc[h] \in Verifying
  /\ scan[h] # "done" \/ pc[h] = "readback"
  /\ Exclusive \/ (Hot /\ ~WritableConnection(h))

\* The open fails (StoreIntegrityError) and closes its descriptor.
FailOpen(h) ==
  /\ pc[h] \in {"open_check", "open_recheck"}
  /\ \/ ScanImpossible(h)
     \/ scan[h] = "done" /\ ~Verified(view[h])
     \/ scan[h] = "done" /\ mode[h] = "ro" /\ journal # "none"
  /\ Forget({h})
  /\ DropLocksOf(ProcessOf[h])
  /\ UNCHANGED <<pages, journal, rollback>>

\* A verified read-only open is done; a writable one connects again and
\* verifies again on the new connection.
PassOpen(h) ==
  /\ pc[h] \in {"open_check", "open_recheck"}
  /\ scan[h] = "done"
  /\ Verified(view[h])
  /\ IF mode[h] = "ro"
     THEN journal = "none" /\ EndPass(h, "ready")
     ELSE IF pc[h] = "open_check" THEN StartPass(h, "open_recheck")
          ELSE EndPass(h, "ready")
  /\ UNCHANGED <<file, mode, call, receipts, calls>>

Close(h) ==
  /\ pc[h] = "ready"
  /\ Forget({h})
  /\ DropLocksOf(ProcessOf[h])
  /\ UNCHANGED <<pages, journal, rollback>>

-----------------------------------------------------------------------------
(* Reading a head and committing.                                          *)

ReadHead(h, n) ==
  /\ pc[h] = "ready"
  /\ ~Exclusive
  /\ Hot => WritableConnection(h)
  /\ ReadPages
  /\ seen' = [seen EXCEPT ![h][n] = Content.heads[n]]
  /\ UNCHANGED <<lock, pc, mode, pass, tx, base, answer, receipts, calls>>

\* commit_many is called, with the heads the caller has read as expected.
Call(h, r) ==
  /\ pc[h] = "ready"
  /\ mode[h] = "rw"
  /\ calls < MaxCalls
  /\ calls' = calls + 1
  /\ pc' = [pc EXCEPT ![h] = "called"]
  /\ tx' = [tx EXCEPT ![h] =
       [request  |-> r,
        expected |-> [n \in HeadName |-> IF n \in DOMAIN r.news
                                         THEN seen[h][n] ELSE NoHead]]]
  /\ answer' = [answer EXCEPT ![h] = "none"]
  /\ UNCHANGED <<file, mode, pass, seen, base, receipts>>

\* mutant: a deferred BEGIN, which takes no lock
BeginDeferred(h) ==
  /\ pc[h] = "called"
  /\ lock = NoHandle
  /\ ReadPages
  /\ base' = [base EXCEPT ![h] = Content]
  /\ pc' = [pc EXCEPT ![h] = "locked"]
  /\ UNCHANGED <<lock, mode, pass, seen, tx, answer, receipts, calls>>

\* BEGIN IMMEDIATE takes RESERVED, after playing back a hot journal.
Begin(h) ==
  /\ pc[h] = "called"
  /\ lock = NoHandle
  /\ ReadPages
  /\ lock' = h
  /\ base' = [base EXCEPT ![h] = Content]
  /\ pc' = [pc EXCEPT ![h] = "locked"]
  /\ UNCHANGED <<mode, pass, seen, tx, answer, receipts, calls>>

Release(h) == lock' = IF lock = h THEN NoHandle ELSE lock

\* commit_many returns or raises; the handle can be used again.
Return(h, a) ==
  /\ EndPass(h, "ready")
  /\ tx' = [tx EXCEPT ![h] = NoTx]
  /\ base' = [base EXCEPT ![h] = EmptyImage]
  /\ answer' = [answer EXCEPT ![h] = a]
  /\ UNCHANGED <<mode, seen, calls>>

\* BEGIN IMMEDIATE gives up after the busy timeout.
Busy(h) ==
  /\ pc[h] = "called"
  /\ lock # NoHandle
  /\ Return(h, "failed")
  /\ UNCHANGED <<file, receipts>>

\* The verification inside the transaction fails, or the transaction is
\* refused: ROLLBACK and an exception.
Refuse(h) ==
  /\ pc[h] = "locked"
  /\ \/ ~Verified(base[h]) /\ Return(h, "integrity")
     \/ /\ Verified(base[h])
        /\ Decision(base[h], tx[h]) \in {"validation", "conflict", "integrity"}
        /\ Return(h, Decision(base[h], tx[h]))
  /\ Release(h)
  /\ UNCHANGED <<pages, journal, rollback, receipts>>

\* mutant: the receipt is returned without the ROLLBACK before it
RepeatInTransaction(h) ==
  /\ pc[h] = "locked"
  /\ Verified(base[h])
  /\ Decision(base[h], tx[h]) = "repeat"
  /\ receipts' = receipts \cup
       {[tx |-> tx[h], seq |-> i] : i \in RepeatsAt(base[h], tx[h])}
  /\ Return(h, "receipt")
  /\ UNCHANGED file

\* The transaction is an exact retry of one whose heads are still current.
Repeat(h) ==
  /\ pc[h] = "locked"
  /\ Verified(base[h])
  /\ Decision(base[h], tx[h]) = "repeat"
  /\ receipts' = receipts \cup
       {[tx |-> tx[h], seq |-> i] : i \in RepeatsAt(base[h], tx[h])}
  /\ Return(h, "receipt")
  /\ Release(h)
  /\ UNCHANGED <<pages, journal, rollback>>

\* mutant: the checks run in a transaction of their own
InsertUnlocked(h) ==
  /\ pc[h] = "locked"
  /\ Verified(base[h])
  /\ Decision(base[h], tx[h]) = "append"
  /\ journal' = "cold"
  /\ lock' = NoHandle
  /\ pc' = [pc EXCEPT ![h] = "writing"]
  /\ UNCHANGED <<pages, rollback, mode, pass, call, receipts, calls>>

\* The inserts, the audit event and the head upserts: in the page cache of
\* this connection, with the original pages in an unsynced journal.
Insert(h) ==
  /\ pc[h] = "locked"
  /\ Verified(base[h])
  /\ Decision(base[h], tx[h]) = "append"
  /\ journal' = "cold"
  /\ pc' = [pc EXCEPT ![h] = "writing"]
  /\ UNCHANGED <<pages, rollback, lock, mode, pass, call, receipts, calls>>

\* COMMIT syncs the journal, then starts to overwrite the database file.
StartCommit(h) ==
  /\ pc[h] = "writing"
  /\ lock \in {h, NoHandle}
  /\ IF journal = "cold"
     THEN journal' = "hot" /\ rollback' = base[h]
     ELSE UNCHANGED <<journal, rollback>>
  /\ pages' \in Mixed(base[h], AppendTx(base[h], tx[h]))
  /\ pc' = [pc EXCEPT ![h] = "committing"]
  /\ UNCHANGED <<lock, mode, pass, call, receipts, calls>>

\* COMMIT ends by deleting the journal: the transaction is durable. If the
\* name is gone already, the deletion is an I/O error and nothing rolls back.
FinishCommit(h) ==
  /\ pc[h] = "committing"
  /\ lock \in {h, NoHandle}
  /\ pages' = AppendTx(base[h], tx[h])
  /\ journal' = "none"
  /\ rollback' = EmptyImage
  /\ Release(h)
  /\ IF journal = "none"
     THEN Return(h, "failed")
     ELSE /\ StartPass(h, "readback")
          /\ UNCHANGED <<mode, call, calls>>
  /\ UNCHANGED receipts

\* A statement, an injected fault or the COMMIT itself fails: ROLLBACK.
Fail(h) ==
  /\ pc[h] \in {"locked", "writing", "committing"}
  /\ IF pc[h] = "locked"
     THEN UNCHANGED <<pages, journal, rollback>>
     ELSE /\ pages' = Durable
          /\ journal' = "none"
          /\ rollback' = EmptyImage
  /\ Release(h)
  /\ Return(h, "failed")
  /\ UNCHANGED receipts

-----------------------------------------------------------------------------
(* _reconcile_committed: the receipt is returned only when a new           *)
(* connection verifies the store and finds this commit as its audit head.  *)

Readback(h) ==
  LET wanted == AppendTx(base[h], tx[h])
  IN  /\ scan[h] = "done"
      /\ Verified(view[h])
      /\ view[h].log = wanted.log
      /\ \A n \in DOMAIN tx[h].request.news : Content.heads[n] = wanted.heads[n]
      /\ tx[h].request.records \subseteq Content.records

Confirm(h) ==
  /\ pc[h] = "readback"
  /\ ~Exclusive
  /\ Readback(h)
  /\ ReadPages
  /\ receipts' = receipts \cup {[tx |-> tx[h], seq |-> Len(base[h].log) + 1]}
  /\ Return(h, "receipt")
  /\ UNCHANGED lock

\* mutant: the readback waits until its own event is the audit head
UnconfirmedWaits(h) == FALSE

\* The transaction is committed and its caller gets a StoreIntegrityError.
Unconfirmed(h) ==
  /\ pc[h] = "readback"
  /\ scan[h] = "done"
  /\ ~Exclusive
  /\ ~Readback(h)
  /\ Return(h, "unconfirmed")
  /\ UNCHANGED <<file, receipts>>

\* The same, because the readback waited in vain for another COMMIT.
Unserved(h) ==
  /\ pc[h] = "readback"
  /\ ScanImpossible(h)
  /\ Return(h, "unserved")
  /\ UNCHANGED <<file, receipts>>

-----------------------------------------------------------------------------
\* A process dies: its locks vanish, its journal and the pages stay.
Crash(p) ==
  /\ \E h \in Handle : ProcessOf[h] = p /\ pc[h] # "closed"
  /\ Forget({h \in Handle : ProcessOf[h] = p})
  /\ DropLocksOf(p)
  /\ UNCHANGED <<pages, journal, rollback>>

\* The steps a handle takes by itself once it was asked for something.
Step(h) ==
  \/ Scan(h) \/ FailOpen(h) \/ PassOpen(h)
  \/ Begin(h) \/ Busy(h) \/ Refuse(h) \/ Repeat(h) \/ Insert(h)
  \/ StartCommit(h) \/ FinishCommit(h) \/ Fail(h)
  \/ Confirm(h) \/ Unconfirmed(h) \/ Unserved(h)

Next ==
  \/ \E h \in Handle :
       \/ \E m \in {"ro", "rw"} : Open(h, m)
       \/ Close(h)
       \/ \E n \in HeadName : ReadHead(h, n)
       \/ \E r \in Request : Call(h, r)
       \/ Step(h)
  \/ \E p \in Process : Crash(p)

Spec == Init /\ [][Next]_vars

\* Every local step ends (statements, file operations and the 5 s busy
\* timeout of sqlite3.connect are bounded), so a handle is never stuck in one.
FairSpec == Spec /\ \A h \in Handle : WF_vars(Step(h))

\* Callers that keep coming back open the store again and again.
ReopeningSpec == FairSpec /\ \A h \in Handle : WF_vars(Open(h, "rw"))
-----------------------------------------------------------------------------
(* Properties.                                                             *)

\* No process opens the database twice at the same time. The code neither
\* documents nor enforces it; the theorems need it (see HistoryOnlyGrows).
SingleHandle ==
  \A g, h \in Handle : ProcessOf[g] = ProcessOf[h] => g = h

\* Every variable keeps its type.
TypeOK ==
  /\ pages \in Image /\ rollback \in Image
  /\ journal \in {"none", "cold", "hot"}
  /\ lock \in Handle \cup {NoHandle}
  /\ pc \in [Handle -> {"closed", "ready"} \cup Verifying \cup Calling]
  /\ mode \in [Handle -> {"ro", "rw"}]
  /\ scan \in [Handle -> ScanStage]
  /\ view \in [Handle -> Image]
  /\ seen \in [Handle -> Heads]
  /\ tx \in [Handle -> Tx \cup {NoTx}]
  /\ base \in [Handle -> Image]
  /\ answer \in [Handle -> {"none", "receipt", "conflict", "validation",
                            "integrity", "failed", "unconfirmed", "unserved"}]
  /\ receipts \subseteq [tx : Tx, seq : Nat \ {0}]
  /\ calls \in Nat

\* Whatever handles do and wherever a process dies, the committed image
\* replays: heads, records and local values are exactly what the log says, so
\* no store produced by commit_many is ever refused by _verify_state.
StoreVerifies == Verified(Durable)

\* A transaction signature is in the log at most once: an exact retry after a
\* lost answer, or the same call from two processes, never appends twice.
NoDuplicateTransaction ==
  \A i, j \in DOMAIN Durable.log : Durable.log[i].tx = Durable.log[j].tx => i = j

\* A receipt once returned stays true: its transaction is in the committed
\* log at the sequence it names, across later commits, rollbacks and crashes.
ReceiptsDurable ==
  \A r \in receipts :
    /\ r.seq \in DOMAIN Durable.log
    /\ Durable.log[r.seq].tx = r.tx

\* The handle between BEGIN IMMEDIATE and COMMIT holds the lock alone, and
\* the image it verified and compared heads with is still the committed one.
WriterIsolated ==
  \A h \in Handle : pc[h] \in {"locked", "writing", "committing"} =>
    lock = h /\ base[h] = Durable

\* No cyclic wait: whoever holds RESERVED or EXCLUSIVE is between BEGIN IMMEDIATE
\* and the end of its transaction, where it waits for no other writer, on every
\* way out of commit_many. So no BEGIN and no SELECT waits for a handle that
\* waits itself, least of all a readback for the first connection of its handle.
HolderNeverWaits ==
  lock # NoHandle => pc[lock] \in {"locked", "writing", "committing"}

\* Nobody reads what is not committed: neither a verification pass nor the
\* heads a caller will expect come from a transaction that may roll back.
NoDirtyRead ==
  \A h \in Handle :
    /\ Keeps(Durable.log, view[h].log)
    /\ view[h].records \subseteq Durable.records
    /\ \A n \in HeadName : seen[h][n] # NoHead =>
         /\ seen[h][n].seq \in DOMAIN Durable.log
         /\ n \in DOMAIN Durable.log[seen[h][n].seq].tx.request.news
         /\ Durable.log[seen[h][n].seq].tx.request.news[n] = seen[h][n].record

\* The committed log is append-only: no step, crash or recovery removes or
\* rewrites an event of it.
HistoryOnlyGrows == [][Keeps(Durable'.log, Durable.log)]_vars

\* The handles implement the atomic store: a transaction takes effect when
\* its COMMIT deletes the journal, and at no other step.
Abstract == INSTANCE AtomicStore WITH
  history <- [i \in DOMAIN Durable.log |-> Durable.log[i].tx],
  phase   <- [h \in Handle |-> IF pc[h] \notin Calling THEN "idle"
                               ELSE IF pc[h] = "readback" THEN "done"
                               ELSE "pending"],
  answer  <- [h \in Handle |-> IF answer[h] \in {"none", "receipt", "conflict"}
                               THEN answer[h] ELSE "failed"]

ImplementsAtomicStore == Abstract!Spec

\* Every commit_many call ends: with an answer, or with its process.
CallsEnd == \A h \in Handle : pc[h] \in Calling ~> pc[h] \notin Calling

\* Crash recovery yields the complete prior or the complete new transaction:
\* a process death inside COMMIT is undone by a later open of the store.
CrashRecovers == journal = "hot" ~> journal # "hot"

\* A call whose transaction is committed, in a store nobody damaged, answers
\* with its receipt.
CommittedIsAnswered == \A h \in Handle : answer[h] # "unconfirmed"
=============================================================================

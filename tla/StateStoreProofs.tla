-------------------------- MODULE StateStoreProofs --------------------------
(***************************************************************************)
(* StateStore keeps its type, and as long as no process opens the database *)
(* twice, its safety invariants hold for any number of handles, processes, *)
(* requests and calls.                                                     *)
(***************************************************************************)
EXTENDS StateStore, AuditLogProofs

-----------------------------------------------------------------------------
(* Type correctness.                                                       *)

Answers == {"none", "receipt", "conflict", "validation", "integrity",
            "failed", "unconfirmed", "unserved"}

\* TypeOK is not inductive: what a COMMIT writes has the type of an image only
\* because a handle inside commit_many has a transaction.
TypeInv ==
  /\ TypeOK
  /\ \A h \in Handle : pc[h] \in Calling => tx[h] \in Tx

LEMMA DurableTyped == TypeOK => Durable \in Image /\ Content \in Image
BY DEF TypeOK, Durable, Content

LEMMA ImageField ==
  ASSUME NEW d \in Image, NEW e \in Image, NEW s \in ScanStage \ {"done"}
  PROVE  [d EXCEPT ![s] = e[s]] \in Image
<1>1. CASE s = "records"
  BY <1>1 DEF Image
<1>2. CASE s = "locals"
  BY <1>2 DEF Image
<1>3. CASE s = "log"
  BY <1>3 DEF Image
<1>4. CASE s = "heads"
  BY <1>4 DEF Image
<1> QED
  BY <1>1, <1>2, <1>3, <1>4 DEF ScanStage

LEMMA MixedTyped ==
  ASSUME NEW old \in Image, NEW new \in Image
  PROVE  Mixed(old, new) \subseteq Image
BY DEF Mixed, Image

LEMMA ReadPagesTyped ==
  ASSUME TypeOK, ReadPages
  PROVE  /\ pages' \in Image /\ rollback' \in Image
         /\ journal' \in {"none", "cold", "hot"}
BY DurableTyped, EmptyVerified DEF TypeOK, ReadPages, PlayBack

LEMMA PassTyped ==
  ASSUME TypeOK, NEW h \in Handle, NEW at,
         at \in {"closed", "ready"} \cup Verifying \cup Calling,
         StartPass(h, at) \/ EndPass(h, at)
  PROVE  /\ pc' \in [Handle -> {"closed", "ready"} \cup Verifying \cup Calling]
         /\ scan' \in [Handle -> ScanStage]
         /\ view' \in [Handle -> Image]
BY EmptyVerified DEF TypeOK, StartPass, EndPass, ScanStage

LEMMA ReturnTyped ==
  ASSUME TypeInv, NEW h \in Handle, NEW a \in Answers, Return(h, a),
         pages' \in Image, rollback' \in Image,
         journal' \in {"none", "cold", "hot"},
         lock' \in Handle \cup {NoHandle},
         receipts' \subseteq [tx : Tx, seq : Nat \ {0}]
  PROVE  TypeInv'
<1>1. EndPass(h, "ready")
  BY DEF Return
<1>2. /\ pc' \in [Handle -> {"closed", "ready"} \cup Verifying \cup Calling]
      /\ scan' \in [Handle -> ScanStage]
      /\ view' \in [Handle -> Image]
  BY <1>1, PassTyped DEF TypeInv
<1>3. TypeOK'
  BY <1>2, EmptyVerified DEF TypeInv, TypeOK, Return, Answers
<1>4. \A g \in Handle : pc'[g] \in Calling => tx'[g] \in Tx
  BY <1>1 DEF TypeInv, TypeOK, Return, EndPass, Calling
<1> QED
  BY <1>3, <1>4 DEF TypeInv

LEMMA ForgetTyped ==
  ASSUME TypeInv, NEW H \in SUBSET Handle, Forget(H),
         UNCHANGED <<pages, journal, rollback>>,
         lock' \in Handle \cup {NoHandle}
  PROVE  TypeInv'
<1>1. /\ pc' \in [Handle -> {"closed", "ready"} \cup Verifying \cup Calling]
      /\ scan' \in [Handle -> ScanStage]
      /\ view' \in [Handle -> Image]
      /\ seen' \in [Handle -> Heads]
      /\ tx' \in [Handle -> Tx \cup {NoTx}]
      /\ base' \in [Handle -> Image]
      /\ answer' \in [Handle -> Answers]
  BY EmptyVerified DEF TypeInv, TypeOK, Forget, ScanStage, Answers, EmptyImage, Heads
<1>2. TypeOK'
  BY <1>1 DEF TypeInv, TypeOK, Forget, Answers
<1>3. \A g \in Handle : pc'[g] \in Calling => tx'[g] \in Tx
  BY DEF TypeInv, TypeOK, Forget, Calling
<1> QED
  BY <1>2, <1>3 DEF TypeInv

LEMMA TypeInit == Init => TypeInv
<1> SUFFICES ASSUME Init PROVE TypeInv
  OBVIOUS
<1>1. EmptyImage \in Image /\ EmptyImage.heads \in Heads
  BY EmptyVerified DEF Image
<1>2. TypeOK
  BY <1>1, HandleAssumption DEF Init, TypeOK, ScanStage
<1>3. \A h \in Handle : pc[h] \notin Calling
  BY DEF Init, Calling
<1> QED
  BY <1>2, <1>3 DEF TypeInv

LEMMA TypeStep == TypeInv /\ [Next]_vars => TypeInv'
<1> SUFFICES ASSUME TypeInv, [Next]_vars PROVE TypeInv'
  OBVIOUS
<1> USE DEF TypeInv
<1>0. Content \in Image /\ EmptyImage \in Image /\ Durable \in Image
  BY DurableTyped, EmptyVerified
<1>1. ASSUME NEW h \in Handle, NEW m \in {"ro", "rw"}, Open(h, m) PROVE TypeInv'
  <2>1. CASE m = "ro" /\ journal # "none"
    BY <1>1, <2>1 DEF Open, DropLocksOf, TypeOK, pass, call
  <2>2. CASE ~(m = "ro" /\ journal # "none")
    <3>1. StartPass(h, "open_check") /\ UNCHANGED <<pages, journal, rollback, lock, call, receipts, calls>>
      BY <1>1, <2>2 DEF Open
    <3>2. /\ pc' \in [Handle -> {"closed", "ready"} \cup Verifying \cup Calling]
          /\ scan' \in [Handle -> ScanStage]
          /\ view' \in [Handle -> Image]
      BY <3>1, PassTyped DEF Verifying
    <3>3. mode' \in [Handle -> {"ro", "rw"}]
      BY <1>1 DEF Open, TypeOK
    <3>4. TypeOK'
      BY <3>1, <3>2, <3>3 DEF TypeOK, call
    <3>5. \A g \in Handle : pc'[g] \in Calling => pc[g] \in Calling
      BY <3>1 DEF StartPass, TypeOK, Calling
    <3> QED
      BY <3>1, <3>4, <3>5 DEF call
  <2> QED
    BY <2>1, <2>2
<1>2. ASSUME NEW h \in Handle, Close(h) PROVE TypeInv'
  BY <1>2, ForgetTyped DEF Close, DropLocksOf, TypeOK
<1>3. ASSUME NEW h \in Handle, NEW n \in HeadName, ReadHead(h, n) PROVE TypeInv'
  <2>1. Content.heads[n] \in HeadState \cup {NoHead}
    BY <1>0 DEF Image, Heads
  <2>2. seen' \in [Handle -> Heads]
    BY <1>3, <2>1 DEF ReadHead, TypeOK, Heads
  <2>3. TypeOK'
    BY <1>3, <2>2, ReadPagesTyped DEF ReadHead, TypeOK, pass
  <2> QED
    BY <1>3, <2>3 DEF ReadHead
<1>4. ASSUME NEW h \in Handle, NEW r \in Request, Call(h, r) PROVE TypeInv'
  <2> DEFINE t == [request  |-> r,
                   expected |-> [n \in HeadName |-> IF n \in DOMAIN r.news
                                                    THEN seen[h][n] ELSE NoHead]]
  <2>1. t \in Tx
    <3>1. seen[h] \in Heads
      BY DEF TypeOK
    <3> QED
      BY <3>1 DEF Tx, Heads
  <2>2. tx' = [tx EXCEPT ![h] = t] /\ pc' = [pc EXCEPT ![h] = "called"]
    BY <1>4 DEF Call
  <2> HIDE DEF t
  <2>3. TypeOK'
    BY <1>4, <2>1, <2>2 DEF Call, TypeOK, file, pass, Calling
  <2>4. \A g \in Handle : pc'[g] \in Calling => tx'[g] \in Tx
    BY <2>1, <2>2 DEF TypeOK
  <2> QED
    BY <2>3, <2>4
<1>5. ASSUME NEW h \in Handle, Scan(h) PROVE TypeInv'
  <2>1. view' = [view EXCEPT ![h] = [view[h] EXCEPT ![scan[h]] = Content[scan[h]]]]
    BY <1>5 DEF Scan, TypeOK
  <2>2. scan[h] \in ScanStage \ {"done"}
    BY <1>5 DEF Scan, TypeOK
  <2>3. view[h] \in Image
    BY DEF TypeOK
  <2>4. view' \in [Handle -> Image]
    BY <1>0, <2>1, <2>2, <2>3, ImageField DEF TypeOK
  <2>5. After[scan[h]] \in ScanStage
    BY <2>2 DEF After, ScanStage
  <2>6. scan' \in [Handle -> ScanStage]
    BY <1>5, <2>5 DEF Scan, TypeOK
  <2>7. TypeOK'
    BY <1>5, <2>4, <2>6, ReadPagesTyped DEF Scan, TypeOK, call
  <2> QED
    BY <1>5, <2>7 DEF Scan, call
<1>6. ASSUME NEW h \in Handle, FailOpen(h) PROVE TypeInv'
  BY <1>6, ForgetTyped DEF FailOpen, DropLocksOf, TypeOK
<1>7. ASSUME NEW h \in Handle, PassOpen(h) PROVE TypeInv'
  <2>1. PICK at \in {"ready", "open_recheck"} : StartPass(h, at) \/ EndPass(h, at)
    BY <1>7 DEF PassOpen
  <2>2. /\ pc' \in [Handle -> {"closed", "ready"} \cup Verifying \cup Calling]
        /\ scan' \in [Handle -> ScanStage]
        /\ view' \in [Handle -> Image]
    BY <2>1, PassTyped DEF Verifying
  <2>3. UNCHANGED <<pages, journal, rollback, lock, mode, seen, tx, base, answer, receipts, calls>>
    BY <1>7 DEF PassOpen, file, call
  <2>4. TypeOK'
    BY <2>2, <2>3 DEF TypeOK
  <2>5. \A g \in Handle : pc'[g] \in Calling => pc[g] \in Calling
    BY <2>1 DEF StartPass, EndPass, TypeOK, Calling
  <2> QED
    BY <2>3, <2>4, <2>5
<1>8. ASSUME NEW h \in Handle, Begin(h) PROVE TypeInv'
  <2>1. TypeOK'
    BY <1>0, <1>8, ReadPagesTyped DEF Begin, TypeOK, pass, Calling
  <2>2. \A g \in Handle : pc'[g] \in Calling => pc[g] \in Calling
    BY <1>8 DEF Begin, TypeOK, Calling
  <2> QED
    BY <1>8, <2>1, <2>2 DEF Begin
<1>9. ASSUME NEW h \in Handle, Busy(h) PROVE TypeInv'
  BY <1>9, ReturnTyped DEF Busy, Answers, TypeOK, file
<1>10. ASSUME NEW h \in Handle, Refuse(h) PROVE TypeInv'
  <2>1. PICK a \in Answers : Return(h, a)
    BY <1>10 DEF Refuse, Answers
  <2>2. lock' \in Handle \cup {NoHandle} /\ UNCHANGED <<pages, journal, rollback, receipts>>
    BY <1>10 DEF Refuse, Release, TypeOK
  <2> QED
    BY <2>1, <2>2, ReturnTyped DEF TypeOK
<1>11. ASSUME NEW h \in Handle, Repeat(h) PROVE TypeInv'
  <2>1. tx[h] \in Tx /\ base[h] \in Image
    BY <1>11 DEF Repeat, TypeOK, Calling
  <2>2. RepeatsAt(base[h], tx[h]) \subseteq Nat \ {0}
    <3>1. base[h].log \in Seq(Event)
      BY <2>1 DEF Image
    <3> QED
      BY <3>1 DEF RepeatsAt
  <2>3. receipts' \subseteq [tx : Tx, seq : Nat \ {0}]
    BY <1>11, <2>1, <2>2 DEF Repeat, TypeOK
  <2>4. lock' \in Handle \cup {NoHandle} /\ UNCHANGED <<pages, journal, rollback>>
    BY <1>11 DEF Repeat, Release, TypeOK
  <2> QED
    BY <1>11, <2>3, <2>4, ReturnTyped DEF Repeat, Answers, TypeOK
<1>12. ASSUME NEW h \in Handle, Insert(h) PROVE TypeInv'
  <2>1. TypeOK'
    BY <1>12 DEF Insert, TypeOK, pass, call, Calling
  <2>2. \A g \in Handle : pc'[g] \in Calling => pc[g] \in Calling
    BY <1>12 DEF Insert, TypeOK, Calling
  <2> QED
    BY <1>12, <2>1, <2>2 DEF Insert, call
<1>13. ASSUME NEW h \in Handle, StartCommit(h) PROVE TypeInv'
  <2>1. tx[h] \in Tx /\ base[h] \in Image
    BY <1>13 DEF StartCommit, TypeOK, Calling
  <2>2. pages' \in Image
    BY <1>13, <2>1, AppendTxTyped, MixedTyped DEF StartCommit
  <2>3. TypeOK'
    BY <1>13, <2>1, <2>2 DEF StartCommit, TypeOK, pass, call, Calling
  <2>4. \A g \in Handle : pc'[g] \in Calling => pc[g] \in Calling
    BY <1>13 DEF StartCommit, TypeOK, Calling
  <2> QED
    BY <1>13, <2>3, <2>4 DEF StartCommit, call
<1>14. ASSUME NEW h \in Handle, FinishCommit(h) PROVE TypeInv'
  <2>1. tx[h] \in Tx /\ base[h] \in Image
    BY <1>14 DEF FinishCommit, TypeOK, Calling
  <2>2. /\ pages' \in Image /\ rollback' \in Image /\ journal' = "none"
        /\ lock' \in Handle \cup {NoHandle} /\ receipts' = receipts
    BY <1>0, <1>14, <2>1, AppendTxTyped DEF FinishCommit, Release, TypeOK
  <2>3. CASE journal = "none"
    BY <1>14, <2>2, <2>3, ReturnTyped DEF FinishCommit, Answers, TypeOK
  <2>4. CASE journal # "none"
    <3>1. StartPass(h, "readback") /\ UNCHANGED <<mode, call, calls>>
      BY <1>14, <2>4 DEF FinishCommit
    <3>2. /\ pc' \in [Handle -> {"closed", "ready"} \cup Verifying \cup Calling]
          /\ scan' \in [Handle -> ScanStage]
          /\ view' \in [Handle -> Image]
      BY <3>1, PassTyped DEF Verifying
    <3>3. TypeOK'
      BY <2>2, <3>1, <3>2 DEF TypeOK, call
    <3>4. \A g \in Handle : pc'[g] \in Calling => pc[g] \in Calling
      BY <1>14, <3>1 DEF FinishCommit, StartPass, TypeOK, Calling
    <3> QED
      BY <3>1, <3>3, <3>4 DEF call
  <2> QED
    BY <2>3, <2>4
<1>15. ASSUME NEW h \in Handle, Fail(h) PROVE TypeInv'
  <2>1. /\ pages' \in Image /\ rollback' \in Image
        /\ journal' \in {"none", "cold", "hot"}
        /\ lock' \in Handle \cup {NoHandle} /\ receipts' = receipts
    BY <1>0, <1>15 DEF Fail, Release, TypeOK
  <2> QED
    BY <1>15, <2>1, ReturnTyped DEF Fail, Answers, TypeOK
<1>16. ASSUME NEW h \in Handle, Confirm(h) PROVE TypeInv'
  <2>1. tx[h] \in Tx /\ base[h] \in Image
    BY <1>16 DEF Confirm, TypeOK, Calling
  <2>2. Len(base[h].log) + 1 \in Nat \ {0}
    BY <2>1, AppendTxLog
  <2>3. receipts' \subseteq [tx : Tx, seq : Nat \ {0}]
    BY <1>16, <2>1, <2>2 DEF Confirm, TypeOK
  <2> QED
    BY <1>16, <2>3, ReadPagesTyped, ReturnTyped DEF Confirm, Answers, TypeOK
<1>17. ASSUME NEW h \in Handle, Unconfirmed(h) PROVE TypeInv'
  BY <1>17, ReturnTyped DEF Unconfirmed, Answers, TypeOK, file
<1>18. ASSUME NEW h \in Handle, Unserved(h) PROVE TypeInv'
  BY <1>18, ReturnTyped DEF Unserved, Answers, TypeOK, file
<1>19. ASSUME NEW p \in Process, Crash(p) PROVE TypeInv'
  BY <1>19, ForgetTyped DEF Crash, DropLocksOf, TypeOK
<1>20. CASE UNCHANGED vars
  BY <1>20 DEF vars, file, pass, call, TypeOK
<1> QED
  BY <1>1, <1>2, <1>3, <1>4, <1>5, <1>6, <1>7, <1>8, <1>9, <1>10, <1>11, <1>12,
     <1>13, <1>14, <1>15, <1>16, <1>17, <1>18, <1>19, <1>20 DEF Next, Step

\* Every reachable state has its type.
THEOREM TypeCorrect == Spec => []TypeOK
<1>1. TypeInv => TypeOK
  BY DEF TypeInv
<1> QED
  BY TypeInit, TypeStep, <1>1, PTL DEF Spec

-----------------------------------------------------------------------------
(* The inductive invariant.                                                *)

Writing == {"locked", "writing", "committing"}

\* The RESERVED lock is held exactly between BEGIN IMMEDIATE and the end of
\* COMMIT or ROLLBACK, and the journal says how far the writer has come.
LockInv ==
  \A h \in Handle :
    /\ lock = h <=> pc[h] \in Writing
    /\ pc[h] = "locked" => journal # "hot"
    /\ pc[h] = "writing" => journal = "cold"
    /\ pc[h] = "committing" => journal = "hot"

\* A writer works on the committed image and on a transaction that passed
\* every check against it; once committed, its event stays where it is.
Work(h) ==
  /\ pc[h] \in Writing => base[h] = Durable
  /\ pc[h] \in {"writing", "committing"} => Decision(base[h], tx[h]) = "append"
  /\ pc[h] = "readback" => Keeps(Durable.log, AppendTx(base[h], tx[h]).log)

WorkInv == \A h \in Handle : Work(h)

IInv == TypeInv /\ LockInv /\ WorkInv /\ StoreVerifies /\ ReceiptsDurable

\* One step either leaves the committed image alone or is the end of a COMMIT
\* that appends the transaction it checked.
DurableStep(h) ==
  /\ tx[h] \in Tx
  /\ Decision(Durable, tx[h]) = "append"
  /\ Durable' = AppendTx(Durable, tx[h])

LEMMA ReadPagesKeeps ==
  ASSUME ReadPages PROVE Durable' = Durable
BY DEF ReadPages, PlayBack, Durable, Hot

LEMMA DropOwnLocks ==
  ASSUME SingleHandle, NEW h \in Handle, DropLocksOf(ProcessOf[h]), TypeOK
  PROVE  lock' = IF lock = h THEN NoHandle ELSE lock
BY HandleAssumption DEF SingleHandle, DropLocksOf, TypeOK

LEMMA FileKeeps ==
  ASSUME UNCHANGED <<pages, journal, rollback>> PROVE Durable' = Durable
BY DEF Durable

LEMMA LockInit == Init => LockInv /\ WorkInv
<1> SUFFICES ASSUME Init PROVE LockInv /\ WorkInv
  OBVIOUS
<1>1. \A h \in Handle : pc[h] = "closed" /\ lock # h
  BY HandleAssumption DEF Init
<1> QED
  BY <1>1 DEF LockInv, WorkInv, Work, Writing

LEMMA LockStep ==
  ASSUME SingleHandle, TypeInv, LockInv, [Next]_vars
  PROVE  LockInv'
<1> USE DEF Writing
<1>0. TypeOK /\ NoHandle \notin Handle
  BY HandleAssumption DEF TypeInv
<1>1. ASSUME NEW h \in Handle, NEW m \in {"ro", "rw"}, Open(h, m) PROVE LockInv'
  <2>1. lock' = lock \/ lock' = IF lock = h THEN NoHandle ELSE lock
    BY <1>0, <1>1, DropOwnLocks DEF Open
  <2>2. lock # h /\ lock' = lock /\ journal' = journal
    BY <1>1, <2>1 DEF Open, LockInv
  <2>3. \A g \in Handle : pc'[g] = IF g = h /\ pc' # pc THEN "open_check" ELSE pc[g]
    BY <1>0, <1>1 DEF Open, StartPass, TypeOK
  <2> QED
    BY <1>1, <2>2, <2>3 DEF LockInv, Open
<1>2. ASSUME NEW h \in Handle, Close(h) PROVE LockInv'
  <2>1. lock' = IF lock = h THEN NoHandle ELSE lock
    BY <1>0, <1>2, DropOwnLocks DEF Close
  <2> QED
    BY <1>0, <1>2, <2>1 DEF Close, Forget, LockInv
<1>3. ASSUME NEW h \in Handle, NEW n \in HeadName, ReadHead(h, n) PROVE LockInv'
  BY <1>0, <1>3 DEF ReadHead, ReadPages, PlayBack, Hot, LockInv, pass
<1>4. ASSUME NEW h \in Handle, NEW r \in Request, Call(h, r) PROVE LockInv'
  BY <1>0, <1>4 DEF Call, LockInv, TypeOK, file
<1>5. ASSUME NEW h \in Handle, Scan(h) PROVE LockInv'
  BY <1>0, <1>5 DEF Scan, ReadPages, PlayBack, Hot, LockInv
<1>6. ASSUME NEW h \in Handle, FailOpen(h) PROVE LockInv'
  <2>1. lock' = IF lock = h THEN NoHandle ELSE lock
    BY <1>0, <1>6, DropOwnLocks DEF FailOpen
  <2> QED
    BY <1>0, <1>6, <2>1 DEF FailOpen, Forget, LockInv
<1>7. ASSUME NEW h \in Handle, PassOpen(h) PROVE LockInv'
  BY <1>0, <1>7 DEF PassOpen, StartPass, EndPass, LockInv, TypeOK, file
<1>8. ASSUME NEW h \in Handle, Begin(h) PROVE LockInv'
  BY <1>0, <1>8 DEF Begin, ReadPages, PlayBack, Hot, LockInv, TypeOK
<1>9. ASSUME NEW h \in Handle, Busy(h) PROVE LockInv'
  BY <1>0, <1>9 DEF Busy, Return, EndPass, LockInv, TypeOK, file
<1>10. ASSUME NEW h \in Handle, Refuse(h) PROVE LockInv'
  BY <1>0, <1>10 DEF Refuse, Release, Return, EndPass, LockInv, TypeOK
<1>11. ASSUME NEW h \in Handle, Repeat(h) PROVE LockInv'
  BY <1>0, <1>11 DEF Repeat, Release, Return, EndPass, LockInv, TypeOK
<1>12. ASSUME NEW h \in Handle, Insert(h) PROVE LockInv'
  BY <1>0, <1>12 DEF Insert, LockInv, TypeOK
<1>13. ASSUME NEW h \in Handle, StartCommit(h) PROVE LockInv'
  BY <1>0, <1>13 DEF StartCommit, LockInv, TypeOK
<1>14. ASSUME NEW h \in Handle, FinishCommit(h) PROVE LockInv'
  BY <1>0, <1>14 DEF FinishCommit, Release, Return, StartPass, EndPass, LockInv, TypeOK
<1>15. ASSUME NEW h \in Handle, Fail(h) PROVE LockInv'
  BY <1>0, <1>15 DEF Fail, Release, Return, EndPass, LockInv, TypeOK
<1>16. ASSUME NEW h \in Handle, Confirm(h) PROVE LockInv'
  BY <1>0, <1>16 DEF Confirm, ReadPages, PlayBack, Hot, Return, EndPass, LockInv, TypeOK
<1>17. ASSUME NEW h \in Handle, Unconfirmed(h) PROVE LockInv'
  BY <1>0, <1>17 DEF Unconfirmed, Return, EndPass, LockInv, TypeOK, file
<1>18. ASSUME NEW h \in Handle, Unserved(h) PROVE LockInv'
  BY <1>0, <1>18 DEF Unserved, Return, EndPass, LockInv, TypeOK, file
<1>19. ASSUME NEW p \in Process, Crash(p) PROVE LockInv'
  BY <1>0, <1>19 DEF Crash, Forget, DropLocksOf, LockInv, TypeOK
<1>20. CASE UNCHANGED vars
  BY <1>20 DEF vars, file, LockInv
<1> QED
  BY <1>1, <1>2, <1>3, <1>4, <1>5, <1>6, <1>7, <1>8, <1>9, <1>10, <1>11, <1>12,
     <1>13, <1>14, <1>15, <1>16, <1>17, <1>18, <1>19, <1>20 DEF Next, Step

LEMMA FinishAppends ==
  ASSUME TypeInv, WorkInv, NEW h \in Handle, FinishCommit(h)
  PROVE  DurableStep(h)
<1>1. pc[h] = "committing" /\ base[h] = Durable
  BY DEF FinishCommit, WorkInv, Work, Writing
<1>2. tx[h] \in Tx /\ Decision(Durable, tx[h]) = "append"
  BY <1>1 DEF TypeInv, Calling, WorkInv, Work
<1>3. Durable' = AppendTx(Durable, tx[h])
  BY <1>1 DEF FinishCommit, Durable
<1> QED
  BY <1>2, <1>3 DEF DurableStep

\* The committed image changes at one action only, and there by one append.
LEMMA CommitIsAtomic ==
  ASSUME TypeInv, LockInv, WorkInv, [Next]_vars
  PROVE  \/ Durable' = Durable
         \/ \E h \in Handle : FinishCommit(h) /\ DurableStep(h)
<1> USE DEF Writing
<1>0. TypeOK
  BY DEF TypeInv
<1>1. ASSUME NEW h \in Handle, NEW m \in {"ro", "rw"}, Open(h, m) PROVE Durable' = Durable
  BY <1>1, FileKeeps DEF Open
<1>2. ASSUME NEW h \in Handle, Close(h) PROVE Durable' = Durable
  BY <1>2, FileKeeps DEF Close
<1>3. ASSUME NEW h \in Handle, NEW n \in HeadName, ReadHead(h, n) PROVE Durable' = Durable
  BY <1>3, ReadPagesKeeps DEF ReadHead
<1>4. ASSUME NEW h \in Handle, NEW r \in Request, Call(h, r) PROVE Durable' = Durable
  BY <1>4, FileKeeps DEF Call, file
<1>5. ASSUME NEW h \in Handle, Scan(h) PROVE Durable' = Durable
  BY <1>5, ReadPagesKeeps DEF Scan
<1>6. ASSUME NEW h \in Handle, FailOpen(h) PROVE Durable' = Durable
  BY <1>6, FileKeeps DEF FailOpen
<1>7. ASSUME NEW h \in Handle, PassOpen(h) PROVE Durable' = Durable
  BY <1>7, FileKeeps DEF PassOpen, file
<1>8. ASSUME NEW h \in Handle, Begin(h) PROVE Durable' = Durable
  BY <1>8, ReadPagesKeeps DEF Begin
<1>9. ASSUME NEW h \in Handle, Busy(h) \/ Unconfirmed(h) \/ Unserved(h)
      PROVE  Durable' = Durable
  BY <1>9, FileKeeps DEF Busy, Unconfirmed, Unserved, file
<1>10. ASSUME NEW h \in Handle, Refuse(h) \/ Repeat(h) PROVE Durable' = Durable
  BY <1>10, FileKeeps DEF Refuse, Repeat
<1>11. ASSUME NEW h \in Handle, Insert(h) PROVE Durable' = Durable
  BY <1>11 DEF Insert, Durable, LockInv
<1>12. ASSUME NEW h \in Handle, StartCommit(h) PROVE Durable' = Durable
  BY <1>12 DEF StartCommit, Durable, LockInv, WorkInv, Work
<1>13. ASSUME NEW h \in Handle, FinishCommit(h) PROVE DurableStep(h)
  BY <1>13, FinishAppends
<1>14. ASSUME NEW h \in Handle, Fail(h) PROVE Durable' = Durable
  BY <1>14, FileKeeps DEF Fail, Durable
<1>15. ASSUME NEW h \in Handle, Confirm(h) PROVE Durable' = Durable
  BY <1>15, ReadPagesKeeps DEF Confirm
<1>16. ASSUME NEW p \in Process, Crash(p) PROVE Durable' = Durable
  BY <1>16, FileKeeps DEF Crash
<1>17. CASE UNCHANGED vars
  BY <1>17, FileKeeps DEF vars, file
<1> QED
  BY <1>1, <1>2, <1>3, <1>4, <1>5, <1>6, <1>7, <1>8, <1>9, <1>10, <1>11, <1>12,
     <1>13, <1>14, <1>15, <1>16, <1>17 DEF Next, Step

\* Hence the committed image replays after the step, and its log only grew.
LEMMA CommitKeeps ==
  ASSUME TypeInv, LockInv, WorkInv, StoreVerifies, [Next]_vars
  PROVE  StoreVerifies' /\ Keeps(Durable'.log, Durable.log) /\ Durable' \in Image
<1>1. Durable \in Image /\ Durable.log \in Seq(Event)
  BY DurableTyped DEF TypeInv, Image
<1>2. CASE Durable' = Durable
  BY <1>1, <1>2, KeepsReflexive DEF StoreVerifies
<1>3. ASSUME NEW h \in Handle, FinishCommit(h), DurableStep(h)
      PROVE  StoreVerifies' /\ Keeps(Durable'.log, Durable.log) /\ Durable' \in Image
  <2>1. /\ tx[h] \in Tx /\ Decision(Durable, tx[h]) = "append"
        /\ Durable' = AppendTx(Durable, tx[h])
    BY <1>3 DEF DurableStep
  <2>2. Verified(AppendTx(Durable, tx[h]))
    BY <1>1, <2>1, AppendVerifies DEF StoreVerifies
  <2>3. Keeps(AppendTx(Durable, tx[h]).log, Durable.log)
    BY <1>1, <2>1, AppendKeeps
  <2>4. AppendTx(Durable, tx[h]) \in Image
    BY <1>1, <2>1, AppendTxTyped
  <2> QED
    BY <2>1, <2>2, <2>3, <2>4 DEF StoreVerifies
<1> QED
  BY <1>2, <1>3, CommitIsAtomic

\* While a handle is between BEGIN IMMEDIATE and COMMIT nothing else commits.
LEMMA WriterExcludes ==
  ASSUME TypeInv, LockInv, WorkInv, LockInv', [Next]_vars,
         NEW g \in Handle, pc'[g] \in Writing
  PROVE  Durable' = Durable
<1>1. ASSUME NEW h \in Handle, FinishCommit(h) PROVE FALSE
  <2>1. lock = h
    BY <1>1 DEF FinishCommit, LockInv, Writing
  <2>2. lock' = NoHandle
    BY <1>1, <2>1 DEF FinishCommit, Release
  <2>3. lock' = g
    BY DEF LockInv
  <2> QED
    BY <2>2, <2>3, HandleAssumption
<1> QED
  BY <1>1, CommitIsAtomic

LEMMA WorkFrame ==
  ASSUME TypeInv, LockInv, WorkInv, StoreVerifies, LockInv', [Next]_vars,
         NEW g \in Handle, UNCHANGED <<pc[g], base[g], tx[g]>>
  PROVE  Work(g)'
<1>1. pc'[g] \in Writing => Durable' = Durable
  BY WriterExcludes
<1>2. CASE pc[g] = "readback"
  <2>1. tx[g] \in Tx /\ base[g] \in Image
    BY <1>2 DEF TypeInv, TypeOK, Calling
  <2>2. AppendTx(base[g], tx[g]).log \in Seq(Event)
    BY <2>1, AppendTxLog
  <2>3. /\ Durable.log \in Seq(Event) /\ Durable'.log \in Seq(Event)
        /\ Keeps(Durable'.log, Durable.log)
    BY CommitKeeps, DurableTyped DEF TypeInv, Image
  <2>4. Keeps(Durable'.log, AppendTx(base[g], tx[g]).log)
    BY <1>2, <2>2, <2>3, KeepsTransitive DEF WorkInv, Work
  <2> QED
    BY <1>2, <2>4 DEF Work, Writing
<1>3. CASE pc[g] # "readback"
  BY <1>1, <1>3 DEF WorkInv, Work
<1> QED
  BY <1>2, <1>3

LEMMA WorkQuiet ==
  ASSUME TypeInv, LockInv, WorkInv, StoreVerifies, LockInv', [Next]_vars,
         NEW h \in Handle,
         \A g \in Handle \ {h} : UNCHANGED <<pc[g], base[g], tx[g]>>,
         pc'[h] \notin Writing \cup {"readback"}
  PROVE  WorkInv'
<1>1. Work(h)'
  BY DEF Work, Writing
<1>2. \A g \in Handle \ {h} : Work(g)'
  BY WorkFrame
<1> QED
  BY <1>1, <1>2 DEF WorkInv

LEMMA WorkStep ==
  ASSUME TypeInv, LockInv, WorkInv, StoreVerifies, LockInv', [Next]_vars
  PROVE  WorkInv'
<1> USE DEF Writing, TypeOK
<1>0. TypeOK
  BY DEF TypeInv
<1>1. ASSUME NEW h \in Handle, NEW m \in {"ro", "rw"}, Open(h, m) PROVE WorkInv'
  BY <1>0, <1>1, WorkQuiet DEF Open, StartPass, pass, call
<1>2. ASSUME NEW h \in Handle, Close(h) PROVE WorkInv'
  BY <1>0, <1>2, WorkQuiet DEF Close, Forget
<1>3. ASSUME NEW h \in Handle, NEW n \in HeadName, ReadHead(h, n) PROVE WorkInv'
  BY <1>0, <1>3, WorkQuiet DEF ReadHead
<1>4. ASSUME NEW h \in Handle, NEW r \in Request, Call(h, r) PROVE WorkInv'
  BY <1>0, <1>4, WorkQuiet DEF Call
<1>5. ASSUME NEW h \in Handle, Scan(h) PROVE WorkInv'
  <2>1. \A g \in Handle : UNCHANGED <<pc[g], base[g], tx[g]>>
    BY <1>5 DEF Scan, call
  <2> QED
    BY <2>1, WorkFrame DEF WorkInv
<1>6. ASSUME NEW h \in Handle, FailOpen(h) PROVE WorkInv'
  BY <1>0, <1>6, WorkQuiet DEF FailOpen, Forget
<1>7. ASSUME NEW h \in Handle, PassOpen(h) PROVE WorkInv'
  BY <1>0, <1>7, WorkQuiet DEF PassOpen, StartPass, EndPass, call
<1>8. ASSUME NEW h \in Handle, Begin(h) PROVE WorkInv'
  <2>1. base'[h] = Durable /\ pc'[h] = "locked" /\ Durable' = Durable
    BY <1>0, <1>8, ReadPagesKeeps DEF Begin, Content, Durable, Hot
  <2>2. Work(h)'
    BY <2>1 DEF Work
  <2>3. \A g \in Handle \ {h} : UNCHANGED <<pc[g], base[g], tx[g]>>
    BY <1>0, <1>8 DEF Begin
  <2> QED
    BY <2>2, <2>3, WorkFrame DEF WorkInv
<1>9. ASSUME NEW h \in Handle, NEW a, Return(h, a) PROVE WorkInv'
  BY <1>0, <1>9, WorkQuiet DEF Return, EndPass
<1>10. ASSUME NEW h \in Handle, Insert(h) PROVE WorkInv'
  <2>1. /\ base'[h] = Durable /\ pc'[h] = "writing" /\ Durable' = Durable
        /\ Decision(base'[h], tx'[h]) = "append"
    BY <1>0, <1>10 DEF Insert, Durable, LockInv, WorkInv, Work, call
  <2>2. Work(h)'
    BY <2>1 DEF Work
  <2>3. \A g \in Handle \ {h} : UNCHANGED <<pc[g], base[g], tx[g]>>
    BY <1>0, <1>10 DEF Insert, call
  <2> QED
    BY <2>2, <2>3, WorkFrame DEF WorkInv
<1>11. ASSUME NEW h \in Handle, StartCommit(h) PROVE WorkInv'
  <2>1. /\ base'[h] = Durable /\ pc'[h] = "committing" /\ Durable' = Durable
        /\ Decision(base'[h], tx'[h]) = "append"
    BY <1>0, <1>11 DEF StartCommit, Durable, LockInv, WorkInv, Work, call
  <2>2. Work(h)'
    BY <2>1 DEF Work
  <2>3. \A g \in Handle \ {h} : UNCHANGED <<pc[g], base[g], tx[g]>>
    BY <1>0, <1>11 DEF StartCommit, call
  <2> QED
    BY <2>2, <2>3, WorkFrame DEF WorkInv
<1>12. ASSUME NEW h \in Handle, FinishCommit(h) PROVE WorkInv'
  <2>1. journal = "hot" /\ pc[h] = "committing"
    BY <1>12 DEF FinishCommit, LockInv
  <2>2. pc'[h] = "readback" /\ UNCHANGED <<base, tx>>
    BY <1>0, <1>12, <2>1 DEF FinishCommit, StartPass, call
  <2>3. Durable' = AppendTx(base[h], tx[h])
    BY <1>12 DEF FinishCommit, Durable
  <2>4. Durable' \in Image
    BY CommitKeeps
  <2>5. Work(h)'
    BY <2>2, <2>3, <2>4, KeepsReflexive DEF Work, Image
  <2>6. \A g \in Handle \ {h} : UNCHANGED <<pc[g], base[g], tx[g]>>
    BY <1>0, <1>12, <2>1 DEF FinishCommit, StartPass, call
  <2> QED
    BY <2>5, <2>6, WorkFrame DEF WorkInv
<1>13. ASSUME NEW p \in Process, Crash(p) PROVE WorkInv'
  <2>1. ASSUME NEW g \in Handle, ProcessOf[g] # p PROVE UNCHANGED <<pc[g], base[g], tx[g]>>
    BY <1>13, <2>1 DEF Crash, Forget
  <2>2. ASSUME NEW g \in Handle, ProcessOf[g] = p PROVE Work(g)'
    BY <1>13, <2>2 DEF Crash, Forget, Work
  <2> QED
    BY <2>1, <2>2, WorkFrame DEF WorkInv
<1>14. CASE UNCHANGED vars
  BY <1>14, WorkFrame DEF vars, call, WorkInv
<1>15. ASSUME NEW h \in Handle,
              \/ Busy(h) \/ Refuse(h) \/ Repeat(h) \/ Fail(h)
              \/ Confirm(h) \/ Unconfirmed(h) \/ Unserved(h)
       PROVE  WorkInv'
  BY <1>9, <1>15 DEF Busy, Refuse, Repeat, Fail, Confirm, Unconfirmed, Unserved
<1> QED
  BY <1>1, <1>2, <1>3, <1>4, <1>5, <1>6, <1>7, <1>8, <1>10, <1>11, <1>12, <1>13,
     <1>14, <1>15 DEF Next, Step

\* A receipt names an event of the committed log, now and from now on.
LEMMA ReceiptsStep ==
  ASSUME TypeInv, LockInv, WorkInv, StoreVerifies, ReceiptsDurable, [Next]_vars
  PROVE  ReceiptsDurable'
<1> DEFINE Names(r) == /\ r.seq \in DOMAIN Durable.log
                       /\ Durable.log[r.seq].tx = r.tx
<1>1. /\ Durable \in Image /\ Durable.log \in Seq(Event)
      /\ Durable' \in Image /\ Durable'.log \in Seq(Event)
      /\ Keeps(Durable'.log, Durable.log)
  BY CommitKeeps, DurableTyped DEF TypeInv, Image
<1>2. ASSUME NEW r, Names(r) PROVE Names(r)'
  BY <1>1, <1>2 DEF Keeps
<1>3. CASE receipts' = receipts
  BY <1>2, <1>3 DEF ReceiptsDurable
<1>4. ASSUME NEW h \in Handle, Repeat(h) PROVE ReceiptsDurable'
  <2>1. base[h] = Durable
    BY <1>4 DEF Repeat, WorkInv, Work, Writing
  <2>2. ASSUME NEW r \in receipts', r \notin receipts PROVE Names(r)
    <3>1. PICK i \in RepeatsAt(base[h], tx[h]) : r = [tx |-> tx[h], seq |-> i]
      BY <1>4, <2>2 DEF Repeat
    <3> QED
      BY <2>1, <3>1 DEF RepeatsAt
  <2> QED
    BY <1>2, <2>2 DEF ReceiptsDurable
<1>5. ASSUME NEW h \in Handle, Confirm(h) PROVE ReceiptsDurable'
  <2> DEFINE r == [tx |-> tx[h], seq |-> Len(base[h].log) + 1]
  <2>1. pc[h] = "readback" /\ tx[h] \in Tx /\ base[h] \in Image
    BY <1>5 DEF Confirm, TypeInv, TypeOK, Calling
  <2>2. Keeps(Durable.log, AppendTx(base[h], tx[h]).log)
    BY <2>1 DEF WorkInv, Work
  <2>3. /\ Len(base[h].log) \in Nat
        /\ Len(AppendTx(base[h], tx[h]).log) = Len(base[h].log) + 1
        /\ AppendTx(base[h], tx[h]).log[Len(base[h].log) + 1].tx = tx[h]
    <3>1. /\ Len(base[h].log) \in Nat
          /\ Len(AppendTx(base[h], tx[h]).log) = Len(base[h].log) + 1
          /\ AppendTx(base[h], tx[h]).log[Len(base[h].log) + 1] =
               [tx |-> tx[h], inserted |-> tx[h].request.records \ base[h].records]
      BY <2>1, AppendTxLog
    <3> QED
      BY <3>1
  <2>4. Names(r)
    BY <1>1, <2>2, <2>3 DEF Keeps
  <2>5. receipts' = receipts \cup {r}
    BY <1>5 DEF Confirm
  <2> HIDE DEF r
  <2> QED
    BY <1>2, <2>4, <2>5 DEF ReceiptsDurable
<1>6. receipts' = receipts \/ \E h \in Handle : Repeat(h) \/ Confirm(h)
  BY DEF Next, Step, Open, Close, ReadHead, Call, Scan, FailOpen, PassOpen, Begin,
     Busy, Refuse, Insert, StartCommit, FinishCommit, Fail, Unconfirmed, Unserved,
     Crash, Forget, vars
<1> QED
  BY <1>3, <1>4, <1>5, <1>6

LEMMA InvInit == Init => IInv
<1> SUFFICES ASSUME Init PROVE IInv
  OBVIOUS
<1>1. StoreVerifies /\ ReceiptsDurable
  BY EmptyVerified DEF Init, StoreVerifies, ReceiptsDurable, Durable
<1> QED
  BY <1>1, TypeInit, LockInit DEF IInv

LEMMA InvStep == SingleHandle /\ IInv /\ [Next]_vars => IInv'
<1> SUFFICES ASSUME SingleHandle, IInv, [Next]_vars PROVE IInv'
  OBVIOUS
<1>1. TypeInv' /\ LockInv'
  BY TypeStep, LockStep DEF IInv
<1>2. WorkInv' /\ StoreVerifies' /\ ReceiptsDurable'
  BY <1>1, WorkStep, CommitKeeps, ReceiptsStep DEF IInv
<1> QED
  BY <1>1, <1>2 DEF IInv

LEMMA Invariance == ASSUME SingleHandle PROVE Spec => []IInv
<1>1. IInv /\ [Next]_vars => IInv'
  BY InvStep
<1> QED
  BY <1>1, InvInit, PTL DEF Spec

-----------------------------------------------------------------------------
(* Safety.                                                                 *)

\* The committed image always replays: no commit, crash or recovery leaves a
\* store that _verify_state would refuse.
THEOREM StoreAlwaysVerifies == ASSUME SingleHandle PROVE Spec => []StoreVerifies
<1>1. IInv => StoreVerifies
  BY DEF IInv
<1> QED
  BY <1>1, Invariance, PTL

\* Receipts stay true for ever.
THEOREM ReceiptsStayTrue == ASSUME SingleHandle PROVE Spec => []ReceiptsDurable
<1>1. IInv => ReceiptsDurable
  BY DEF IInv
<1> QED
  BY <1>1, Invariance, PTL

\* A writer is alone, on an image that is still the committed one.
THEOREM WriterAlone == ASSUME SingleHandle PROVE Spec => []WriterIsolated
<1>1. IInv => WriterIsolated
  BY DEF IInv, LockInv, WorkInv, Work, Writing, WriterIsolated
<1> QED
  BY <1>1, Invariance, PTL

\* A handle that holds the lock of the database waits for none.
THEOREM NobodyWaitsInVain == ASSUME SingleHandle PROVE Spec => []HolderNeverWaits
<1>1. IInv => HolderNeverWaits
  BY DEF IInv, TypeInv, TypeOK, LockInv, Writing, HolderNeverWaits
<1> QED
  BY <1>1, Invariance, PTL

\* No transaction is in the committed log twice.
THEOREM AtMostOnce == ASSUME SingleHandle PROVE Spec => []NoDuplicateTransaction
<1>1. IInv => NoDuplicateTransaction
  BY DurableTyped, VerifiedHasNoDuplicate
     DEF IInv, TypeInv, StoreVerifies, NoDuplicateTransaction
<1> QED
  BY <1>1, Invariance, PTL

\* The committed log is append-only.
THEOREM AppendOnly == ASSUME SingleHandle PROVE Spec => HistoryOnlyGrows
<1>1. IInv /\ [Next]_vars => [Keeps(Durable'.log, Durable.log)]_vars
  BY CommitKeeps DEF IInv
<1> QED
  BY <1>1, Invariance, PTL DEF Spec, HistoryOnlyGrows

-----------------------------------------------------------------------------
(* No dirty reads.                                                         *)

\* What a pass has read, and one head a caller has read, are committed in d.
CleanView(d, v) == Keeps(d.log, v.log) /\ v.records \subseteq d.records

CleanHead(d, n, s) ==
  s # NoHead =>
    /\ s.seq \in DOMAIN d.log
    /\ n \in DOMAIN d.log[s.seq].tx.request.news
    /\ d.log[s.seq].tx.request.news[n] = s.record

\* While a COMMIT overwrites the file, and only then, a connection that does
\* not own it would read pages that may still roll back.
LEMMA ReadsCommitted ==
  ASSUME TypeInv, LockInv, ~Exclusive PROVE Content = Durable
<1>1. CASE journal = "hot" /\ lock # NoHandle
  <2>1. lock \in Handle /\ pc[lock] \in Writing
    BY <1>1 DEF TypeInv, TypeOK, LockInv
  <2> QED
    BY <1>1, <2>1 DEF LockInv, Writing, Exclusive
<1>2. CASE ~(journal = "hot" /\ lock # NoHandle)
  BY <1>2 DEF Content, Durable, Hot
<1> QED
  BY <1>1, <1>2

\* A head of a verified image names the event that moved it.
LEMMA VerifiedHeadClean ==
  ASSUME NEW d \in Image, Verified(d), NEW n \in HeadName
  PROVE  CleanHead(d, n, d.heads[n])
<1> DEFINE N == Len(d.log)
<1>1. N \in Nat /\ DOMAIN d.log = 1..N
  BY DEF Image
<1>2. d.heads[n] = HeadAfter(d.log, N, n)
  BY DEF Verified
<1>3. CASE MovesOf(d.log, N, n) = {}
  BY <1>1, <1>2, <1>3, HeadAfterCases DEF CleanHead
<1>4. CASE MovesOf(d.log, N, n) # {}
  <2>1. PICK i \in MovesOf(d.log, N, n) :
          d.heads[n] = [record |-> d.log[i].tx.request.news[n], seq |-> i]
    BY <1>1, <1>2, <1>4, HeadAfterCases
  <2>2. i \in DOMAIN d.log /\ n \in DOMAIN d.log[i].tx.request.news
    BY <1>1, <2>1 DEF MovesOf
  <2> QED
    BY <2>1, <2>2 DEF CleanHead
<1> QED
  BY <1>3, <1>4

\* The committed image only grows, so what was clean stays clean.
LEMMA CleanGrows ==
  ASSUME IInv, [Next]_vars
  PROVE  /\ \A v \in Image : CleanView(Durable, v) => CleanView(Durable', v)
         /\ \A n \in HeadName, s \in HeadState \cup {NoHead} :
              CleanHead(Durable, n, s) => CleanHead(Durable', n, s)
<1>1. /\ Durable.log \in Seq(Event) /\ Durable'.log \in Seq(Event)
      /\ Keeps(Durable'.log, Durable.log)
  BY CommitKeeps, DurableTyped DEF IInv, TypeInv, Image
<1>2. Durable.records \subseteq Durable'.records
  <2>1. Durable' = Durable \/ \E t \in Tx : Durable' = AppendTx(Durable, t)
    BY CommitIsAtomic DEF IInv, DurableStep
  <2>2. \A t \in Tx : AppendTx(Durable, t).records = Durable.records \cup t.request.records
    BY DEF AppendTx
  <2> QED
    BY <2>1, <2>2
<1>3. ASSUME NEW v \in Image, CleanView(Durable, v) PROVE CleanView(Durable', v)
  <2>1. v.log \in Seq(Event) /\ Keeps(Durable.log, v.log)
    BY <1>3 DEF CleanView, Image
  <2>2. Keeps(Durable'.log, v.log)
    BY <1>1, <2>1, KeepsTransitive
  <2> QED
    BY <1>2, <1>3, <2>2 DEF CleanView
<1>4. ASSUME NEW n \in HeadName, NEW s \in HeadState \cup {NoHead},
             CleanHead(Durable, n, s)
      PROVE  CleanHead(Durable', n, s)
  BY <1>1, <1>4 DEF CleanHead, Keeps
<1> QED
  BY <1>3, <1>4

\* Nothing read yet is clean.
LEMMA EmptyClean ==
  ASSUME NEW d \in Image
  PROVE  /\ CleanView(d, EmptyImage)
         /\ \A n \in HeadName : CleanHead(d, n, EmptyImage.heads[n])
<1>1. Len(EmptyImage.log) = 0 /\ Len(d.log) \in Nat
  BY DEF EmptyImage, Image
<1> QED
  BY <1>1 DEF EmptyImage, CleanView, CleanHead, Keeps

LEMMA FieldRead ==
  ASSUME NEW v \in Image, NEW d \in Image, NEW s \in ScanStage \ {"done"}
  PROVE  LET new == [v EXCEPT ![s] = d[s]]
         IN  new.log \in {v.log, d.log} /\ new.records \in {v.records, d.records}
<1>1. CASE s = "records"
  BY <1>1 DEF Image
<1>2. CASE s = "locals"
  BY <1>2 DEF Image
<1>3. CASE s = "log"
  BY <1>3 DEF Image
<1>4. CASE s = "heads"
  BY <1>4 DEF Image
<1> QED
  BY <1>1, <1>2, <1>3, <1>4 DEF ScanStage

LEMMA CleanStep ==
  ASSUME SingleHandle, IInv, NoDirtyRead, [Next]_vars PROVE NoDirtyRead'
<1>0. TypeOK /\ TypeOK' /\ Durable \in Image /\ Durable' \in Image
  BY InvStep, DurableTyped, CommitKeeps DEF IInv, TypeInv
<1> DEFINE KeepsView(h) == view'[h] \in {view[h], EmptyImage}
           KeepsSeen(h) == seen'[h] \in {seen[h], EmptyImage.heads}
<1>1. ASSUME NEW h \in Handle, KeepsView(h) PROVE CleanView(Durable', view'[h])
  <2>1. view[h] \in Image /\ CleanView(Durable, view[h])
    BY <1>0 DEF TypeOK, NoDirtyRead, CleanView
  <2> QED
    BY <1>0, <1>1, <2>1, CleanGrows, EmptyClean
<1>2. ASSUME NEW h \in Handle, KeepsSeen(h), NEW n \in HeadName
      PROVE  CleanHead(Durable', n, seen'[h][n])
  <2>1. /\ seen[h][n] \in HeadState \cup {NoHead}
        /\ CleanHead(Durable, n, seen[h][n])
    BY <1>0 DEF TypeOK, Heads, NoDirtyRead, CleanHead
  <2> QED
    BY <1>0, <1>2, <2>1, CleanGrows, EmptyClean
<1>3. ASSUME \A h \in Handle : CleanView(Durable', view'[h]),
             \A h \in Handle, n \in HeadName : CleanHead(Durable', n, seen'[h][n])
      PROVE  NoDirtyRead'
  BY <1>3 DEF NoDirtyRead, CleanView, CleanHead
<1>4. ASSUME \A h \in Handle : KeepsView(h) /\ KeepsSeen(h) PROVE NoDirtyRead'
  BY <1>1, <1>2, <1>3, <1>4
<1>5. ASSUME NEW h \in Handle, Scan(h) PROVE NoDirtyRead'
  <2>1. Content = Durable /\ Durable' = Durable
    BY <1>5, ReadsCommitted, ReadPagesKeeps DEF Scan, IInv
  <2>2. /\ scan[h] \in ScanStage \ {"done"}
        /\ view'[h] = [view[h] EXCEPT ![scan[h]] = Durable[scan[h]]]
        /\ \A g \in Handle \ {h} : view'[g] = view[g]
        /\ seen' = seen
    BY <1>0, <1>5, <2>1 DEF Scan, TypeOK, call
  <2>3. view[h] \in Image /\ CleanView(Durable, view[h])
    BY <1>0 DEF TypeOK, NoDirtyRead, CleanView
  <2>4. /\ view'[h].log \in {view[h].log, Durable.log}
        /\ view'[h].records \in {view[h].records, Durable.records}
    BY <2>2, <2>3, FieldRead
  <2>5. Keeps(Durable.log, Durable.log)
    BY <1>0, KeepsReflexive DEF Image
  <2>6. CleanView(Durable', view'[h])
    BY <2>1, <2>3, <2>4, <2>5 DEF CleanView
  <2> QED
    BY <1>1, <1>2, <1>3, <2>2, <2>6
<1>6. ASSUME NEW h \in Handle, NEW m \in HeadName, ReadHead(h, m) PROVE NoDirtyRead'
  <2>1. Content = Durable /\ Durable' = Durable
    BY <1>6, ReadsCommitted, ReadPagesKeeps DEF ReadHead, IInv
  <2>2. /\ view' = view
        /\ seen' = [seen EXCEPT ![h] = [seen[h] EXCEPT ![m] = Durable.heads[m]]]
    BY <1>0, <1>6, <2>1 DEF ReadHead, TypeOK, pass
  <2>3. ASSUME NEW n \in HeadName PROVE CleanHead(Durable', n, seen'[h][n])
    <3>1. seen'[h][n] \in {seen[h][n], Durable.heads[n]}
          /\ (n # m => seen'[h][n] = seen[h][n])
          /\ (n = m => seen'[h][n] = Durable.heads[n])
      BY <1>0, <2>2 DEF TypeOK, Heads
    <3>2. CleanHead(Durable, n, seen[h][n]) /\ CleanHead(Durable, n, Durable.heads[n])
      BY <1>0, VerifiedHeadClean DEF NoDirtyRead, CleanHead, IInv, StoreVerifies
    <3> QED
      BY <2>1, <3>1, <3>2
  <2>4. \A g \in Handle \ {h} : seen'[g] = seen[g]
    BY <1>0, <2>2 DEF TypeOK
  <2> QED
    BY <1>1, <1>2, <1>3, <2>2, <2>3, <2>4
<1>7. ASSUME NEW h \in Handle, StartPass(h, "open_check") \/ StartPass(h, "open_recheck")
               \/ StartPass(h, "readback") \/ EndPass(h, "ready"), seen' = seen
      PROVE  NoDirtyRead'
  BY <1>0, <1>4, <1>7 DEF StartPass, EndPass, TypeOK
<1>8. ASSUME view' = view, seen' = seen PROVE NoDirtyRead'
  BY <1>4, <1>8
<1>9. ASSUME NEW H \in SUBSET Handle, Forget(H) PROVE NoDirtyRead'
  BY <1>4, <1>9 DEF Forget
<1>10. ASSUME NEW h \in Handle, NEW a, Return(h, a) PROVE NoDirtyRead'
  BY <1>7, <1>10 DEF Return
<1>11. ASSUME NEW h \in Handle, NEW m \in {"ro", "rw"}, Open(h, m) PROVE NoDirtyRead'
  BY <1>7, <1>8, <1>11 DEF Open, pass, call
<1>12. ASSUME NEW h \in Handle, PassOpen(h) \/ FinishCommit(h) PROVE NoDirtyRead'
  BY <1>7, <1>10, <1>12 DEF PassOpen, FinishCommit, call
<1>13. ASSUME NEW h \in Handle, Close(h) \/ FailOpen(h) PROVE NoDirtyRead'
  BY <1>9, <1>13 DEF Close, FailOpen
<1>14. ASSUME NEW h \in Handle, NEW r \in Request, Call(h, r) PROVE NoDirtyRead'
  BY <1>8, <1>14 DEF Call, pass
<1>15. ASSUME NEW h \in Handle, Begin(h) \/ Insert(h) \/ StartCommit(h) PROVE NoDirtyRead'
  BY <1>8, <1>15 DEF Begin, Insert, StartCommit, pass, call
<1>16. ASSUME NEW h \in Handle,
              \/ Busy(h) \/ Refuse(h) \/ Repeat(h) \/ Fail(h)
              \/ Confirm(h) \/ Unconfirmed(h) \/ Unserved(h)
       PROVE  NoDirtyRead'
  BY <1>10, <1>16 DEF Busy, Refuse, Repeat, Fail, Confirm, Unconfirmed, Unserved
<1>17. ASSUME NEW p \in Process, Crash(p) PROVE NoDirtyRead'
  BY <1>9, <1>17 DEF Crash
<1>18. CASE UNCHANGED vars
  BY <1>8, <1>18 DEF vars, pass, call
<1> QED
  BY <1>5, <1>6, <1>11, <1>12, <1>13, <1>14, <1>15, <1>16, <1>17, <1>18 DEF Next, Step

LEMMA CleanInit == Init => NoDirtyRead
<1> SUFFICES ASSUME Init PROVE NoDirtyRead
  OBVIOUS
<1>1. Durable \in Image
  BY TypeInit, DurableTyped DEF TypeInv
<1>2. \A h \in Handle : view[h] = EmptyImage /\ seen[h] = EmptyImage.heads
  BY DEF Init
<1> QED
  BY <1>1, <1>2, EmptyClean DEF NoDirtyRead, CleanView, CleanHead

\* No verification pass and no caller ever reads what may still roll back.
THEOREM NeverDirty == ASSUME SingleHandle PROVE Spec => []NoDirtyRead
<1>1. Init => IInv /\ NoDirtyRead
  BY InvInit, CleanInit
<1>2. IInv /\ NoDirtyRead /\ [Next]_vars => IInv' /\ NoDirtyRead'
  BY InvStep, CleanStep
<1> QED
  BY <1>1, <1>2, PTL DEF Spec
=============================================================================

------------------------ MODULE StateStoreRefinement ------------------------
(***************************************************************************)
(* As long as no process opens the database twice, the handles implement   *)
(* the atomic store: each step of the detailed specification is a step of  *)
(* AtomicStore or leaves everything it speaks of alone.                    *)
(***************************************************************************)
EXTENDS StateStoreProofs

-----------------------------------------------------------------------------
(* What the abstract store sees of the detailed one.                       *)

History == [i \in DOMAIN Durable.log |-> Durable.log[i].tx]

Phase == [h \in Handle |-> IF pc[h] \notin Calling THEN "idle"
                           ELSE IF pc[h] = "readback" THEN "done"
                           ELSE "pending"]

\* Callers only tell a receipt and a conflict from other outcomes.
Told(a) == IF a \in {"none", "receipt", "conflict"} THEN a ELSE "failed"

Answer == [h \in Handle |-> Told(answer[h])]

LEMMA FunctionIsSeq ==
  ASSUME NEW S, NEW n \in Nat, NEW f \in [1..n -> S]
  PROVE  f \in Seq(S) /\ Len(f) = n
OBVIOUS

\* The head a caller would compare with is the one in the table of heads.
LEMMA CurrentIsHead ==
  ASSUME NEW n \in HeadName, Durable \in Image, Verified(Durable)
  PROVE  Abstract!Current(n) = Durable.heads[n]
<1> DEFINE N == Len(Durable.log)
           I == Abstract!Moves(n)
           last == CHOOSE i \in I : \A j \in I : j <= i
<1>1. N \in Nat /\ DOMAIN Durable.log = 1..N
  BY DEF Image
<1>2. I = MovesOf(Durable.log, N, n)
  BY <1>1 DEF Abstract!Moves, MovesOf
<1>3. Durable.heads[n] = HeadAfter(Durable.log, N, n)
  BY DEF Verified
<1>4. CASE I = {}
  BY <1>1, <1>2, <1>3, <1>4, HeadAfterCases DEF Abstract!Current
<1>5. CASE I # {}
  <2>1. PICK i \in I : /\ \A j \in I : j <= i
                       /\ HeadAfter(Durable.log, N, n) =
                            [record |-> Durable.log[i].tx.request.news[n], seq |-> i]
    BY <1>1, <1>2, <1>5, HeadAfterCases
  <2>2. last \in I /\ \A j \in I : j <= last
    BY <2>1
  <2>3. i \in 1..N /\ last \in 1..N
    BY <1>2, <2>1, <2>2 DEF MovesOf
  <2>4. i = last
    BY <2>1, <2>2, <2>3
  <2>5. Abstract!Current(n) = [record |-> History[last].request.news[n], seq |-> last]
    BY <1>5 DEF Abstract!Current, History
  <2> QED
    BY <1>1, <1>3, <2>1, <2>3, <2>4, <2>5 DEF History
<1> QED
  BY <1>4, <1>5

LEMMA ExpectedIsCurrent ==
  ASSUME NEW t \in Tx, Durable \in Image, Verified(Durable)
  PROVE  Abstract!HeadsAsExpected(t) <=> ~StaleHead(Durable, t)
<1>1. DOMAIN t.request.news \subseteq HeadName
  BY RequestAssumption DEF Tx
<1> QED
  BY <1>1, CurrentIsHead DEF Abstract!HeadsAsExpected, StaleHead

-----------------------------------------------------------------------------
(* The kinds of steps.                                                     *)

LEMMA StutterStep ==
  ASSUME Durable' = Durable, Phase' = Phase, UNCHANGED <<tx, answer, receipts>>
  PROVE  UNCHANGED Abstract!vars
BY DEF Abstract!vars, Phase

LEMMA ReturnStep ==
  ASSUME TypeOK, NEW h \in Handle, NEW a, Return(h, a), Durable' = Durable
  PROVE  Abstract!Return(h, Told(a))
BY DEF Abstract!Return, Return, EndPass, TypeOK, Calling, Told

LEMMA FailureStep ==
  ASSUME TypeOK, NEW h \in Handle, NEW a, Return(h, a), Durable' = Durable,
         pc[h] \in Calling, Told(a) = "failed", receipts' = receipts
  PROVE  Abstract!Next
<1>1. Abstract!Return(h, "failed")
  BY ReturnStep
<1> QED
  BY <1>1 DEF Abstract!Next, Abstract!GiveUp, Calling

LEMMA ForgetStep ==
  ASSUME TypeOK, NEW H \in SUBSET Handle, Forget(H), Durable' = Durable
  PROVE  Abstract!Next
<1>1. Abstract!Vanish(H)
  BY DEF Abstract!Vanish, Forget, TypeOK, Calling
<1> QED
  BY <1>1 DEF Abstract!Next

-----------------------------------------------------------------------------
(* The steps that take effect or report what the store holds.              *)

\* commit_many returns without its transaction; Durable is as before.
LEMMA RefuseStep ==
  ASSUME IInv, NEW h \in Handle, Refuse(h), Durable' = Durable
  PROVE  Abstract!Next
<1>0. TypeOK /\ pc[h] = "locked" /\ pc[h] \in Calling
  BY DEF IInv, TypeInv, Refuse, Calling
<1>1. /\ tx[h] \in Tx /\ base[h] = Durable
      /\ Durable \in Image /\ Verified(Durable)
  BY <1>0, DurableTyped DEF IInv, TypeInv, WorkInv, Work, Writing, StoreVerifies
<1>2. PICK a \in {"integrity", "validation", "conflict"} :
        Return(h, a) /\ (a = "conflict" => Decision(base[h], tx[h]) = "conflict")
  BY DEF Refuse
<1>3. CASE a = "conflict"
  <2>1. ~Abstract!HeadsAsExpected(tx[h])
    BY <1>1, <1>2, <1>3, ExpectedIsCurrent DEF Decision
  <2>2. Abstract!Return(h, "conflict")
    BY <1>0, <1>2, <1>3, ReturnStep DEF Told
  <2>3. receipts' = receipts
    BY DEF Refuse
  <2> QED
    BY <1>0, <2>1, <2>2, <2>3 DEF Abstract!Next, Abstract!GiveConflict
<1>4. CASE a # "conflict"
  <2>1. Told(a) = "failed" /\ receipts' = receipts
    BY <1>2, <1>4 DEF Refuse, Told
  <2> QED
    BY <1>0, <1>2, <2>1, FailureStep
<1> QED
  BY <1>3, <1>4

\* The receipt of an exact retry is that of the one event its heads still name.
LEMMA RepeatStep ==
  ASSUME IInv, NEW h \in Handle, Repeat(h), Durable' = Durable
  PROVE  Abstract!Next
<1>0. TypeOK /\ pc[h] = "locked" /\ pc[h] \in Calling
  BY DEF IInv, TypeInv, Repeat, Calling
<1>1. /\ tx[h] \in Tx /\ base[h] = Durable
      /\ Durable \in Image /\ Verified(Durable)
  BY <1>0, DurableTyped DEF IInv, TypeInv, WorkInv, Work, Writing, StoreVerifies
<1>2. DOMAIN tx[h].request.news # {} /\ DOMAIN tx[h].request.news \subseteq HeadName
  BY <1>1, RequestAssumption DEF Tx
<1>3. PICK i \in RepeatsAt(Durable, tx[h]) : TRUE
  BY <1>1 DEF Repeat, Decision
<1> DEFINE Headed(j) == \A n \in DOMAIN tx[h].request.news : Durable.heads[n].seq = j
<1>3a. ASSUME NEW j \in RepeatsAt(Durable, tx[h]) PROVE Headed(j)
  <2> SUFFICES ASSUME NEW n \in DOMAIN tx[h].request.news PROVE Durable.heads[n].seq = j
    OBVIOUS
  <2>1. Durable.heads[n] = [record |-> tx[h].request.news[n], seq |-> j]
    BY DEF RepeatsAt, MovedHead
  <2> QED
    BY <2>1
<1>4. ASSUME NEW j \in RepeatsAt(Durable, tx[h]) PROVE j = i
  BY <1>2, <1>3a
<1>5. receipts' = receipts \cup {Abstract!Receipt(tx[h], i)}
  <2>1. {[tx |-> tx[h], seq |-> j] : j \in RepeatsAt(Durable, tx[h])} =
          {[tx |-> tx[h], seq |-> i]}
    BY <1>4
  <2> QED
    BY <1>1, <2>1 DEF Repeat, Abstract!Receipt
<1>6. i \in DOMAIN History /\ History[i] = tx[h]
  BY DEF RepeatsAt, History
<1>7. \A n \in DOMAIN tx[h].request.news : Abstract!Current(n).seq = i
  BY <1>1, <1>2, <1>3a, CurrentIsHead
<1>8. Abstract!Return(h, "receipt")
  <2>1. Return(h, "receipt")
    BY DEF Repeat
  <2>2. Told("receipt") = "receipt"
    BY DEF Told
  <2> QED
    BY <1>0, <2>1, <2>2, ReturnStep
<1>9. Abstract!GiveReceipt(h)
  BY <1>0, <1>5, <1>6, <1>7, <1>8 DEF Abstract!GiveReceipt, History
<1> QED
  BY <1>9 DEF Abstract!Next

\* A confirmed commit is answered with the sequence its event has for good.
LEMMA ConfirmStep ==
  ASSUME IInv, NEW h \in Handle, Confirm(h), Durable' = Durable
  PROVE  Abstract!Next
<1> DEFINE i == Len(base[h].log) + 1
<1>0. TypeOK /\ pc[h] = "readback" /\ pc[h] \in Calling
  BY DEF IInv, TypeInv, Confirm, Calling
<1>1. tx[h] \in Tx /\ base[h] \in Image /\ Durable \in Image
  BY <1>0, DurableTyped DEF IInv, TypeInv, TypeOK
<1>2. Keeps(Durable.log, AppendTx(base[h], tx[h]).log)
  BY <1>0 DEF IInv, WorkInv, Work
<1>3. /\ Len(base[h].log) \in Nat
      /\ Len(AppendTx(base[h], tx[h]).log) = i
      /\ AppendTx(base[h], tx[h]).log[i] =
           [tx |-> tx[h], inserted |-> tx[h].request.records \ base[h].records]
  BY <1>1, AppendTxLog
<1>4. AppendTx(base[h], tx[h]).log[i].tx = tx[h]
  BY <1>3
<1>5. i \in DOMAIN History /\ History[i] = tx[h]
  <2>1. i \in DOMAIN Durable.log /\ Durable.log[i] = AppendTx(base[h], tx[h]).log[i]
    BY <1>1, <1>2, <1>3 DEF Keeps, Image
  <2> QED
    BY <1>4, <2>1 DEF History
<1>6. receipts' = receipts \cup {Abstract!Receipt(tx[h], i)}
  BY DEF Confirm, Abstract!Receipt
<1>7. Abstract!Return(h, "receipt")
  <2>1. Return(h, "receipt")
    BY DEF Confirm
  <2>2. Told("receipt") = "receipt"
    BY DEF Told
  <2> QED
    BY <1>0, <2>1, <2>2, ReturnStep
<1> HIDE DEF i
<1>8. Abstract!GiveReceipt(h)
  BY <1>0, <1>5, <1>6, <1>7 DEF Abstract!GiveReceipt, History
<1> QED
  BY <1>8 DEF Abstract!Next

\* The transaction takes effect when COMMIT deletes the journal.
LEMMA EffectStep ==
  ASSUME IInv, NEW h \in Handle, FinishCommit(h), DurableStep(h)
  PROVE  Abstract!Next
<1>0. TypeOK /\ pc[h] = "committing" /\ journal = "hot"
  BY DEF IInv, TypeInv, FinishCommit, LockInv
<1>1. /\ tx[h] \in Tx /\ Decision(Durable, tx[h]) = "append"
      /\ Durable' = AppendTx(Durable, tx[h])
      /\ Durable \in Image /\ Verified(Durable)
  BY <1>0, DurableTyped DEF IInv, DurableStep, StoreVerifies
<1>2. Abstract!HeadsAsExpected(tx[h])
  BY <1>1, AppendDecision, ExpectedIsCurrent
<1>3. StartPass(h, "readback") /\ UNCHANGED <<tx, answer, receipts>>
  BY <1>0 DEF FinishCommit, call
<1>4. History' = Append(History, tx[h])
  <2>1. /\ Len(Durable.log) \in Nat
        /\ DOMAIN Durable.log = 1..Len(Durable.log)
        /\ DOMAIN Durable'.log = 1..(Len(Durable.log) + 1)
        /\ \A i \in 1..Len(Durable.log) : Durable'.log[i] = Durable.log[i]
        /\ Durable'.log[Len(Durable.log) + 1] =
             [tx |-> tx[h], inserted |-> tx[h].request.records \ Durable.records]
    BY <1>1, AppendTxLog
  <2>2. Durable'.log[Len(Durable.log) + 1].tx = tx[h]
    BY <2>1
  <2>3. History \in Seq(Tx) /\ Len(History) = Len(Durable.log)
    <3>1. ASSUME NEW i \in DOMAIN Durable.log PROVE Durable.log[i].tx \in Tx
      <4>1. Durable.log \in Seq(Event)
        BY <1>1 DEF Image
      <4>2. Durable.log[i] \in Event
        BY <2>1, <4>1
      <4> QED
        BY <4>2 DEF Event
    <3>2. History \in [1..Len(Durable.log) -> Tx]
      BY <2>1, <3>1 DEF History
    <3> QED
      BY <2>1, <3>2, FunctionIsSeq
  <2> QED
    BY <2>1, <2>2, <2>3 DEF History
<1>5. Abstract!TakeEffect(h)
  BY <1>0, <1>2, <1>3, <1>4
     DEF Abstract!TakeEffect, History, StartPass, TypeOK, Calling
<1> QED
  BY <1>5 DEF Abstract!Next

-----------------------------------------------------------------------------
(* The simulation.                                                         *)

LEMMA RefinementInit == Init => Abstract!Init
BY EmptyVerified DEF Init, Abstract!Init, Abstract!NobodyCalled, Durable, EmptyImage,
   Calling

LEMMA RefinementStep ==
  ASSUME SingleHandle, IInv, [Next]_vars
  PROVE  [Abstract!Next]_(Abstract!vars)
<1> USE DEF Calling
<1>0. TypeOK
  BY DEF IInv, TypeInv
<1>1. ASSUME NEW h \in Handle, NEW m \in {"ro", "rw"}, Open(h, m)
      PROVE  UNCHANGED Abstract!vars
  BY <1>0, <1>1, FileKeeps, StutterStep DEF Open, StartPass, Phase, TypeOK, pass, call
<1>2. ASSUME NEW h \in Handle, Close(h) PROVE Abstract!Next
  BY <1>0, <1>2, FileKeeps, ForgetStep DEF Close
<1>3. ASSUME NEW h \in Handle, NEW n \in HeadName, ReadHead(h, n)
      PROVE  UNCHANGED Abstract!vars
  BY <1>3, ReadPagesKeeps, StutterStep DEF ReadHead, Phase
<1>4. ASSUME NEW h \in Handle, NEW r \in Request, Call(h, r) PROVE Abstract!Next
  <2>1. Durable' = Durable /\ receipts' = receipts
    BY <1>4, FileKeeps DEF Call, file
  <2>2. pc[h] = "ready" /\ pc' = [pc EXCEPT ![h] = "called"]
        /\ answer' = [answer EXCEPT ![h] = "none"]
    BY <1>4 DEF Call
  <2>3. tx'[h] \in Tx /\ tx' = [tx EXCEPT ![h] = tx'[h]]
    <3>1. TypeInv'
      BY TypeStep DEF IInv
    <3>2. pc'[h] \in Calling
      BY <1>0, <2>2 DEF TypeOK
    <3>3. tx'[h] \in Tx
      BY <3>1, <3>2 DEF TypeInv
    <3>4. tx' = [tx EXCEPT ![h] = tx'[h]]
      BY <1>0, <1>4 DEF Call, TypeOK
    <3> QED
      BY <3>3, <3>4
  <2>4. Abstract!Invoke(h)
    BY <1>0, <2>1, <2>2, <2>3 DEF Abstract!Invoke, TypeOK
  <2> QED
    BY <2>4 DEF Abstract!Next
<1>5. ASSUME NEW h \in Handle, Scan(h) PROVE UNCHANGED Abstract!vars
  BY <1>5, ReadPagesKeeps, StutterStep DEF Scan, Phase, call
<1>6. ASSUME NEW h \in Handle, FailOpen(h) PROVE Abstract!Next
  BY <1>0, <1>6, FileKeeps, ForgetStep DEF FailOpen
<1>7. ASSUME NEW h \in Handle, PassOpen(h) PROVE UNCHANGED Abstract!vars
  BY <1>0, <1>7, FileKeeps, StutterStep
     DEF PassOpen, StartPass, EndPass, Phase, TypeOK, file, call
<1>8. ASSUME NEW h \in Handle, Begin(h) PROVE UNCHANGED Abstract!vars
  BY <1>0, <1>8, ReadPagesKeeps, StutterStep DEF Begin, Phase, TypeOK
<1>9. ASSUME NEW h \in Handle, Busy(h) PROVE Abstract!Next
  BY <1>0, <1>9, FileKeeps, FailureStep DEF Busy, Told, file
<1>10. ASSUME NEW h \in Handle, Refuse(h) PROVE Abstract!Next
  BY <1>10, FileKeeps, RefuseStep DEF Refuse
<1>11. ASSUME NEW h \in Handle, Repeat(h) PROVE Abstract!Next
  BY <1>11, FileKeeps, RepeatStep DEF Repeat
<1>12. ASSUME NEW h \in Handle, Insert(h) PROVE UNCHANGED Abstract!vars
  <2>1. Durable' = Durable
    BY <1>12 DEF Insert, Durable, IInv, LockInv
  <2> QED
    BY <1>0, <1>12, <2>1, StutterStep DEF Insert, Phase, TypeOK, call
<1>13. ASSUME NEW h \in Handle, StartCommit(h) PROVE UNCHANGED Abstract!vars
  <2>1. Durable' = Durable
    BY <1>13 DEF StartCommit, Durable, IInv, LockInv, WorkInv, Work, Writing
  <2> QED
    BY <1>0, <1>13, <2>1, StutterStep DEF StartCommit, Phase, TypeOK, call
<1>14. ASSUME NEW h \in Handle, FinishCommit(h) PROVE Abstract!Next
  BY <1>14, FinishAppends, EffectStep DEF IInv
<1>15. ASSUME NEW h \in Handle, Fail(h) PROVE Abstract!Next
  BY <1>0, <1>15, FileKeeps, FailureStep DEF Fail, Durable, Told
<1>16. ASSUME NEW h \in Handle, Confirm(h) PROVE Abstract!Next
  BY <1>16, ReadPagesKeeps, ConfirmStep DEF Confirm
<1>17. ASSUME NEW h \in Handle, Unconfirmed(h) PROVE Abstract!Next
  BY <1>0, <1>17, FileKeeps, FailureStep DEF Unconfirmed, Told, file
<1>18. ASSUME NEW h \in Handle, Unserved(h) PROVE Abstract!Next
  BY <1>0, <1>18, FileKeeps, FailureStep DEF Unserved, Told, file
<1>19. ASSUME NEW p \in Process, Crash(p) PROVE Abstract!Next
  BY <1>0, <1>19, FileKeeps, ForgetStep DEF Crash
<1>20. CASE UNCHANGED vars
  BY <1>20, FileKeeps, StutterStep DEF vars, file, call, Phase
<1> QED
  BY <1>1, <1>2, <1>3, <1>4, <1>5, <1>6, <1>7, <1>8, <1>9, <1>10, <1>11, <1>12,
     <1>13, <1>14, <1>15, <1>16, <1>17, <1>18, <1>19, <1>20 DEF Next, Step

\* The store implements the atomic multi-head register of AtomicStore: a
\* commit_many takes effect at one instant, the end of its COMMIT, whatever
\* crashes, retries and races surround it, and what callers are told fits.
THEOREM Refinement == ASSUME SingleHandle PROVE Spec => ImplementsAtomicStore
<1>1. Init => Abstract!Init
  BY RefinementInit
<1>2. IInv /\ [Next]_vars => [Abstract!Next]_(Abstract!vars)
  BY RefinementStep
<1> QED
  BY <1>1, <1>2, Invariance, PTL DEF Spec, ImplementsAtomicStore, Abstract!Spec
=============================================================================

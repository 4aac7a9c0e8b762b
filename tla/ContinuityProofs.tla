-------------------------- MODULE ContinuityProofs --------------------------
(***************************************************************************)
(* The facade for any number of callers, processes, states of the target   *)
(* and attempts: the lineage stays one chain, what is committed was seen,  *)
(* an initialize succeeds only with its own inputs, and a checkpoint gives *)
(* up only when other processes have moved the head for every attempt.     *)
(***************************************************************************)
EXTENDS Continuity, FiniteSetTheorems, TLAPS

-----------------------------------------------------------------------------
(* The inductive invariant.                                                *)

\* The variables of the store, which TypeOK leaves to it.
StoreTyped ==
  /\ history \in Seq(Transaction)
  /\ phase \in [Caller -> {"idle", "pending", "done"}]
  /\ tx \in [Caller -> Transaction \cup {NoTx}]

\* Where a call is and what it has by then.
Place(c) ==
  /\ pc[c] = "wait" <=> phase[c] # "idle"
  /\ pc[c] = "wait" => tx[c] \in Transaction
  /\ pc[c] = "idle" => attempt[c] = 0
  /\ pc[c] # "idle" => op[c] # "none" /\ result[c] = "none"
  /\ pc[c] \in {"C", "commit", "wait"} => op[c] \in {"initialize", "checkpoint"}
  /\ pc[c] = "reconcile" => op[c] = "initialize" /\ history # <<>>
  /\ op[c] \in {"checkpoint", "verify"} => history # <<>>
  /\ \/ pc[c] \in {"B", "C", "commit", "wait", "reconcile"}
     \/ op[c] = "initialize" /\ pc[c] \in {"lock", "head"}
     => snap[c] \in State

\* Where a checkpoint works on the head it has read.
Working == {"A", "B", "C", "commit", "wait"}

\* Where a call holds the lock of its process.
Locked(c) ==
  \/ op[c] = "checkpoint" /\ pc[c] \in {"head"} \cup Working
  \/ op[c] = "initialize" /\ pc[c] \in {"head", "commit", "wait", "reconcile"}

LockHeld(c) == Locked(c) => lock[ProcessOf[c]] = c

\* What the captures of a call have established about what it commits.
Sighted(c) ==
  /\ op[c] \in {"checkpoint", "verify"} /\ pc[c] \in Working => head[c] \in DOMAIN history
  /\ op[c] = "checkpoint" /\ pc[c] \in {"C", "commit", "wait"} =>
       /\ snap[c] = CheckpointAt(head[c]).target
       /\ ProfileOf[c] # "observe" =>
            CheckpointAt(head[c]).target \in Clean /\ CheckpointAt(head[c]).policy = PolicyOf[c]
  /\ op[c] = "checkpoint" /\ pc[c] \in {"commit", "wait"} =>
       looked[c].state = snap[c] /\ looked[c].at \in head[c]..Len(history)
  /\ op[c] = "checkpoint" /\ pc[c] = "wait" => tx[c] = ChildTx(c)
  /\ op[c] = "checkpoint" /\ phase[c] = "done" =>
       /\ head[c] + 1 \in DOMAIN history
       /\ history[head[c] + 1] = tx[c] /\ looked[c].at = head[c]
  /\ op[c] = "initialize" /\ pc[c] = "wait" =>
       \E t \in Instant : tx[c] = GenesisTx(c, snap[c], t)

\* Event i of log h was not committed by a checkpoint of c's process.
Foreign(h, c, i) ==
  LET by == h[i].request.stamp.by
  IN  by = NoCaller \/ ProcessOf[by] # ProcessOf[c]

ForeignIn(h, c, b, n) == {i \in b + 1 .. n : Foreign(h, c, i)}

\* Every attempt a checkpoint has lost was lost to an event of its own, and
\* while it works only foreign events are appended.
Counted(c) ==
  /\ result[c] = "conflict" =>
       Cardinality(ForeignIn(history, c, began[c], Len(history))) >= MaxAttempts
  /\ op[c] = "checkpoint" /\ pc[c] \in {"lock", "head"} =>
       /\ began[c] <= Len(history)
       /\ Cardinality(ForeignIn(history, c, began[c], Len(history))) >= attempt[c]
  /\ op[c] = "checkpoint" /\ pc[c] \in Working /\ phase[c] # "done" =>
       /\ began[c] <= head[c]
       /\ Cardinality(ForeignIn(history, c, began[c], head[c])) >= attempt[c]
       /\ \A i \in head[c] + 1 .. Len(history) : Foreign(history, c, i)

CallInv(c) == Place(c) /\ LockHeld(c) /\ Sighted(c) /\ Counted(c)

\* A receipt names an event that is there.
ReceiptsInLog == \A r \in receipts : r.seq \in DOMAIN history /\ history[r.seq] = r.tx

IInv ==
  /\ TypeOK /\ StoreTyped
  /\ \A c \in Caller : CallInv(c)
  /\ LinearChain /\ ReceiptsInLog /\ InitializeAgrees

-----------------------------------------------------------------------------
(* Counting foreign events.                                                *)

LEMMA ForeignCount ==
  ASSUME NEW h, NEW c, NEW b \in Nat, NEW m \in Nat, NEW n \in Nat, m <= n
  PROVE  /\ Cardinality(ForeignIn(h, c, b, m)) \in Nat
         /\ Cardinality(ForeignIn(h, c, b, n)) \in Nat
         /\ Cardinality(ForeignIn(h, c, b, m)) <= Cardinality(ForeignIn(h, c, b, n))
         /\ m < n /\ b <= m /\ Foreign(h, c, n) =>
              Cardinality(ForeignIn(h, c, b, m)) + 1 <= Cardinality(ForeignIn(h, c, b, n))
<1> DEFINE S == ForeignIn(h, c, b, m)
           T == ForeignIn(h, c, b, n)
<1>1. IsFiniteSet(T)
  <2>1. IsFiniteSet(b + 1 .. n)
    BY FS_Interval
  <2> QED
    BY <2>1, FS_Subset DEF ForeignIn
<1>2. S \in SUBSET T
  BY DEF ForeignIn
<1>3. IsFiniteSet(S) /\ Cardinality(S) <= Cardinality(T)
  BY <1>1, <1>2, FS_Subset
<1>4. Cardinality(S) \in Nat /\ Cardinality(T) \in Nat
  BY <1>1, <1>3, FS_CardinalityType
<1>5. ASSUME m < n, b <= m, Foreign(h, c, n)
      PROVE  Cardinality(S) + 1 <= Cardinality(T)
  <2>1. n \in T /\ n \notin S
    BY <1>5 DEF ForeignIn
  <2>2. S \in SUBSET (T \ {n})
    BY <1>2, <2>1
  <2>3. IsFiniteSet(T \ {n}) /\ Cardinality(T \ {n}) = Cardinality(T) - 1
    BY <1>1, <2>1, FS_RemoveElement
  <2>4. Cardinality(S) <= Cardinality(T \ {n})
    BY <2>2, <2>3, FS_Subset
  <2> QED
    BY <1>4, <2>3, <2>4
<1> QED
  BY <1>3, <1>4, <1>5

LEMMA ForeignPrefix ==
  ASSUME NEW h, NEW k, NEW c, NEW b \in Nat, NEW n \in Nat, \A i \in 1..n : k[i] = h[i]
  PROVE  /\ ForeignIn(k, c, b, n) = ForeignIn(h, c, b, n)
         /\ \A i \in 1..n : Foreign(k, c, i) <=> Foreign(h, c, i)
BY DEF ForeignIn, Foreign

-----------------------------------------------------------------------------
(* The log.                                                                *)

LEMMA LogTypes ==
  ASSUME StoreTyped
  PROVE  /\ Len(history) \in Nat /\ DOMAIN history = 1..Len(history)
         /\ \A i \in DOMAIN history :
              /\ history[i] \in Transaction
              /\ DOMAIN history[i].request.news = {HeadName}
              /\ CheckpointAt(i) \in Checkpoint
<1>1. Len(history) \in Nat /\ DOMAIN history = 1..Len(history)
  BY DEF StoreTyped
<1>2. ASSUME NEW i \in DOMAIN history
      PROVE  /\ history[i] \in Transaction
             /\ DOMAIN history[i].request.news = {HeadName}
             /\ CheckpointAt(i) \in Checkpoint
  <2>1. history[i] \in Transaction
    BY <1>1 DEF StoreTyped
  <2>2. history[i].request.news \in [{HeadName} -> Checkpoint]
    BY <2>1 DEF Transaction
  <2> QED
    BY <2>1, <2>2 DEF CheckpointAt
<1> QED
  BY <1>1, <1>2

LEMMA CurrentIsLast ==
  ASSUME StoreTyped
  PROVE  Store!Current(HeadName) =
           IF history = <<>> THEN NoHead
           ELSE [record |-> CheckpointAt(Len(history)), seq |-> Len(history)]
<1>1. Store!Moves(HeadName) = 1..Len(history) /\ Len(history) \in Nat
  BY LogTypes DEF Store!Moves
<1>2. history = <<>> <=> Len(history) = 0
  BY DEF StoreTyped
<1>3. CASE history = <<>>
  BY <1>1, <1>2, <1>3 DEF Store!Current
<1>4. CASE history # <<>>
  <2> DEFINE last == CHOOSE i \in Store!Moves(HeadName) : \A j \in Store!Moves(HeadName) : j <= i
  <2>1. Len(history) \in 1..Len(history) /\ \A j \in 1..Len(history) : j <= Len(history)
    BY <1>1, <1>2, <1>4
  <2>2. last \in 1..Len(history) /\ \A j \in 1..Len(history) : j <= last
    BY <1>1, <2>1
  <2>3. last = Len(history)
    BY <1>1, <2>1, <2>2
  <2> QED
    BY <1>1, <1>2, <1>4, <2>3 DEF Store!Current, CheckpointAt
<1> QED
  BY <1>3, <1>4

\* What a transaction of this module expects of the log to take effect.
LEMMA ExpectsHead ==
  ASSUME StoreTyped, NEW t, DOMAIN t.request.news = {HeadName}
  PROVE  Store!HeadsAsExpected(t) <=> Store!Current(HeadName) = t.expected[HeadName]
BY DEF Store!HeadsAsExpected

\* The log only grows.
Grows ==
  /\ StoreTyped'
  /\ Len(history) <= Len(history')
  /\ \A i \in DOMAIN history : history'[i] = history[i]

LEMMA GrowsFacts ==
  ASSUME StoreTyped, Grows
  PROVE  /\ DOMAIN history \subseteq DOMAIN history'
         /\ \A i \in DOMAIN history : CheckpointAt(i)' = CheckpointAt(i)
         /\ history # <<>> => history' # <<>>
<1>1. DOMAIN history \subseteq DOMAIN history'
  BY DEF StoreTyped, Grows
<1>2. ASSUME NEW i \in DOMAIN history PROVE CheckpointAt(i)' = CheckpointAt(i)
  BY DEF Grows, CheckpointAt
<1>3. history # <<>> => history' # <<>>
  BY DEF StoreTyped, Grows
<1> QED
  BY <1>1, <1>2, <1>3

-----------------------------------------------------------------------------
(* What a step of one caller leaves to the others.                         *)

OnlyCaller(c) ==
  \A d \in Caller \ {c} :
    UNCHANGED <<pc[d], op[d], attempt[d], head[d], snap[d], looked[d], began[d],
                result[d], phase[d], tx[d]>>

\* The store as a caller other than d may leave it: what is new in the log is
\* foreign to d if d holds the lock of its process, which it then keeps.
LetsBe(d) ==
  Locked(d) =>
    /\ lock'[ProcessOf[d]] = d
    /\ \A i \in Len(history) + 1 .. Len(history') : Foreign(history', d, i)

LEMMA OtherCaller ==
  ASSUME TypeOK, StoreTyped, Grows, NEW c, OnlyCaller(c), NEW d \in Caller \ {c},
         CallInv(d), LetsBe(d)
  PROVE  CallInv(d)'
<1>1. /\ UNCHANGED <<pc[d], op[d], attempt[d], head[d], snap[d], looked[d], began[d]>>
      /\ UNCHANGED <<result[d], phase[d], tx[d]>>
      /\ Place(d) /\ LockHeld(d) /\ Sighted(d) /\ Counted(d)
  BY DEF OnlyCaller, CallInv
<1>2. /\ DOMAIN history \subseteq DOMAIN history'
      /\ \A i \in DOMAIN history : CheckpointAt(i)' = CheckpointAt(i)
      /\ \A i \in DOMAIN history : history'[i] = history[i]
      /\ history # <<>> => history' # <<>>
      /\ DOMAIN history = 1..Len(history) /\ Len(history) \in Nat /\ Len(history') \in Nat
      /\ Len(history) <= Len(history')
  BY GrowsFacts, LogTypes DEF Grows, StoreTyped
<1>3. /\ head[d] \in Nat /\ began[d] \in Nat /\ attempt[d] \in Nat
      /\ MaxAttempts \in Nat /\ looked[d].at \in Nat
  BY CallerAssumption DEF TypeOK
<1>4. Place(d)'
  BY <1>1, <1>2 DEF Place
<1>5. Locked(d)' <=> Locked(d)
  BY <1>1 DEF Locked
<1>6. LockHeld(d)'
  BY <1>5 DEF LetsBe, LockHeld
<1>7. Sighted(d)'
  <2>1. op[d] \in {"checkpoint", "verify"} /\ pc[d] \in Working =>
          head[d] \in DOMAIN history /\ CheckpointAt(head[d]) \in Checkpoint
    BY <1>1, LogTypes DEF Sighted
  <2>2. head[d] \in DOMAIN history =>
          history'[head'[d]].request.news = history[head[d]].request.news
    BY <1>1, <1>2
  <2>3. op[d] = "checkpoint" /\ pc[d] \in Working =>
          /\ history'[head'[d]].request.news[HeadName] = CheckpointAt(head[d])
    BY <2>1, <2>2 DEF CheckpointAt
  <2>4. op[d] = "checkpoint" /\ pc[d] \in Working => ChildTx(d)' = ChildTx(d)
    BY <1>1, <2>3 DEF ChildTx, Child, CheckpointAt
  <2>5. op[d] = "checkpoint" /\ phase[d] = "done" => pc[d] = "wait"
    BY <1>1 DEF Place
  <2>6. head[d] + 1 \in DOMAIN history =>
          head[d] + 1 \in DOMAIN history' /\ history'[head[d] + 1] = history[head[d] + 1]
    BY <1>2
  <2>7. looked[d].at \in head[d]..Len(history) => looked[d].at \in head[d]..Len(history')
    BY <1>2, <1>3
  <2>8. op'[d] \in {"checkpoint", "verify"} /\ pc'[d] \in Working => head'[d] \in DOMAIN history'
    BY <1>1, <1>2, <2>1
  <2>9. op'[d] = "checkpoint" /\ pc'[d] \in {"C", "commit", "wait"} =>
       /\ snap'[d] = CheckpointAt(head[d])'.target
       /\ ProfileOf[d] # "observe" =>
            CheckpointAt(head[d])'.target \in Clean /\ CheckpointAt(head[d])'.policy = PolicyOf[d]
    BY <1>1, <2>3 DEF CheckpointAt, Sighted, Working
  <2>10. op'[d] = "initialize" /\ pc'[d] = "wait" =>
       \E t \in Instant : tx'[d] = GenesisTx(d, snap'[d], t)
    BY <1>1 DEF Sighted
  <2>11. op'[d] = "checkpoint" /\ pc'[d] = "wait" => tx'[d] = ChildTx(d)'
    BY <1>1, <2>4 DEF Sighted, Working
  <2>12. op'[d] = "checkpoint" /\ pc'[d] \in {"commit", "wait"} =>
       looked'[d].state = snap'[d] /\ looked'[d].at \in head'[d]..Len(history')
    BY <1>1, <2>7 DEF Sighted
  <2>13. op'[d] = "checkpoint" /\ phase'[d] = "done" =>
       /\ head'[d] + 1 \in DOMAIN history'
       /\ history'[head'[d] + 1] = tx'[d] /\ looked'[d].at = head'[d]
    BY <1>1, <2>6 DEF Sighted
  <2> QED
    BY <2>8, <2>9, <2>10, <2>11, <2>12, <2>13 DEF Sighted
<1>8. Counted(d)'
  <2> DEFINE was == ForeignIn(history, d, began[d], Len(history))
             now == ForeignIn(history', d, began[d], Len(history'))
  <2>1. /\ ForeignIn(history', d, began[d], Len(history)) = was
        /\ \A n \in 0..Len(history) : ForeignIn(history', d, began[d], n) = ForeignIn(history, d, began[d], n)
        /\ \A i \in 1..Len(history) : Foreign(history', d, i) <=> Foreign(history, d, i)
    <3>1. ASSUME NEW n \in 0..Len(history)
          PROVE  ForeignIn(history', d, began[d], n) = ForeignIn(history, d, began[d], n)
      <4>1. n \in Nat /\ \A i \in 1..n : history'[i] = history[i]
        BY <1>2
      <4> QED
        BY <1>3, <4>1 DEF ForeignIn, Foreign
    <3>2. \A i \in 1..Len(history) : Foreign(history', d, i) <=> Foreign(history, d, i)
      BY <1>2 DEF Foreign
    <3> QED
      BY <1>2, <3>1, <3>2
  <2>2. Cardinality(was) \in Nat /\ Cardinality(now) \in Nat /\ Cardinality(was) <= Cardinality(now)
    BY <1>2, <1>3, <2>1, ForeignCount
  <2>3. result'[d] = "conflict" => Cardinality(now) >= MaxAttempts
    BY <1>1, <1>3, <2>2 DEF Counted
  <2>4. op'[d] = "checkpoint" /\ pc'[d] \in {"lock", "head"} =>
          began'[d] <= Len(history') /\ Cardinality(now) >= attempt'[d]
    BY <1>1, <1>2, <1>3, <2>2 DEF Counted
  <2>5. ASSUME op'[d] = "checkpoint", pc'[d] \in Working, phase'[d] # "done"
        PROVE  /\ began'[d] <= head'[d]
               /\ Cardinality(ForeignIn(history', d, began[d], head[d])) >= attempt'[d]
               /\ \A i \in head'[d] + 1 .. Len(history') : Foreign(history', d, i)
    <3>1. head[d] \in DOMAIN history /\ Locked(d)
      BY <1>1, <2>5 DEF Sighted, Locked
    <3>2. /\ began[d] <= head[d]
          /\ Cardinality(ForeignIn(history, d, began[d], head[d])) >= attempt[d]
          /\ \A i \in head[d] + 1 .. Len(history) : Foreign(history, d, i)
      BY <1>1, <2>5 DEF Counted
    <3>3. ForeignIn(history', d, began[d], head[d]) = ForeignIn(history, d, began[d], head[d])
      BY <1>2, <2>1, <3>1
    <3>4. ASSUME NEW i \in head[d] + 1 .. Len(history') PROVE Foreign(history', d, i)
      <4>1. CASE i <= Len(history)
        BY <1>2, <1>3, <2>1, <3>2, <4>1
      <4>2. CASE ~(i <= Len(history))
        BY <1>2, <1>3, <3>1, <4>2 DEF LetsBe
      <4> QED
        BY <4>1, <4>2
    <3> QED
      BY <1>1, <3>2, <3>3, <3>4
  <2> QED
    BY <1>1, <2>3, <2>4, <2>5 DEF Counted
<1> QED
  BY <1>4, <1>6, <1>7, <1>8 DEF CallInv

-----------------------------------------------------------------------------
(* Types, by what a step may touch.                                        *)

Answers == {"none", "unavailable", "refused", "allowed", "receipt", "conflict", "already",
            "error"}

CallsTyped ==
  /\ lock \in [Process -> Caller \cup {NoCaller}]
  /\ pc \in [Caller -> Places]
  /\ op \in [Caller -> {"none", "initialize", "checkpoint", "verify"}]
  /\ attempt \in [Caller -> 0..(MaxAttempts - 1)]
  /\ head \in [Caller -> Nat]
  /\ snap \in [Caller -> State \cup {NoState}]
  /\ looked \in [Caller -> [state : State \cup {NoState}, at : Nat]]
  /\ began \in [Caller -> Nat]
  /\ result \in [Caller -> Answers]
  /\ calls \in 0..MaxCalls

RestTyped ==
  /\ world \in State /\ changes \in 0..MaxChanges
  /\ results \subseteq [seq : Nat, intent : Intent]
  /\ \A c \in Caller : tx[c] \in Transaction \cup {NoTx}

LEMMA TypeParts ==
  /\ TypeOK <=> CallsTyped /\ RestTyped
  /\ TypeOK' <=> CallsTyped' /\ RestTyped'
BY DEF TypeOK, CallsTyped, RestTyped, Answers

\* A step that leaves the store alone.
LEMMA QuietStore ==
  ASSUME StoreTyped, UNCHANGED store
  PROVE  StoreTyped' /\ Grows /\ history' = history
BY DEF store, StoreTyped, Grows

\* A step of c that adds nothing to the log.
LEMMA Assemble ==
  ASSUME IInv, NEW c \in Caller, TypeOK', StoreTyped', OnlyCaller(c), history' = history,
         CallInv(c)', \A d \in Caller \ {c} : Locked(d) => lock'[ProcessOf[d]] = d,
         ReceiptsInLog', InitializeAgrees'
  PROVE  IInv'
<1> USE DEF IInv
<1>1. Grows
  BY DEF Grows
<1>2. ASSUME NEW d \in Caller \ {c} PROVE CallInv(d)'
  <2>1. LetsBe(d)
    <3>1. Len(history) + 1 .. Len(history') = {}
      BY DEF StoreTyped
    <3> QED
      BY <3>1 DEF LetsBe
  <2> QED
    BY <1>1, <2>1, OtherCaller
<1>3. LinearChain'
  BY DEF LinearChain, CheckpointAt
<1> QED
  BY <1>2, <1>3

\* Nobody loses a lock to a step of c that only gives its own back.
LEMMA LocksKept ==
  ASSUME IInv, NEW c \in Caller, UNCHANGED lock \/ Unlock(c), NEW d \in Caller \ {c}, Locked(d)
  PROVE  lock'[ProcessOf[d]] = d
<1>1. lock[ProcessOf[d]] = d /\ ProcessOf[d] \in Process
  BY CallerAssumption DEF IInv, CallInv, LockHeld
<1> QED
  BY <1>1 DEF Unlock

LEMMA FinishTyped ==
  ASSUME CallsTyped, NEW c \in Caller, NEW r \in Answers, Finish(c, r)
  PROVE  CallsTyped'
<1>1. 0 \in 0..(MaxAttempts - 1) /\ 0 \in Nat /\ "idle" \in Places
  BY CallerAssumption DEF Places
<1>2. NoLook \in [state : State \cup {NoState}, at : Nat]
  BY DEF NoLook
<1>3. lock' \in [Process -> Caller \cup {NoCaller}]
  BY DEF CallsTyped, Finish, Unlock
<1>4. attempt' \in [Caller -> 0..(MaxAttempts - 1)] /\ head' \in [Caller -> Nat]
  BY <1>1 DEF CallsTyped, Finish
<1>5. began' \in [Caller -> Nat]
  BY <1>1 DEF CallsTyped, Finish
<1>6. looked' \in [Caller -> [state : State \cup {NoState}, at : Nat]]
  BY <1>2 DEF CallsTyped, Finish
<1> QED
  BY <1>1, <1>3, <1>4, <1>5, <1>6 DEF CallsTyped, Finish, Goto

\* A call that is over.
LEMMA FinishInv ==
  ASSUME IInv, NEW c \in Caller, NEW r \in Answers, Finish(c, r), RestTyped', StoreTyped',
         history' = history, phase'[c] = "idle",
         \A d \in Caller \ {c} : UNCHANGED <<phase[d], tx[d]>>,
         r = "conflict" =>
           Cardinality(ForeignIn(history, c, began[c], Len(history))) >= MaxAttempts,
         ReceiptsInLog', InitializeAgrees'
  PROVE  IInv'
<1>0. CallsTyped
  BY TypeParts DEF IInv
<1>1. CallsTyped' /\ TypeOK'
  BY <1>0, FinishTyped, TypeParts
<1>2. /\ pc'[c] = "idle" /\ op'[c] = "none" /\ attempt'[c] = 0 /\ result'[c] = r
      /\ r = "conflict" => began'[c] = began[c]
  BY <1>0 DEF CallsTyped, Finish, Goto
<1>3. OnlyCaller(c)
  BY <1>0 DEF CallsTyped, Finish, Goto, OnlyCaller
<1>4. CallInv(c)'
  <2>1. Place(c)'
    BY <1>2 DEF Place
  <2>2. LockHeld(c)' /\ Sighted(c)'
    <3>1. phase'[c] # "done" /\ op'[c] \notin {"checkpoint", "verify", "initialize"}
      BY <1>2
    <3> QED
      BY <3>1 DEF LockHeld, Locked, Sighted
  <2>3. Counted(c)'
    BY <1>2 DEF Counted
  <2> QED
    BY <2>1, <2>2, <2>3 DEF CallInv
<1>5. \A d \in Caller \ {c} : Locked(d) => lock'[ProcessOf[d]] = d
  BY LocksKept DEF Finish
<1> QED
  BY <1>1, <1>3, <1>4, <1>5, Assemble

-----------------------------------------------------------------------------
(* The steps of a call before it commits.                                  *)

LEMMA ChangeInv ==
  ASSUME IInv, Change PROVE IInv'
<1> USE DEF IInv
<1>1. /\ changes' = changes + 1 /\ changes < MaxChanges /\ world' \in State
      /\ UNCHANGED <<lock, pc, local, told, store>>
  BY DEF Change
<1>2. TypeOK'
  <2>1. changes' \in 0..MaxChanges
    BY <1>1, CallerAssumption DEF TypeOK
  <2> QED
    BY <1>1, <2>1 DEF TypeOK, local, told, store
<1>3. StoreTyped' /\ LinearChain' /\ ReceiptsInLog' /\ InitializeAgrees'
  BY <1>1 DEF StoreTyped, LinearChain, ReceiptsInLog, InitializeAgrees, CheckpointAt, store, told
<1>4. ASSUME NEW c \in Caller PROVE CallInv(c)'
  <2>1. CallInv(c)
    OBVIOUS
  <2> QED
    BY <1>1, <2>1
       DEF CallInv, Place, LockHeld, Locked, Sighted, Counted, ForeignIn, Foreign, ChildTx,
           Child, CheckpointAt, local, told, store
<1> QED
  BY <1>2, <1>3, <1>4

LEMMA StartInv ==
  ASSUME IInv, NEW c \in Caller, NEW call \in {"initialize", "checkpoint", "verify"},
         Start(c, call)
  PROVE  IInv'
<1> USE DEF IInv
<1>0. CallsTyped /\ RestTyped /\ StoreTyped /\ Len(history) \in Nat /\ CallInv(c)
  BY TypeParts, LogTypes
<1>1. /\ pc[c] = "idle" /\ calls < MaxCalls /\ calls' = calls + 1
      /\ UNCHANGED <<lock, attempt, head, snap, looked, results, store, world, changes>>
  BY DEF Start, Quiet
<1>2. attempt[c] = 0 /\ phase[c] = "idle" /\ history' = history /\ UNCHANGED <<phase, tx, receipts>>
  BY <1>0, <1>1 DEF CallInv, Place, told, store
<1>3. calls' \in 0..MaxCalls
  BY <1>0, <1>1, CallerAssumption DEF CallsTyped
<1>4. StoreTyped' /\ RestTyped' /\ ReceiptsInLog' /\ InitializeAgrees'
  BY <1>0, <1>1, <1>2 DEF StoreTyped, RestTyped, ReceiptsInLog, InitializeAgrees, CheckpointAt
<1>5. CASE call # "initialize" /\ history = <<>>
  <2>1. /\ result' = [result EXCEPT ![c] = "unavailable"]
        /\ began' = [began EXCEPT ![c] = 0] /\ UNCHANGED <<pc, op>>
    BY <1>5 DEF Start
  <2>2. CallsTyped'
    BY <1>0, <1>1, <1>3, <2>1 DEF CallsTyped, Answers
  <2>3. OnlyCaller(c) /\ result'[c] = "unavailable"
    BY <1>0, <1>1, <1>2, <2>1 DEF OnlyCaller, CallsTyped
  <2>4. CallInv(c)'
    <3>1. Place(c)' /\ LockHeld(c)'
      BY <1>0, <1>1, <1>2, <2>1 DEF CallInv, Place, LockHeld, Locked, Working
    <3>2. Sighted(c)' /\ Counted(c)'
      BY <1>1, <1>2, <2>1, <2>3 DEF Sighted, Counted, Working
    <3> QED
      BY <3>1, <3>2 DEF CallInv
  <2> QED
    BY <1>1, <1>2, <1>4, <2>2, <2>3, <2>4, Assemble, LocksKept, TypeParts
<1>6. CASE ~(call # "initialize" /\ history = <<>>)
  <2> DEFINE first == CASE call = "initialize" -> "A" [] call = "checkpoint" -> "lock"
                        [] call = "verify" -> "head"
  <2>1. /\ result' = [result EXCEPT ![c] = "none"]
        /\ began' = [began EXCEPT ![c] = Len(history)]
        /\ op' = [op EXCEPT ![c] = call] /\ pc' = [pc EXCEPT ![c] = first]
    BY <1>6 DEF Start, Goto
  <2>2. first \in {"A", "lock", "head"} /\ first \in Places
    BY DEF Places
  <2>3. CallsTyped'
    <3>1. began' \in [Caller -> Nat]
      BY <1>0, <2>1 DEF CallsTyped
    <3> QED
      BY <1>0, <1>1, <1>3, <2>1, <2>2, <3>1 DEF CallsTyped, Answers
  <2>4. OnlyCaller(c)
    BY <1>0, <1>1, <1>2, <2>1 DEF OnlyCaller, CallsTyped
  <2>5. pc'[c] = first /\ op'[c] = call /\ result'[c] = "none" /\ began'[c] = Len(history)
    BY <1>0, <2>1 DEF CallsTyped
  <2>6. Place(c)'
    BY <1>0, <1>1, <1>2, <1>6, <2>5 DEF Place
  <2>7. LockHeld(c)' /\ Sighted(c)'
    <3>1. ~Locked(c)' /\ ~(op'[c] \in {"checkpoint", "verify"} /\ pc'[c] \in Working)
      BY <2>5 DEF Locked, Working
    <3> QED
      BY <1>2, <2>5, <3>1 DEF LockHeld, Sighted, Working
  <2>8. Counted(c)'
    <3>1. Cardinality(ForeignIn(history, c, Len(history), Len(history))) \in Nat
      BY <1>0, ForeignCount
    <3>2. /\ result'[c] # "conflict" /\ began'[c] <= Len(history')
          /\ Cardinality(ForeignIn(history', c, began'[c], Len(history'))) >= attempt'[c]
      BY <1>0, <1>1, <1>2, <2>5, <3>1
    <3>3. ~(op'[c] = "checkpoint" /\ pc'[c] \in Working)
      BY <2>5 DEF Working
    <3> QED
      BY <3>2, <3>3 DEF Counted
  <2> QED
    BY <1>1, <1>2, <1>4, <2>3, <2>4, <2>6, <2>7, <2>8, Assemble, LocksKept, TypeParts DEF CallInv
<1> QED
  BY <1>5, <1>6

\* A step of a call that neither ends it nor touches the store.
LEMMA QuietStep ==
  ASSUME IInv, NEW c \in Caller, UNCHANGED <<told, store>>, Quiet, CallsTyped',
         OnlyCaller(c), CallInv(c)',
         \A d \in Caller \ {c} : Locked(d) => lock'[ProcessOf[d]] = d
  PROVE  IInv'
<1>1. RestTyped' /\ StoreTyped' /\ ReceiptsInLog' /\ InitializeAgrees' /\ history' = history
  BY TypeParts DEF IInv, RestTyped, StoreTyped, ReceiptsInLog, InitializeAgrees, CheckpointAt,
                   told, store, Quiet
<1> QED
  BY <1>1, Assemble, TypeParts

LEMMA LockInv ==
  ASSUME IInv, NEW c \in Caller, Lock(c) PROVE IInv'
<1> USE DEF IInv
<1>0. CallsTyped /\ CallInv(c)
  BY TypeParts
<1>1. /\ pc[c] = "lock" /\ lock[ProcessOf[c]] = NoCaller
      /\ lock' = [lock EXCEPT ![ProcessOf[c]] = c] /\ pc' = [pc EXCEPT ![c] = "head"]
      /\ UNCHANGED <<local, told, store>> /\ Quiet
  BY DEF Lock, Goto
<1>2. ProcessOf[c] \in Process /\ "head" \in Places
  BY CallerAssumption DEF Places
<1>3. CallsTyped' /\ OnlyCaller(c) /\ pc'[c] = "head" /\ lock'[ProcessOf[c]] = c
  BY <1>0, <1>1, <1>2 DEF CallsTyped, OnlyCaller, local, told, store
<1>4. CallInv(c)'
  <2>1. Place(c)'
    BY <1>0, <1>1, <1>3 DEF CallInv, Place, local, told, store
  <2>2. LockHeld(c)'
    BY <1>3 DEF LockHeld
  <2>3. Sighted(c)'
    BY <1>0, <1>1, <1>3 DEF CallInv, Place, Sighted, Working, local, store
  <2>4. Counted(c)'
    BY <1>0, <1>1, <1>3 DEF CallInv, Counted, Working, local, told, store
  <2> QED
    BY <2>1, <2>2, <2>3, <2>4 DEF CallInv
<1>5. ASSUME NEW d \in Caller \ {c}, Locked(d) PROVE lock'[ProcessOf[d]] = d
  <2>1. lock[ProcessOf[d]] = d /\ ProcessOf[d] \in Process /\ d # NoCaller
    BY <1>5, CallerAssumption DEF CallInv, LockHeld
  <2> QED
    BY <1>0, <1>1, <2>1 DEF CallsTyped
<1> QED
  BY <1>1, <1>3, <1>4, <1>5, QuietStep

LEMMA ReadHeadInv ==
  ASSUME IInv, NEW c \in Caller, ReadHead(c) PROVE IInv'
<1> USE DEF IInv
<1>0. CallsTyped /\ CallInv(c) /\ Len(history) \in Nat /\ DOMAIN history = 1..Len(history)
  BY TypeParts, LogTypes
<1>1. /\ pc[c] = "head"
      /\ UNCHANGED <<lock, op, attempt, snap, looked, began, told, store>> /\ Quiet
      /\ phase[c] = "idle"
  BY <1>0 DEF ReadHead, CallInv, Place
<1>2. {"commit", "reconcile", "A"} \subseteq Places
  BY DEF Places
<1>3. \A d \in Caller \ {c} : Locked(d) => lock'[ProcessOf[d]] = d
  BY <1>1, LocksKept
<1>4. CASE op[c] = "initialize" /\ UNCHANGED head
           /\ pc' = [pc EXCEPT ![c] = IF history = <<>> THEN "commit" ELSE "reconcile"]
  <2>1. CallsTyped' /\ OnlyCaller(c)
    BY <1>0, <1>1, <1>2, <1>4 DEF CallsTyped, OnlyCaller, told, store
  <2>2. pc'[c] = IF history = <<>> THEN "commit" ELSE "reconcile"
    BY <1>0, <1>4 DEF CallsTyped
  <2>3. CallInv(c)'
    <3>1. Place(c)'
      BY <1>0, <1>1, <1>4, <2>2 DEF CallInv, Place, told, store
    <3>2. LockHeld(c)'
      BY <1>0, <1>1, <1>4 DEF CallInv, LockHeld, Locked
    <3>3. Sighted(c)' /\ Counted(c)'
      BY <1>0, <1>1, <1>4, <2>2 DEF CallInv, Sighted, Counted, told, store
    <3> QED
      BY <3>1, <3>2, <3>3 DEF CallInv
  <2> QED
    BY <1>1, <1>3, <2>1, <2>3, QuietStep
<1>5. ASSUME op[c] \in {"checkpoint", "verify"}, NEW i \in DOMAIN history,
             op[c] = "checkpoint" => i = Len(history),
             head' = [head EXCEPT ![c] = i], pc' = [pc EXCEPT ![c] = "A"]
      PROVE  IInv'
  <2>1. CallsTyped' /\ OnlyCaller(c) /\ pc'[c] = "A" /\ head'[c] = i
    BY <1>0, <1>1, <1>2, <1>5 DEF CallsTyped, OnlyCaller, told, store
  <2>2. CallInv(c)'
    <3>1. Place(c)'
      BY <1>0, <1>1, <1>5, <2>1 DEF CallInv, Place, told, store
    <3>2. LockHeld(c)'
      BY <1>0, <1>1, <1>5 DEF CallInv, LockHeld, Locked
    <3>3. Sighted(c)'
      BY <1>0, <1>1, <1>5, <2>1 DEF CallInv, Sighted, told, store
    <3>4. Counted(c)'
      <4>1. op[c] = "checkpoint" => i = Len(history) /\ i + 1 .. Len(history) = {}
        BY <1>0, <1>5
      <4> QED
        BY <1>0, <1>1, <2>1, <4>1 DEF CallInv, Counted, told, store
    <3> QED
      BY <3>1, <3>2, <3>3, <3>4 DEF CallInv
  <2> QED
    BY <1>1, <1>3, <2>1, <2>2, QuietStep
<1>6. op[c] = "checkpoint" => Len(history) \in DOMAIN history
  <2>1. op[c] = "checkpoint" => Len(history) # 0
    BY <1>0 DEF CallInv, Place, StoreTyped
  <2> QED
    BY <1>0, <2>1
<1> QED
  BY <1>4, <1>5, <1>6 DEF ReadHead, Goto

LEMMA CaptureAInv ==
  ASSUME IInv, NEW c \in Caller, CaptureA(c) PROVE IInv'
<1> USE DEF IInv
<1>0. CallsTyped /\ CallInv(c) /\ world \in State /\ Len(history) \in Nat
  BY TypeParts, LogTypes DEF RestTyped
<1>1. /\ pc[c] = "A" /\ pc' = [pc EXCEPT ![c] = "B"] /\ snap' = [snap EXCEPT ![c] = world]
      /\ looked' = [looked EXCEPT ![c] = [state |-> world, at |-> Len(history)]]
      /\ UNCHANGED <<lock, op, attempt, head, began, told, store>> /\ Quiet
      /\ phase[c] = "idle"
  BY <1>0 DEF CaptureA, Look, Goto, CallInv, Place
<1>2. "B" \in Places
  BY DEF Places
<1>3. CallsTyped' /\ OnlyCaller(c) /\ pc'[c] = "B" /\ snap'[c] = world
  BY <1>0, <1>1, <1>2 DEF CallsTyped, OnlyCaller, told, store
<1>4. CallInv(c)'
  <2>1. Place(c)'
    BY <1>0, <1>1, <1>3 DEF CallInv, Place, told, store
  <2>2. LockHeld(c)'
    BY <1>0, <1>1, <1>3 DEF CallInv, LockHeld, Locked, Working
  <2>3. Sighted(c)'
    BY <1>0, <1>1, <1>3 DEF CallInv, Sighted, Working, store
  <2>4. Counted(c)'
    BY <1>0, <1>1, <1>3 DEF CallInv, Counted, Working, told, store
  <2> QED
    BY <2>1, <2>2, <2>3, <2>4 DEF CallInv
<1> QED
  BY <1>1, <1>3, <1>4, QuietStep, LocksKept

-----------------------------------------------------------------------------
(* What an allowed evaluation says of the captures.                        *)

\* A profile other than observe does not permit a transition with a finding of
\* unknown.
LEMMA UnknownRefuses ==
  ASSUME NEW profile \in {"guard", "strict"}, NEW F,
         \A f \in F : f.verdict = "unknown", F # {}
  PROVE  ~EvaluationResult(profile, F).transition_allowed
<1>1. \A v \in Verdict : VERDICT_RANK[v] = CASE v = "pass" -> 0 [] v = "warn" -> 1
                                             [] v = "unknown" -> 2 [] v = "block" -> 3
  BY DEF VERDICT_RANK
<1>2. VERDICT_RANK["unknown"] = 2 /\ VERDICT_RANK["pass"] = 0 /\ "unknown" \in Verdict
  BY <1>1 DEF Verdict
<1>3. PICK f \in F : f.verdict = "unknown"
  OBVIOUS
<1> DEFINE Is(v) == /\ v = "pass" \/ \E g \in F : g.verdict = v
                    /\ \A g \in F : VERDICT_RANK[g.verdict] <= VERDICT_RANK[v]
<1>4. Is("unknown")
  BY <1>2, <1>3
<1>5. \A v \in Verdict : Is(v) => v = "unknown"
  BY <1>2, <1>3
<1>6. Worst(F) = "unknown"
  BY <1>2, <1>4, <1>5 DEF Worst
<1> QED
  BY <1>6 DEF EvaluationResult, Allowed

LEMMA AllowedMeansSeen ==
  ASSUME NEW c \in Caller, NEW cp, NEW a \in State, NEW b \in State,
         Result(c, cp, a, b).transition_allowed
  PROVE  /\ b = a /\ a = cp.target
         /\ ProfileOf[c] # "observe" => a \in Clean /\ cp.policy = PolicyOf[c]
<1>1. b = a /\ a = cp.target
  BY DEF Result, MatchesCheckpoint, ForcedRefusal
<1>2. EvaluationResult(ProfileOf[c], CheckpointFindings(c, cp, a, b)).transition_allowed
  BY DEF Result, MatchesCheckpoint, ForcedRefusal
<1>3. \A f \in CheckpointFindings(c, cp, a, b) : f.verdict = "unknown"
  BY DEF CheckpointFindings, SnapshotFindings, Observation
<1>4. ProfileOf[c] # "observe" => CheckpointFindings(c, cp, a, b) = {}
  BY <1>2, <1>3, UnknownRefuses, CallerAssumption DEF Profile
<1>5. CheckpointFindings(c, cp, a, b) = {} => a \in Clean /\ cp.policy = PolicyOf[c]
  <2>1. ASSUME a \notin Clean PROVE CheckpointFindings(c, cp, a, b) # {}
    BY <2>1 DEF CheckpointFindings, SnapshotFindings
  <2>2. ASSUME cp.policy # PolicyOf[c] PROVE CheckpointFindings(c, cp, a, b) # {}
    <3>1. <<cp.target, cp.policy>> \in {p \in {<<cp.target, cp.policy>>} : p # <<a, PolicyOf[c]>>}
      BY <2>2
    <3> QED
      BY <3>1 DEF CheckpointFindings
  <2> QED
    BY <2>1, <2>2
<1> QED
  BY <1>1, <1>4, <1>5

LEMMA QuietFinish ==
  ASSUME IInv, NEW c \in Caller, NEW r \in Answers \ {"conflict"}, Finish(c, r),
         UNCHANGED <<results, store>>, Quiet, pc[c] # "wait"
  PROVE  IInv'
<1>1. RestTyped' /\ StoreTyped' /\ ReceiptsInLog' /\ InitializeAgrees' /\ history' = history
  BY TypeParts DEF IInv, RestTyped, StoreTyped, ReceiptsInLog, InitializeAgrees, CheckpointAt,
                   store, Quiet
<1>2. phase'[c] = "idle" /\ UNCHANGED <<phase, tx>>
  BY DEF IInv, CallInv, Place, StoreTyped, store
<1> QED
  BY <1>1, <1>2, FinishInv

LEMMA CaptureBInv ==
  ASSUME IInv, NEW c \in Caller, CaptureB(c) PROVE IInv'
<1> USE DEF IInv
<1>0. CallsTyped /\ CallInv(c) /\ world \in State /\ Len(history) \in Nat
  BY TypeParts, LogTypes DEF RestTyped
<1>1. pc[c] = "B" /\ UNCHANGED store /\ Quiet
  BY DEF CaptureB
<1> DEFINE r == IF op[c] = "initialize"
                THEN GenesisResult(c, snap[c], world)
                ELSE Result(c, CheckpointAt(head[c]), snap[c], world)
<1>2. CASE ~(op[c] # "verify" /\ r.transition_allowed)
  <2>1. /\ Finish(c, IF r.transition_allowed THEN "allowed" ELSE "refused")
        /\ UNCHANGED results
    BY <1>2 DEF CaptureB
  <2> QED
    BY <1>1, <2>1, QuietFinish DEF Answers
<1>3. CASE op[c] # "verify" /\ r.transition_allowed
  <2>1. /\ pc' = [pc EXCEPT ![c] = "C"]
        /\ looked' = [looked EXCEPT ![c] = [state |-> world, at |-> Len(history)]]
        /\ UNCHANGED <<lock, op, attempt, head, snap, began, told>>
    BY <1>3 DEF CaptureB, Look, Goto
  <2>2. "C" \in Places
    BY DEF Places
  <2>3. CallsTyped' /\ OnlyCaller(c) /\ pc'[c] = "C"
    BY <1>0, <1>1, <2>1, <2>2 DEF CallsTyped, OnlyCaller, told, store
  <2>4. op[c] \in {"initialize", "checkpoint"} /\ snap[c] \in State /\ phase[c] = "idle"
    BY <1>0, <1>1, <1>3 DEF CallInv, Place, CallsTyped, StoreTyped
  <2>5. CallInv(c)'
    <3>1. Place(c)'
      BY <1>0, <1>1, <2>1, <2>3, <2>4 DEF CallInv, Place, told, store
    <3>2. LockHeld(c)'
      BY <1>0, <1>1, <2>1, <2>3, <2>4 DEF CallInv, LockHeld, Locked, Working
    <3>3. Sighted(c)'
      <4>1. op[c] = "checkpoint" =>
              /\ head[c] \in DOMAIN history /\ snap[c] = CheckpointAt(head[c]).target
              /\ ProfileOf[c] # "observe" =>
                   snap[c] \in Clean /\ CheckpointAt(head[c]).policy = PolicyOf[c]
        <5>1. op[c] = "checkpoint" => Result(c, CheckpointAt(head[c]), snap[c], world).transition_allowed
          BY <1>3
        <5>2. op[c] = "checkpoint" => head[c] \in DOMAIN history
          BY <1>0, <1>1 DEF CallInv, Sighted, Working
        <5> QED
          BY <1>0, <2>4, <5>1, <5>2, AllowedMeansSeen
      <4>2. CheckpointAt(head[c])' = CheckpointAt(head[c])
        BY <1>1, <2>1 DEF CheckpointAt, store
      <4>3. UNCHANGED <<op, head, snap, phase, history>> /\ phase'[c] = "idle"
        BY <1>1, <2>1, <2>4 DEF store
      <4>4. pc'[c] \notin {"commit", "wait"} /\ phase'[c] # "done" /\ op'[c] # "verify"
        BY <1>3, <2>3, <4>3
      <4> QED
        BY <4>1, <4>2, <4>3, <4>4 DEF Sighted
    <3>4. Counted(c)'
      BY <1>0, <1>1, <2>1, <2>3 DEF CallInv, Counted, Working, told, store
    <3> QED
      BY <3>1, <3>2, <3>3, <3>4 DEF CallInv
  <2>6. UNCHANGED lock
    BY <2>1
  <2> QED
    BY <1>1, <2>1, <2>3, <2>5, <2>6, QuietStep, LocksKept
<1> QED
  BY <1>2, <1>3

LEMMA CaptureCInv ==
  ASSUME IInv, NEW c \in Caller, CaptureC(c) PROVE IInv'
<1> USE DEF IInv
<1>0. CallsTyped /\ CallInv(c) /\ world \in State /\ Len(history) \in Nat
      /\ DOMAIN history = 1..Len(history)
  BY TypeParts, LogTypes DEF RestTyped
<1>1. pc[c] = "C" /\ UNCHANGED store /\ Quiet
  BY DEF CaptureC
<1>2. CASE ~(world = snap[c] /\ MatchesPolicy(c, world))
  BY <1>1, <1>2, QuietFinish DEF Answers, CaptureC
<1>3. CASE world = snap[c] /\ MatchesPolicy(c, world)
  <2> DEFINE next == IF op[c] = "initialize" THEN "lock" ELSE "commit"
  <2>1. /\ pc' = [pc EXCEPT ![c] = next]
        /\ looked' = [looked EXCEPT ![c] = [state |-> world, at |-> Len(history)]]
        /\ UNCHANGED <<lock, op, attempt, head, snap, began, told>>
    BY <1>3 DEF CaptureC, Look, Goto
  <2>2. next \in Places
    BY DEF Places
  <2>3. CallsTyped' /\ OnlyCaller(c) /\ pc'[c] = next
    BY <1>0, <1>1, <2>1, <2>2 DEF CallsTyped, OnlyCaller, told, store
  <2>4. /\ looked'[c].state = snap[c] /\ looked'[c].at = Len(history)
        /\ op[c] \in {"initialize", "checkpoint"} /\ snap[c] \in State /\ phase[c] = "idle"
    BY <1>0, <1>1, <1>3, <2>1 DEF CallInv, Place, CallsTyped, StoreTyped
  <2>5. CallInv(c)'
    <3>1. Place(c)'
      BY <1>0, <1>1, <2>1, <2>3, <2>4 DEF CallInv, Place, told, store
    <3>2. LockHeld(c)'
      BY <1>0, <1>1, <2>1, <2>3, <2>4 DEF CallInv, LockHeld, Locked, Working
    <3>3. Sighted(c)'
      <4>1. op[c] = "checkpoint" =>
              /\ head[c] \in DOMAIN history /\ snap[c] = CheckpointAt(head[c]).target
              /\ ProfileOf[c] # "observe" =>
                   CheckpointAt(head[c]).target \in Clean
                   /\ CheckpointAt(head[c]).policy = PolicyOf[c]
        BY <1>0, <1>1 DEF CallInv, Sighted, Working
      <4>2. CheckpointAt(head[c])' = CheckpointAt(head[c])
        BY <1>1, <2>1 DEF CheckpointAt, store
      <4>3. UNCHANGED <<op, head, snap, phase, history>> /\ phase'[c] = "idle"
        BY <1>1, <2>1, <2>4 DEF store
      <4>4. op[c] = "checkpoint" => looked'[c].at \in head[c]..Len(history)
        BY <1>0, <2>4, <4>1
      <4>5. pc'[c] # "wait" /\ phase'[c] # "done" /\ op'[c] # "verify"
        BY <2>3, <2>4, <4>3
      <4> QED
        BY <2>4, <4>1, <4>2, <4>3, <4>4, <4>5 DEF Sighted
    <3>4. Counted(c)'
      BY <1>0, <1>1, <2>1, <2>3, <2>4 DEF CallInv, Counted, Working, told, store
    <3> QED
      BY <3>1, <3>2, <3>3, <3>4 DEF CallInv
  <2>6. UNCHANGED lock
    BY <2>1
  <2> QED
    BY <1>1, <2>1, <2>3, <2>5, <2>6, QuietStep, LocksKept
<1> QED
  BY <1>2, <1>3

-----------------------------------------------------------------------------
(* The commit and its answers.                                             *)

LEMMA CommitInv ==
  ASSUME IInv, NEW c \in Caller, Commit(c) PROVE IInv'
<1> USE DEF IInv
<1>0. CallsTyped /\ RestTyped /\ CallInv(c) /\ StoreTyped
  BY TypeParts
<1>1. /\ pc[c] = "commit" /\ pc' = [pc EXCEPT ![c] = "wait"]
      /\ phase' = [phase EXCEPT ![c] = "pending"] /\ tx'[c] \in Transaction
      /\ tx' = [tx EXCEPT ![c] = tx'[c]]
      /\ UNCHANGED <<history, receipts, lock, local, told>> /\ Quiet
  BY DEF Commit, Goto, Store!Invoke
<1>2. \/ op[c] = "initialize" /\ \E t \in Instant : tx'[c] = GenesisTx(c, snap[c], t)
      \/ op[c] = "checkpoint" /\ tx'[c] = ChildTx(c)
  BY <1>0 DEF Commit, StoreTyped
<1>3. "wait" \in Places
  BY DEF Places
<1>4. CallsTyped' /\ StoreTyped' /\ OnlyCaller(c) /\ pc'[c] = "wait" /\ phase'[c] = "pending"
  BY <1>0, <1>1, <1>3 DEF CallsTyped, StoreTyped, OnlyCaller, local, told
<1>5. RestTyped' /\ ReceiptsInLog' /\ InitializeAgrees'
  BY <1>0, <1>1, <1>4
     DEF RestTyped, ReceiptsInLog, InitializeAgrees, CheckpointAt, StoreTyped, told, Quiet
<1>6. CallInv(c)'
  <2>1. Place(c)'
    BY <1>0, <1>1, <1>2, <1>4 DEF CallInv, Place, local, told
  <2>2. LockHeld(c)'
    BY <1>0, <1>1, <1>2, <1>4 DEF CallInv, LockHeld, Locked, Working, local
  <2>3. Sighted(c)'
    <3>1. UNCHANGED <<op, head, snap, looked, history>>
      BY <1>1 DEF local
    <3>2. CheckpointAt(head[c])' = CheckpointAt(head[c]) /\ ChildTx(c)' = ChildTx(c)
      BY <3>1 DEF CheckpointAt, ChildTx, Child
    <3> QED
      BY <1>0, <1>1, <1>2, <1>4, <3>1, <3>2 DEF CallInv, Sighted, Working
  <2>4. Counted(c)'
    BY <1>0, <1>1, <1>2, <1>4 DEF CallInv, Place, Counted, Working, local, told
  <2> QED
    BY <2>1, <2>2, <2>3, <2>4 DEF CallInv
<1> QED
  BY <1>1, <1>4, <1>5, <1>6, Assemble, LocksKept, TypeParts

LEMMA Reparented ==
  ASSUME NEW x \in Checkpoint, NEW p, x.parent = p, x.audit_parent = p
  PROVE  x = [x EXCEPT !.parent = p, !.audit_parent = p]
BY DEF Checkpoint

\* A transaction takes effect: a genesis first, a checkpoint on the head that
\* its caller has read.
LEMMA TakeEffectInv ==
  ASSUME IInv, NEW c \in Caller, TakeEffect(c) PROVE IInv'
<1> USE DEF IInv
<1>0. /\ CallsTyped /\ RestTyped /\ CallInv(c) /\ StoreTyped
      /\ Len(history) \in Nat /\ DOMAIN history = 1..Len(history)
  BY TypeParts, LogTypes
<1>1. /\ pc[c] = "wait" /\ phase[c] = "pending" /\ Store!HeadsAsExpected(tx[c])
      /\ history' = Append(history, tx[c]) /\ phase' = [phase EXCEPT ![c] = "done"]
      /\ UNCHANGED <<tx, receipts, lock, pc, local, told>> /\ Quiet
  BY DEF TakeEffect, Store!TakeEffect
<1>2. /\ UNCHANGED <<op, attempt, head, snap, looked, began, result, results, calls>>
      /\ UNCHANGED <<world, changes>>
  BY <1>1 DEF local, told, Quiet
<1>3. tx[c] \in Transaction /\ phase'[c] = "done" /\ result[c] = "none"
  BY <1>0, <1>1 DEF CallInv, Place, StoreTyped
<1>4. /\ history' \in Seq(Transaction) /\ Len(history') = Len(history) + 1
      /\ \A i \in 1..Len(history) : history'[i] = history[i]
      /\ history'[Len(history) + 1] = tx[c]
  BY <1>0, <1>1, <1>3 DEF StoreTyped
<1>5. StoreTyped' /\ TypeOK' /\ Grows
  <2>1. StoreTyped'
    BY <1>0, <1>1, <1>4 DEF StoreTyped
  <2>2. TypeOK'
    BY <1>0, <1>1, <1>2, TypeParts DEF CallsTyped, RestTyped
  <2> QED
    BY <1>0, <1>4, <2>1, <2>2 DEF Grows
<1>6. OnlyCaller(c)
  BY <1>0, <1>1, <1>2 DEF OnlyCaller, StoreTyped
<1>7. DOMAIN tx[c].request.news = {HeadName}
  BY <1>3 DEF Transaction
<1>8. Store!Current(HeadName) = tx[c].expected[HeadName]
  BY <1>0, <1>1, <1>7, ExpectsHead
<1>9. \A i \in DOMAIN history : CheckpointAt(i)' = CheckpointAt(i)
  BY <1>0, <1>5, GrowsFacts
<1>10. history'[Len(history) + 1].request.news[HeadName] = tx[c].request.news[HeadName]
  BY <1>4
<1>11. CASE op[c] = "initialize"
  <2>1. PICK t \in Instant : tx[c] = GenesisTx(c, snap[c], t)
    BY <1>0, <1>1, <1>11 DEF CallInv, Sighted
  <2>2. history = <<>>
    <3>1. tx[c].expected[HeadName] = NoHead
      BY <2>1 DEF GenesisTx
    <3>2. ASSUME history # <<>> PROVE FALSE
      <4>1. Len(history) \in DOMAIN history
        BY <1>0, <3>2 DEF StoreTyped
      <4>2. CheckpointAt(Len(history)) \in Checkpoint
        BY <1>0, <4>1, LogTypes
      <4> QED
        BY <1>0, <1>8, <3>1, <3>2, <4>2, CurrentIsLast, NoHeadAssumption
    <3> QED
      BY <3>2
  <2>3. /\ Len(history) = 0 /\ Len(history') = 1
        /\ CheckpointAt(1)' = Genesis(c, snap[c]) /\ history'[1].request.kind = "initialize"
        /\ history'[1].request.stamp.by = NoCaller
    <3>1. Len(history) = 0 /\ Len(history') = 1 /\ history'[1] = GenesisTx(c, snap[c], t)
      BY <1>4, <2>1, <2>2
    <3> QED
      BY <3>1 DEF GenesisTx, CheckpointAt
  <2>4. LinearChain'
    <3>1. Genesis(c, snap[c]) = [Genesis(c, snap[c]) EXCEPT !.parent = 0, !.audit_parent = 0]
      <4>1. tx[c].request.news \in [{HeadName} -> Checkpoint]
        BY <1>3 DEF Transaction
      <4>2. Genesis(c, snap[c]) \in Checkpoint
        BY <2>1, <4>1 DEF GenesisTx
      <4>3. Genesis(c, snap[c]).parent = 0 /\ Genesis(c, snap[c]).audit_parent = 0
        BY DEF Genesis
      <4> QED
        BY <4>2, <4>3, Reparented
    <3>2. DOMAIN history' = {1}
      BY <1>4, <2>3
    <3> QED
      BY <2>3, <3>1, <3>2 DEF LinearChain, CheckpointAt
  <2>5. ASSUME NEW d \in Caller \ {c} PROVE LetsBe(d)
    BY <1>1, <1>4, <2>3 DEF LetsBe, Foreign, CallInv, LockHeld
  <2>6. CallInv(c)'
    <3>1. Place(c)'
      BY <1>0, <1>1, <1>2, <1>3, <1>11 DEF CallInv, Place
    <3>2. LockHeld(c)'
      BY <1>0, <1>1, <1>2, <1>11 DEF CallInv, LockHeld, Locked
    <3>3. Sighted(c)' /\ Counted(c)'
      BY <1>1, <1>2, <1>3, <1>11, <2>1 DEF Sighted, Counted
    <3> QED
      BY <3>1, <3>2, <3>3 DEF CallInv
  <2>7. ReceiptsInLog' /\ InitializeAgrees'
    BY <1>1, <1>2, <2>2 DEF ReceiptsInLog, InitializeAgrees, StoreTyped
  <2> QED
    BY <1>5, <1>6, <2>4, <2>5, <2>6, <2>7, OtherCaller
<1>12. CASE op[c] = "checkpoint"
  <2>1. /\ tx[c] = ChildTx(c) /\ history # <<>> /\ head[c] \in DOMAIN history
        /\ looked[c].state = snap[c] /\ looked[c].at \in head[c]..Len(history)
    BY <1>0, <1>1, <1>12 DEF CallInv, Place, Sighted, Working
  <2>2. Len(history) = head[c] /\ Len(history) \in DOMAIN history
    <3>1. Store!Current(HeadName).seq = Len(history)
      BY <1>0, <2>1, CurrentIsLast
    <3>2. tx[c].expected[HeadName].seq = head[c]
      BY <2>1 DEF ChildTx
    <3> QED
      BY <1>8, <2>1, <3>1, <3>2
  <2>3. /\ history'[Len(history) + 1].request.news[HeadName] = Child(c)
        /\ history'[Len(history) + 1].request.kind = "checkpoint"
        /\ history'[Len(history) + 1].request.stamp.by = c
    BY <1>4, <1>10, <2>1 DEF ChildTx
  <2>4. LinearChain'
    <3>1. 1 \in DOMAIN history /\ CheckpointAt(1) \in Checkpoint
      BY <1>0, <2>2, LogTypes
    <3>2. CheckpointAt(1)' = CheckpointAt(1)
      BY <1>9, <3>1
    <3>3. ASSUME NEW i \in DOMAIN history'
          PROVE  /\ CheckpointAt(i)' = [CheckpointAt(1) EXCEPT !.parent = i - 1,
                                                               !.audit_parent = i - 1]
                 /\ (i = 1) <=> (history'[i].request.kind = "initialize")
      <4>1. CASE i \in DOMAIN history
        BY <1>0, <1>4, <1>9, <4>1 DEF LinearChain
      <4>2. CASE i \notin DOMAIN history
        <5>1. i = Len(history) + 1 /\ i - 1 = head[c] /\ i # 1
          BY <1>0, <1>4, <2>2, <4>2
        <5>2. CheckpointAt(head[c]) = [CheckpointAt(1) EXCEPT !.parent = head[c] - 1,
                                                              !.audit_parent = head[c] - 1]
          BY <2>1 DEF LinearChain
        <5>3. Child(c) = [CheckpointAt(1) EXCEPT !.parent = head[c], !.audit_parent = head[c]]
          <6>1. [[CheckpointAt(1) EXCEPT !.parent = head[c] - 1, !.audit_parent = head[c] - 1]
                    EXCEPT !.parent = head[c], !.audit_parent = head[c]]
                  = [CheckpointAt(1) EXCEPT !.parent = head[c], !.audit_parent = head[c]]
            BY <3>1 DEF Checkpoint
          <6> QED
            BY <5>2, <6>1 DEF Child
        <5> QED
          BY <2>3, <5>1, <5>3 DEF CheckpointAt
      <4> QED
        BY <4>1, <4>2
    <3> QED
      BY <3>2, <3>3 DEF LinearChain
  <2>5. ASSUME NEW d \in Caller \ {c} PROVE LetsBe(d)
    <3>1. lock[ProcessOf[c]] = c
      BY <1>0, <1>1, <1>12 DEF CallInv, LockHeld, Locked, Working
    <3>2. Locked(d) => lock[ProcessOf[d]] = d
      BY DEF CallInv, LockHeld
    <3>3. Locked(d) => Foreign(history', d, Len(history) + 1)
      BY <2>3, <3>1, <3>2 DEF Foreign
    <3> QED
      BY <1>0, <1>1, <1>4, <3>2, <3>3 DEF LetsBe
  <2>6. CallInv(c)'
    <3>1. Place(c)'
      BY <1>0, <1>1, <1>2, <1>3, <1>4, <1>12 DEF CallInv, Place
    <3>2. LockHeld(c)'
      BY <1>0, <1>1, <1>2, <1>12 DEF CallInv, LockHeld, Locked
    <3>3. Sighted(c)'
      <4>1. CheckpointAt(head[c])' = CheckpointAt(head[c])
        BY <1>2, <1>9, <2>1 DEF CheckpointAt
      <4>2. ChildTx(c)' = ChildTx(c)
        BY <1>2, <4>1 DEF ChildTx, Child
      <4>3. /\ head[c] + 1 \in DOMAIN history' /\ history'[head[c] + 1] = tx[c]
            /\ looked[c].at = head[c] /\ head[c] \in DOMAIN history'
            /\ looked[c].at \in head[c]..Len(history')
        BY <1>0, <1>4, <2>1, <2>2
      <4> QED
        BY <1>0, <1>1, <1>2, <1>12, <2>1, <4>1, <4>2, <4>3 DEF CallInv, Sighted
    <3>4. Counted(c)'
      BY <1>1, <1>2, <1>3 DEF Counted
    <3> QED
      BY <3>1, <3>2, <3>3, <3>4 DEF CallInv
  <2>7. ReceiptsInLog' /\ InitializeAgrees'
    <3>1. \A i \in DOMAIN history : i \in DOMAIN history' /\ history'[i] = history[i]
      BY <1>0, <1>4
    <3> QED
      BY <1>1, <1>2, <3>1 DEF ReceiptsInLog, InitializeAgrees, CheckpointAt
  <2> QED
    BY <1>5, <1>6, <2>4, <2>5, <2>6, <2>7, OtherCaller
<1> QED
  BY <1>0, <1>1, <1>11, <1>12 DEF CallInv, Place

\* The store answers c: its transaction is over.
LEMMA Returned ==
  ASSUME StoreTyped, RestTyped, NEW c \in Caller, NEW a, Store!Return(c, a)
  PROVE  /\ StoreTyped' /\ history' = history /\ phase'[c] = "idle"
         /\ \A d \in Caller : tx'[d] \in Transaction \cup {NoTx}
         /\ \A d \in Caller \ {c} : UNCHANGED <<phase[d], tx[d]>>
BY DEF StoreTyped, RestTyped, Store!Return

\* A receipt for an event with the intent of the call.
LEMMA ReceiveInv ==
  ASSUME IInv, NEW c \in Caller, NEW i \in DOMAIN history, Receive(c, i), Quiet,
         StoreTyped', history' = history, phase'[c] = "idle",
         \A d \in Caller : tx'[d] \in Transaction \cup {NoTx},
         \A d \in Caller \ {c} : UNCHANGED <<phase[d], tx[d]>>,
         op[c] = "initialize" => CheckpointAt(i).intent = IntentOf(c, snap[c]),
         ReceiptsInLog'
  PROVE  IInv'
<1>0. RestTyped /\ StoreTyped /\ DOMAIN history = 1..Len(history)
      /\ CheckpointAt(i) \in Checkpoint
  BY TypeParts, LogTypes DEF IInv
<1>1. /\ results' = results \cup {[seq |-> i, intent |-> IntentOf(c, snap[c])] :
                                    call \in {op[c]} \cap {"initialize"}}
      /\ Finish(c, "receipt")
  BY DEF Receive
<1>2. \A r \in results' : \/ r \in results
                          \/ /\ op[c] = "initialize" /\ r.seq = i
                             /\ r = [seq |-> i, intent |-> CheckpointAt(i).intent]
  BY <1>1
<1>3. RestTyped'
  <2>1. i \in Nat /\ CheckpointAt(i).intent \in Intent
    BY <1>0 DEF Checkpoint
  <2>2. results' \subseteq [seq : Nat, intent : Intent]
    BY <1>0, <1>2, <2>1 DEF RestTyped
  <2> QED
    BY <1>0, <2>2 DEF RestTyped, Quiet
<1>4. InitializeAgrees'
  BY <1>2 DEF InitializeAgrees, CheckpointAt, IInv
<1>5. "receipt" \in Answers
  BY DEF Answers
<1> QED
  BY <1>1, <1>3, <1>4, <1>5, FinishInv

LEMMA AnsweredInv ==
  ASSUME IInv, NEW c \in Caller, Answered(c) PROVE IInv'
<1>0. RestTyped /\ StoreTyped /\ CallInv(c) /\ ReceiptsInLog
  BY TypeParts DEF IInv
<1>1. pc[c] = "wait" /\ Store!GiveReceipt(c) /\ Quiet
  BY DEF Answered
<1>2. PICK r \in receipts' : r.tx = tx[c] /\ Receive(c, r.seq)
  BY DEF Answered
<1>3. Store!Return(c, "receipt")
  BY <1>1 DEF Store!GiveReceipt
<1>4. PICK j \in DOMAIN history :
        history[j] = tx[c] /\ receipts' = receipts \cup {Store!Receipt(tx[c], j)}
  BY <1>1 DEF Store!GiveReceipt
<1>5. \A s \in receipts' : s.seq \in DOMAIN history /\ history[s.seq] = s.tx
  BY <1>0, <1>4 DEF ReceiptsInLog, Store!Receipt
<1>6. /\ StoreTyped' /\ history' = history /\ phase'[c] = "idle"
      /\ \A d \in Caller : tx'[d] \in Transaction \cup {NoTx}
      /\ \A d \in Caller \ {c} : UNCHANGED <<phase[d], tx[d]>>
  BY <1>0, <1>3, Returned
<1>7. ReceiptsInLog'
  BY <1>5, <1>6 DEF ReceiptsInLog
<1>8. op[c] = "initialize" => CheckpointAt(r.seq).intent = IntentOf(c, snap[c])
  <2> SUFFICES ASSUME op[c] = "initialize"
               PROVE  CheckpointAt(r.seq).intent = IntentOf(c, snap[c])
    OBVIOUS
  <2>1. PICK t \in Instant : tx[c] = GenesisTx(c, snap[c], t)
    BY <1>0, <1>1 DEF CallInv, Sighted
  <2>2. history[r.seq] = GenesisTx(c, snap[c], t)
    BY <1>2, <1>5, <2>1
  <2> QED
    BY <2>2 DEF CheckpointAt, GenesisTx, Genesis
<1> QED
  BY <1>1, <1>2, <1>5, <1>6, <1>7, <1>8, ReceiveInv

LEMMA ReconcileInv ==
  ASSUME IInv, NEW c \in Caller, Reconcile(c) PROVE IInv'
<1>0. RestTyped /\ StoreTyped /\ CallInv(c) /\ DOMAIN history = 1..Len(history)
      /\ Len(history) \in Nat
  BY TypeParts, LogTypes DEF IInv
<1>1. pc[c] = "reconcile" /\ UNCHANGED store /\ Quiet
  BY DEF Reconcile
<1>2. Len(history) \in DOMAIN history /\ phase[c] = "idle"
  <2>1. history # <<>> /\ phase[c] = "idle"
    BY <1>0, <1>1 DEF CallInv, Place, StoreTyped
  <2>2. Len(history) # 0
    BY <1>0, <2>1 DEF StoreTyped
  <2> QED
    BY <1>0, <2>1, <2>2
<1>3. CASE CheckpointAt(Len(history)).intent = IntentOf(c, snap[c])
  <2>1. Receive(c, Len(history))
    BY <1>3 DEF Reconcile
  <2>2. StoreTyped' /\ ReceiptsInLog' /\ UNCHANGED <<history, phase, tx>>
    BY <1>0, <1>1 DEF StoreTyped, ReceiptsInLog, store, IInv
  <2> QED
    BY <1>0, <1>1, <1>2, <1>3, <2>1, <2>2, ReceiveInv DEF RestTyped
<1>4. CASE CheckpointAt(Len(history)).intent # IntentOf(c, snap[c])
  BY <1>1, <1>4, QuietFinish DEF Reconcile, Answers
<1> QED
  BY <1>3, <1>4

LEMMA RaiseInv ==
  ASSUME IInv, NEW c \in Caller, Raise(c) PROVE IInv'
<1>0. RestTyped /\ StoreTyped
  BY TypeParts DEF IInv
<1>1. Finish(c, "error") /\ UNCHANGED results /\ Quiet
  BY DEF Raise
<1>2. CASE pc[c] # "wait"
  BY <1>1, <1>2, QuietFinish DEF Raise, Answers
<1>3. CASE pc[c] = "wait"
  <2>1. Store!Return(c, "failed") /\ UNCHANGED receipts
    BY <1>3 DEF Raise, Store!GiveUp
  <2>2. /\ StoreTyped' /\ history' = history /\ phase'[c] = "idle"
        /\ \A d \in Caller : tx'[d] \in Transaction \cup {NoTx}
        /\ \A d \in Caller \ {c} : UNCHANGED <<phase[d], tx[d]>>
    BY <1>0, <2>1, Returned
  <2>3. RestTyped' /\ ReceiptsInLog' /\ InitializeAgrees'
    BY <1>0, <1>1, <2>1, <2>2
       DEF RestTyped, ReceiptsInLog, InitializeAgrees, CheckpointAt, Quiet, IInv
  <2> QED
    BY <1>1, <2>2, <2>3, FinishInv DEF Answers
<1> QED
  BY <1>2, <1>3

\* A genesis that is refused or comes too late is compared with what is there.
LEMMA GoReconcile ==
  ASSUME IInv, NEW c \in Caller, op[c] = "initialize", pc[c] = "wait", history # <<>>,
         NEW a, Store!Return(c, a), UNCHANGED receipts, Goto(c, "reconcile"),
         UNCHANGED <<lock, local, told>>, Quiet
  PROVE  IInv'
<1>0. CallsTyped /\ RestTyped /\ StoreTyped /\ CallInv(c)
  BY TypeParts DEF IInv
<1>1. /\ StoreTyped' /\ history' = history /\ phase'[c] = "idle"
      /\ \A d \in Caller : tx'[d] \in Transaction \cup {NoTx}
      /\ \A d \in Caller \ {c} : UNCHANGED <<phase[d], tx[d]>>
  BY <1>0, Returned
<1>2. RestTyped' /\ ReceiptsInLog' /\ InitializeAgrees'
  BY <1>0, <1>1
     DEF RestTyped, ReceiptsInLog, InitializeAgrees, CheckpointAt, Quiet, told, IInv
<1>3. "reconcile" \in Places
  BY DEF Places
<1>4. CallsTyped' /\ OnlyCaller(c) /\ pc'[c] = "reconcile"
  BY <1>0, <1>1, <1>3 DEF CallsTyped, OnlyCaller, Goto, local, told
<1>5. CallInv(c)'
  <2>1. Place(c)'
    BY <1>0, <1>1, <1>4 DEF CallInv, Place, local, told
  <2>2. LockHeld(c)'
    BY <1>0, <1>4 DEF CallInv, LockHeld, Locked, Working, local
  <2>3. Sighted(c)' /\ Counted(c)'
    BY <1>0, <1>1, <1>4 DEF CallInv, Place, Sighted, Counted, local, told
  <2> QED
    BY <2>1, <2>2, <2>3 DEF CallInv
<1> QED
  BY <1>1, <1>2, <1>4, <1>5, Assemble, LocksKept, TypeParts

LEMMA GenesisGateInv ==
  ASSUME IInv, NEW c \in Caller, GenesisGate(c) PROVE IInv'
BY GoReconcile DEF GenesisGate, Store!GiveUp

\* The head of a checkpoint has moved: there is a foreign event more, which
\* pays for the attempt.
LEMMA ConflictInv ==
  ASSUME IInv, NEW c \in Caller, Conflict(c) PROVE IInv'
<1>0. /\ CallsTyped /\ RestTyped /\ StoreTyped /\ CallInv(c)
      /\ Len(history) \in Nat /\ DOMAIN history = 1..Len(history)
  BY TypeParts, LogTypes DEF IInv
<1>1. /\ pc[c] = "wait" /\ phase[c] = "pending" /\ ~Store!HeadsAsExpected(tx[c])
      /\ Store!Return(c, "conflict") /\ UNCHANGED receipts /\ Quiet
  BY DEF Conflict, Store!GiveConflict
<1>2. /\ StoreTyped' /\ history' = history /\ phase'[c] = "idle"
      /\ \A d \in Caller : tx'[d] \in Transaction \cup {NoTx}
      /\ \A d \in Caller \ {c} : UNCHANGED <<phase[d], tx[d]>>
  BY <1>0, <1>1, Returned
<1>3. tx[c] \in Transaction /\ op[c] \in {"initialize", "checkpoint"}
  BY <1>0, <1>1 DEF CallInv, Place
<1>4. Store!Current(HeadName) # tx[c].expected[HeadName]
  <2>1. DOMAIN tx[c].request.news = {HeadName}
    BY <1>3 DEF Transaction
  <2> QED
    BY <1>0, <1>1, <2>1, ExpectsHead
<1>5. CASE op[c] = "initialize"
  <2>1. tx[c].expected[HeadName] = NoHead
    <3>1. PICK t \in Instant : tx[c] = GenesisTx(c, snap[c], t)
      BY <1>0, <1>1, <1>5 DEF CallInv, Sighted
    <3> QED
      BY <3>1 DEF GenesisTx
  <2>2. history # <<>>
    BY <1>0, <1>4, <2>1, CurrentIsLast
  <2>3. Goto(c, "reconcile") /\ UNCHANGED <<lock, local, told>>
    BY <1>5 DEF Conflict
  <2> QED
    BY <1>1, <1>5, <2>2, <2>3, GoReconcile
<1>6. CASE op[c] = "checkpoint"
  <2>1. /\ tx[c] = ChildTx(c) /\ history # <<>> /\ head[c] \in DOMAIN history
        /\ began[c] <= head[c]
        /\ Cardinality(ForeignIn(history, c, began[c], head[c])) >= attempt[c]
        /\ \A i \in head[c] + 1 .. Len(history) : Foreign(history, c, i)
    BY <1>0, <1>1, <1>6 DEF CallInv, Place, Sighted, Counted, Working
  <2>2. head[c] # Len(history)
    <3>1. tx[c].expected[HeadName] = [record |-> CheckpointAt(head[c]), seq |-> head[c]]
      BY <2>1 DEF ChildTx
    <3> QED
      BY <1>0, <1>4, <2>1, <3>1, CurrentIsLast
  <2>3. /\ head[c] \in Nat /\ began[c] \in Nat /\ attempt[c] \in 0..(MaxAttempts - 1)
        /\ head[c] < Len(history) /\ Foreign(history, c, Len(history))
    <3>1. head[c] \in Nat /\ began[c] \in Nat /\ attempt[c] \in 0..(MaxAttempts - 1)
      BY <1>0 DEF CallsTyped
    <3>2. head[c] < Len(history) /\ Len(history) \in head[c] + 1 .. Len(history)
      BY <1>0, <2>1, <2>2, <3>1
    <3> QED
      BY <2>1, <3>1, <3>2
  <2>4. /\ attempt[c] \in Nat /\ attempt[c] + 1 \in Nat
        /\ Cardinality(ForeignIn(history, c, began[c], Len(history))) >= attempt[c] + 1
    <3>1. /\ Cardinality(ForeignIn(history, c, began[c], head[c])) \in Nat
          /\ Cardinality(ForeignIn(history, c, began[c], Len(history))) \in Nat
          /\ Cardinality(ForeignIn(history, c, began[c], head[c])) + 1
               <= Cardinality(ForeignIn(history, c, began[c], Len(history)))
      BY <1>0, <2>1, <2>3, ForeignCount
    <3> QED
      BY <2>1, <2>3, <3>1
  <2>5. ReceiptsInLog'
    BY <1>1, <1>2 DEF ReceiptsInLog, IInv
  <2>6. CASE attempt[c] + 1 = MaxAttempts
    <3>1. Finish(c, "conflict") /\ UNCHANGED results
      BY <1>6, <2>6 DEF Conflict
    <3>2. RestTyped' /\ InitializeAgrees'
      BY <1>0, <1>1, <1>2, <3>1 DEF RestTyped, InitializeAgrees, CheckpointAt, Quiet, IInv
    <3> QED
      BY <1>2, <2>4, <2>5, <2>6, <3>1, <3>2, FinishInv DEF Answers
  <2>7. CASE attempt[c] + 1 # MaxAttempts
    <3>1. /\ pc' = [pc EXCEPT ![c] = "lock"] /\ Unlock(c)
          /\ attempt' = [attempt EXCEPT ![c] = attempt[c] + 1]
          /\ UNCHANGED <<op, head, snap, looked, began, told>>
      BY <1>6, <2>7 DEF Conflict, Retry, Goto
    <3>2. attempt[c] + 1 \in 0..(MaxAttempts - 1) /\ "lock" \in Places
      BY <2>3, <2>7, CallerAssumption DEF Places
    <3>3. CallsTyped'
      <4>1. lock' \in [Process -> Caller \cup {NoCaller}]
        BY <1>0, <3>1 DEF CallsTyped, Unlock
      <4>2. attempt' \in [Caller -> 0..(MaxAttempts - 1)]
        BY <1>0, <3>1, <3>2 DEF CallsTyped
      <4> QED
        BY <1>0, <3>1, <3>2, <4>1, <4>2 DEF CallsTyped, told
    <3>4. /\ OnlyCaller(c) /\ pc'[c] = "lock" /\ attempt'[c] = attempt[c] + 1
      BY <1>0, <1>2, <3>1 DEF CallsTyped, OnlyCaller, told
    <3>5. CallInv(c)'
      <4>1. Place(c)'
        BY <1>0, <1>1, <1>2, <1>6, <3>1, <3>4 DEF CallInv, Place, told
      <4>2. LockHeld(c)' /\ Sighted(c)'
        BY <1>2, <1>6, <3>1, <3>4 DEF LockHeld, Locked, Sighted, Working
      <4>3. Counted(c)'
        <5>1. result'[c] = "none"
          BY <1>0, <1>1, <3>1 DEF CallInv, Place, told
        <5>2. began'[c] <= Len(history')
              /\ Cardinality(ForeignIn(history', c, began'[c], Len(history'))) >= attempt'[c]
          BY <1>0, <1>2, <2>1, <2>3, <2>4, <3>1, <3>4
        <5> QED
          BY <3>4, <5>1, <5>2 DEF Counted, Working
      <4> QED
        BY <4>1, <4>2, <4>3 DEF CallInv
    <3>6. RestTyped' /\ InitializeAgrees'
      BY <1>0, <1>1, <1>2, <3>1 DEF RestTyped, InitializeAgrees, CheckpointAt, Quiet, told, IInv
    <3> QED
      BY <1>2, <2>5, <3>1, <3>3, <3>4, <3>5, <3>6, Assemble, LocksKept, TypeParts
  <2> QED
    BY <2>6, <2>7
<1> QED
  BY <1>3, <1>5, <1>6

-----------------------------------------------------------------------------
(* A log of one transaction, and the invariant.                            *)

LEMMA OneLong == ASSUME NEW S, NEW x \in S PROVE <<x>> \in Seq(S)
  OBVIOUS

LEMMA InitInv == Init => IInv
<1> SUFFICES ASSUME Init PROVE IInv
  OBVIOUS
<1>1. \/ history = <<>>
      \/ \E c \in Caller, s \in State, t \in Instant : history = <<GenesisTx(c, s, t)>>
  BY CallerAssumption DEF Init, Initialized
<1>2. ASSUME NEW c \in Caller, NEW s \in State, NEW t \in Instant
      PROVE  /\ GenesisTx(c, s, t) \in Transaction /\ Genesis(c, s) \in Checkpoint
             /\ Genesis(c, s) = [Genesis(c, s) EXCEPT !.parent = 0, !.audit_parent = 0]
  <2>1. IntentOf(c, s) \in Intent /\ PolicyOf[c] \in Policy
    BY DEF IntentOf, Intent, Goal, Policy
  <2>2. Genesis(c, s) \in Checkpoint /\ Genesis(c, s).parent = 0 /\ Genesis(c, s).audit_parent = 0
    BY <2>1 DEF Genesis, Checkpoint
  <2>3. [by |-> NoCaller, at |-> t] \in Stamp
    BY DEF Stamp
  <2>4. [n \in {HeadName} |-> Genesis(c, s)] \in [{HeadName} -> Checkpoint]
    BY <2>2
  <2>5. [n \in {HeadName} |-> NoHead]
          \in [{HeadName} -> [record : Checkpoint, seq : Nat] \cup {NoHead}]
    OBVIOUS
  <2>6. GenesisTx(c, s, t) \in Transaction
    BY <2>3, <2>4, <2>5 DEF GenesisTx, Transaction
  <2> QED
    BY <2>2, <2>6, Reparented
<1>3. history \in Seq(Transaction)
  <2>1. ASSUME NEW c \in Caller, NEW s \in State, NEW t \in Instant,
               history = <<GenesisTx(c, s, t)>>
        PROVE  history \in Seq(Transaction)
    <3>1. GenesisTx(c, s, t) \in Transaction
      BY <1>2
    <3>2. \A x \in Transaction : <<x>> \in Seq(Transaction)
      BY OneLong
    <3>3. <<GenesisTx(c, s, t)>> \in Seq(Transaction)
      BY <3>1, <3>2
    <3> QED
      BY <2>1, <3>3
  <2>2. CASE history = <<>>
    <3>1. <<>> \in Seq(Transaction)
      OBVIOUS
    <3> QED
      BY <2>2, <3>1
  <2> QED
    BY <1>1, <2>1, <2>2, Zenon
<1>4. LinearChain
  <2>1. CASE history = <<>>
    BY <2>1 DEF LinearChain
  <2>2. ASSUME NEW c \in Caller, NEW s \in State, NEW t \in Instant,
               history = <<GenesisTx(c, s, t)>>
        PROVE  LinearChain
    <3>1. /\ DOMAIN history = {1} /\ CheckpointAt(1) = Genesis(c, s)
          /\ history[1].request.kind = "initialize"
      BY <2>2 DEF CheckpointAt, GenesisTx
    <3>2. CheckpointAt(1) = [CheckpointAt(1) EXCEPT !.parent = 0, !.audit_parent = 0]
      BY <1>2, <3>1, Zenon
    <3>3. ASSUME NEW i \in DOMAIN history
          PROVE  /\ CheckpointAt(i) = [CheckpointAt(1) EXCEPT !.parent = i - 1,
                                                              !.audit_parent = i - 1]
                 /\ (i = 1) <=> (history[i].request.kind = "initialize")
      <4>1. i = 1 /\ i - 1 = 0
        BY <3>1
      <4> QED
        BY <3>1, <3>2, <4>1
    <3> QED
      BY <3>3 DEF LinearChain
  <2> QED
    BY <1>1, <2>1, <2>2
<1>5. TypeOK /\ StoreTyped
  <2>1. 0 \in 0..MaxChanges /\ 0 \in 0..MaxCalls /\ 0 \in 0..(MaxAttempts - 1) /\ 0 \in Nat
    BY CallerAssumption
  <2>2. CallsTyped
    BY <2>1 DEF Init, CallsTyped, NoLook, Places, Answers
  <2>3. RestTyped
    BY <2>1 DEF Init, RestTyped, Store!NobodyCalled
  <2>4. StoreTyped
    BY <1>3 DEF Init, StoreTyped, Store!NobodyCalled
  <2> QED
    BY <2>2, <2>3, <2>4, TypeParts
<1>6. ReceiptsInLog /\ InitializeAgrees
  BY DEF Init, ReceiptsInLog, InitializeAgrees, Store!NobodyCalled
<1>7. ASSUME NEW c \in Caller PROVE CallInv(c)
  <2>1. /\ pc[c] = "idle" /\ op[c] = "none" /\ attempt[c] = 0 /\ phase[c] = "idle"
        /\ result[c] = "none"
    BY DEF Init, Store!NobodyCalled
  <2> QED
    BY <2>1 DEF CallInv, Place, LockHeld, Locked, Sighted, Counted
<1> QED
  BY <1>4, <1>5, <1>6, <1>7 DEF IInv

LEMMA StepInv ==
  ASSUME IInv, NEW c \in Caller, Step(c) PROVE IInv'
BY RaiseInv, LockInv, ReadHeadInv, CaptureAInv, CaptureBInv, CaptureCInv, CommitInv,
   TakeEffectInv, AnsweredInv, ConflictInv, GenesisGateInv, ReconcileInv
   DEF Step

LEMMA NextInv == IInv /\ [Next]_vars => IInv'
<1>1. ASSUME IInv, Next PROVE IInv'
  BY <1>1, ChangeInv, StartInv, StepInv DEF Next
<1>2. ASSUME IInv, UNCHANGED vars PROVE IInv'
  <2>1. UNCHANGED <<world, changes, lock, pc, local, told, store>>
    BY <1>2 DEF vars
  <2>2. TypeOK' /\ StoreTyped' /\ LinearChain' /\ ReceiptsInLog' /\ InitializeAgrees'
    BY <1>2, <2>1 DEF IInv, TypeOK, StoreTyped, LinearChain, ReceiptsInLog, InitializeAgrees,
                      CheckpointAt, store, told, local
  <2>3. ASSUME NEW c \in Caller PROVE CallInv(c)'
    <3>1. CallInv(c)
      BY <1>2 DEF IInv
    <3> QED
      BY <2>1, <3>1
         DEF CallInv, Place, LockHeld, Locked, Sighted, Counted, ForeignIn, Foreign, ChildTx,
             Child, CheckpointAt, local, told, store
  <2> QED
    BY <2>2, <2>3 DEF IInv
<1> QED
  BY <1>1, <1>2

LEMMA Invariance == Spec => []IInv
BY InitInv, NextInv, PTL DEF Spec

-----------------------------------------------------------------------------
(* The theorems.                                                           *)

\* Every variable keeps its type: in particular no checkpoint call makes more
\* attempts than _CHECKPOINT_ATTEMPTS.
THEOREM TypeCorrect == Spec => []TypeOK
BY Invariance, PTL DEF IInv

\* Whoever commits, the lineage is one chain of checkpoints that keep the
\* intent, the target and the policy of the one genesis.
THEOREM OneChain == Spec => []LinearChain
BY Invariance, PTL DEF IInv

\* A checkpoint commits only what its own last capture showed, after its parent
\* event, and outside observe only a clean target under its own policy.
THEOREM CommitIsOfSight == Spec => []CommittedWasSeen
<1>1. IInv => CommittedWasSeen
  <2> SUFFICES ASSUME IInv, NEW c \in Caller, phase[c] = "done", op[c] = "checkpoint"
               PROVE  \E i \in DOMAIN history :
                        /\ history[i] = tx[c]
                        /\ looked[c] = [state |-> CheckpointAt(i).target, at |-> i - 1]
                        /\ ProfileOf[c] # "observe" =>
                             /\ CheckpointAt(i).target \in Clean
                             /\ CheckpointAt(i).policy = PolicyOf[c]
    BY DEF CommittedWasSeen
  <2>1. CallInv(c) /\ pc[c] = "wait" /\ CallsTyped /\ StoreTyped
    BY TypeParts DEF IInv, CallInv, Place
  <2>2. /\ head[c] \in DOMAIN history /\ head[c] + 1 \in DOMAIN history
        /\ history[head[c] + 1] = tx[c] /\ tx[c] = ChildTx(c)
        /\ looked[c].at = head[c] /\ looked[c].state = CheckpointAt(head[c]).target
        /\ ProfileOf[c] # "observe" =>
             CheckpointAt(head[c]).target \in Clean /\ CheckpointAt(head[c]).policy = PolicyOf[c]
    BY <2>1 DEF CallInv, Sighted, Working
  <2>3. CheckpointAt(head[c]) \in Checkpoint
    BY <2>1, <2>2, LogTypes
  <2>4. CheckpointAt(head[c] + 1) = Child(c)
    BY <2>2 DEF CheckpointAt, ChildTx
  <2>5. Child(c).target = CheckpointAt(head[c]).target /\ Child(c).policy = CheckpointAt(head[c]).policy
    BY <2>3 DEF Child, Checkpoint
  <2>6. head[c] + 1 - 1 = head[c] /\ head[c] \in Nat
    BY <2>1 DEF CallsTyped
  <2>7. looked[c] = [state |-> CheckpointAt(head[c]).target, at |-> head[c]]
    BY <2>1, <2>2 DEF CallsTyped
  <2> QED
    BY <2>2, <2>4, <2>5, <2>6, <2>7
<1> QED
  BY <1>1, Invariance, PTL

\* An initialize that succeeds does so in a session with its own inputs.
THEOREM InitializesOwn == Spec => []InitializeAgrees
BY Invariance, PTL DEF IInv

\* A checkpoint that gives up was overtaken by other processes once for every
\* attempt: threads of one process never make each other fail.
THEOREM OnlyOthersWin == Spec => []GivesUpForOthers
<1>1. IInv => GivesUpForOthers
  <2> SUFFICES ASSUME IInv, NEW c \in Caller, result[c] = "conflict"
               PROVE  Cardinality({i \in began[c] + 1 .. Len(history) :
                         LET by == history[i].request.stamp.by
                         IN  by = NoCaller \/ ProcessOf[by] # ProcessOf[c]}) >= MaxAttempts
    BY DEF GivesUpForOthers
  <2>1. Cardinality(ForeignIn(history, c, began[c], Len(history))) >= MaxAttempts
    BY DEF IInv, CallInv, Counted
  <2> QED
    BY <2>1 DEF ForeignIn, Foreign
<1> QED
  BY <1>1, Invariance, PTL
=============================================================================

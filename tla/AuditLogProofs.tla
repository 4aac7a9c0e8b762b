--------------------------- MODULE AuditLogProofs ---------------------------
(***************************************************************************)
(* Facts about images, replay and appending that hold for all values of    *)
(* the constants of AuditLog.                                              *)
(***************************************************************************)
EXTENDS AuditLog, SequenceTheorems, WellFoundedInduction, TLAPS

-----------------------------------------------------------------------------
(* Maxima and replay.                                                      *)

\* A non-empty set of positions up to k has a last one.
LEMMA LastExists ==
  ASSUME NEW k \in Nat, NEW I, I \subseteq 1..k, I # {}
  PROVE  \E i \in I : \A j \in I : j <= i
<1> DEFINE T == {k - i : i \in I}
<1>1. T \subseteq Nat /\ T # {}
  <2>1. PICK i \in I : TRUE
    OBVIOUS
  <2>2. k - i \in T
    BY <2>1
  <2>3. ASSUME NEW y \in T PROVE y \in Nat
    <3>1. PICK j \in I : y = k - j
      OBVIOUS
    <3>2. j \in 1..k
      OBVIOUS
    <3> QED
      BY <3>1, <3>2
  <2> QED
    BY <2>2, <2>3
<1>2. PICK x \in T : \A y \in T : ~(<<y, x>> \in OpToRel(<, Nat))
  BY <1>1, WFMin, NatLessThanWellFounded, Zenon
<1>3. PICK i \in I : x = k - i
  OBVIOUS
<1>4. \A j \in I : j <= i
  <2> SUFFICES ASSUME NEW j \in I PROVE j <= i
    OBVIOUS
  <2>1. k - j \in T /\ k - j \in Nat /\ x \in Nat
    BY <1>1
  <2>2. ~(<<k - j, x>> \in OpToRel(<, Nat))
    BY <1>2, <2>1
  <2>3. ~(k - j < x)
    BY <2>1, <2>2 DEF OpToRel
  <2> QED
    BY <1>3, <2>3
<1> QED
  BY <1>4

\* After k events a head no event moved is absent, and any other head is what
\* the last of the events that moved it made it.
LEMMA HeadAfterCases ==
  ASSUME NEW log, NEW k \in Nat, NEW n
  PROVE  /\ MovesOf(log, k, n) = {} => HeadAfter(log, k, n) = NoHead
         /\ MovesOf(log, k, n) # {} =>
              \E i \in MovesOf(log, k, n) :
                /\ \A j \in MovesOf(log, k, n) : j <= i
                /\ HeadAfter(log, k, n) =
                     [record |-> log[i].tx.request.news[n], seq |-> i]
<1> DEFINE I == MovesOf(log, k, n)
           last == CHOOSE i \in I : \A j \in I : j <= i
<1>1. CASE I = {}
  BY <1>1 DEF HeadAfter
<1>2. CASE I # {}
  <2>1. I \subseteq 1..k
    BY DEF MovesOf
  <2>2. \E i \in I : \A j \in I : j <= i
    BY <1>2, <2>1, LastExists
  <2>3. last \in I /\ \A j \in I : j <= last
    BY <2>2
  <2>4. HeadAfter(log, k, n) = [record |-> log[last].tx.request.news[n], seq |-> last]
    BY <1>2 DEF HeadAfter
  <2> QED
    BY <1>2, <2>3, <2>4
<1> QED
  BY <1>1, <1>2

\* Replay of the first k events depends on these events only.
LEMMA HeadAfterPrefix ==
  ASSUME NEW old, NEW new, NEW k \in Nat, NEW n,
         \A i \in 1..k : new[i] = old[i]
  PROVE  HeadAfter(new, k, n) = HeadAfter(old, k, n)
<1>1. MovesOf(new, k, n) = MovesOf(old, k, n)
  BY DEF MovesOf
<1>2. CASE MovesOf(old, k, n) = {}
  BY <1>1, <1>2, HeadAfterCases
<1>3. CASE MovesOf(old, k, n) # {}
  <2>1. PICK i \in MovesOf(old, k, n) :
          /\ \A j \in MovesOf(old, k, n) : j <= i
          /\ HeadAfter(old, k, n) = [record |-> old[i].tx.request.news[n], seq |-> i]
    BY <1>3, HeadAfterCases
  <2>2. PICK j \in MovesOf(new, k, n) :
          /\ \A m \in MovesOf(new, k, n) : m <= j
          /\ HeadAfter(new, k, n) = [record |-> new[j].tx.request.news[n], seq |-> j]
    BY <1>1, <1>3, HeadAfterCases
  <2>3. i \in 1..k /\ j \in 1..k
    BY <1>1 DEF MovesOf
  <2>4. i = j
    BY <1>1, <2>1, <2>2, <2>3
  <2> QED
    BY <2>1, <2>2, <2>3, <2>4
<1> QED
  BY <1>2, <1>3

\* One more event sets the heads it moves and leaves the others.
LEMMA HeadAfterStep ==
  ASSUME NEW log, NEW k \in Nat, NEW n
  PROVE  HeadAfter(log, k + 1, n) =
           IF n \in DOMAIN log[k + 1].tx.request.news
           THEN [record |-> log[k + 1].tx.request.news[n], seq |-> k + 1]
           ELSE HeadAfter(log, k, n)
<1> DEFINE moves == n \in DOMAIN log[k + 1].tx.request.news
<1>1. MovesOf(log, k + 1, n) =
        MovesOf(log, k, n) \cup (IF moves THEN {k + 1} ELSE {})
  BY DEF MovesOf
<1>2. MovesOf(log, k, n) \subseteq 1..k
  BY DEF MovesOf
<1>3. CASE moves
  <2>1. PICK i \in MovesOf(log, k + 1, n) :
          /\ \A j \in MovesOf(log, k + 1, n) : j <= i
          /\ HeadAfter(log, k + 1, n) =
               [record |-> log[i].tx.request.news[n], seq |-> i]
    <3>1. MovesOf(log, k + 1, n) # {} /\ k + 1 \in Nat
      BY <1>1, <1>3
    <3> QED
      BY <3>1, HeadAfterCases
  <2>2. i = k + 1
    BY <1>1, <1>2, <1>3, <2>1
  <2> QED
    BY <1>3, <2>1, <2>2
<1>4. CASE ~moves
  <2>1. MovesOf(log, k + 1, n) = MovesOf(log, k, n)
    BY <1>1, <1>4
  <2>2. HeadAfter(log, k + 1, n) = HeadAfter(log, k, n)
    BY <2>1 DEF HeadAfter
  <2> QED
    BY <1>4, <2>2
<1> QED
  BY <1>3, <1>4

LEMMA InsertedByStep ==
  ASSUME NEW log, NEW k \in Nat
  PROVE  InsertedBy(log, k + 1) = InsertedBy(log, k) \cup log[k + 1].inserted
<1>1. 1..(k + 1) = 1..k \cup {k + 1}
  OBVIOUS
<1> QED
  BY <1>1 DEF InsertedBy

LEMMA InsertedByPrefix ==
  ASSUME NEW old, NEW new, NEW k \in Nat, \A i \in 1..k : new[i] = old[i]
  PROVE  InsertedBy(new, k) = InsertedBy(old, k)
BY DEF InsertedBy

-----------------------------------------------------------------------------
(* Appending.                                                              *)

\* The shape of the log after an append.
LEMMA AppendTxLog ==
  ASSUME NEW d \in Image, NEW t \in Tx
  PROVE  LET new == AppendTx(d, t)
         IN  /\ d.log \in Seq(Event) /\ new.log \in Seq(Event)
             /\ Len(d.log) \in Nat
             /\ Len(new.log) = Len(d.log) + 1
             /\ DOMAIN d.log = 1..Len(d.log)
             /\ DOMAIN new.log = 1..(Len(d.log) + 1)
             /\ \A i \in 1..Len(d.log) : new.log[i] = d.log[i]
             /\ new.log[Len(d.log) + 1] =
                  [tx |-> t, inserted |-> t.request.records \ d.records]
<1> DEFINE e == [tx |-> t, inserted |-> t.request.records \ d.records]
<1>1. d.log \in Seq(Event)
  BY DEF Image
<1>2. e \in Event
  <2>1. t.request \in Request
    BY DEF Tx
  <2> QED
    BY <2>1, RequestAssumption DEF Event
<1>3. AppendTx(d, t).log = Append(d.log, e)
  BY DEF AppendTx
<1> HIDE DEF e
<1>4. /\ Append(d.log, e) \in Seq(Event)
      /\ Len(d.log) \in Nat
      /\ Len(Append(d.log, e)) = Len(d.log) + 1
      /\ DOMAIN d.log = 1..Len(d.log)
      /\ DOMAIN Append(d.log, e) = 1..(Len(d.log) + 1)
      /\ \A i \in 1..Len(d.log) : Append(d.log, e)[i] = d.log[i]
      /\ Append(d.log, e)[Len(d.log) + 1] = e
  BY <1>1, <1>2
<1> QED
  BY <1>1, <1>3, <1>4 DEF e

LEMMA AppendTxTyped ==
  ASSUME NEW d \in Image, NEW t \in Tx
  PROVE  AppendTx(d, t) \in Image
<1> DEFINE new == AppendTx(d, t)
<1>1. t.request \in Request
  BY DEF Tx
<1>2. new.records \in SUBSET Record /\ new.locals \in SUBSET Local
  BY <1>1, RequestAssumption DEF AppendTx, Image
<1>3. new.log \in Seq(Event)
  BY AppendTxLog
<1>4. new.heads \in Heads
  <2>1. Len(d.log) + 1 \in Nat \ {0}
    BY AppendTxLog
  <2>2. ASSUME NEW n \in HeadName, n \in DOMAIN t.request.news
        PROVE  MovedHead(t, n, Len(d.log) + 1) \in HeadState
    BY <1>1, <2>1, <2>2, RequestAssumption DEF MovedHead, HeadState
  <2>3. d.heads \in Heads
    BY DEF Image
  <2> QED
    BY <2>2, <2>3 DEF AppendTx, Heads
<1>5. new = [records |-> new.records, locals |-> new.locals,
             log |-> new.log, heads |-> new.heads]
  BY DEF AppendTx
<1> QED
  BY <1>2, <1>3, <1>4, <1>5 DEF Image

\* What the decision to append has ruled out.
LEMMA AppendDecision ==
  ASSUME NEW d, NEW t, Decision(d, t) = "append"
  PROVE  /\ RepeatsAt(d, t) = {}
         /\ ~LateLocals(d, t)
         /\ ~StaleHead(d, t)
         /\ ~AbsentRecord(d, t)
BY DEF Decision

\* A verified image stays verified when a transaction that passes every check
\* of commit_many is appended to it: the inductive heart of the audit chain.
THEOREM AppendVerifies ==
  ASSUME NEW d \in Image, NEW t \in Tx, Verified(d), Decision(d, t) = "append"
  PROVE  Verified(AppendTx(d, t))
<1> DEFINE new == AppendTx(d, t)
           N == Len(d.log)
           e == [tx |-> t, inserted |-> t.request.records \ d.records]
<1>1. /\ N \in Nat /\ Len(new.log) = N + 1
      /\ DOMAIN d.log = 1..N /\ DOMAIN new.log = 1..(N + 1)
      /\ \A i \in 1..N : new.log[i] = d.log[i]
      /\ new.log[N + 1] = e
  BY AppendTxLog
<1>2. /\ new.records = d.records \cup t.request.records
      /\ new.locals = d.locals \cup t.request.locals
      /\ \A n \in HeadName : new.heads[n] = IF n \in DOMAIN t.request.news
                                             THEN MovedHead(t, n, N + 1)
                                             ELSE d.heads[n]
  BY DEF AppendTx
<1>3. /\ \A i \in 1..N : EventVerifies(d, i)
      /\ \A n \in HeadName : d.heads[n] = HeadAfter(d.log, N, n)
      /\ d.records = InsertedBy(d.log, N)
      /\ d.locals = LocalsOf(d.log)
  BY <1>1 DEF Verified
<1>4. ~LateLocals(d, t) /\ ~StaleHead(d, t) /\ ~AbsentRecord(d, t)
  BY AppendDecision
<1>5. /\ t.request.subject \in Record
      /\ DOMAIN t.request.news \subseteq HeadName
  BY RequestAssumption DEF Tx
<1> HIDE DEF new
<1>6. \A k \in 0..N : \A n : HeadAfter(new.log, k, n) = HeadAfter(d.log, k, n)
  <2> SUFFICES ASSUME NEW k \in 0..N, NEW n
               PROVE  HeadAfter(new.log, k, n) = HeadAfter(d.log, k, n)
    OBVIOUS
  <2>1. k \in Nat /\ \A i \in 1..k : new.log[i] = d.log[i]
    BY <1>1
  <2> QED
    BY <2>1, HeadAfterPrefix
<1>7. \A k \in 0..N : InsertedBy(new.log, k) = InsertedBy(d.log, k)
  <2> SUFFICES ASSUME NEW k \in 0..N
               PROVE  InsertedBy(new.log, k) = InsertedBy(d.log, k)
    OBVIOUS
  <2>1. k \in Nat /\ \A i \in 1..k : new.log[i] = d.log[i]
    BY <1>1
  <2> QED
    BY <2>1, InsertedByPrefix
<1>8. InsertedBy(new.log, N + 1) = d.records \cup t.request.records
  <2>1. InsertedBy(new.log, N + 1) =
          InsertedBy(new.log, N) \cup new.log[N + 1].inserted
    BY <1>1, InsertedByStep
  <2>2. InsertedBy(new.log, N) = d.records
    BY <1>1, <1>3, <1>7
  <2>3. new.log[N + 1].inserted = t.request.records \ d.records
    BY <1>1
  <2> QED
    BY <2>1, <2>2, <2>3
<1>9. ASSUME NEW i \in 1..(N + 1) PROVE EventVerifies(new, i)
  <2>1. CASE i \in 1..N
    <3>1. EventVerifies(d, i) /\ new.log[i] = d.log[i] /\ i \in 0..N /\ i - 1 \in 0..N
      BY <1>1, <1>3, <2>1
    <3>2. /\ InsertedBy(new.log, i) = InsertedBy(d.log, i)
          /\ InsertedBy(new.log, i - 1) = InsertedBy(d.log, i - 1)
          /\ \A n : HeadAfter(new.log, i - 1, n) = HeadAfter(d.log, i - 1, n)
      BY <1>6, <1>7, <3>1
    <3>3. d.locals \subseteq new.locals
      BY <1>2
    <3> QED
      BY <3>1, <3>2, <3>3 DEF EventVerifies
  <2>2. CASE i = N + 1
    <3>1. new.log[i] = e /\ i - 1 = N
      BY <1>1, <2>2
    <3>2. InsertedBy(new.log, i) = d.records \cup t.request.records
      BY <1>8, <2>2
    <3>3. InsertedBy(new.log, i - 1) = d.records
      BY <1>1, <1>3, <1>7, <3>1
    <3>4. i # 1 => t.request.locals = {}
      <4>1. i # 1 => d.log # <<>>
        BY <1>1, <2>2
      <4> QED
        BY <1>4, <4>1 DEF LateLocals
    <3>5. ASSUME NEW n \in DOMAIN t.request.news
          PROVE  /\ HeadAfter(new.log, i - 1, n) = t.expected[n]
                 /\ t.request.news[n] \in d.records \cup t.request.records
      <4>1. HeadAfter(new.log, i - 1, n) = d.heads[n]
        BY <1>1, <1>3, <1>5, <1>6, <3>1
      <4>2. d.heads[n] = t.expected[n]
        BY <1>4 DEF StaleHead
      <4>3. t.request.news[n] \in d.records \cup t.request.records
        BY <1>4 DEF AbsentRecord
      <4> QED
        BY <4>1, <4>2, <4>3
    <3>6. t.request.subject \in d.records \cup t.request.records
      BY <1>4 DEF AbsentRecord
    <3> QED
      BY <1>2, <3>1, <3>2, <3>3, <3>4, <3>5, <3>6 DEF EventVerifies
  <2> QED
    BY <1>1, <2>1, <2>2
<1>10. ASSUME NEW n \in HeadName PROVE new.heads[n] = HeadAfter(new.log, N + 1, n)
  <2>1. HeadAfter(new.log, N + 1, n) =
          IF n \in DOMAIN t.request.news
          THEN [record |-> t.request.news[n], seq |-> N + 1]
          ELSE HeadAfter(new.log, N, n)
    <3>1. new.log[N + 1].tx.request.news = t.request.news /\ N \in Nat
      BY <1>1
    <3>2. HeadAfter(new.log, N + 1, n) =
            IF n \in DOMAIN new.log[N + 1].tx.request.news
            THEN [record |-> new.log[N + 1].tx.request.news[n], seq |-> N + 1]
            ELSE HeadAfter(new.log, N, n)
      BY <3>1, HeadAfterStep
    <3> QED
      BY <3>1, <3>2
  <2>2. HeadAfter(new.log, N, n) = d.heads[n]
    BY <1>1, <1>3, <1>6
  <2> QED
    BY <1>2, <2>1, <2>2 DEF MovedHead
<1>11. new.locals = LocalsOf(new.log)
  <2>1. LocalsOf(new.log) = LocalsOf(d.log) \cup t.request.locals
    <3>1. DOMAIN new.log = DOMAIN d.log \cup {N + 1}
      BY <1>1
    <3>2. \A i \in DOMAIN d.log :
            new.log[i].tx.request.locals = d.log[i].tx.request.locals
      BY <1>1
    <3>3. new.log[N + 1].tx.request.locals = t.request.locals
      BY <1>1
    <3> QED
      BY <3>1, <3>2, <3>3 DEF LocalsOf
  <2> QED
    BY <1>2, <1>3, <2>1
<1>12. Verified(new)
  BY <1>1, <1>2, <1>8, <1>9, <1>10, <1>11 DEF Verified
<1> QED
  BY <1>12 DEF new

\* The empty database replays.
LEMMA EmptyVerified == EmptyImage \in Image /\ Verified(EmptyImage)
<1>1. EmptyImage \in Image
  BY DEF EmptyImage, Image, Heads
<1>2. DOMAIN EmptyImage.log = {} /\ Len(EmptyImage.log) = 0
  BY DEF EmptyImage
<1>3. InsertedBy(<<>>, 0) = {} /\ LocalsOf(<<>>) = {}
  BY DEF InsertedBy, LocalsOf
<1>4. \A n : HeadAfter(<<>>, 0, n) = NoHead
  BY DEF HeadAfter, MovesOf
<1> QED
  BY <1>1, <1>2, <1>3, <1>4 DEF Verified, EmptyImage

-----------------------------------------------------------------------------
(* Consequences of replay.                                                 *)

\* No two events of a log that replays carry the same transaction: the first
\* moves a head, so the second would have expected what it finds moved.
THEOREM VerifiedHasNoDuplicate ==
  ASSUME NEW d \in Image, Verified(d),
         NEW i \in DOMAIN d.log, NEW j \in DOMAIN d.log,
         d.log[i].tx = d.log[j].tx
  PROVE  i = j
<1>1. ASSUME NEW a \in DOMAIN d.log, NEW b \in DOMAIN d.log, a < b,
             d.log[a].tx = d.log[b].tx
      PROVE  FALSE
  <2>1. /\ a \in Nat \ {0} /\ b \in Nat \ {0}
        /\ d.log[a] \in Event /\ d.log[a].tx.request \in Request
    <3>1. d.log \in Seq(Event)
      BY DEF Image
    <3>2. d.log[a] \in Event /\ a \in Nat \ {0} /\ b \in Nat \ {0}
      BY <3>1
    <3> QED
      BY <3>2 DEF Event, Tx
  <2>2. PICK n \in DOMAIN d.log[a].tx.request.news : TRUE
    BY <2>1, RequestAssumption
  <2>3. d.log[a].tx.expected[n] = HeadAfter(d.log, a - 1, n)
    BY <2>2 DEF Verified, EventVerifies
  <2>4. d.log[a].tx.expected[n] = HeadAfter(d.log, b - 1, n)
    BY <1>1, <2>2 DEF Verified, EventVerifies
  <2>5. a \in MovesOf(d.log, b - 1, n) /\ b - 1 \in Nat /\ a - 1 \in Nat
    BY <1>1, <2>1, <2>2 DEF MovesOf
  <2>6. PICK m \in MovesOf(d.log, b - 1, n) :
          /\ \A x \in MovesOf(d.log, b - 1, n) : x <= m
          /\ HeadAfter(d.log, b - 1, n) =
               [record |-> d.log[m].tx.request.news[n], seq |-> m]
    BY <2>5, HeadAfterCases
  <2>7. m >= a
    BY <2>5, <2>6
  <2>8. HeadAfter(d.log, b - 1, n) \in [record : {d.log[m].tx.request.news[n]}, seq : {m}]
    BY <2>6
  <2>9. CASE MovesOf(d.log, a - 1, n) = {}
    <3>1. HeadAfter(d.log, a - 1, n) = NoHead
      BY <2>5, <2>9, HeadAfterCases
    <3>2. d.log[m].tx.request.news[n] \in Record /\ m \in Nat \ {0}
      <4>1. m \in 1..(b - 1) /\ n \in DOMAIN d.log[m].tx.request.news
        BY <2>6 DEF MovesOf
      <4>2. m \in DOMAIN d.log /\ d.log \in Seq(Event)
        BY <2>1, <4>1 DEF Image
      <4>3. d.log[m].tx.request \in Request
        <5>1. d.log[m] \in Event
          BY <4>2
        <5> QED
          BY <5>1 DEF Event, Tx
      <4> QED
        BY <2>1, <4>1, <4>3, RequestAssumption
    <3>3. HeadAfter(d.log, b - 1, n) \in HeadState
      BY <2>6, <3>2 DEF HeadState
    <3> QED
      BY <2>3, <2>4, <3>1, <3>3, NoHeadAssumption
  <2>10. CASE MovesOf(d.log, a - 1, n) # {}
    <3>1. PICK q \in MovesOf(d.log, a - 1, n) :
            HeadAfter(d.log, a - 1, n) =
              [record |-> d.log[q].tx.request.news[n], seq |-> q]
      BY <2>5, <2>10, HeadAfterCases
    <3>2. q < a
      BY <2>1, <3>1 DEF MovesOf
    <3>3. q = m
      BY <2>3, <2>4, <2>6, <3>1
    <3>4. m \in Nat /\ q \in Nat
      BY <2>1, <2>6, <3>3 DEF MovesOf
    <3> QED
      BY <2>1, <2>7, <3>2, <3>3, <3>4
  <2> QED
    BY <2>9, <2>10
<1>2. i \in Nat /\ j \in Nat
  <2>1. d.log \in Seq(Event)
    BY DEF Image
  <2> QED
    BY <2>1
<1> QED
  BY <1>1, <1>2

-----------------------------------------------------------------------------
(* Keeping a log.                                                          *)

LEMMA KeepsReflexive == \A log \in Seq(Event) : Keeps(log, log)
BY DEF Keeps

LEMMA KeepsTransitive ==
  \A a, b, c \in Seq(Event) : Keeps(c, b) /\ Keeps(b, a) => Keeps(c, a)
BY DEF Keeps

LEMMA AppendKeeps ==
  ASSUME NEW d \in Image, NEW t \in Tx
  PROVE  Keeps(AppendTx(d, t).log, d.log)
<1>1. /\ Len(d.log) \in Nat
      /\ Len(AppendTx(d, t).log) = Len(d.log) + 1
      /\ \A i \in 1..Len(d.log) : AppendTx(d, t).log[i] = d.log[i]
  BY AppendTxLog
<1> QED
  BY <1>1 DEF Keeps
=============================================================================

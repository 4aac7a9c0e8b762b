------------------------------ MODULE AuditLog ------------------------------
(***************************************************************************)
(* The contents of one StateStore database and the pure decisions taken on *)
(* them: what a transaction appends, which answer a request deserves, and  *)
(* the replay that decides whether the four tables agree                   *)
(* (SQLiteStateStore._verify_state).                                       *)
(*                                                                         *)
(* An image d of the database is a record                                  *)
(*   d.records  ids of the rows of table records                           *)
(*   d.locals   identities of the rows of sensitive_local_values           *)
(*   d.log      audit_events in sequence order; position = sequence        *)
(*   d.heads    table heads, NoHead where a name has no row                *)
(*                                                                         *)
(* Rows are content addressed: a record is its id, and an event id is the  *)
(* digest of its payload, which holds the previous event id, so the id of  *)
(* event i stands for the whole prefix 1..i of the log. Head states keep   *)
(* the record and the sequence; their event id is the prefix up to there.  *)
(***************************************************************************)
EXTENDS Naturals, Sequences

CONSTANTS
  Record,    \* record ids
  Local,     \* (digest, kind) identities of sensitive local values
  HeadName,  \* names of mutable heads
  NoHead,    \* the absent head (None in the code)
  Request    \* what callers ask to commit, see RequestAssumption

HeadState == [record : Record, seq : Nat \ {0}]

ASSUME NoHeadAssumption == NoHead \notin HeadState

(***************************************************************************)
(* A request after _normalize_records, _normalize_local_values and         *)
(* _normalize_head_updates: its records and local values are sets without  *)
(* duplicates, it moves at least one head, and no head twice. The field    *)
(* "kind" stands for event kind, logical time and details.                 *)
(***************************************************************************)
ASSUME RequestAssumption ==
  \A r \in Request :
    /\ r.records \subseteq Record
    /\ r.subject \in Record
    /\ r.locals \subseteq Local
    /\ DOMAIN r.news \subseteq HeadName
    /\ DOMAIN r.news # {}
    /\ \A n \in DOMAIN r.news : r.news[n] \in Record

Heads == [HeadName -> HeadState \cup {NoHead}]

\* A transaction signature: the request with the heads its caller expects.
Tx == [request : Request, expected : Heads]

Event == [tx : Tx, inserted : SUBSET Record]

Image == [records : SUBSET Record, locals : SUBSET Local,
          log : Seq(Event), heads : Heads]

EmptyImage == [records |-> {}, locals |-> {}, log |-> <<>>,
               heads |-> [n \in HeadName |-> NoHead]]

-----------------------------------------------------------------------------
(* Replay of the log, as the verification pass computes it.                *)

MovesOf(log, k, n) == {i \in 1..k : n \in DOMAIN log[i].tx.request.news}

\* The head of name n after the first k events.
HeadAfter(log, k, n) ==
  IF MovesOf(log, k, n) = {}
  THEN NoHead
  ELSE LET last == CHOOSE i \in MovesOf(log, k, n) :
                     \A j \in MovesOf(log, k, n) : j <= i
       IN  [record |-> log[last].tx.request.news[n], seq |-> last]

\* The records the first k events inserted.
InsertedBy(log, k) == UNION {log[i].inserted : i \in 1..k}

LocalsOf(log) == UNION {log[i].tx.request.locals : i \in DOMAIN log}

EventVerifies(d, i) ==
  LET e         == d.log[i]
      r         == e.tx.request
      available == InsertedBy(d.log, i)
  IN  /\ e.inserted \subseteq r.records
      /\ e.inserted \cap InsertedBy(d.log, i - 1) = {}
      /\ r.records \subseteq available
      /\ r.subject \in available
      /\ r.locals \subseteq d.locals
      /\ i # 1 => r.locals = {}
      /\ \A n \in DOMAIN r.news :
           /\ HeadAfter(d.log, i - 1, n) = e.tx.expected[n]
           /\ r.news[n] \in available

\* _verify_state without an anchor: the tables are exactly what the log says.
Verified(d) ==
  /\ \A i \in DOMAIN d.log : EventVerifies(d, i)
  /\ \A n \in HeadName : d.heads[n] = HeadAfter(d.log, Len(d.log), n)
  /\ d.records = InsertedBy(d.log, Len(d.log))
  /\ d.locals = LocalsOf(d.log)

-----------------------------------------------------------------------------
(* The decisions of commit_many, in the order the code takes them.         *)

MovedHeadFromZero(t, n, seq) == \* mutant: sequences count from zero
  [record |-> t.request.news[n], seq |-> seq - 1]
MovedHead(t, n, seq) == [record |-> t.request.news[n], seq |-> seq]

\* mutant: a retry is recognised by the heads alone
RepeatsByHeads(d, t) ==
  {i \in DOMAIN d.log :
     \A n \in DOMAIN t.request.news : d.heads[n] = MovedHead(t, n, i)}

\* Events that already did what t asks and whose heads are all still current.
RepeatsAt(d, t) ==
  {i \in DOMAIN d.log :
     /\ d.log[i].tx = t
     /\ \A n \in DOMAIN t.request.news : d.heads[n] = MovedHead(t, n, i)}

LateLocals(d, t) == t.request.locals # {} /\ d.log # <<>>

\* mutant: an absent expected head means any head
StaleUnlessAbsent(d, t) ==
  \E n \in DOMAIN t.request.news :
    t.expected[n] # NoHead /\ d.heads[n] # t.expected[n]

StaleHead(d, t) ==
  \E n \in DOMAIN t.request.news : d.heads[n] # t.expected[n]

AbsentRecord(d, t) ==
  \/ t.request.subject \notin d.records \cup t.request.records
  \/ \E n \in DOMAIN t.request.news :
       t.request.news[n] \notin d.records \cup t.request.records

\* mutant: a request whose records are all stored skips the comparisons
DecisionLenient(d, t) ==
  IF t.request.records \subseteq d.records THEN "append"
  ELSE IF LateLocals(d, t)   THEN "validation"
  ELSE IF StaleHead(d, t)    THEN "conflict"
  ELSE IF AbsentRecord(d, t) THEN "integrity"
  ELSE "append"

Decision(d, t) ==
  IF RepeatsAt(d, t) # {}  THEN "repeat"
  ELSE IF LateLocals(d, t)   THEN "validation"
  ELSE IF StaleHead(d, t)    THEN "conflict"
  ELSE IF AbsentRecord(d, t) THEN "integrity"
  ELSE "append"

\* mutant: the event lists every requested record as inserted
AppendTxListsAll(d, t) ==
  LET seq == Len(d.log) + 1
  IN  [records |-> d.records \cup t.request.records,
       locals  |-> d.locals \cup t.request.locals,
       log     |-> Append(d.log, [tx |-> t, inserted |-> t.request.records]),
       heads   |-> [n \in HeadName |-> IF n \in DOMAIN t.request.news
                                       THEN MovedHead(t, n, seq)
                                       ELSE d.heads[n]]]

\* The image after the inserts, the audit event and the head upserts of t.
AppendTx(d, t) ==
  LET seq == Len(d.log) + 1
  IN  [records |-> d.records \cup t.request.records,
       locals  |-> d.locals \cup t.request.locals,
       log     |-> Append(d.log, [tx       |-> t,
                                  inserted |-> t.request.records \ d.records]),
       heads   |-> [n \in HeadName |-> IF n \in DOMAIN t.request.news
                                       THEN MovedHead(t, n, seq)
                                       ELSE d.heads[n]]]

\* The log new still holds every event of the log old, at its sequence.
Keeps(new, old) ==
  /\ Len(old) <= Len(new)
  /\ \A i \in 1..Len(old) : new[i] = old[i]
=============================================================================

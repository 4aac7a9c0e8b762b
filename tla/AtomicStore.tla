---------------------------- MODULE AtomicStore -----------------------------
(***************************************************************************)
(* What a StateStore promises its callers, whatever the handles, files,    *)
(* locks and crashes below it do: a multi-head compare-and-swap register   *)
(* with a history. A call takes effect at one instant or not at all, a     *)
(* conflict is only reported when an expected head really was stale, and a *)
(* receipt names an event that is in the history. A caller may be told     *)
(* nothing (its process died) or that the outcome is unknown ("failed"),   *)
(* whether or not its event was appended.                                  *)
(***************************************************************************)
EXTENDS Naturals, Sequences

CONSTANTS
  Handle,    \* callers
  HeadName,
  NoHead,
  Tx,        \* transactions: [request, expected], see AuditLog
  NoTx

VARIABLES
  history,   \* the transactions that took effect, in order
  phase,     \* per caller: idle, pending, or done (took effect, not answered)
  tx,        \* per caller: its transaction
  answer,    \* per caller: what its last call was told
  receipts   \* every receipt ever given

vars == <<history, phase, tx, answer, receipts>>

Moves(n) == {i \in DOMAIN history : n \in DOMAIN history[i].request.news}

Current(n) ==
  IF Moves(n) = {}
  THEN NoHead
  ELSE LET last == CHOOSE i \in Moves(n) : \A j \in Moves(n) : j <= i
       IN  [record |-> history[last].request.news[n], seq |-> last]

HeadsAsExpected(t) ==
  \A n \in DOMAIN t.request.news : Current(n) = t.expected[n]

Receipt(t, i) == [tx |-> t, seq |-> i]

NobodyCalled ==
  /\ phase = [h \in Handle |-> "idle"]
  /\ tx = [h \in Handle |-> NoTx]
  /\ answer = [h \in Handle |-> "none"]
  /\ receipts = {}

Init == history = <<>> /\ NobodyCalled

\* The caller picks any transaction.
Invoke(h) ==
  /\ phase[h] = "idle"
  /\ phase' = [phase EXCEPT ![h] = "pending"]
  /\ tx'[h] \in Tx
  /\ tx' = [tx EXCEPT ![h] = tx'[h]]
  /\ answer' = [answer EXCEPT ![h] = "none"]
  /\ UNCHANGED <<history, receipts>>

TakeEffect(h) ==
  /\ phase[h] = "pending"
  /\ HeadsAsExpected(tx[h])
  /\ history' = Append(history, tx[h])
  /\ phase' = [phase EXCEPT ![h] = "done"]
  /\ UNCHANGED <<tx, answer, receipts>>

Return(h, a) ==
  /\ phase' = [phase EXCEPT ![h] = "idle"]
  /\ tx' = [tx EXCEPT ![h] = NoTx]
  /\ answer' = [answer EXCEPT ![h] = a]
  /\ UNCHANGED history

\* A receipt, of the call's own event or of an identical earlier one whose
\* heads have not moved since.
GiveReceipt(h) ==
  /\ phase[h] # "idle"
  /\ \E i \in DOMAIN history :
       /\ history[i] = tx[h]
       /\ phase[h] = "pending" =>
            \A n \in DOMAIN tx[h].request.news : Current(n).seq = i
       /\ receipts' = receipts \cup {Receipt(tx[h], i)}
  /\ Return(h, "receipt")

GiveConflict(h) ==
  /\ phase[h] = "pending"
  /\ ~HeadsAsExpected(tx[h])
  /\ Return(h, "conflict")
  /\ UNCHANGED receipts

GiveUp(h) ==
  /\ phase[h] # "idle"
  /\ Return(h, "failed")
  /\ UNCHANGED receipts

\* The caller's process died, or it dropped its handle.
Vanish(H) ==
  /\ phase' = [h \in Handle |-> IF h \in H THEN "idle" ELSE phase[h]]
  /\ tx' = [h \in Handle |-> IF h \in H THEN NoTx ELSE tx[h]]
  /\ answer' = [h \in Handle |-> IF h \in H THEN "none" ELSE answer[h]]
  /\ UNCHANGED <<history, receipts>>

Next ==
  \/ \E h \in Handle :
       \/ Invoke(h)
       \/ TakeEffect(h)
       \/ GiveReceipt(h)
       \/ GiveConflict(h)
       \/ GiveUp(h)
  \/ \E H \in SUBSET Handle : Vanish(H)

Spec == Init /\ [][Next]_vars
=============================================================================

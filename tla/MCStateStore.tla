---------------------------- MODULE MCStateStore ----------------------------
(* Small instances of StateStore for TLC.                                  *)
EXTENDS StateStore, TLC

\* initialize: the genesis records with the sensitive local values.
Genesis == [kind |-> "initialize", records |-> {"g"}, subject |-> "g",
            locals |-> {"goal"}, news |-> "main" :> "g"]

\* checkpoint: one child record, one head.
Child == [kind |-> "checkpoint", records |-> {"c"}, subject |-> "c",
          locals |-> {}, news |-> "main" :> "c"]

\* A two-head transaction that also repeats a record already stored.
Both == [kind |-> "promote", records |-> {"c", "g"}, subject |-> "g",
         locals |-> {}, news |-> "main" :> "g" @@ "side" :> "c"]

\* A head update whose record nobody supplies.
Dangling == [kind |-> "checkpoint", records |-> {}, subject |-> "x",
             locals |-> {}, news |-> "side" :> "x"]

AllRequests == {Genesis, Both, Dangling}
FewRequests == {Genesis, Child}

\* Every handle in a process of its own.
OwnProcess == [h \in Handle |-> h]

\* Every handle but one is a thread of the same process.
CONSTANTS SharedProcess, OtherProcess, OwnHandle
TwoThreads ==
  [h \in Handle |-> IF h = OwnHandle THEN OtherProcess ELSE SharedProcess]
=============================================================================

------------------------ MODULE BoundedProcessProofs ------------------------
(***************************************************************************)
(* The safety of one Git child run by _run_bounded, for every limit, chunk *)
(* and pipe size and whatever the child writes: the result is complete,    *)
(* the limit is exact, and no child is left without a SIGKILL.             *)
(***************************************************************************)
EXTENDS BoundedProcess, TLAPS

-----------------------------------------------------------------------------
(* The inductive invariant.                                                *)

\* What was written to a stream is in the pipe, in the read in progress or in
\* the bytearray, until its thread meets the limit.
FlowInv ==
  \A s \in Stream : pc[s] = "read" => kept[s] + got[s] + pipe[s] = written[s]

\* A thread that stops the child has met the limit, and so has whoever wrote.
LimitInv ==
  /\ LimitIsExact
  /\ \A s \in Stream : pc[s] \in StopPlaces => overflow

\* A thread ends with everything its stream will ever carry, or after it met
\* the limit.
DoneInv ==
  \A s \in Stream : pc[s] = "done" =>
    /\ ~open[s]
    /\ overflow \/ (~running /\ s \notin heir /\ kept[s] = written[s])

\* Whoever has been inside _stop_process leaves the child exited or killed.
StopInv ==
  /\ \A t \in Thread : pc[t] = "reap" => signal = "KILL"
  /\ pc[Main] \in {"join", "join second", "ended"} => ~running \/ signal = "KILL"

\* Bytes are only returned when both threads were seen to have ended within
\* the limit.
ResultInv ==
  result \in {"answered", "failed"} => ~overflow /\ \A s \in Stream : pc[s] = "done"

IInv == TypeOK /\ FlowInv /\ LimitInv /\ DoneInv /\ StopInv /\ ResultInv

LEMMA ThreadFacts ==
  /\ Main \in Thread /\ Main \notin Stream /\ Stream \subseteq Thread
  /\ Nobody \notin Thread
  /\ MaxOutput \in Nat \ {0} /\ Chunk \in Nat \ {0} /\ Pipe \in Nat \ {0}
  /\ MaxWritten \in Nat
BY StreamAssumption DEF Thread

LEMMA Counts ==
  ASSUME TypeOK, NEW s \in Stream
  PROVE  /\ pipe[s] \in Nat /\ pipe[s] <= Pipe
         /\ written[s] \in Nat /\ written[s] <= MaxWritten
         /\ got[s] \in Nat /\ got[s] <= Chunk
         /\ kept[s] \in Nat /\ kept[s] <= MaxOutput
<1>1. /\ pipe[s] \in 0..Pipe /\ written[s] \in 0..MaxWritten
      /\ got[s] \in 0..Chunk /\ kept[s] \in 0..MaxOutput
  BY DEF TypeOK
<1> QED
  BY <1>1, ThreadFacts

-----------------------------------------------------------------------------
(* The child.                                                              *)

LEMMA InitInv == Init => IInv
<1> SUFFICES ASSUME Init PROVE IInv
  OBVIOUS
<1> USE ThreadFacts
<1>1. pc[Main] = "wait" /\ \A s \in Stream : pc[s] = "read"
  BY DEF Init
<1>2. TypeOK
  <2>1. \A t \in Thread : pc[t] \in {"wait", "read"} /\ stopping # t
    BY DEF Init
  <2>2. pc \in [Thread -> {"wait", "read"}]
    BY DEF Init
  <2>3. /\ pipe \in [Stream -> 0..Pipe] /\ written \in [Stream -> 0..MaxWritten]
        /\ got \in [Stream -> 0..Chunk] /\ kept \in [Stream -> 0..MaxOutput]
        /\ open \in [Stream -> BOOLEAN]
    BY DEF Init
  <2>4. \A t \in Thread : stopping = t <=> pc[t] \in StopPlaces \ {"stop"}
    BY <2>1 DEF StopPlaces
  <2>5. /\ running \in BOOLEAN /\ hangs \in BOOLEAN /\ overflow \in BOOLEAN
        /\ heir \subseteq Stream
    BY DEF Init
  <2> QED
    BY <2>2, <2>3, <2>4, <2>5 DEF Init, TypeOK
<1>3. FlowInv
  BY DEF Init, FlowInv
<1>4. LimitInv /\ DoneInv /\ StopInv
  <2>1. \A t \in Thread : pc[t] \in {"wait", "read"}
    BY DEF Init
  <2>2. \A t \in Thread : pc[t] \notin StopPlaces /\ pc[t] \notin {"done", "reap"}
    BY <2>1 DEF StopPlaces
  <2>3. ~overflow
    BY DEF Init
  <2> QED
    BY <1>1, <2>2, <2>3 DEF LimitInv, LimitIsExact, DoneInv, StopInv
<1>5. ResultInv
  BY DEF Init, ResultInv
<1> QED
  BY <1>2, <1>3, <1>4, <1>5 DEF IInv

LEMMA WantStep ==
  ASSUME IInv, NEW s \in Stream, Want(s) PROVE IInv'
BY DEF Want, IInv, TypeOK, FlowInv, LimitInv, LimitIsExact, DoneInv, StopInv,
   ResultInv, pipes, drains

LEMMA PutStep ==
  ASSUME IInv, NEW s \in Stream, Put(s), wants' \in {wants, Nobody} PROVE IInv'
<1> USE ThreadFacts
<1>0. TypeOK /\ pipe[s] + 1 \in 0..Pipe /\ written[s] + 1 \in 0..MaxWritten
  BY Counts DEF Put, IInv
<1>a. \A r \in Stream : /\ pipe'[r] = IF r = s THEN pipe[r] + 1 ELSE pipe[r]
                        /\ written'[r] = IF r = s THEN written[r] + 1 ELSE written[r]
  BY <1>0 DEF Put, TypeOK
<1>1. TypeOK'
  <2>1. pipe' \in [Stream -> 0..Pipe] /\ written' \in [Stream -> 0..MaxWritten]
    BY <1>0 DEF Put, TypeOK
  <2> QED
    BY <1>0, <2>1 DEF Put, TypeOK, drains
<1>2. FlowInv'
  BY <1>0, <1>a, Counts DEF Put, IInv, FlowInv, drains
<1>3. LimitInv'
  <2>1. \A r \in Stream : written'[r] >= written[r]
    BY <1>0, <1>a, Counts
  <2>2. \A r \in Stream : written[r] > MaxOutput => written'[r] > MaxOutput
    BY <1>0, <1>a, Counts
  <2> QED
    BY <2>2 DEF Put, IInv, LimitInv, LimitIsExact, drains
<1>4. DoneInv'
  BY <1>a DEF Put, IInv, DoneInv, drains
<1>5. StopInv' /\ ResultInv'
  BY DEF Put, IInv, StopInv, ResultInv, drains
<1> QED
  BY <1>1, <1>2, <1>3, <1>4, <1>5 DEF IInv

LEMMA ExitStep ==
  ASSUME IInv, Exit PROVE IInv'
BY DEF Exit, IInv, TypeOK, FlowInv, LimitInv, LimitIsExact, DoneInv, StopInv,
   ResultInv, pipes, drains

LEMMA HeirExitsStep ==
  ASSUME IInv, HeirExits PROVE IInv'
BY DEF HeirExits, IInv, TypeOK, FlowInv, LimitInv, LimitIsExact, DoneInv, StopInv,
   ResultInv, pipes, drains

-----------------------------------------------------------------------------
(* Stopping it.                                                            *)

\* A thread leaves _stop_process with the child exited or killed; if it is a
\* drain, it has met the limit.
LEMMA LeaveStep ==
  ASSUME IInv, NEW t \in Thread, LeaveStop(t),
         pc[t] \in {"poll", "await", "reap"}, ~running \/ signal = "KILL",
         UNCHANGED <<child, pipe, written, drains, result>>
  PROVE  IInv'
<1> USE ThreadFacts DEF child, drains
<1>1. /\ pc' = [pc EXCEPT ![t] = IF t # Main THEN "done"
                                 ELSE IF result = "timed out" THEN "join" ELSE "ended"]
      /\ open' = IF t = Main THEN open ELSE [open EXCEPT ![t] = FALSE]
      /\ stopping' = Nobody
  BY DEF LeaveStop, GoOn, Goto
<1>2. TypeOK'
  BY <1>1 DEF IInv, TypeOK, StopPlaces, Thread
<1>3. FlowInv'
  BY <1>1 DEF IInv, TypeOK, FlowInv
<1>4. LimitInv'
  BY <1>1 DEF IInv, TypeOK, LimitInv, LimitIsExact, StopPlaces
<1>5. DoneInv'
  <2>1. \A s \in Stream : pc[s] # pc'[s] =>
          s = t /\ pc'[s] = "done" /\ overflow /\ open'[s] = FALSE
    BY <1>1 DEF IInv, TypeOK, LimitInv, StopPlaces
  <2>2. \A s \in Stream : open'[s] => open[s]
    BY <1>1 DEF IInv, TypeOK
  <2> QED
    BY <2>1, <2>2 DEF IInv, DoneInv
<1>6. StopInv'
  BY <1>1 DEF IInv, TypeOK, StopInv
<1>7. ResultInv'
  BY <1>1 DEF IInv, TypeOK, ResultInv
<1> QED
  BY <1>2, <1>3, <1>4, <1>5, <1>6, <1>7 DEF IInv

\* A thread that goes from one place of _stop_process to another changes nothing
\* but the signal, which stays a SIGKILL once it is one.
LEMMA MoveStep ==
  ASSUME IInv, NEW t \in Thread, NEW at \in StopPlaces \ {"stop"}, Goto(t, at),
         pc[t] \in StopPlaces, pc[t] = "stop" => stopping = Nobody, stopping' = t,
         signal' \in {"none", "TERM", "KILL"},
         signal = "KILL" \/ at = "reap" => signal' = "KILL",
         UNCHANGED <<running, code, hangs, wants, heir, pipes, drains, result>>
  PROVE  IInv'
<1> USE ThreadFacts
<1>1. /\ pc \in [Thread -> {"read", "done", "wait", "join", "join second", "ended"}
                             \cup StopPlaces]
      /\ pc' = [pc EXCEPT ![t] = at]
  BY DEF Goto, IInv, TypeOK
<1>2. \A u \in Thread : pc'[u] = IF u = t THEN at ELSE pc[u]
  BY <1>1
<1>3. at \in {"poll", "terminate", "await", "reap"}
  BY DEF StopPlaces
<1>4. \A u \in Thread : stopping' = u <=> pc'[u] \in StopPlaces \ {"stop"}
  <2>1. \A u \in Thread : u # t => pc[u] \notin StopPlaces \ {"stop"}
    BY DEF IInv, TypeOK
  <2> QED
    BY <1>2, <2>1
<1>5. TypeOK'
  <2>1. pc' \in [Thread -> {"read", "done", "wait", "join", "join second", "ended"}
                             \cup StopPlaces]
    BY <1>1
  <2> QED
    BY <1>4, <2>1 DEF IInv, TypeOK, pipes, drains
<1>6. FlowInv'
  <2>1. \A s \in Stream : pc'[s] = "read" => pc[s] = "read"
    BY <1>2, <1>3
  <2> QED
    BY <2>1 DEF IInv, FlowInv, pipes, drains
<1>7. LimitInv'
  <2>1. \A s \in Stream : pc'[s] \in StopPlaces => pc[s] \in StopPlaces
    BY <1>2
  <2> QED
    BY <2>1 DEF IInv, LimitInv, LimitIsExact, pipes, drains
<1>8. DoneInv'
  <2>1. \A s \in Stream : pc'[s] = "done" => pc[s] = "done"
    BY <1>2, <1>3
  <2> QED
    BY <2>1 DEF IInv, DoneInv, pipes, drains
<1>9. StopInv'
  <2>1. \A u \in Thread : pc'[u] = "reap" => signal' = "KILL"
    BY <1>2 DEF IInv, StopInv
  <2>2. pc'[Main] \in {"join", "join second", "ended"} => pc'[Main] = pc[Main]
    BY <1>2, <1>3
  <2> QED
    BY <2>1, <2>2 DEF IInv, StopInv
<1>10. ResultInv'
  <2>1. \A s \in Stream : pc[s] = "done" => pc'[s] = "done"
    BY <1>2 DEF StopPlaces
  <2> QED
    BY <2>1 DEF IInv, ResultInv, drains
<1> QED
  BY <1>5, <1>6, <1>7, <1>8, <1>9, <1>10 DEF IInv

LEMMA StopStep ==
  ASSUME IInv, NEW t \in Thread, Stop(t) PROVE IInv'
<1> USE DEF child, pipes, drains
<1>a. /\ {"poll", "terminate", "await", "reap"} \subseteq StopPlaces \ {"stop"}
      /\ {"stop", "poll", "terminate", "await"} \subseteq StopPlaces
      /\ signal \in {"none", "TERM", "KILL"}
      /\ pc[t] \in StopPlaces \ {"stop"} => stopping = t
  BY DEF IInv, TypeOK, StopPlaces
<1>1. CASE EnterStop(t)
  BY <1>1, <1>a, MoveStep DEF EnterStop
<1>2. CASE Poll(t) /\ running
  BY <1>2, <1>a, MoveStep DEF Poll
<1>3. CASE Poll(t) /\ ~running
  BY <1>3, LeaveStep DEF Poll
<1>4. CASE Terminate(t)
  BY <1>4, <1>a, MoveStep DEF Terminate
<1>5. CASE Await(t) /\ signal' = "KILL" /\ Goto(t, "reap") /\ UNCHANGED <<open, stopping>>
  BY <1>5, <1>a, MoveStep DEF Await
<1>6. CASE Await(t) /\ ~running /\ LeaveStop(t) /\ UNCHANGED signal
  BY <1>6, LeaveStep DEF Await, child
<1>7. CASE Reap(t)
  BY <1>7, LeaveStep DEF Reap, IInv, StopInv
<1> QED
  BY <1>1, <1>2, <1>3, <1>4, <1>5, <1>6, <1>7 DEF Stop, Await

-----------------------------------------------------------------------------
(* Draining a stream.                                                      *)

LEMMA CollectStep ==
  ASSUME IInv, NEW s \in Stream, Collect(s) PROVE IInv'
<1> USE ThreadFacts
<1>1. PICK n \in 1..Chunk :
        /\ pc[s] = "read" /\ n <= pipe[s] /\ got[s] + n <= Chunk
        /\ pipe' = [pipe EXCEPT ![s] = pipe[s] - n]
        /\ got' = [got EXCEPT ![s] = got[s] + n]
        /\ UNCHANGED <<child, written, open, kept, overflow, stopping, pc, result>>
  <2> DEFINE n == IF pipe[s] < Chunk - got[s] THEN pipe[s] ELSE Chunk - got[s]
  <2>1. pipe[s] \in 0..Pipe /\ got[s] \in 0..Chunk
    BY DEF IInv, TypeOK
  <2>2. n \in 1..Chunk /\ n <= pipe[s] /\ got[s] + n <= Chunk
    BY <2>1 DEF Collect
  <2> QED
    BY <2>2 DEF Collect, IInv, TypeOK
<1>2. TypeOK'
  <2>1. pipe[s] - n \in 0..Pipe /\ got[s] + n \in 0..Chunk
    BY <1>1, Counts DEF IInv
  <2> QED
    BY <1>1, <2>1 DEF IInv, TypeOK, child
<1>3. FlowInv'
  <2>1. \A r \in Stream : /\ pipe'[r] = IF r = s THEN pipe[r] - n ELSE pipe[r]
                          /\ got'[r] = IF r = s THEN got[r] + n ELSE got[r]
    BY <1>1 DEF IInv, TypeOK
  <2> QED
    BY <1>1, <2>1, Counts DEF IInv, FlowInv
<1>4. LimitInv' /\ DoneInv' /\ StopInv' /\ ResultInv'
  BY <1>1 DEF IInv, LimitInv, LimitIsExact, DoneInv, StopInv, ResultInv, child
<1> QED
  BY <1>2, <1>3, <1>4 DEF IInv

LEMMA KeepStep ==
  ASSUME IInv, NEW s \in Stream, Keep(s) PROVE IInv'
<1> USE ThreadFacts
<1>0. /\ pc[s] = "read" /\ kept[s] \in 0..MaxOutput /\ got[s] \in 0..Chunk
      /\ pipe[s] \in 0..Pipe /\ written[s] \in 0..MaxWritten
      /\ kept[s] + got[s] + pipe[s] = written[s]
      /\ got' = [got EXCEPT ![s] = 0]
      /\ UNCHANGED <<child, pipes, stopping, result>>
  BY DEF Keep, IInv, TypeOK, FlowInv
<1>1. CASE got[s] <= MaxOutput - kept[s]
  <2>1. kept' = [kept EXCEPT ![s] = kept[s] + got[s]] /\ UNCHANGED <<overflow, pc>>
    <3>1. /\ (IF got[s] < MaxOutput - kept[s] THEN got[s] ELSE MaxOutput - kept[s]) = got[s]
          /\ ~(got[s] > MaxOutput - kept[s])
      BY <1>0, <1>1
    <3>2. kept' = [kept EXCEPT ![s] = kept[s] + got[s]] /\ pc' = pc
      BY <3>1 DEF Keep
    <3>3. overflow' = (overflow \/ FALSE) /\ overflow \in BOOLEAN
      BY <3>1 DEF Keep, IInv, TypeOK
    <3> QED
      BY <3>2, <3>3
  <2>2. TypeOK'
    <3>1. kept[s] + got[s] \in 0..MaxOutput /\ 0 \in 0..Chunk
      BY <1>0, <1>1
    <3> QED
      BY <1>0, <2>1, <3>1 DEF IInv, TypeOK, child, pipes
  <2>a. \A r \in Stream : /\ kept'[r] = IF r = s THEN kept[r] + got[r] ELSE kept[r]
                          /\ got'[r] = IF r = s THEN 0 ELSE got[r]
    BY <1>0, <2>1 DEF IInv, TypeOK
  <2>3. FlowInv'
    BY <1>0, <2>1, <2>a, Counts DEF IInv, FlowInv, pipes
  <2>4. DoneInv'
    BY <1>0, <2>1, <2>a DEF IInv, DoneInv, child, pipes
  <2>5. LimitInv' /\ StopInv' /\ ResultInv'
    BY <1>0, <2>1 DEF IInv, LimitInv, LimitIsExact, StopInv, ResultInv, child, pipes
  <2> QED
    BY <2>2, <2>3, <2>4, <2>5 DEF IInv
<1>2. CASE got[s] > MaxOutput - kept[s]
  <2>1. /\ kept' = [kept EXCEPT ![s] = MaxOutput] /\ overflow' = TRUE
        /\ pc' = [pc EXCEPT ![s] = "stop"]
    <3>1. kept[s] + (IF got[s] < MaxOutput - kept[s] THEN got[s]
                     ELSE MaxOutput - kept[s]) = MaxOutput
      BY <1>0, <1>2
    <3>2. kept' = [kept EXCEPT ![s] = MaxOutput] /\ pc' = [pc EXCEPT ![s] = "stop"]
      BY <1>2, <3>1 DEF Keep, Goto
    <3>3. overflow' = (overflow \/ TRUE)
      BY <1>2 DEF Keep
    <3> QED
      BY <3>2, <3>3
  <2>2. written'[s] > MaxOutput
    BY <1>0, <1>2 DEF pipes
  <2>3. TypeOK'
    <3>1. MaxOutput \in 0..MaxOutput /\ 0 \in 0..Chunk
      OBVIOUS
    <3>2. kept' \in [Stream -> 0..MaxOutput] /\ got' \in [Stream -> 0..Chunk]
      BY <1>0, <2>1, <3>1 DEF IInv, TypeOK
    <3> QED
      BY <1>0, <2>1, <3>2 DEF IInv, TypeOK, child, pipes, StopPlaces
  <2>a. \A r \in Stream \ {s} :
          UNCHANGED <<pc[r], kept[r], got[r], pipe[r], written[r], open[r]>>
    BY <1>0, <2>1 DEF IInv, TypeOK, pipes
  <2>b. pc'[s] = "stop"
    BY <2>1 DEF IInv, TypeOK
  <2>4. FlowInv'
    BY <2>a, <2>b DEF IInv, FlowInv
  <2>5. LimitInv'
    BY <2>1, <2>2, <2>a DEF IInv, LimitInv, LimitIsExact
  <2>6. DoneInv' /\ StopInv'
    <3>1. \A t \in Thread : pc'[t] = IF t = s THEN "stop" ELSE pc[t]
      BY <2>1 DEF IInv, TypeOK
    <3>2. StopInv'
      BY <1>0, <3>1 DEF IInv, StopInv, child
    <3>3. DoneInv'
      <4>1. \A r \in Stream : pc'[r] = "done" => r # s /\ pc[r] = "done"
        BY <2>a, <2>b
      <4> QED
        BY <1>0, <2>1, <2>a, <4>1 DEF IInv, DoneInv
    <3> QED
      BY <3>2, <3>3
  <2>7. ResultInv'
    BY <1>0 DEF IInv, ResultInv
  <2> QED
    BY <2>3, <2>4, <2>5, <2>6, <2>7 DEF IInv
<1> QED
  BY <1>0, <1>1, <1>2

\* A thread sees the end of its stream only when nobody is left to write.
LEMMA EndStep ==
  ASSUME IInv, NEW s \in Stream, EndOfStream(s) PROVE IInv'
<1> USE ThreadFacts
<1>0. /\ pc[s] = "read" /\ got[s] = 0 /\ pipe[s] = 0 /\ ~running /\ s \notin heir
      /\ pc' = [pc EXCEPT ![s] = "done"] /\ open' = [open EXCEPT ![s] = FALSE]
      /\ UNCHANGED <<child, pipe, written, drains, stopping, result>>
  BY DEF EndOfStream, AtEnd, GoOn, Goto
<1>1. kept[s] = written[s]
  <2>1. kept[s] + 0 + 0 = written[s]
    BY <1>0 DEF IInv, FlowInv
  <2> QED
    BY <2>1, Counts DEF IInv
<1>2. TypeOK'
  BY <1>0 DEF IInv, TypeOK, child, drains, StopPlaces
<1>3. DoneInv'
  <2>1. /\ ~open'[s]
        /\ \A r \in Stream \ {s} : pc'[r] = pc[r] /\ open'[r] = open[r]
    BY <1>0 DEF IInv, TypeOK
  <2> QED
    BY <1>0, <1>1, <2>1 DEF IInv, DoneInv, child, drains
<1>4. FlowInv' /\ LimitInv' /\ StopInv' /\ ResultInv'
  BY <1>0 DEF IInv, TypeOK, FlowInv, LimitInv, LimitIsExact, StopInv, ResultInv,
     child, drains, StopPlaces
<1> QED
  BY <1>2, <1>3, <1>4 DEF IInv

-----------------------------------------------------------------------------
(* The caller.                                                             *)

LEMMA CallerStep ==
  ASSUME IInv, Caller \/ TimedOut PROVE IInv'
<1> USE ThreadFacts DEF Goto, child, pipes, drains, StopPlaces
<1>1. CASE ChildExited
  BY <1>1 DEF ChildExited, IInv, TypeOK, FlowInv, LimitInv, LimitIsExact, DoneInv,
     StopInv, ResultInv
<1>2. CASE Join
  BY <1>2 DEF Join, IInv, TypeOK, FlowInv, LimitInv, LimitIsExact, DoneInv,
     StopInv, ResultInv
<1>3. CASE TimedOut
  BY <1>3 DEF TimedOut, IInv, TypeOK, FlowInv, LimitInv, LimitIsExact, DoneInv,
     StopInv, ResultInv
<1>4. CASE JoinSecond
  <2>1. /\ pc[Main] = "join second"
        /\ \/ pc' = [pc EXCEPT ![Main] = "ended"]
           \/ pc' = [pc EXCEPT ![Main] = "stop"]
        /\ UNCHANGED <<child, pipes, drains, stopping>>
    BY <1>4 DEF JoinSecond
  <2>2. /\ result' \in {result, "undrained", "exceeded", "answered", "failed"}
        /\ result' \in {"answered", "failed"} =>
             result' = result \/ (~overflow /\ \A s \in Stream : pc[s] = "done")
    BY <1>4 DEF JoinSecond, Answer
  <2>3. TypeOK'
    <3>1. pc[Main] \notin StopPlaces \ {"stop"}
      BY <2>1
    <3>2. \A t \in Thread : pc'[t] = pc[t] \/ (t = Main /\ pc'[t] \in {"ended", "stop"})
      BY <2>1 DEF IInv, TypeOK
    <3>3. \A t \in Thread : stopping' = t <=> pc'[t] \in StopPlaces \ {"stop"}
      BY <2>1, <3>1, <3>2 DEF IInv, TypeOK
    <3>4. result' \in {"none", "timed out", "undrained", "exceeded", "answered", "failed"}
      BY <2>2 DEF IInv, TypeOK
    <3> QED
      BY <2>1, <3>3, <3>4 DEF IInv, TypeOK
  <2>4. FlowInv' /\ LimitInv' /\ DoneInv' /\ StopInv'
    BY <2>1 DEF IInv, TypeOK, FlowInv, LimitInv, LimitIsExact, DoneInv, StopInv
  <2>5. ResultInv'
    BY <2>1, <2>2 DEF IInv, TypeOK, ResultInv
  <2> QED
    BY <2>3, <2>4, <2>5 DEF IInv
<1> QED
  BY <1>1, <1>2, <1>3, <1>4 DEF Caller

-----------------------------------------------------------------------------
LEMMA InvStep == IInv /\ [Next]_vars => IInv'
<1> SUFFICES ASSUME IInv, [Next]_vars PROVE IInv'
  OBVIOUS
<1>1. ASSUME Write PROVE IInv'
  <2>1. wants \in Stream
    BY <1>1 DEF Write, IInv, TypeOK
  <2> QED
    BY <1>1, <2>1, PutStep DEF Write
<1>2. ASSUME HeirWrites PROVE IInv'
  <2>1. PICK s \in heir : Put(s) /\ UNCHANGED wants
    BY <1>2 DEF HeirWrites
  <2>2. s \in Stream
    BY <2>1 DEF IInv, TypeOK
  <2> QED
    BY <2>1, <2>2, PutStep
<1>3. CASE UNCHANGED vars
  BY <1>3 DEF vars, child, pipes, drains, IInv, TypeOK, FlowInv, LimitInv, LimitIsExact,
     DoneInv, StopInv, ResultInv
<1> QED
  BY <1>1, <1>2, <1>3, WantStep, ExitStep, HeirExitsStep, StopStep, CollectStep,
     KeepStep, EndStep, CallerStep DEF Next, Threads, Drain

LEMMA Invariance == Spec => []IInv
BY InitInv, InvStep, PTL DEF Spec

\* Every variable keeps its type, no more than max_output is ever kept, and the
\* lock of _stop_process has at most one holder.
THEOREM TypeCorrect == Spec => []TypeOK
<1>1. IInv => TypeOK
  BY DEF IInv
<1> QED
  BY <1>1, Invariance, PTL

\* A drain only stops the child, and the call only reports too much output,
\* when more than max_output was written.
THEOREM LimitExact == Spec => []LimitIsExact
<1>1. IInv => LimitIsExact
  BY DEF IInv, LimitInv
<1> QED
  BY <1>1, Invariance, PTL

\* The bytes the call returns are all that was written to either stream, and
\* nobody is left who could write more.
THEOREM CompleteResult == Spec => []ResultIsComplete
<1>1. IInv => ResultIsComplete
  <2> SUFFICES ASSUME IInv, result \in {"answered", "failed"}
               PROVE  ~running /\ heir = {} /\ kept = written
    BY DEF ResultIsComplete
  <2>1. \A s \in Stream : ~running /\ s \notin heir /\ kept[s] = written[s]
    BY DEF IInv, ResultInv, DoneInv
  <2>2. FirstJoined \in Stream
    BY StreamAssumption
  <2>3. heir = {} /\ ~running
    BY <2>1, <2>2 DEF IInv, TypeOK
  <2>4. kept = written
    <3>1. kept \in [Stream -> 0..MaxOutput] /\ written \in [Stream -> 0..MaxWritten]
      BY DEF IInv, TypeOK
    <3> QED
      BY <2>1, <3>1
  <2> QED
    BY <2>3, <2>4
<1> QED
  BY <1>1, Invariance, PTL

\* However the call ends, the child has exited or was sent SIGKILL.
THEOREM ChildStopped == Spec => []NoChildLeft
<1>1. IInv => NoChildLeft
  BY DEF IInv, StopInv, NoChildLeft
<1> QED
  BY <1>1, Invariance, PTL
=============================================================================

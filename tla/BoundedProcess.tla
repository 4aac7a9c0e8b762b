--------------------------- MODULE BoundedProcess ---------------------------
(***************************************************************************)
(* One Git child run by _run_bounded (capture/_git_process.py): the caller *)
(* waits for the child, a thread drains each of its two pipes, and any of  *)
(* the three may have to stop the child. Output is counted in units of the *)
(* instance. No caller of the code passes input_data, so the child has no  *)
(* stdin to write to.                                                      *)
(***************************************************************************)
EXTENDS Naturals, FiniteSets

CONSTANTS
  Stream,     \* stdout and stderr
  FirstJoined, SecondJoined, \* the order in which their threads are joined
  Main,       \* the calling thread
  Nobody,     \* no thread, no stream
  MaxOutput,  \* max_output
  Chunk,      \* what one stream.read asks for
  Pipe,       \* what a pipe holds
  MaxWritten  \* bound: what is written to one stream

ASSUME StreamAssumption ==
  /\ Stream = {FirstJoined, SecondJoined} /\ FirstJoined # SecondJoined
  /\ {Main, Nobody} \cap Stream = {} /\ Main # Nobody
  /\ {MaxOutput, Chunk, Pipe} \subseteq Nat \ {0} /\ MaxWritten \in Nat

VARIABLES
  running,   \* the child has not exited
  code,      \* its exit code
  hangs,     \* it may never exit by itself
  wants,     \* the stream it is blocked in a write to
  signal,    \* the strongest signal it was sent
  heir,      \* the streams a process of its own has inherited and keeps open
  pipe,      \* per stream: units in the pipe
  written,   \* per stream: units ever written
  open,      \* per stream: the read end is open
  got,       \* per stream: units of the read in progress
  kept,      \* per stream: units in the bytearray
  overflow,  \* the event of that name
  stopping,  \* the thread that holds stop_lock
  pc,        \* per thread
  result     \* of the call

child == <<running, code, hangs, wants, signal, heir>>
pipes == <<pipe, written, open>>
drains == <<got, kept, overflow>>
vars == <<child, pipes, drains, stopping, pc, result>>

Thread == Stream \cup {Main}

Init ==
  /\ running = TRUE
  /\ code = "none"
  /\ hangs \in BOOLEAN
  /\ wants = Nobody
  /\ signal = "none"
  /\ heir \in SUBSET Stream
  /\ pipe = [s \in Stream |-> 0]
  /\ written = [s \in Stream |-> 0]
  /\ open = [s \in Stream |-> TRUE]
  /\ got = [s \in Stream |-> 0]
  /\ kept = [s \in Stream |-> 0]
  /\ overflow = FALSE
  /\ stopping = Nobody
  /\ pc = [t \in Thread |-> IF t = Main THEN "wait" ELSE "read"]
  /\ result = "none"

Goto(t, at) == pc' = [pc EXCEPT ![t] = at]

-----------------------------------------------------------------------------
(* The child, and a process it leaves behind.                              *)

Want(s) ==
  /\ running /\ wants = Nobody
  /\ written[s] < MaxWritten
  /\ wants' = s
  /\ UNCHANGED <<running, code, hangs, signal, heir, pipes, drains, stopping, pc, result>>

Put(s) ==
  /\ open[s] /\ pipe[s] < Pipe /\ written[s] < MaxWritten
  /\ pipe' = [pipe EXCEPT ![s] = @ + 1]
  /\ written' = [written EXCEPT ![s] = @ + 1]
  /\ UNCHANGED <<running, code, hangs, signal, heir, open, drains, stopping, pc, result>>

Write == wants # Nobody /\ Put(wants) /\ wants' = Nobody

HeirWrites == \E s \in heir : Put(s) /\ UNCHANGED wants

\* A child that is blocked in a write goes on writing; SIGPIPE and a signal end
\* it wherever it is, and SIGTERM may be ignored.
Exit ==
  /\ running
  /\ running' = FALSE
  /\ wants' = Nobody
  /\ \/ wants = Nobody /\ code' \in {"zero", "nonzero"}
     \/ (signal # "none" \/ (wants # Nobody /\ ~open[wants])) /\ code' = "nonzero"
  /\ UNCHANGED <<hangs, signal, heir, pipes, drains, stopping, pc, result>>

HeirExits ==
  /\ heir # {}
  /\ heir' = {}
  /\ UNCHANGED <<running, code, hangs, wants, signal, pipes, drains, stopping, pc, result>>

-----------------------------------------------------------------------------
(* stop_once, for whichever thread t calls it.                             *)

\* Where t goes on: a drain returns and closes its stream; the caller joins the
\* drains if the deadline made it stop the child, else it raises.
GoOn(t) ==
  IF t = Main
  THEN Goto(t, IF result = "timed out" THEN "join" ELSE "ended") /\ UNCHANGED open
  ELSE Goto(t, "done") /\ open' = [open EXCEPT ![t] = FALSE]

\* mutant: a thread that finds the lock taken leaves the stopping to its holder
EnterStopUnlessBusy(t) ==
  /\ pc[t] = "stop"
  /\ IF stopping = Nobody
     THEN stopping' = t /\ Goto(t, "poll") /\ UNCHANGED open
     ELSE GoOn(t) /\ UNCHANGED stopping
  /\ UNCHANGED <<child, pipe, written, drains, result>>

EnterStop(t) ==
  /\ pc[t] = "stop"
  /\ stopping = Nobody
  /\ stopping' = t
  /\ Goto(t, "poll")
  /\ UNCHANGED <<child, pipes, drains, result>>

LeaveStop(t) == GoOn(t) /\ stopping' = Nobody

Poll(t) ==
  /\ pc[t] = "poll"
  /\ IF running
     THEN Goto(t, "terminate") /\ UNCHANGED <<open, stopping>>
     ELSE LeaveStop(t)
  /\ UNCHANGED <<child, pipe, written, drains, result>>

Terminate(t) ==
  /\ pc[t] = "terminate"
  /\ signal' = IF signal = "none" THEN "TERM" ELSE signal
  /\ Goto(t, "await")
  /\ UNCHANGED <<running, code, hangs, wants, heir, pipes, drains, stopping, result>>

\* wait(timeout=0.5), and the SIGKILL when it expires, which may be too late to
\* find the child running.
Await(t) ==
  /\ pc[t] = "await"
  /\ \/ ~running /\ LeaveStop(t) /\ UNCHANGED signal
     \/ signal' = "KILL" /\ Goto(t, "reap") /\ UNCHANGED <<open, stopping>>
  /\ UNCHANGED <<running, code, hangs, wants, heir, pipe, written, drains, result>>

\* wait(timeout=1), whose end nobody looks at.
Reap(t) ==
  /\ pc[t] = "reap"
  /\ LeaveStop(t)
  /\ UNCHANGED <<child, pipe, written, drains, result>>

Stop(t) == EnterStop(t) \/ Poll(t) \/ Terminate(t) \/ Await(t) \/ Reap(t)

-----------------------------------------------------------------------------
(* drain, the thread of stream s.                                          *)

AtEnd(s) == pipe[s] = 0 /\ ~running /\ s \notin heir

\* mutant: the streams are drained one after the other
CollectInTurn(s) ==
  /\ pc[s] = "read"
  /\ s = SecondJoined => pc[FirstJoined] = "done"
  /\ pipe[s] > 0 /\ got[s] < Chunk
  /\ LET n == IF pipe[s] < Chunk - got[s] THEN pipe[s] ELSE Chunk - got[s]
     IN  /\ pipe' = [pipe EXCEPT ![s] = @ - n]
         /\ got' = [got EXCEPT ![s] = @ + n]
  /\ UNCHANGED <<child, written, open, kept, overflow, stopping, pc, result>>

\* stream.read(64 * 1024) collects until it has that much or the stream ends.
Collect(s) ==
  /\ pc[s] = "read"
  /\ pipe[s] > 0 /\ got[s] < Chunk
  /\ LET n == IF pipe[s] < Chunk - got[s] THEN pipe[s] ELSE Chunk - got[s]
     IN  /\ pipe' = [pipe EXCEPT ![s] = @ - n]
         /\ got' = [got EXCEPT ![s] = @ + n]
  /\ UNCHANGED <<child, written, open, kept, overflow, stopping, pc, result>>

\* mutant: a chunk that exactly fills the limit is already too much
KeepBelow(s) ==
  /\ pc[s] = "read"
  /\ got[s] = Chunk \/ (AtEnd(s) /\ got[s] > 0)
  /\ LET remaining == MaxOutput - kept[s]
     IN  /\ kept' = [kept EXCEPT ![s] = @ + IF got[s] < remaining THEN got[s] ELSE remaining]
         /\ overflow' = (overflow \/ got[s] >= remaining)
         /\ IF got[s] >= remaining THEN Goto(s, "stop") ELSE UNCHANGED pc
  /\ got' = [got EXCEPT ![s] = 0]
  /\ UNCHANGED <<child, pipes, stopping, result>>

\* mutant: a chunk that does not fit is kept whole before the thread stops
KeepWhole(s) ==
  /\ pc[s] = "read"
  /\ got[s] = Chunk \/ (AtEnd(s) /\ got[s] > 0)
  /\ kept' = [kept EXCEPT ![s] = @ + got[s]]
  /\ overflow' = (overflow \/ kept'[s] > MaxOutput)
  /\ IF kept'[s] > MaxOutput THEN Goto(s, "stop") ELSE UNCHANGED pc
  /\ got' = [got EXCEPT ![s] = 0]
  /\ UNCHANGED <<child, pipes, stopping, result>>

\* A chunk arrives: what fits is kept, and a chunk that does not fit ends it.
Keep(s) ==
  /\ pc[s] = "read"
  /\ got[s] = Chunk \/ (AtEnd(s) /\ got[s] > 0)
  /\ LET remaining == MaxOutput - kept[s]
     IN  /\ kept' = [kept EXCEPT ![s] = @ + IF got[s] < remaining THEN got[s] ELSE remaining]
         /\ overflow' = (overflow \/ got[s] > remaining)
         /\ IF got[s] > remaining THEN Goto(s, "stop") ELSE UNCHANGED pc
  /\ got' = [got EXCEPT ![s] = 0]
  /\ UNCHANGED <<child, pipes, stopping, result>>

EndOfStream(s) ==
  /\ pc[s] = "read"
  /\ got[s] = 0 /\ AtEnd(s)
  /\ GoOn(s)
  /\ UNCHANGED <<child, pipe, written, drains, stopping, result>>

Drain(s) == Collect(s) \/ Keep(s) \/ EndOfStream(s)

-----------------------------------------------------------------------------
(* The caller.                                                             *)

ChildExited ==
  /\ pc[Main] = "wait" /\ ~running
  /\ Goto(Main, "join")
  /\ UNCHANGED <<child, pipes, drains, stopping, result>>

\* process.wait(timeout) expires; the child may have exited just now.
TimedOut ==
  /\ pc[Main] = "wait"
  /\ result' = "timed out"
  /\ Goto(Main, "stop")
  /\ UNCHANGED <<child, pipes, drains, stopping>>

\* thread.join(timeout=1) returns whether or not the thread has ended.
Join ==
  /\ pc[Main] = "join"
  /\ Goto(Main, "join second")
  /\ UNCHANGED <<child, pipes, drains, stopping, result>>

Answer == IF code = "zero" THEN "answered" ELSE "failed"

\* mutant: the bytes are taken without looking at the threads
JoinSecondUnread ==
  /\ pc[Main] = "join second"
  /\ Goto(Main, "ended")
  /\ result' = IF result = "timed out" THEN result
               ELSE IF overflow THEN "exceeded" ELSE Answer
  /\ UNCHANGED <<child, pipes, drains, stopping>>

\* The second join and the verdict on threads, limit and, in _run_at, the code.
JoinSecond ==
  /\ pc[Main] = "join second"
  /\ LET alive == {s \in Stream : pc[s] # "done"}
     IN  IF result = "timed out" THEN Goto(Main, "ended") /\ UNCHANGED result
         ELSE IF alive # {} THEN Goto(Main, "stop") /\ result' = "undrained"
         ELSE /\ Goto(Main, "ended")
              /\ result' = IF overflow THEN "exceeded" ELSE Answer
  /\ UNCHANGED <<child, pipes, drains, stopping>>

Caller == ChildExited \/ Join \/ JoinSecond

Threads == Caller \/ (\E s \in Stream : Drain(s)) \/ (\E t \in Thread : Stop(t))

Next ==
  \/ (\E s \in Stream : Want(s)) \/ Write \/ Exit
  \/ HeirWrites \/ HeirExits
  \/ TimedOut
  \/ Threads

Spec == Init /\ [][Next]_vars

\* Threads run and their short timeouts expire. A child that does not hang writes
\* and exits; only for one that does is the deadline counted on. Whoever inherited
\* the pipes may keep them for ever.
FairSpec ==
  /\ Spec
  /\ WF_vars(Caller) /\ \A s \in Stream : WF_vars(Drain(s))
  /\ \A t \in Thread : WF_vars(Stop(t))
  /\ WF_vars(~hangs /\ Write) /\ WF_vars(~hangs /\ Exit)
  /\ WF_vars(hangs /\ TimedOut)
-----------------------------------------------------------------------------
(* Properties.                                                             *)

StopPlaces == {"stop", "poll", "terminate", "await", "reap"}

\* Every variable keeps its type; no more than max_output is ever kept, and only
\* the thread inside _stop_process holds its lock.
TypeOK ==
  /\ running \in BOOLEAN /\ hangs \in BOOLEAN /\ overflow \in BOOLEAN
  /\ code \in {"none", "zero", "nonzero"}
  /\ wants \in Stream \cup {Nobody}
  /\ signal \in {"none", "TERM", "KILL"}
  /\ heir \subseteq Stream
  /\ pipe \in [Stream -> 0..Pipe]
  /\ written \in [Stream -> 0..MaxWritten]
  /\ open \in [Stream -> BOOLEAN]
  /\ got \in [Stream -> 0..Chunk]
  /\ kept \in [Stream -> 0..MaxOutput]
  /\ pc \in [Thread -> {"read", "done", "wait", "join", "join second", "ended"}
                          \cup StopPlaces]
  /\ \A t \in Thread : stopping = t <=> pc[t] \in StopPlaces \ {"stop"}
  /\ result \in {"none", "timed out", "undrained", "exceeded", "answered", "failed"}

\* A result that is returned is everything the child wrote to both streams, and
\* nobody is left who could write more.
ResultIsComplete ==
  pc[Main] = "ended" /\ result \in {"answered", "failed"} =>
    /\ ~running /\ heir = {}
    /\ kept = written

\* Output within the limit is never called too much, and never gets its child
\* stopped by a drain.
LimitIsExact ==
  /\ overflow => \E s \in Stream : written[s] > MaxOutput
  /\ \A s \in Stream : pc[s] \in StopPlaces => written[s] > MaxOutput

\* However the call ends, the child has exited or was sent SIGKILL: two threads
\* that want to stop it at once do not leave it to each other.
NoChildLeft == pc[Main] = "ended" => ~running \/ signal = "KILL"

\* The call ends, without the help of its deadline unless the child hangs: a
\* child that fills one pipe while the other is idle is not blocked for ever.
CallEnds == <>(pc[Main] = "ended")
=============================================================================

-------------------------- MODULE StoreOpenProofs --------------------------
(***************************************************************************)
(* The creation of the database, for any number of processes, directories, *)
(* attempts and deaths: what an open handle holds is complete, a genesis   *)
(* is never replaced, the name is only removed by the creator of what it   *)
(* links to, and losing the race for a directory costs one attempt each.   *)
(***************************************************************************)
EXTENDS StoreOpen, TLAPS

-----------------------------------------------------------------------------
(* The inductive invariant.                                                *)

\* A call that lost an attempt over the state root lost it to a directory that
\* is there now, and that it had not seen when it went on to make it.
Root(p) ==
  /\ lost[p] <= depth
  /\ pc[p] # "done" => lost[p] <= attempts[p]
  /\ pc[p] = "mkdir" =>
       lost[p] <= reached[p] /\ reached[p] <= depth /\ reached[p] < RootDepth

RootInv == \A p \in Process : Root(p)

\* The places at which a process holds a descriptor of a file.
Holding == Places \ {"root", "mkdir", "lookup", "create", "done"}

\* Where its file has been found complete.
Complete(p) ==
  \/ pc[p] \in Passes /\ table[p] = "log"
  \/ pc[p] \in {"reconnect", "connecting"} \cup Open

\* What a process knows of the file it holds, whoever else holds it.
Hold(p) ==
  /\ pc[p] \in Holding => fd[p] \in Inode /\ disk[fd[p]].state # "free"
  /\ created[p] => pc[p] \in Holding
  /\ pc[p] \in Creating => created[p]
  /\ pc[p] = "schema" => disk[fd[p]].state = "empty"
  /\ pc[p] = "metadata" => disk[fd[p]].state = "schema"
  /\ Complete(p) => disk[fd[p]].state = "ready"
  /\ pc[p] \in {"readback", "confirming"} => disk[fd[p]].genesis = p
  /\ pc[p] = "unlink" => name = fd[p]

HoldInv == \A p \in Process : Hold(p)

\* No file has two creators: O_EXCL only succeeds without a file of that name.
SoleCreator ==
  \A p, q \in Process : created[p] /\ created[q] /\ fd[p] = fd[q] => p = q

\* The name links to a file.
NameInv == name # NoInode => disk[name].state # "free"

IInv == TypeOK /\ RootInv /\ NameInv /\ HoldInv /\ SoleCreator /\ ReceiptsAgree

-----------------------------------------------------------------------------
(* Types, by what a step may touch.                                        *)

FileTyped ==
  /\ depth \in 0..RootDepth
  /\ reached \in [Process -> 0..RootDepth]
  /\ lost \in [Process -> 0..MaxAttempts]
  /\ name \in Inode \cup {NoInode}
  /\ disk \in [Inode -> [state : Stage, genesis : Process \cup {NoProcess}]]

HandleTyped ==
  /\ pc \in [Process -> Places]
  /\ fd \in [Process -> Inode \cup {NoInode}]
  /\ created \in [Process -> BOOLEAN]
  /\ table \in [Process -> {"records", "log"}]
  /\ seen \in [Process -> Process \cup {NoProcess}]
  /\ retry \in [Process -> BOOLEAN]

CallTyped ==
  /\ attempts \in [Process -> 0..(MaxAttempts - 1)]
  /\ answer \in [Process -> {"none", "receipt", "already", "refused", "error"}]
  /\ crashes \in 0..MaxCrashes

ReceiptsTyped == receipts \subseteq [by : Process, genesis : Process, inode : Inode]

LEMMA TypeParts ==
  /\ TypeOK <=> FileTyped /\ HandleTyped /\ CallTyped /\ ReceiptsTyped
  /\ TypeOK' <=> FileTyped' /\ HandleTyped' /\ CallTyped' /\ ReceiptsTyped'
BY DEF TypeOK, FileTyped, HandleTyped, CallTyped, ReceiptsTyped

\* A step of p that leaves its handle: what it held is forgotten, or it is
\* about to unlink what it created. It gives up, counts an attempt, or goes on.
Leaves(p) ==
  /\ \/ Drop(p, "done")
     \/ Drop(p, "root")
     \/ created[p] /\ Goto(p, "cleanup") /\ UNCHANGED <<fd, created, table, seen, retry>>
  /\ \/ UNCHANGED attempts
     \/ attempts[p] + 1 # MaxAttempts /\ attempts' = [attempts EXCEPT ![p] = @ + 1]
  /\ \/ UNCHANGED answer
     \/ \E a \in {"refused", "error", "already"} : answer' = [answer EXCEPT ![p] = a]
  /\ UNCHANGED <<receipts, crashes>>

LEMMA AgainLeaves ==
  ASSUME NEW p \in Process, Again(p) PROVE Leaves(p)
BY DEF Again, Raise, Leaves, told

LEMMA RaiseLeaves ==
  ASSUME NEW p \in Process, NEW a \in {"refused", "error", "already"}, Raise(p, a)
  PROVE  Leaves(p)
BY DEF Raise, Leaves

LEMMA FailLeaves ==
  ASSUME NEW p \in Process, FailOpen(p) \/ NotLive(p) \/ ConnectFails(p)
  PROVE  Leaves(p)
<1>1. FailOpen(p) => Leaves(p)
  BY AgainLeaves DEF FailOpen, Leaves, told
<1>2. NotLive(p) => Leaves(p)
  BY <1>1, RaiseLeaves DEF NotLive
<1>3. ConnectFails(p) => Leaves(p)
  BY <1>2, RaiseLeaves DEF ConnectFails
<1> QED
  BY <1>1, <1>2, <1>3

LEMMA DropTyped ==
  ASSUME HandleTyped, NEW p \in Process, NEW at \in Places, Drop(p, at)
  PROVE  HandleTyped'
BY ProcessAssumption DEF HandleTyped, Drop, Goto

LEMMA LeavesTyped ==
  ASSUME HandleTyped, CallTyped, ReceiptsTyped, NEW p \in Process, Leaves(p)
  PROVE  HandleTyped' /\ CallTyped' /\ ReceiptsTyped'
<1>1. HandleTyped'
  <2>1. {"done", "root", "cleanup"} \subseteq Places
    BY DEF Places, Creating
  <2> QED
    BY <2>1, DropTyped DEF Leaves, HandleTyped, Goto
<1>2. CallTyped'
  <2>1. attempts' \in [Process -> 0..(MaxAttempts - 1)]
    <3>1. attempts[p] \in 0..(MaxAttempts - 1)
      BY DEF CallTyped
    <3>2. attempts[p] + 1 # MaxAttempts => attempts[p] + 1 \in 0..(MaxAttempts - 1)
      BY <3>1, ProcessAssumption
    <3> QED
      BY <3>2 DEF CallTyped, Leaves
  <2> QED
    BY <2>1 DEF CallTyped, Leaves
<1>3. ReceiptsTyped'
  BY DEF ReceiptsTyped, Leaves
<1> QED
  BY <1>1, <1>2, <1>3

LEMMA PassTyped ==
  ASSUME HandleTyped, CallTyped, NEW p \in Process, NEW at \in Places,
         StartPass(p, at), Stay
  PROVE  HandleTyped' /\ CallTyped'
BY DEF HandleTyped, CallTyped, StartPass, Goto, Stay, told

LEMMA NewFileTyped ==
  ASSUME FileTyped, NewFile
  PROVE  /\ FileTyped' /\ name' \in Inode /\ disk[name'].state = "free"
         /\ disk' = [disk EXCEPT ![name'] = [@ EXCEPT !.state = "empty"]]
<1>1. name' \in Inode /\ disk[name'].state = "free"
  BY DEF NewFile
<1>2. disk' = [disk EXCEPT ![name'] = [@ EXCEPT !.state = "empty"]]
  BY DEF NewFile
<1> QED
  BY <1>1, <1>2 DEF NewFile, FileTyped, root, Stage

-----------------------------------------------------------------------------
(* What a step of one process leaves to the others.                        *)

OnlyHandleOf(p) ==
  \A q \in Process \ {p} : UNCHANGED <<pc[q], fd[q], created[q], table[q]>>

\* A file that somebody holds is not reused, stays complete and keeps its
\* genesis.
Kept(i) ==
  /\ disk'[i].state # "free"
  /\ disk[i].state = "ready" => disk'[i].state = "ready"
  /\ disk[i].genesis # NoProcess => disk'[i].genesis = disk[i].genesis

LEMMA HoldOthers ==
  ASSUME TypeOK, HoldInv, NEW p \in Process, OnlyHandleOf(p), NEW q \in Process \ {p},
         pc[q] \in Holding => Kept(fd[q]),
         pc[q] \in {"schema", "metadata"} => disk'[fd[q]].state = disk[fd[q]].state,
         pc[q] = "unlink" => name' = name
  PROVE  Hold(q)'
<1>1. Hold(q) /\ UNCHANGED <<pc[q], fd[q], created[q], table[q]>>
  BY DEF HoldInv, OnlyHandleOf
<1>2. Complete(q)' <=> Complete(q)
  BY <1>1 DEF Complete
<1>3. Complete(q) \/ pc[q] \in {"readback", "confirming"} => pc[q] \in Holding
  BY DEF Complete, Holding, Places, Passes, Open
<1>4. q # NoProcess
  BY ProcessAssumption
<1> QED
  BY <1>1, <1>2, <1>3, <1>4 DEF Hold, Kept

LEMMA QuietOthers ==
  ASSUME TypeOK, HoldInv, NEW p \in Process, OnlyHandleOf(p), UNCHANGED <<name, disk>>,
         Hold(p)'
  PROVE  HoldInv'
<1>1. \A q \in Process : pc[q] \in Holding => Kept(fd[q])
  BY DEF HoldInv, Hold, Kept
<1> QED
  BY <1>1, HoldOthers DEF HoldInv

LEMMA SoleFrame ==
  ASSUME SoleCreator, \A q \in Process : created'[q] => created[q] /\ fd'[q] = fd[q]
  PROVE  SoleCreator'
BY DEF SoleCreator

\* Outside the state root a step goes on or ends, and counts attempts up.
LEMMA RootFrame ==
  ASSUME TypeOK, RootInv, NEW p \in Process, UNCHANGED root, pc[p] # "done",
         pc'[p] # "mkdir", \A q \in Process \ {p} : pc'[q] = pc[q],
         \/ UNCHANGED attempts
         \/ attempts' = [attempts EXCEPT ![p] = @ + 1]
  PROVE  RootInv'
<1>1. \A q \in Process : attempts[q] \in Nat /\ lost[q] \in Nat
  BY DEF TypeOK
<1>2. \A q \in Process : attempts'[q] = attempts[q] \/ attempts'[q] = attempts[q] + 1
  BY DEF TypeOK
<1>3. ASSUME NEW q \in Process, pc'[q] # "done" PROVE lost'[q] <= attempts'[q]
  <2>1. lost[q] <= attempts[q] /\ lost'[q] = lost[q]
    BY <1>3 DEF RootInv, Root, root
  <2> QED
    BY <1>1, <1>2, <2>1
<1> QED
  BY <1>3 DEF RootInv, Root, root

LEMMA LeavesInv ==
  ASSUME IInv, NEW p \in Process, pc[p] # "done", Leaves(p), UNCHANGED <<root, disk>>,
         \/ name' = name
         \/ pc[p] = "unlink" /\ name' = NoInode /\ (Drop(p, "root") \/ Drop(p, "done"))
  PROVE  IInv'
<1> USE DEF IInv
<1>0. FileTyped /\ HandleTyped /\ CallTyped /\ ReceiptsTyped
  BY TypeParts
<1>1. TypeOK'
  <2>1. FileTyped'
    BY <1>0 DEF FileTyped, root
  <2> QED
    BY <1>0, <2>1, LeavesTyped, TypeParts
<1>2. OnlyHandleOf(p) /\ pc'[p] \in {"done", "root", "cleanup"}
  BY <1>0 DEF OnlyHandleOf, Leaves, Drop, Goto, HandleTyped
<1>3. RootInv'
  BY <1>0, <1>2, RootFrame DEF Leaves, OnlyHandleOf
<1>4. \A q \in Process : created'[q] => created[q] /\ fd'[q] = fd[q]
  BY <1>0 DEF Leaves, Drop, HandleTyped
<1>5. SoleCreator'
  BY <1>4, SoleFrame
<1>6. Hold(p)'
  <2>1. CASE Drop(p, "done") \/ Drop(p, "root")
    <3>1. pc'[p] \in {"done", "root"} /\ ~created'[p]
      BY <1>0, <2>1 DEF Drop, Goto, HandleTyped
    <3> QED
      BY <3>1 DEF Hold, Holding, Creating, Complete, Passes, Open
  <2>2. CASE ~(Drop(p, "done") \/ Drop(p, "root"))
    <3>1. /\ created[p] /\ pc'[p] = "cleanup" /\ UNCHANGED <<fd, created, table, seen, retry>>
      BY <1>0, <2>2 DEF Leaves, Goto, HandleTyped
    <3>2. fd[p] \in Inode /\ disk[fd[p]].state # "free"
      BY <3>1 DEF HoldInv, Hold
    <3> QED
      BY <3>1, <3>2 DEF Hold, Holding, Creating, Complete, Passes, Open, Places
  <2> QED
    BY <2>1, <2>2
<1>7. HoldInv'
  <2>1. CASE name' = name
    BY <1>2, <1>6, <2>1, QuietOthers
  <2>2. CASE pc[p] = "unlink"
    <3>1. created[p] /\ name = fd[p]
      BY <2>2 DEF HoldInv, Hold, Creating
    <3>2. ASSUME NEW q \in Process \ {p} PROVE pc[q] # "unlink"
      <4>1. pc[q] = "unlink" => created[q] /\ name = fd[q]
        BY DEF HoldInv, Hold, Creating
      <4> QED
        BY <3>1, <4>1 DEF SoleCreator
    <3>3. \A q \in Process : pc[q] \in Holding => Kept(fd[q])
      BY DEF HoldInv, Hold, Kept
    <3> QED
      BY <1>2, <1>6, <3>2, <3>3, HoldOthers DEF HoldInv
  <2> QED
    BY <2>1, <2>2
<1>8. ReceiptsAgree' /\ NameInv'
  BY DEF ReceiptsAgree, NameInv, Leaves
<1> QED
  BY <1>1, <1>3, <1>5, <1>7, <1>8

\* A pass, a connection or a readback starts on the file p holds already.
LEMMA PassInv ==
  ASSUME IInv, NEW p \in Process, NEW at \in Holding \ Creating,
         StartPass(p, at), Stay, UNCHANGED files,
         pc[p] \in Holding,
         at \in {"reconnect", "connecting"} \cup Open => Complete(p),
         at \in {"readback", "confirming"} => disk[fd[p]].genesis = p
  PROVE  IInv'
<1> USE DEF IInv
<1>0. FileTyped /\ HandleTyped /\ CallTyped /\ ReceiptsTyped
  BY TypeParts
<1>a. at \in Places /\ pc[p] # "done" /\ at \notin {"mkdir", "unlink", "schema", "metadata"}
  BY DEF Holding, Creating
<1>1. TypeOK'
  <2>1. FileTyped'
    BY <1>0 DEF FileTyped, files, root
  <2>2. ReceiptsTyped'
    BY <1>0 DEF Stay, told, ReceiptsTyped
  <2> QED
    BY <1>0, <1>a, <2>1, <2>2, PassTyped, TypeParts
<1>2. /\ OnlyHandleOf(p) /\ pc'[p] = at /\ table'[p] = "records"
      /\ UNCHANGED <<fd, created, attempts, receipts>>
  BY <1>0 DEF OnlyHandleOf, StartPass, Stay, told, Goto, HandleTyped
<1>3. RootInv'
  BY <1>0, <1>2, <1>a, RootFrame DEF OnlyHandleOf, files
<1>4. SoleCreator'
  BY <1>2, SoleFrame
<1>5. Hold(p)'
  <2>1. /\ fd[p] \in Inode /\ disk[fd[p]].state # "free" /\ UNCHANGED <<name, disk>>
        /\ Complete(p) => disk[fd[p]].state = "ready"
    BY DEF HoldInv, Hold, files
  <2>2. Complete(p)' => at \in {"reconnect", "connecting"} \cup Open
    BY <1>2 DEF Complete
  <2> QED
    BY <1>2, <1>a, <2>1, <2>2 DEF Hold
<1>6. HoldInv'
  BY <1>2, <1>5, QuietOthers DEF files
<1>7. ReceiptsAgree' /\ NameInv'
  BY <1>2 DEF ReceiptsAgree, NameInv, files
<1> QED
  BY <1>1, <1>3, <1>4, <1>6, <1>7

-----------------------------------------------------------------------------
(* The state root.                                                         *)

LEMMA OpenRootInv ==
  ASSUME IInv, NEW p \in Process, OpenRoot(p) PROVE IInv'
<1> USE DEF IInv
<1>0. FileTyped /\ HandleTyped /\ CallTyped /\ ReceiptsTyped
  BY TypeParts
<1>1. /\ pc[p] = "root" /\ pc' = [pc EXCEPT ![p] = IF depth = RootDepth THEN "lookup" ELSE "mkdir"]
      /\ reached' = IF depth = RootDepth THEN reached ELSE [reached EXCEPT ![p] = depth]
      /\ UNCHANGED <<depth, lost, name, disk, fd, created, table, seen, retry>>
      /\ UNCHANGED <<attempts, answer, receipts, crashes>>
  BY DEF OpenRoot, Goto, told
<1>2. TypeOK'
  <2>1. {"lookup", "mkdir"} \subseteq Places
    BY DEF Places
  <2>2. FileTyped' /\ HandleTyped'
    BY <1>0, <1>1, <2>1 DEF FileTyped, HandleTyped
  <2> QED
    BY <1>0, <1>1, <2>2, TypeParts DEF CallTyped, ReceiptsTyped
<1>3. RootInv'
  <2>1. depth # RootDepth => depth < RootDepth
    BY <1>0, ProcessAssumption DEF FileTyped
  <2>2. ASSUME NEW q \in Process PROVE Root(q)'
    <3>1. CASE q = p
      <4>1. lost[p] <= depth /\ lost[p] <= attempts[p] /\ depth \in Nat
        BY <1>0, <1>1 DEF RootInv, Root, FileTyped
      <4> QED
        BY <1>0, <1>1, <2>1, <3>1, <4>1 DEF Root, FileTyped, HandleTyped
    <3>2. CASE q # p
      BY <1>0, <1>1, <3>2 DEF RootInv, Root, FileTyped, HandleTyped
    <3> QED
      BY <3>1, <3>2
  <2> QED
    BY <2>2 DEF RootInv
<1>4. OnlyHandleOf(p) /\ pc'[p] \in {"lookup", "mkdir"} /\ created'[p] = created[p]
  BY <1>0, <1>1 DEF OnlyHandleOf, HandleTyped
<1>5. ~created[p]
  BY <1>1 DEF HoldInv, Hold, Holding
<1>6. Hold(p)'
  BY <1>4, <1>5 DEF Hold, Holding, Creating, Complete, Passes, Open
<1>7. HoldInv' /\ SoleCreator'
  BY <1>1, <1>4, <1>6, QuietOthers, SoleFrame
<1>8. ReceiptsAgree' /\ NameInv'
  BY <1>1 DEF ReceiptsAgree, NameInv
<1> QED
  BY <1>2, <1>3, <1>7, <1>8

\* The directory that was not there when p looked is made by p or by another
\* process, and p only pays an attempt for the latter.
LEMMA MakeComponentInv ==
  ASSUME IInv, NEW p \in Process, MakeComponent(p) PROVE IInv'
<1> USE DEF IInv
<1>0. FileTyped /\ HandleTyped /\ CallTyped /\ ReceiptsTyped
  BY TypeParts
<1>1. /\ pc[p] = "mkdir" /\ reached' = [reached EXCEPT ![p] = 0]
      /\ UNCHANGED <<name, disk>>
  BY DEF MakeComponent
<1>2. /\ depth \in Nat /\ reached[p] \in Nat /\ lost[p] \in Nat /\ attempts[p] \in Nat
      /\ lost[p] <= attempts[p] /\ attempts[p] <= MaxAttempts - 1
      /\ lost[p] <= reached[p] /\ reached[p] <= depth /\ reached[p] < RootDepth
      /\ depth <= RootDepth
  BY <1>0, <1>1, ProcessAssumption DEF RootInv, Root, FileTyped, CallTyped
<1>3. ~created[p]
  BY <1>1 DEF HoldInv, Hold, Holding
<1>4. CASE depth > reached[p]
  <2>1. Again(p) /\ lost' = [lost EXCEPT ![p] = lost[p] + 1] /\ UNCHANGED depth
    BY <1>4 DEF MakeComponent, LoseRoot
  <2>2. Leaves(p)
    BY <2>1, AgainLeaves
  <2>3. /\ lost[p] + 1 \in 0..MaxAttempts
        /\ lost[p] + 1 <= depth
    BY <1>2, <1>4, ProcessAssumption
  <2>4. FileTyped'
    <3>1. lost' \in [Process -> 0..MaxAttempts]
      BY <1>0, <2>1, <2>3 DEF FileTyped
    <3>2. 0 \in 0..RootDepth
      BY ProcessAssumption
    <3>3. reached' \in [Process -> 0..RootDepth]
      BY <1>0, <1>1, <3>2 DEF FileTyped
    <3> QED
      BY <1>0, <1>1, <2>1, <3>1, <3>3 DEF FileTyped
  <2>5. TypeOK'
    BY <1>0, <2>2, <2>4, LeavesTyped, TypeParts
  <2>6. pc'[p] \in {"done", "root"} /\ OnlyHandleOf(p) /\ ~created'[p]
    BY <1>0, <2>1 DEF Again, Raise, Drop, Goto, OnlyHandleOf, HandleTyped
  <2>7. Hold(p)'
    BY <2>6 DEF Hold, Holding, Creating, Complete, Passes, Open
  <2>8. SoleCreator'
    <3>1. \A q \in Process : created'[q] => created[q] /\ fd'[q] = fd[q]
      BY <1>0, <2>2 DEF Leaves, Drop, HandleTyped
    <3> QED
      BY <3>1, SoleFrame
  <2>9. ASSUME NEW q \in Process PROVE Root(q)'
    <3>1. CASE q = p
      <4>1. lost'[p] = lost[p] + 1
        BY <1>0, <2>1 DEF FileTyped
      <4>2. pc'[p] # "done" => attempts'[p] = attempts[p] + 1
        BY <1>0, <2>1 DEF Again, Raise, Drop, Goto, HandleTyped, CallTyped
      <4> QED
        BY <1>2, <2>1, <2>3, <2>6, <3>1, <4>1, <4>2 DEF Root
    <3>2. CASE q # p
      BY <1>0, <1>1, <2>1, <2>2, <2>6, <3>2
         DEF RootInv, Root, FileTyped, OnlyHandleOf, Leaves, CallTyped
    <3> QED
      BY <3>1, <3>2
  <2>10. ReceiptsAgree' /\ NameInv'
    BY <1>1, <2>2 DEF Leaves, ReceiptsAgree, NameInv
  <2> QED
    BY <1>1, <2>5, <2>6, <2>7, <2>8, <2>9, <2>10, QuietOthers DEF RootInv
<1>5. CASE ~(depth > reached[p])
  <2>1. /\ depth' = depth + 1 /\ pc' = [pc EXCEPT ![p] = "root"]
        /\ UNCHANGED <<lost, fd, created, table, seen, retry, attempts, answer, receipts, crashes>>
    BY <1>5 DEF MakeComponent, Goto, told
  <2>2. depth + 1 \in 0..RootDepth
    BY <1>2, <1>5, ProcessAssumption
  <2>3. FileTyped'
    BY <1>0, <1>1, <2>1, <2>2, ProcessAssumption DEF FileTyped
  <2>4. TypeOK'
    <3>1. "root" \in Places
      BY DEF Places
    <3>2. HandleTyped'
      BY <1>0, <2>1, <3>1 DEF HandleTyped
    <3> QED
      BY <1>0, <2>1, <2>3, <3>2, TypeParts DEF CallTyped, ReceiptsTyped
  <2>5. pc'[p] = "root" /\ OnlyHandleOf(p) /\ ~created'[p]
    BY <1>0, <1>3, <2>1 DEF OnlyHandleOf, HandleTyped
  <2>6. Hold(p)'
    BY <2>5 DEF Hold, Holding, Creating, Complete, Passes, Open
  <2>7. ASSUME NEW q \in Process PROVE Root(q)'
    <3>1. lost[q] \in Nat /\ depth \in Nat /\ reached[q] \in Nat /\ lost[q] <= depth
      BY <1>0 DEF FileTyped, RootInv, Root
    <3>2. lost'[q] <= depth'
      BY <2>1, <3>1
    <3>3. CASE q = p
      BY <1>1, <2>1, <2>5, <3>2, <3>3 DEF RootInv, Root
    <3>4. CASE q # p
      <4>1. pc'[q] = pc[q] /\ reached'[q] = reached[q]
        BY <1>0, <1>1, <2>1, <3>4 DEF HandleTyped, FileTyped
      <4> QED
        BY <2>1, <3>1, <3>2, <4>1 DEF RootInv, Root
    <3> QED
      BY <3>3, <3>4
  <2> QED
    BY <1>1, <2>1, <2>4, <2>5, <2>6, <2>7, QuietOthers, SoleFrame
       DEF RootInv, ReceiptsAgree, NameInv
<1> QED
  BY <1>4, <1>5

-----------------------------------------------------------------------------
(* Creating the file.                                                      *)

\* A step that only moves p from one place to another outside the state root.
LEMMA MoveInv ==
  ASSUME IInv, NEW p \in Process, NEW at \in Places, Goto(p, at),
         pc[p] # "done", at # "mkdir",
         UNCHANGED <<files, fd, created, table, attempts, told>>,
         HandleTyped', Hold(p)'
  PROVE  IInv'
<1> USE DEF IInv
<1>0. FileTyped /\ HandleTyped /\ CallTyped /\ ReceiptsTyped
  BY TypeParts
<1>1. TypeOK'
  <2>1. FileTyped' /\ CallTyped' /\ ReceiptsTyped'
    BY <1>0 DEF FileTyped, CallTyped, ReceiptsTyped, files, root, told
  <2> QED
    BY <2>1, TypeParts
<1>2. OnlyHandleOf(p) /\ pc'[p] = at
  BY <1>0 DEF OnlyHandleOf, Goto, HandleTyped
<1>3. RootInv'
  BY <1>2, RootFrame DEF OnlyHandleOf, files
<1>4. HoldInv' /\ SoleCreator'
  BY <1>2, QuietOthers, SoleFrame DEF files
<1> QED
  BY <1>1, <1>3, <1>4 DEF ReceiptsAgree, NameInv, files, told

LEMMA LookupInv ==
  ASSUME IInv, NEW p \in Process, Lookup(p) PROVE IInv'
<1> USE DEF IInv
<1>0. FileTyped /\ HandleTyped /\ CallTyped /\ ReceiptsTyped
  BY TypeParts
<1>1. /\ pc[p] = "lookup" /\ ~created[p]
      /\ UNCHANGED <<files, created, table, seen, retry, attempts, told>>
  BY DEF Lookup, HoldInv, Hold, Holding
<1>2. CASE name = NoInode
  <2>1. Goto(p, "create") /\ UNCHANGED fd
    BY <1>2 DEF Lookup
  <2>2. "create" \in Places
    BY DEF Places
  <2>3. HandleTyped' /\ pc'[p] = "create"
    BY <1>0, <1>1, <2>1, <2>2 DEF HandleTyped, Goto
  <2>4. Hold(p)'
    BY <1>1, <2>3 DEF Hold, Holding, Creating, Complete, Passes, Open
  <2> QED
    BY <1>1, <2>1, <2>2, <2>3, <2>4, MoveInv
<1>3. CASE name # NoInode
  <2>1. Goto(p, "opened") /\ fd' = [fd EXCEPT ![p] = name]
    BY <1>3 DEF Lookup
  <2>2. name \in Inode /\ disk[name].state # "free"
    BY <1>0, <1>3 DEF FileTyped, NameInv
  <2>3. HandleTyped' /\ pc'[p] = "opened" /\ fd'[p] = name /\ OnlyHandleOf(p)
    <3>1. "opened" \in Places
      BY DEF Places
    <3> QED
      BY <1>0, <1>1, <2>1, <2>2, <3>1 DEF HandleTyped, Goto, OnlyHandleOf
  <2>4. TypeOK'
    BY <1>0, <1>1, <2>3, TypeParts
       DEF FileTyped, CallTyped, ReceiptsTyped, files, root, told
  <2>5. Hold(p)'
    BY <1>1, <2>2, <2>3 DEF Hold, Holding, Creating, Complete, Passes, Open, Places, files
  <2>6. HoldInv'
    BY <1>1, <2>3, <2>5, QuietOthers DEF files
  <2>7. SoleCreator'
    <3>1. \A q \in Process : created'[q] => created[q] /\ fd'[q] = fd[q]
      BY <1>1, <2>3 DEF OnlyHandleOf
    <3> QED
      BY <3>1, SoleFrame
  <2>8. RootInv'
    BY <1>1, <2>3, RootFrame DEF OnlyHandleOf, files
  <2> QED
    BY <1>1, <2>4, <2>6, <2>7, <2>8 DEF ReceiptsAgree, NameInv, files, told
<1> QED
  BY <1>2, <1>3

LEMMA CreateInv ==
  ASSUME IInv, NEW p \in Process, Create(p) PROVE IInv'
<1> USE DEF IInv
<1>0. FileTyped /\ HandleTyped /\ CallTyped /\ ReceiptsTyped
  BY TypeParts
<1>1. CASE name # NoInode
  <2>1. pc[p] = "create" /\ Again(p) /\ UNCHANGED files
    BY <1>1 DEF Create
  <2> QED
    BY <2>1, AgainLeaves, LeavesInv DEF files
<1>2. CASE name = NoInode
  <2>1. /\ pc[p] = "create" /\ NewFile
        /\ fd' = [fd EXCEPT ![p] = name'] /\ created' = [created EXCEPT ![p] = TRUE]
        /\ pc' = [pc EXCEPT ![p] = "schema"]
        /\ UNCHANGED <<table, seen, retry, attempts, told>>
    BY <1>2 DEF Create, Goto
  <2>2. /\ FileTyped' /\ name' \in Inode /\ disk[name'].state = "free" /\ UNCHANGED root
        /\ disk' = [disk EXCEPT ![name'] = [@ EXCEPT !.state = "empty"]]
    BY <1>0, <2>1, NewFileTyped DEF NewFile
  <2>3. "schema" \in Places
    BY DEF Places, Creating
  <2>4. HandleTyped'
    BY <1>0, <2>1, <2>2, <2>3 DEF HandleTyped
  <2>5. TypeOK'
    BY <1>0, <2>1, <2>2, <2>4, TypeParts DEF CallTyped, ReceiptsTyped, told
  <2>6. /\ pc'[p] = "schema" /\ fd'[p] = name' /\ created'[p] /\ OnlyHandleOf(p)
        /\ disk'[name'].state = "empty"
    BY <1>0, <2>1, <2>2 DEF HandleTyped, FileTyped, OnlyHandleOf
  <2>7. RootInv'
    BY <2>1, <2>2, <2>6, RootFrame DEF OnlyHandleOf
  <2>8. ASSUME NEW q \in Process \ {p}, pc[q] \in Holding
        PROVE  fd[q] # name' /\ disk'[fd[q]] = disk[fd[q]]
    <3>1. fd[q] \in Inode /\ disk[fd[q]].state # "free"
      BY <2>8 DEF HoldInv, Hold
    <3> QED
      BY <1>0, <2>2, <3>1 DEF FileTyped
  <2>9. Hold(p)'
    BY <2>2, <2>6 DEF Hold, Holding, Creating, Complete, Passes, Open, Places
  <2>10. ASSUME NEW q \in Process \ {p} PROVE Hold(q)'
    <3>1. pc[q] \in Holding => Kept(fd[q])
      BY <2>8 DEF Kept, HoldInv, Hold
    <3>2. pc[q] \in {"schema", "metadata"} => disk'[fd[q]].state = disk[fd[q]].state
      BY <2>8 DEF Holding, Places, Creating
    <3>3. pc[q] # "unlink"
      BY <1>2, ProcessAssumption DEF HoldInv, Hold, Holding, Places, Creating
    <3> QED
      BY <2>6, <3>1, <3>2, <3>3, HoldOthers
  <2>11. SoleCreator'
    <3>1. ASSUME NEW q \in Process \ {p}, created'[q] PROVE fd'[q] # name'
      <4>1. created[q] /\ fd'[q] = fd[q]
        BY <2>6, <3>1 DEF OnlyHandleOf
      <4> QED
        BY <2>8, <4>1 DEF HoldInv, Hold
    <3>2. \A q \in Process \ {p} : created'[q] = created[q] /\ fd'[q] = fd[q]
      BY <2>6 DEF OnlyHandleOf
    <3> QED
      BY <2>6, <3>1, <3>2 DEF SoleCreator
  <2>12. ReceiptsAgree' /\ NameInv'
    <3>1. \A i \in Inode : disk'[i].genesis = disk[i].genesis
      BY <1>0, <2>2 DEF FileTyped
    <3>2. receipts' = receipts
      BY <2>1 DEF told
    <3>3. ReceiptsAgree'
      BY <1>0, <3>1, <3>2 DEF ReceiptsAgree, ReceiptsTyped
    <3> QED
      BY <2>6, <3>3 DEF NameInv
  <2> QED
    BY <2>5, <2>7, <2>9, <2>10, <2>11, <2>12 DEF HoldInv
<1> QED
  BY <1>1, <1>2

\* Only the creator writes a file that is not complete, and it adds to it.
LEMMA WriteInv ==
  ASSUME IInv, NEW p \in Process, pc[p] \in {"schema", "metadata"},
         NEW st \in {"schema", "ready"},
         st = "schema" <=> pc[p] = "schema",
         disk' = [disk EXCEPT ![fd[p]] = [@ EXCEPT !.state = st]],
         pc'[p] = IF pc[p] = "schema" THEN "metadata" ELSE "self",
         pc'[p] = "self" => table'[p] = "records",
         OnlyHandleOf(p), UNCHANGED <<root, name>>, Stay, HandleTyped'
  PROVE  IInv'
<1> USE DEF IInv
<1>0. FileTyped /\ HandleTyped /\ CallTyped /\ ReceiptsTyped
  BY TypeParts
<1>1. /\ created[p] /\ fd[p] \in Inode
      /\ disk[fd[p]].state = IF pc[p] = "schema" THEN "empty" ELSE "schema"
  BY DEF HoldInv, Hold, Holding, Places, Creating
<1>2. /\ UNCHANGED <<fd, created, attempts, receipts, answer, crashes>>
  BY DEF Stay, told
<1>3. /\ \A i \in Inode \ {fd[p]} : disk'[i] = disk[i]
      /\ disk'[fd[p]].state = st
      /\ \A i \in Inode : disk'[i].genesis = disk[i].genesis
  BY <1>0, <1>1 DEF FileTyped
<1>4. TypeOK'
  <2>1. disk[fd[p]] \in [state : Stage, genesis : Process \cup {NoProcess}]
    BY <1>0, <1>1 DEF FileTyped
  <2>2. [disk[fd[p]] EXCEPT !.state = st] \in [state : Stage, genesis : Process \cup {NoProcess}]
    BY <2>1 DEF Stage
  <2>3. FileTyped'
    BY <1>0, <1>1, <2>2 DEF FileTyped, root
  <2> QED
    BY <1>0, <1>2, <2>3, TypeParts DEF CallTyped, ReceiptsTyped
<1>6. RootInv'
  BY <1>2, RootFrame DEF OnlyHandleOf
<1>7. SoleCreator'
  BY <1>2, SoleFrame
<1>8. Hold(p)'
  BY <1>1, <1>2, <1>3 DEF Hold, Holding, Creating, Complete, Passes, Open, Places
<1>9. ASSUME NEW q \in Process \ {p} PROVE Hold(q)'
  <2>1. pc[q] \in Holding => Kept(fd[q])
    <3>1. pc[q] \in Holding => fd[q] \in Inode /\ disk[fd[q]].state # "free"
      BY DEF HoldInv, Hold
    <3> QED
      BY <1>1, <1>3, <3>1 DEF Kept
  <2>2. pc[q] \in {"schema", "metadata"} => disk'[fd[q]].state = disk[fd[q]].state
    <3>1. pc[q] \in {"schema", "metadata"} => created[q] /\ fd[q] \in Inode
      BY DEF HoldInv, Hold, Holding, Places, Creating
    <3> QED
      BY <1>1, <1>3, <3>1 DEF SoleCreator
  <2> QED
    BY <2>1, <2>2, HoldOthers
<1>10. ReceiptsAgree' /\ NameInv'
  <2>1. ReceiptsAgree'
    BY <1>0, <1>2, <1>3 DEF ReceiptsAgree, ReceiptsTyped
  <2>2. NameInv'
    BY <1>0, <1>1, <1>3 DEF NameInv, FileTyped
  <2> QED
    BY <2>1, <2>2
<1> QED
  BY <1>4, <1>6, <1>7, <1>8, <1>9, <1>10 DEF HoldInv

LEMMA WriteSchemaInv ==
  ASSUME IInv, NEW p \in Process, WriteSchema(p) PROVE IInv'
<1>1. /\ HandleTyped /\ FileTyped /\ pc[p] = "schema" /\ pc' = [pc EXCEPT ![p] = "metadata"]
      /\ fd[p] \in Inode
      /\ disk' = [disk EXCEPT ![fd[p]].state = "schema"]
      /\ UNCHANGED <<root, name, table, seen>> /\ Stay
  BY TypeParts DEF IInv, WriteSchema, Goto, HoldInv, Hold, Holding, Places, Creating
<1>2. disk' = [disk EXCEPT ![fd[p]] = [@ EXCEPT !.state = "schema"]]
  BY <1>1
<1>3. "metadata" \in Places
  BY DEF Places, Creating
<1>4. HandleTyped' /\ pc'[p] = "metadata" /\ OnlyHandleOf(p)
  BY <1>1, <1>3 DEF HandleTyped, Stay, OnlyHandleOf
<1> QED
  BY <1>1, <1>2, <1>4, WriteInv

LEMMA WriteMetadataInv ==
  ASSUME IInv, NEW p \in Process, WriteMetadata(p) PROVE IInv'
<1>1. /\ HandleTyped /\ CallTyped /\ pc[p] = "metadata" /\ StartPass(p, "self")
      /\ disk' = [disk EXCEPT ![fd[p]].state = "ready"]
      /\ UNCHANGED <<root, name>> /\ Stay
  BY TypeParts DEF IInv, WriteMetadata
<1>2. disk' = [disk EXCEPT ![fd[p]] = [@ EXCEPT !.state = "ready"]]
  BY <1>1
<1>3. "self" \in Places
  BY DEF Places, Passes
<1>4. HandleTyped' /\ pc'[p] = "self" /\ table'[p] = "records" /\ OnlyHandleOf(p)
  <2>1. HandleTyped'
    BY <1>1, <1>3, PassTyped
  <2> QED
    BY <1>1, <2>1 DEF HandleTyped, Stay, OnlyHandleOf, StartPass, Goto
<1> QED
  BY <1>1, <1>2, <1>4, WriteInv

LEMMA FaultInv ==
  ASSUME IInv, NEW p \in Process, Fault(p) PROVE IInv'
<1>1. /\ HandleTyped /\ pc[p] \in {"schema", "metadata", "self"} /\ Goto(p, "cleanup")
      /\ retry' = [retry EXCEPT ![p] = FALSE]
      /\ UNCHANGED <<files, fd, created, table, seen, attempts, told>>
      /\ Hold(p)
  BY TypeParts DEF IInv, Fault, HoldInv
<1>2. "cleanup" \in Places \ {"mkdir", "done"}
  BY DEF Places, Creating
<1>3. HandleTyped' /\ pc'[p] = "cleanup"
  BY <1>1, <1>2 DEF HandleTyped, Goto
<1>4. Hold(p)'
  BY <1>1, <1>3 DEF Hold, Holding, Creating, Complete, Passes, Open, Places, files
<1> QED
  BY <1>1, <1>2, <1>3, <1>4, MoveInv

LEMMA CleanupInv ==
  ASSUME IInv, NEW p \in Process, Cleanup(p) PROVE IInv'
<1>1. HandleTyped /\ pc[p] = "cleanup" /\ UNCHANGED files /\ Hold(p)
  BY TypeParts DEF IInv, Cleanup, HoldInv
<1>2. CASE Live(p)
  <2>1. Goto(p, "unlink") /\ UNCHANGED <<table, seen>> /\ Stay
    BY <1>2 DEF Cleanup
  <2>2. "unlink" \in Places \ {"mkdir", "done"}
    BY DEF Places, Creating
  <2>3. HandleTyped' /\ pc'[p] = "unlink"
    BY <1>1, <2>1, <2>2 DEF HandleTyped, Goto, Stay
  <2>4. Hold(p)'
    BY <1>1, <1>2, <2>1, <2>3
       DEF Hold, Holding, Creating, Complete, Passes, Open, Places, files, Stay, Live
  <2> QED
    BY <1>1, <2>1, <2>2, <2>3, <2>4, MoveInv DEF Stay
<1>3. CASE ~Live(p)
  <2>1. Leaves(p)
    BY <1>3, AgainLeaves, RaiseLeaves DEF Cleanup
  <2> QED
    BY <1>1, <2>1, LeavesInv DEF files
<1> QED
  BY <1>2, <1>3

LEMMA UnlinkInv ==
  ASSUME IInv, NEW p \in Process, Unlink(p) PROVE IInv'
<1>1. pc[p] = "unlink" /\ name' = NoInode /\ UNCHANGED <<root, disk>>
  BY DEF Unlink
<1>2. Again(p) \/ Raise(p, "error")
  BY DEF Unlink
<1>3. Leaves(p)
  BY <1>2, AgainLeaves, RaiseLeaves
<1>4. Drop(p, "root") \/ Drop(p, "done")
  BY <1>2 DEF Again, Raise
<1> QED
  BY <1>1, <1>3, <1>4, LeavesInv

-----------------------------------------------------------------------------
(* Adopting and verifying.                                                 *)

LEMMA ConnectFirstInv ==
  ASSUME IInv, NEW p \in Process, ConnectFirst(p) PROVE IInv'
<1>1. pc[p] = "opened" /\ UNCHANGED files
  BY DEF ConnectFirst
<1>2. CASE Live(p)
  <2>1. StartPass(p, "first") /\ Stay
    BY <1>2 DEF ConnectFirst
  <2>2. "first" \in Holding \ Creating /\ pc[p] \in Holding
    BY <1>1 DEF Holding, Creating, Places, Passes
  <2> QED
    BY <1>1, <2>1, <2>2, PassInv DEF Open
<1>3. CASE ~Live(p)
  <2>1. Leaves(p)
    BY <1>3, FailLeaves DEF ConnectFirst
  <2> QED
    BY <1>1, <2>1, LeavesInv DEF files
<1> QED
  BY <1>2, <1>3

LEMMA ScanRecordsInv ==
  ASSUME IInv, NEW p \in Process, ScanRecords(p) PROVE IInv'
<1> USE DEF IInv
<1>0. FileTyped /\ HandleTyped /\ CallTyped /\ ReceiptsTyped
  BY TypeParts
<1>1. pc[p] \in Passes /\ UNCHANGED files /\ Hold(p)
  BY DEF ScanRecords, HoldInv
<1>2. CASE disk[fd[p]].state = "ready"
  <2>1. /\ seen' = [seen EXCEPT ![p] = disk[fd[p]].genesis]
        /\ table' = [table EXCEPT ![p] = "log"]
        /\ UNCHANGED pc /\ Stay
    BY <1>2 DEF ScanRecords
  <2>2. fd[p] \in Inode /\ pc[p] # "done" /\ pc[p] # "mkdir"
    BY <1>1 DEF Hold, Holding, Places, Passes
  <2>3. disk[fd[p]].genesis \in Process \cup {NoProcess}
    BY <1>0, <2>2 DEF FileTyped
  <2>4. HandleTyped'
    BY <1>0, <2>1, <2>3 DEF HandleTyped, Stay
  <2>5. OnlyHandleOf(p)
    BY <1>0, <2>1 DEF OnlyHandleOf, Stay, HandleTyped
  <2>6. Hold(p)'
    <3>1. Complete(p)' => pc[p] \in Passes \/ Complete(p)
      BY <1>1
    <3> QED
      BY <1>1, <1>2, <2>1 DEF Hold, Stay, files
  <2>7. TypeOK'
    BY <1>0, <1>1, <2>1, <2>4, TypeParts
       DEF FileTyped, CallTyped, ReceiptsTyped, files, root, told, Stay
  <2>8. RootInv'
    BY <1>1, <2>1, <2>2, RootFrame DEF files, Stay
  <2>9. HoldInv' /\ SoleCreator'
    BY <1>1, <2>1, <2>5, <2>6, QuietOthers, SoleFrame DEF files, Stay
  <2> QED
    BY <1>1, <2>1, <2>7, <2>8, <2>9 DEF ReceiptsAgree, NameInv, files, told, Stay
<1>3. CASE disk[fd[p]].state # "ready"
  <2>1. Leaves(p)
    BY <1>3, FailLeaves DEF ScanRecords
  <2> QED
    BY <1>1, <2>1, LeavesInv DEF files, Passes
<1> QED
  BY <1>2, <1>3

LEMMA ScanLogInv ==
  ASSUME IInv, NEW p \in Process, ScanLog(p) PROVE IInv'
<1>1. pc[p] \in Passes /\ table[p] = "log" /\ UNCHANGED files
  BY DEF ScanLog
<1>2. Complete(p) /\ pc[p] \in Holding
  BY <1>1 DEF Complete, Holding, Places, Passes
<1>3. CASE \E at \in {"reconnect", "open"} : StartPass(p, at) /\ Stay
  <2>1. {"reconnect", "open"} \subseteq Holding \ Creating
    BY DEF Holding, Creating, Places, Open
  <2> QED
    BY <1>1, <1>2, <1>3, <2>1, PassInv
<1>4. CASE Leaves(p)
  BY <1>1, <1>4, LeavesInv DEF files, Passes
<1> QED
  BY <1>3, <1>4, FailLeaves DEF ScanLog

LEMMA ReconnectInv ==
  ASSUME IInv, NEW p \in Process, Reconnect(p) PROVE IInv'
<1>1. pc[p] \in {"reconnect", "readback"} /\ UNCHANGED files /\ Hold(p)
  BY DEF Reconnect, HoldInv, IInv
<1>2. CASE Live(p)
  <2>1. pc[p] \in Holding /\ Complete(p)
    BY <1>1 DEF Complete, Holding, Places, Open
  <2>2. {"connecting", "confirming"} \subseteq Holding \ Creating
    BY DEF Holding, Creating, Places, Open
  <2>3. CASE pc[p] = "reconnect"
    <3>1. StartPass(p, "connecting") /\ Stay
      BY <1>2, <2>3 DEF Reconnect
    <3> QED
      BY <1>1, <2>1, <2>2, <3>1, PassInv
  <2>4. CASE pc[p] = "readback"
    <3>1. StartPass(p, "confirming") /\ Stay
      BY <1>2, <2>4 DEF Reconnect
    <3>2. disk[fd[p]].genesis = p
      BY <1>1, <2>4 DEF Hold
    <3> QED
      BY <1>1, <2>1, <2>2, <3>1, <3>2, PassInv
  <2> QED
    BY <1>1, <2>3, <2>4
<1>3. CASE ~Live(p)
  <2>1. Leaves(p)
    BY <1>3, FailLeaves, RaiseLeaves DEF Reconnect
  <2> QED
    BY <1>1, <2>1, LeavesInv DEF files
<1> QED
  BY <1>2, <1>3

-----------------------------------------------------------------------------
(* The genesis.                                                            *)

\* A receipt is given for the genesis that is in the file, to a call whose
\* intent it has.
LEMMA ReceiveInv ==
  ASSUME IInv, NEW p \in Process, Receive(p), UNCHANGED files, pc[p] \in Holding,
         disk[fd[p]].genesis # NoProcess,
         IntentOf[disk[fd[p]].genesis] = IntentOf[p]
  PROVE  IInv'
<1> USE DEF IInv
<1>0. FileTyped /\ HandleTyped /\ CallTyped /\ ReceiptsTyped
  BY TypeParts
<1>1. /\ receipts' = receipts \cup
           {[by |-> p, genesis |-> disk[fd[p]].genesis, inode |-> fd[p]]}
      /\ answer' = [answer EXCEPT ![p] = "receipt"]
      /\ Drop(p, "done") /\ UNCHANGED <<attempts, crashes>>
  BY DEF Receive
<1>2. fd[p] \in Inode /\ disk[fd[p]].genesis \in Process /\ pc[p] # "done"
  BY <1>0 DEF HoldInv, Hold, FileTyped, Holding
<1>3. TypeOK'
  <2>1. FileTyped'
    BY <1>0 DEF FileTyped, files, root
  <2>2. HandleTyped'
    BY <1>0, <1>1, DropTyped DEF Places
  <2>3. CallTyped'
    BY <1>0, <1>1 DEF CallTyped
  <2>4. ReceiptsTyped'
    BY <1>0, <1>1, <1>2 DEF ReceiptsTyped
  <2> QED
    BY <2>1, <2>2, <2>3, <2>4, TypeParts
<1>4. OnlyHandleOf(p) /\ pc'[p] = "done" /\ ~created'[p]
  BY <1>0, <1>1 DEF OnlyHandleOf, Drop, Goto, HandleTyped
<1>5. RootInv'
  BY <1>1, <1>2, <1>4, RootFrame DEF OnlyHandleOf, files
<1>6. SoleCreator'
  <2>1. \A q \in Process : created'[q] => created[q] /\ fd'[q] = fd[q]
    BY <1>4 DEF OnlyHandleOf
  <2> QED
    BY <2>1, SoleFrame
<1>7. Hold(p)'
  BY <1>4 DEF Hold, Holding, Creating, Complete, Passes, Open
<1>8. HoldInv'
  BY <1>4, <1>7, QuietOthers DEF files
<1>9. ReceiptsAgree' /\ NameInv'
  BY <1>1 DEF ReceiptsAgree, NameInv, files
<1> QED
  BY <1>3, <1>5, <1>6, <1>8, <1>9

LEMMA ReconcileInv ==
  ASSUME IInv, NEW p \in Process, Reconcile(p), UNCHANGED files, pc[p] \in Holding,
         disk[fd[p]].genesis # NoProcess
  PROVE  IInv'
<1>1. CASE IntentOf[disk[fd[p]].genesis] = IntentOf[p]
  BY <1>1, ReceiveInv DEF Reconcile
<1>2. CASE IntentOf[disk[fd[p]].genesis] # IntentOf[p]
  <2>1. Leaves(p)
    BY <1>2, RaiseLeaves DEF Reconcile
  <2> QED
    BY <2>1, LeavesInv DEF files, Holding
<1> QED
  BY <1>1, <1>2

\* sqlite3.connect by path may create a file; nobody holds it.
LEMMA StrayFileInv ==
  ASSUME IInv, NEW p \in Process, NewFile, name = NoInode,
         Again(p) \/ Raise(p, "error"),
         pc[p] \in {"connecting", "confirming"}
  PROVE  IInv'
<1> USE DEF IInv
<1>0. FileTyped /\ HandleTyped /\ CallTyped /\ ReceiptsTyped /\ Leaves(p)
  BY TypeParts, AgainLeaves, RaiseLeaves
<1>1. /\ FileTyped' /\ name' \in Inode /\ disk[name'].state = "free" /\ UNCHANGED root
      /\ disk' = [disk EXCEPT ![name'] = [@ EXCEPT !.state = "empty"]]
  BY <1>0, NewFileTyped DEF NewFile
<1>2. /\ \A i \in Inode \ {name'} : disk'[i] = disk[i]
      /\ \A i \in Inode : disk'[i].genesis = disk[i].genesis
      /\ disk'[name'].state = "empty"
  BY <1>0, <1>1 DEF FileTyped
<1>3. TypeOK'
  BY <1>0, <1>1, LeavesTyped, TypeParts
<1>4. Drop(p, "root") \/ Drop(p, "done")
  BY DEF Again, Raise
<1>5. OnlyHandleOf(p) /\ pc'[p] \in {"done", "root"}
  BY <1>0, <1>4 DEF Drop, Goto, HandleTyped, OnlyHandleOf
<1>6. ~created'[p]
  BY <1>0, <1>4 DEF Drop, HandleTyped
<1>7. RootInv'
  BY <1>0, <1>1, <1>5, RootFrame DEF Leaves, OnlyHandleOf
<1>8. SoleCreator'
  <2>1. \A q \in Process : created'[q] => created[q] /\ fd'[q] = fd[q]
    BY <1>5, <1>6 DEF OnlyHandleOf
  <2> QED
    BY <2>1, SoleFrame
<1>9. ASSUME NEW q \in Process \ {p} PROVE Hold(q)'
  <2>1. pc[q] \in Holding => fd[q] \in Inode \ {name'}
    BY <1>1 DEF HoldInv, Hold
  <2>2. pc[q] \in Holding => Kept(fd[q])
    BY <1>2, <2>1 DEF Kept, HoldInv, Hold
  <2>3. pc[q] \in {"schema", "metadata"} => disk'[fd[q]].state = disk[fd[q]].state
    BY <1>2, <2>1 DEF Holding, Places, Creating
  <2>4. pc[q] # "unlink"
    BY ProcessAssumption DEF HoldInv, Hold, Holding, Places, Creating
  <2> QED
    BY <1>5, <2>2, <2>3, <2>4, HoldOthers
<1>10. Hold(p)'
  BY <1>5, <1>6 DEF Hold, Holding, Creating, Complete, Passes, Open
<1>11. ReceiptsAgree' /\ NameInv'
  <2>1. receipts' = receipts
    BY <1>0 DEF Leaves
  <2>2. ReceiptsAgree'
    BY <1>0, <1>2, <2>1 DEF ReceiptsAgree, ReceiptsTyped
  <2> QED
    BY <1>2, <2>2 DEF NameInv
<1> QED
  BY <1>3, <1>7, <1>8, <1>9, <1>10, <1>11 DEF HoldInv

LEMMA ConnectInv ==
  ASSUME IInv, NEW p \in Process, Connect(p) PROVE IInv'
<1>1. pc[p] \in {"connecting", "confirming"} /\ Hold(p)
  BY DEF Connect, HoldInv, IInv
<1>2. pc[p] \in Holding /\ Complete(p)
  BY <1>1 DEF Complete, Holding, Places, Open
<1>3. CASE pc[p] = "connecting" /\ StartPass(p, "second") /\ Stay /\ UNCHANGED files
  <2>1. "second" \in Holding \ Creating
    BY DEF Holding, Creating, Places, Passes
  <2> QED
    BY <1>2, <1>3, <2>1, PassInv DEF Open
<1>4. CASE pc[p] = "confirming" /\ Receive(p) /\ UNCHANGED files
  <2>1. disk[fd[p]].genesis = p /\ p # NoProcess
    BY <1>1, <1>4, ProcessAssumption DEF Hold
  <2> QED
    BY <1>2, <1>4, <2>1, ReceiveInv
<1>5. CASE name = NoInode /\ NewFile /\ (Again(p) \/ Raise(p, "error"))
  BY <1>1, <1>5, StrayFileInv
<1>6. CASE ConnectFails(p) /\ UNCHANGED files
  BY <1>1, <1>6, FailLeaves, LeavesInv DEF files
<1> QED
  BY <1>1, <1>3, <1>4, <1>5, <1>6 DEF Connect

LEMMA ReadHeadInv ==
  ASSUME IInv, NEW p \in Process, ReadHead(p) PROVE IInv'
<1>1. HandleTyped /\ pc[p] = "open" /\ UNCHANGED files /\ Hold(p) /\ pc[p] \in Holding
  BY TypeParts DEF IInv, ReadHead, HoldInv, Holding, Places, Open
<1>2. CASE disk[fd[p]].genesis # NoProcess
  BY <1>1, <1>2, ReconcileInv DEF ReadHead
<1>3. CASE disk[fd[p]].genesis = NoProcess
  <2>1. Goto(p, "commit") /\ UNCHANGED <<table, seen>> /\ Stay
    BY <1>3 DEF ReadHead
  <2>2. "commit" \in Places \ {"mkdir", "done"}
    BY DEF Places, Open
  <2>3. HandleTyped' /\ pc'[p] = "commit"
    BY <1>1, <2>1, <2>2 DEF HandleTyped, Goto, Stay
  <2>4. Hold(p)'
    BY <1>1, <2>1, <2>3
       DEF Hold, Holding, Creating, Complete, Passes, Open, Places, files, Stay
  <2> QED
    BY <1>1, <2>1, <2>2, <2>3, <2>4, MoveInv DEF Stay
<1> QED
  BY <1>2, <1>3

\* The genesis is written where there was none.
LEMMA CommitGenesisInv ==
  ASSUME IInv, NEW p \in Process, pc[p] = "commit", disk[fd[p]].genesis = NoProcess,
         disk' = [disk EXCEPT ![fd[p]] = [@ EXCEPT !.genesis = p]],
         StartPass(p, "readback"), UNCHANGED <<root, name>>, Stay
  PROVE  IInv'
<1> USE DEF IInv
<1>0. FileTyped /\ HandleTyped /\ CallTyped /\ ReceiptsTyped
  BY TypeParts
<1>1. /\ fd[p] \in Inode /\ disk[fd[p]].state = "ready" /\ Hold(p)
      /\ UNCHANGED <<fd, created, attempts, receipts, answer, crashes>>
  BY DEF HoldInv, Hold, Holding, Complete, Places, Open, Stay, told
<1>2. /\ \A i \in Inode \ {fd[p]} : disk'[i] = disk[i]
      /\ \A i \in Inode : disk'[i].state = disk[i].state
      /\ disk'[fd[p]].genesis = p
  BY <1>0, <1>1 DEF FileTyped
<1>3. /\ OnlyHandleOf(p) /\ pc'[p] = "readback"
  BY <1>0, <1>1 DEF OnlyHandleOf, StartPass, Goto, HandleTyped
<1>4. TypeOK'
  <2>1. disk[fd[p]] \in [state : Stage, genesis : Process \cup {NoProcess}]
    BY <1>0, <1>1 DEF FileTyped
  <2>2. [disk[fd[p]] EXCEPT !.genesis = p] \in [state : Stage, genesis : Process \cup {NoProcess}]
    BY <2>1
  <2>3. FileTyped'
    BY <1>0, <1>1, <2>2 DEF FileTyped, root
  <2>4. "readback" \in Places
    BY DEF Places, Open
  <2> QED
    BY <1>0, <1>1, <2>3, <2>4, PassTyped, TypeParts DEF ReceiptsTyped
<1>5. RootInv'
  BY <1>1, <1>3, RootFrame DEF OnlyHandleOf
<1>6. SoleCreator'
  BY <1>1, SoleFrame
<1>7. Hold(p)'
  BY <1>1, <1>2, <1>3 DEF Hold, Holding, Creating, Complete, Passes, Open, Places
<1>8. \A i \in Inode : disk[i].state # "free" => Kept(i)
  BY <1>1, <1>2 DEF Kept
<1>9. ASSUME NEW q \in Process \ {p} PROVE Hold(q)'
  <2>1. pc[q] \in Holding => fd[q] \in Inode /\ disk[fd[q]].state # "free"
    BY DEF HoldInv, Hold
  <2>2. pc[q] \in {"schema", "metadata"} => pc[q] \in Holding
    BY DEF Holding, Places, Creating
  <2> QED
    BY <1>2, <1>3, <1>8, <2>1, <2>2, HoldOthers
<1>10. ReceiptsAgree' /\ NameInv'
  <2>1. ASSUME NEW r \in receipts
        PROVE  disk'[r.inode].genesis = r.genesis /\ IntentOf[r.by] = IntentOf[r.genesis]
    <3>1. r.inode \in Inode /\ r.genesis \in Process
      BY <1>0 DEF ReceiptsTyped
    <3>2. disk[r.inode].genesis = r.genesis
      BY DEF ReceiptsAgree
    <3>3. r.inode # fd[p]
      BY <3>1, <3>2, ProcessAssumption
    <3> QED
      BY <1>2, <3>1, <3>2, <3>3 DEF ReceiptsAgree
  <2>2. ReceiptsAgree'
    BY <1>1, <2>1 DEF ReceiptsAgree
  <2>3. NameInv'
    BY <1>0, <1>2, ProcessAssumption DEF NameInv, FileTyped
  <2> QED
    BY <2>2, <2>3
<1> QED
  BY <1>4, <1>5, <1>6, <1>7, <1>9, <1>10 DEF HoldInv

LEMMA CommitInv ==
  ASSUME IInv, NEW p \in Process, Commit(p) PROVE IInv'
<1>1. pc[p] = "commit" /\ pc[p] \in Holding
  BY DEF Commit, Holding, Places, Open
<1>2. CASE Raise(p, "error") /\ UNCHANGED files
  BY <1>1, <1>2, RaiseLeaves, LeavesInv DEF files
<1>3. CASE disk[fd[p]].genesis # NoProcess /\ Reconcile(p) /\ UNCHANGED files
  BY <1>1, <1>3, ReconcileInv
<1>4. CASE /\ disk[fd[p]].genesis = NoProcess
           /\ disk' = [disk EXCEPT ![fd[p]].genesis = p]
           /\ StartPass(p, "readback")
           /\ UNCHANGED <<root, name>> /\ Stay
  <2>1. disk' = [disk EXCEPT ![fd[p]] = [@ EXCEPT !.genesis = p]]
    BY <1>4
  <2> QED
    BY <1>1, <1>4, <2>1, CommitGenesisInv
<1> QED
  BY <1>2, <1>3, <1>4 DEF Commit

-----------------------------------------------------------------------------
(* Deaths and repeated calls.                                              *)

\* p is back at the state root with nothing open and nothing counted.
LEMMA FreshCallInv ==
  ASSUME IInv, NEW p \in Process, pc' = [pc EXCEPT ![p] = "root"],
         attempts' = [attempts EXCEPT ![p] = 0], lost' = [lost EXCEPT ![p] = 0],
         UNCHANGED <<depth, name, disk, receipts>>, OnlyHandleOf(p), ~created'[p],
         \A q \in Process \ {p} : reached'[q] = reached[q],
         TypeOK'
  PROVE  IInv'
<1> USE DEF IInv
<1>0. FileTyped /\ HandleTyped /\ CallTyped /\ ReceiptsTyped
  BY TypeParts
<1>1. pc'[p] = "root" /\ lost'[p] = 0 /\ attempts'[p] = 0
  BY <1>0 DEF FileTyped, HandleTyped, CallTyped
<1>2. RootInv'
  <2>1. ASSUME NEW q \in Process PROVE Root(q)'
    <3>1. CASE q = p
      BY <1>0, <1>1, <3>1 DEF Root, FileTyped
    <3>2. CASE q # p
      <4>1. /\ pc'[q] = pc[q] /\ lost'[q] = lost[q] /\ attempts'[q] = attempts[q]
            /\ reached'[q] = reached[q]
        BY <1>0, <3>2 DEF FileTyped, HandleTyped, CallTyped
      <4> QED
        BY <4>1 DEF RootInv, Root
    <3> QED
      BY <3>1, <3>2
  <2> QED
    BY <2>1 DEF RootInv
<1>3. Hold(p)'
  BY <1>1 DEF Hold, Holding, Creating, Complete, Passes, Open
<1>4. HoldInv'
  BY <1>3, QuietOthers
<1>5. SoleCreator'
  <2>1. \A q \in Process : created'[q] => created[q] /\ fd'[q] = fd[q]
    BY DEF OnlyHandleOf
  <2> QED
    BY <2>1, SoleFrame
<1> QED
  BY <1>2, <1>4, <1>5 DEF ReceiptsAgree, NameInv

LEMMA CrashInv ==
  ASSUME IInv, NEW p \in Process, Crash(p) PROVE IInv'
<1>0. FileTyped /\ HandleTyped /\ CallTyped /\ ReceiptsTyped
  BY TypeParts DEF IInv
<1>1. /\ Drop(p, "root") /\ crashes' = crashes + 1 /\ crashes < MaxCrashes
      /\ attempts' = [attempts EXCEPT ![p] = 0] /\ lost' = [lost EXCEPT ![p] = 0]
      /\ reached' = [reached EXCEPT ![p] = 0]
      /\ UNCHANGED <<depth, name, disk, answer, receipts>>
  BY DEF Crash
<1>2. 0 \in 0..RootDepth /\ 0 \in 0..MaxAttempts /\ 0 \in 0..(MaxAttempts - 1)
  BY ProcessAssumption
<1>3. FileTyped'
  BY <1>0, <1>1, <1>2 DEF FileTyped
<1>4. HandleTyped'
  <2>1. "root" \in Places
    BY DEF Places
  <2> QED
    BY <1>0, <1>1, <2>1, DropTyped
<1>5. CallTyped'
  <2>1. crashes + 1 \in 0..MaxCrashes
    BY <1>0, <1>1, ProcessAssumption DEF CallTyped
  <2> QED
    BY <1>0, <1>1, <1>2, <2>1 DEF CallTyped
<1>6. TypeOK'
  BY <1>0, <1>1, <1>3, <1>4, <1>5, TypeParts DEF ReceiptsTyped
<1>7. OnlyHandleOf(p) /\ ~created'[p] /\ pc' = [pc EXCEPT ![p] = "root"]
  BY <1>0, <1>1 DEF OnlyHandleOf, Drop, Goto, HandleTyped
<1>8. \A q \in Process \ {p} : reached'[q] = reached[q]
  BY <1>0, <1>1 DEF FileTyped
<1> QED
  BY <1>1, <1>6, <1>7, <1>8, FreshCallInv

LEMMA RestartInv ==
  ASSUME IInv, NEW p \in Process, Restart(p) PROVE IInv'
<1>0. FileTyped /\ HandleTyped /\ CallTyped /\ ReceiptsTyped
  BY TypeParts DEF IInv
<1>1. /\ pc[p] = "done" /\ pc' = [pc EXCEPT ![p] = "root"]
      /\ answer' = [answer EXCEPT ![p] = "none"]
      /\ attempts' = [attempts EXCEPT ![p] = 0] /\ lost' = [lost EXCEPT ![p] = 0]
      /\ UNCHANGED <<depth, reached, name, disk, fd, created, table, seen, retry>>
      /\ UNCHANGED <<receipts, crashes>>
  BY DEF Restart, Goto
<1>2. 0 \in 0..MaxAttempts /\ 0 \in 0..(MaxAttempts - 1) /\ "root" \in Places
  BY ProcessAssumption DEF Places
<1>3. FileTyped' /\ HandleTyped'
  BY <1>0, <1>1, <1>2 DEF FileTyped, HandleTyped
<1>4. CallTyped'
  BY <1>0, <1>1, <1>2 DEF CallTyped
<1>5. TypeOK'
  BY <1>0, <1>1, <1>3, <1>4, TypeParts DEF ReceiptsTyped
<1>6. OnlyHandleOf(p) /\ ~created'[p]
  BY <1>0, <1>1 DEF OnlyHandleOf, HandleTyped, IInv, HoldInv, Hold, Holding
<1> QED
  BY <1>1, <1>5, <1>6, FreshCallInv

-----------------------------------------------------------------------------
(* The invariant.                                                          *)

LEMMA InitInv == Init => IInv
<1> SUFFICES ASSUME Init PROVE IInv
  OBVIOUS
<1>1. TypeOK
  <2>1. 0 \in 0..RootDepth /\ 0 \in 0..MaxAttempts /\ 0 \in 0..(MaxAttempts - 1) /\ 0 \in 0..MaxCrashes
    BY ProcessAssumption
  <2>2. FileTyped
    BY <2>1 DEF Init, FileTyped, Stage
  <2>3. HandleTyped
    BY DEF Init, HandleTyped, Places
  <2>4. CallTyped /\ ReceiptsTyped
    BY <2>1 DEF Init, CallTyped, ReceiptsTyped
  <2> QED
    BY <2>2, <2>3, <2>4, TypeParts
<1>2. RootInv
  BY ProcessAssumption DEF Init, RootInv, Root
<1>3. HoldInv /\ SoleCreator /\ NameInv /\ ReceiptsAgree
  BY DEF Init, HoldInv, Hold, Holding, Creating, Complete, Passes, Open, SoleCreator,
         NameInv, ReceiptsAgree
<1> QED
  BY <1>1, <1>2, <1>3 DEF IInv

LEMMA StepInv ==
  ASSUME IInv, NEW p \in Process, Step(p) PROVE IInv'
BY OpenRootInv, MakeComponentInv, LookupInv, CreateInv, WriteSchemaInv,
   WriteMetadataInv, FaultInv, CleanupInv, UnlinkInv, ConnectFirstInv, ScanRecordsInv,
   ScanLogInv, ReconnectInv, ConnectInv, ReadHeadInv, CommitInv
   DEF Step

LEMMA NextInv == IInv /\ [Next]_vars => IInv'
<1>1. ASSUME IInv, Next PROVE IInv'
  BY <1>1, StepInv, CrashInv, RestartInv DEF Next
<1>2. ASSUME IInv, UNCHANGED vars PROVE IInv'
  BY <1>2 DEF vars, files, root, told, IInv, TypeOK, RootInv, Root, NameInv, HoldInv,
              Hold, Complete, SoleCreator, ReceiptsAgree
<1> QED
  BY <1>1, <1>2

LEMMA Invariance == Spec => []IInv
BY InitInv, NextInv, PTL DEF Spec

-----------------------------------------------------------------------------
(* The theorems.                                                           *)

\* Every variable of an initialization keeps its type; in particular a call
\* never counts as many attempts as it has.
THEOREM TypeCorrect == Spec => []TypeOK
BY Invariance, PTL DEF IInv

\* However many processes make the directories of the state root together, a
\* call loses at most one attempt per directory.
THEOREM RootLosses == Spec => []RootLossesBounded
<1>1. IInv => RootLossesBounded
  <2> SUFFICES ASSUME IInv, NEW p \in Process PROVE lost[p] <= RootDepth
    BY DEF RootLossesBounded
  <2>1. lost[p] <= depth /\ depth \in 0..RootDepth /\ lost[p] \in Nat
    BY DEF IInv, RootInv, Root, TypeOK
  <2> QED
    BY <2>1, ProcessAssumption
<1> QED
  BY <1>1, Invariance, PTL

\* A file that is open for the head or the commit has its schema and identity,
\* although it was adopted while any number of others create, refuse and
\* unlink files of that name.
THEOREM CompleteWhenOpen == Spec => []OpenIsComplete
<1>1. IInv => OpenIsComplete
  BY DEF IInv, HoldInv, Hold, Complete, OpenIsComplete
<1> QED
  BY <1>1, Invariance, PTL

\* A receipt is for the genesis that is and stays in its file, and for the
\* caller's own intent.
THEOREM ReceiptsHold == Spec => []ReceiptsAgree
BY Invariance, PTL DEF IInv

\* Between a creator's check of the name and its unlink nobody can have put
\* another file there: the name is only removed from its creator's own file.
THEOREM UnlinkIsOwn == Spec => UnlinksOwnCreation
<1> DEFINE Own == name # NoInode /\ name' # name =>
                    /\ name' = NoInode
                    /\ \E p \in Process : created[p] /\ fd[p] = name /\ pc[p] = "unlink"
<1>1. ASSUME NEW p \in Process, Unlink(p), IInv PROVE Own
  <2>1. pc[p] = "unlink" /\ name' = NoInode
    BY <1>1 DEF Unlink
  <2>2. created[p] /\ fd[p] = name
    BY <1>1, <2>1 DEF IInv, HoldInv, Hold, Creating
  <2> QED
    BY <2>1, <2>2
<1>2. ASSUME NEW p \in Process, Step(p), ~Unlink(p), name # NoInode PROVE name' = name
  BY <1>2 DEF Step, OpenRoot, MakeComponent, Lookup, Create, WriteSchema, WriteMetadata,
     Fault, Cleanup, ConnectFirst, ScanRecords, ScanLog, Reconnect, Connect, ReadHead,
     Commit, files
<1>3. ASSUME NEW p \in Process, Restart(p) \/ Crash(p) PROVE name' = name
  BY <1>3 DEF Restart, Crash
<1>4. IInv /\ [Next]_vars => Own
  BY <1>1, <1>2, <1>3 DEF Next, vars, files
<1>5. IInv /\ [Next]_vars => [Own]_vars
  BY <1>4
<1> QED
  BY <1>5, Invariance, PTL DEF Spec, UnlinksOwnCreation
====

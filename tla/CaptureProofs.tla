---------------------------- MODULE CaptureProofs ----------------------------
(***************************************************************************)
(* The safety of a capture, for every target, every set of requests and    *)
(* any number of changes: what is returned was all true at one instant.    *)
(*                                                                         *)
(* The argument compares stamps. A reading made before an instant has at   *)
(* most the stamp its object has then, one made after it at least that     *)
(* stamp; when a reading before and a reading after have the same stamp,   *)
(* both are what the object was at the instant.                            *)
(***************************************************************************)
EXTENDS Capture, WellFoundedInduction, TLAPS

-----------------------------------------------------------------------------
(* Constants.                                                              *)

LEMMA Facts ==
  /\ Root \in Dir /\ Dir \subseteq Node /\ File \subseteq Node /\ File \cap Dir = {}
  /\ Node \subseteq Object /\ Source \subseteq Object
  /\ Policy \in File /\ Policy # Root /\ Policy \in Node \ {Root} /\ Parent[Policy] = Root
  /\ \A n \in Node \ {Root} : Parent[n] \in Dir /\ Parent[n] \in Node
  /\ {Root, Git, Policy, HEAD, Packed, Index, Config} \subseteq Source
  /\ {Git, HEAD, Packed, Index, Config} \cap Node = {}
BY CaptureAssumption DEF Node, Source, Object

LEMMA Distinct ==
  /\ Git # HEAD /\ Git # Packed /\ Git # Index /\ Git # Config
  /\ HEAD # Packed /\ HEAD # Index /\ HEAD # Config
  /\ Packed # Index /\ Packed # Config /\ Index # Config
<1> DEFINE s == <<Git, HEAD, Packed, Index, Config>>
<1>1. \A i, j \in 1..5 : s[i] = s[j] => i = j
  BY CaptureAssumption
<1>2. s[1] = Git /\ s[2] = HEAD /\ s[3] = Packed /\ s[4] = Index /\ s[5] = Config
  OBVIOUS
<1> HIDE DEF s
<1>3. 1 \in 1..5 /\ 2 \in 1..5 /\ 3 \in 1..5 /\ 4 \in 1..5 /\ 5 \in 1..5
  OBVIOUS
<1> QED
  BY <1>1, <1>2, <1>3

LEMMA Readings ==
  /\ \A p \in File : Reading(p) = [value : Content, stamp : Nat]
  /\ \A a \in Dir : Reading(a) = [value : SUBSET Node, stamp : Nat]
  /\ Reading(Index) = [value : Tree, stamp : Nat]
  /\ \A o \in {HEAD, Packed} : Reading(o) = [value : Tree \cup {Nothing}, stamp : Nat]
  /\ Reading(Config) = [value : BOOLEAN, stamp : Nat]
  /\ Reading(Git) = [value : {{}}, stamp : Nat]
<1>1. \A p \in File : Reading(p) = [value : Content, stamp : Nat]
  BY Facts DEF Reading
<1>2. \A a \in Dir : Reading(a) = [value : SUBSET Node, stamp : Nat]
  BY Facts DEF Reading
<1>3. Reading(Index) = [value : Tree, stamp : Nat]
  BY Facts, Distinct DEF Reading
<1>4. \A o \in {HEAD, Packed} : Reading(o) = [value : Tree \cup {Nothing}, stamp : Nat]
  BY Facts, Distinct DEF Reading
<1>5. Reading(Config) = [value : BOOLEAN, stamp : Nat]
  BY Facts, Distinct DEF Reading
<1>6. Reading(Git) = [value : {{}}, stamp : Nat]
  BY Facts, Distinct DEF Reading
<1> QED
  BY <1>1, <1>2, <1>3, <1>4, <1>5, <1>6

LEMMA Stamps ==
  ASSUME NEW o \in Object, NEW r \in Reading(o)
  PROVE  r # Nothing /\ r.stamp \in Nat
<1>1. r # Nothing
  BY CaptureAssumption
<1>2. r.stamp \in Nat
  BY DEF Reading
<1> QED
  BY <1>1, <1>2

-----------------------------------------------------------------------------
(* The target.                                                             *)

\* A target that can be: no directory lists a path that is not in it, what is
\* gone is empty, and Git renames the index within the Git directory.
WellFormed(d) ==
  /\ d = [o \in Object |-> d[o]]
  /\ \A o \in Object : d[o] \in Reading(o)
  /\ d[Git].stamp = d[Index].stamp
  /\ \A a \in Dir : d[a].value \subseteq {n \in Node \ {Root} : Parent[n] = a}
  /\ \A a \in Dir \ {Root} : d[a].value # {} => Present(d, a)

DiskInv ==
  /\ WellFormed(disk)
  /\ clock \in 0..MaxChanges
  /\ \A o \in Object : disk[o].stamp <= clock

\* What time does to the target: an object whose stamp is the same is the same.
Passed ==
  /\ clock < clock'
  /\ \A o \in Object :
       /\ disk[o].stamp <= disk'[o].stamp
       /\ disk[o].stamp = disk'[o].stamp => disk[o] = disk'[o]

LEMMA DiskFacts ==
  ASSUME WellFormed(disk)
  PROVE  /\ \A o \in Object : disk[o] \in Reading(o) /\ disk[o] # Nothing /\ disk[o].stamp \in Nat
         /\ \A p \in File : disk[p].value \in Content
         /\ \A a \in Dir : disk[a].value \subseteq Node
         /\ disk[Index].value \in Tree
         /\ disk[HEAD].value \in Tree \cup {Nothing}
         /\ disk[Packed].value \in Tree \cup {Nothing}
         /\ disk[Config].value \in BOOLEAN
         /\ disk[Git].value = {}
<1>1. \A o \in Object : disk[o] \in Reading(o) /\ disk[o] # Nothing /\ disk[o].stamp \in Nat
  BY Stamps DEF WellFormed
<1>2. \A p \in File : disk[p].value \in Content
  <2>1. \A p \in File : p \in Object /\ disk[p] \in [value : Content, stamp : Nat]
    BY <1>1, Facts, Readings
  <2> QED
    BY <2>1
<1>3. \A a \in Dir : disk[a].value \subseteq Node
  <2>1. \A a \in Dir : a \in Object /\ disk[a] \in [value : SUBSET Node, stamp : Nat]
    BY <1>1, Facts, Readings
  <2> QED
    BY <2>1
<1>4. disk[Index] \in [value : Tree, stamp : Nat] /\ disk[Config] \in [value : BOOLEAN, stamp : Nat]
      /\ disk[Git] \in [value : {{}}, stamp : Nat]
  BY <1>1, Facts, Readings
<1>5. disk[HEAD] \in [value : Tree \cup {Nothing}, stamp : Nat]
      /\ disk[Packed] \in [value : Tree \cup {Nothing}, stamp : Nat]
  BY <1>1, Facts, Readings
<1> QED
  BY <1>1, <1>2, <1>3, <1>4, <1>5

\* A change of well-typed values, of Git and index together, that lists paths
\* where they are and leaves what is gone empty.
LEMMA ChangeStep ==
  ASSUME DiskInv, NEW new, Change(new), DOMAIN new \subseteq Object,
         \A o \in DOMAIN new : [value |-> new[o], stamp |-> clock + 1] \in Reading(o),
         Git \in DOMAIN new <=> Index \in DOMAIN new
  PROVE  /\ Passed
         /\ \A o \in Object : disk'[o].value = IF o \in DOMAIN new THEN new[o] ELSE disk[o].value
         /\ disk' = [o \in Object |-> disk'[o]]
         /\ \A o \in Object : disk'[o] \in Reading(o) /\ disk'[o].stamp <= clock'
         /\ disk'[Git].stamp = disk'[Index].stamp
         /\ clock' \in 0..MaxChanges
<1>1. /\ clock \in Nat /\ MaxChanges \in Nat /\ clock' = clock + 1 /\ clock' \in 0..MaxChanges
      /\ \A o \in Object : disk[o].stamp \in Nat /\ disk[o].stamp <= clock
  BY CaptureAssumption, DiskFacts DEF DiskInv, Change
<1>2. \A o \in Object : disk'[o] = IF o \in DOMAIN new
                                   THEN [value |-> new[o], stamp |-> clock + 1] ELSE disk[o]
  BY DEF Change
<1>3. \A o \in DOMAIN new : o \in Object /\ disk'[o].stamp = clock + 1 /\ disk'[o].value = new[o]
  <2> TAKE o \in DOMAIN new
  <2>1. o \in Object /\ disk'[o] = [value |-> new[o], stamp |-> clock + 1]
    BY <1>2
  <2> QED
    BY <2>1
<1>4. Passed
  <2> SUFFICES ASSUME NEW o \in Object
               PROVE  /\ disk[o].stamp <= disk'[o].stamp
                      /\ disk[o].stamp = disk'[o].stamp => disk[o] = disk'[o]
    BY <1>1 DEF Passed
  <2>1. CASE o \in DOMAIN new
    <3>1. disk'[o].stamp = clock + 1 /\ disk[o].stamp \in Nat /\ disk[o].stamp <= clock
      BY <1>1, <1>3, <2>1
    <3> QED
      BY <1>1, <3>1
  <2>2. CASE o \notin DOMAIN new
    <3>1. disk'[o] = disk[o]
      BY <1>2, <2>2
    <3> QED
      BY <1>1, <3>1
  <2> QED
    BY <2>1, <2>2
<1>5. \A o \in Object : disk'[o].value = IF o \in DOMAIN new THEN new[o] ELSE disk[o].value
  <2>1. \A o \in Object : o \notin DOMAIN new => disk'[o] = disk[o]
    BY <1>2
  <2> QED
    BY <1>3, <2>1
<1>6. disk' = [o \in Object |-> disk'[o]]
  <2> DEFINE g(o) == IF o \in DOMAIN new THEN [value |-> new[o], stamp |-> clock + 1] ELSE disk[o]
  <2>1. disk' = [o \in Object |-> g(o)]
    BY DEF Change
  <2> HIDE DEF g
  <2> QED
    BY <2>1
<1>7. \A o \in Object : disk'[o] \in Reading(o) /\ disk'[o].stamp <= clock'
  <2> TAKE o \in Object
  <2>1. CASE o \in DOMAIN new
    <3>1. disk'[o] = [value |-> new[o], stamp |-> clock + 1]
      BY <1>2, <2>1
    <3>2. disk'[o] \in Reading(o)
      BY <2>1, <3>1
    <3> QED
      BY <1>1, <1>3, <2>1, <3>2
  <2>2. CASE o \notin DOMAIN new
    <3>1. disk'[o] = disk[o] /\ disk[o] \in Reading(o)
      BY <1>2, <2>2 DEF DiskInv, WellFormed
    <3> QED
      BY <1>1, <3>1
  <2> QED
    BY <2>1, <2>2
<1>8. disk'[Git].stamp = disk'[Index].stamp
  <2>1. Git \in Object /\ Index \in Object /\ disk[Git].stamp = disk[Index].stamp
    BY Facts DEF DiskInv, WellFormed
  <2>2. CASE Git \in DOMAIN new
    BY <1>3, <2>2
  <2>3. CASE Git \notin DOMAIN new
    <3>1. disk'[Git] = disk[Git] /\ disk'[Index] = disk[Index]
      BY <1>2, <2>1, <2>3
    <3> QED
      BY <2>1, <3>1
  <2> QED
    BY <2>2, <2>3
<1> QED
  BY <1>1, <1>4, <1>5, <1>6, <1>7, <1>8

\* The same for a change that touches no directory.
LEMMA FlatChange ==
  ASSUME DiskInv, NEW new, Change(new), DOMAIN new \subseteq Object, DOMAIN new \cap Dir = {},
         \A o \in DOMAIN new : [value |-> new[o], stamp |-> clock + 1] \in Reading(o),
         Git \in DOMAIN new <=> Index \in DOMAIN new
  PROVE  DiskInv' /\ Passed
<1>1. \A a \in Dir : a \in Object /\ disk'[a].value = disk[a].value
  BY ChangeStep, Facts
<1>2. \A a \in Dir \ {Root} : Parent[a] \in Dir
  BY Facts
<1>3. \A a \in Dir : disk'[a].value \subseteq {n \in Node \ {Root} : Parent[n] = a}
  BY <1>1 DEF DiskInv, WellFormed
<1>4. \A a \in Dir \ {Root} : disk'[a].value # {} => a \in disk'[Parent[a]].value
  BY <1>1, <1>2 DEF DiskInv, WellFormed, Present
<1> QED
  BY <1>3, <1>4, ChangeStep DEF DiskInv, WellFormed, Present

LEMMA Written ==
  ASSUME DiskInv
  PROVE  /\ \A p \in File, c \in Content : [value |-> c, stamp |-> clock + 1] \in Reading(p)
         /\ \A a \in Dir, S \in SUBSET Node : [value |-> S, stamp |-> clock + 1] \in Reading(a)
         /\ \A t \in Tree : [value |-> t, stamp |-> clock + 1] \in Reading(Index)
         /\ \A t \in Tree \cup {Nothing} : /\ [value |-> t, stamp |-> clock + 1] \in Reading(HEAD)
                                           /\ [value |-> t, stamp |-> clock + 1] \in Reading(Packed)
         /\ \A b \in BOOLEAN : [value |-> b, stamp |-> clock + 1] \in Reading(Config)
         /\ [value |-> {}, stamp |-> clock + 1] \in Reading(Git)
<1>1. clock + 1 \in Nat
  BY CaptureAssumption DEF DiskInv
<1> QED
  BY <1>1, Readings

LEMMA EditStep == ASSUME DiskInv, NEW p \in File, NEW c \in Content, Edit(p, c) PROVE DiskInv' /\ Passed
<1> DEFINE new == [o \in {p} |-> c]
<1>1. Change(new) /\ DOMAIN new = {p} /\ new[p] = c
  BY DEF Edit
<1> HIDE DEF new
<1>2. p \notin Dir /\ p # Git /\ p # Index /\ p \in Object
  BY Facts
<1>3. \A o \in DOMAIN new : [value |-> new[o], stamp |-> clock + 1] \in Reading(o)
  BY <1>1, Written
<1> QED
  BY <1>1, <1>2, <1>3, FlatChange

LEMMA AddStep ==
  ASSUME DiskInv, NEW n \in Node \ {Root}, NEW v, Add(n, v) PROVE DiskInv' /\ Passed
<1> DEFINE m == Parent[n]
           new == [o \in {n, Parent[n]} |-> IF o = n THEN v ELSE disk[Parent[n]].value \cup {n}]
<1>1. m \in Dir /\ m \in Node /\ m # n /\ n \in Object /\ m \in Object
  <2>1. Depth[n] = Depth[m] + 1 /\ m \in Dir /\ m \in Node /\ n \in Object /\ m \in Object
    BY CaptureAssumption, Facts
  <2>2. Depth[m] \in Nat
    BY <2>1, CaptureAssumption
  <2> QED
    BY <2>1, <2>2
<1>2. Change(new) /\ DOMAIN new = {n, m} /\ new[n] = v /\ new[m] = disk[m].value \cup {n}
  BY <1>1 DEF Add
<1>3. /\ n \notin disk[m].value
      /\ m # Root => m \in disk[Parent[m]].value
      /\ n \in File => v \in Content
      /\ n \notin File => n \in Dir /\ v = {}
  BY DEF Add, Present, Node
<1> HIDE DEF new
<1>4. disk[m].value \cup {n} \in SUBSET Node
  BY <1>1, DiskFacts DEF DiskInv
<1>5. \A o \in DOMAIN new : [value |-> new[o], stamp |-> clock + 1] \in Reading(o)
  <2>1. [value |-> v, stamp |-> clock + 1] \in Reading(n)
    BY <1>3, Written, Facts
  <2>2. [value |-> disk[m].value \cup {n}, stamp |-> clock + 1] \in Reading(m)
    BY <1>1, <1>4, Written
  <2> QED
    BY <1>2, <2>1, <2>2
<1>6. /\ Passed
      /\ \A o \in Object : disk'[o].value = IF o \in DOMAIN new THEN new[o] ELSE disk[o].value
      /\ disk' = [o \in Object |-> disk'[o]]
      /\ \A o \in Object : disk'[o] \in Reading(o) /\ disk'[o].stamp <= clock'
      /\ disk'[Git].stamp = disk'[Index].stamp
      /\ clock' \in 0..MaxChanges
  <2>1. Git \notin DOMAIN new /\ Index \notin DOMAIN new /\ DOMAIN new \subseteq Object
    BY <1>1, <1>2, Facts
  <2> QED
    BY <1>2, <1>5, <2>1, ChangeStep
<1>7. /\ disk'[m].value = disk[m].value \cup {n} /\ disk'[n].value = v
      /\ \A a \in Dir : a # m /\ a # n => disk'[a].value = disk[a].value
  BY <1>1, <1>2, <1>6, Facts
<1>8. \A a \in Dir : disk[a].value \subseteq {k \in Node \ {Root} : Parent[k] = a}
  BY DEF DiskInv, WellFormed
<1>9. \A a \in Dir \ {Root} : disk[a].value # {} => a \in disk[Parent[a]].value
  BY DEF DiskInv, WellFormed, Present
<1>10. \A a \in Dir : disk'[a].value \subseteq {k \in Node \ {Root} : Parent[k] = a}
  <2> TAKE a \in Dir
  <2>1. CASE a = m
    BY <1>7, <1>8, <2>1
  <2>2. CASE a = n
    BY <1>3, <1>7, <2>2, Facts
  <2>3. CASE a # m /\ a # n
    BY <1>7, <1>8, <2>3
  <2> QED
    BY <2>1, <2>2, <2>3
<1>11. \A a \in Dir \ {Root} : disk'[a].value # {} => a \in disk'[Parent[a]].value
  <2> SUFFICES ASSUME NEW a \in Dir \ {Root}, disk'[a].value # {}
               PROVE  a \in disk'[Parent[a]].value
    OBVIOUS
  <2>1. Parent[a] \in Dir
    BY Facts
  <2>2. a # n
    BY <1>3, <1>7, Facts
  <2>3. a \in disk[Parent[a]].value
    <3>1. CASE a = m
      BY <1>3, <3>1
    <3>2. CASE a # m
      BY <1>7, <1>9, <2>2, <3>2
    <3> QED
      BY <3>1, <3>2
  <2>4. Parent[a] # n
    <3>1. CASE n \in Dir
      \* nothing is in a directory that was not there
      <4>1. disk[n].value = {}
        BY <1>3, <1>9, <3>1
      <4> QED
        BY <2>3, <4>1
    <3>2. CASE n \notin Dir
      BY <2>1, <3>2
    <3> QED
      BY <3>1, <3>2
  <2> QED
    BY <1>7, <2>1, <2>3, <2>4
<1> QED
  BY <1>6, <1>10, <1>11 DEF DiskInv, WellFormed, Present

LEMMA RemoveStep ==
  ASSUME DiskInv, NEW n \in Node \ {Root}, Remove(n) PROVE DiskInv' /\ Passed
<1> DEFINE m == Parent[n]
           new == [o \in {Parent[n]} |-> disk[o].value \ {n}]
<1>1. m \in Dir /\ m \in Object
  BY Facts
<1>2. Change(new) /\ DOMAIN new = {m} /\ new[m] = disk[m].value \ {n}
  BY DEF Remove
<1>3. n \in disk[m].value /\ (n \in Dir => disk[n].value = {})
  BY DEF Remove, Present
<1> HIDE DEF new
<1>4. disk[m].value \ {n} \in SUBSET Node
  BY <1>1, DiskFacts DEF DiskInv
<1>5. \A o \in DOMAIN new : [value |-> new[o], stamp |-> clock + 1] \in Reading(o)
  BY <1>1, <1>2, <1>4, Written
<1>6. /\ Passed
      /\ \A o \in Object : disk'[o].value = IF o \in DOMAIN new THEN new[o] ELSE disk[o].value
      /\ disk' = [o \in Object |-> disk'[o]]
      /\ \A o \in Object : disk'[o] \in Reading(o) /\ disk'[o].stamp <= clock'
      /\ disk'[Git].stamp = disk'[Index].stamp
      /\ clock' \in 0..MaxChanges
  <2>1. Git \notin DOMAIN new /\ Index \notin DOMAIN new /\ DOMAIN new \subseteq Object
    BY <1>1, <1>2, Facts
  <2> QED
    BY <1>2, <1>5, <2>1, ChangeStep
<1>7. /\ disk'[m].value = disk[m].value \ {n}
      /\ \A a \in Dir : a # m => disk'[a].value = disk[a].value
  BY <1>1, <1>2, <1>6, Facts
<1>8. \A a \in Dir : disk[a].value \subseteq {k \in Node \ {Root} : Parent[k] = a}
  BY DEF DiskInv, WellFormed
<1>9. \A a \in Dir \ {Root} : disk[a].value # {} => a \in disk[Parent[a]].value
  BY DEF DiskInv, WellFormed, Present
<1>10. \A a \in Dir : disk'[a].value \subseteq disk[a].value
  BY <1>7
<1>11. \A a \in Dir \ {Root} : disk'[a].value # {} => a \in disk'[Parent[a]].value
  <2> SUFFICES ASSUME NEW a \in Dir \ {Root}, disk'[a].value # {}
               PROVE  a \in disk'[Parent[a]].value
    OBVIOUS
  <2>1. Parent[a] \in Dir /\ disk[a].value # {}
    BY <1>10, Facts
  <2>2. a # n /\ a \in disk[Parent[a]].value
    BY <1>3, <1>9, <2>1
  <2> QED
    BY <1>7, <2>1, <2>2
<1> QED
  BY <1>6, <1>8, <1>10, <1>11 DEF DiskInv, WellFormed, Present

LEMMA Trees ==
  /\ \A t \in Tree : DOMAIN t \in SUBSET File /\ t = [p \in DOMAIN t |-> t[p]]
                     /\ \A p \in DOMAIN t : t[p] \in Content
  /\ \A S \in SUBSET File : \A t \in [S -> Content] : t \in Tree
BY DEF Tree

LEMMA StageStep == ASSUME DiskInv, NEW p \in File, Stage(p) PROVE DiskInv' /\ Passed
<1> DEFINE old  == disk[Index].value
           keep == [q \in DOMAIN old \ {p} |-> old[q]]
           put  == IF Present(disk, p)
                   THEN [q \in DOMAIN old \cup {p} |-> IF q = p THEN disk[p].value ELSE old[q]]
                   ELSE keep
<1>1. old \in Tree /\ disk[p].value \in Content
  BY DiskFacts DEF DiskInv
<1>2. DOMAIN old \in SUBSET File /\ \A q \in DOMAIN old : old[q] \in Content
  BY <1>1, Trees
<1>3. PICK tree \in {put, keep} : Change([o \in {Index, Git} |-> IF o = Index THEN tree ELSE {}])
  BY DEF Stage
<1>4. keep \in Tree
  <2>1. DOMAIN old \ {p} \in SUBSET File /\ keep \in [DOMAIN old \ {p} -> Content]
    BY <1>2
  <2> QED
    BY <2>1, Trees
<1>5. put \in Tree
  <2>1. CASE Present(disk, p)
    <3>1. DOMAIN old \cup {p} \in SUBSET File /\ put \in [DOMAIN old \cup {p} -> Content]
      BY <1>1, <1>2, <2>1
    <3> QED
      BY <3>1, Trees
  <2> QED
    BY <1>4, <2>1
<1>6. tree \in Tree
  BY <1>3, <1>4, <1>5
<1> HIDE DEF keep, put
<1> DEFINE new == [o \in {Index, Git} |-> IF o = Index THEN tree ELSE {}]
<1>7. Change(new) /\ DOMAIN new = {Index, Git} /\ new[Index] = tree /\ new[Git] = {}
  BY <1>3, Distinct
<1> HIDE DEF new
<1>8. \A o \in DOMAIN new : [value |-> new[o], stamp |-> clock + 1] \in Reading(o)
  BY <1>6, <1>7, Written
<1>9. DOMAIN new \subseteq Object /\ DOMAIN new \cap Dir = {}
  BY <1>7, Facts
<1> QED
  BY <1>7, <1>8, <1>9, FlatChange

LEMMA RefStep ==
  ASSUME DiskInv, CommitIndex \/ Pack \/ Prune \/ Configure PROVE DiskInv' /\ Passed
<1>1. ASSUME NEW o \in {HEAD, Packed, Config}, NEW v, Change([x \in {o} |-> v]),
             [value |-> v, stamp |-> clock + 1] \in Reading(o)
      PROVE  DiskInv' /\ Passed
  <2> DEFINE new == [x \in {o} |-> v]
  <2>1. Change(new) /\ DOMAIN new = {o} /\ new[o] = v
    BY <1>1
  <2> HIDE DEF new
  <2>2. o \in Object /\ o \notin Dir /\ o # Git /\ o # Index
    BY Facts, Distinct
  <2>3. \A x \in DOMAIN new : [value |-> new[x], stamp |-> clock + 1] \in Reading(x)
    BY <1>1, <2>1
  <2> QED
    BY <2>1, <2>2, <2>3, FlatChange
<1>2. disk[Index].value \in Tree /\ disk[HEAD].value \in Tree \cup {Nothing}
      /\ disk[Config].value \in BOOLEAN
  BY DiskFacts DEF DiskInv
<1>3. CASE CommitIndex
  <2>1. Change([x \in {HEAD} |-> disk[Index].value])
    BY <1>3 DEF CommitIndex
  <2>2. [value |-> disk[Index].value, stamp |-> clock + 1] \in Reading(HEAD)
    BY <1>2, Written
  <2> QED
    BY <1>1, <2>1, <2>2
<1>4. CASE Pack
  <2>1. Change([x \in {Packed} |-> disk[HEAD].value])
    BY <1>4 DEF Pack
  <2>2. [value |-> disk[HEAD].value, stamp |-> clock + 1] \in Reading(Packed)
    BY <1>2, Written
  <2> QED
    BY <1>1, <2>1, <2>2
<1>5. CASE Prune
  <2>1. Change([x \in {HEAD} |-> Nothing])
    BY <1>5 DEF Prune
  <2>2. [value |-> Nothing, stamp |-> clock + 1] \in Reading(HEAD)
    BY Written
  <2> QED
    BY <1>1, <2>1, <2>2
<1>6. CASE Configure
  <2>1. Change([x \in {Config} |-> ~disk[Config].value])
    BY <1>6 DEF Configure
  <2>2. [value |-> ~disk[Config].value, stamp |-> clock + 1] \in Reading(Config)
    BY Written
  <2> QED
    BY <1>1, <2>1, <2>2
<1> QED
  BY <1>3, <1>4, <1>5, <1>6

capture == <<call, phase, attempt, first, observation, outcome, pivot, since>>

\* Whoever works leaves a target that can be, and the captures alone.
LEMMA WorkStep ==
  ASSUME DiskInv, Work PROVE DiskInv' /\ Passed /\ UNCHANGED capture
<1>1. \A new : Change(new) => UNCHANGED capture
  BY DEF Change, capture
<1>2. ASSUME NEW p \in File, NEW c \in Content, Edit(p, c)
      PROVE  DiskInv' /\ Passed /\ UNCHANGED capture
  BY <1>1, <1>2, EditStep DEF Edit
<1>3. ASSUME NEW n \in Node \ {Root}, NEW v, Add(n, v)
      PROVE  DiskInv' /\ Passed /\ UNCHANGED capture
  BY <1>1, <1>3, AddStep DEF Add
<1>4. ASSUME NEW n \in Node \ {Root}, Remove(n) PROVE DiskInv' /\ Passed /\ UNCHANGED capture
  BY <1>1, <1>4, RemoveStep DEF Remove
<1>5. ASSUME NEW p \in File, Stage(p) PROVE DiskInv' /\ Passed /\ UNCHANGED capture
  BY <1>1, <1>5, StageStep DEF Stage
<1>6. ASSUME CommitIndex \/ Pack \/ Prune \/ Configure
      PROVE  DiskInv' /\ Passed /\ UNCHANGED capture
  BY <1>1, <1>6, RefStep DEF CommitIndex, Pack, Prune, Configure
<1> QED
  BY <1>2, <1>3, <1>4, <1>5, <1>6 DEF Work

-----------------------------------------------------------------------------
(* The inductive invariant.                                                *)

\* r is a reading of o of the instant at which the target was d, or an earlier
\* one; or of that instant or a later one.
Was(r, o, d)  == r.stamp <= d[o].stamp /\ (r.stamp = d[o].stamp => r = d[o])
Will(r, o, d) == d[o].stamp <= r.stamp /\ (r.stamp = d[o].stamp => r = d[o])

GitMode == mode \in {"clean", "live"}
Active  == phase \in Running \cup {"returned"}

\* The source of a number has been read in this observation; it has been read
\* again.
ReadYet(k)    == phase # "before" \/ k < at
CheckedYet(k) == phase \in {"copy", "returned"} \/ (phase = "after" /\ k < at)

CallInv ==
  /\ mode \in Modes /\ required \in Requests \cup {{}}
  /\ phase \in Running \cup {"idle", "returned", "refused"}
  /\ attempt \in 1..2 /\ admitted \in 0..clock /\ since \in 0..clock
  /\ reason \in {"none", "root", "changed", "dirty", "late", "unborn", "ambiguous",
                "unsupported", "request", "copy"}
  /\ phase \in {"admit", "list"} => GitMode
  /\ phase \in {"deleted", "untracked", "redeleted", "reuntracked"} => mode = "live"
  /\ phase = "walk" => mode # "policy"
  /\ phase = "copy" => Repeated
  /\ at \in 1..LastSource
  /\ phase \in {"admit", "list", "deleted", "untracked", "walk", "redeleted",
                "reuntracked"} => at = 1

ObservationTyped ==
  /\ before = [o \in Source |-> before[o]]
  /\ \A o \in Source : before[o] \in Reading(o) \cup {Nothing}
  /\ census \in [deleted : SUBSET File, untracked : SUBSET File]
  /\ ids \in [Node \cup {Git} -> 0..clock \cup {Nothing}]
  /\ seen = [n \in Node |-> seen[n]]
  /\ \A n \in Node : seen[n] \in Reading(n) \cup {Nothing}
  /\ closed \subseteq Dir

\* The policy file was there just when the listing of the root had it.
PolicyListed == before[Policy] = Nothing <=> Policy \notin before[Root].value

\* The sources read so far, and what they say as long as others do not change.
SourcesInv ==
  /\ \A s \in Source : before[s] # Nothing => Was(before[s], s, disk)
  /\ Active /\ GitMode =>
       /\ ReadYet(1) => before[Root] # Nothing
       /\ ReadYet(2) => before[Git] # Nothing
       /\ ReadYet(3) => (disk[Root].stamp = before[Root].stamp => PolicyListed)
       /\ ReadYet(4) => before[Config] # Nothing
       /\ ReadYet(6) => (before[HEAD] = Nothing <=> before[Packed] # Nothing)
       /\ ReadYet(7) => before[Index] # Nothing /\ before[Git].stamp <= before[Index].stamp
       /\ phase \notin {"before", "admit"} =>
            (disk[Config].stamp = before[Config].stamp => before[Config].value = TRUE)

Unwalked == closed = {} /\ \A n \in Node : seen[n] = Nothing

\* The walk has left the root, and all it entered.
Walked ==
  /\ Root \in closed
  /\ \A a \in Dir : seen[a] # Nothing => a \in closed
  /\ WalkComplete
  /\ required \subseteq Available

\* What was walked hangs together, and what was left has been read with all that
\* is in it.
WalkInv ==
  /\ \A n \in Node : seen[n] # Nothing => Was(seen[n], n, disk)
  /\ \A a \in Dir : seen[a] # Nothing =>
       seen[a].value \subseteq {n \in Node \ {Root} : Parent[n] = a}
  /\ Active =>
       /\ phase \in {"before", "admit", "list", "deleted", "untracked"} \/ mode = "policy" =>
            Unwalked
       /\ \A n \in Node \ {Root} : seen[n] # Nothing =>
            /\ seen[Parent[n]] # Nothing
            /\ n \in seen[Parent[n]].value \cap Selected
       /\ \A a \in closed : /\ seen[a] # Nothing
                            /\ \A n \in seen[a].value \cap Selected :
                                 seen[n] # Nothing /\ (n \in Dir => n \in closed)
       /\ phase \in {"redeleted", "reuntracked", "after", "copy", "returned"}
          /\ mode # "policy" => Walked

\* What a clean capture walked is what is tracked.
CleanInv ==
  Active /\ mode = "clean" =>
    /\ \A p \in File : seen[p] # Nothing => p \in DOMAIN Tracked /\ seen[p].value = Tracked[p]
    /\ \A a \in Dir : seen[a] # Nothing => ~Stray(a)
    /\ phase \notin {"before", "admit", "list"} => HeadIsIndex

FirstInv ==
  first # Nothing =>
    /\ mode # "policy"
    /\ \A n \in Node : first.walked[n] \in Reading(n) \cup {Nothing}
    /\ \A n \in Node : first.walked[n] # Nothing => Was(first.walked[n], n, disk)

\* The instant has come.
Pivoted == first # Nothing /\ Active /\ ReadYet(IF mode = "files" THEN 1 ELSE 6)

\* The first walk and most sources were read before the instant, the second walk
\* and the index after it, and the branch at it.
PivotInv ==
  Pivoted =>
    /\ WellFormed(pivot)
    /\ \A o \in Object : Was(pivot[o], o, disk)
    /\ \A n \in Node : first.walked[n] # Nothing => Was(first.walked[n], n, pivot)
    /\ \A n \in Node : seen[n] # Nothing => Will(seen[n], n, pivot)
    /\ GitMode =>
         /\ \A s \in {Root, Git, Policy, Config, Packed} :
              before[s] # Nothing => Was(before[s], s, pivot)
         /\ before[HEAD] = IF pivot[HEAD].value = Nothing THEN Nothing ELSE pivot[HEAD]
         /\ ReadYet(7) => Will(before[Index], Index, pivot)

\* A source that was read again was at the instant what it was before.
CheckedInv ==
  Pivoted /\ GitMode =>
    /\ CheckedYet(1) => pivot[Root] = before[Root] /\ PolicyListed
    /\ CheckedYet(2) => pivot[Index] = before[Index]
    /\ CheckedYet(3) /\ before[Policy] # Nothing => pivot[Policy] = before[Policy]
    /\ CheckedYet(4) => pivot[Config] = before[Config] /\ before[Config].value = TRUE
    /\ CheckedYet(5) /\ before[Packed] # Nothing => pivot[Packed] = before[Packed]

\* A read of the policy file alone is of the instant of its first reading.
PolicyInv ==
  mode = "policy" /\ phase \in {"after", "returned"} =>
    /\ pivot[Policy] # Nothing
    /\ before[Policy] = IF Present(pivot, Policy) THEN pivot[Policy] ELSE Nothing

\* What was walked twice was the same, and is what is copied and returned.
ResultInv ==
  /\ phase \in {"copy", "returned"} /\ mode # "policy" => first # Nothing /\ first.walked = seen
  /\ phase = "returned" => answer = Reported

CopyInv ==
  /\ copy \in Tree \cup {Nothing}
  /\ phase \in Running \ {"copy"} => copy = Nothing
  /\ phase = "copy" => copy # Nothing /\ DOMAIN copy \subseteq required
  /\ CopiesAreOfTheInstant

ObservationInv == SourcesInv /\ WalkInv /\ CleanInv
InstantInv == FirstInv /\ PivotInv /\ CheckedInv /\ PolicyInv /\ ResultInv /\ CopyInv

IInv == DiskInv /\ CallInv /\ ObservationTyped /\ ObservationInv /\ InstantInv

-----------------------------------------------------------------------------
(* Readings in time.                                                       *)

LEMMA NowWas ==
  ASSUME DiskInv, NEW o \in Object
  PROVE  Was(disk[o], o, disk)
BY DiskFacts DEF DiskInv, Was

LEMMA WasPassed ==
  ASSUME DiskInv, DiskInv', Passed, NEW o \in Object, NEW r \in Reading(o), Was(r, o, disk)
  PROVE  Was(r, o, disk') /\ (r.stamp = disk'[o].stamp => r.stamp = disk[o].stamp)
<1>1. r.stamp \in Nat /\ disk[o].stamp \in Nat /\ disk'[o].stamp \in Nat
  BY Stamps DEF DiskInv, WellFormed
<1>2. disk[o].stamp <= disk'[o].stamp /\ (disk[o].stamp = disk'[o].stamp => disk[o] = disk'[o])
  BY DEF Passed
<1> QED
  BY <1>1, <1>2 DEF Was

\* Two readings with one stamp, one before and one after an instant, are what
\* their object was then.
LEMMA Sandwich ==
  ASSUME NEW d, NEW o \in Object, d[o] \in Reading(o), NEW r \in Reading(o), NEW s \in Reading(o),
         Was(r, o, d), Will(s, o, d), r.stamp = s.stamp
  PROVE  d[o] = r /\ d[o] = s
BY Stamps DEF Was, Will

\* A reading before the instant that still is what it was.
LEMMA Unmoving ==
  ASSUME WellFormed(disk), WellFormed(pivot), NEW o \in Object, NEW r \in Reading(o),
         Was(r, o, pivot), Was(pivot[o], o, disk), r.stamp = disk[o].stamp
  PROVE  pivot[o] = r /\ pivot[o] = disk[o]
<1>1. pivot[o] \in Reading(o) /\ disk[o] \in Reading(o)
  BY DEF WellFormed
<1>2. r.stamp \in Nat /\ pivot[o].stamp \in Nat /\ disk[o].stamp \in Nat
  BY <1>1, Stamps
<1> QED
  BY <1>2 DEF Was

\* Whatever happens in the target, the invariant stays.
LEMMA WorkKeeps ==
  ASSUME IInv, DiskInv', Passed, UNCHANGED capture
  PROVE  IInv'
<1> USE DEF capture, call, observation, outcome
<1>1. \A o \in Object : \A r \in Reading(o) : Was(r, o, disk) =>
        Was(r, o, disk') /\ (r.stamp = disk'[o].stamp => r.stamp = disk[o].stamp)
  BY WasPassed DEF IInv
<1>2. clock \in Nat /\ clock' \in Nat /\ clock < clock' /\ 0..clock \subseteq 0..clock'
  BY CaptureAssumption DEF IInv, DiskInv, Passed
<1>3. CallInv'
  BY <1>2 DEF IInv, CallInv, LastSource, Sources, Repeated, GitMode
<1>4. ObservationTyped'
  <2>1. ids' \in [Node \cup {Git} -> 0..clock' \cup {Nothing}]
    BY <1>2 DEF IInv, ObservationTyped
  <2> QED
    BY <2>1 DEF IInv, ObservationTyped
<1>5. SourcesInv'
  <2>1. \A s \in Source : before[s] # Nothing => before[s] \in Reading(s) /\ s \in Object
    BY Facts DEF IInv, ObservationTyped
  <2>2. \A s \in Source : before'[s] # Nothing => Was(before'[s], s, disk')
    BY <1>1, <2>1 DEF IInv, ObservationInv, SourcesInv
  <2>3. \A s \in {Root, Config} : before[s] # Nothing /\ disk'[s].stamp = before[s].stamp =>
          disk[s].stamp = before[s].stamp
    BY <1>1, <2>1, Facts DEF IInv, ObservationInv, SourcesInv
  <2>4. Active /\ GitMode =>
          /\ ReadYet(3) => before[Root] # Nothing
          /\ phase \notin {"before", "admit"} => before[Config] # Nothing
    BY DEF IInv, ObservationInv, SourcesInv, ReadYet, CallInv, Active
  <2> QED
    BY <2>2, <2>3, <2>4 DEF IInv, ObservationInv, SourcesInv, Active, GitMode, ReadYet, PolicyListed
<1>6. WalkInv' /\ CleanInv'
  <2>1. \A n \in Node : seen'[n] # Nothing => Was(seen'[n], n, disk')
    BY <1>1, Facts DEF IInv, ObservationTyped, ObservationInv, WalkInv
  <2> QED
    BY <2>1 DEF IInv, ObservationInv, WalkInv, CleanInv, Active, Unwalked, Walked, WalkComplete,
       Available, FilesSeen, Selected, Census, Names, Tracked, HeadTree, HeadOf, ValueOf,
       HeadIsIndex, Stray
<1>7. FirstInv'
  <2>1. first # Nothing => \A n \in Node : first.walked[n] # Nothing =>
          first.walked[n] \in Reading(n) /\ n \in Object /\ Was(first.walked[n], n, disk)
    BY Facts DEF IInv, InstantInv, FirstInv
  <2>2. first # Nothing => \A n \in Node : first.walked[n] # Nothing =>
          Was(first.walked[n], n, disk')
    BY <1>1, <2>1
  <2> QED
    BY <2>2 DEF IInv, InstantInv, FirstInv
<1>8. PivotInv'
  <2>1. Pivoted' <=> Pivoted
    BY DEF Pivoted, Active, ReadYet
  <2>2. Pivoted => \A o \in Object : Was(pivot'[o], o, disk')
    BY <1>1 DEF IInv, InstantInv, PivotInv, WellFormed
  <2>3. PivotInv
    BY DEF IInv, InstantInv
  <2> QED
    BY <2>1, <2>2, <2>3 DEF PivotInv, GitMode, ReadYet
<1>9. CheckedInv' /\ PolicyInv' /\ CopyInv'
  BY DEF IInv, InstantInv, CheckedInv, PolicyInv, CopyInv, CopiesAreOfTheInstant, Pivoted, Active,
     ReadYet, GitMode, CheckedYet, PolicyListed, Repeated, FilesIn, Present
<1>10. ResultInv'
  BY DEF IInv, InstantInv, ResultInv, Reported, HeadTree, HeadOf, ValueOf, PolicyRead, FilesSeen
<1> QED
  BY <1>3, <1>4, <1>5, <1>6, <1>7, <1>8, <1>9, <1>10 DEF IInv, ObservationInv, InstantInv

-----------------------------------------------------------------------------
(* The beginning and the end of an observation.                            *)

LEMMA SourcePositions ==
  /\ mode = "files" => Sources = <<Root>> /\ LastSource = 1
  /\ mode = "policy" => Sources = <<Policy>> /\ LastSource = 1
  /\ GitMode => /\ Sources = <<Root, Git, Policy, Config, Packed, HEAD, Index>>
                /\ LastSource = 7
  /\ LastSource \in {1, 7}
<1>1. mode = "files" => Sources = <<Root>>
  BY DEF Sources
<1>2. mode = "policy" => Sources = <<Policy>>
  BY DEF Sources
<1>3. mode \notin {"files", "policy"} =>
        Sources = <<Root, Git, Policy, Config, Packed, HEAD, Index>>
  BY DEF Sources
<1> QED
  BY <1>1, <1>2, <1>3 DEF LastSource, GitMode

\* An observation that starts knows nothing yet.
LEMMA StartStep ==
  ASSUME DiskInv, UNCHANGED target, StartObservation, FirstInv',
         mode' \in Modes, required' \in Requests \cup {{}}, attempt' \in 1..2,
         admitted' \in 0..clock, since' \in 0..clock,
         reason' \in {"none", "root", "changed", "dirty", "late", "unborn", "ambiguous",
                      "unsupported", "request", "copy"},
         copy' = Nothing
  PROVE  IInv'
<1>1. DiskInv'
  BY DEF DiskInv, WellFormed, Present, target
<1>2. /\ phase' = "before" /\ at' = 1 /\ closed' = {}
      /\ before' = [o \in Source |-> Nothing]
      /\ \A n \in Node : seen'[n] = Nothing
      /\ seen' = [n \in Node |-> Nothing]
      /\ census' = [deleted |-> {}, untracked |-> {}]
      /\ ids' = [n \in Node \cup {Git} |-> Nothing]
  BY DEF StartObservation, FirstSource
<1>3. CallInv'
  <2>1. LastSource' \in {1, 7}
    BY DEF LastSource, Sources
  <2> QED
    BY <1>2, <2>1 DEF CallInv, Running, target
<1>4. ObservationTyped'
  <2>1. before' = [o \in Source |-> before'[o]] /\ \A o \in Source : before'[o] = Nothing
    BY <1>2
  <2>2. seen' = [n \in Node |-> seen'[n]]
    BY <1>2
  <2>3. ids' \in [Node \cup {Git} -> 0..clock' \cup {Nothing}]
    BY <1>2
  <2>4. census' \in [deleted : SUBSET File, untracked : SUBSET File]
    BY <1>2
  <2> QED
    BY <1>2, <2>1, <2>2, <2>3, <2>4 DEF ObservationTyped
<1>5. SourcesInv'
  BY <1>2 DEF SourcesInv, ReadYet
<1>6. WalkInv' /\ CleanInv'
  BY <1>2, Facts DEF WalkInv, CleanInv, Unwalked
<1>7. ~Pivoted'
  BY <1>2 DEF Pivoted, ReadYet
<1>8. PivotInv' /\ CheckedInv' /\ PolicyInv' /\ ResultInv'
  BY <1>2, <1>7 DEF PivotInv, CheckedInv, PolicyInv, ResultInv
<1>9. CopyInv'
  BY <1>2 DEF CopyInv, CopiesAreOfTheInstant
<1> QED
  BY <1>1, <1>3, <1>4, <1>5, <1>6, <1>8, <1>9 DEF IInv, ObservationInv, InstantInv

\* A capture that is refused keeps what it read.
LEMMA RefuseStep ==
  ASSUME IInv, phase' = "refused",
         reason' \in {"none", "root", "changed", "dirty", "late", "unborn", "ambiguous",
                      "unsupported", "request", "copy"},
         copy' \in {Nothing, copy},
         UNCHANGED <<target, call, attempt, first, observation, pivot, since>>
  PROVE  IInv'
<1> USE DEF target, call, observation
<1>1. DiskInv'
  BY DEF IInv, DiskInv, WellFormed, Present
<1>2. CallInv'
  BY DEF IInv, CallInv, LastSource, Sources, Running
<1>3. ObservationTyped'
  BY DEF IInv, ObservationTyped
<1>4. ~Active'
  BY DEF Active, Running
<1>5. SourcesInv' /\ WalkInv' /\ CleanInv'
  BY <1>4 DEF IInv, ObservationInv, SourcesInv, WalkInv, CleanInv
<1>6. FirstInv'
  BY DEF IInv, InstantInv, FirstInv
<1>7. PivotInv' /\ CheckedInv' /\ PolicyInv' /\ ResultInv'
  BY <1>4 DEF PivotInv, CheckedInv, Pivoted, PolicyInv, ResultInv
<1>8. CopyInv'
  BY DEF IInv, InstantInv, CopyInv, CopiesAreOfTheInstant, FilesIn, Present, Running
<1> QED
  BY <1>1, <1>2, <1>3, <1>5, <1>6, <1>7, <1>8 DEF IInv, ObservationInv, InstantInv

Reasons == {"none", "root", "changed", "dirty", "late", "unborn", "ambiguous",
            "unsupported", "request", "copy"}

LEMMA RaiseStep ==
  ASSUME IInv, phase \in Running \ {"copy"}, NEW why \in Reasons, Raise(why), UNCHANGED target
  PROVE  IInv'
<1>1. CASE Repeated /\ attempt = 1
  <2>1. /\ attempt' = 2 /\ since' = clock /\ first' = Nothing /\ StartObservation
        /\ UNCHANGED <<call, outcome>>
    BY <1>1 DEF Raise
  <2>2. FirstInv'
    BY <2>1 DEF FirstInv
  <2>3. clock \in 0..clock
    BY CaptureAssumption DEF IInv, DiskInv
  <2> QED
    BY <2>1, <2>2, <2>3, StartStep DEF IInv, CallInv, InstantInv, CopyInv, call, outcome
<1>2. CASE ~(Repeated /\ attempt = 1)
  <2>1. Finish("refused", why, Nothing)
    BY <1>2 DEF Raise
  <2> QED
    BY <2>1, RefuseStep DEF Finish, Reasons
<1> QED
  BY <1>1, <1>2

LEMMA DenyStep ==
  ASSUME IInv, Deny, UNCHANGED target PROVE IInv'
BY RefuseStep DEF Deny, Finish

LEMMA CallStep ==
  ASSUME IInv, NEW m \in Modes, Call(m) PROVE IInv'
<1>1. disk[Root].stamp \in 0..clock /\ clock \in 0..clock /\ admitted \in 0..clock
  BY CaptureAssumption, Facts, DiskFacts DEF IInv, DiskInv, CallInv
<1>2. FirstInv'
  BY DEF Call, FirstInv
<1> QED
  BY <1>1, <1>2, StartStep DEF Call, IInv


-----------------------------------------------------------------------------
(* Reading the sources.                                                    *)

LEMMA NowFacts ==
  ASSUME DiskInv
  PROVE  /\ \A s \in Source : Now(s) \in {disk[s], Nothing} /\ disk[s] # Nothing
                              /\ Now(s) \in Reading(s) \cup {Nothing}
         /\ \A s \in {Root, Git, Config, Index} : Now(s) = disk[s]
         /\ Now(Policy) = IF Present(disk, Policy) THEN disk[Policy] ELSE Nothing
         /\ Now(HEAD) = IF disk[HEAD].value = Nothing THEN Nothing ELSE disk[HEAD]
<1>1. /\ \A s \in Source : disk[s] \in Reading(s) /\ disk[s] # Nothing
      /\ disk[Policy].value \in Content /\ disk[Root].value \in SUBSET Node
      /\ disk[Index].value \in Tree /\ disk[Config].value \in BOOLEAN /\ disk[Git].value = {}
  BY DiskFacts, Facts DEF DiskInv
<1>2. \A s \in {Root, Git, Config, Index, Policy} : disk[s].value # Nothing
  <2>1. {} \in SUBSET Node
    OBVIOUS
  <2>2. Nothing \notin Content /\ Nothing \notin Tree /\ Nothing \notin {TRUE, FALSE}
        /\ \A S \in SUBSET Node : Nothing # S
    BY CaptureAssumption
  <2> QED
    BY <1>1, <2>1, <2>2
<1>3. Policy \notin {Root, Git, Config, Index, HEAD}
  BY Facts
<1> QED
  BY <1>1, <1>2, <1>3 DEF Now

LEMMA ReadBeforeGit ==
  ASSUME IInv, GitMode, phase = "before", UNCHANGED target,
         Sources[at] = HEAD => ~(Now(HEAD) = Nothing <=> before[Packed] = Nothing),
         before' = [before EXCEPT ![Sources[at]] = Now(Sources[at])],
         IF at < 7 THEN at' = at + 1 /\ phase' = "before" ELSE at' = 1 /\ phase' = "admit",
         pivot' = IF first # Nothing /\ Sources[at] = HEAD THEN disk ELSE pivot,
         UNCHANGED <<call, attempt, first, outcome, since, census, ids, seen, closed>>
  PROVE  IInv'
<1> USE DEF target, call, outcome
<1> DEFINE s == Sources[at]
<1>1. /\ Sources = <<Root, Git, Policy, Config, Packed, HEAD, Index>> /\ LastSource = 7
      /\ at \in 1..7
  BY SourcePositions DEF IInv, CallInv
<1>2. /\ s \in Source
      /\ s = Root <=> at = 1
      /\ s = Git <=> at = 2
      /\ s = Policy <=> at = 3
      /\ s = Config <=> at = 4
      /\ s = Packed <=> at = 5
      /\ s = HEAD <=> at = 6
      /\ s = Index <=> at = 7
  <2>1. /\ at = 1 => s = Root
        /\ at = 2 => s = Git
        /\ at = 3 => s = Policy
        /\ at = 4 => s = Config
        /\ at = 5 => s = Packed
        /\ at = 6 => s = HEAD
        /\ at = 7 => s = Index
        /\ at \in {1, 2, 3, 4, 5, 6, 7}
    BY <1>1
  <2>2. /\ Root \notin {Git, Policy, Config, Packed, HEAD, Index}
        /\ Policy \notin {Root, Git, Config, Packed, HEAD, Index}
    BY Facts
  <2>3. {Root, Git, Policy, HEAD, Packed, Index, Config} \subseteq Source
    BY Facts
  <2> HIDE DEF s
  <2> QED
    BY <2>1, <2>2, <2>3, Distinct
<1> HIDE DEF s
<1>3. \A x \in Source : before'[x] = IF x = s THEN Now(x) ELSE before[x]
  BY DEF IInv, ObservationTyped, s
<1>4. \A k \in 1..7 : ReadYet(k)' <=> k <= at
  BY <1>1 DEF ReadYet
<1>5. DiskInv'
  BY DEF IInv, DiskInv, WellFormed, Present
<1>6. /\ phase' \in {"before", "admit"} /\ mode' = mode /\ first' = first /\ copy' = copy
      /\ phase' = "admit" => at' = 1
      /\ at' \in 1..7 /\ LastSource' = 7
  BY <1>1 DEF LastSource, Sources
<1>7. CallInv'
  BY <1>6 DEF IInv, CallInv, GitMode, Running
<1>8. ObservationTyped'
  <2>1. before' = [o \in Source |-> before'[o]]
    BY DEF IInv, ObservationTyped
  <2>2. \A o \in Source : before'[o] \in Reading(o) \cup {Nothing}
    BY <1>3, NowFacts DEF IInv, ObservationTyped
  <2> QED
    BY <2>1, <2>2 DEF IInv, ObservationTyped
<1>9. Unwalked /\ Unwalked'
  BY DEF IInv, ObservationInv, WalkInv, Unwalked, Active, Running
<1>10. \A x \in Source : before'[x] # Nothing => Was(before'[x], x, disk)
  <2> SUFFICES ASSUME NEW x \in Source, before'[x] # Nothing PROVE Was(before'[x], x, disk)
    OBVIOUS
  <2>1. CASE x = s
    BY <1>3, <2>1, NowFacts, NowWas, Facts DEF IInv
  <2>2. CASE x # s
    BY <1>3, <2>2 DEF IInv, ObservationInv, SourcesInv
  <2> QED
    BY <2>1, <2>2
<1>11. /\ 1 < at => before[Root] # Nothing
       /\ 2 < at => before[Git] # Nothing
       /\ 3 < at => (disk[Root].stamp = before[Root].stamp => PolicyListed)
       /\ 4 < at => before[Config] # Nothing
       /\ 6 < at => (before[HEAD] = Nothing <=> before[Packed] # Nothing)
  BY DEF IInv, ObservationInv, SourcesInv, Active, Running, ReadYet
<1>12. {Root, Git, Policy, HEAD, Packed, Index, Config} \subseteq Source
  BY Facts
<1>13. SourcesInv'
  <2>1. 1 <= at => before'[Root] # Nothing
    BY <1>2, <1>3, <1>11, <1>12, <1>1, NowFacts DEF IInv
  <2>2. 2 <= at => before'[Git] # Nothing
    BY <1>2, <1>3, <1>11, <1>12, <1>1, NowFacts DEF IInv
  <2>3. 3 <= at => (disk[Root].stamp = before'[Root].stamp => PolicyListed')
    <3>1. CASE at = 3
      <4>1. before'[Root] = before[Root] /\ before[Root] # Nothing /\ before'[Policy] = Now(Policy)
        BY <1>2, <1>3, <1>11, <1>12, <3>1
      <4>2. disk[Root].stamp = before[Root].stamp => before[Root] = disk[Root]
        BY <1>12, <4>1 DEF IInv, ObservationInv, SourcesInv, Was
      <4>3. Now(Policy) = Nothing <=> Policy \notin disk[Root].value
        <5>1. Present(disk, Policy) <=> Policy \in disk[Root].value
          BY Facts DEF Present
        <5> QED
          BY <1>12, <5>1, NowFacts DEF IInv
      <4> QED
        BY <4>1, <4>2, <4>3 DEF PolicyListed
    <3>2. CASE 3 < at
      <4>1. before'[Root] = before[Root] /\ before'[Policy] = before[Policy]
        BY <1>1, <1>2, <1>3, <1>12, <3>2
      <4> QED
        BY <1>11, <3>2, <4>1 DEF PolicyListed
    <3> QED
      BY <1>1, <3>1, <3>2
  <2>4. 4 <= at => before'[Config] # Nothing
    BY <1>2, <1>3, <1>11, <1>12, <1>1, NowFacts DEF IInv
  <2>5. 6 <= at => (before'[HEAD] = Nothing <=> before'[Packed] # Nothing)
    <3>1. CASE at = 6
      <4>1. before'[HEAD] = Now(HEAD) /\ before'[Packed] = before[Packed]
        BY <1>2, <1>3, <1>12, <3>1
      <4> QED
        BY <1>2, <3>1, <4>1 DEF s
    <3>2. CASE at = 7
      BY <1>2, <1>3, <1>11, <1>12, <3>2
    <3> QED
      BY <1>1, <3>1, <3>2
  <2>6. 7 <= at => before'[Index] # Nothing /\ before'[Git].stamp <= before'[Index].stamp
    <3> SUFFICES ASSUME at = 7
                 PROVE before'[Index] # Nothing /\ before'[Git].stamp <= before'[Index].stamp
      BY <1>1
    <3>1. before'[Index] = disk[Index] /\ before'[Git] = before[Git] /\ before[Git] # Nothing
      BY <1>2, <1>3, <1>11, <1>12, NowFacts DEF IInv
    <3>2. before[Git].stamp <= disk[Git].stamp /\ disk[Git].stamp = disk[Index].stamp
      BY <1>12, <3>1 DEF IInv, ObservationInv, SourcesInv, Was, DiskInv, WellFormed
    <3> QED
      BY <1>12, <3>1, <3>2, NowFacts DEF IInv
  <2>7. ReadYet(1)' /\ (ReadYet(2)' => 2 <= at) /\ (ReadYet(3)' => 3 <= at)
        /\ (ReadYet(4)' => 4 <= at) /\ (ReadYet(6)' => 6 <= at) /\ (ReadYet(7)' => 7 <= at)
        /\ 1 <= at
    <3>1. 1 \in 1..7 /\ 2 \in 1..7 /\ 3 \in 1..7 /\ 4 \in 1..7 /\ 6 \in 1..7 /\ 7 \in 1..7
      OBVIOUS
    <3> QED
      BY <1>1, <1>4, <3>1
  <2> QED
    BY <1>6, <1>10, <2>1, <2>2, <2>3, <2>4, <2>5, <2>6, <2>7 DEF SourcesInv
<1>14. WalkInv' /\ CleanInv'
  BY <1>6, <1>9, Facts DEF WalkInv, CleanInv, Unwalked
<1>15. FirstInv'
  BY DEF IInv, InstantInv, FirstInv
<1>16. PivotInv'
  <2> SUFFICES ASSUME Pivoted' PROVE PivotInv'
    BY DEF PivotInv
  <2>1. first # Nothing /\ 6 <= at
    BY <1>4 DEF Pivoted, GitMode
  <2>2. \A n \in Node : seen'[n] = Nothing
    BY <1>9 DEF Unwalked
  <2>3. CASE at = 6
    <3>1. pivot' = disk /\ before'[HEAD] = Now(HEAD) /\ ~ReadYet(7)'
      BY <1>2, <1>3, <1>4, <1>12, <2>1, <2>3 DEF s
    <3>2. WellFormed(pivot)'
      BY <3>1 DEF IInv, DiskInv, WellFormed, Present
    <3>3. \A o \in Object : Was(pivot'[o], o, disk')
      BY <3>1, NowWas DEF IInv
    <3>4. \A n \in Node : first.walked[n] # Nothing => Was(first.walked[n], n, pivot')
      BY <2>1, <3>1 DEF IInv, InstantInv, FirstInv
    <3>5. \A x \in Source : before'[x] # Nothing => Was(before'[x], x, pivot')
      BY <1>10, <3>1
    <3>6. before'[HEAD] = IF pivot'[HEAD].value = Nothing THEN Nothing ELSE pivot'[HEAD]
      BY <3>1, NowFacts DEF IInv
    <3> QED
      BY <1>12, <2>2, <3>1, <3>2, <3>3, <3>4, <3>5, <3>6 DEF PivotInv
  <2>4. CASE at = 7
    <3>1. Pivoted
      BY <2>1, <2>4 DEF Pivoted, ReadYet, Active, Running, GitMode
    <3>2. pivot' = pivot /\ before'[Index] = disk[Index]
          /\ \A x \in Source \ {Index} : before'[x] = before[x]
      BY <1>2, <1>3, <1>12, <2>4, NowFacts DEF IInv, s
    <3>3. PivotInv
      BY DEF IInv, InstantInv
    <3>4. Will(before'[Index], Index, pivot')
      BY <1>12, <3>1, <3>2, <3>3, Facts DEF PivotInv, Will, Was
    <3>5. WellFormed(pivot)'
      BY <3>1, <3>2, <3>3 DEF PivotInv, WellFormed, Present
    <3>6. \A x \in {Root, Git, Policy, Config, Packed, HEAD} : before'[x] = before[x]
      BY <1>12, <3>2, Facts, Distinct
    <3> QED
      BY <2>2, <3>1, <3>2, <3>3, <3>4, <3>5, <3>6 DEF PivotInv
  <2> QED
    BY <1>1, <2>1, <2>3, <2>4
<1>17. CheckedInv' /\ PolicyInv' /\ ResultInv'
  BY <1>6 DEF CheckedInv, CheckedYet, PolicyInv, ResultInv, GitMode
<1>18. CopyInv'
  <2>1. copy = Nothing
    BY DEF IInv, InstantInv, CopyInv, Running
  <2> QED
    BY <1>6, <2>1 DEF CopyInv, CopiesAreOfTheInstant
<1> QED
  BY <1>5, <1>7, <1>8, <1>13, <1>14, <1>15, <1>16, <1>17, <1>18 DEF IInv, ObservationInv, InstantInv

LEMMA ReadBeforeFiles ==
  ASSUME IInv, mode = "files", phase = "before", UNCHANGED target,
         before' = [before EXCEPT ![Root] = Now(Root)], at' = 1, phase' = "walk",
         pivot' = IF first # Nothing THEN disk ELSE pivot,
         UNCHANGED <<call, attempt, first, outcome, since, census, ids, seen, closed>>
  PROVE  IInv'
<1> USE DEF target, call, outcome
<1>1. DiskInv'
  BY DEF IInv, DiskInv, WellFormed, Present
<1>2. CallInv'
  <2>1. LastSource' \in {1, 7}
    BY DEF LastSource, Sources
  <2> QED
    BY <2>1 DEF IInv, CallInv, GitMode, Running
<1>3. Root \in Source /\ \A x \in Source : before'[x] = IF x = Root THEN Now(x) ELSE before[x]
  BY Facts DEF IInv, ObservationTyped
<1>4. ObservationTyped'
  <2>1. before' = [o \in Source |-> before'[o]]
    BY DEF IInv, ObservationTyped
  <2>2. \A o \in Source : before'[o] \in Reading(o) \cup {Nothing}
    BY <1>3, NowFacts DEF IInv, ObservationTyped
  <2> QED
    BY <2>1, <2>2 DEF IInv, ObservationTyped
<1>5. Unwalked /\ Unwalked'
  BY DEF IInv, ObservationInv, WalkInv, Unwalked, Active, Running
<1>6. SourcesInv'
  <2>1. \A x \in Source : before'[x] # Nothing => Was(before'[x], x, disk)
    <3> SUFFICES ASSUME NEW x \in Source, before'[x] # Nothing PROVE Was(before'[x], x, disk)
      OBVIOUS
    <3>1. CASE x = Root
      BY <1>3, <3>1, NowFacts, NowWas, Facts DEF IInv
    <3>2. CASE x # Root
      BY <1>3, <3>2 DEF IInv, ObservationInv, SourcesInv
    <3> QED
      BY <3>1, <3>2
  <2> QED
    BY <2>1 DEF SourcesInv, GitMode
<1>7. WalkInv' /\ CleanInv'
  BY <1>5, Facts DEF WalkInv, CleanInv, Unwalked
<1>8. FirstInv'
  BY DEF IInv, InstantInv, FirstInv
<1>9. PivotInv'
  <2> SUFFICES ASSUME first # Nothing PROVE PivotInv'
    BY DEF PivotInv, Pivoted
  <2>1. WellFormed(pivot)'
    BY DEF IInv, DiskInv, WellFormed, Present
  <2>2. \A o \in Object : Was(pivot'[o], o, disk')
    BY NowWas DEF IInv
  <2>3. \A n \in Node : first.walked[n] # Nothing => Was(first.walked[n], n, pivot')
    BY DEF IInv, InstantInv, FirstInv
  <2> QED
    BY <1>5, <2>1, <2>2, <2>3 DEF PivotInv, Unwalked, GitMode
<1>10. CheckedInv' /\ PolicyInv' /\ ResultInv'
  BY DEF CheckedInv, PolicyInv, ResultInv, GitMode
<1>11. CopyInv'
  <2>1. copy = Nothing
    BY DEF IInv, InstantInv, CopyInv, Running
  <2> QED
    BY <2>1 DEF CopyInv, CopiesAreOfTheInstant
<1> QED
  BY <1>1, <1>2, <1>4, <1>6, <1>7, <1>8, <1>9, <1>10, <1>11 DEF IInv, ObservationInv, InstantInv

LEMMA ReadBeforeStep == ASSUME IInv, ReadBefore PROVE IInv'
<1> DEFINE s == Sources[at]
           torn == s = HEAD /\ (Now(HEAD) = Nothing <=> before[Packed] = Nothing)
<1>0. /\ phase = "before" /\ phase \in Running \ {"copy"} /\ UNCHANGED target
      /\ mode \in {"clean", "live", "files"} /\ at \in 1..LastSource
  BY DEF ReadBefore, Running, IInv, CallInv, Modes
<1>1. CASE RootMoved
  BY <1>0, <1>1, RaiseStep DEF ReadBefore, Reasons
<1>2. CASE ~RootMoved /\ torn
  BY <1>0, <1>2, RaiseStep DEF ReadBefore, Reasons
<1>3. CASE ~RootMoved /\ ~torn
  <2>1. /\ before' = [before EXCEPT ![s] = Now(s)]
        /\ IF at < LastSource
           THEN at' = at + 1 /\ phase' = "before"
           ELSE at' = 1 /\ phase' = IF mode = "files" THEN "walk" ELSE "admit"
        /\ pivot' = IF first # Nothing /\ s = Decisive THEN disk ELSE pivot
        /\ UNCHANGED <<call, attempt, first, outcome, since, census, ids, seen, closed>>
    BY <1>3 DEF ReadBefore, FirstSource
  <2>2. CASE GitMode
    <3>1. LastSource = 7 /\ Decisive = HEAD /\ mode # "files"
      BY <2>2, SourcePositions DEF Decisive, GitMode
    <3> QED
      BY <1>0, <1>3, <2>1, <2>2, <3>1, ReadBeforeGit
  <2>3. CASE mode = "files"
    <3>1. LastSource = 1 /\ Decisive = Root /\ at = 1 /\ s = Root
      BY <1>0, <2>3, SourcePositions DEF Decisive
    <3> QED
      BY <1>0, <2>1, <2>3, <3>1, ReadBeforeFiles
  <2> QED
    BY <1>0, <2>2, <2>3 DEF GitMode
<1> QED
  BY <1>1, <1>2, <1>3

LEMMA ReadPolicyStep == ASSUME IInv, ReadPolicy PROVE IInv'
<1> USE DEF target, call, outcome
<1>0. /\ phase = "before" /\ mode = "policy" /\ phase' = "after" /\ pivot' = disk
      /\ before' = [before EXCEPT ![Policy] = Now(Policy)]
      /\ UNCHANGED <<target, call, attempt, first, outcome, since, at, census, ids, seen, closed>>
  BY DEF ReadPolicy
<1>1. DiskInv'
  BY <1>0 DEF IInv, DiskInv, WellFormed, Present
<1>2. CallInv'
  BY <1>0 DEF IInv, CallInv, GitMode, Running, LastSource, Sources
<1>3. Policy \in Source /\ \A x \in Source : before'[x] = IF x = Policy THEN Now(x) ELSE before[x]
  BY <1>0, Facts DEF IInv, ObservationTyped
<1>4. ObservationTyped'
  <2>1. before' = [o \in Source |-> before'[o]]
    BY <1>0 DEF IInv, ObservationTyped
  <2>2. \A o \in Source : before'[o] \in Reading(o) \cup {Nothing}
    BY <1>3, NowFacts DEF IInv, ObservationTyped
  <2> QED
    BY <1>0, <2>1, <2>2 DEF IInv, ObservationTyped
<1>5. Unwalked /\ Unwalked'
  BY <1>0 DEF IInv, ObservationInv, WalkInv, Unwalked, Active, Running
<1>6. SourcesInv'
  <2>1. \A x \in Source : before'[x] # Nothing => Was(before'[x], x, disk)
    <3> SUFFICES ASSUME NEW x \in Source, before'[x] # Nothing PROVE Was(before'[x], x, disk)
      OBVIOUS
    <3>1. CASE x = Policy
      BY <1>3, <3>1, NowFacts, NowWas, Facts DEF IInv
    <3>2. CASE x # Policy
      BY <1>3, <3>2 DEF IInv, ObservationInv, SourcesInv
    <3> QED
      BY <3>1, <3>2
  <2> QED
    BY <1>0, <2>1 DEF SourcesInv, GitMode
<1>7. WalkInv' /\ CleanInv'
  BY <1>0, <1>5, Facts DEF WalkInv, CleanInv, Unwalked
<1>8. first = Nothing
  BY <1>0 DEF IInv, InstantInv, FirstInv
<1>9. FirstInv' /\ PivotInv' /\ CheckedInv' /\ ResultInv'
  BY <1>0, <1>8 DEF FirstInv, PivotInv, CheckedInv, Pivoted, ResultInv
<1>10. PolicyInv'
  BY <1>0, <1>3, NowFacts DEF PolicyInv, IInv, Present
<1>11. CopyInv'
  <2>1. copy = Nothing
    BY <1>0 DEF IInv, InstantInv, CopyInv, Running
  <2> QED
    BY <1>0, <2>1 DEF CopyInv, CopiesAreOfTheInstant
<1> QED
  BY <1>1, <1>2, <1>4, <1>6, <1>7, <1>9, <1>10, <1>11 DEF IInv, ObservationInv, InstantInv

-----------------------------------------------------------------------------
(* Between the sources and the walk, and after it.                         *)

\* From one listing to the next.
LEMMA GoOnStep ==
  ASSUME IInv,
         UNCHANGED <<target, call, attempt, first, outcome, pivot, since>>,
         UNCHANGED <<at, before, ids, seen, closed>>,
         census' \in [deleted : SUBSET File, untracked : SUBSET File],
         \/ phase = "admit" /\ phase' = "list" /\ disk[Config].value = TRUE
         \/ phase = "list" /\ phase' = "walk" /\ mode = "clean" /\ HeadIsIndex
         \/ phase = "list" /\ phase' = "deleted" /\ mode = "live"
         \/ phase = "deleted" /\ phase' = "untracked"
         \/ phase = "untracked" /\ phase' = "walk"
         \/ phase = "redeleted" /\ phase' = "reuntracked" /\ census' = census
         \/ phase = "reuntracked" /\ phase' = "after" /\ census' = census
  PROVE  IInv'
<1> USE DEF target, call, outcome
<1>1. /\ GitMode /\ mode \in {"clean", "live"} /\ at = 1 /\ Active /\ Active'
      /\ mode = "clean" => phase \in {"admit", "list"}
      /\ \A k \in 1..7 : ReadYet(k) /\ ReadYet(k)' /\ ~CheckedYet(k)'
  BY DEF IInv, CallInv, GitMode, Active, Running, ReadYet, CheckedYet
<1>2. DiskInv'
  BY DEF IInv, DiskInv, WellFormed, Present
<1>3. CallInv'
  BY <1>1 DEF IInv, CallInv, GitMode, Running, LastSource, Sources
<1>4. ObservationTyped'
  BY DEF IInv, ObservationTyped
<1>5. 1 \in 1..7 /\ 2 \in 1..7 /\ 3 \in 1..7 /\ 4 \in 1..7 /\ 5 \in 1..7 /\ 6 \in 1..7 /\ 7 \in 1..7
  OBVIOUS
<1>6. SourcesInv'
  <2>1. disk[Config].stamp = before[Config].stamp => before[Config].value = TRUE
    <3>1. CASE phase = "admit"
      <4>1. before[Config] # Nothing /\ Config \in Source
        BY <1>1, <1>5, Facts DEF IInv, ObservationInv, SourcesInv
      <4>2. disk[Config].stamp = before[Config].stamp => before[Config] = disk[Config]
        BY <4>1 DEF IInv, ObservationInv, SourcesInv, Was
      <4> QED
        BY <3>1, <4>2
    <3>2. CASE phase # "admit"
      BY <1>1, <3>2 DEF IInv, ObservationInv, SourcesInv
    <3> QED
      BY <3>1, <3>2
  <2>2. SourcesInv
    BY DEF IInv, ObservationInv
  <2> QED
    BY <1>1, <1>5, <2>1, <2>2 DEF SourcesInv, GitMode, PolicyListed
<1>7. WalkInv'
  <2>1. CASE phase \in {"admit", "list", "deleted", "untracked"}
    <3>1. Unwalked /\ Unwalked'
      BY <1>1, <2>1 DEF IInv, ObservationInv, WalkInv, Unwalked
    <3>2. phase' \notin {"redeleted", "reuntracked", "after", "copy", "returned"}
      BY <2>1
    <3> QED
      BY <3>1, <3>2, Facts DEF WalkInv, Unwalked
  <2>2. CASE phase \in {"redeleted", "reuntracked"}
    <3>1. phase' \in {"reuntracked", "after"} /\ census' = census
      BY <2>2
    <3> QED
      BY <1>1, <2>2, <3>1 DEF IInv, ObservationInv, WalkInv, Walked, WalkComplete, Available,
         FilesSeen, Selected, Census, Names, Tracked, HeadTree, HeadOf, ValueOf
  <2> QED
    BY <2>1, <2>2
<1>8. CleanInv'
  BY <1>1 DEF IInv, ObservationInv, CleanInv, HeadIsIndex, HeadTree, HeadOf, ValueOf, Tracked, Stray
<1>9. FirstInv'
  BY DEF IInv, InstantInv, FirstInv
<1>10. PivotInv'
  <2>1. Pivoted' => Pivoted
    BY <1>1, <1>5 DEF Pivoted, GitMode
  <2>2. PivotInv
    BY DEF IInv, InstantInv
  <2> QED
    BY <1>1, <1>5, <2>1, <2>2 DEF PivotInv, GitMode, WellFormed, Present
<1>11. CheckedInv'
  BY <1>1, <1>5 DEF CheckedInv
<1>12. PolicyInv' /\ ResultInv'
  BY <1>1 DEF PolicyInv, ResultInv
<1>13. CopyInv'
  <2>1. copy = Nothing /\ phase' \notin {"copy", "returned"}
    BY DEF IInv, InstantInv, CopyInv, Running
  <2> QED
    BY <2>1 DEF CopyInv, CopiesAreOfTheInstant
<1> QED
  BY <1>2, <1>3, <1>4, <1>6, <1>7, <1>8, <1>9, <1>10, <1>11, <1>12, <1>13
     DEF IInv, ObservationInv, InstantInv

LEMMA AdmitStep == ASSUME IInv, Admit PROVE IInv'
<1>0. phase = "admit" /\ UNCHANGED target /\ phase \in Running \ {"copy"}
  BY DEF Admit, Running
<1>1. CASE disk[Config].value
  <2>1. disk[Config].value = TRUE
    BY <1>1, DiskFacts DEF IInv, DiskInv
  <2>2. Continue("list") /\ UNCHANGED observation
    BY <1>1 DEF Admit
  <2> QED
    BY <1>0, <2>1, <2>2, GoOnStep DEF Continue, observation, IInv, ObservationTyped
<1>2. CASE ~disk[Config].value
  BY <1>0, <1>2, RaiseStep DEF Admit, Reasons
<1> QED
  BY <1>1, <1>2

LEMMA ListIndexStep == ASSUME IInv, ListIndex PROVE IInv'
<1>0. /\ phase = "list" /\ UNCHANGED target /\ phase \in Running \ {"copy"}
      /\ mode \in {"clean", "live"}
  BY DEF ListIndex, Running, IInv, CallInv, GitMode
<1>1. CASE disk[Index].value # Tracked
  BY <1>0, <1>1, RaiseStep DEF ListIndex, Reasons
<1>2. CASE disk[Index].value = Tracked /\ mode = "clean" /\ ~HeadIsIndex
  BY <1>0, <1>2, RaiseStep DEF ListIndex, Reasons
<1>3. CASE disk[Index].value = Tracked /\ ~(mode = "clean" /\ ~HeadIsIndex)
  <2>1. Continue(IF mode = "clean" THEN "walk" ELSE "deleted") /\ UNCHANGED observation
    BY <1>3 DEF ListIndex
  <2> QED
    BY <1>0, <1>3, <2>1, GoOnStep DEF Continue, observation, IInv, ObservationTyped
<1> QED
  BY <1>1, <1>2, <1>3

LEMMA ListDeletedStep == ASSUME IInv, ListDeleted PROVE IInv'
<1>0. /\ phase \in {"deleted", "redeleted"} /\ UNCHANGED target /\ phase \in Running \ {"copy"}
      /\ census \in [deleted : SUBSET File, untracked : SUBSET File]
  BY DEF ListDeleted, Running, IInv, ObservationTyped
<1>1. CASE phase = "deleted" /\ DeletedNow \subseteq DOMAIN Tracked
  <2>1. DeletedNow \in SUBSET File
    BY DiskFacts, Trees DEF IInv, DiskInv, DeletedNow
  <2>2. /\ census' = [census EXCEPT !.deleted = DeletedNow] /\ Continue("untracked")
        /\ UNCHANGED <<at, before, ids, seen, closed>>
    BY <1>1 DEF ListDeleted
  <2>3. census' \in [deleted : SUBSET File, untracked : SUBSET File]
    BY <1>0, <2>1, <2>2
  <2> QED
    BY <1>0, <1>1, <2>2, <2>3, GoOnStep DEF Continue
<1>2. CASE phase = "redeleted" /\ DeletedNow = census.deleted
  BY <1>0, <1>2, GoOnStep DEF ListDeleted, Continue, observation
<1>3. CASE \/ phase = "deleted" /\ ~(DeletedNow \subseteq DOMAIN Tracked)
           \/ phase = "redeleted" /\ DeletedNow # census.deleted
  <2>1. Raise("changed")
    BY <1>3 DEF ListDeleted
  <2> QED
    BY <1>0, <2>1, RaiseStep DEF Reasons
<1> QED
  BY <1>0, <1>1, <1>2, <1>3

LEMMA ListUntrackedStep == ASSUME IInv, ListUntracked PROVE IInv'
<1>0. /\ phase \in {"untracked", "reuntracked"} /\ UNCHANGED target
      /\ phase \in Running \ {"copy"}
      /\ census \in [deleted : SUBSET File, untracked : SUBSET File]
  BY DEF ListUntracked, Running, IInv, ObservationTyped
<1>1. CASE phase = "untracked" /\ UntrackedNow \cap DOMAIN Tracked = {}
  <2>1. CASE ~(required \subseteq Names(census.deleted, UntrackedNow))
    BY <1>0, <1>1, <2>1, DenyStep DEF ListUntracked
  <2>2. CASE required \subseteq Names(census.deleted, UntrackedNow)
    <3>1. UntrackedNow \in SUBSET File
      BY DEF UntrackedNow, FilesIn
    <3>2. /\ census' = [census EXCEPT !.untracked = UntrackedNow] /\ Continue("walk")
          /\ UNCHANGED <<at, before, ids, seen, closed>>
      BY <1>1, <2>2 DEF ListUntracked
    <3>3. census' \in [deleted : SUBSET File, untracked : SUBSET File]
      BY <1>0, <3>1, <3>2
    <3> QED
      BY <1>0, <1>1, <3>2, <3>3, GoOnStep DEF Continue
  <2> QED
    BY <2>1, <2>2
<1>2. CASE phase = "reuntracked" /\ UntrackedNow = census.untracked
  BY <1>0, <1>2, GoOnStep DEF ListUntracked, Continue, observation
<1>3. CASE \/ phase = "untracked" /\ UntrackedNow \cap DOMAIN Tracked # {}
           \/ phase = "reuntracked" /\ UntrackedNow # census.untracked
  <2>1. Raise("changed")
    BY <1>3 DEF ListUntracked
  <2> QED
    BY <1>0, <2>1, RaiseStep DEF Reasons
<1> QED
  BY <1>0, <1>1, <1>2, <1>3

-----------------------------------------------------------------------------
(* The walk.                                                               *)

\* The walk reads one more entry of a directory it is in.
LEMMA SeeStep ==
  ASSUME IInv, phase = "walk", NEW n \in Node, seen[n] = Nothing,
         n # Root => seen[Parent[n]] # Nothing /\ n \in seen[Parent[n]].value \cap Selected,
         mode = "clean" =>
           /\ n \in File => n \in DOMAIN Tracked /\ disk[n].value = Tracked[n]
           /\ n \in Dir => ~Stray(n),
         seen' = [seen EXCEPT ![n] = disk[n]],
         ids' \in [Node \cup {Git} -> 0..clock \cup {Nothing}],
         UNCHANGED <<target, call, phase, attempt, first, outcome, pivot, since>>,
         UNCHANGED <<at, before, census, closed>>
  PROVE  IInv'
<1> USE DEF target, call, outcome
<1>1. /\ Active /\ Active' /\ mode # "policy" /\ at = 1
      /\ \A k \in 1..7 : ReadYet(k) /\ ReadYet(k)' /\ ~CheckedYet(k)'
  BY DEF IInv, CallInv, Active, Running, ReadYet, CheckedYet
<1>2. DiskInv'
  BY DEF IInv, DiskInv, WellFormed, Present
<1>3. CallInv'
  BY DEF IInv, CallInv, GitMode, Running, LastSource, Sources
<1>4. /\ \A k \in Node : seen'[k] = IF k = n THEN disk[n] ELSE seen[k]
      /\ n \in Object /\ disk[n] # Nothing /\ disk[n] \in Reading(n)
  BY DiskFacts, Facts DEF IInv, DiskInv, ObservationTyped
<1>5. ObservationTyped'
  <2>1. seen' = [k \in Node |-> seen'[k]]
    BY DEF IInv, ObservationTyped
  <2>2. \A k \in Node : seen'[k] \in Reading(k) \cup {Nothing}
    BY <1>4 DEF IInv, ObservationTyped
  <2> QED
    BY <2>1, <2>2 DEF IInv, ObservationTyped
<1>6. SourcesInv'
  <2>1. SourcesInv
    BY DEF IInv, ObservationInv
  <2> QED
    BY <2>1 DEF SourcesInv, GitMode, PolicyListed, ReadYet, Active
<1>7. \A k \in Node : seen[k] # Nothing => seen'[k] = seen[k]
  BY <1>4
<1>8. Selected' = Selected
  BY DEF Selected, Census, Names, Tracked
<1>9. WalkInv'
  <2>1. \A k \in Node : seen'[k] # Nothing => Was(seen'[k], k, disk)
    BY <1>4, NowWas DEF IInv, ObservationInv, WalkInv
  <2>2. \A a \in Dir : seen'[a] # Nothing =>
          seen'[a].value \subseteq {k \in Node \ {Root} : Parent[k] = a}
    <3> SUFFICES ASSUME NEW a \in Dir, seen'[a] # Nothing
                 PROVE  seen'[a].value \subseteq {k \in Node \ {Root} : Parent[k] = a}
      OBVIOUS
    <3>1. CASE a = n
      BY <1>4, <3>1 DEF IInv, DiskInv, WellFormed
    <3>2. CASE a # n
      BY <1>4, <3>2, Facts DEF IInv, ObservationInv, WalkInv
    <3> QED
      BY <3>1, <3>2
  <2>3. \A k \in Node \ {Root} : seen'[k] # Nothing =>
          seen'[Parent[k]] # Nothing /\ k \in seen'[Parent[k]].value \cap Selected
    <3> SUFFICES ASSUME NEW k \in Node \ {Root}, seen'[k] # Nothing
                 PROVE  seen'[Parent[k]] # Nothing /\ k \in seen'[Parent[k]].value \cap Selected
      OBVIOUS
    <3>1. Parent[k] \in Node
      BY Facts
    <3>2. seen[Parent[k]] # Nothing /\ k \in seen[Parent[k]].value \cap Selected
      <4>1. CASE k = n
        BY <4>1
      <4>2. CASE k # n
        BY <1>1, <1>4, <4>2 DEF IInv, ObservationInv, WalkInv
      <4> QED
        BY <4>1, <4>2
    <3> QED
      BY <1>7, <3>1, <3>2
  <2>4. \A a \in closed : /\ seen'[a] # Nothing
                          /\ \A k \in seen'[a].value \cap Selected :
                               seen'[k] # Nothing /\ (k \in Dir => k \in closed)
    <3> SUFFICES ASSUME NEW a \in closed
                 PROVE  /\ seen'[a] # Nothing
                        /\ \A k \in seen'[a].value \cap Selected :
                             seen'[k] # Nothing /\ (k \in Dir => k \in closed)
      OBVIOUS
    <3>1. a \in Dir /\ a \in Node
      BY Facts DEF IInv, ObservationTyped
    <3>2. /\ seen[a] # Nothing
          /\ \A k \in seen[a].value \cap Selected :
               seen[k] # Nothing /\ (k \in Dir => k \in closed)
      BY <1>1 DEF IInv, ObservationInv, WalkInv
    <3>3. seen'[a] = seen[a] /\ seen[a].value \subseteq Node
      BY <1>7, <3>1, <3>2 DEF IInv, ObservationInv, WalkInv
    <3> QED
      BY <1>7, <3>2, <3>3
  <2> QED
    BY <1>1, <1>8, <2>1, <2>2, <2>3, <2>4 DEF WalkInv
<1>10. CleanInv'
  <2> SUFFICES ASSUME mode = "clean" PROVE CleanInv'
    BY DEF CleanInv
  <2>1. CleanInv
    BY DEF IInv, ObservationInv
  <2>2. \A p \in File : seen'[p] # Nothing => p \in DOMAIN Tracked /\ seen'[p].value = Tracked[p]
    BY <1>1, <1>4, <2>1, Facts DEF CleanInv
  <2>3. \A a \in Dir : seen'[a] # Nothing => ~Stray(a)
    BY <1>1, <1>4, <2>1, Facts DEF CleanInv
  <2>4. HeadIsIndex
    BY <1>1, <2>1 DEF CleanInv
  <2>5. Tracked' = Tracked /\ HeadIsIndex' /\ \A a : Stray(a)' <=> Stray(a)
    BY <2>4 DEF Tracked, HeadIsIndex, HeadTree, HeadOf, ValueOf, Stray
  <2> QED
    BY <2>2, <2>3, <2>5 DEF CleanInv
<1>11. FirstInv'
  BY DEF IInv, InstantInv, FirstInv
<1>12. PivotInv'
  <2> SUFFICES ASSUME Pivoted' PROVE PivotInv'
    BY DEF PivotInv
  <2>1. Pivoted /\ PivotInv
    BY DEF Pivoted, Active, ReadYet, IInv, InstantInv
  <2>2. \A k \in Node : seen'[k] # Nothing => Will(seen'[k], k, pivot)
    <3>1. Will(disk[n], n, pivot)
      BY <1>4, <2>1 DEF PivotInv, Was, Will
    <3> QED
      BY <1>4, <2>1, <3>1 DEF PivotInv
  <2> QED
    BY <2>1, <2>2 DEF PivotInv, GitMode, WellFormed, Present, ReadYet
<1>13. CheckedInv'
  <2>1. 1 \in 1..7 /\ 2 \in 1..7 /\ 3 \in 1..7 /\ 4 \in 1..7 /\ 5 \in 1..7
    OBVIOUS
  <2> QED
    BY <1>1, <2>1 DEF CheckedInv
<1>14. PolicyInv' /\ ResultInv'
  BY DEF PolicyInv, ResultInv
<1>15. CopyInv'
  <2>1. copy = Nothing
    BY DEF IInv, InstantInv, CopyInv, Running
  <2> QED
    BY <2>1 DEF CopyInv, CopiesAreOfTheInstant
<1> QED
  BY <1>2, <1>3, <1>5, <1>6, <1>9, <1>10, <1>11, <1>12, <1>13, <1>14, <1>15
     DEF IInv, ObservationInv, InstantInv

LEMMA EnterStep == ASSUME IInv, NEW a \in Dir, Enter(a) PROVE IInv'
<1>0. /\ phase = "walk" /\ phase \in Running \ {"copy"} /\ UNCHANGED target /\ seen[a] = Nothing
      /\ a \in Node
      /\ a # Root => seen[Parent[a]] # Nothing /\ a \in seen[Parent[a]].value \cap Selected
  BY Facts DEF Enter, Running, Inside, ToVisit
<1>1. CASE a # Root /\ ~Pinned(a)
  BY <1>0, <1>1, RaiseStep DEF Enter, Reasons
<1>2. CASE ~(a # Root /\ ~Pinned(a)) /\ mode = "clean" /\ Stray(a)
  BY <1>0, <1>2, RaiseStep DEF Enter, Reasons
<1>3. CASE ~(a # Root /\ ~Pinned(a)) /\ ~(mode = "clean" /\ Stray(a))
  <2>1. /\ seen' = [seen EXCEPT ![a] = disk[a]]
        /\ ids' = [n \in Node \cup {Git} |->
                     IF n \in Entries(a) THEN disk[n].stamp ELSE ids[n]]
        /\ Continue("walk")
        /\ UNCHANGED <<at, before, census, closed>>
    BY <1>3 DEF Enter
  <2>2. \A n \in Node \cup {Git} : disk[n].stamp \in 0..clock
    BY DiskFacts, Facts DEF IInv, DiskInv
  <2>3. ids' \in [Node \cup {Git} -> 0..clock \cup {Nothing}]
    BY <2>1, <2>2 DEF IInv, ObservationTyped
  <2>4. a \notin File
    BY Facts
  <2> QED
    BY <1>0, <1>3, <2>1, <2>3, <2>4, SeeStep DEF Continue
<1> QED
  BY <1>1, <1>2, <1>3

LEMMA ReadLeafStep == ASSUME IInv, NEW p \in File, ReadLeaf(p) PROVE IInv'
<1>0. /\ phase = "walk" /\ phase \in Running \ {"copy"} /\ UNCHANGED target /\ seen[p] = Nothing
      /\ p \in Node /\ p \notin Dir
      /\ seen[Parent[p]] # Nothing /\ p \in seen[Parent[p]].value \cap Selected
  BY Facts DEF ReadLeaf, Running, Inside, ToVisit
<1>1. CASE ~Pinned(p)
  BY <1>0, <1>1, RaiseStep DEF ReadLeaf, Reasons
<1>2. CASE Pinned(p) /\ mode = "clean" /\ (p \in DOMAIN Tracked => disk[p].value # Tracked[p])
  BY <1>0, <1>2, RaiseStep DEF ReadLeaf, Reasons
<1>3. CASE /\ Pinned(p)
           /\ ~(mode = "clean" /\ (p \in DOMAIN Tracked => disk[p].value # Tracked[p]))
  <2>1. /\ seen' = [seen EXCEPT ![p] = disk[p]] /\ Continue("walk")
        /\ UNCHANGED <<at, before, census, ids, closed>>
    BY <1>3 DEF ReadLeaf
  <2>2. ids' \in [Node \cup {Git} -> 0..clock \cup {Nothing}]
    BY <2>1 DEF IInv, ObservationTyped
  <2> QED
    BY <1>0, <1>3, <2>1, <2>2, SeeStep DEF Continue
<1> QED
  BY <1>1, <1>2, <1>3

\* Only the root is as near the root as the root.
LEMMA RootIsLast ==
  ASSUME IInv, Inside(Root)
  PROVE  \A a \in Dir \ {Root} : seen[a] # Nothing => a \in closed
<1> SUFFICES ASSUME NEW a \in Dir \ {Root}, seen[a] # Nothing, a \notin closed PROVE FALSE
  OBVIOUS
<1>1. Depth[a] <= Depth[Root]
  BY DEF Inside
<1>2. /\ Depth[Root] = 0 /\ a \in Node \ {Root} /\ Depth[a] = Depth[Parent[a]] + 1
      /\ Depth[Parent[a]] \in Nat
  BY CaptureAssumption, Facts
<1> QED
  BY <1>1, <1>2

LEMMA LeaveStep == ASSUME IInv, NEW a \in Dir, Leave(a) PROVE IInv'
<1>0. /\ phase = "walk" /\ phase \in Running \ {"copy"} /\ UNCHANGED target
      /\ Inside(a) /\ seen[a] # Nothing /\ ToVisit(a) = {}
  BY DEF Leave, Running, Inside
<1>1. CASE ~ListedAlike(a)
  BY <1>0, <1>1, RaiseStep DEF Leave, Reasons
<1>2. CASE ListedAlike(a) /\ a = Root /\ ~WalkComplete
  BY <1>0, <1>2, RaiseStep DEF Leave, Reasons
<1>3. CASE ListedAlike(a) /\ a = Root /\ WalkComplete /\ ~(required \subseteq Available)
  BY <1>0, <1>3, DenyStep DEF Leave
<1>4. CASE ListedAlike(a) /\ (a = Root => WalkComplete /\ required \subseteq Available)
  <2> USE DEF target, call, outcome
  <2>1. /\ phase' = IF a # Root THEN "walk" ELSE IF mode = "live" THEN "redeleted" ELSE "after"
        /\ closed' = closed \cup {a}
        /\ UNCHANGED <<target, call, attempt, first, outcome, pivot, since>>
        /\ UNCHANGED <<at, before, census, ids, seen>>
    BY <1>0, <1>4 DEF Leave, Continue
  <2>2. /\ Active /\ Active' /\ mode # "policy" /\ at = 1
        /\ \A k \in 1..7 : ReadYet(k) /\ ReadYet(k)' /\ ~CheckedYet(k)'
    BY <1>0, <2>1 DEF IInv, CallInv, Active, Running, ReadYet, CheckedYet
  <2>3. DiskInv'
    BY <2>1 DEF IInv, DiskInv, WellFormed, Present
  <2>4. CallInv'
    BY <1>0, <2>1 DEF IInv, CallInv, GitMode, Running, LastSource, Sources
  <2>5. ObservationTyped'
    BY <2>1 DEF IInv, ObservationTyped
  <2>6. SourcesInv'
    <3>1. SourcesInv
      BY DEF IInv, ObservationInv
    <3>2. phase' \notin {"before", "admit"}
      BY <2>1
    <3> QED
      BY <1>0, <2>1, <2>2, <3>1, <3>2 DEF SourcesInv, GitMode, PolicyListed, ReadYet
  <2>7. WalkInv'
    <3>1. Selected' = Selected /\ (WalkComplete' <=> WalkComplete) /\ Available' = Available
      BY <2>1 DEF Selected, Census, Names, Tracked, WalkComplete, FilesSeen, Available, HeadTree,
         HeadOf, ValueOf
    <3>2. WalkInv
      BY DEF IInv, ObservationInv
    <3>3. \A b \in Dir \ {Root} : seen[b] # Nothing /\ Parent[b] = a => b \in closed
      \* the walk is in the deepest of the directories it has not left
      <4> SUFFICES ASSUME NEW b \in Dir \ {Root}, seen[b] # Nothing, Parent[b] = a, b \notin closed
                   PROVE  FALSE
        OBVIOUS
      <4>1. Depth[b] <= Depth[a]
        BY <1>0 DEF Inside
      <4>2. Depth[b] = Depth[a] + 1 /\ Depth[a] \in Nat
        BY CaptureAssumption, Facts
      <4> QED
        BY <4>1, <4>2
    <3>4. seen[a].value \subseteq {n \in Node \ {Root} : Parent[n] = a}
      BY <1>0, <3>2 DEF WalkInv
    <3>5. \A n \in seen[a].value \cap Selected : seen[n] # Nothing /\ (n \in Dir => n \in closed)
      BY <1>0, <3>3, <3>4 DEF ToVisit
    <3>6. \A b \in closed' : /\ seen[b] # Nothing
                             /\ \A n \in seen[b].value \cap Selected :
                                  seen[n] # Nothing /\ (n \in Dir => n \in closed')
      BY <1>0, <2>1, <2>2, <3>2, <3>5 DEF WalkInv
    <3>7. phase' # "walk" => Walked'
      <4> SUFFICES ASSUME phase' # "walk" PROVE Walked'
        OBVIOUS
      <4>1. a = Root /\ WalkComplete /\ required \subseteq Available
        BY <1>4, <2>1
      <4>2. \A b \in Dir : seen[b] # Nothing => b \in closed'
        BY <1>0, <2>1, <4>1, RootIsLast
      <4> QED
        BY <2>1, <3>1, <4>1, <4>2 DEF Walked
    <3>8. phase' \in {"walk", "redeleted", "after"}
      BY <2>1
    <3> QED
      BY <2>1, <2>2, <3>1, <3>2, <3>6, <3>7, <3>8 DEF WalkInv
  <2>8. CleanInv'
    <3>1. CleanInv
      BY DEF IInv, ObservationInv
    <3> QED
      BY <1>0, <2>1, <2>2, <3>1 DEF CleanInv, HeadIsIndex, HeadTree, HeadOf, ValueOf, Tracked, Stray
  <2>9. FirstInv'
    BY <2>1 DEF IInv, InstantInv, FirstInv
  <2>10. PivotInv'
    <3>1. PivotInv /\ (Pivoted' => Pivoted)
      BY <2>1, <2>2 DEF IInv, InstantInv, Pivoted, ReadYet, Active
    <3> QED
      BY <1>0, <2>1, <3>1 DEF PivotInv, GitMode, WellFormed, Present, ReadYet
  <2>11. CheckedInv'
    <3>1. 1 \in 1..7 /\ 2 \in 1..7 /\ 3 \in 1..7 /\ 4 \in 1..7 /\ 5 \in 1..7
      OBVIOUS
    <3> QED
      BY <2>2, <3>1 DEF CheckedInv
  <2>12. PolicyInv' /\ ResultInv'
    BY <2>1, <2>2 DEF PolicyInv, ResultInv
  <2>13. CopyInv'
    <3>1. copy = Nothing /\ phase' \notin {"copy", "returned"}
      BY <1>0, <2>1 DEF IInv, InstantInv, CopyInv, Running
    <3> QED
      BY <2>1, <3>1 DEF CopyInv, CopiesAreOfTheInstant
  <2> QED
    BY <2>3, <2>4, <2>5, <2>6, <2>7, <2>8, <2>9, <2>10, <2>11, <2>12, <2>13
       DEF IInv, ObservationInv, InstantInv
<1> QED
  BY <1>1, <1>2, <1>3, <1>4

-----------------------------------------------------------------------------
(* Reading the sources again, and what a capture ends with.                *)

\* The source that is read again now was at the instant what it was before.
LEMMA Confirmed ==
  ASSUME IInv, GitMode, Pivoted, phase = "after", Unmoved(Sources[at])
  PROVE  /\ at = 1 => pivot[Root] = before[Root] /\ PolicyListed
         /\ at = 2 => pivot[Index] = before[Index]
         /\ at = 3 /\ before[Policy] # Nothing => pivot[Policy] = before[Policy]
         /\ at = 4 => pivot[Config] = before[Config] /\ before[Config].value = TRUE
         /\ at = 5 /\ before[Packed] # Nothing => pivot[Packed] = before[Packed]
<1> DEFINE s == Sources[at]
<1>1. /\ Sources = <<Root, Git, Policy, Config, Packed, HEAD, Index>> /\ at \in 1..7
      /\ s \in Source
  BY SourcePositions, Facts DEF IInv, CallInv
<1>2. Now(s) = before[s]
  BY DEF Unmoved
<1>3. /\ WellFormed(disk) /\ WellFormed(pivot)
      /\ \A o \in Object : Was(pivot[o], o, disk)
      /\ \A x \in {Root, Git, Policy, Config, Packed} :
           before[x] # Nothing => Was(before[x], x, pivot)
      /\ Will(before[Index], Index, pivot)
  BY DEF IInv, DiskInv, InstantInv, PivotInv, ReadYet
<1>4. /\ before[Root] # Nothing /\ before[Git] # Nothing /\ before[Config] # Nothing
      /\ disk[Root].stamp = before[Root].stamp => PolicyListed
      /\ before[Index] # Nothing /\ before[Git].stamp <= before[Index].stamp
      /\ disk[Config].stamp = before[Config].stamp => before[Config].value = TRUE
      /\ Was(before[Index], Index, disk)
  BY Facts DEF IInv, ObservationInv, SourcesInv, ReadYet, Active, Running
<1>5. \A x \in Source : x \in Object /\ before[x] \in Reading(x) \cup {Nothing}
  BY Facts DEF IInv, ObservationTyped
<1>6. {Root, Git, Policy, HEAD, Packed, Index, Config} \subseteq Source
  BY Facts
<1>7. s \in {Root, Git, Policy, Config, Packed} /\ before[s] # Nothing =>
        disk[s] = before[s] /\ pivot[s] = before[s]
  <2> SUFFICES ASSUME s \in {Root, Git, Policy, Config, Packed}, before[s] # Nothing
               PROVE  disk[s] = before[s] /\ pivot[s] = before[s]
    OBVIOUS
  <2>1. disk[s] = before[s]
    BY <1>1, <1>2, NowFacts DEF IInv
  <2>2. before[s] \in Reading(s) /\ s \in Object /\ Was(before[s], s, pivot)
        /\ Was(pivot[s], s, disk)
    BY <1>1, <1>3, <1>5
  <2> HIDE DEF s
  <2> QED
    BY <1>3, <2>1, <2>2, Unmoving
<1>8. /\ at = 1 => s = Root
      /\ at = 2 => s = Git
      /\ at = 3 => s = Policy
      /\ at = 4 => s = Config
      /\ at = 5 => s = Packed
  BY <1>1
<1> HIDE DEF s
<1>9. at = 2 => pivot[Index] = before[Index]
  <2> SUFFICES ASSUME at = 2 PROVE pivot[Index] = before[Index]
    OBVIOUS
  <2>1. disk[Git] = before[Git] /\ pivot[Git] = before[Git]
    BY <1>4, <1>7, <1>8
  <2>2. disk[Git].stamp = disk[Index].stamp /\ pivot[Git].stamp = pivot[Index].stamp
    BY <1>3 DEF WellFormed
  <2>3. before[Index].stamp \in Nat /\ before[Git].stamp \in Nat
    BY <1>4, <1>5, <1>6, Stamps
  <2>4. before[Index].stamp <= disk[Index].stamp
    BY <1>4 DEF Was
  <2>5. before[Index].stamp = pivot[Index].stamp
    BY <1>4, <2>1, <2>2, <2>3, <2>4
  <2> QED
    BY <1>3, <2>5 DEF Will
<1>10. at = 1 => pivot[Root] = before[Root] /\ PolicyListed
  BY <1>4, <1>7, <1>8
<1>11. at = 3 /\ before[Policy] # Nothing => pivot[Policy] = before[Policy]
  BY <1>7, <1>8
<1>12. at = 4 => pivot[Config] = before[Config] /\ before[Config].value = TRUE
  BY <1>4, <1>7, <1>8
<1>13. at = 5 /\ before[Packed] # Nothing => pivot[Packed] = before[Packed]
  BY <1>7, <1>8
<1> QED
  BY <1>9, <1>10, <1>11, <1>12, <1>13

\* The next source is to be read again.
LEMMA AfterStep ==
  ASSUME IInv, phase = "after", UNCHANGED target, Unmoved(Sources[at]), at < LastSource,
         at' = at + 1, Continue("after"), UNCHANGED <<before, census, ids, seen, closed>>
  PROVE  IInv'
<1> USE DEF target, call, outcome, Continue
<1>1. GitMode /\ LastSource = 7 /\ at \in 1..6 /\ mode \in {"clean", "live"}
  <2>1. mode \in Modes /\ at \in 1..LastSource /\ LastSource \in {1, 7}
    BY SourcePositions DEF IInv, CallInv
  <2>2. mode \notin {"files", "policy"}
    BY <2>1, SourcePositions
  <2>3. GitMode
    BY <2>1, <2>2 DEF Modes, GitMode
  <2> QED
    BY <2>1, <2>3, SourcePositions DEF GitMode
<1>2. /\ Active /\ Active' /\ phase' = "after"
      /\ \A k \in 1..7 : ReadYet(k) /\ ReadYet(k)' /\ (CheckedYet(k)' <=> k <= at)
      /\ \A k \in 1..7 : CheckedYet(k) <=> k < at
  BY <1>1 DEF Active, Running, ReadYet, CheckedYet
<1>3. DiskInv'
  BY DEF IInv, DiskInv, WellFormed, Present
<1>4. CallInv'
  <2>1. at' \in 1..7 /\ LastSource' = LastSource
    BY <1>1 DEF LastSource, Sources
  <2> QED
    BY <1>1, <2>1 DEF IInv, CallInv, GitMode, Running
<1>5. ObservationTyped'
  BY DEF IInv, ObservationTyped
<1>6. SourcesInv'
  <2>1. SourcesInv
    BY DEF IInv, ObservationInv
  <2> QED
    BY <2>1 DEF SourcesInv, GitMode, PolicyListed, ReadYet, Active
<1>7. WalkInv' /\ CleanInv'
  BY DEF IInv, ObservationInv, WalkInv, CleanInv, Active, Unwalked, Walked, WalkComplete,
     Available, FilesSeen, Selected, Census, Names, Tracked, HeadTree, HeadOf, ValueOf,
     HeadIsIndex, Stray
<1>8. FirstInv'
  BY DEF IInv, InstantInv, FirstInv
<1>9. PivotInv'
  <2>1. PivotInv /\ (Pivoted' => Pivoted)
    BY <1>2 DEF IInv, InstantInv, Pivoted, ReadYet
  <2> QED
    BY <2>1 DEF PivotInv, GitMode, WellFormed, Present, ReadYet
<1>10. CheckedInv'
  <2> SUFFICES ASSUME Pivoted' PROVE CheckedInv'
    BY DEF CheckedInv
  <2>1. Pivoted /\ CheckedInv
    BY <1>2 DEF IInv, InstantInv, Pivoted, ReadYet
  <2>2. 1 \in 1..7 /\ 2 \in 1..7 /\ 3 \in 1..7 /\ 4 \in 1..7 /\ 5 \in 1..7
    OBVIOUS
  <2>3. PolicyListed' <=> PolicyListed
    BY DEF PolicyListed
  <2>4. 1 <= at => pivot[Root] = before[Root] /\ PolicyListed
    BY <1>1, <1>2, <2>1, <2>2, Confirmed DEF CheckedInv
  <2>5. 2 <= at => pivot[Index] = before[Index]
    BY <1>1, <1>2, <2>1, <2>2, Confirmed DEF CheckedInv
  <2>6. 3 <= at /\ before[Policy] # Nothing => pivot[Policy] = before[Policy]
    BY <1>1, <1>2, <2>1, <2>2, Confirmed DEF CheckedInv
  <2>7. 4 <= at => pivot[Config] = before[Config] /\ before[Config].value = TRUE
    <3> SUFFICES ASSUME 4 <= at PROVE pivot[Config] = before[Config] /\ before[Config].value = TRUE
      OBVIOUS
    <3>0. at = 4 \/ 4 < at
      BY <1>1
    <3>1. CASE at = 4
      BY <1>1, <2>1, <3>1, Confirmed
    <3>2. CASE 4 < at
      <4>1. CheckedYet(4)
        BY <1>2, <2>2, <3>2
      <4> QED
        BY <1>1, <2>1, <4>1 DEF CheckedInv
    <3> QED
      BY <3>0, <3>1, <3>2
  <2>8. 5 <= at /\ before[Packed] # Nothing => pivot[Packed] = before[Packed]
    BY <1>1, <1>2, <2>1, <2>2, Confirmed DEF CheckedInv
  <2> QED
    BY <1>2, <2>2, <2>3, <2>4, <2>5, <2>6, <2>7, <2>8 DEF CheckedInv
<1>11. PolicyInv' /\ ResultInv'
  BY <1>1, <1>2 DEF PolicyInv, ResultInv
<1>12. CopyInv'
  <2>1. copy = Nothing
    BY DEF IInv, InstantInv, CopyInv, Running
  <2> QED
    BY <1>2, <2>1 DEF CopyInv, CopiesAreOfTheInstant
<1> QED
  BY <1>3, <1>4, <1>5, <1>6, <1>7, <1>8, <1>9, <1>10, <1>11, <1>12
     DEF IInv, ObservationInv, InstantInv

\* All sources are as they were, and what is copied and returned is settled.
LEMMA EndStep ==
  ASSUME IInv, CopyInv',
         phase = "copy" \/ (/\ phase = "after" /\ at = LastSource
                            /\ mode # "policy" => first # Nothing /\ first.walked = seen),
         (phase' = "copy" /\ Repeated) \/ (phase' = "returned" /\ answer' = Reported),
         reason' \in Reasons,
         UNCHANGED <<target, call, attempt, first, observation, pivot, since>>
  PROVE  IInv'
<1> USE DEF target, call, observation
<1>1. /\ Active /\ Active'
      /\ \A k \in 1..7 : ReadYet(k) /\ ReadYet(k)'
      /\ GitMode => \A k \in 1..6 : CheckedYet(k)
  BY SourcePositions DEF Active, Running, ReadYet, CheckedYet
<1>2. DiskInv'
  BY DEF IInv, DiskInv, WellFormed, Present
<1>3. CallInv'
  BY DEF IInv, CallInv, GitMode, Running, LastSource, Sources, Repeated, Reasons
<1>4. ObservationTyped'
  BY DEF IInv, ObservationTyped
<1>5. SourcesInv'
  <2>1. SourcesInv
    BY DEF IInv, ObservationInv
  <2> QED
    BY <1>1, <2>1 DEF SourcesInv, GitMode, PolicyListed, ReadYet
<1>6. WalkInv' /\ CleanInv'
  BY <1>1 DEF IInv, ObservationInv, WalkInv, CleanInv, Unwalked, Walked, WalkComplete,
     Available, FilesSeen, Selected, Census, Names, Tracked, HeadTree, HeadOf, ValueOf,
     HeadIsIndex, Stray
<1>7. FirstInv'
  BY DEF IInv, InstantInv, FirstInv
<1>8. (Pivoted' => Pivoted) /\ PivotInv /\ CheckedInv
  BY <1>1 DEF IInv, InstantInv, Pivoted, ReadYet
<1>9. PivotInv'
  BY <1>8 DEF PivotInv, GitMode, WellFormed, Present, ReadYet
<1>10. CheckedInv'
  <2>1. 1 \in 1..6 /\ 2 \in 1..6 /\ 3 \in 1..6 /\ 4 \in 1..6 /\ 5 \in 1..6
    OBVIOUS
  <2>2. PolicyListed' <=> PolicyListed
    BY DEF PolicyListed
  <2> QED
    BY <1>1, <1>8, <2>1, <2>2 DEF CheckedInv, GitMode
<1>11. PolicyInv'
  BY DEF IInv, InstantInv, PolicyInv, CallInv, Repeated, Present
<1>12. ResultInv'
  <2>1. mode # "policy" => first # Nothing /\ first.walked = seen
    BY DEF IInv, InstantInv, ResultInv
  <2>2. Reported' = Reported
    BY DEF Reported, HeadTree, HeadOf, ValueOf, PolicyRead, FilesSeen
  <2> QED
    BY <2>1, <2>2 DEF ResultInv
<1> QED
  BY <1>2, <1>3, <1>4, <1>5, <1>6, <1>7, <1>9, <1>10, <1>11, <1>12
     DEF IInv, ObservationInv, InstantInv

LEMMA ReadAfterStep == ASSUME IInv, ReadAfter PROVE IInv'
<1>0. /\ phase = "after" /\ phase \in Running \ {"copy"} /\ UNCHANGED target
      /\ at \in 1..LastSource /\ LastSource \in {1, 7} /\ copy = Nothing
  BY SourcePositions DEF ReadAfter, Running, IInv, CallInv, InstantInv, CopyInv
<1>1. CASE ~Unmoved(Sources[at])
  BY <1>0, <1>1, RaiseStep DEF ReadAfter, Reasons
<1>2. CASE Unmoved(Sources[at]) /\ at < LastSource
  <2>1. at' = at + 1 /\ Continue("after") /\ UNCHANGED <<before, census, ids, seen, closed>>
    BY <1>2 DEF ReadAfter
  <2> QED
    BY <1>0, <1>2, <2>1, AfterStep
<1>3. CASE Unmoved(Sources[at]) /\ ~(at < LastSource)
  <2>0. at = LastSource
    BY <1>0, <1>3
  <2>1. CASE mode = "policy"
    <3>1. Finish("returned", "none", Reported)
      BY <1>3, <2>1 DEF ReadAfter
    <3>2. CopyInv'
      BY <1>0, <2>1, <3>1 DEF CopyInv, CopiesAreOfTheInstant, Finish, Running, Repeated, call
    <3> QED
      BY <1>0, <2>0, <2>1, <3>1, <3>2, EndStep DEF Finish, Reasons
  <2>2. CASE mode # "policy" /\ first = Nothing
    <3>1. /\ first' = Observation /\ StartObservation
          /\ UNCHANGED <<call, attempt, outcome, pivot, since>>
      BY <1>3, <2>2 DEF ReadAfter
    <3>2. first'.walked = seen
      BY <3>1 DEF Observation
    <3>3. FirstInv'
      <4>1. \A n \in Node : /\ seen[n] \in Reading(n) \cup {Nothing}
                            /\ seen[n] # Nothing => Was(seen[n], n, disk)
        BY DEF IInv, ObservationTyped, ObservationInv, WalkInv
      <4> QED
        BY <1>0, <2>2, <3>1, <3>2, <4>1 DEF FirstInv, call, target
    <3> QED
      BY <1>0, <3>1, <3>3, StartStep DEF IInv, CallInv, call, outcome
  <2>3. CASE mode # "policy" /\ first # Nothing /\ Same(first, Observation)
    <3>1. first.walked = seen
      BY <2>3 DEF Same, Observation
    <3>2. CASE Repeated /\ required # {}
      <4>1. StartCopy
        BY <1>3, <2>3, <3>2 DEF ReadAfter
      <4>2. copy' \in Tree /\ copy' # Nothing /\ DOMAIN copy' = {}
        <5>1. copy' = [q \in {} |-> Nothing] /\ {} \in SUBSET File
          BY <4>1 DEF StartCopy
        <5>2. copy' \in [{} -> Content]
          BY <5>1
        <5>3. copy' \in Tree
          BY <5>1, <5>2, Trees
        <5> QED
          BY <5>1, <5>3, CaptureAssumption
      <4>3. CopyInv'
        BY <4>1, <4>2 DEF CopyInv, CopiesAreOfTheInstant, StartCopy, Running
      <4> QED
        BY <1>0, <2>0, <2>3, <3>1, <3>2, <4>1, <4>3, EndStep
           DEF StartCopy, IInv, CallInv, Reasons
    <3>3. CASE ~(Repeated /\ required # {})
      <4>1. Finish("returned", "none", Reported)
        BY <1>3, <2>3, <3>3 DEF ReadAfter
      <4>2. CopyInv'
        BY <1>0, <3>3, <4>1 DEF CopyInv, CopiesAreOfTheInstant, Finish, Running, Repeated, call
      <4> QED
        BY <1>0, <2>0, <2>3, <3>1, <4>1, <4>2, EndStep DEF Finish, Reasons
    <3> QED
      BY <3>2, <3>3
  <2>4. CASE mode # "policy" /\ first # Nothing /\ ~Same(first, Observation)
    <3>1. Raise("changed")
      BY <1>3, <2>4 DEF ReadAfter
    <3> QED
      BY <1>0, <3>1, RaiseStep DEF Reasons
  <2> QED
    BY <2>1, <2>2, <2>3, <2>4
<1> QED
  BY <1>1, <1>2, <1>3

\* What the second walk read is what was there at the instant.
LEMMA SeenWas ==
  ASSUME IInv, Pivoted, first.walked = seen, NEW n \in Node, seen[n] # Nothing
  PROVE  pivot[n] = seen[n] /\ (n # Root => Present(pivot, n))
<1>1. ASSUME NEW k \in Node, seen[k] # Nothing PROVE pivot[k] = seen[k]
  <2>1. k \in Object /\ seen[k] \in Reading(k) /\ pivot[k] \in Reading(k)
    BY <1>1, Facts DEF IInv, ObservationTyped, InstantInv, PivotInv, WellFormed
  <2>2. Was(seen[k], k, pivot) /\ Will(seen[k], k, pivot)
    BY <1>1 DEF IInv, InstantInv, PivotInv
  <2> QED
    BY <2>1, <2>2, Sandwich
<1>2. ASSUME n # Root PROVE Present(pivot, n)
  <2>1. n \in Node \ {Root} /\ Parent[n] \in Node
    BY <1>2, Facts
  <2>2. seen[Parent[n]] # Nothing /\ n \in seen[Parent[n]].value
    BY <2>1 DEF Pivoted, IInv, ObservationInv, WalkInv
  <2> QED
    BY <1>1, <2>1, <2>2 DEF Present
<1> QED
  BY <1>1, <1>2

\* In a capture with copies, or one that returns, the instant has come.
LEMMA EndFacts ==
  ASSUME IInv, phase \in {"copy", "returned"}, mode # "policy"
  PROVE  Pivoted /\ first.walked = seen /\ Walked
<1>1. \A k \in 1..7 : ReadYet(k)
  BY DEF ReadYet
<1>2. 1 \in 1..7 /\ 6 \in 1..7 /\ Active
  BY DEF Active, Running
<1> QED
  BY <1>1, <1>2 DEF Pivoted, IInv, InstantInv, ResultInv, ObservationInv, WalkInv

LEMMA CopyFileStep == ASSUME IInv, NEW p \in File, CopyFile(p) PROVE IInv'
<1>1. /\ phase = "copy" /\ phase' = "copy" /\ mode \in {"live", "files"} /\ Repeated
      /\ p \in required /\ p \notin DOMAIN copy
      /\ copy' = [q \in DOMAIN copy \cup {p} |-> IF q = p THEN seen[p].value ELSE copy[q]]
      /\ UNCHANGED <<target, call, phase, attempt, first, observation, answer, reason>>
      /\ UNCHANGED <<pivot, since>>
  BY DEF CopyFile, IInv, CallInv, Repeated
<1>2. Pivoted /\ first.walked = seen /\ Walked
  BY <1>1, EndFacts
<1>3. p \in Node /\ p # Root /\ seen[p] # Nothing
  BY <1>1, <1>2, Facts DEF Walked, Available, FilesSeen
<1>4. pivot[p] = seen[p] /\ p \in FilesIn(pivot)
  BY <1>2, <1>3, SeenWas DEF FilesIn
<1>5. seen[p].value \in Content
  <2>1. seen[p] \in Reading(p)
    BY <1>3 DEF IInv, ObservationTyped
  <2>2. seen[p] \in [value : Content, stamp : Nat]
    BY <2>1, Readings
  <2> QED
    BY <2>2
<1>6. copy \in Tree /\ copy # Nothing /\ DOMAIN copy \subseteq required /\ CopiesAreOfTheInstant
  BY <1>1 DEF IInv, InstantInv, CopyInv
<1>7. /\ DOMAIN copy' = DOMAIN copy \cup {p} /\ copy'[p] = seen[p].value
      /\ \A q \in DOMAIN copy : copy'[q] = copy[q]
  BY <1>1
<1>8. copy' \in Tree
  <2>1. DOMAIN copy \in SUBSET File /\ \A q \in DOMAIN copy : copy[q] \in Content
    BY <1>6, Trees
  <2>2. DOMAIN copy \cup {p} \in SUBSET File /\ copy' \in [DOMAIN copy \cup {p} -> Content]
    BY <1>1, <1>5, <2>1
  <2> QED
    BY <2>2, Trees
<1>9. copy' # Nothing
  BY <1>8, CaptureAssumption
<1>10. CopiesAreOfTheInstant'
  <2>1. pivot # Nothing => \A q \in DOMAIN copy' : q \in FilesIn(pivot) /\ copy'[q] = pivot[q].value
    BY <1>4, <1>6, <1>7 DEF CopiesAreOfTheInstant
  <2> QED
    BY <1>1, <2>1 DEF CopiesAreOfTheInstant, FilesIn, Present
<1>11. CopyInv'
  BY <1>1, <1>6, <1>7, <1>8, <1>9, <1>10 DEF CopyInv, call
<1>12. reason' \in Reasons
  BY <1>1 DEF IInv, CallInv, Reasons
<1> QED
  BY <1>1, <1>11, <1>12, EndStep DEF call

LEMMA CopyDoneStep == ASSUME IInv, CopyDone PROVE IInv'
<1>1. /\ phase = "copy" /\ DOMAIN copy = required /\ phase' = "returned"
      /\ Finish("returned", "none", Reported) /\ UNCHANGED target
  BY DEF CopyDone, Finish
<1>2. copy \in Tree /\ copy # Nothing /\ CopiesAreOfTheInstant
  BY <1>1 DEF IInv, InstantInv, CopyInv
<1>3. CopyInv'
  BY <1>1, <1>2 DEF CopyInv, CopiesAreOfTheInstant, Finish, call, FilesIn, Present, Running
<1> QED
  BY <1>1, <1>3, EndStep DEF Finish, Reasons

LEMMA CopyFailsStep == ASSUME IInv, CopyFails PROVE IInv'
BY RefuseStep DEF CopyFails

LEMMA LateStep == ASSUME IInv, Late PROVE IInv'
BY RaiseStep DEF Late, Reasons

-----------------------------------------------------------------------------
(* The invariant.                                                          *)

LEMMA InitStep == ASSUME Init PROVE IInv
<1> USE DEF Init
<1>1. ~Active /\ ~Pivoted
  BY DEF Active, Running, Pivoted
<1>2. disk \in Targets
  OBVIOUS
<1>3. \A n \in Node : seen[n] = Nothing
  OBVIOUS
<1>4. \A s \in Source : before[s] = Nothing
  OBVIOUS
<1>5. DiskInv
  <2>1. disk = [o \in Object |-> disk[o]] /\ \A o \in Object : disk[o] \in Reading(o) /\ disk[o].stamp = 0
    BY TargetsAssumption
  <2>2. Git \in Object /\ Index \in Object /\ MaxChanges \in Nat
    BY Facts, CaptureAssumption
  <2>3. /\ \A a \in Dir : disk[a].value \subseteq {n \in Node \ {Root} : Parent[n] = a}
        /\ \A a \in Dir \ {Root} : disk[a].value # {} => Present(disk, a)
    BY TargetsAssumption
  <2>4. disk[Git].stamp = disk[Index].stamp
    BY <2>1, <2>2
  <2>5. clock \in 0..MaxChanges /\ \A o \in Object : disk[o].stamp <= clock
    BY <2>1, <2>2
  <2>6. WellFormed(disk)
    BY <2>1, <2>3, <2>4 DEF WellFormed
  <2> QED
    BY <2>5, <2>6 DEF DiskInv
<1>6. CallInv
  BY SourcePositions DEF CallInv, Modes, Running, GitMode
<1>7. ObservationTyped
  <2>1. before = [o \in Source |-> before[o]] /\ seen = [n \in Node |-> seen[n]]
    OBVIOUS
  <2>2. ids \in [Node \cup {Git} -> 0..clock \cup {Nothing}]
    OBVIOUS
  <2>3. census \in [deleted : SUBSET File, untracked : SUBSET File] /\ closed \subseteq Dir
    OBVIOUS
  <2> QED
    BY <1>3, <1>4, <2>1, <2>2, <2>3 DEF ObservationTyped
<1>8. SourcesInv /\ WalkInv /\ CleanInv
  BY <1>1, <1>3, <1>4, Facts DEF SourcesInv, WalkInv, CleanInv
<1>9. FirstInv /\ PivotInv /\ CheckedInv
  BY <1>1 DEF FirstInv, PivotInv, CheckedInv
<1>10. PolicyInv /\ ResultInv /\ CopyInv
  BY DEF PolicyInv, ResultInv, CopyInv, CopiesAreOfTheInstant
<1> QED
  BY <1>5, <1>6, <1>7, <1>8, <1>9, <1>10 DEF IInv, ObservationInv, InstantInv

LEMMA ObserveStep == ASSUME IInv, Observe PROVE IInv'
BY ReadBeforeStep, ReadPolicyStep, AdmitStep, ListIndexStep, ListDeletedStep, ListUntrackedStep,
   EnterStep, LeaveStep, ReadLeafStep, ReadAfterStep, LateStep, CopyFileStep, CopyDoneStep,
   CopyFailsStep DEF Observe

LEMMA StutterStep == ASSUME IInv, UNCHANGED vars PROVE IInv'
<1> USE DEF vars, target, call, observation, outcome
<1>1. DiskInv'
  BY DEF IInv, DiskInv, WellFormed, Present
<1>2. CallInv'
  BY DEF IInv, CallInv, LastSource, Sources, Repeated, GitMode
<1>3. ObservationTyped'
  BY DEF IInv, ObservationTyped
<1>4. SourcesInv'
  BY DEF IInv, ObservationInv, SourcesInv, Active, GitMode, ReadYet, PolicyListed, Was
<1>5. WalkInv' /\ CleanInv'
  BY DEF IInv, ObservationInv, WalkInv, CleanInv, Active, Unwalked, Walked, WalkComplete,
     Available, FilesSeen, Selected, Census, Names, Tracked, HeadTree, HeadOf, ValueOf,
     HeadIsIndex, Stray, Was
<1>6. FirstInv'
  BY DEF IInv, InstantInv, FirstInv, Was
<1>7. PivotInv' /\ CheckedInv'
  BY DEF IInv, InstantInv, PivotInv, CheckedInv, Pivoted, Active, ReadYet, GitMode, CheckedYet,
     PolicyListed, WellFormed, Present, Was, Will
<1>8. PolicyInv' /\ ResultInv'
  BY DEF IInv, InstantInv, PolicyInv, ResultInv, Present, Reported, HeadTree, HeadOf, ValueOf,
     PolicyRead, FilesSeen
<1>9. CopyInv'
  BY DEF IInv, InstantInv, CopyInv, CopiesAreOfTheInstant, Repeated, FilesIn, Present
<1> QED
  BY <1>1, <1>2, <1>3, <1>4, <1>5, <1>6, <1>7, <1>8, <1>9 DEF IInv, ObservationInv, InstantInv

\* Every step of a capture, and of whoever works in the target, keeps the
\* invariant.
LEMMA InvStep == ASSUME IInv, [Next]_vars PROVE IInv'
<1>1. CASE Observe
  BY <1>1, ObserveStep
<1>2. CASE Work
  BY <1>2, WorkStep, WorkKeeps DEF IInv
<1>3. CASE \E m \in Modes : Call(m)
  BY <1>3, CallStep
<1>4. CASE UNCHANGED vars
  BY <1>4, StutterStep
<1> QED
  BY <1>1, <1>2, <1>3, <1>4 DEF Next

\* The stamps and readings of a capture in progress bound one another as IInv
\* says, in every state.
THEOREM Inductive == Spec => []IInv
BY InitStep, InvStep, PTL DEF Spec

-----------------------------------------------------------------------------
(* What it shows.                                                          *)

\* Every variable has its type: readings carry the values of their objects,
\* stamps and history lie within the clock, a position within the sources.
THEOREM TypeCorrect == Spec => []TypeOK
<1>1. ASSUME IInv PROVE TypeOK
  <2>1. disk = [o \in Object |-> disk[o]] /\ \A o \in Object : disk[o] \in Reading(o)
    BY <1>1 DEF IInv, DiskInv, WellFormed
  <2>2. clock \in 0..MaxChanges
    BY <1>1 DEF IInv, DiskInv
  <2>3. DOMAIN before = Source
    BY <1>1 DEF IInv, ObservationTyped
  <2>4. copy \in Tree \cup {Nothing}
    BY <1>1 DEF IInv, InstantInv, CopyInv
  <2> QED
    BY <1>1, <2>1, <2>2, <2>3, <2>4 DEF TypeOK, IInv, CallInv, ObservationTyped
<1> QED
  BY <1>1, Inductive, PTL

\* A clean capture, and one of a plain directory, have walked all there was at
\* the instant: of what was missed, what is nearest the root is in a directory
\* that was walked.
LEMMA AllSeen ==
  ASSUME IInv, Pivoted, first.walked = seen, Walked, mode \in {"clean", "files"}
  PROVE  \A n \in Node \ {Root} : Present(pivot, n) => seen[n] # Nothing
<1> DEFINE missed == {n \in Node \ {Root} : Present(pivot, n) /\ seen[n] = Nothing}
           depths == {Depth[n] : n \in missed}
<1> SUFFICES ASSUME missed # {} PROVE FALSE
  OBVIOUS
<1>1. depths \in SUBSET Nat /\ depths # {}
  BY CaptureAssumption
<1>2. PICK d \in depths : \A e \in depths : <<e, d>> \notin OpToRel(<, Nat)
  <2> HIDE DEF depths
  <2> QED
    BY <1>1, WFMin, NatLessThanWellFounded, Zenon
<1>3. PICK n \in missed : Depth[n] = d
  OBVIOUS
<1> DEFINE m == Parent[n]
<1>4. /\ m \in Dir /\ m \in Node /\ Depth[n] = Depth[m] + 1 /\ Depth[m] \in Nat
      /\ n \in pivot[m].value
  BY CaptureAssumption, Facts DEF Present
<1>5. seen[m] # Nothing
  <2>1. CASE m = Root
    BY <1>4, <2>1 DEF Walked, Pivoted, IInv, ObservationInv, WalkInv
  <2>2. CASE m # Root
    <3>1. Present(pivot, m)
      BY <1>4, <2>2 DEF IInv, InstantInv, PivotInv, WellFormed
    <3>2. m \notin missed
      <4> SUFFICES ASSUME m \in missed PROVE FALSE
        OBVIOUS
      <4>1. Depth[m] \in depths /\ Depth[m] < d
        BY <1>3, <1>4
      <4>2. <<Depth[m], d>> \in OpToRel(<, Nat)
        BY <1>1, <1>4, <4>1 DEF OpToRel
      <4> QED
        BY <1>2, <4>1, <4>2
    <3> QED
      BY <1>4, <2>2, <3>1, <3>2
  <2> QED
    BY <2>1, <2>2
<1>6. m \in closed /\ pivot[m] = seen[m] /\ Selected = Node
  BY <1>4, <1>5, SeenWas DEF Walked, Selected
<1>7. seen[n] # Nothing
  BY <1>3, <1>4, <1>6 DEF Pivoted, IInv, ObservationInv, WalkInv
<1> QED
  BY <1>3, <1>7

\* What the sources say at the end is what they were at the instant.
LEMMA SourcesWere ==
  ASSUME IInv, phase = "returned", GitMode
  PROVE  /\ HeadTree = View(pivot).head
         /\ before[Index] # Nothing /\ before[Index] = pivot[Index]
         /\ View(pivot).config = TRUE
         /\ ValueOf(before[Policy]) = View(pivot).policy
<1>1. Pivoted /\ GitMode /\ Active
  BY EndFacts DEF GitMode, Active
<1>2. WellFormed(pivot) /\ \A o \in Object : pivot[o] # Nothing
  BY <1>1, Stamps DEF IInv, InstantInv, PivotInv, WellFormed
<1>3. /\ before[HEAD] = IF pivot[HEAD].value = Nothing THEN Nothing ELSE pivot[HEAD]
      /\ before[HEAD] = Nothing <=> before[Packed] # Nothing
      /\ before[Root] # Nothing /\ before[Index] # Nothing
  BY <1>1 DEF IInv, InstantInv, PivotInv, ObservationInv, SourcesInv, ReadYet
<1>4. /\ pivot[Root] = before[Root] /\ PolicyListed
      /\ pivot[Index] = before[Index]
      /\ before[Policy] # Nothing => pivot[Policy] = before[Policy]
      /\ before[Packed] # Nothing => pivot[Packed] = before[Packed]
      /\ pivot[Config] = before[Config]
  BY <1>1 DEF IInv, InstantInv, CheckedInv, CheckedYet
<1>5. before[Config].value = TRUE
  BY <1>1 DEF IInv, InstantInv, CheckedInv, CheckedYet
<1>6. HEAD \in Object /\ Packed \in Object /\ Policy \in Object
  BY Facts
<1>7. HeadTree = View(pivot).head
  <2>1. CASE pivot[HEAD].value = Nothing
    <3>1. before[HEAD] = Nothing /\ before[Packed] # Nothing /\ pivot[Packed] = before[Packed]
      BY <1>3, <1>4, <2>1
    <3> QED
      BY <2>1, <3>1 DEF View, HeadTree, HeadOf, ValueOf
  <2>2. CASE pivot[HEAD].value # Nothing
    <3>1. before[HEAD] = pivot[HEAD] /\ before[HEAD] # Nothing
      BY <1>2, <1>3, <1>6, <2>2
    <3> QED
      BY <2>2, <3>1 DEF View, HeadTree, HeadOf, ValueOf
  <2> QED
    BY <2>1, <2>2
<1>8. ValueOf(before[Policy]) = View(pivot).policy
  <2>1. Present(pivot, Policy) <=> before[Policy] # Nothing
    BY <1>4, Facts DEF Present, PolicyListed
  <2> QED
    BY <1>4, <2>1 DEF View, PolicyIn, ValueOf
<1>9. View(pivot).config = TRUE
  BY <1>4, <1>5 DEF View
<1> QED
  BY <1>3, <1>4, <1>7, <1>8, <1>9

\* The files a capture reports were there at the instant, with these contents;
\* a clean one, and one of a plain directory, reports all that were.
LEMMA FilesWere ==
  ASSUME IInv, phase = "returned"
  PROVE  /\ FilesSeen \subseteq FilesIn(pivot)
         /\ \A p \in FilesSeen : seen[p].value = pivot[p].value
         /\ mode \in {"clean", "files"} => FilesSeen = FilesIn(pivot)
<1>1. CASE mode = "policy"
  <2>1. FilesSeen = {}
    BY <1>1, Facts DEF IInv, ObservationInv, WalkInv, Unwalked, FilesSeen, Active
  <2> QED
    BY <1>1, <2>1
<1>2. CASE mode # "policy"
  <2>1. Pivoted /\ first.walked = seen /\ Walked
    BY <1>2, EndFacts
  <2>2. \A p \in File : p \in Node \ {Root}
    BY Facts
  <2>3. \A p \in FilesSeen : p \in FilesIn(pivot) /\ seen[p] = pivot[p]
    BY <2>1, <2>2, SeenWas DEF FilesSeen, FilesIn
  <2>4. mode \in {"clean", "files"} => FilesIn(pivot) \subseteq FilesSeen
    BY <2>1, <2>2, AllSeen DEF FilesSeen, FilesIn
  <2> QED
    BY <2>3, <2>4
<1> QED
  BY <1>1, <1>2

\* What a capture returns is the target of one instant, the one at which its
\* second observation read the branch (a plain directory: its root).
THEOREM InstantReported == Spec => []CaptureIsAnInstant
<1>1. ASSUME IInv PROVE CaptureIsAnInstant
  <2> SUFFICES ASSUME phase = "returned"
               PROVE  LET was == View(pivot)
                      IN  /\ mode \in {"clean", "live"} => /\ answer.head = was.head
                                                          /\ answer.index = was.index
                                                          /\ was.config
                          /\ answer.policy = was.policy
                          /\ DOMAIN answer.files \subseteq DOMAIN was.files
                          /\ mode \in {"clean", "files"} => DOMAIN answer.files = DOMAIN was.files
                          /\ \A p \in DOMAIN answer.files : answer.files[p] = was.files[p]
    BY DEF CaptureIsAnInstant
  <2>1. /\ answer.head = HeadTree /\ answer.index = ValueOf(before[Index])
        /\ answer.policy = PolicyRead
        /\ DOMAIN answer.files = FilesSeen
        /\ \A p \in FilesSeen : answer.files[p] = seen[p].value
    <3>1. answer = Reported
      BY <1>1 DEF IInv, InstantInv, ResultInv
    <3> QED
      BY <3>1 DEF Reported
  <2>2. /\ DOMAIN View(pivot).files = FilesIn(pivot)
        /\ \A p \in FilesIn(pivot) : View(pivot).files[p] = pivot[p].value
    BY DEF View, FilesOf
  <2>3. ASSUME mode \in {"clean", "live"}
        PROVE  answer.head = View(pivot).head /\ answer.index = View(pivot).index
               /\ View(pivot).config
    BY <1>1, <2>1, <2>3, SourcesWere DEF GitMode, View, ValueOf
  <2>4. answer.policy = View(pivot).policy
    <3>1. CASE GitMode
      BY <1>1, <2>1, <3>1, SourcesWere DEF PolicyRead, GitMode
    <3>2. CASE mode = "policy"
      <4>1. /\ pivot[Policy] # Nothing
            /\ before[Policy] = IF Present(pivot, Policy) THEN pivot[Policy] ELSE Nothing
        BY <1>1, <3>2 DEF IInv, InstantInv, PolicyInv
      <4>2. View(pivot).policy = IF Present(pivot, Policy) THEN pivot[Policy].value ELSE Nothing
        BY DEF View, PolicyIn
      <4>3. answer.policy = ValueOf(before[Policy])
        BY <2>1, <3>2 DEF PolicyRead
      <4>4. CASE Present(pivot, Policy)
        BY <4>1, <4>2, <4>3, <4>4 DEF ValueOf
      <4>5. CASE ~Present(pivot, Policy)
        BY <4>1, <4>2, <4>3, <4>5 DEF ValueOf
      <4> QED
        BY <4>4, <4>5
    <3>3. CASE mode = "files"
      <4>1. Pivoted /\ first.walked = seen /\ Walked
        BY <1>1, <3>3, EndFacts
      <4>2. Policy \in Node \ {Root} /\ Policy \in Node
        BY Facts
      <4>3. View(pivot).policy = IF Present(pivot, Policy) THEN pivot[Policy].value ELSE Nothing
        BY DEF View, PolicyIn
      <4>4. answer.policy = ValueOf(seen[Policy])
        BY <2>1, <3>3 DEF PolicyRead
      <4>5. CASE Present(pivot, Policy)
        <5>1. seen[Policy] # Nothing
          BY <1>1, <3>3, <4>1, <4>2, <4>5, AllSeen
        <5>2. pivot[Policy] = seen[Policy]
          BY <1>1, <4>1, <4>2, <5>1, SeenWas
        <5> QED
          BY <4>3, <4>4, <4>5, <5>1, <5>2 DEF ValueOf
      <4>6. CASE ~Present(pivot, Policy)
        <5>1. seen[Policy] = Nothing
          BY <1>1, <4>1, <4>2, <4>6, SeenWas
        <5> QED
          BY <4>3, <4>4, <4>6, <5>1 DEF ValueOf
      <4> QED
        BY <4>5, <4>6
    <3> QED
      BY <1>1, <3>1, <3>2, <3>3 DEF IInv, CallInv, Modes, GitMode
  <2> QED
    BY <1>1, <2>1, <2>2, <2>3, <2>4, FilesWere
<1> QED
  BY <1>1, Inductive, PTL

\* The copies a capture leaves are of the files it was asked for, as they were at
\* the instant it reports, however the target changes while they are made.
THEOREM CopiesOfInstant == Spec => []CopiesAreOfTheInstant
<1>1. IInv => CopiesAreOfTheInstant
  BY DEF IInv, InstantInv, CopyInv
<1> QED
  BY <1>1, Inductive, PTL

\* When a clean capture returns, there was an instant during it at which work
\* tree, index and HEAD agreed in everything and no other directory was there.
THEOREM CleanWas == Spec => []CleanWasClean
<1>1. ASSUME IInv PROVE CleanWasClean
  <2> SUFFICES ASSUME phase = "returned", mode = "clean" PROVE Clean(View(pivot))
    BY DEF CleanWasClean
  <2> DEFINE v == View(pivot)
  <2>1. Pivoted /\ first.walked = seen /\ Walked
    BY <1>1, EndFacts
  <2>2. v.index = Tracked /\ v.head = HeadTree
    BY <1>1, SourcesWere DEF GitMode, View, Tracked
  <2>3. /\ HeadIsIndex
        /\ \A p \in FilesSeen : seen[p].value = Tracked[p]
        /\ \A a \in Dir : seen[a] # Nothing => ~Stray(a)
    BY <1>1, <2>1 DEF Pivoted, IInv, ObservationInv, CleanInv, FilesSeen
  <2>4. FilesSeen = DOMAIN Tracked
    BY <2>1 DEF Walked, WalkComplete
  <2>5. /\ FilesIn(pivot) = DOMAIN Tracked
        /\ \A p \in DOMAIN Tracked : pivot[p].value = Tracked[p]
    BY <1>1, <2>3, <2>4, FilesWere
  <2>6. v.files = v.index
    <3>1. Tracked = [p \in DOMAIN Tracked |-> Tracked[p]]
      <4>1. before[Index] \in Reading(Index) /\ before[Index] # Nothing
        BY <1>1, SourcesWere, Facts DEF GitMode, IInv, ObservationTyped
      <4>2. before[Index] \in [value : Tree, stamp : Nat]
        BY <4>1, Readings
      <4>3. Tracked \in Tree
        BY <4>2 DEF Tracked
      <4> QED
        BY <4>3, Trees
    <3>2. v.files = [p \in FilesIn(pivot) |-> pivot[p].value]
      BY DEF View, FilesOf
    <3> QED
      BY <2>2, <2>5, <3>1, <3>2
  <2>7. v.index = v.head
    BY <2>2, <2>3 DEF HeadIsIndex
  <2>8. v.dirs \subseteq DirsOf(DOMAIN v.index)
    <3> SUFFICES ASSUME NEW a \in DirsIn(pivot) PROVE a \in DirsOf(DOMAIN Tracked)
      BY <2>2 DEF View
    <3>1. a \in Dir \ {Root} /\ a \in Node \ {Root} /\ Present(pivot, a)
      BY Facts DEF DirsIn
    <3>2. seen[a] # Nothing
      BY <1>1, <2>1, <3>1, AllSeen
    <3> QED
      BY <2>3, <3>1, <3>2 DEF Stray
  <2> QED
    BY <2>6, <2>7, <2>8 DEF Clean
<1> QED
  BY <1>1, Inductive, PTL

-----------------------------------------------------------------------------
(* A quiet attempt: nothing changed since it began.                        *)

\* What an observation of a target at rest comes to.
SourcesNow ==
  IF mode = "clean"
  THEN [[o \in Source |-> Now(o)] EXCEPT ![Policy] = ValueOf(Now(Policy))]
  ELSE IF mode = "live"
  THEN [policy |-> ValueOf(Now(Policy)),
        head   |-> HeadOf(ValueOf(Now(HEAD)), ValueOf(Now(Packed))),
        index  |-> ValueOf(Now(Index))]
  ELSE [policy |-> Nothing, head |-> Nothing, index |-> Nothing]

CensusNow ==
  IF mode = "live" THEN [deleted |-> DeletedNow, untracked |-> UntrackedNow]
                   ELSE [deleted |-> {}, untracked |-> {}]

SelectedNow ==
  IF mode = "live" THEN FilesIn(disk) \cup DirsOf(FilesIn(disk)) ELSE Node

ReachedNow == {Root} \cup {n \in SelectedNow \ {Root} : Present(disk, n)}
WalkedNow  == [n \in Node |-> IF n \in ReachedNow THEN disk[n] ELSE Nothing]

ObservationNow == [sources |-> SourcesNow, census |-> CensusNow, walked |-> WalkedNow]

\* What was read is as it still is.
SourcesQuiet ==
  /\ \A k \in 1..LastSource : ReadYet(k) => before[Sources[k]] = Now(Sources[k])
  /\ mode = "files" => \A o \in Source \ {Root} : before[o] = Nothing

CensusQuiet ==
  /\ mode # "live" => census = CensusNow
  /\ mode = "live" =>
       /\ phase \notin {"before", "admit", "list", "deleted"} => census.deleted = DeletedNow
       /\ phase \notin {"before", "admit", "list", "deleted", "untracked"} =>
            census.untracked = UntrackedNow

WalkQuiet ==
  /\ \A n \in Node : seen[n] # Nothing => seen[n] = disk[n]
  /\ \A a \in Dir : seen[a] # Nothing => \A n \in Entries(a) : ids[n] = disk[n].stamp

QuietInv ==
  clock = since /\ phase \in Running \ {"copy"} =>
    /\ SourcesQuiet /\ CensusQuiet /\ WalkQuiet
    /\ first # Nothing => first = ObservationNow

\* Why a target at rest may be refused.
Excused(why) ==
  \/ clock > since
  \/ why = "late"
  \/ why = "dirty" /\ ~Clean(View(disk))
  \/ why = "root" /\ disk[Root].stamp # admitted
  \/ why = "request" /\ ~(required \subseteq FilesIn(disk))
  \/ why = "unborn" /\ View(disk).head = Nothing
  \/ why = "ambiguous" /\ Nothing \notin {disk[HEAD].value, disk[Packed].value}
  \/ why = "unsupported" /\ ~View(disk).config
  \/ why = "copy"

LEMMA QuietStart ==
  ASSUME IInv, StartObservation, UNCHANGED target,
         clock' = since' /\ first' # Nothing => first' = ObservationNow'
  PROVE  QuietInv' /\ QuietIsAnswered'
<1>1. /\ phase' = "before" /\ at' = 1
      /\ \A o \in Source : before'[o] = Nothing
      /\ \A n \in Node : seen'[n] = Nothing
      /\ census' = [deleted |-> {}, untracked |-> {}]
  BY DEF StartObservation, FirstSource
<1>2. SourcesQuiet'
  BY <1>1 DEF SourcesQuiet, ReadYet
<1>3. CensusQuiet'
  BY <1>1 DEF CensusQuiet, CensusNow
<1>4. WalkQuiet'
  BY <1>1, Facts DEF WalkQuiet
<1> QED
  BY <1>1, <1>2, <1>3, <1>4 DEF QuietInv, QuietIsAnswered

LEMMA QuietRaise ==
  ASSUME IInv, NEW why, Raise(why) \/ Finish("refused", why, Nothing), UNCHANGED target,
         clock = since => Excused(why)
  PROVE  QuietInv' /\ QuietIsAnswered'
<1>1. CASE Finish("refused", why, Nothing)
  <2>1. phase' = "refused" /\ reason' = why
        /\ UNCHANGED <<disk, clock, since, admitted, required>>
    BY <1>1 DEF Finish, call, target
  <2>2. Excused(why)
    <3>1. clock = since \/ clock > since
      BY CaptureAssumption DEF IInv, DiskInv, CallInv
    <3> QED
      BY <3>1 DEF Excused
  <2>3. QuietInv'
    BY <2>1 DEF QuietInv, Running
  <2>4. QuietIsAnswered'
    BY <2>1, <2>2 DEF QuietIsAnswered, Excused, View, FilesOf, FilesIn, DirsIn, PolicyIn, Present,
       Clean, HeadOf
  <2> QED
    BY <2>3, <2>4
<1>2. CASE Raise(why) /\ ~Finish("refused", why, Nothing)
  <2>1. StartObservation /\ first' = Nothing
    BY <1>2 DEF Raise
  <2> QED
    BY <2>1, QuietStart
<1> QED
  BY <1>1, <1>2

\* What lies ahead of an observation does not change while the target is at rest.
LEMMA NowStays ==
  ASSUME UNCHANGED target, mode' = mode
  PROVE  /\ ObservationNow' = ObservationNow /\ CensusNow' = CensusNow
         /\ DeletedNow' = DeletedNow /\ UntrackedNow' = UntrackedNow
         /\ \A o : Now(o)' = Now(o)
         /\ Sources' = Sources /\ LastSource' = LastSource
         /\ \A a : Entries(a)' = Entries(a)
BY DEF target, ObservationNow, SourcesNow, CensusNow, WalkedNow, ReachedNow, SelectedNow, DeletedNow,
   UntrackedNow, Now, FilesIn, Present, Sources, LastSource, Entries

\* On past the sources, with nothing new from them or the walk.
LEMMA QuietGo ==
  ASSUME IInv, QuietInv,
         UNCHANGED <<target, call, first, before, ids, seen, since>>,
         phase \in Running \ {"before", "copy"}, phase' # "before", phase' # "refused",
         clock = since => CensusQuiet'
  PROVE  QuietInv' /\ QuietIsAnswered'
<1>1. QuietIsAnswered'
  BY DEF QuietIsAnswered
<1>2. QuietInv'
  <2> SUFFICES ASSUME clock = since
               PROVE  /\ SourcesQuiet' /\ CensusQuiet' /\ WalkQuiet'
                      /\ first' # Nothing => first' = ObservationNow'
    BY DEF QuietInv, target
  <2>1. SourcesQuiet /\ WalkQuiet /\ (first # Nothing => first = ObservationNow)
    BY DEF QuietInv
  <2>2. mode' = mode /\ disk' = disk
    BY DEF call, target
  <2>3. SourcesQuiet'
    BY <2>1, <2>2, NowStays DEF SourcesQuiet, ReadYet
  <2>4. WalkQuiet'
    BY <2>1, <2>2, NowStays DEF WalkQuiet
  <2> QED
    BY <2>1, <2>2, <2>3, <2>4, NowStays
<1> QED
  BY <1>1, <1>2

\* The last of it: what is copied or returned.
LEMMA QuietEnd ==
  ASSUME phase' \in {"copy", "returned"}
  PROVE  QuietInv' /\ QuietIsAnswered'
BY DEF QuietInv, QuietIsAnswered, Running

LEMMA QuietSources ==
  ASSUME IInv, QuietInv, clock = since, phase \in Running \ {"copy"}
  PROVE  /\ GitMode => \A k \in 1..7 : ReadYet(k) =>
               before[<<Root, Git, Policy, Config, Packed, HEAD, Index>>[k]]
                 = Now(<<Root, Git, Policy, Config, Packed, HEAD, Index>>[k])
         /\ GitMode /\ phase # "before" => \A o \in Source : before[o] = Now(o)
         /\ GitMode /\ phase # "before" => Tracked = disk[Index].value
         /\ GitMode /\ phase # "before" => HeadTree = View(disk).head
<1>1. SourcesQuiet
  BY DEF QuietInv
<1>2. GitMode => \A k \in 1..7 : ReadYet(k) =>
        before[<<Root, Git, Policy, Config, Packed, HEAD, Index>>[k]]
          = Now(<<Root, Git, Policy, Config, Packed, HEAD, Index>>[k])
  BY <1>1, SourcePositions DEF SourcesQuiet
<1>3. ASSUME GitMode, phase # "before" PROVE \A o \in Source : before[o] = Now(o)
  <2> DEFINE q == <<Root, Git, Policy, Config, Packed, HEAD, Index>>
  <2>1. \A k \in 1..7 : before[q[k]] = Now(q[k])
    BY <1>2, <1>3 DEF ReadYet
  <2>2. q[1] = Root /\ q[2] = Git /\ q[3] = Policy /\ q[4] = Config /\ q[5] = Packed
        /\ q[6] = HEAD /\ q[7] = Index
    OBVIOUS
  <2>3. 1 \in 1..7 /\ 2 \in 1..7 /\ 3 \in 1..7 /\ 4 \in 1..7 /\ 5 \in 1..7 /\ 6 \in 1..7 /\ 7 \in 1..7
    OBVIOUS
  <2> HIDE DEF q
  <2> QED
    BY <2>1, <2>2, <2>3 DEF Source
<1>4. ASSUME GitMode, phase # "before" PROVE Tracked = disk[Index].value
  BY <1>3, <1>4, NowFacts, Facts DEF Tracked, IInv
<1>5. ASSUME GitMode, phase # "before" PROVE HeadTree = View(disk).head
  <2>1. before[HEAD] = Now(HEAD) /\ before[Packed] = Now(Packed)
    BY <1>3, <1>5, Facts
  <2>2. ValueOf(Now(HEAD)) = disk[HEAD].value /\ ValueOf(Now(Packed)) = disk[Packed].value
    <3>1. HEAD # Policy /\ Packed # Policy /\ disk[HEAD] # Nothing /\ disk[Packed] # Nothing
      BY Facts, DiskFacts DEF IInv, DiskInv
    <3> QED
      BY <3>1 DEF Now, ValueOf
  <2> QED
    BY <2>1, <2>2 DEF HeadTree, View
<1> QED
  BY <1>2, <1>3, <1>4, <1>5

LEMMA CleanTarget ==
  ASSUME Clean(View(disk))
  PROVE  /\ FilesIn(disk) = DOMAIN disk[Index].value
         /\ \A p \in FilesIn(disk) : disk[p].value = disk[Index].value[p]
         /\ View(disk).head = disk[Index].value
         /\ DirsIn(disk) \subseteq DirsOf(DOMAIN disk[Index].value)
<1>1. FilesOf(disk) = disk[Index].value /\ View(disk).head = disk[Index].value
      /\ DirsIn(disk) \subseteq DirsOf(DOMAIN disk[Index].value)
  BY DEF Clean, View
<1>2. DOMAIN FilesOf(disk) = FilesIn(disk) /\ \A p \in FilesIn(disk) : FilesOf(disk)[p] = disk[p].value
  BY DEF FilesOf
<1> QED
  BY <1>1, <1>2

LEMMA QuietReadBefore == ASSUME IInv, QuietInv, ReadBefore PROVE QuietInv' /\ QuietIsAnswered'
<1> DEFINE s == Sources[at]
           torn == s = HEAD /\ (Now(HEAD) = Nothing <=> before[Packed] = Nothing)
<1>0. /\ phase = "before" /\ phase \in Running \ {"copy"} /\ UNCHANGED target
      /\ mode \in {"clean", "live", "files"} /\ at \in 1..LastSource /\ LastSource \in {1, 7}
  BY SourcePositions DEF ReadBefore, Running, IInv, CallInv, Modes
<1>1. CASE RootMoved
  <2>1. Raise("root") /\ disk[Root].stamp # admitted
    BY <1>1 DEF ReadBefore, RootMoved
  <2> QED
    BY <1>0, <2>1, QuietRaise DEF Excused
<1>2. CASE ~RootMoved /\ torn
  <2> DEFINE why == IF Now(HEAD) = Nothing THEN "unborn" ELSE "ambiguous"
  <2>1. Raise(why)
    BY <1>2 DEF ReadBefore
  <2>2. ASSUME clock = since PROVE Excused(why)
    <3>1. GitMode /\ at = 6
      <4>1. mode # "files"
        <5>1. mode = "files" => s = Root
          BY <1>0, SourcePositions
        <5> QED
          BY <1>2, <5>1, Facts
      <4>2. GitMode
        BY <1>0, <4>1 DEF GitMode
      <4>3. Sources = <<Root, Git, Policy, Config, Packed, HEAD, Index>> /\ at \in 1..7
        BY <1>0, <4>2, SourcePositions
      <4> QED
        BY <1>2, <4>2, <4>3, Facts, Distinct
    <3>2. before[Packed] = Now(Packed)
      <4>1. ReadYet(5) /\ 5 \in 1..7
        BY <3>1 DEF ReadYet
      <4> QED
        BY <1>0, <2>2, <3>1, <4>1, QuietSources
    <3>3. \A o \in {HEAD, Packed} : Now(o) = Nothing <=> disk[o].value = Nothing
      <4>1. HEAD # Policy /\ Packed # Policy /\ disk[HEAD] # Nothing /\ disk[Packed] # Nothing
        BY Facts, DiskFacts DEF IInv, DiskInv
      <4> QED
        BY <4>1 DEF Now
    <3>4. disk[HEAD].value = Nothing <=> disk[Packed].value = Nothing
      BY <1>2, <3>2, <3>3
    <3>5. CASE Now(HEAD) = Nothing
      BY <3>3, <3>4, <3>5 DEF Excused, View, HeadOf
    <3>6. CASE Now(HEAD) # Nothing
      BY <3>3, <3>4, <3>6 DEF Excused
    <3> QED
      BY <3>5, <3>6
  <2> HIDE DEF why
  <2> QED
    BY <1>0, <2>1, <2>2, QuietRaise
<1>3. CASE ~RootMoved /\ ~torn
  <2>1. /\ before' = [before EXCEPT ![s] = Now(s)]
        /\ IF at < LastSource
           THEN at' = at + 1 /\ phase' = "before"
           ELSE at' = 1 /\ phase' = IF mode = "files" THEN "walk" ELSE "admit"
        /\ UNCHANGED <<call, attempt, first, outcome, since, census, ids, seen, closed>>
    BY <1>3 DEF ReadBefore, FirstSource
  <2>2. QuietIsAnswered'
    BY <2>1 DEF QuietIsAnswered
  <2>3. QuietInv'
    <3> SUFFICES ASSUME clock = since
                 PROVE  /\ SourcesQuiet' /\ CensusQuiet' /\ WalkQuiet'
                        /\ first' # Nothing => first' = ObservationNow'
      BY <1>0, <2>1 DEF QuietInv, target
    <3>1. SourcesQuiet /\ CensusQuiet /\ WalkQuiet /\ (first # Nothing => first = ObservationNow)
      BY <1>0 DEF QuietInv
    <3>2. mode' = mode /\ disk' = disk
      BY <1>0, <2>1 DEF call, target
    <3>3. \A x \in Source : before'[x] = IF x = s THEN Now(x) ELSE before[x]
      BY <2>1 DEF IInv, ObservationTyped
    <3>4. SourcesQuiet'
      <4>1. \A k \in 1..LastSource : ReadYet(k)' => k = at \/ ReadYet(k)
        <5> SUFFICES ASSUME NEW k \in 1..LastSource, ReadYet(k)' PROVE k = at \/ k < at
          BY DEF ReadYet
        <5>1. CASE at < LastSource
          BY <1>0, <2>1, <5>1 DEF ReadYet
        <5>2. CASE ~(at < LastSource)
          BY <1>0, <5>2
        <5> QED
          BY <5>1, <5>2
      <4>2. \A k \in 1..LastSource : Sources[k] \in Source
        BY <1>0, SourcePositions, Facts DEF GitMode
      <4>3. \A k \in 1..LastSource : ReadYet(k)' => before'[Sources[k]] = Now(Sources[k])
        <5> SUFFICES ASSUME NEW k \in 1..LastSource, ReadYet(k)'
                     PROVE  before'[Sources[k]] = Now(Sources[k])
          OBVIOUS
        <5>1. CASE Sources[k] = s
          BY <3>3, <4>2, <5>1
        <5>2. CASE Sources[k] # s
          <6>1. ReadYet(k)
            BY <4>1, <5>2
          <6> QED
            BY <3>1, <3>3, <4>2, <5>2, <6>1 DEF SourcesQuiet
        <5> QED
          BY <5>1, <5>2
      <4>4. mode = "files" => \A o \in Source \ {Root} : before'[o] = Nothing
        <5>1. mode = "files" => s = Root
          BY <1>0, SourcePositions
        <5> QED
          BY <3>1, <3>3, <5>1 DEF SourcesQuiet
      <4> QED
        BY <1>0, <3>2, <4>3, <4>4, NowStays DEF SourcesQuiet
    <3>5. CensusQuiet'
      BY <1>0, <2>1, <3>1, <3>2, NowStays DEF CensusQuiet
    <3>6. WalkQuiet'
      BY <1>0, <2>1, <3>1, <3>2, NowStays DEF WalkQuiet
    <3> QED
      BY <1>0, <2>1, <3>1, <3>2, <3>4, <3>5, <3>6, NowStays
  <2> QED
    BY <2>2, <2>3
<1> QED
  BY <1>1, <1>2, <1>3

LEMMA QuietReadPolicy == ASSUME IInv, QuietInv, ReadPolicy PROVE QuietInv' /\ QuietIsAnswered'
<1>1. /\ phase = "before" /\ mode = "policy" /\ phase' = "after"
      /\ before' = [before EXCEPT ![Policy] = Now(Policy)]
      /\ UNCHANGED <<target, call, attempt, first, outcome, since, at, census, ids, seen, closed>>
  BY DEF ReadPolicy
<1>2. QuietIsAnswered'
  BY <1>1 DEF QuietIsAnswered
<1>3. QuietInv'
  <2> SUFFICES ASSUME clock = since
               PROVE  /\ SourcesQuiet' /\ CensusQuiet' /\ WalkQuiet'
                      /\ first' # Nothing => first' = ObservationNow'
    BY <1>1 DEF QuietInv, target
  <2>1. CensusQuiet /\ WalkQuiet
    BY <1>1 DEF QuietInv, Running
  <2>2. mode' = mode /\ disk' = disk
    BY <1>1 DEF call, target
  <2>3. SourcesQuiet'
    <3>1. Sources = <<Policy>> /\ LastSource = 1 /\ Policy \in Source
      BY <1>1, SourcePositions, Facts
    <3>2. before'[Policy] = Now(Policy)
      BY <1>1, <3>1 DEF IInv, ObservationTyped
    <3> QED
      BY <1>1, <2>2, <3>1, <3>2, NowStays DEF SourcesQuiet
  <2>4. CensusQuiet'
    BY <1>1, <2>1, <2>2, NowStays DEF CensusQuiet
  <2>5. WalkQuiet'
    BY <1>1, <2>1, <2>2, NowStays DEF WalkQuiet
  <2>6. first = Nothing
    BY <1>1 DEF IInv, InstantInv, FirstInv
  <2> QED
    BY <1>1, <2>3, <2>4, <2>5, <2>6
<1> QED
  BY <1>2, <1>3

LEMMA QuietAdmit == ASSUME IInv, QuietInv, Admit PROVE QuietInv' /\ QuietIsAnswered'
<1>0. phase = "admit" /\ phase \in Running \ {"before", "copy"} /\ UNCHANGED target
  BY DEF Admit, Running
<1>1. CASE disk[Config].value
  <2>1. Continue("list") /\ UNCHANGED observation
    BY <1>1 DEF Admit
  <2>2. clock = since => CensusQuiet'
    <3> SUFFICES ASSUME clock = since PROVE CensusQuiet'
      OBVIOUS
    <3>1. CensusQuiet
      BY <1>0 DEF QuietInv
    <3> QED
      BY <1>0, <2>1, <3>1, NowStays DEF CensusQuiet, Continue, call, observation
  <2> QED
    BY <1>0, <2>1, <2>2, QuietGo DEF Continue, observation
<1>2. CASE ~disk[Config].value
  <2>1. Raise("unsupported")
    BY <1>2 DEF Admit
  <2> QED
    BY <1>0, <1>2, <2>1, QuietRaise DEF Excused, View
<1> QED
  BY <1>1, <1>2

LEMMA QuietListIndex == ASSUME IInv, QuietInv, ListIndex PROVE QuietInv' /\ QuietIsAnswered'
<1>0. /\ phase = "list" /\ phase \in Running \ {"before", "copy"} /\ UNCHANGED target
      /\ GitMode /\ mode \in {"clean", "live"}
  BY DEF ListIndex, Running, IInv, CallInv, GitMode
<1>1. CASE disk[Index].value # Tracked
  <2>1. Raise("changed")
    BY <1>1 DEF ListIndex
  <2>2. clock # since
    BY <1>0, <1>1, QuietSources
  <2> QED
    BY <1>0, <2>1, <2>2, QuietRaise
<1>2. CASE disk[Index].value = Tracked /\ mode = "clean" /\ ~HeadIsIndex
  <2>1. Raise("dirty")
    BY <1>2 DEF ListIndex
  <2>2. clock = since => Excused("dirty")
    <3> SUFFICES ASSUME clock = since, Clean(View(disk)) PROVE FALSE
      BY DEF Excused
    <3>1. HeadTree = View(disk).head
      BY <1>0, QuietSources
    <3> QED
      BY <1>2, <3>1, CleanTarget DEF HeadIsIndex
  <2> QED
    BY <1>0, <2>1, <2>2, QuietRaise
<1>3. CASE disk[Index].value = Tracked /\ ~(mode = "clean" /\ ~HeadIsIndex)
  <2>1. Continue(IF mode = "clean" THEN "walk" ELSE "deleted") /\ UNCHANGED observation
    BY <1>3 DEF ListIndex
  <2>2. clock = since => CensusQuiet'
    <3> SUFFICES ASSUME clock = since PROVE CensusQuiet'
      OBVIOUS
    <3>1. CensusQuiet
      BY <1>0 DEF QuietInv
    <3> QED
      BY <1>0, <2>1, <3>1, NowStays DEF CensusQuiet, Continue, call, observation
  <2> QED
    BY <1>0, <2>1, <2>2, QuietGo DEF Continue, observation
<1> QED
  BY <1>1, <1>2, <1>3

LEMMA QuietListDeleted == ASSUME IInv, QuietInv, ListDeleted PROVE QuietInv' /\ QuietIsAnswered'
<1>0. /\ phase \in {"deleted", "redeleted"} /\ phase \in Running \ {"before", "copy"}
      /\ UNCHANGED target /\ mode = "live" /\ GitMode
      /\ census \in [deleted : SUBSET File, untracked : SUBSET File]
  BY DEF ListDeleted, Running, IInv, CallInv, ObservationTyped, GitMode
<1>1. CASE phase = "deleted" /\ DeletedNow \subseteq DOMAIN Tracked
  <2>1. /\ census' = [census EXCEPT !.deleted = DeletedNow] /\ Continue("untracked")
        /\ UNCHANGED <<at, before, ids, seen, closed>>
    BY <1>1 DEF ListDeleted
  <2>2. census'.deleted = DeletedNow
    BY <1>0, <2>1
  <2>3. CensusQuiet'
    BY <1>0, <2>1, <2>2, NowStays DEF CensusQuiet, Continue, call
  <2> QED
    BY <1>0, <2>1, <2>3, QuietGo DEF Continue
<1>2. CASE phase = "redeleted" /\ DeletedNow = census.deleted
  <2>1. Continue("reuntracked") /\ UNCHANGED observation
    BY <1>2 DEF ListDeleted
  <2>2. clock = since => CensusQuiet'
    <3> SUFFICES ASSUME clock = since PROVE CensusQuiet'
      OBVIOUS
    <3>1. CensusQuiet
      BY <1>0 DEF QuietInv
    <3> QED
      BY <1>0, <1>2, <2>1, <3>1, NowStays DEF CensusQuiet, Continue, call, observation
  <2> QED
    BY <1>0, <2>1, <2>2, QuietGo DEF Continue, observation
<1>3. CASE \/ phase = "deleted" /\ ~(DeletedNow \subseteq DOMAIN Tracked)
           \/ phase = "redeleted" /\ DeletedNow # census.deleted
  <2>1. Raise("changed")
    BY <1>3 DEF ListDeleted
  <2>2. clock # since
    <3> SUFFICES ASSUME clock = since PROVE FALSE
      OBVIOUS
    <3>1. Tracked = disk[Index].value /\ DeletedNow \subseteq DOMAIN disk[Index].value
      BY <1>0, QuietSources DEF DeletedNow
    <3>2. phase = "redeleted" => census.deleted = DeletedNow
      BY <1>0 DEF QuietInv, CensusQuiet
    <3> QED
      BY <1>3, <3>1, <3>2
  <2> QED
    BY <1>0, <2>1, <2>2, QuietRaise
<1> QED
  BY <1>0, <1>1, <1>2, <1>3

\* What the census names in a target at rest are its files.
LEMMA QuietNames ==
  ASSUME Tracked = disk[Index].value
  PROVE  Names(DeletedNow, UntrackedNow) = FilesIn(disk)
BY DEF Names, DeletedNow, UntrackedNow

LEMMA QuietListUntracked ==
  ASSUME IInv, QuietInv, ListUntracked PROVE QuietInv' /\ QuietIsAnswered'
<1>0. /\ phase \in {"untracked", "reuntracked"} /\ phase \in Running \ {"before", "copy"}
      /\ UNCHANGED target /\ mode = "live" /\ GitMode
      /\ census \in [deleted : SUBSET File, untracked : SUBSET File]
  BY DEF ListUntracked, Running, IInv, CallInv, ObservationTyped, GitMode
<1>1. clock = since => /\ Tracked = disk[Index].value /\ census.deleted = DeletedNow
                       /\ phase = "reuntracked" => census.untracked = UntrackedNow
  BY <1>0, QuietSources DEF QuietInv, CensusQuiet
<1>2. CASE phase = "untracked" /\ UntrackedNow \cap DOMAIN Tracked = {}
  <2>1. CASE ~(required \subseteq Names(census.deleted, UntrackedNow))
    <3>1. Finish("refused", "request", Nothing)
      BY <1>2, <2>1 DEF ListUntracked, Deny
    <3>2. clock = since => Excused("request")
      BY <1>1, <2>1, QuietNames DEF Excused
    <3> QED
      BY <1>0, <3>1, <3>2, QuietRaise
  <2>2. CASE required \subseteq Names(census.deleted, UntrackedNow)
    <3>1. /\ census' = [census EXCEPT !.untracked = UntrackedNow] /\ Continue("walk")
          /\ UNCHANGED <<at, before, ids, seen, closed>>
      BY <1>2, <2>2 DEF ListUntracked
    <3>2. census'.untracked = UntrackedNow /\ census'.deleted = census.deleted
      BY <1>0, <3>1
    <3>3. clock = since => CensusQuiet'
      BY <1>0, <1>1, <3>1, <3>2, NowStays DEF CensusQuiet, Continue, call
    <3> QED
      BY <1>0, <3>1, <3>3, QuietGo DEF Continue
  <2> QED
    BY <2>1, <2>2
<1>3. CASE phase = "reuntracked" /\ UntrackedNow = census.untracked
  <2>1. Continue("after") /\ UNCHANGED observation
    BY <1>3 DEF ListUntracked
  <2>2. clock = since => CensusQuiet'
    BY <1>0, <1>1, <1>3, <2>1, NowStays DEF CensusQuiet, Continue, call, observation
  <2> QED
    BY <1>0, <2>1, <2>2, QuietGo DEF Continue, observation
<1>4. CASE \/ phase = "untracked" /\ UntrackedNow \cap DOMAIN Tracked # {}
           \/ phase = "reuntracked" /\ UntrackedNow # census.untracked
  <2>1. Raise("changed")
    BY <1>4 DEF ListUntracked
  <2>2. clock # since
    BY <1>1, <1>4 DEF UntrackedNow
  <2> QED
    BY <1>0, <2>1, <2>2, QuietRaise
<1> QED
  BY <1>0, <1>2, <1>3, <1>4

LEMMA QuietSee ==
  ASSUME IInv, QuietInv, phase = "walk", NEW n \in Node, seen' = [seen EXCEPT ![n] = disk[n]],
         clock = since => \A a \in Dir : seen'[a] # Nothing =>
                            \A k \in Entries(a) : ids'[k] = disk[k].stamp,
         UNCHANGED <<target, call, phase, first, before, census, since>>
  PROVE  QuietInv' /\ QuietIsAnswered'
<1>1. QuietIsAnswered'
  BY DEF QuietIsAnswered
<1>2. QuietInv'
  <2> SUFFICES ASSUME clock = since
               PROVE  /\ SourcesQuiet' /\ CensusQuiet' /\ WalkQuiet'
                      /\ first' # Nothing => first' = ObservationNow'
    BY DEF QuietInv, target
  <2>1. SourcesQuiet /\ CensusQuiet /\ WalkQuiet /\ (first # Nothing => first = ObservationNow)
    BY DEF QuietInv, Running
  <2>2. mode' = mode /\ disk' = disk
    BY DEF call, target
  <2>3. SourcesQuiet'
    BY <2>1, <2>2, NowStays DEF SourcesQuiet, ReadYet
  <2>4. CensusQuiet'
    BY <2>1, <2>2, NowStays DEF CensusQuiet
  <2>5. \A k \in Node : seen'[k] = IF k = n THEN disk[n] ELSE seen[k]
    BY DEF IInv, ObservationTyped
  <2>6. WalkQuiet'
    BY <2>1, <2>2, <2>5, NowStays DEF WalkQuiet
  <2> QED
    BY <2>1, <2>2, <2>3, <2>4, <2>6, NowStays
<1> QED
  BY <1>1, <1>2

\* What is in a directory that was listed is still what was listed.
LEMMA QuietPinned ==
  ASSUME IInv, QuietInv, clock = since, phase = "walk", NEW n \in Node \ {Root},
         seen[Parent[n]] # Nothing, n \in seen[Parent[n]].value
  PROVE  Pinned(n)
<1>1. WalkQuiet /\ Parent[n] \in Dir /\ Parent[n] \in Node
  BY Facts DEF QuietInv, Running
<1>2. seen[Parent[n]] = disk[Parent[n]]
  BY <1>1 DEF WalkQuiet
<1>3. n \in Entries(Parent[n])
  BY <1>2 DEF Entries
<1>4. ids[n] = disk[n].stamp
  BY <1>1, <1>3 DEF WalkQuiet
<1> QED
  BY <1>2, <1>4 DEF Pinned, Present, Unchanged

LEMMA QuietEnter ==
  ASSUME IInv, QuietInv, NEW a \in Dir, Enter(a) PROVE QuietInv' /\ QuietIsAnswered'
<1>0. /\ phase = "walk" /\ phase \in Running \ {"before", "copy"} /\ UNCHANGED target
      /\ a \in Node
      /\ a # Root => a \in Node \ {Root} /\ seen[Parent[a]] # Nothing /\ a \in seen[Parent[a]].value
  BY Facts DEF Enter, Running, Inside, ToVisit
<1>1. CASE a # Root /\ ~Pinned(a)
  <2>1. Raise("changed")
    BY <1>1 DEF Enter
  <2>2. clock # since
    BY <1>0, <1>1, QuietPinned
  <2> QED
    BY <1>0, <2>1, <2>2, QuietRaise
<1>2. CASE ~(a # Root /\ ~Pinned(a)) /\ mode = "clean" /\ Stray(a)
  <2>1. Raise("dirty")
    BY <1>2 DEF Enter
  <2>2. clock = since => Excused("dirty")
    <3> SUFFICES ASSUME clock = since, Clean(View(disk)) PROVE FALSE
      BY DEF Excused
    <3>1. Tracked = disk[Index].value
      BY <1>0, <1>2, QuietSources DEF GitMode
    <3>2. a # Root /\ a \notin DirsOf(DOMAIN Tracked)
      BY <1>2 DEF Stray
    <3>3. a \in DirsIn(disk)
      BY <1>2, <3>2 DEF DirsIn, Pinned
    <3> QED
      BY <3>1, <3>2, <3>3, CleanTarget
  <2> QED
    BY <1>0, <2>1, <2>2, QuietRaise
<1>3. CASE ~(a # Root /\ ~Pinned(a)) /\ ~(mode = "clean" /\ Stray(a))
  <2>1. /\ seen' = [seen EXCEPT ![a] = disk[a]]
        /\ ids' = [n \in Node \cup {Git} |->
                     IF n \in Entries(a) THEN disk[n].stamp ELSE ids[n]]
        /\ Continue("walk")
        /\ UNCHANGED <<at, before, census, closed>>
    BY <1>3 DEF Enter
  <2>2. ASSUME clock = since
        PROVE  \A b \in Dir : seen'[b] # Nothing => \A k \in Entries(b) : ids'[k] = disk[k].stamp
    <3> SUFFICES ASSUME NEW b \in Dir, seen'[b] # Nothing, NEW k \in Entries(b)
                 PROVE  ids'[k] = disk[k].stamp
      OBVIOUS
    <3>1. k \in Node \cup {Git}
      BY DiskFacts DEF Entries, IInv, DiskInv
    <3>2. CASE k \in Entries(a)
      BY <2>1, <3>1, <3>2
    <3>3. CASE k \notin Entries(a)
      <4>1. b # a /\ b \in Node /\ ids'[k] = ids[k]
        BY <2>1, <3>1, <3>3, Facts
      <4>2. seen[b] # Nothing
        BY <2>1, <4>1 DEF IInv, ObservationTyped
      <4> QED
        BY <1>0, <2>2, <4>1, <4>2 DEF QuietInv, WalkQuiet
    <3> QED
      BY <3>2, <3>3
  <2> QED
    BY <1>0, <2>1, <2>2, QuietSee DEF Continue
<1> QED
  BY <1>1, <1>2, <1>3

LEMMA QuietReadLeaf ==
  ASSUME IInv, QuietInv, NEW p \in File, ReadLeaf(p) PROVE QuietInv' /\ QuietIsAnswered'
<1>0. /\ phase = "walk" /\ phase \in Running \ {"before", "copy"} /\ UNCHANGED target
      /\ p \in Node /\ p \in Node \ {Root} /\ p \notin Dir
      /\ seen[Parent[p]] # Nothing /\ p \in seen[Parent[p]].value
  BY Facts DEF ReadLeaf, Running, Inside, ToVisit
<1>1. CASE ~Pinned(p)
  <2>1. Raise("changed")
    BY <1>1 DEF ReadLeaf
  <2>2. clock # since
    BY <1>0, <1>1, QuietPinned
  <2> QED
    BY <1>0, <2>1, <2>2, QuietRaise
<1>2. CASE Pinned(p) /\ mode = "clean" /\ (p \in DOMAIN Tracked => disk[p].value # Tracked[p])
  <2>1. Raise("dirty")
    BY <1>2 DEF ReadLeaf
  <2>2. clock = since => Excused("dirty")
    <3> SUFFICES ASSUME clock = since, Clean(View(disk)) PROVE FALSE
      BY DEF Excused
    <3>1. Tracked = disk[Index].value
      BY <1>0, <1>2, QuietSources DEF GitMode
    <3>2. p \in FilesIn(disk)
      BY <1>2 DEF FilesIn, Pinned
    <3> QED
      BY <1>2, <3>1, <3>2, CleanTarget
  <2> QED
    BY <1>0, <2>1, <2>2, QuietRaise
<1>3. CASE /\ Pinned(p)
           /\ ~(mode = "clean" /\ (p \in DOMAIN Tracked => disk[p].value # Tracked[p]))
  <2>1. /\ seen' = [seen EXCEPT ![p] = disk[p]] /\ Continue("walk")
        /\ UNCHANGED <<at, before, census, ids, closed>>
    BY <1>3 DEF ReadLeaf
  <2>2. ASSUME clock = since
        PROVE  \A a \in Dir : seen'[a] # Nothing => \A k \in Entries(a) : ids'[k] = disk[k].stamp
    <3>1. \A a \in Dir : seen'[a] = seen[a]
      BY <1>0, <2>1, Facts DEF IInv, ObservationTyped
    <3> QED
      BY <1>0, <2>1, <2>2, <3>1 DEF QuietInv, WalkQuiet
  <2> QED
    BY <1>0, <2>1, <2>2, QuietSee DEF Continue
<1> QED
  BY <1>1, <1>2, <1>3

\* The directories of a path are above it, up to the root.
LEMMA UpwardClosed ==
  ASSUME NEW S \in SUBSET File, NEW n \in (S \cup DirsOf(S)) \ {Root}, n \in Node
  PROVE  Parent[n] \in DirsOf(S)
<1>0. Parent[n] \in Dir
  BY Facts
<1>1. CASE n \in S
  <2>1. Parent[n] \in Above(n)
    BY <1>0 DEF Above
  <2> QED
    BY <1>1, <2>1 DEF DirsOf
<1>2. CASE n \in DirsOf(S)
  <2>1. PICK p \in S : n \in Above(p)
    BY <1>2 DEF DirsOf
  <2>2. n \in Dir \ {Root}
    BY <2>1 DEF Above
  <2>3. Parent[n] \in Above(p)
    BY <1>0, <2>1, <2>2 DEF Above
  <2> QED
    BY <2>3 DEF DirsOf
<1> QED
  BY <1>1, <1>2

\* A walk of a target at rest that has nothing left to visit has read all it goes
\* into.
LEMMA QuietWalked ==
  ASSUME IInv, QuietInv, clock = since, phase \in Running \ {"copy"}, mode # "policy",
         phase \notin {"before", "admit", "list", "deleted", "untracked"},
         seen[Root] # Nothing, \A a \in Dir : seen[a] # Nothing => ToVisit(a) = {}
  PROVE  /\ seen = WalkedNow /\ FilesSeen = FilesIn(disk)
         /\ GitMode => Tracked = disk[Index].value
         /\ mode = "live" => Census = FilesIn(disk)
<1>1. SourcesQuiet /\ CensusQuiet /\ WalkQuiet /\ WellFormed(disk) /\ WalkInv
  BY DEF QuietInv, IInv, DiskInv, ObservationInv
<1>2. /\ GitMode => Tracked = disk[Index].value
      /\ mode = "live" => Census = FilesIn(disk)
  <2>1. GitMode => Tracked = disk[Index].value
    BY QuietSources
  <2>2. mode = "live" => census.deleted = DeletedNow /\ census.untracked = UntrackedNow
    BY <1>1 DEF CensusQuiet
  <2> QED
    BY <2>1, <2>2, QuietNames DEF Census, GitMode
<1>3. Selected = SelectedNow
  BY <1>2 DEF Selected, SelectedNow, IInv, CallInv, Modes
<1>4. \A n \in SelectedNow \ {Root} : n \in Node =>
        Parent[n] \in Dir /\ (Parent[n] \in SelectedNow)
  <2> SUFFICES ASSUME NEW n \in SelectedNow \ {Root}, n \in Node
               PROVE  Parent[n] \in Dir /\ Parent[n] \in SelectedNow
    OBVIOUS
  <2>1. Parent[n] \in Dir /\ Parent[n] \in Node
    BY Facts
  <2>2. CASE mode = "live"
    <3>1. FilesIn(disk) \in SUBSET File
      BY DEF FilesIn
    <3>2. SelectedNow = FilesIn(disk) \cup DirsOf(FilesIn(disk))
      BY <2>2 DEF SelectedNow
    <3> QED
      BY <2>1, <3>1, <3>2, UpwardClosed
  <2>3. CASE mode # "live"
    BY <2>1, <2>3 DEF SelectedNow
  <2> QED
    BY <2>1, <2>2, <2>3
<1>5. \A n \in Node : seen[n] # Nothing => n \in ReachedNow /\ seen[n] = disk[n]
  <2> SUFFICES ASSUME NEW n \in Node, seen[n] # Nothing PROVE n \in ReachedNow /\ seen[n] = disk[n]
    OBVIOUS
  <2>1. seen[n] = disk[n]
    BY <1>1 DEF WalkQuiet
  <2>2. CASE n # Root
    <3>1. seen[Parent[n]] # Nothing /\ n \in seen[Parent[n]].value \cap Selected
      BY <1>1, <2>2 DEF WalkInv, Active
    <3>2. seen[Parent[n]] = disk[Parent[n]]
      BY <1>1, <2>2, <3>1, Facts DEF WalkQuiet
    <3> QED
      BY <1>3, <2>1, <2>2, <3>1, <3>2 DEF ReachedNow, Present
  <2> QED
    BY <2>1, <2>2 DEF ReachedNow
<1>6. \A n \in Node : n \in ReachedNow => seen[n] # Nothing
  \* of what was missed, what is nearest the root is in a directory that was walked
  <2> DEFINE missed == {n \in Node : n \in ReachedNow /\ seen[n] = Nothing}
             depths == {Depth[n] : n \in missed}
  <2> SUFFICES ASSUME missed # {} PROVE FALSE
    OBVIOUS
  <2>1. depths \in SUBSET Nat /\ depths # {}
    BY CaptureAssumption
  <2>2. PICK d \in depths : \A e \in depths : <<e, d>> \notin OpToRel(<, Nat)
    <3> HIDE DEF depths
    <3> QED
      BY <2>1, WFMin, NatLessThanWellFounded, Zenon
  <2>3. PICK n \in missed : Depth[n] = d
    OBVIOUS
  <2> DEFINE m == Parent[n]
  <2>4. /\ n \in SelectedNow \ {Root} /\ n \in Node \ {Root} /\ Present(disk, n)
        /\ seen[n] = Nothing
    BY <2>3 DEF ReachedNow
  <2>5. /\ m \in Dir /\ m \in Node /\ Depth[n] = Depth[m] + 1 /\ Depth[m] \in Nat
        /\ n \in disk[m].value /\ m \in SelectedNow
    BY <1>4, <2>4, CaptureAssumption, Facts DEF Present
  <2>6. m = Root \/ Present(disk, m)
    BY <1>1, <2>5 DEF WellFormed
  <2>7. seen[m] # Nothing
    <3> SUFFICES ASSUME seen[m] = Nothing PROVE FALSE
      OBVIOUS
    <3>1. m \in missed
      BY <2>5, <2>6 DEF ReachedNow
    <3>2. Depth[m] \in depths /\ Depth[m] < d
      BY <2>3, <2>5, <3>1
    <3>3. <<Depth[m], d>> \in OpToRel(<, Nat)
      BY <2>1, <2>5, <3>2 DEF OpToRel
    <3> QED
      BY <2>2, <3>2, <3>3
  <2>8. seen[m] = disk[m] /\ ToVisit(m) = {}
    BY <1>1, <2>5, <2>7 DEF WalkQuiet
  <2> QED
    BY <1>3, <2>4, <2>5, <2>8 DEF ToVisit
<1>7. seen = WalkedNow
  <2>1. \A n \in Node : seen[n] = IF n \in ReachedNow THEN disk[n] ELSE Nothing
    BY <1>5, <1>6
  <2>2. seen = [n \in Node |-> seen[n]]
    BY DEF IInv, ObservationTyped
  <2> QED
    BY <2>1, <2>2 DEF WalkedNow
<1>8. FilesSeen = FilesIn(disk)
  <2>1. \A p \in File : p \in Node /\ p # Root
    BY Facts
  <2>2. \A p \in FilesIn(disk) : p \in SelectedNow
    BY <2>1 DEF FilesIn, SelectedNow
  <2> QED
    BY <1>5, <1>6, <2>1, <2>2 DEF FilesSeen, FilesIn, ReachedNow
<1> QED
  BY <1>2, <1>7, <1>8

LEMMA QuietLeave ==
  ASSUME IInv, QuietInv, NEW a \in Dir, Leave(a) PROVE QuietInv' /\ QuietIsAnswered'
<1>0. /\ phase = "walk" /\ phase \in Running \ {"before", "copy"} /\ UNCHANGED target
      /\ Inside(a) /\ seen[a] # Nothing /\ ToVisit(a) = {} /\ mode # "policy" /\ a \in Node
  BY Facts DEF Leave, Running, Inside, IInv, CallInv
<1>1. CASE ~ListedAlike(a)
  <2>1. Raise("changed")
    BY <1>1 DEF Leave
  <2>2. clock # since
    <3> SUFFICES ASSUME clock = since PROVE FALSE
      OBVIOUS
    <3>1. WalkQuiet
      BY <1>0 DEF QuietInv
    <3>2. seen[a] = disk[a] /\ \A n \in Entries(a) : ids[n] = disk[n].stamp
      BY <1>0, <3>1 DEF WalkQuiet
    <3> QED
      BY <1>1, <3>2 DEF ListedAlike, Unchanged
  <2> QED
    BY <1>0, <2>1, <2>2, QuietRaise
<1>2. a = Root /\ clock = since =>
        /\ FilesSeen = FilesIn(disk)
        /\ GitMode => Tracked = disk[Index].value
        /\ mode = "live" => Census = FilesIn(disk)
  <2> SUFFICES ASSUME a = Root, clock = since
               PROVE  /\ FilesSeen = FilesIn(disk)
                      /\ GitMode => Tracked = disk[Index].value
                      /\ mode = "live" => Census = FilesIn(disk)
    OBVIOUS
  <2>1. \A b \in Dir : seen[b] # Nothing => ToVisit(b) = {}
    <3> SUFFICES ASSUME NEW b \in Dir, seen[b] # Nothing, b # Root PROVE ToVisit(b) = {}
      BY <1>0
    <3>1. b \in closed
      BY <1>0, RootIsLast
    <3> QED
      BY <1>0, <3>1 DEF IInv, ObservationInv, WalkInv, Active, ToVisit
  <2> QED
    BY <1>0, <2>1, QuietWalked
<1>3. CASE ListedAlike(a) /\ a = Root /\ ~WalkComplete
  <2> DEFINE why == IF mode = "clean" THEN "dirty" ELSE "changed"
  <2>1. Raise(why)
    BY <1>3 DEF Leave
  <2>2. ASSUME clock = since PROVE Excused(why)
    <3>1. mode = "clean"
      BY <1>0, <1>2, <1>3, <2>2 DEF WalkComplete, IInv, CallInv, Modes
    <3>2. ~Clean(View(disk))
      BY <1>2, <1>3, <2>2, <3>1, CleanTarget DEF WalkComplete, GitMode
    <3> QED
      BY <3>1, <3>2 DEF Excused
  <2> HIDE DEF why
  <2> QED
    BY <1>0, <2>1, <2>2, QuietRaise
<1>4. CASE ListedAlike(a) /\ a = Root /\ WalkComplete /\ ~(required \subseteq Available)
  <2>1. Finish("refused", "request", Nothing)
    BY <1>4 DEF Leave, Deny
  <2>2. ASSUME clock = since PROVE Excused("request")
    <3>1. Available = FilesSeen
      <4>1. CASE mode = "clean"
        <5>1. HeadIsIndex
          BY <1>0, <4>1 DEF IInv, ObservationInv, CleanInv, Active
        <5> QED
          BY <1>4, <4>1, <5>1 DEF WalkComplete, Available, HeadIsIndex
      <4>2. CASE mode # "clean"
        BY <4>2 DEF Available
      <4> QED
        BY <4>1, <4>2
    <3> QED
      BY <1>2, <1>4, <2>2, <3>1 DEF Excused
  <2> QED
    BY <1>0, <2>1, <2>2, QuietRaise
<1>5. CASE ListedAlike(a) /\ (a = Root => WalkComplete /\ required \subseteq Available)
  <2>1. /\ phase' \in {"walk", "redeleted", "after"}
        /\ UNCHANGED <<target, call, first, before, census, ids, seen, since>>
    BY <1>0, <1>5 DEF Leave, Continue
  <2>2. clock = since => CensusQuiet'
    <3> SUFFICES ASSUME clock = since PROVE CensusQuiet'
      OBVIOUS
    <3>1. CensusQuiet
      BY <1>0 DEF QuietInv
    <3> QED
      BY <1>0, <2>1, <3>1, NowStays DEF CensusQuiet, call
  <2> QED
    BY <1>0, <2>1, <2>2, QuietGo
<1> QED
  BY <1>1, <1>3, <1>4, <1>5

LEMMA QuietObservation ==
  ASSUME IInv, QuietInv, clock = since, phase = "after", mode # "policy"
  PROVE  Observation = ObservationNow
<1>1. seen = WalkedNow
  <2>1. Walked /\ Active /\ phase \in Running \ {"copy"}
    BY DEF IInv, ObservationInv, WalkInv, Active, Running
  <2>2. \A a \in closed : seen[a] # Nothing /\ ToVisit(a) = {}
    BY <2>1 DEF IInv, ObservationInv, WalkInv, ToVisit
  <2>3. seen[Root] # Nothing /\ \A a \in Dir : seen[a] # Nothing => ToVisit(a) = {}
    BY <2>1, <2>2 DEF Walked
  <2> QED
    BY <2>1, <2>3, QuietWalked
<1>2. SourcesQuiet /\ CensusQuiet
  BY DEF QuietInv, Running
<1>3. census = CensusNow
  <2>1. census = [deleted |-> census.deleted, untracked |-> census.untracked]
    BY DEF IInv, ObservationTyped
  <2>2. mode = "live" => census.deleted = DeletedNow /\ census.untracked = UntrackedNow
    BY <1>2 DEF CensusQuiet
  <2>3. mode # "live" => census = CensusNow
    BY <1>2 DEF CensusQuiet
  <2> QED
    BY <2>1, <2>2, <2>3 DEF CensusNow
<1>4. GitMode => \A o \in Source : before[o] = Now(o)
  BY QuietSources DEF Running
<1>5. before = [o \in Source |-> before[o]]
  BY DEF IInv, ObservationTyped
<1>6. Observation.sources = SourcesNow
  <2>1. CASE mode = "clean"
    <3>1. before = [o \in Source |-> Now(o)]
      BY <1>4, <1>5, <2>1 DEF GitMode
    <3>2. before[Policy] = Now(Policy)
      BY <1>4, <2>1, Facts DEF GitMode
    <3> QED
      BY <2>1, <3>1, <3>2 DEF Observation, SourcesNow, SourcesDigest
  <2>2. CASE mode = "live"
    <3>1. /\ before[Policy] = Now(Policy) /\ before[HEAD] = Now(HEAD)
          /\ before[Packed] = Now(Packed) /\ before[Index] = Now(Index)
      BY <1>4, <2>2, Facts DEF GitMode
    <3> QED
      BY <2>2, <3>1 DEF Observation, SourcesNow, HeadTree
  <2>3. CASE mode = "files"
    <3>1. Root \notin {Policy, HEAD, Packed, Index}
      BY Facts
    <3>2. /\ before[Policy] = Nothing /\ before[HEAD] = Nothing
          /\ before[Packed] = Nothing /\ before[Index] = Nothing
      BY <1>2, <2>3, <3>1, Facts DEF SourcesQuiet
    <3> QED
      BY <2>3, <3>2 DEF Observation, SourcesNow, HeadTree, HeadOf, ValueOf
  <2> QED
    BY <2>1, <2>2, <2>3 DEF IInv, CallInv, Modes
<1>7. Observation = [sources |-> Observation.sources, census |-> census, walked |-> seen]
  BY DEF Observation
<1> QED
  BY <1>1, <1>3, <1>6, <1>7 DEF ObservationNow

LEMMA QuietReadAfter == ASSUME IInv, QuietInv, ReadAfter PROVE QuietInv' /\ QuietIsAnswered'
<1>0. /\ phase = "after" /\ phase \in Running \ {"before", "copy"} /\ UNCHANGED target
      /\ at \in 1..LastSource
  BY DEF ReadAfter, Running, IInv, CallInv
<1>1. CASE ~Unmoved(Sources[at])
  <2> DEFINE why == IF mode = "files" THEN "root" ELSE "changed"
  <2>1. Raise(why)
    BY <1>1 DEF ReadAfter
  <2>2. clock # since
    BY <1>0, <1>1 DEF QuietInv, SourcesQuiet, ReadYet, Unmoved
  <2> HIDE DEF why
  <2> QED
    BY <1>0, <2>1, <2>2, QuietRaise
<1>2. CASE Unmoved(Sources[at]) /\ at < LastSource
  <2>1. Continue("after") /\ UNCHANGED <<before, census, ids, seen, closed>>
    BY <1>2 DEF ReadAfter
  <2>2. clock = since => CensusQuiet'
    <3> SUFFICES ASSUME clock = since PROVE CensusQuiet'
      OBVIOUS
    <3>1. CensusQuiet
      BY <1>0 DEF QuietInv
    <3> QED
      BY <1>0, <2>1, <3>1, NowStays DEF CensusQuiet, Continue, call
  <2> QED
    BY <1>0, <2>1, <2>2, QuietGo DEF Continue
<1>3. CASE Unmoved(Sources[at]) /\ ~(at < LastSource)
  <2>1. CASE mode = "policy"
    BY <1>3, <2>1, QuietEnd DEF ReadAfter, Finish
  <2>2. CASE mode # "policy" /\ first = Nothing
    <3>1. /\ first' = Observation /\ StartObservation
          /\ UNCHANGED <<call, attempt, outcome, pivot, since>>
      BY <1>3, <2>2 DEF ReadAfter
    <3>2. clock = since => first' = ObservationNow'
      BY <1>0, <2>2, <3>1, QuietObservation, NowStays DEF call
    <3> QED
      BY <1>0, <3>1, <3>2, QuietStart DEF target
  <2>3. CASE mode # "policy" /\ first # Nothing /\ Same(first, Observation)
    BY <1>3, <2>3, QuietEnd DEF ReadAfter, Finish, StartCopy
  <2>4. CASE mode # "policy" /\ first # Nothing /\ ~Same(first, Observation)
    <3>1. Raise("changed")
      BY <1>3, <2>4 DEF ReadAfter
    <3>2. clock # since
      BY <1>0, <2>4, QuietObservation DEF QuietInv, Same
    <3> QED
      BY <1>0, <3>1, <3>2, QuietRaise
  <2> QED
    BY <2>1, <2>2, <2>3, <2>4
<1> QED
  BY <1>1, <1>2, <1>3

LEMMA QuietObserve == ASSUME IInv, QuietInv, Observe PROVE QuietInv' /\ QuietIsAnswered'
<1>1. ASSUME NEW p \in File, CopyFile(p) PROVE QuietInv' /\ QuietIsAnswered'
  BY <1>1, QuietEnd DEF CopyFile
<1>2. ASSUME CopyDone PROVE QuietInv' /\ QuietIsAnswered'
  BY <1>2, QuietEnd DEF CopyDone, Finish
<1>3. ASSUME CopyFails PROVE QuietInv' /\ QuietIsAnswered'
  BY <1>3 DEF CopyFails, QuietInv, QuietIsAnswered, Running
<1>4. ASSUME Late PROVE QuietInv' /\ QuietIsAnswered'
  BY <1>4, QuietRaise DEF Late, Excused
<1> QED
  BY <1>1, <1>2, <1>3, <1>4, QuietReadBefore, QuietReadPolicy, QuietAdmit, QuietListIndex,
     QuietListDeleted, QuietListUntracked, QuietEnter, QuietLeave, QuietReadLeaf, QuietReadAfter
     DEF Observe

\* A capture is refused only if the target changed during its last attempt,
\* or for a reason the target, the caller or the clock gave it.
THEOREM OnlyForReason == Spec => []QuietIsAnswered
<1>1. Init => QuietInv /\ QuietIsAnswered
  BY DEF Init, QuietInv, QuietIsAnswered, Running
<1>2. ASSUME IInv, IInv', QuietInv, QuietIsAnswered, [Next]_vars PROVE QuietInv' /\ QuietIsAnswered'
  <2>1. CASE Observe
    BY <1>2, <2>1, QuietObserve
  <2>2. CASE Work
    <3>1. Passed /\ UNCHANGED capture
      BY <1>2, <2>2, WorkStep DEF IInv
    <3>2. clock < clock' /\ since \in 0..clock /\ since' = since /\ clock \in Nat /\ clock' \in Nat
      BY <1>2, <3>1, CaptureAssumption DEF Passed, capture, IInv, CallInv, DiskInv
    <3>3. clock' # since' /\ clock' > since'
      BY <3>2
    <3> QED
      BY <3>3 DEF QuietInv, QuietIsAnswered
  <2>3. CASE \E m \in Modes : Call(m)
    <3>1. StartObservation /\ UNCHANGED target /\ first' = Nothing
      BY <2>3 DEF Call
    <3> QED
      BY <1>2, <3>1, QuietStart
  <2>4. CASE UNCHANGED vars
    <3> USE DEF vars, target, call, observation, outcome
    <3>1. QuietIsAnswered'
      BY <1>2, <2>4 DEF QuietIsAnswered, View, FilesOf, FilesIn, DirsIn, PolicyIn, Present, Clean,
         HeadOf
    <3>2. QuietInv'
      BY <1>2, <2>4, NowStays DEF QuietInv, SourcesQuiet, CensusQuiet, WalkQuiet, ReadYet
    <3> QED
      BY <3>1, <3>2
  <2> QED
    BY <1>2, <2>1, <2>2, <2>3, <2>4 DEF Next
<1> QED
  BY <1>1, <1>2, Inductive, PTL DEF Spec
=============================================================================

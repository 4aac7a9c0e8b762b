------------------------- MODULE InvalidationProofs -------------------------
(***************************************************************************)
(* Theorems about Invalidation, for every graph, every set of records and  *)
(* every context: the two searches find the strongly connected components, *)
(* the rounds reach the outcome that reachability defines, the path of an  *)
(* outcome explains it, and nothing in doubt is ever relied on.            *)
(***************************************************************************)
EXTENDS Invalidation, FiniteSetTheorems, WellFoundedInduction, TLAPS

-----------------------------------------------------------------------------
(* Least and greatest.                                                     *)

LEMMA MinIsLeast ==
  ASSUME NEW S \in SUBSET Nat, S # {}
  PROVE  Min(S) \in S /\ \A n \in S : Min(S) <= n
<1>1. PICK n \in S : \A m \in S : <<m, n>> \notin OpToRel(<, Nat)
  BY WFMin, NatLessThanWellFounded, Zenon
<1>2. \A m \in S : n <= m
  <2> SUFFICES ASSUME NEW m \in S PROVE n <= m
    OBVIOUS
  <2>1. ~(m < n)
    BY <1>1 DEF OpToRel
  <2> QED
    BY <2>1
<1> QED
  BY <1>2 DEF Min

LEMMA MaxIsGreatest ==
  ASSUME NEW b \in Nat, NEW S \in SUBSET (1..b), S # {}
  PROVE  Max(S) \in S /\ \A n \in S : n <= Max(S)
<1> DEFINE bounds == {k \in Nat : \A n \in S : n <= k}
<1>1. b \in bounds
  OBVIOUS
<1>2. Min(bounds) \in bounds /\ \A k \in bounds : Min(bounds) <= k
  BY <1>1, MinIsLeast
<1> HIDE DEF bounds
<1>3. ASSUME NEW k \in Nat, k \notin S, \A n \in S : n <= k
      PROVE  k - 1 \in Nat /\ \A n \in S : n <= k - 1
  <2>1. \A n \in S : n \in Int /\ n > 0 /\ n # k
    BY <1>3
  <2>2. PICK m \in S : m \in Int /\ m > 0 /\ m <= k
    BY <1>3, <2>1
  <2>3. ASSUME NEW n \in S PROVE n <= k - 1
    <3>1. n \in Int /\ n <= k /\ n # k
      BY <1>3, <2>1
    <3> QED
      BY <3>1
  <2> QED
    BY <2>2, <2>3
<1>4. Min(bounds) \in Nat /\ \A n \in S : n <= Min(bounds)
  BY <1>2 DEF bounds
<1>5. Min(bounds) \in S
  <2> SUFFICES ASSUME Min(bounds) \notin S PROVE FALSE
    OBVIOUS
  <2>1. Min(bounds) - 1 \in bounds
    BY <1>3, <1>4 DEF bounds
  <2> QED
    BY <1>2, <1>4, <2>1
<1> QED
  BY <1>4, <1>5 DEF Max

-----------------------------------------------------------------------------
(* Reachability.                                                           *)

\* No node leads out of a set.
Closed(nodes, S) == \A n \in S : deps[n] \cap nodes \subseteq S

LEMMA AlongSelf ==
  ASSUME NEW nodes, NEW x \in nodes
  PROVE  x \in Along(nodes, x)
  BY DEF Along

LEMMA AlongStep ==
  ASSUME NEW nodes, NEW x, NEW y \in Along(nodes, x), NEW z \in deps[y] \cap nodes
  PROVE  z \in Along(nodes, x)
  BY DEF Along

LEMMA AlongWithin ==
  ASSUME NEW nodes, NEW S \in SUBSET nodes, NEW x \in S, Closed(nodes, S)
  PROVE  Along(nodes, x) \subseteq S
  BY DEF Along, Closed

LEMMA AlongTrans ==
  ASSUME NEW nodes, NEW x, NEW y \in Along(nodes, x), NEW z \in Along(nodes, y)
  PROVE  z \in Along(nodes, x)
  BY DEF Along

\* The first step of a way that goes somewhere else.
LEMMA AlongFirst ==
  ASSUME NEW nodes, NEW x \in nodes, NEW y \in Along(nodes, x), y # x
  PROVE  \E d \in deps[x] \cap nodes : y \in Along(nodes, d)
<1> DEFINE S == {x} \cup {z \in nodes : \E d \in deps[x] \cap nodes : z \in Along(nodes, d)}
<1>1. Closed(nodes, S)
  BY AlongStep, AlongSelf DEF Closed
<1>2. Along(nodes, x) \subseteq S
  BY <1>1, AlongWithin
<1> QED
  BY <1>2

-----------------------------------------------------------------------------
(* The invariant of the first search.                                      *)

Frame == [node : Evidence, left : SUBSET Evidence]

SearchTyped ==
  /\ deps \in [Evidence -> SUBSET (Evidence \cup Absent)]
  /\ visited \subseteq Evidence
  /\ finish_order \in Seq(Evidence)
  /\ stack \in Seq(Frame)

\* A node is visited once: it is on the stack, once, and then in the finish
\* order, once.
Once ==
  /\ \A i, j \in DOMAIN finish_order : finish_order[i] = finish_order[j] => i = j
  /\ \A i, j \in DOMAIN stack : stack[i].node = stack[j].node => i = j
  /\ \A i \in DOMAIN stack, j \in DOMAIN finish_order : stack[i].node # finish_order[j]
  /\ \A i \in DOMAIN stack : stack[i].node \in visited
  /\ \A j \in DOMAIN finish_order : finish_order[j] \in visited
  /\ \A v \in visited : \/ \E i \in DOMAIN stack : stack[i].node = v
                        \/ \E j \in DOMAIN finish_order : finish_order[j] = v

\* The stack is a way, and a neighbour that was tried is visited.
Way ==
  /\ \A j \in DOMAIN stack : \A i \in 1..j : stack[j].node \in Reached(stack[i].node)
  /\ \A i \in DOMAIN stack :
       \A z \in Neighbours(stack[i].node) : z \in stack[i].left \/ z \in visited
  /\ \A i \in DOMAIN stack : stack[i].left \subseteq Neighbours(stack[i].node)

\* What a finished node requires has finished before it, or leads to all that
\* finished since.
Edges ==
  \A i \in DOMAIN finish_order : \A z \in Neighbours(finish_order[i]) :
    /\ z \in visited
    /\ \A j \in DOMAIN finish_order : finish_order[j] = z =>
         j < i \/ \A k \in i..j : finish_order[k] \in Reached(z)
    /\ \A j \in DOMAIN stack : stack[j].node = z =>
         \A k \in DOMAIN finish_order : k >= i => finish_order[k] \in Reached(z)

SearchInv == SearchTyped /\ Once /\ Way /\ Edges

LEMMA ReachedKept ==
  ASSUME deps' = deps
  PROVE  /\ \A x \in Evidence : Reached(x)' = Reached(x)
         /\ \A x \in Evidence : Neighbours(x)' = Neighbours(x)
  BY DEF Reached, Along, Neighbours

LEMMA SearchKept ==
  ASSUME SearchInv, UNCHANGED <<deps, visited, stack, finish_order>>
  PROVE  SearchInv'
<1>1. SearchTyped' /\ Once'
  BY DEF SearchInv, SearchTyped, Once
<1>2. Way'
  BY DEF SearchInv, Way, Reached, Along, Neighbours
<1>3. Edges'
  BY DEF SearchInv, Edges, Reached, Along, Neighbours
<1> QED
  BY <1>1, <1>2, <1>3 DEF SearchInv

\* A new frame on the stack.
LEMMA PushInv ==
  ASSUME SearchInv, NEW n \in Evidence, n \notin visited,
         NEW below \in Seq(Frame), Len(below) = Len(stack),
         \A i \in 1..Len(stack) : /\ below[i].node = stack[i].node
                                  /\ below[i].left \subseteq stack[i].left
                                  /\ stack[i].left \subseteq below[i].left \cup {n},
         stack # <<>> => n \in Reached(stack[Len(stack)].node),
         deps' = deps, finish_order' = finish_order,
         visited' = visited \cup {n}, stack' = Push(below, n)
  PROVE  SearchInv'
<1> DEFINE top == [node |-> n, left |-> Neighbours(n)]
<1>1. top \in Frame /\ stack' = Append(below, top)
  BY DEF Frame, Neighbours, Push
<1>2. /\ stack' \in Seq(Frame) /\ Len(stack') = Len(stack) + 1
      /\ DOMAIN stack' = 1..Len(stack) + 1 /\ DOMAIN stack = 1..Len(stack)
      /\ Len(stack) \in Nat
      /\ \A i \in 1..Len(stack) : stack'[i] = below[i]
      /\ stack'[Len(stack) + 1] = top
  BY <1>1 DEF SearchInv, SearchTyped
<1>3. /\ \A i \in 1..Len(stack) : stack'[i].node = stack[i].node
      /\ stack'[Len(stack) + 1].node = n
      /\ \A i \in 1..Len(stack) + 1 : i \in 1..Len(stack) \/ i = Len(stack) + 1
  BY <1>2
<1>4. SearchTyped'
  BY <1>2 DEF SearchInv, SearchTyped
<1>5. Once'
  <2>1. \A i, j \in DOMAIN stack' : stack'[i].node = stack'[j].node => i = j
    BY <1>2, <1>3 DEF SearchInv, Once
  <2>2. \A i \in DOMAIN stack', j \in DOMAIN finish_order :
          stack'[i].node # finish_order[j]
    BY <1>2, <1>3 DEF SearchInv, Once
  <2>3. \A v \in visited' : \/ \E i \in DOMAIN stack' : stack'[i].node = v
                            \/ \E j \in DOMAIN finish_order : finish_order[j] = v
    BY <1>2, <1>3 DEF SearchInv, Once
  <2> QED
    BY <1>2, <1>3, <2>1, <2>2, <2>3 DEF SearchInv, Once
<1>6. Way'
  <2>1. ASSUME NEW j \in DOMAIN stack', NEW i \in 1..j
        PROVE  stack'[j].node \in Reached(stack'[i].node)
    <3>1. CASE j \in 1..Len(stack)
      <4>1. i \in 1..Len(stack)
        BY <1>2, <3>1
      <4> QED
        BY <1>2, <1>3, <3>1, <4>1 DEF SearchInv, Way
    <3>2. CASE i = Len(stack) + 1
      <4>1. j = i
        BY <1>2, <3>2
      <4> QED
        BY <1>3, <3>2, <4>1, AlongSelf DEF Reached
    <3>3. CASE j = Len(stack) + 1 /\ i \in 1..Len(stack)
      <4>1. Len(stack) \in DOMAIN stack /\ i \in 1..Len(stack) /\ stack # <<>>
        BY <1>2, <3>3
      <4>2. stack[Len(stack)].node \in Reached(stack[i].node)
        BY <4>1 DEF SearchInv, Way
      <4> QED
        BY <1>3, <3>3, <4>1, <4>2, AlongTrans DEF Reached
    <3> QED
      BY <1>2, <1>3, <3>1, <3>2, <3>3
  <2>2. ASSUME NEW i \in DOMAIN stack', NEW z \in Neighbours(stack'[i].node)
        PROVE  z \in stack'[i].left \/ z \in visited'
    <3>1. CASE i \in 1..Len(stack)
      <4>1. z \in Neighbours(stack[i].node)
        BY <1>3, <2>2, <3>1
      <4>2. z \in stack[i].left \/ z \in visited
        BY <1>2, <3>1, <4>1 DEF SearchInv, Way
      <4> QED
        BY <1>2, <3>1, <4>2
    <3>2. CASE i = Len(stack) + 1
      BY <1>2, <1>3, <2>2, <3>2
    <3> QED
      BY <1>2, <1>3, <3>1, <3>2
  <2>3. ASSUME NEW i \in DOMAIN stack' PROVE stack'[i].node \in Evidence
    <3>1. stack'[i] \in Frame
      BY <1>2, <1>4 DEF SearchTyped
    <3> QED
      BY <3>1 DEF Frame
  <2>4. /\ \A x \in Evidence : Reached(x)' = Reached(x)
        /\ \A x \in Evidence : Neighbours(x)' = Neighbours(x)
    BY ReachedKept
  <2>5. ASSUME NEW j \in DOMAIN stack', NEW i \in 1..j PROVE i \in DOMAIN stack'
    BY <1>2
  <2>6. ASSUME NEW i \in DOMAIN stack'
        PROVE  stack'[i].left \subseteq Neighbours(stack'[i].node)
    <3>1. CASE i \in 1..Len(stack)
      BY <1>2, <1>3, <3>1 DEF SearchInv, Way
    <3>2. CASE i = Len(stack) + 1
      BY <1>2, <1>3, <3>2
    <3> QED
      BY <1>2, <1>3, <3>1, <3>2
  <2> QED
    BY <2>1, <2>2, <2>3, <2>4, <2>5, <2>6 DEF Way
<1>7. Edges'
  <2>1. ASSUME NEW i \in DOMAIN finish_order, NEW z \in Neighbours(finish_order[i])
        PROVE  z # n
    BY DEF SearchInv, Edges
  <2>2. ASSUME NEW i \in DOMAIN finish_order, NEW z \in Neighbours(finish_order[i]),
               NEW j \in DOMAIN stack', stack'[j].node = z,
               NEW k \in DOMAIN finish_order, k >= i
        PROVE  finish_order[k] \in Reached(z)
    <3>1. j \in 1..Len(stack)
      BY <1>2, <1>3, <2>1, <2>2
    <3> QED
      BY <1>2, <1>3, <2>2, <3>1 DEF SearchInv, Edges
  <2> QED
    BY <2>2 DEF SearchInv, Edges, Reached, Along, Neighbours
<1> QED
  BY <1>4, <1>5, <1>6, <1>7 DEF SearchInv

LEMMA FrontShape ==
  ASSUME NEW T, NEW s \in Seq(T), s # <<>>
  PROVE  /\ Len(s) \in Nat /\ Len(s) >= 1 /\ DOMAIN s = 1..Len(s)
         /\ Last(s) = s[Len(s)] /\ Last(s) \in T
         /\ Front(s) \in Seq(T) /\ Len(Front(s)) = Len(s) - 1
         /\ DOMAIN Front(s) = 1..Len(s) - 1
         /\ \A i \in 1..Len(s) - 1 : Front(s)[i] = s[i]
<1>1. Len(s) \in Nat /\ Len(s) >= 1 /\ DOMAIN s = 1..Len(s)
  OBVIOUS
<1>2. s[Len(s)] \in T
  BY <1>1
<1>3. Front(s) \in Seq(T) /\ Len(Front(s)) = Len(s) - 1
  BY <1>1 DEF Front
<1>4. DOMAIN Front(s) = 1..Len(s) - 1
  BY <1>3
<1>5. \A i \in 1..Len(s) - 1 : Front(s)[i] = s[i]
  BY <1>1 DEF Front
<1> QED
  BY <1>1, <1>2, <1>3, <1>4, <1>5 DEF Last

\* The node on top is finished.
LEMMA FinishInv ==
  ASSUME SearchInv, stack # <<>>, Last(stack).left = {},
         deps' = deps, visited' = visited, stack' = Front(stack),
         finish_order' = Append(finish_order, Last(stack).node)
  PROVE  SearchInv'
<1> DEFINE n == Len(stack)
           u == stack[n].node
           m == Len(finish_order)
<1>1. /\ n \in Nat /\ n >= 1 /\ DOMAIN stack = 1..n /\ DOMAIN stack' = 1..n - 1
      /\ stack' \in Seq(Frame)
      /\ \A i \in 1..n - 1 : stack'[i] = stack[i]
      /\ stack[n] \in Frame /\ Last(stack) = stack[n] /\ stack[n].left = {}
  <2>1. stack \in Seq(Frame)
    BY DEF SearchInv, SearchTyped
  <2> QED
    BY <2>1, FrontShape
<1>2. u \in Evidence
  BY <1>1 DEF Frame
<1>3. /\ m \in Nat /\ DOMAIN finish_order = 1..m /\ DOMAIN finish_order' = 1..m + 1
      /\ finish_order' \in Seq(Evidence)
      /\ \A i \in 1..m : finish_order'[i] = finish_order[i]
      /\ finish_order'[m + 1] = u
      /\ \A i \in 1..m + 1 : i \in 1..m \/ i = m + 1
      /\ \A i \in 1..n : i \in 1..n - 1 \/ i = n
  <2>1. finish_order \in Seq(Evidence) /\ finish_order' = Append(finish_order, u)
    BY <1>1 DEF SearchInv, SearchTyped
  <2> HIDE DEF u, n
  <2>2. m \in Nat /\ DOMAIN finish_order = 1..m
    BY <2>1
  <2>3. finish_order' \in Seq(Evidence) /\ Len(finish_order') = m + 1
    BY <1>2, <2>1
  <2>4. DOMAIN finish_order' = 1..m + 1
    BY <2>3
  <2>5. \A i \in 1..m : finish_order'[i] = finish_order[i]
    BY <1>2, <2>1
  <2>6. finish_order'[m + 1] = u
    BY <1>2, <2>1
  <2> QED
    BY <1>1, <2>2, <2>3, <2>4, <2>5, <2>6
<1>7. /\ \A x \in Evidence : Reached(x)' = Reached(x)
      /\ \A x \in Evidence : Neighbours(x)' = Neighbours(x)
  BY ReachedKept
<1> HIDE DEF n, u, m
<1>4. SearchTyped'
  BY <1>1, <1>3 DEF SearchInv, SearchTyped
<1>5. /\ \A i \in 1..n - 1 : stack'[i] = stack[i] /\ i \in DOMAIN stack /\ i # n
      /\ n \in DOMAIN stack /\ stack[n].node = u
  BY <1>1 DEF u
<1>6. Once'
  <2>1. \A i, j \in DOMAIN finish_order' : finish_order'[i] = finish_order'[j] => i = j
    BY <1>3, <1>5 DEF SearchInv, Once
  <2>2. \A i \in DOMAIN stack', j \in DOMAIN finish_order' : stack'[i].node # finish_order'[j]
    BY <1>1, <1>3, <1>5 DEF SearchInv, Once
  <2>3. ASSUME NEW v \in visited'
        PROVE  \/ \E i \in DOMAIN stack' : stack'[i].node = v
               \/ \E j \in DOMAIN finish_order' : finish_order'[j] = v
    <3>1. CASE \E i \in DOMAIN stack : stack[i].node = v
      <4>1. PICK i \in 1..n : stack[i].node = v
        BY <1>1, <3>1
      <4>2. m + 1 \in 1..m + 1
        BY <1>3
      <4> QED
        BY <1>1, <1>3, <1>5, <4>1, <4>2
    <3>2. CASE \E j \in DOMAIN finish_order : finish_order[j] = v
      <4>1. PICK j \in 1..m : finish_order[j] = v
        BY <1>3, <3>2
      <4>2. j \in 1..m + 1
        BY <1>3
      <4> QED
        BY <1>3, <4>1, <4>2
    <3> QED
      BY <3>1, <3>2 DEF SearchInv, Once
  <2>4. \A j \in DOMAIN finish_order' : finish_order'[j] \in visited'
    BY <1>3, <1>5 DEF SearchInv, Once
  <2>5. \A i, j \in DOMAIN stack' : stack'[i].node = stack'[j].node => i = j
    BY <1>1, <1>5 DEF SearchInv, Once
  <2>6. \A i \in DOMAIN stack' : stack'[i].node \in visited'
    BY <1>1, <1>5 DEF SearchInv, Once
  <2> QED
    BY <2>1, <2>2, <2>3, <2>4, <2>5, <2>6 DEF Once
<1>8. ASSUME NEW i \in DOMAIN stack'
      PROVE  stack'[i].node \in Evidence /\ i \in DOMAIN stack
  <2>1. stack \in Seq(Frame) /\ i \in DOMAIN stack /\ stack'[i] = stack[i]
    BY <1>1, <1>5 DEF SearchInv, SearchTyped
  <2>2. stack[i] \in Frame
    BY <2>1
  <2> QED
    BY <2>1, <2>2 DEF Frame
<1>9. Way'
  <2>1. ASSUME NEW j \in DOMAIN stack', NEW i \in 1..j
        PROVE  /\ i \in DOMAIN stack'
               /\ stack'[j].node \in Reached(stack'[i].node)
    <3>1. i \in DOMAIN stack'
      BY <1>1
    <3> QED
      BY <1>1, <1>5, <3>1 DEF SearchInv, Way
  <2>2. ASSUME NEW i \in DOMAIN stack', NEW z \in Neighbours(stack'[i].node)
        PROVE  z \in stack'[i].left \/ z \in visited'
    BY <1>1, <1>5 DEF SearchInv, Way
  <2>3. ASSUME NEW i \in DOMAIN stack'
        PROVE  stack'[i].left \subseteq Neighbours(stack'[i].node)
    BY <1>1, <1>5 DEF SearchInv, Way
  <2> QED
    BY <1>7, <1>8, <2>1, <2>2, <2>3 DEF Way
<1>10. ASSUME NEW i \in DOMAIN stack PROVE u \in Reached(stack[i].node)
  BY <1>1, <1>5 DEF SearchInv, Way
<1>11. ASSUME NEW i \in DOMAIN finish_order', NEW z \in Neighbours(finish_order'[i])
       PROVE  /\ z \in visited'
              /\ \A j \in DOMAIN finish_order' : finish_order'[j] = z =>
                   j < i \/ \A k \in i..j : finish_order'[k] \in Reached(z)
              /\ \A j \in DOMAIN stack' : stack'[j].node = z =>
                   \A k \in DOMAIN finish_order' : k >= i => finish_order'[k] \in Reached(z)
  <2>1. CASE i \in 1..m
    <3>1. z \in Neighbours(finish_order[i])
      BY <1>3, <2>1
    <3>2. /\ z \in visited
          /\ \A j \in 1..m : finish_order[j] = z =>
               j < i \/ \A k \in i..j : finish_order[k] \in Reached(z)
          /\ \A j \in DOMAIN stack : stack[j].node = z =>
               \A k \in 1..m : k >= i => finish_order[k] \in Reached(z)
      BY <1>3, <2>1, <3>1 DEF SearchInv, Edges
    <3>3. ASSUME NEW j \in DOMAIN stack, stack[j].node = z,
                 NEW k \in DOMAIN finish_order', k >= i
          PROVE  finish_order'[k] \in Reached(z)
      <4>1. CASE k \in 1..m
        BY <1>3, <3>2, <3>3, <4>1
      <4>2. CASE k = m + 1
        BY <1>3, <1>10, <3>3, <4>2
      <4> QED
        BY <1>3, <4>1, <4>2
    <3>4. ASSUME NEW j \in DOMAIN finish_order', finish_order'[j] = z, ~(j < i),
                 NEW k \in i..j
          PROVE  finish_order'[k] \in Reached(z)
      <4>1. CASE j \in 1..m
        <5>1. k \in 1..m /\ finish_order[j] = z
          BY <1>3, <2>1, <3>4, <4>1
        <5> QED
          BY <1>3, <3>2, <3>4, <4>1, <5>1
      <4>2. CASE j = m + 1
        <5>1. k \in DOMAIN finish_order' /\ k >= i
          BY <1>3, <2>1, <4>2
        <5>2. stack[n].node = z
          BY <1>3, <1>5, <3>4, <4>2
        <5> QED
          BY <1>5, <3>3, <5>1, <5>2
      <4> QED
        BY <1>3, <4>1, <4>2
    <3> QED
      BY <1>1, <1>5, <3>2, <3>3, <3>4
  <2>2. CASE i = m + 1
    <3>1. z \in Neighbours(u) /\ z \in visited
      BY <1>1, <1>3, <1>5, <2>2 DEF SearchInv, Way
    <3>2. ASSUME NEW j \in DOMAIN stack, stack[j].node = z,
                 NEW k \in DOMAIN finish_order', k >= i
          PROVE  finish_order'[k] \in Reached(z)
      <4>1. k = m + 1
        BY <1>3, <2>2, <3>2
      <4> QED
        BY <1>3, <1>10, <3>2, <4>1
    <3>3. ASSUME NEW j \in DOMAIN finish_order', finish_order'[j] = z, ~(j < i),
                 NEW k \in i..j
          PROVE  finish_order'[k] \in Reached(z)
      <4>1. j = m + 1 /\ k = m + 1
        BY <1>3, <2>2, <3>3
      <4> QED
        BY <1>3, <1>5, <3>2, <3>3, <2>2, <4>1
    <3> QED
      BY <1>1, <1>5, <3>1, <3>2, <3>3
  <2> QED
    BY <1>3, <2>1, <2>2
<1>12. \A i \in DOMAIN finish_order' : finish_order'[i] \in Evidence
  BY <1>3
<1>13. \A i \in DOMAIN finish_order' : \A z \in Neighbours(finish_order'[i]) : z \in Evidence
  BY <1>12 DEF Neighbours
<1>14. Edges'
  BY <1>7, <1>11, <1>12, <1>13 DEF Edges
<1> QED
  BY <1>4, <1>6, <1>9, <1>14 DEF SearchInv

\* A neighbour that is visited already is passed over.
LEMMA PassInv ==
  ASSUME SearchInv, NEW below \in Seq(Frame), Len(below) = Len(stack),
         NEW next \in visited,
         \A i \in 1..Len(stack) : /\ below[i].node = stack[i].node
                                  /\ below[i].left \subseteq stack[i].left
                                  /\ stack[i].left \subseteq below[i].left \cup {next},
         deps' = deps, finish_order' = finish_order, visited' = visited, stack' = below
  PROVE  SearchInv'
<1>1. /\ DOMAIN stack' = DOMAIN stack /\ DOMAIN stack = 1..Len(stack)
      /\ \A i \in DOMAIN stack : /\ stack'[i].node = stack[i].node
                                 /\ stack'[i].left \subseteq stack[i].left
                                 /\ stack[i].left \subseteq stack'[i].left \cup {next}
  BY DEF SearchInv, SearchTyped
<1>2. /\ \A x \in Evidence : Reached(x)' = Reached(x)
      /\ \A x \in Evidence : Neighbours(x)' = Neighbours(x)
  BY ReachedKept
<1>3. SearchTyped'
  BY DEF SearchInv, SearchTyped
<1>4. Once'
  BY <1>1 DEF SearchInv, Once
<1>5. ASSUME NEW i \in DOMAIN stack PROVE stack[i].node \in Evidence
  <2>1. stack[i] \in Frame
    BY DEF SearchInv, SearchTyped
  <2> QED
    BY <2>1 DEF Frame
<1>6. Way'
  <2>1. ASSUME NEW j \in DOMAIN stack, NEW i \in 1..j
        PROVE  i \in DOMAIN stack /\ stack[j].node \in Reached(stack[i].node)
    BY <1>1 DEF SearchInv, Way, SearchTyped
  <2>2. ASSUME NEW i \in DOMAIN stack, NEW z \in Neighbours(stack[i].node)
        PROVE  z \in stack'[i].left \/ z \in visited
    BY <1>1 DEF SearchInv, Way
  <2>3. \A i \in DOMAIN stack : stack'[i].left \subseteq Neighbours(stack'[i].node)
    BY <1>1 DEF SearchInv, Way
  <2> QED
    BY <1>1, <1>2, <1>5, <2>1, <2>2, <2>3 DEF Way
<1>7. Edges'
  <2>1. \A i \in DOMAIN finish_order : finish_order[i] \in Evidence
    BY DEF SearchInv, SearchTyped
  <2>2. \A i \in DOMAIN finish_order : \A z \in Neighbours(finish_order[i]) : z \in Evidence
    BY <2>1 DEF Neighbours
  <2> QED
    BY <1>1, <1>2, <2>1, <2>2 DEF SearchInv, Edges
<1> QED
  BY <1>3, <1>4, <1>6, <1>7 DEF SearchInv

LEMMA SearchRootInv ==
  ASSUME SearchInv, SearchRoot
  PROVE  /\ SearchInv'
         /\ \/ phase' = "search"
            \/ phase' = "collect" /\ visited' = Evidence /\ stack' = <<>>
<1>1. CASE visited = Evidence
  <2>1. UNCHANGED <<deps, visited, stack, finish_order>> /\ phase' = "collect"
    BY <1>1 DEF SearchRoot, Outcomes
  <2> QED
    BY <1>1, <2>1, SearchKept DEF SearchRoot
<1>2. CASE visited # Evidence
  <2> DEFINE root == Min(Evidence \ visited)
  <2>1. root \in Evidence \ visited
    BY <1>2, MinIsLeast, EvidenceAssumption DEF SearchInv, SearchTyped
  <2>2. /\ stack = <<>> /\ visited' = visited \cup {root} /\ stack' = Push(<<>>, root)
        /\ finish_order' = finish_order /\ deps' = deps /\ phase' = "search"
    BY <1>2 DEF SearchRoot, Outcomes
  <2> HIDE DEF root
  <2>3. <<>> \in Seq(Frame) /\ Len(<<>>) = Len(stack) /\ 1..Len(stack) = {}
    BY <2>2
  <2> QED
    BY <2>1, <2>2, <2>3, PushInv
<1> QED
  BY <1>1, <1>2

LEMMA SearchStepInv ==
  ASSUME SearchInv, SearchStep
  PROVE  SearchInv' /\ phase' = "search"
<1> DEFINE top  == Last(stack)
           next == Min(top.left)
           rest == Append(Front(stack), [top EXCEPT !.left = @ \ {next}])
           n    == Len(stack)
<1>0. phase' = "search" /\ deps' = deps
  BY DEF SearchStep, Outcomes
<1>1. CASE top.left = {}
  BY <1>0, <1>1, FinishInv DEF SearchStep
<1>2. CASE top.left # {}
  <2>1. /\ visited' = visited \cup {next} /\ finish_order' = finish_order
        /\ stack' = IF next \in visited THEN rest ELSE Push(rest, next)
    BY <1>2 DEF SearchStep
  <2>2. stack \in Seq(Frame) /\ stack # <<>>
    BY DEF SearchInv, SearchTyped, SearchStep
  <2>3. /\ n \in Nat /\ n >= 1 /\ DOMAIN stack = 1..n
        /\ top = stack[n] /\ top \in Frame
        /\ Front(stack) \in Seq(Frame) /\ Len(Front(stack)) = n - 1
        /\ \A i \in 1..n - 1 : Front(stack)[i] = stack[i]
    BY <2>2, FrontShape
  <2>4. /\ top.left \in SUBSET Evidence /\ top.node \in Evidence
        /\ [top EXCEPT !.left = @ \ {next}] \in Frame
        /\ [top EXCEPT !.left = @ \ {next}].node = top.node
        /\ [top EXCEPT !.left = @ \ {next}].left = top.left \ {next}
    BY <2>3 DEF Frame
  <2>5. next \in top.left /\ next \in Evidence
    BY <1>2, <2>4, MinIsLeast, EvidenceAssumption
  <2>6. /\ rest \in Seq(Frame) /\ Len(rest) = n
        /\ \A i \in 1..n - 1 : rest[i] = stack[i]
        /\ rest[n] = [top EXCEPT !.left = @ \ {next}]
    <3> DEFINE low == [top EXCEPT !.left = @ \ {next}]
               front == Front(stack)
    <3>1. low \in Frame /\ front \in Seq(Frame) /\ Len(front) = n - 1 /\ rest = Append(front, low)
      BY <2>3, <2>4
    <3>2. \A i \in 1..n - 1 : front[i] = stack[i]
      BY <2>3
    <3> HIDE DEF low, front, rest, n
    <3>3. rest \in Seq(Frame) /\ Len(rest) = n
      BY <2>3, <3>1
    <3>4. \A i \in 1..n - 1 : rest[i] = stack[i]
      BY <2>3, <3>1, <3>2
    <3>5. rest[n] = low
      BY <2>3, <3>1
    <3> QED
      BY <3>3, <3>4, <3>5 DEF low
  <2> HIDE DEF rest, next, n, top
  <2>7. \A i \in 1..n : /\ rest[i].node = stack[i].node
                        /\ rest[i].left \subseteq stack[i].left
                        /\ stack[i].left \subseteq rest[i].left \cup {next}
    <3> SUFFICES ASSUME NEW i \in 1..n
                 PROVE  /\ rest[i].node = stack[i].node
                        /\ rest[i].left \subseteq stack[i].left
                        /\ stack[i].left \subseteq rest[i].left \cup {next}
      OBVIOUS
    <3>1. i \in 1..n - 1 \/ i = n
      BY <2>3
    <3> QED
      BY <2>3, <2>4, <2>6, <3>1
  <2>8. CASE next \in visited
    BY <1>0, <2>1, <2>6, <2>7, <2>8, PassInv DEF n
  <2>9. CASE next \notin visited
    <3>1. next \in Neighbours(stack[n].node)
      BY <2>3, <2>5 DEF SearchInv, Way
    <3>2. stack[n].node \in Evidence
      BY <2>3, <2>4
    <3>3. next \in Reached(stack[n].node)
      BY <3>1, <3>2, AlongSelf, AlongStep DEF Reached, Neighbours
    <3> QED
      BY <1>0, <2>1, <2>5, <2>6, <2>7, <2>9, <3>3, PushInv DEF n
  <2> QED
    BY <2>8, <2>9
<1> QED
  BY <1>1, <1>2

-----------------------------------------------------------------------------
(* The second search.                                                      *)

\* The nodes that require each other with e.
Class(e) == {m \in Reached(e) : e \in Reached(m)}

ClosedNodes == UNION components
OpenNodes == members \cup pending

CollectTyped ==
  /\ assigned \subseteq Evidence /\ pending \subseteq Evidence /\ members \subseteq Evidence
  /\ components \subseteq SUBSET Evidence

\* The components closed so far are classes and nothing outside requires them;
\* the open one is within the class of its root, which finished last of all that
\* are outside the closed ones.
CollectInv ==
  /\ assigned = ClosedNodes \cup OpenNodes
  /\ OpenNodes \cap ClosedNodes = {}
  /\ \A c \in components : c # {} /\ \A e \in c : c = Class(e)
  /\ \A n \in ClosedNodes : Dependants(n) \subseteq ClosedNodes
  /\ \A n \in members : Dependants(n) \subseteq assigned
  /\ OpenNodes # {} =>
       \E k \in DOMAIN finish_order :
         /\ \A i \in DOMAIN finish_order : finish_order[i] \notin ClosedNodes => i <= k
         /\ \A m \in OpenNodes : /\ m \in Reached(finish_order[k])
                                 /\ finish_order[k] \in Reached(m)

Found == components = {Class(e) : e \in Evidence}

Searched == visited = Evidence /\ stack = <<>>

\* The heart of the second search: who requires a member of the class of r and
\* finished before r is in that class.
LEMMA DependantInClass ==
  ASSUME SearchInv, Searched,
         NEW a \in DOMAIN finish_order, NEW r \in DOMAIN finish_order, a <= r,
         NEW q \in Neighbours(finish_order[a]),
         q \in Reached(finish_order[r]), finish_order[r] \in Reached(q)
  PROVE  /\ finish_order[a] \in Reached(finish_order[r])
         /\ finish_order[r] \in Reached(finish_order[a])
<1>1. /\ finish_order \in Seq(Evidence)
      /\ DOMAIN finish_order = 1..Len(finish_order) /\ Len(finish_order) \in Nat
      /\ \A i \in DOMAIN finish_order : finish_order[i] \in Evidence
  BY DEF SearchInv, SearchTyped
<1>2. \A v \in Evidence : \E j \in DOMAIN finish_order : finish_order[j] = v
  BY DEF SearchInv, Once, Searched
<1>3. q \in Evidence /\ q \in deps[finish_order[a]]
  BY DEF Neighbours
<1>4. finish_order[r] \in Reached(finish_order[a])
  <2>1. q \in Reached(finish_order[a])
    BY <1>1, <1>3, AlongSelf, AlongStep DEF Reached
  <2> QED
    BY <2>1, AlongTrans DEF Reached
<1>5. PICK b \in DOMAIN finish_order : finish_order[b] = q
  BY <1>2, <1>3
<1>6. CASE ~(b < a)
  <2>1. \A k \in a..b : finish_order[k] \in Reached(q)
    BY <1>5, <1>6 DEF SearchInv, Edges
  <2>2. finish_order[a] \in Reached(q)
    BY <1>1, <1>6, <2>1
  <2> QED
    BY <1>4, <2>2, AlongTrans DEF Reached
<1>7. CASE b < a
  <2> DEFINE S == {y \in Reached(q) : \E j \in DOMAIN finish_order :
                                        j < a /\ finish_order[j] = y}
  <2>1. q \in S /\ S \subseteq Evidence
    BY <1>3, <1>5, <1>7, AlongSelf DEF Reached, Along
  <2>2. finish_order[r] \notin S
    <3> SUFFICES ASSUME NEW j \in DOMAIN finish_order, j < a, finish_order[j] = finish_order[r]
                 PROVE  FALSE
      OBVIOUS
    <3>1. j = r
      BY DEF SearchInv, Once
    <3> QED
      BY <1>1, <3>1
  <2>3. ~Closed(Evidence, S)
    BY <2>1, <2>2, AlongWithin DEF Reached
  <2>4. PICK y \in S : ~(deps[y] \cap Evidence \subseteq S)
    BY <2>3 DEF Closed
  <2>5. PICK z \in deps[y] \cap Evidence : z \notin S
    BY <2>4
  <2>6. PICK i \in DOMAIN finish_order : i < a /\ finish_order[i] = y
    BY <2>5
  <2>7. z \in Reached(q)
    BY <2>5, AlongStep DEF Reached
  <2>8. PICK j \in DOMAIN finish_order : finish_order[j] = z
    BY <1>2, <2>5
  <2>9. ~(j < a)
    BY <2>5, <2>7, <2>8
  <2>10. z \in Neighbours(finish_order[i])
    BY <2>5, <2>6 DEF Neighbours
  <2>11. ~(j < i) /\ a \in i..j
    BY <1>1, <2>6, <2>9
  <2>12. finish_order[a] \in Reached(z)
    BY <2>8, <2>10, <2>11 DEF SearchInv, Edges
  <2>13. z \in Reached(finish_order[r])
    BY <2>7, AlongTrans DEF Reached
  <2> QED
    BY <1>4, <2>12, <2>13, AlongTrans DEF Reached
<1> QED
  BY <1>6, <1>7

LEMMA ClassKept ==
  ASSUME deps' = deps
  PROVE  /\ \A e \in Evidence : Class(e)' = Class(e)
         /\ \A n \in Evidence : Dependants(n)' = Dependants(n)
  BY DEF Class, Reached, Along, Dependants

\* Everything in a class has the same class.
LEMMA SameClass ==
  ASSUME NEW e \in Evidence, NEW m \in Class(e)
  PROVE  m \in Evidence /\ Class(m) = Class(e)
<1>1. m \in Reached(e) /\ e \in Reached(m) /\ m \in Evidence
  BY DEF Class, Reached, Along
<1>2. \A x : x \in Reached(m) <=> x \in Reached(e)
  BY <1>1, AlongTrans DEF Reached
<1>3. \A x : m \in Reached(x) <=> e \in Reached(x)
  BY <1>1, AlongTrans DEF Reached
<1> QED
  BY <1>1, <1>2, <1>3 DEF Class

LEMMA FinishedAll ==
  ASSUME SearchInv, Searched
  PROVE  /\ DOMAIN finish_order = 1..Len(finish_order) /\ Len(finish_order) \in Nat
         /\ \A i \in DOMAIN finish_order : finish_order[i] \in Evidence
         /\ \A v \in Evidence : \E j \in DOMAIN finish_order : finish_order[j] = v
<1>1. finish_order \in Seq(Evidence)
  BY DEF SearchInv, SearchTyped
<1>2. \A v \in Evidence : \E j \in DOMAIN finish_order : finish_order[j] = v
  BY DEF SearchInv, Once, Searched
<1> QED
  BY <1>1, <1>2

LEMMA CollectRootInv ==
  ASSUME SearchInv, Searched, CollectTyped, CollectInv, CollectRoot
  PROVE  /\ CollectTyped'
         /\ \/ phase' = "collect" /\ CollectInv'
            \/ phase' = "direct" /\ Found'
<1>1. /\ phase = "collect" /\ pending = {} /\ members = {} /\ OpenNodes = {}
      /\ UNCHANGED <<deps, visited, stack, finish_order, members, components>>
      /\ assigned = ClosedNodes
  BY DEF CollectRoot, FirstSearch, Outcomes, OpenNodes, CollectInv
<1>2. CASE assigned = Evidence
  <2>1. phase' = "direct" /\ UNCHANGED <<assigned, pending>>
    BY <1>2 DEF CollectRoot
  <2>2. \A c \in components : c \in {Class(e) : e \in Evidence}
    <3> SUFFICES ASSUME NEW c \in components PROVE c \in {Class(e) : e \in Evidence}
      OBVIOUS
    <3>1. PICK e \in c : c = Class(e)
      BY DEF CollectInv
    <3>2. e \in Evidence
      BY DEF CollectTyped
    <3> QED
      BY <3>1, <3>2
  <2>3. \A e \in Evidence : Class(e) \in components
    <3> SUFFICES ASSUME NEW e \in Evidence PROVE Class(e) \in components
      OBVIOUS
    <3>1. PICK c \in components : e \in c
      BY <1>1, <1>2 DEF ClosedNodes
    <3> QED
      BY <3>1 DEF CollectInv
  <2>4. components = {Class(e) : e \in Evidence}
    BY <2>2, <2>3
  <2>5. {Class(e) : e \in Evidence}' = {Class(e) : e \in Evidence}
    BY <1>1, ClassKept
  <2>6. Found'
    BY <1>1, <2>4, <2>5 DEF Found
  <2> QED
    BY <1>1, <2>1, <2>6 DEF CollectTyped
<1>3. CASE assigned # Evidence
  <2>1. Unassigned # {} /\ Unassigned \in SUBSET (1..Len(finish_order)) /\ Len(finish_order) \in Nat
    BY <1>3, FinishedAll DEF Unassigned, CollectTyped
  <2>2. PICK k \in Unassigned : k = Max(Unassigned) /\ \A i \in Unassigned : i <= k
    BY <2>1, MaxIsGreatest
  <2>3. PICK root \in Evidence :
          k \in DOMAIN finish_order /\ root = finish_order[k] /\ root \notin assigned
    BY <2>2, FinishedAll DEF Unassigned
  <2>4. assigned' = assigned \cup {root} /\ pending' = {root} /\ phase' = "collect"
    BY <1>1, <1>3, <2>2, <2>3 DEF CollectRoot
  <2>5. \A i \in DOMAIN finish_order : finish_order[i] \notin ClosedNodes => i <= k
    BY <1>1, <2>2 DEF Unassigned
  <2>6. root \in Reached(root)
    BY <2>3, AlongSelf DEF Reached
  <2>7. OpenNodes' = {root} /\ ClosedNodes' = ClosedNodes
    BY <1>1, <2>4 DEF OpenNodes, ClosedNodes
  <2>8. CollectTyped'
    BY <1>1, <2>4, <2>3 DEF CollectTyped
  <2>9. /\ \A e \in Evidence : Class(e)' = Class(e) /\ Reached(e)' = Reached(e)
        /\ \A n \in Evidence : Dependants(n)' = Dependants(n)
    BY <1>1, ClassKept, ReachedKept
  <2>10. ClosedNodes \subseteq Evidence
    BY DEF ClosedNodes, CollectTyped
  <2>11. assigned' = ClosedNodes' \cup OpenNodes'
    BY <1>1, <2>4, <2>7
  <2>12. OpenNodes' \cap ClosedNodes' = {}
    BY <1>1, <2>3, <2>7
  <2>13. \A c \in components' : c # {} /\ \A e \in c : c = Class(e)'
    BY <1>1, <2>9 DEF CollectInv, CollectTyped
  <2>14. \A n \in ClosedNodes' : Dependants(n)' \subseteq ClosedNodes'
    BY <2>7, <2>9, <2>10 DEF CollectInv
  <2>15. \E j \in DOMAIN finish_order' :
         /\ \A i \in DOMAIN finish_order' : finish_order'[i] \notin ClosedNodes' => i <= j
         /\ \A m \in OpenNodes' : /\ m \in Reached(finish_order[j])'
                                 /\ finish_order'[j] \in Reached(m)'
    <3>1. finish_order'[k] = root /\ Reached(root)' = Reached(root)
      BY <1>1, <2>3, <2>9
    <3> QED
      BY <1>1, <2>3, <2>5, <2>6, <2>7, <3>1
  <2> QED
    BY <1>1, <2>4, <2>8, <2>11, <2>12, <2>13, <2>14, <2>15 DEF CollectInv
<1> QED
  BY <1>2, <1>3

LEMMA CollectStepInv ==
  ASSUME SearchInv, Searched, CollectTyped, CollectInv, CollectStep
  PROVE  CollectTyped' /\ CollectInv' /\ phase' = "collect"
<1>1. PICK node \in pending : node = Min(pending)
  BY MinIsLeast, EvidenceAssumption DEF CollectStep, CollectTyped
<1>2. /\ phase' = "collect"
      /\ UNCHANGED <<deps, visited, stack, finish_order, components>>
      /\ pending' = (pending \ {node}) \cup (Dependants(node) \ assigned)
      /\ assigned' = assigned \cup Dependants(node)
      /\ members' = members \cup {node}
  BY <1>1 DEF CollectStep, FirstSearch, Outcomes
<1>3. node \in Evidence /\ Dependants(node) \subseteq Evidence /\ node \in OpenNodes
  BY <1>1 DEF CollectTyped, Dependants, OpenNodes
<1>4. /\ ClosedNodes' = ClosedNodes
      /\ OpenNodes' = OpenNodes \cup (Dependants(node) \ assigned)
  BY <1>1, <1>2 DEF ClosedNodes, OpenNodes
<1>5. CollectTyped'
  BY <1>2, <1>3 DEF CollectTyped
<1>6. /\ \A e \in Evidence : Class(e)' = Class(e) /\ Reached(e)' = Reached(e)
      /\ \A n \in Evidence : Dependants(n)' = Dependants(n)
  BY <1>2, ClassKept, ReachedKept
<1>7. ClosedNodes \subseteq Evidence /\ OpenNodes' \subseteq Evidence
  BY <1>2, <1>3 DEF ClosedNodes, OpenNodes, CollectTyped
<1>8. assigned' = ClosedNodes' \cup OpenNodes'
  BY <1>2, <1>4 DEF CollectInv
<1>9. OpenNodes' \cap ClosedNodes' = {}
  BY <1>4 DEF CollectInv
<1>10. \A c \in components' : c # {} /\ \A e \in c : c = Class(e)'
  BY <1>2, <1>6 DEF CollectInv, CollectTyped
<1>11. \A n \in ClosedNodes' : Dependants(n)' \subseteq ClosedNodes'
  BY <1>4, <1>6, <1>7 DEF CollectInv
<1>12. \A n \in members' : Dependants(n)' \subseteq assigned'
  BY <1>2, <1>3, <1>6 DEF CollectInv, CollectTyped
<1>13. \E k \in DOMAIN finish_order' :
         /\ \A i \in DOMAIN finish_order' : finish_order'[i] \notin ClosedNodes' => i <= k
         /\ \A m \in OpenNodes' : /\ m \in Reached(finish_order[k])'
                                 /\ finish_order'[k] \in Reached(m)'
  <2>1. PICK k \in DOMAIN finish_order :
          /\ \A i \in DOMAIN finish_order : finish_order[i] \notin ClosedNodes => i <= k
          /\ \A m \in OpenNodes : /\ m \in Reached(finish_order[k])
                                  /\ finish_order[k] \in Reached(m)
    BY <1>3 DEF CollectInv
  <2>2. PICK root \in Evidence : root = finish_order[k]
    BY FinishedAll
  <2>3. ASSUME NEW m \in OpenNodes'
        PROVE  m \in Reached(root) /\ root \in Reached(m)
    <3>1. CASE m \in OpenNodes
      BY <2>1, <2>2, <3>1
    <3>2. CASE m \in Dependants(node) \ assigned
      <4>1. PICK a \in DOMAIN finish_order : finish_order[a] = m
        BY <1>3, <3>2, FinishedAll
      <4>2. m \notin ClosedNodes
        BY <3>2 DEF CollectInv
      <4>3. a <= k
        BY <2>1, <4>1, <4>2
      <4>4. node \in Neighbours(finish_order[a])
        BY <1>3, <3>2, <4>1 DEF Dependants, Neighbours
      <4>5. node \in Reached(finish_order[k]) /\ finish_order[k] \in Reached(node)
        BY <1>3, <2>1
      <4> QED
        BY <2>2, <4>1, <4>3, <4>4, <4>5, DependantInClass
    <3> QED
      BY <1>4, <3>1, <3>2
  <2>4. finish_order'[k] = root /\ Reached(root)' = Reached(root)
    BY <1>2, <1>6, <2>2
  <2> QED
    BY <1>2, <1>4, <1>6, <1>7, <2>1, <2>3, <2>4
<1> QED
  BY <1>2, <1>5, <1>8, <1>9, <1>10, <1>11, <1>12, <1>13 DEF CollectInv

LEMMA CloseComponentInv ==
  ASSUME SearchInv, Searched, CollectTyped, CollectInv, CloseComponent
  PROVE  CollectTyped' /\ CollectInv' /\ phase' = "collect"
<1>1. /\ phase' = "collect" /\ pending = {} /\ members # {} /\ OpenNodes = members
      /\ UNCHANGED <<deps, visited, stack, finish_order, assigned, pending>>
      /\ components' = components \cup {members} /\ members' = {}
  BY DEF CloseComponent, FirstSearch, Outcomes, OpenNodes
<1>2. /\ ClosedNodes' = ClosedNodes \cup members
      /\ OpenNodes' = {}
      /\ ClosedNodes \subseteq Evidence /\ members \subseteq Evidence
  BY <1>1 DEF ClosedNodes, OpenNodes, CollectTyped
<1>3. CollectTyped'
  BY <1>1 DEF CollectTyped
<1>4. /\ \A e \in Evidence : Class(e)' = Class(e) /\ Reached(e)' = Reached(e)
      /\ \A n \in Evidence : Dependants(n)' = Dependants(n)
  BY <1>1, ClassKept, ReachedKept
<1>5. \A n \in ClosedNodes' : Dependants(n) \subseteq ClosedNodes'
  BY <1>1, <1>2 DEF CollectInv
\* Nothing outside a set that holds its dependants leads into it.
<1>6. ASSUME NEW S \in SUBSET Evidence, \A n \in S : Dependants(n) \subseteq S,
             NEW x \in Evidence \ S
      PROVE  Reached(x) \cap S = {}
  <2>1. Closed(Evidence, Evidence \ S)
    BY <1>6 DEF Closed, Dependants
  <2> QED
    BY <2>1, <1>6, AlongWithin DEF Reached
<1>7. ASSUME NEW e \in members PROVE members = Class(e)
  <2>1. PICK k \in DOMAIN finish_order :
          \A m \in OpenNodes : m \in Reached(finish_order[k]) /\ finish_order[k] \in Reached(m)
    BY <1>1 DEF CollectInv
  <2>2. members \subseteq Class(e)
    BY <1>1, <1>7, <2>1, AlongTrans DEF Class, Reached
  <2>3. e \in Evidence /\ e \notin ClosedNodes
    BY <1>1, <1>2, <1>7 DEF CollectInv
  <2>4. ASSUME NEW m \in Class(e) PROVE m \in members
    <3>1. m \in Reached(e) /\ e \in Reached(m) /\ m \in Evidence
      BY DEF Class, Reached, Along
    <3>2. m \notin ClosedNodes
      BY <1>2, <1>6, <2>3, <3>1 DEF CollectInv
    <3>3. m \in ClosedNodes'
      BY <1>2, <1>5, <1>6, <1>7, <3>1
    <3> QED
      BY <1>2, <3>2, <3>3
  <2> QED
    BY <2>2, <2>4
<1>8. assigned' = ClosedNodes' \cup OpenNodes' /\ OpenNodes' \cap ClosedNodes' = {}
  BY <1>1, <1>2 DEF CollectInv
<1>9. \A c \in components' : c # {} /\ \A e \in c : c = Class(e)'
  BY <1>1, <1>2, <1>4, <1>7 DEF CollectInv, CollectTyped
<1>10. ClosedNodes' \subseteq Evidence
  BY <1>2
<1>11. \A n \in ClosedNodes' : Dependants(n)' \subseteq ClosedNodes'
  BY <1>4, <1>5, <1>10
<1> QED
  BY <1>1, <1>2, <1>3, <1>8, <1>9, <1>11 DEF CollectInv

-----------------------------------------------------------------------------
(* Components and cycles.                                                  *)

LEMMA ComponentIsClass ==
  ASSUME Found, NEW e \in Evidence
  PROVE  ComponentOf(e) = Class(e)
<1>1. e \in Class(e) /\ Class(e) \in components
  BY AlongSelf DEF Found, Class, Reached
<1>2. \A c \in components : e \in c => c = Class(e)
  BY SameClass DEF Found
<1> QED
  BY <1>1, <1>2 DEF ComponentOf

LEMMA CyclicIsCycle ==
  ASSUME Found, NEW e \in Evidence
  PROVE  Cyclic(e) <=> OnCycle(e)
<1>1. e \in Class(e)
  BY AlongSelf DEF Class, Reached
<1>2. ASSUME NEW m \in Class(e), m # e PROVE OnCycle(e)
  <2>1. m \in Reached(e) /\ e \in Reached(m)
    BY DEF Class
  <2>2. PICK d \in Neighbours(e) : m \in Reached(d)
    BY <1>2, <2>1, AlongFirst DEF Reached, Neighbours
  <2>3. e \in Reached(d)
    BY <2>1, <2>2, AlongTrans DEF Reached
  <2> QED
    BY <2>2, <2>3 DEF OnCycle
<1>3. ASSUME e \in deps[e] PROVE OnCycle(e)
  BY <1>3, AlongSelf DEF OnCycle, Neighbours, Reached
<1>4. ASSUME NEW d \in Neighbours(e), e \in Reached(d) PROVE d \in Class(e)
  BY <1>4, AlongSelf, AlongStep DEF Class, Reached, Neighbours
<1>5. Cyclic(e) => OnCycle(e)
  <2>1. CASE Class(e) # {e}
    BY <1>1, <1>2, <2>1
  <2> QED
    BY <1>3, <2>1, ComponentIsClass DEF Cyclic
<1>6. OnCycle(e) => Cyclic(e)
  <2> SUFFICES ASSUME NEW d \in Neighbours(e), e \in Reached(d) PROVE Cyclic(e)
    BY DEF OnCycle
  <2>1. d \in Class(e)
    BY <1>4
  <2>2. CASE d = e
    BY <2>2 DEF Cyclic, Neighbours
  <2>3. CASE d # e
    BY <2>1, <2>3, ComponentIsClass DEF Cyclic
  <2> QED
    BY <2>2, <2>3
<1> QED
  BY <1>5, <1>6

-----------------------------------------------------------------------------
(* The outcomes.                                                           *)

Problems == {x \in Evidence : Problem(x)}
Acyclic  == {x \in Evidence : ~OnCycle(x)}
InvalidRoots == {x \in Acyclic : Direct(record[x], Context) = "invalidated"}

InDoubt == {e \in Evidence : values[e].state # "current"}
Refuted == {e \in Evidence : values[e].state = "invalidated"}

OutcomesTyped ==
  /\ record \in [Evidence -> {r \in Record : Admitted(r)}]
  /\ \A e \in Evidence : values[e].state \in EvidenceState

\* What outcomes say from the first round on, and why.
Sound ==
  /\ \A e \in Evidence : OnCycle(e) => values[e].state = "unknown"
  /\ \A e \in Acyclic : Direct(record[e], Context) # "current" => values[e].state # "current"
  /\ \A e \in InvalidRoots : values[e].state = "invalidated"
  /\ \A e \in InDoubt : Reached(e) \cap Problems # {}
  /\ \A e \in Refuted : e \in Acyclic /\ Along(Acyclic, e) \cap InvalidRoots # {}

\* Doubt, or invalidity, has got to all that directly requires it.
DoubtSpread ==
  \A e \in Evidence : \A d \in deps[e] :
    d \notin Evidence \/ d \in InDoubt \/ record[d].authority = "advisory" => e \in InDoubt
RefutedSpread ==
  \A e \in Acyclic : \A d \in deps[e] \cap Evidence : d \in Refuted => e \in Refuted

\* A round that changes nothing is the last one; any other adds evidence.
Rounds ==
  /\ round <= Cardinality(InDoubt) \/ DoubtSpread
  /\ round <= Cardinality(Refuted) \/ RefutedSpread
  /\ phase = "done" => DoubtSpread /\ RefutedSpread

LEMMA DirectTyped == ASSUME NEW r PROVE Direct(r, Context) \in EvidenceState
  BY DEF Direct, EvidenceState

LEMMA GraphKept ==
  ASSUME deps' = deps, record' = record
  PROVE  /\ \A e \in Evidence : OnCycle(e)' <=> OnCycle(e)
         /\ Problems' = Problems /\ Acyclic' = Acyclic /\ InvalidRoots' = InvalidRoots
         /\ \A e : Along(Acyclic, e)' = Along(Acyclic, e)
<1>1. \A e \in Evidence : OnCycle(e)' <=> OnCycle(e)
  BY DEF OnCycle, Reached, Along, Neighbours
<1>2. \A e \in Evidence : Problem(e)' <=> Problem(e)
  BY <1>1 DEF Problem
<1>3. Acyclic' = Acyclic
  BY <1>1 DEF Acyclic
<1>4. InvalidRoots' = InvalidRoots
  BY <1>3 DEF InvalidRoots
<1>5. Problems' = Problems
  BY <1>2 DEF Problems
<1>6. \A e : Along(Acyclic, e)' = Along(Acyclic, e)
  BY <1>3 DEF Along
<1> QED
  BY <1>1, <1>3, <1>4, <1>5, <1>6

\* What a round makes of one outcome.
LEMMA RoundOfOne ==
  ASSUME Found, OutcomesTyped, NEW e \in Evidence
  PROVE  /\ Propagated(e).state \in EvidenceState
         /\ OnCycle(e) => Propagated(e) = values[e]
         /\ e \in Refuted => Propagated(e) = values[e]
         /\ e \in Acyclic => (Propagated(e).state = "invalidated"
                                <=> e \in Refuted \/ deps[e] \cap Refuted # {})
         /\ e \in Acyclic => (Propagated(e).state # "current"
                                <=> \/ e \in InDoubt
                                    \/ \E d \in deps[e] : \/ d \notin Evidence
                                                          \/ d \in InDoubt
                                                          \/ record[d].authority = "advisory")
<1>1. Cyclic(e) <=> OnCycle(e)
  BY CyclicIsCycle
<1>2. Invalid(e) = deps[e] \cap Refuted
  BY DEF Invalid, Refuted
<1>3. values[e].state \in EvidenceState /\ \A d \in Evidence : values[d].state \in EvidenceState
  BY DEF OutcomesTyped
<1>4. e \in Refuted <=> values[e].state = "invalidated"
  BY DEF Refuted
<1>5. e \in InDoubt <=> values[e].state # "current"
  BY DEF InDoubt
<1>6. \A s, p : Outcome(s, p).state = s
  BY DEF Outcome
<1>7. \/ Invalid(e) # {} \/ Doubtful(e) # {}
      <=> \E d \in deps[e] : \/ d \notin Evidence
                             \/ d \in InDoubt
                             \/ record[d].authority = "advisory"
  BY <1>3 DEF Invalid, Doubtful, InDoubt, EvidenceState
<1>8. CASE Cyclic(e) \/ values[e].state = "invalidated"
  BY <1>1, <1>3, <1>4, <1>5, <1>8 DEF Propagated, Acyclic, EvidenceState
<1>9. CASE ~Cyclic(e) /\ values[e].state # "invalidated" /\ Invalid(e) # {}
  <2>1. Propagated(e) = Outcome("invalidated", PathVia(e, Invalid(e)))
    BY <1>9 DEF Propagated
  <2> QED
    BY <1>1, <1>2, <1>4, <1>6, <1>7, <1>9, <2>1 DEF EvidenceState
<1>10. CASE ~Cyclic(e) /\ values[e].state # "invalidated" /\ Invalid(e) = {}
  <2>1. CASE values[e].state = "unknown" \/ Doubtful(e) = {}
    <3>1. Propagated(e) = values[e]
      BY <1>10, <2>1 DEF Propagated
    <3> QED
      BY <1>1, <1>2, <1>3, <1>4, <1>5, <1>7, <1>10, <2>1, <3>1 DEF EvidenceState
  <2>2. CASE values[e].state # "unknown" /\ Doubtful(e) # {}
    <3>1. Propagated(e) = Outcome("unknown", PathVia(e, Doubtful(e)))
      BY <1>10, <2>2 DEF Propagated
    <3> QED
      BY <1>1, <1>2, <1>4, <1>6, <1>7, <1>10, <2>2, <3>1 DEF EvidenceState
  <2> QED
    BY <2>1, <2>2
<1> QED
  BY <1>8, <1>9, <1>10

RoundTyped == round \in 0..Cardinality(Evidence)

LEMMA Sizes ==
  /\ IsFiniteSet(Evidence) /\ Cardinality(Evidence) \in Nat /\ Cardinality(Evidence) >= 1
  /\ \A S \in SUBSET Evidence : /\ IsFiniteSet(S) /\ Cardinality(S) \in Nat
                                /\ Cardinality(S) <= Cardinality(Evidence)
                                /\ Cardinality(S) = Cardinality(Evidence) => S = Evidence
  /\ \A S, T \in SUBSET Evidence : S \subseteq T /\ S # T => Cardinality(S) + 1 <= Cardinality(T)
<1>1. IsFiniteSet(Evidence) /\ Evidence # {}
  BY EvidenceAssumption
<1>2. \A S \in SUBSET Evidence : IsFiniteSet(S) /\ Cardinality(S) \in Nat
  BY <1>1, FS_Subset, FS_CardinalityType
<1>3. \A S, T \in SUBSET Evidence :
        S \subseteq T /\ S # T => Cardinality(S) < Cardinality(T)
  BY <1>2, FS_Subset
<1>4. \A S \in SUBSET Evidence : Cardinality(S) <= Cardinality(Evidence)
  BY <1>1, FS_Subset
<1>5. Cardinality(Evidence) # 0
  BY <1>1, FS_EmptySet
<1> QED
  BY <1>1, <1>2, <1>3, <1>4, <1>5

LEMMA MarkDirectInv ==
  ASSUME Found, MarkDirect, round = 0
  PROVE  /\ OutcomesTyped' /\ Sound' /\ Rounds' /\ RoundTyped' /\ phase' = "propagate"
         /\ UNCHANGED <<deps, visited, stack, finish_order, assigned, pending, members, components>>
<1>1. /\ phase' = "propagate" /\ round' = 0
      /\ UNCHANGED <<deps, visited, stack, finish_order, assigned, pending, members, components>>
  BY DEF MarkDirect, search
<1>2. record' \in [Evidence -> {r \in Record : Admitted(r)}]
  BY DEF MarkDirect
<1>3. ASSUME NEW e \in Evidence
      PROVE  values'[e].state = IF OnCycle(e) THEN "unknown" ELSE Direct(record'[e], Context)
  <2>1. Cyclic(e) <=> OnCycle(e)
    BY CyclicIsCycle
  <2>2. values'[e] =
          IF Cyclic(e) THEN Outcome("unknown", <<e>> \o Sorted(ComponentOf(e) \ {e}))
          ELSE IF Direct(record'[e], Context) = "current" THEN Current
          ELSE Outcome(Direct(record'[e], Context), <<e>>)
    BY DEF MarkDirect
  <2>3. Current.state = "current" /\ \A s, p : Outcome(s, p).state = s
    BY DEF Current, Outcome
  <2> QED
    BY <2>1, <2>2, <2>3
<1>4. \A e \in Evidence : OnCycle(e)' <=> OnCycle(e)
  BY <1>1 DEF OnCycle, Reached, Along, Neighbours
<1>5. OutcomesTyped'
  BY <1>2, <1>3, DirectTyped DEF OutcomesTyped, EvidenceState
<1>6. \A e \in Evidence : e \in Acyclic' <=> ~OnCycle(e)
  BY <1>4 DEF Acyclic
<1>7. ASSUME NEW e \in InDoubt'
      PROVE  e \in Reached(e)' /\ e \in Problems'
  <2>1. e \in Evidence /\ values'[e].state # "current"
    BY DEF InDoubt
  <2>2. OnCycle(e) \/ Direct(record'[e], Context) # "current"
    BY <1>3, <2>1
  <2>3. Problem(e)'
    BY <1>4, <2>1, <2>2 DEF Problem
  <2>4. e \in Reached(e)'
    BY <2>1 DEF Reached, Along
  <2> QED
    BY <2>1, <2>3, <2>4 DEF Problems
<1>8. ASSUME NEW e \in Refuted'
      PROVE  e \in Acyclic' /\ e \in Along(Acyclic, e)' /\ e \in InvalidRoots'
  <2>1. e \in Evidence /\ values'[e].state = "invalidated"
    BY DEF Refuted
  <2>2. ~OnCycle(e) /\ Direct(record'[e], Context) = "invalidated"
    BY <1>3, <2>1
  <2>3. e \in Acyclic'
    BY <1>6, <2>1, <2>2
  <2> QED
    BY <2>2, <2>3 DEF InvalidRoots, Along
<1>9. Sound'
  <2>1. \A e \in Evidence : OnCycle(e)' => values'[e].state = "unknown"
    BY <1>3, <1>4
  <2>2. \A e \in Acyclic' : Direct(record'[e], Context) # "current" => values'[e].state # "current"
    BY <1>3, <1>6 DEF Acyclic
  <2>3. \A e \in InvalidRoots' : values'[e].state = "invalidated"
    BY <1>3, <1>6 DEF Acyclic, InvalidRoots
  <2> QED
    BY <2>1, <2>2, <2>3, <1>7, <1>8 DEF Sound
<1>10. Rounds' /\ RoundTyped'
  <2>1. InDoubt' \in SUBSET Evidence /\ Refuted' \in SUBSET Evidence
    BY DEF InDoubt, Refuted
  <2>2. Cardinality(InDoubt') \in Nat /\ Cardinality(Refuted') \in Nat
    BY <2>1, Sizes
  <2> QED
    BY <1>1, <2>2, Sizes DEF Rounds, RoundTyped
<1> QED
  BY <1>1, <1>5, <1>9, <1>10

LEMMA PropagateInv ==
  ASSUME Found, OutcomesTyped, Sound, Rounds, RoundTyped, round # Cardinality(Evidence), Propagate
  PROVE  /\ OutcomesTyped' /\ Sound' /\ Rounds' /\ RoundTyped'
         /\ phase' = "propagate" => round' # Cardinality(Evidence)
         /\ phase' \in {"propagate", "done"}
         /\ UNCHANGED <<deps, visited, stack, finish_order, assigned, pending, members, components>>
<1>1. /\ UNCHANGED <<deps, record>>
      /\ UNCHANGED <<deps, visited, stack, finish_order, assigned, pending, members, components>>
      /\ round' = round + 1
      /\ phase' = IF values' = values \/ round' = Cardinality(Evidence) THEN "done" ELSE "propagate"
      /\ \A e \in Evidence : values'[e] = Propagated(e)
  BY DEF Propagate, search
<1>2. OutcomesTyped'
  BY <1>1, RoundOfOne DEF OutcomesTyped
<1>3. RoundTyped' /\ round \in Nat
  BY <1>1, Sizes DEF RoundTyped
<1>4. \A e \in Acyclic : e \in Refuted' <=> e \in Refuted \/ deps[e] \cap Refuted # {}
  BY <1>1, RoundOfOne DEF Refuted, Acyclic
<1>5. \A e \in Acyclic : e \in InDoubt' <=>
        \/ e \in InDoubt
        \/ \E d \in deps[e] : d \notin Evidence \/ d \in InDoubt \/ record[d].authority = "advisory"
  BY <1>1, RoundOfOne DEF InDoubt, Acyclic
<1>6. \A e \in Evidence : OnCycle(e) =>
        values'[e] = values[e] /\ e \notin Refuted' /\ e \in InDoubt /\ e \in InDoubt'
  BY <1>1, RoundOfOne DEF Sound, Refuted, InDoubt
<1>7. Refuted' \subseteq Acyclic /\ Refuted \subseteq Acyclic
  BY <1>6 DEF Sound, Refuted, Acyclic
<1>8. Refuted \subseteq Refuted' /\ InDoubt \subseteq InDoubt'
  BY <1>4, <1>5, <1>6, <1>7 DEF Acyclic, InDoubt
<1>9. /\ \A e \in Evidence : OnCycle(e)' <=> OnCycle(e)
      /\ Problems' = Problems /\ Acyclic' = Acyclic /\ InvalidRoots' = InvalidRoots
      /\ \A e : Along(Acyclic, e)' = Along(Acyclic, e)
      /\ \A e \in Evidence : Reached(e)' = Reached(e)
  BY <1>1, GraphKept, ReachedKept
<1>10. ASSUME NEW e \in InDoubt' PROVE Reached(e) \cap Problems # {}
  <2>1. CASE e \in InDoubt
    BY <2>1 DEF Sound
  <2>2. CASE e \notin InDoubt
    <3>1. e \in Evidence /\ e \in Acyclic
      BY <1>6, <2>2 DEF InDoubt, Acyclic
    <3>2. PICK d \in deps[e] :
            d \notin Evidence \/ d \in InDoubt \/ record[d].authority = "advisory"
      BY <1>5, <2>2, <3>1
    <3>3. CASE d \in InDoubt
      <4>1. d \in Reached(e)
        BY <3>1, <3>3, AlongSelf, AlongStep DEF Reached, InDoubt
      <4>2. PICK x \in Problems : x \in Reached(d)
        BY <3>3 DEF Sound
      <4> QED
        BY <4>1, <4>2, AlongTrans DEF Reached
    <3>4. CASE d \notin Evidence \/ record[d].authority = "advisory"
      <4>1. e \in Problems
        BY <3>1, <3>4 DEF Problems, Problem
      <4> QED
        BY <3>1, <4>1, AlongSelf DEF Reached
    <3> QED
      BY <3>2, <3>3, <3>4
  <2> QED
    BY <2>1, <2>2
<1>11. ASSUME NEW e \in Refuted' PROVE e \in Acyclic /\ Along(Acyclic, e) \cap InvalidRoots # {}
  <2>1. CASE e \in Refuted
    BY <2>1 DEF Sound
  <2>2. CASE e \notin Refuted
    <3>1. e \in Acyclic
      BY <1>7
    <3>2. PICK d \in deps[e] : d \in Refuted
      BY <1>4, <2>2, <3>1
    <3>3. d \in Along(Acyclic, e)
      BY <1>7, <3>1, <3>2, AlongSelf, AlongStep
    <3>4. PICK x \in InvalidRoots : x \in Along(Acyclic, d)
      BY <3>2 DEF Sound
    <3> QED
      BY <3>1, <3>3, <3>4, AlongTrans
  <2> QED
    BY <2>1, <2>2
<1>12. Sound'
  <2>1. \A e \in Evidence : OnCycle(e)' => values'[e].state = "unknown"
    BY <1>6, <1>9 DEF Sound
  <2>2. \A e \in Acyclic : Direct(record[e], Context) # "current" => values'[e].state # "current"
    BY <1>8 DEF Sound, InDoubt, Acyclic
  <2>3. \A e \in InvalidRoots : values'[e].state = "invalidated"
    BY <1>8 DEF Sound, Refuted, InvalidRoots, Acyclic
  <2>4. \A e \in InDoubt' : e \in Evidence
    BY DEF InDoubt
  <2>5. \A e \in InDoubt' : Reached(e)' \cap Problems' # {}
    BY <1>9, <1>10, <2>4
  <2>6. \A e \in Refuted' : e \in Acyclic' /\ Along(Acyclic, e)' \cap InvalidRoots' # {}
    BY <1>9, <1>11
  <2> QED
    BY <1>1, <1>9, <2>1, <2>2, <2>3, <2>5, <2>6 DEF Sound
\* Once doubt has spread, another round changes nothing about it.
<1>13. DoubtSpread => InDoubt' = InDoubt /\ DoubtSpread'
  <2> SUFFICES ASSUME DoubtSpread PROVE InDoubt' = InDoubt /\ DoubtSpread'
    OBVIOUS
  <2>1. InDoubt' \subseteq InDoubt
    BY <1>5, <1>6 DEF DoubtSpread, Acyclic, InDoubt
  <2>2. InDoubt' = InDoubt
    BY <1>8, <2>1
  <2> QED
    BY <1>1, <2>2 DEF DoubtSpread
<1>14. RefutedSpread => Refuted' = Refuted /\ RefutedSpread'
  <2> SUFFICES ASSUME RefutedSpread PROVE Refuted' = Refuted /\ RefutedSpread'
    OBVIOUS
  <2>1. Refuted' \subseteq Refuted
    BY <1>4, <1>7 DEF RefutedSpread, Acyclic
  <2>2. Refuted' = Refuted
    BY <1>8, <2>1
  <2> QED
    BY <1>1, <1>9, <2>2 DEF RefutedSpread
<1>15. InDoubt' = InDoubt => DoubtSpread
  BY <1>5, <1>6 DEF DoubtSpread, Acyclic
<1>16. Refuted' = Refuted => RefutedSpread
  BY <1>4 DEF RefutedSpread
<1>17. InDoubt \in SUBSET Evidence /\ InDoubt' \in SUBSET Evidence
       /\ Refuted \in SUBSET Evidence /\ Refuted' \in SUBSET Evidence
  BY DEF InDoubt, Refuted
<1>18. round' <= Cardinality(InDoubt') \/ DoubtSpread'
  <2>1. CASE ~DoubtSpread
    <3>1. round <= Cardinality(InDoubt) /\ Cardinality(InDoubt) + 1 <= Cardinality(InDoubt')
      BY <1>8, <1>15, <1>17, <2>1, Sizes DEF Rounds
    <3>2. Cardinality(InDoubt) \in Nat /\ Cardinality(InDoubt') \in Nat
      BY <1>17, Sizes
    <3> QED
      BY <1>1, <1>3, <3>1, <3>2
  <2> QED
    BY <1>13, <2>1
<1>19. round' <= Cardinality(Refuted') \/ RefutedSpread'
  <2>1. CASE ~RefutedSpread
    <3>1. round <= Cardinality(Refuted) /\ Cardinality(Refuted) + 1 <= Cardinality(Refuted')
      BY <1>8, <1>16, <1>17, <2>1, Sizes DEF Rounds
    <3>2. Cardinality(Refuted) \in Nat /\ Cardinality(Refuted') \in Nat
      BY <1>17, Sizes
    <3> QED
      BY <1>1, <1>3, <3>1, <3>2
  <2> QED
    BY <1>14, <2>1
<1>20. phase' = "done" => DoubtSpread' /\ RefutedSpread'
  <2>1. CASE values' = values
    BY <1>13, <1>14, <1>15, <1>16, <2>1 DEF InDoubt, Refuted
  <2>2. CASE round' = Cardinality(Evidence)
    <3>1. DoubtSpread'
      <4>1. CASE round' <= Cardinality(InDoubt')
        <5>1. Cardinality(InDoubt') = Cardinality(Evidence)
          BY <1>17, <2>2, <4>1, Sizes
        <5>2. InDoubt' = Evidence
          BY <1>17, <5>1, Sizes
        <5> QED
          BY <5>2 DEF DoubtSpread
      <4> QED
        BY <1>18, <4>1
    <3>2. RefutedSpread'
      <4>1. CASE round' <= Cardinality(Refuted')
        <5>1. Cardinality(Refuted') = Cardinality(Evidence)
          BY <1>17, <2>2, <4>1, Sizes
        <5>2. Refuted' = Evidence
          BY <1>17, <5>1, Sizes
        <5> QED
          BY <5>2 DEF RefutedSpread, Acyclic
      <4> QED
        BY <1>19, <4>1
    <3> QED
      BY <3>1, <3>2
  <2> QED
    BY <1>1, <2>1, <2>2
<1> QED
  BY <1>1, <1>2, <1>3, <1>12, <1>18, <1>19, <1>20 DEF Rounds

-----------------------------------------------------------------------------
(* The invariant.                                                          *)

IInv ==
  /\ deps \in Graph /\ phase \in Phases
  /\ SearchInv /\ CollectTyped /\ RoundTyped
  /\ \A e \in Evidence : values[e].state \in EvidenceState
  /\ phase = "search" => assigned = {} /\ pending = {} /\ members = {} /\ components = {}
  /\ phase # "search" => Searched
  /\ phase = "collect" => CollectInv
  /\ phase \in {"search", "collect", "direct"} => round = 0
  /\ phase \in {"direct", "propagate", "done"} => Found
  /\ phase \in {"propagate", "done"} => OutcomesTyped /\ Sound /\ Rounds
  /\ phase = "propagate" => round # Cardinality(Evidence)

LEMMA InitInv == Init => IInv
<1> SUFFICES ASSUME Init PROVE IInv
  OBVIOUS
<1>1. deps \in [Evidence -> SUBSET (Evidence \cup Absent)]
  BY EvidenceAssumption DEF Init
<1>2. SearchInv
  <2>1. stack = <<>> /\ finish_order = <<>> /\ visited = {}
    BY DEF Init
  <2>2. SearchTyped
    BY <1>1, <2>1 DEF SearchTyped
  <2> QED
    BY <2>1, <2>2 DEF SearchInv, Once, Way, Edges
<1>3. RoundTyped
  BY Sizes DEF Init, RoundTyped
<1>4. \A e \in Evidence : values[e].state \in EvidenceState
  BY DEF Init, Current, EvidenceState
<1> QED
  BY <1>2, <1>3, <1>4 DEF Init, IInv, Phases, CollectTyped

LEMMA NextInv == IInv /\ [Next]_vars => IInv'
<1> SUFFICES ASSUME IInv, [Next]_vars PROVE IInv'
  OBVIOUS
<1>1. CASE SearchRoot
  <2>1. /\ phase = "search" /\ deps' = deps /\ values' = values /\ round' = round
        /\ UNCHANGED <<assigned, pending, members, components>>
    BY <1>1 DEF SearchRoot, Outcomes, SecondSearch
  <2>2. SearchInv
    BY DEF IInv
  <2>3. /\ SearchInv'
        /\ \/ phase' = "search"
           \/ phase' = "collect" /\ visited' = Evidence /\ stack' = <<>>
    BY <1>1, <2>2, SearchRootInv
  <2>4. CollectTyped' /\ RoundTyped'
    BY <2>1 DEF IInv, CollectTyped, RoundTyped
  <2>5. phase' = "collect" => Searched'
    BY <2>3 DEF Searched
  <2>6. CollectInv'
    BY <2>1 DEF IInv, CollectInv, ClosedNodes, OpenNodes
  <2> QED
    BY <2>1, <2>2, <2>3, <2>4, <2>5, <2>6 DEF IInv, Phases
<1>2. CASE SearchStep
  <2>1. /\ phase = "search" /\ deps' = deps /\ values' = values /\ round' = round
        /\ UNCHANGED <<assigned, pending, members, components>>
    BY <1>2 DEF SearchStep, Outcomes, SecondSearch
  <2>2. SearchInv' /\ phase' = "search"
    BY <1>2, SearchStepInv DEF IInv
  <2>3. CollectTyped' /\ RoundTyped'
    BY <2>1 DEF IInv, CollectTyped, RoundTyped
  <2> QED
    BY <2>1, <2>2, <2>3 DEF IInv, Phases
<1>3. ASSUME CollectRoot \/ CollectStep \/ CloseComponent PROVE IInv'
  <2>1. /\ phase = "collect" /\ UNCHANGED <<deps, visited, stack, finish_order, values, round>>
    BY <1>3 DEF CollectRoot, CollectStep, CloseComponent, FirstSearch, Outcomes
  <2>2. SearchInv /\ Searched /\ CollectTyped /\ CollectInv
    BY <2>1 DEF IInv
  <2>3. SearchInv' /\ Searched' /\ RoundTyped'
    BY <2>1, <2>2, SearchKept DEF IInv, Searched, RoundTyped
  <2>4. /\ CollectTyped'
        /\ \/ phase' = "collect" /\ CollectInv'
           \/ phase' = "direct" /\ Found'
    BY <1>3, <2>2, CollectRootInv, CollectStepInv, CloseComponentInv
  <2> QED
    BY <2>1, <2>3, <2>4 DEF IInv, Phases
<1>4. CASE MarkDirect
  <2>1. phase = "direct" /\ Found /\ Searched /\ round = 0
    BY <1>4 DEF MarkDirect, IInv
  <2>2. /\ OutcomesTyped' /\ Sound' /\ Rounds' /\ RoundTyped' /\ phase' = "propagate"
        /\ UNCHANGED <<deps, visited, stack, finish_order, assigned, pending, members, components>>
    BY <1>4, <2>1, MarkDirectInv
  <2>3. SearchInv' /\ Searched' /\ CollectTyped'
    BY <2>1, <2>2, SearchKept DEF IInv, Searched, CollectTyped
  <2>4. Found'
    BY <2>1, <2>2, ClassKept DEF Found
  <2>5. round' = 0 /\ round' # Cardinality(Evidence)
    BY <1>4, <2>1, Sizes DEF MarkDirect
  <2> QED
    BY <2>2, <2>3, <2>4, <2>5 DEF IInv, Phases, OutcomesTyped
<1>5. CASE Propagate
  <2>1. /\ phase = "propagate" /\ Found /\ Searched /\ OutcomesTyped /\ Sound /\ Rounds
        /\ RoundTyped /\ round # Cardinality(Evidence)
    BY <1>5 DEF Propagate, IInv
  <2>2. /\ OutcomesTyped' /\ Sound' /\ Rounds' /\ RoundTyped'
        /\ phase' = "propagate" => round' # Cardinality(Evidence)
        /\ phase' \in {"propagate", "done"}
        /\ UNCHANGED <<deps, visited, stack, finish_order, assigned, pending, members, components>>
    BY <1>5, <2>1, PropagateInv
  <2>3. SearchInv' /\ Searched' /\ CollectTyped'
    BY <2>1, <2>2, SearchKept DEF IInv, Searched, CollectTyped
  <2>4. Found'
    BY <2>1, <2>2, ClassKept DEF Found
  <2> QED
    BY <2>2, <2>3, <2>4 DEF IInv, Phases, OutcomesTyped
<1>6. CASE UNCHANGED vars
  <2>1. UNCHANGED <<deps, phase, visited, stack, finish_order, assigned, pending, members,
                    components, record, values, round>>
    BY <1>6 DEF vars, search
  <2>2. SearchInv' /\ (Searched' <=> Searched) /\ CollectTyped' /\ RoundTyped'
    BY <2>1, SearchKept DEF IInv, Searched, CollectTyped, RoundTyped
  <2>3. Found => Found'
    BY <2>1, ClassKept DEF Found
  <2>4. InDoubt' = InDoubt /\ Refuted' = Refuted
    BY <2>1 DEF InDoubt, Refuted
  <2>5. OutcomesTyped /\ Sound /\ Rounds => OutcomesTyped' /\ Sound' /\ Rounds'
    <3>1. OutcomesTyped => OutcomesTyped'
      BY <2>1 DEF OutcomesTyped
    <3>2. Rounds => Rounds'
      BY <2>1, <2>4, GraphKept DEF Rounds, DoubtSpread, RefutedSpread
    <3>3. ASSUME Sound PROVE Sound'
      <4>1. /\ \A e \in Evidence : OnCycle(e)' <=> OnCycle(e)
            /\ Problems' = Problems /\ Acyclic' = Acyclic /\ InvalidRoots' = InvalidRoots
            /\ \A e : Along(Acyclic, e)' = Along(Acyclic, e)
            /\ \A e \in Evidence : Reached(e)' = Reached(e)
        BY <2>1, GraphKept, ReachedKept
      <4>2. InDoubt \subseteq Evidence
        BY DEF InDoubt
      <4>3. \A e \in InDoubt' : Reached(e)' \cap Problems' # {}
        BY <2>4, <3>3, <4>1, <4>2 DEF Sound
      <4>4. \A e \in Refuted' : e \in Acyclic' /\ Along(Acyclic, e)' \cap InvalidRoots' # {}
        BY <2>4, <3>3, <4>1 DEF Sound
      <4> QED
        BY <2>1, <3>3, <4>1, <4>3, <4>4 DEF Sound
    <3> QED
      BY <3>1, <3>2, <3>3
  <2>6. CollectInv => CollectInv'
    BY <2>1 DEF CollectInv, ClosedNodes, OpenNodes, Class, Reached, Along, Dependants
  <2> QED
    BY <2>1, <2>2, <2>3, <2>5, <2>6 DEF IInv
<1> QED
  BY <1>1, <1>2, <1>3, <1>4, <1>5, <1>6 DEF Next

LEMMA Inductive == Spec => []IInv
BY InitInv, NextInv, PTL DEF Spec

-----------------------------------------------------------------------------
(* Theorems.                                                               *)

\* Every reachable state has the right types, for every graph: the searches
\* push and finish a node once, and the rounds stay within their bound.
THEOREM TypeCorrect == Spec => []TypeOK
<1>1. IInv => TypeOK
  <2> SUFFICES ASSUME IInv PROVE TypeOK
    OBVIOUS
  <2>1. IsInjective([i \in DOMAIN stack |-> stack[i].node]) /\ IsInjective(finish_order)
    BY DEF IInv, SearchInv, Once, IsInjective
  <2>2. ToSet(finish_order) \subseteq Evidence
    BY DEF IInv, SearchInv, SearchTyped, ToSet
  <2> QED
    BY <2>1, <2>2 DEF IInv, SearchInv, SearchTyped, CollectTyped, RoundTyped, TypeOK
<1> QED
  BY <1>1, Inductive, PTL

\* The two searches find the strongly connected components of every graph
\* (_strongly_connected_components).
THEOREM ComponentsFound == Spec => []ComponentsAreClasses
<1>1. IInv => ComponentsAreClasses
  BY DEF IInv, ComponentsAreClasses, Found, Class
<1> QED
  BY <1>1, Inductive, PTL

\* Evidence that is current when the rounds are over leads to no problem.
LEMMA CurrentHasNoProblem ==
  ASSUME IInv, phase = "done", NEW e \in Evidence, values[e].state = "current"
  PROVE  Reached(e) \cap Problems = {}
<1> DEFINE S == {n \in Evidence : values[n].state = "current"}
<1>1. OutcomesTyped /\ Sound /\ DoubtSpread
  BY DEF IInv, Rounds
<1>2. Closed(Evidence, S)
  BY <1>1 DEF Closed, DoubtSpread, InDoubt
<1>3. Reached(e) \subseteq S
  BY <1>2, AlongWithin DEF Reached
<1>4. ASSUME NEW x \in S PROVE x \notin Problems
  <2>1. ~OnCycle(x) /\ Direct(record[x], Context) = "current"
    BY <1>1 DEF Sound, Acyclic
  <2>2. \A d \in deps[x] : ~(d \notin Evidence \/ record[d].authority = "advisory")
    BY <1>1 DEF DoubtSpread, InDoubt
  <2> QED
    BY <2>1, <2>2 DEF Problems, Problem
<1> QED
  BY <1>3, <1>4

\* The bounded rounds (_propagate_to_fixed_point) reach what reachability
\* defines, for every graph and every mix of records: as many rounds as there
\* are pieces of evidence are always enough.
THEOREM RoundsReachAnswer == Spec => []AgreesWithReachability
<1>1. IInv => AgreesWithReachability
  <2> SUFFICES ASSUME IInv, phase = "done", NEW e \in Evidence
               PROVE  /\ values[e].state = "current" <=> Reached(e) \cap Problems = {}
                      /\ values[e].state = "invalidated" <=> e \in LeadsToInvalid
    BY DEF AgreesWithReachability, Problems
  <2>1. OutcomesTyped /\ Sound /\ RefutedSpread
    BY DEF IInv, Rounds
  <2>2. LeadsToInvalid = {x \in Acyclic : Along(Acyclic, x) \cap InvalidRoots # {}}
    BY DEF LeadsToInvalid, Acyclic, InvalidRoots
  <2>3. Reached(e) \cap Problems = {} => values[e].state = "current"
    BY <2>1 DEF Sound, InDoubt
  <2>4. values[e].state = "invalidated" => e \in LeadsToInvalid
    BY <2>1, <2>2 DEF Sound, Refuted
  <2>5. ASSUME e \in LeadsToInvalid, values[e].state # "invalidated" PROVE FALSE
    <3> DEFINE S == {n \in Acyclic : n \notin Refuted}
    <3>1. Closed(Acyclic, S)
      BY <2>1 DEF Closed, RefutedSpread, Acyclic
    <3>2. e \in S
      BY <2>2, <2>5 DEF Refuted
    <3>3. Along(Acyclic, e) \subseteq S
      BY <3>1, <3>2, AlongWithin
    <3>4. S \cap InvalidRoots = {}
      BY <2>1 DEF Sound, Refuted, Acyclic
    <3> QED
      BY <2>2, <2>5, <3>3, <3>4
  <2> QED
    BY <2>3, <2>4, <2>5, CurrentHasNoProblem
<1> QED
  BY <1>1, Inductive, PTL

\* Rounds only sharpen outcomes and an invalidated one stays, in any graph.
THEOREM RoundsSharpen == Spec => OnlySharpens
<1>1. IInv /\ [Next]_vars =>
        [phase = "propagate" => \A e \in Evidence :
           /\ Sharpness[values[e].state] <= Sharpness[values'[e].state]
           /\ values[e].state = "invalidated" => values'[e] = values[e]]_vars
  <2> SUFFICES ASSUME IInv, [Next]_vars, phase = "propagate", NEW e \in Evidence
               PROVE  /\ Sharpness[values[e].state] <= Sharpness[values'[e].state]
                      /\ values[e].state = "invalidated" => values'[e] = values[e]
    OBVIOUS
  <2>1. values[e].state \in EvidenceState
    BY DEF IInv
  <2>2. /\ Sharpness["current"] = 0 /\ Sharpness["unknown"] = 1
        /\ Sharpness["invalidated"] = 2
    BY DEF Sharpness, EvidenceState
  <2>3. CASE UNCHANGED vars
    BY <2>1, <2>2, <2>3 DEF vars, EvidenceState
  <2>4. CASE Propagate
    <3>1. values'[e] = Propagated(e)
      BY <2>4 DEF Propagate
    <3>2. Found /\ OutcomesTyped /\ Sound
      BY DEF IInv
    <3>3. /\ Propagated(e).state \in EvidenceState
          /\ OnCycle(e) => Propagated(e) = values[e]
          /\ values[e].state = "invalidated" => Propagated(e) = values[e]
          /\ ~OnCycle(e) /\ values[e].state # "current" => Propagated(e).state # "current"
      BY <3>2, RoundOfOne DEF Refuted, InDoubt, Acyclic
    <3> QED
      BY <2>1, <2>2, <3>1, <3>3 DEF EvidenceState
  <2>5. CASE Next /\ ~Propagate
    BY <2>5 DEF Next, SearchRoot, SearchStep, CollectRoot, CollectStep, CloseComponent,
       MarkDirect
  <2> QED
    BY <2>3, <2>4, <2>5
<1> QED
  BY <1>1, Inductive, PTL DEF Spec, OnlySharpens

\* max over the ranks of the verdicts finds one, whatever the findings.
LEMMA WorstVerdict ==
  ASSUME NEW F, \A f \in F : f.verdict \in Verdict
  PROVE  /\ Worst(F) \in Verdict
         /\ Worst(F) = "pass" \/ \E f \in F : f.verdict = Worst(F)
         /\ \A f \in F : VERDICT_RANK[f.verdict] <= VERDICT_RANK[Worst(F)]
<1>1. \A v \in Verdict : VERDICT_RANK[v] = CASE v = "pass" -> 0 [] v = "warn" -> 1
                                             [] v = "unknown" -> 2 [] v = "block" -> 3
  BY DEF VERDICT_RANK
<1>2. /\ VERDICT_RANK["pass"] = 0 /\ VERDICT_RANK["warn"] = 1
      /\ VERDICT_RANK["unknown"] = 2 /\ VERDICT_RANK["block"] = 3
      /\ Verdict = {"pass", "warn", "unknown", "block"}
  BY <1>1 DEF Verdict
<1> DEFINE Is(v) == /\ v = "pass" \/ \E f \in F : f.verdict = v
                    /\ \A f \in F : VERDICT_RANK[f.verdict] <= VERDICT_RANK[v]
<1>3. \E v \in Verdict : Is(v)
  <2>1. CASE \E f \in F : f.verdict = "block"
    <3>1. Is("block")
      BY <1>2, <2>1
    <3> QED
      BY <1>2, <3>1
  <2>2. CASE (\A f \in F : f.verdict # "block") /\ \E f \in F : f.verdict = "unknown"
    <3>1. Is("unknown")
      BY <1>2, <2>2
    <3> QED
      BY <1>2, <3>1
  <2>3. CASE (\A f \in F : f.verdict \notin {"block", "unknown"}) /\ \E f \in F : f.verdict = "warn"
    <3>1. Is("warn")
      BY <1>2, <2>3
    <3> QED
      BY <1>2, <3>1
  <2>4. CASE \A f \in F : f.verdict = "pass"
    <3>1. Is("pass")
      BY <1>2, <2>4
    <3> QED
      BY <1>2, <3>1
  <2> QED
    BY <1>2, <2>1, <2>2, <2>3, <2>4
<1> HIDE DEF Is
<1>4. Worst(F) = CHOOSE v \in Verdict : Is(v)
  BY DEF Worst, Is
<1>5. Worst(F) \in Verdict /\ Is(Worst(F))
  BY <1>3, <1>4
<1> QED
  BY <1>5 DEF Is

\* evaluate is monotone: more findings never make the verdict milder and never
\* get a transition allowed, and what a stricter profile allows, a milder one
\* allows.
THEOREM EvaluationMonotone ==
  ASSUME NEW G, \A g \in G : g.verdict \in Verdict, NEW F \in SUBSET G
  PROVE  /\ VERDICT_RANK[Worst(F)] <= VERDICT_RANK[Worst(G)]
         /\ \A profile \in Profile : Allowed(profile, G) => Allowed(profile, F)
         /\ Allowed("strict", G) => Allowed("guard", G)
         /\ Allowed("guard", G) => Allowed("observe", G)
<1>1. /\ VERDICT_RANK["pass"] = 0 /\ VERDICT_RANK["warn"] = 1
      /\ VERDICT_RANK["unknown"] = 2 /\ VERDICT_RANK["block"] = 3
  <2>1. \A v \in Verdict : VERDICT_RANK[v] = CASE v = "pass" -> 0 [] v = "warn" -> 1
                                               [] v = "unknown" -> 2 [] v = "block" -> 3
    BY DEF VERDICT_RANK
  <2> QED
    BY <2>1 DEF Verdict
<1>2. /\ Worst(F) \in Verdict /\ Worst(G) \in Verdict
      /\ Worst(F) = "pass" \/ \E f \in F : f.verdict = Worst(F)
      /\ \A g \in G : VERDICT_RANK[g.verdict] <= VERDICT_RANK[Worst(G)]
  BY WorstVerdict
<1>3. VERDICT_RANK[Worst(F)] <= VERDICT_RANK[Worst(G)]
  <2>1. CASE Worst(F) = "pass"
    BY <1>1, <1>2, <2>1 DEF Verdict
  <2>2. CASE \E f \in F : f.verdict = Worst(F)
    BY <1>2, <2>2
  <2> QED
    BY <1>2, <2>1, <2>2
<1>4. /\ Worst(G) \in {"pass", "warn"} => Worst(F) \in {"pass", "warn"}
      /\ Worst(G) = "pass" => Worst(F) = "pass"
  BY <1>1, <1>2, <1>3 DEF Verdict
<1> QED
  BY <1>3, <1>4 DEF Allowed, Profile

\* The worst of findings that block or are unknown is no warning and no pass.
LEMMA WorstOfDoubt ==
  ASSUME NEW F, F # {}, \A f \in F : f.verdict \in {"block", "unknown"}
  PROVE  Worst(F) \in {"block", "unknown"}
<1>1. /\ Worst(F) \in Verdict
      /\ Worst(F) = "pass" \/ \E f \in F : f.verdict = Worst(F)
      /\ \A f \in F : VERDICT_RANK[f.verdict] <= VERDICT_RANK[Worst(F)]
  BY WorstVerdict DEF Verdict
<1>2. Worst(F) # "pass"
  <2>1. PICK f \in F : f.verdict \in {"block", "unknown"}
    OBVIOUS
  <2>2. VERDICT_RANK[f.verdict] \in {2, 3} /\ VERDICT_RANK["pass"] = 0
    <3>1. \A v \in Verdict : VERDICT_RANK[v] = CASE v = "pass" -> 0 [] v = "warn" -> 1
                                                 [] v = "unknown" -> 2 [] v = "block" -> 3
      BY DEF VERDICT_RANK
    <3> QED
      BY <2>1, <3>1 DEF Verdict
  <2> QED
    BY <1>1, <2>1, <2>2
<1> QED
  BY <1>1, <1>2

\* findings_from_invalidations and evaluate: neither guard nor strict allows a
\* transition while any evidence requires something with a problem.
THEOREM DoubtRefused == Spec => []RefusesDoubtfulEvidence
<1>1. IInv => RefusesDoubtfulEvidence
  <2> SUFFICES ASSUME IInv, phase = "done", NEW profile \in {"guard", "strict"},
                      EvaluationResult(profile, Findings).transition_allowed,
                      NEW x \in Evidence
               PROVE  ~Problem(x)
    BY DEF RefusesDoubtfulEvidence
  <2>1. \A f \in Findings : f.verdict \in {"block", "unknown"}
    BY DEF Findings
  <2>2. Worst(Findings) \in {"pass", "warn"}
    BY DEF EvaluationResult, Allowed
  <2>3. Findings = {}
    BY <2>1, <2>2, WorstOfDoubt
  <2>4. values[x].state = "current"
    BY <2>3 DEF Findings
  <2>5. x \in Reached(x)
    BY AlongSelf DEF Reached
  <2> QED
    BY <2>4, <2>5, CurrentHasNoProblem DEF Problems
<1> QED
  BY <1>1, Inductive, PTL

\* What the constructor of EvidenceV1 lets pass and _evaluate_direct calls
\* current is proven.
LEMMA CurrentRecordIsProven ==
  ASSUME NEW r \in Record, Admitted(r), Direct(r, Context) = "current"
  PROVE  Proven(r)
  BY RecordAssumption
     DEF Admitted, WholeReceipt, Direct, Elsewhere, Observations, Required, CitationState, Proven

\* Whatever is current, and all it requires however indirectly, is proven.
THEOREM CurrentProven == Spec => []CurrentIsProven
<1>1. IInv => CurrentIsProven
  <2> SUFFICES ASSUME IInv, phase = "done", NEW e \in Evidence, values[e].state = "current",
                      NEW x \in Reached(e)
               PROVE  /\ Proven(record[x])
                      /\ \A d \in deps[x] : d \in Evidence /\ record[d].authority # "advisory"
    BY DEF CurrentIsProven
  <2>1. x \in Evidence /\ ~Problem(x)
    BY CurrentHasNoProblem DEF Problems, Reached, Along
  <2>2. Direct(record[x], Context) = "current"
    BY <2>1 DEF Problem
  <2>3. record[x] \in Record /\ Admitted(record[x])
    BY <2>1 DEF IInv, OutcomesTyped
  <2> QED
    BY <2>1, <2>2, <2>3, CurrentRecordIsProven DEF Problem
<1> QED
  BY <1>1, Inductive, PTL

-----------------------------------------------------------------------------
(* Sorting.                                                                *)

\* Sorted lists a finite set of numbers, each of them once.
LEMMA SortedLists ==
  ASSUME NEW S \in SUBSET Nat, IsFiniteSet(S)
  PROVE  /\ Sorted(S) \in Seq(S)
         /\ \A i, j \in DOMAIN Sorted(S) : Sorted(S)[i] = Sorted(S)[j] => i = j
<1> DEFINE n == Cardinality(S)
           upto(x) == {m \in S : m <= x}
<1>1. n \in Nat /\ ExistsBijection(1..n, S)
  BY FS_CardinalityType
<1>2. PICK s \in [1..n -> S] : IsInjective(s)
  <2>1. Bijection(1..n, S) # {}
    BY <1>1 DEF ExistsBijection
  <2> QED
    BY <2>1 DEF Bijection, Injection
<1> DEFINE rank == [i \in 1..n |-> Cardinality(upto(s[i]))]
<1> HIDE DEF n
<1>3. /\ \A i \in 1..n : s[i] \in Nat
      /\ \A i, j \in 1..n : s[i] = s[j] => i = j
  BY <1>1, <1>2 DEF IsInjective
<1>4. \A x \in Nat : /\ IsFiniteSet(upto(x))
                     /\ Cardinality(upto(x)) \in Nat /\ Cardinality(upto(x)) <= n
  BY FS_Subset, FS_CardinalityType, <1>1 DEF n
<1>5. \A x, y \in S : x < y => Cardinality(upto(x)) < Cardinality(upto(y))
  <2> SUFFICES ASSUME NEW x \in S, NEW y \in S, x < y
               PROVE  Cardinality(upto(x)) < Cardinality(upto(y))
    OBVIOUS
  <2>1. x \in Nat /\ y \in Nat /\ \A m \in S : m \in Nat
    OBVIOUS
  <2>2. upto(x) \in SUBSET upto(y)
    <3> SUFFICES ASSUME NEW m \in S, m <= x PROVE m <= y
      OBVIOUS
    <3>1. m \in Nat
      OBVIOUS
    <3> QED
      BY <2>1, <3>1
  <2>3. y \in upto(y) /\ y \notin upto(x)
    BY <2>1
  <2>4. IsFiniteSet(upto(y)) /\ Cardinality(upto(x)) \in Nat /\ Cardinality(upto(y)) \in Nat
    BY <1>4, <2>1
  <2> HIDE DEF upto
  <2>5. /\ Cardinality(upto(x)) <= Cardinality(upto(y))
        /\ Cardinality(upto(y)) = Cardinality(upto(x)) => upto(y) = upto(x)
    BY <2>2, <2>4, FS_Subset
  <2> QED
    BY <2>3, <2>4, <2>5
<1>6. \A x \in S : Cardinality(upto(x)) >= 1
  <2> SUFFICES ASSUME NEW x \in S PROVE Cardinality(upto(x)) >= 1
    OBVIOUS
  <2>1. x \in upto(x) /\ x \in Nat
    OBVIOUS
  <2>2. IsFiniteSet(upto(x)) /\ Cardinality(upto(x)) \in Nat
    BY <1>4, <2>1
  <2> HIDE DEF upto
  <2> QED
    BY <2>1, <2>2, FS_EmptySet
<1> HIDE DEF upto
<1>7. /\ rank \in [1..n -> 1..n]
      /\ \A i, j \in 1..n : rank[i] = rank[j] => i = j
      /\ \A i, j \in 1..n : rank[i] < rank[j] => s[i] < s[j]
  <2>1. \A i \in 1..n : s[i] \in S /\ s[i] \in Nat
    BY <1>2, <1>3
  <2>2. \A i \in 1..n : Cardinality(upto(s[i])) \in 1..n
    BY <1>1, <1>4, <1>6, <2>1
  <2>3. \A i, j \in 1..n : ~(s[i] < s[j]) => s[i] = s[j] \/ s[j] < s[i]
    BY <2>1
  <2>4. \A i \in 1..n : rank[i] = Cardinality(upto(s[i]))
    OBVIOUS
  <2>5. \A i \in 1..n : rank[i] \in 1..n
    BY <2>2
  <2>7. \A i, j \in 1..n : s[i] < s[j] => rank[i] < rank[j]
    <3> HIDE DEF rank
    <3> SUFFICES ASSUME NEW i \in 1..n, NEW j \in 1..n, s[i] < s[j] PROVE rank[i] < rank[j]
      OBVIOUS
    <3>1. s[i] \in S /\ s[j] \in S
      BY <2>1
    <3>2. Cardinality(upto(s[i])) < Cardinality(upto(s[j]))
      BY <1>5, <3>1
    <3> QED
      BY <2>4, <3>2
  <2>6. rank \in [1..n -> 1..n]
    BY <2>5
  <2> HIDE DEF rank
  <2>8. ASSUME NEW i \in 1..n, NEW j \in 1..n, ~(s[i] < s[j]) PROVE rank[j] <= rank[i]
    <3>1. rank[i] \in Nat /\ rank[j] \in Nat
      BY <1>1, <2>5
    <3>2. CASE s[i] = s[j]
      <4>1. i = j
        BY <1>3, <3>2
      <4> QED
        BY <3>1, <4>1
    <3>3. CASE s[j] < s[i]
      BY <2>7, <3>1, <3>3
    <3> QED
      BY <2>3, <2>8, <3>2, <3>3
  <2>9. ASSUME NEW i \in 1..n, NEW j \in 1..n, rank[i] = rank[j] PROVE i = j
    <3>1. rank[i] \in Nat
      BY <1>1, <2>5
    <3>2. ~(s[i] < s[j]) /\ ~(s[j] < s[i])
      BY <2>7, <2>9, <3>1
    <3> QED
      BY <1>3, <2>3, <3>2
  <2>10. \A i, j \in 1..n : rank[i] < rank[j] => s[i] < s[j]
    <3> SUFFICES ASSUME NEW i \in 1..n, NEW j \in 1..n, rank[i] < rank[j], ~(s[i] < s[j])
                 PROVE  FALSE
      OBVIOUS
    <3>1. rank[i] \in Nat /\ rank[j] \in Nat /\ rank[j] <= rank[i]
      BY <1>1, <2>5, <2>8
    <3> QED
      BY <3>1
  <2> QED
    BY <2>6, <2>9, <2>10
<1> HIDE DEF rank
<1>8. \A k \in 1..n : \E i \in 1..n : rank[i] = k
  <2>1. rank \in Injection(1..n, 1..n)
    BY <1>7 DEF Injection, IsInjective
  <2>2. IsFiniteSet(1..n)
    BY <1>1, FS_Interval
  <2>3. rank \in Surjection(1..n, 1..n)
    BY <2>1, <2>2, FS_Injection
  <2> QED
    BY <2>3 DEF Surjection
<1> DEFINE p == [k \in 1..n |-> CHOOSE i \in 1..n : rank[i] = k]
<1>9. \A k \in 1..n : p[k] \in 1..n /\ rank[p[k]] = k
  BY <1>8
<1>10. p \in [1..n -> 1..n]
  BY <1>9
<1> HIDE DEF p
<1>11. \A i, j \in 1..n : i < j => s[p[i]] < s[p[j]]
  BY <1>7, <1>9, <1>10
<1> DEFINE t == [k \in 1..n |-> s[p[k]]]
           Ascending(f) == \A i, j \in DOMAIN f : i < j => f[i] < f[j]
<1>12. t \in [1..n -> S] /\ Ascending(t)
  BY <1>2, <1>10, <1>11
<1> HIDE DEF t
<1>13. Sorted(S) \in [1..n -> S] /\ Ascending(Sorted(S))
  BY <1>12 DEF Sorted, n
<1>14. \A i, j \in 1..n : Sorted(S)[i] = Sorted(S)[j] => i = j
  <2>1. \A i \in 1..n : Sorted(S)[i] \in Nat
    BY <1>13
  <2>2. \A i, j \in 1..n : i < j => Sorted(S)[i] < Sorted(S)[j]
    BY <1>13
  <2> QED
    BY <1>1, <2>1, <2>2
<1>15. Sorted(S) \in Seq(S) /\ DOMAIN Sorted(S) = 1..n
  BY <1>1, <1>13
<1> QED
  BY <1>14, <1>15

-----------------------------------------------------------------------------
(* Paths.                                                                  *)

Ids == Evidence \cup Absent

\* From stop on, a path lists the class of a cycle.
Circles(path, stop) ==
  /\ path[stop] \in Evidence /\ OnCycle(path[stop])
  /\ \A i \in stop..Len(path) : path[i] \in Class(path[stop])

\* A path stops at what has that state of its own, or leaves its predecessor in
\* doubt.
Grounded(path, stop, state) ==
  LET root == path[stop]
  IN  /\ stop = Len(path)
      /\ root \in Evidence => root \in Acyclic
      /\ \/ root \in Evidence /\ Direct(record[root], Context) = state
         \/ /\ state = "unknown"
            /\ root \in Evidence => stop > 1 /\ record[root].authority = "advisory"

\* Why e has that state: along required dependencies, off all cycles, to a root.
Explains(e, path, state) ==
  /\ path \in Seq(Ids) /\ path # <<>> /\ path[1] = e
  /\ \A i, j \in DOMAIN path : path[i] = path[j] => i = j
  /\ \A i \in DOMAIN path : path[i] \in Evidence => path[i] \in Reached(e)
  /\ \E stop \in DOMAIN path :
       /\ \A i \in 1..stop - 1 : path[i] \in Acyclic /\ path[i + 1] \in deps[path[i]]
       /\ (Circles(path, stop) /\ state = "unknown") \/ Grounded(path, stop, state)

\* An outcome that is current has no path, any other has one that explains it.
PathInv ==
  \A e \in Evidence : \E path, state :
    /\ values[e].path = path /\ values[e].state = state
    /\ IF state = "current" THEN path = <<>> ELSE Explains(e, path, state)

\* What evidence on a cycle is depends on no record.
LEMMA ExplainsKept ==
  ASSUME deps' = deps,
         NEW e \in Evidence, record' = record \/ OnCycle(e),
         NEW path, NEW state, Explains(e, path, state)
  PROVE  Explains(e, path, state)'
<1>1. /\ Reached(e)' = Reached(e) /\ Acyclic' = Acyclic
      /\ \A x \in Evidence : OnCycle(x)' <=> OnCycle(x)
      /\ \A x \in Evidence : Class(x)' = Class(x)
  <2>1. \A x \in Evidence : OnCycle(x)' <=> OnCycle(x)
    BY DEF OnCycle, Reached, Along, Neighbours
  <2>2. Acyclic' = Acyclic
    BY <2>1 DEF Acyclic
  <2> QED
    BY <2>1, <2>2, ReachedKept, ClassKept
<1>2. PICK stop \in DOMAIN path :
        /\ \A i \in 1..stop - 1 : path[i] \in Acyclic /\ path[i + 1] \in deps[path[i]]
        /\ (Circles(path, stop) /\ state = "unknown") \/ Grounded(path, stop, state)
  BY DEF Explains
<1>3. Circles(path, stop) => Circles(path, stop)'
  BY <1>1 DEF Circles
<1>4. Grounded(path, stop, state) => Grounded(path, stop, state)'
  <2>1. CASE record' = record
    BY <1>1, <2>1 DEF Grounded
  <2>2. CASE OnCycle(e) /\ Grounded(path, stop, state)
    <3>1. path[1] = e /\ e \notin Acyclic /\ path \in Seq(Ids)
      BY <2>2 DEF Explains, Acyclic
    <3>2. stop \in Nat /\ stop >= 1
      BY <3>1
    <3>3. ~(1 \in 1..stop - 1)
      BY <1>2, <3>1
    <3>4. stop = 1
      BY <3>2, <3>3
    <3> QED
      BY <2>2, <3>1, <3>4 DEF Grounded
  <2> QED
    BY <2>1, <2>2
<1>5. \A i \in 1..stop - 1 : path[i] \in Acyclic' /\ path[i + 1] \in deps'[path[i]]
  BY <1>1, <1>2
<1>6. /\ path \in Seq(Ids) /\ path # <<>> /\ path[1] = e
      /\ \A i, j \in DOMAIN path : path[i] = path[j] => i = j
      /\ \A i \in DOMAIN path : path[i] \in Evidence => path[i] \in Reached(e)'
  BY <1>1 DEF Explains
<1> QED
  BY <1>2, <1>3, <1>4, <1>5, <1>6 DEF Explains

\* A node before a path.
LEMMA Prepended ==
  ASSUME NEW T, NEW x \in T, NEW p \in Seq(T)
  PROVE  LET q == <<x>> \o p
         IN  /\ q \in Seq(T) /\ Len(p) \in Nat /\ Len(q) = Len(p) + 1
             /\ DOMAIN p = 1..Len(p) /\ DOMAIN q = 1..Len(p) + 1
             /\ q[1] = x /\ \A i \in 1..Len(p) : q[i + 1] = p[i]
             /\ \A j \in 1..Len(p) + 1 : j = 1 \/ (j - 1 \in 1..Len(p) /\ q[j] = p[j - 1])
<1> DEFINE q == <<x>> \o p
<1>1. q \in Seq(T) /\ Len(p) \in Nat /\ Len(q) = Len(p) + 1
  OBVIOUS
<1>2. DOMAIN p = 1..Len(p) /\ DOMAIN q = 1..Len(p) + 1
  BY <1>1
<1>3. q[1] = x /\ \A i \in 1..Len(p) : q[i + 1] = p[i]
  OBVIOUS
<1>4. \A j \in 1..Len(p) + 1 : j = 1 \/ (j - 1 \in 1..Len(p) /\ q[j] = p[j - 1])
  <2> SUFFICES ASSUME NEW j \in 1..Len(p) + 1, j # 1
               PROVE  j - 1 \in 1..Len(p) /\ q[j] = p[j - 1]
    OBVIOUS
  <2>1. j - 1 \in 1..Len(p) /\ (j - 1) + 1 = j
    BY <1>1
  <2> HIDE DEF q
  <2> QED
    BY <1>3, <2>1
<1> QED
  BY <1>1, <1>2, <1>3, <1>4

\* What explains a required dependency explains, behind e, what e takes from it.
LEMMA ExplainsVia ==
  ASSUME NEW e \in Acyclic, NEW d \in deps[e], d \in Evidence,
         NEW p, NEW s, Explains(d, p, s)
  PROVE  Explains(e, <<e>> \o p, s)
<1> DEFINE q == <<e>> \o p
           n == Len(p)
<1>1. e \in Evidence /\ ~OnCycle(e) /\ e \in Ids
  BY DEF Acyclic, Ids
<1>2. /\ p \in Seq(Ids) /\ p # <<>> /\ p[1] = d
      /\ \A i, j \in DOMAIN p : p[i] = p[j] => i = j
      /\ \A i \in DOMAIN p : p[i] \in Evidence => p[i] \in Reached(d)
  BY DEF Explains
<1>3. /\ q \in Seq(Ids) /\ n \in Nat /\ Len(q) = n + 1
      /\ DOMAIN p = 1..n /\ DOMAIN q = 1..n + 1
      /\ q[1] = e /\ \A i \in 1..n : q[i + 1] = p[i]
      /\ \A j \in 1..n + 1 : j = 1 \/ (j - 1 \in 1..n /\ q[j] = p[j - 1])
  BY <1>1, <1>2, Prepended
<1> HIDE DEF q, n
<1>4. \A x \in Reached(d) : x \in Reached(e)
  <2>1. d \in Reached(e)
    BY <1>1, AlongSelf, AlongStep DEF Reached
  <2> QED
    BY <2>1, AlongTrans DEF Reached
<1>5. \A i \in 1..n : p[i] # e
  <2>1. e \notin Reached(d)
    BY <1>1 DEF OnCycle, Neighbours
  <2> QED
    BY <1>1, <1>2, <1>3, <2>1
<1>6. \A i, j \in DOMAIN q : q[i] = q[j] => i = j
  <2> SUFFICES ASSUME NEW i \in 1..n + 1, NEW j \in 1..n + 1, q[i] = q[j] PROVE i = j
    BY <1>3
  <2>1. CASE i = 1 /\ j = 1
    BY <2>1
  <2>2. CASE i = 1 /\ j # 1
    BY <1>3, <1>5, <2>2
  <2>3. CASE i # 1 /\ j = 1
    BY <1>3, <1>5, <2>3
  <2>4. CASE i # 1 /\ j # 1
    <3>1. /\ i - 1 \in 1..n /\ q[i] = p[i - 1]
          /\ j - 1 \in 1..n /\ q[j] = p[j - 1]
      BY <1>3, <2>4
    <3>2. i - 1 = j - 1
      BY <1>2, <1>3, <3>1
    <3> QED
      BY <3>2, <1>3
  <2> QED
    BY <2>1, <2>2, <2>3, <2>4
<1>7. \A i \in DOMAIN q : q[i] \in Evidence => q[i] \in Reached(e)
  <2>1. e \in Reached(e)
    BY <1>1, AlongSelf DEF Reached
  <2> QED
    BY <1>2, <1>3, <1>4, <2>1
<1>8. PICK stop \in DOMAIN p :
        /\ \A i \in 1..stop - 1 : p[i] \in Acyclic /\ p[i + 1] \in deps[p[i]]
        /\ (Circles(p, stop) /\ s = "unknown") \/ Grounded(p, stop, s)
  BY DEF Explains
<1>9. stop \in 1..n /\ stop + 1 \in DOMAIN q /\ q[stop + 1] = p[stop]
  BY <1>3
<1>10. \A i \in 1..(stop + 1) - 1 : q[i] \in Acyclic /\ q[i + 1] \in deps[q[i]]
  <2>0. (stop + 1) - 1 = stop
    BY <1>3, <1>9
  <2> SUFFICES ASSUME NEW i \in 1..stop PROVE q[i] \in Acyclic /\ q[i + 1] \in deps[q[i]]
    BY <2>0
  <2>1. CASE i = 1
    BY <1>2, <1>3, <1>9, <2>1
  <2>2. CASE i # 1
    <3>1. i - 1 \in 1..stop - 1 /\ i - 1 \in 1..n /\ i \in 1..n /\ (i - 1) + 1 = i /\ i \in 1..n + 1
      BY <1>3, <1>9, <2>2
    <3>2. q[i] = p[i - 1] /\ q[i + 1] = p[i]
      BY <1>3, <2>2, <3>1
    <3>3. p[i - 1] \in Acyclic /\ p[(i - 1) + 1] \in deps[p[i - 1]]
      BY <1>8, <3>1
    <3> QED
      BY <3>1, <3>2, <3>3
  <2> QED
    BY <2>1, <2>2
<1>11. Circles(p, stop) => Circles(q, stop + 1)
  <2> SUFFICES ASSUME Circles(p, stop), NEW i \in stop + 1..Len(q)
               PROVE  q[i] \in Class(p[stop])
    BY <1>9 DEF Circles
  <2>1. i \in 1..n + 1 /\ i # 1 /\ i - 1 \in stop..n
    BY <1>3, <1>9
  <2>2. q[i] = p[i - 1]
    BY <1>3, <2>1
  <2> QED
    BY <2>1, <2>2 DEF Circles, n
<1>12. Grounded(p, stop, s) => Grounded(q, stop + 1, s)
  <2>1. stop = Len(p) => stop + 1 = Len(q)
    BY <1>3 DEF n
  <2>2. stop > 1 => stop + 1 > 1
    BY <1>3, <1>9
  <2> QED
    BY <1>9, <2>1, <2>2 DEF Grounded
<1>13. q # <<>>
  BY <1>3
<1> QED
  BY <1>3, <1>6, <1>7, <1>8, <1>9, <1>10, <1>11, <1>12, <1>13 DEF Explains, q

\* A cause that is absent or only advisory ends the path.
LEMMA ExplainsEnd ==
  ASSUME NEW e \in Acyclic, NEW d \in deps[e] \cap Ids,
         d \in Evidence => d \in Acyclic /\ record[d].authority = "advisory"
  PROVE  Explains(e, <<e>> \o <<d>>, "unknown")
<1> DEFINE p == <<d>>
           q == <<e>> \o p
<1>1. e \in Evidence /\ ~OnCycle(e) /\ e \in Ids
  BY DEF Acyclic, Ids
<1>0. d \in Ids
  OBVIOUS
<1>2. p \in Seq(Ids) /\ Len(p) = 1 /\ p[1] = d
  BY <1>0
<1> HIDE DEF p
<1>3. q \in Seq(Ids) /\ Len(q) = 2 /\ DOMAIN q = 1..2 /\ q[1] = e /\ q[2] = d /\ q # <<>>
  <2>1. /\ q \in Seq(Ids) /\ Len(q) = Len(p) + 1 /\ DOMAIN q = 1..Len(p) + 1
        /\ q[1] = e /\ \A i \in 1..Len(p) : q[i + 1] = p[i]
    <3>1. p \in Seq(Ids) /\ e \in Ids
      BY <1>1, <1>2
    <3> QED
      BY <3>1, Prepended
  <2> HIDE DEF q
  <2> QED
    BY <1>2, <2>1
<1> HIDE DEF q
<1>4. d # e
  <2>1. e \in deps[e] => OnCycle(e)
    BY <1>1, AlongSelf DEF OnCycle, Neighbours, Reached
  <2> QED
    BY <1>1, <2>1
<1>5. \A i, j \in DOMAIN q : q[i] = q[j] => i = j
  BY <1>3, <1>4
<1>6. \A i \in DOMAIN q : q[i] \in Evidence => q[i] \in Reached(e)
  <2>1. e \in Reached(e)
    BY <1>1, AlongSelf DEF Reached
  <2>2. d \in Evidence => d \in Reached(e)
    BY <2>1, AlongStep DEF Reached
  <2> QED
    BY <1>3, <2>1, <2>2
<1>7. 2 \in DOMAIN q /\ \A i \in 1..2 - 1 : q[i] \in Acyclic /\ q[i + 1] \in deps[q[i]]
  BY <1>3
<1>8. Grounded(q, 2, "unknown")
  BY <1>3 DEF Grounded
<1> QED
  BY <1>3, <1>5, <1>6, <1>7, <1>8 DEF Explains, q, p

\* Evidence that is what it is of its own.
LEMMA ExplainsSelf ==
  ASSUME deps' = deps, NEW e \in Acyclic, NEW s, Direct(record'[e], Context) = s
  PROVE  Explains(e, <<e>>, s)'
<1> DEFINE q == <<e>>
<1>1. e \in Evidence /\ ~OnCycle(e) /\ e \in Ids /\ e \in Reached(e)
  BY AlongSelf DEF Acyclic, Ids, Reached
<1>2. q \in Seq(Ids) /\ Len(q) = 1 /\ DOMAIN q = 1..1 /\ q[1] = e /\ q # <<>>
  BY <1>1
<1> HIDE DEF q
<1>3. e \in Acyclic' /\ e \in Reached(e)'
  <2>1. ~OnCycle(e)'
    BY <1>1 DEF OnCycle, Reached, Along, Neighbours
  <2> QED
    BY <1>1, <2>1, ReachedKept DEF Acyclic
<1>4. 1 \in DOMAIN q /\ \A i \in 1..1 - 1 : q[i] \in Acyclic' /\ q[i + 1] \in deps'[q[i]]
  BY <1>2
<1>5. Grounded(q, 1, s)'
  BY <1>1, <1>2, <1>3 DEF Grounded
<1>6. /\ \A i, j \in DOMAIN q : q[i] = q[j] => i = j
      /\ \A i \in DOMAIN q : q[i] \in Evidence => q[i] \in Reached(e)'
  BY <1>1, <1>2, <1>3
<1> QED
  BY <1>2, <1>4, <1>5, <1>6 DEF Explains, q

\* Evidence on a cycle, followed by the rest of its class.
LEMMA ExplainsCycle ==
  ASSUME NEW e \in Evidence, OnCycle(e)
  PROVE  Explains(e, <<e>> \o Sorted(Class(e) \ {e}), "unknown")
<1> DEFINE rest == Class(e) \ {e}
           p == Sorted(rest)
           q == <<e>> \o p
           n == Len(p)
<1>1. /\ rest \in SUBSET Nat /\ IsFiniteSet(rest) /\ rest \subseteq Ids /\ e \in Ids
      /\ e \in Reached(e) /\ e \in Class(e) /\ Class(e) \subseteq Reached(e)
      /\ rest \subseteq Class(e) /\ e \notin rest
  <2>1. Class(e) \subseteq Evidence
    BY DEF Class, Reached, Along
  <2>2. rest \in SUBSET Evidence
    BY <2>1
  <2>3. IsFiniteSet(rest)
    BY <2>2, Sizes
  <2>4. e \in Reached(e)
    BY AlongSelf DEF Reached
  <2> QED
    BY <2>2, <2>3, <2>4, EvidenceAssumption DEF Ids, Class
<1> HIDE DEF rest
<1>2. /\ p \in Seq(rest) /\ \A i, j \in DOMAIN p : p[i] = p[j] => i = j
  BY <1>1, SortedLists
<1> HIDE DEF p
<1>3. p \in Seq(Ids) /\ \A i \in DOMAIN p : p[i] \in rest
  <2>1. \A i \in DOMAIN p : p[i] \in rest /\ p[i] \in Ids
    <3>1. \A i \in DOMAIN p : p[i] \in rest
      BY <1>2
    <3> QED
      BY <1>1, <3>1
  <2>2. Len(p) \in Nat /\ DOMAIN p = 1..Len(p) /\ p = [i \in 1..Len(p) |-> p[i]]
    BY <1>2
  <2>3. p \in [1..Len(p) -> Ids]
    BY <2>1, <2>2
  <2> QED
    BY <2>1, <2>2, <2>3
<1>4. /\ q \in Seq(Ids) /\ n \in Nat /\ Len(q) = n + 1
      /\ DOMAIN p = 1..n /\ DOMAIN q = 1..n + 1
      /\ q[1] = e /\ \A i \in 1..n : q[i + 1] = p[i]
      /\ \A j \in 1..n + 1 : j = 1 \/ (j - 1 \in 1..n /\ q[j] = p[j - 1])
  BY <1>1, <1>3, Prepended
<1> HIDE DEF q, n
<1>5. \A i \in 1..n : p[i] # e
  BY <1>1, <1>3, <1>4
<1>6. \A i, j \in DOMAIN q : q[i] = q[j] => i = j
  <2> SUFFICES ASSUME NEW i \in 1..n + 1, NEW j \in 1..n + 1, q[i] = q[j] PROVE i = j
    BY <1>4
  <2>1. CASE i = 1 /\ j = 1
    BY <2>1
  <2>2. CASE i = 1 /\ j # 1
    BY <1>4, <1>5, <2>2
  <2>3. CASE i # 1 /\ j = 1
    BY <1>4, <1>5, <2>3
  <2>4. CASE i # 1 /\ j # 1
    <3>1. /\ i - 1 \in 1..n /\ q[i] = p[i - 1]
          /\ j - 1 \in 1..n /\ q[j] = p[j - 1]
      BY <1>4, <2>4
    <3>2. i - 1 = j - 1
      BY <1>2, <1>4, <3>1
    <3> QED
      BY <3>2, <1>4
  <2> QED
    BY <2>1, <2>2, <2>3, <2>4
<1>7. \A i \in DOMAIN q : q[i] \in Class(e)
  BY <1>1, <1>3, <1>4
<1>8. \A i \in DOMAIN q : q[i] \in Evidence => q[i] \in Reached(e)
  BY <1>1, <1>7
<1>9. /\ 1 \in DOMAIN q
      /\ \A i \in 1..1 - 1 : q[i] \in Acyclic /\ q[i + 1] \in deps[q[i]]
  BY <1>4
<1>10. Circles(q, 1)
  BY <1>4, <1>7 DEF Circles
<1>11. q # <<>>
  BY <1>4
<1> QED
  BY <1>4, <1>6, <1>8, <1>9, <1>10, <1>11 DEF Explains, q, p, rest

\* What a round makes of an outcome is explained if the last round's were.
LEMMA PathOfOne ==
  ASSUME Found, OutcomesTyped, Sound, PathInv, NEW e \in Evidence,
         deps \in [Evidence -> SUBSET Ids]
  PROVE  \E path, state :
           /\ Propagated(e).path = path /\ Propagated(e).state = state
           /\ IF state = "current" THEN path = <<>> ELSE Explains(e, path, state)
<1>1. Cyclic(e) <=> OnCycle(e)
  BY CyclicIsCycle
<1>2. /\ \A d \in Evidence : values[d].state \in EvidenceState
      /\ \A d \in Evidence : OnCycle(d) => values[d].state = "unknown"
      /\ \A d \in deps[e] : d \in Ids
  BY DEF OutcomesTyped, Sound
<1>3. \A s, p : Outcome(s, p).state = s /\ Outcome(s, p).path = p
  BY DEF Outcome
<1>4. \A d \in Evidence :
        /\ values[d].state = "current" => values[d].path = <<>>
        /\ values[d].state # "current" => Explains(d, values[d].path, values[d].state)
                                          /\ values[d].path # <<>>
  <2> SUFFICES ASSUME NEW d \in Evidence
               PROVE  /\ values[d].state = "current" => values[d].path = <<>>
                      /\ values[d].state # "current" =>
                           Explains(d, values[d].path, values[d].state) /\ values[d].path # <<>>
    OBVIOUS
  <2>1. PICK path, state :
          /\ values[d].path = path /\ values[d].state = state
          /\ IF state = "current" THEN path = <<>> ELSE Explains(d, path, state)
    BY DEF PathInv
  <2>2. Explains(d, path, state) => path # <<>>
    BY DEF Explains
  <2> QED
    BY <2>1, <2>2
<1>5. CASE Propagated(e) = values[e]
  BY <1>4, <1>5
<1>6. CASE Propagated(e) # values[e]
  <2>1. ~OnCycle(e) /\ e \in Acyclic
    BY <1>1, <1>6 DEF Propagated, Acyclic
  <2>2. Invalid(e) \in SUBSET Nat /\ Doubtful(e) \in SUBSET Nat
    BY <1>2, EvidenceAssumption DEF Invalid, Doubtful, Ids
  <2>3. CASE Invalid(e) # {}
    <3> DEFINE d == Min(Invalid(e))
    <3>1. Propagated(e) = Outcome("invalidated", PathVia(e, Invalid(e)))
      BY <1>6, <2>3 DEF Propagated
    <3>2. d \in Invalid(e)
      BY <2>2, <2>3, MinIsLeast
    <3>3. d \in deps[e] /\ d \in Evidence /\ values[d].state = "invalidated"
      BY <3>2 DEF Invalid
    <3>4. Explains(d, values[d].path, "invalidated") /\ values[d].path # <<>>
      BY <1>4, <3>3
    <3>5. PathVia(e, Invalid(e)) = <<e>> \o values[d].path
      BY <3>3, <3>4 DEF PathVia
    <3>6. Explains(e, <<e>> \o values[d].path, "invalidated")
      BY <2>1, <3>3, <3>4, ExplainsVia
    <3> QED
      BY <1>3, <3>1, <3>5, <3>6
  <2>4. CASE Invalid(e) = {}
    <3> DEFINE d == Min(Doubtful(e))
    <3>1. Doubtful(e) # {} /\ Propagated(e) = Outcome("unknown", PathVia(e, Doubtful(e)))
      BY <1>6, <2>4 DEF Propagated
    <3>2. d \in Doubtful(e)
      BY <2>2, <3>1, MinIsLeast
    <3>3. /\ d \in deps[e]
          /\ d \in Evidence => values[d].state # "invalidated"
          /\ d \in Evidence => values[d].state = "unknown" \/ record[d].authority = "advisory"
      BY <3>2 DEF Doubtful, Invalid
    <3> HIDE DEF d
    <3>4. PathVia(e, Doubtful(e)) = <<e>> \o (IF d \in Evidence /\ values[d].path # <<>>
                                              THEN values[d].path ELSE <<d>>)
      BY DEF PathVia, d
    <3>5. CASE d \in Evidence /\ values[d].state = "unknown"
      <4>1. Explains(d, values[d].path, "unknown") /\ values[d].path # <<>>
        BY <1>4, <3>5
      <4>2. PathVia(e, Doubtful(e)) = <<e>> \o values[d].path
        BY <3>4, <3>5, <4>1
      <4>3. Explains(e, <<e>> \o values[d].path, "unknown")
        BY <2>1, <3>3, <3>5, <4>1, ExplainsVia
      <4> QED
        BY <1>3, <3>1, <4>2, <4>3
    <3>6. CASE ~(d \in Evidence /\ values[d].state = "unknown")
      <4>1. d \in Evidence => values[d].state = "current"
        BY <1>2, <3>3, <3>6 DEF EvidenceState
      <4>2. d \in Evidence =>
              values[d].path = <<>> /\ d \in Acyclic /\ record[d].authority = "advisory"
        BY <1>2, <1>4, <3>3, <3>6, <4>1 DEF Acyclic
      <4>3. PathVia(e, Doubtful(e)) = <<e>> \o <<d>>
        BY <3>4, <4>2
      <4>4. Explains(e, <<e>> \o <<d>>, "unknown")
        BY <1>2, <2>1, <3>3, <4>2, ExplainsEnd
      <4> QED
        BY <1>3, <3>1, <4>3, <4>4
    <3> QED
      BY <3>5, <3>6
  <2> QED
    BY <2>3, <2>4
<1> QED
  BY <1>5, <1>6

LEMMA MarkDirectPaths ==
  ASSUME Found, MarkDirect
  PROVE  PathInv'
<1> SUFFICES ASSUME NEW e \in Evidence
             PROVE  \E path, state :
                      /\ values'[e].path = path /\ values'[e].state = state
                      /\ IF state = "current" THEN path = <<>> ELSE Explains(e, path, state)'
  BY DEF PathInv
<1>1. deps' = deps
  BY DEF MarkDirect
<1>2. values'[e] =
        IF Cyclic(e) THEN Outcome("unknown", <<e>> \o Sorted(ComponentOf(e) \ {e}))
        ELSE IF Direct(record'[e], Context) = "current" THEN Current
        ELSE Outcome(Direct(record'[e], Context), <<e>>)
  BY DEF MarkDirect
<1>3. \A s, p : Outcome(s, p).state = s /\ Outcome(s, p).path = p
  BY DEF Outcome
<1>4. Cyclic(e) <=> OnCycle(e)
  BY CyclicIsCycle
<1>5. CASE OnCycle(e)
  <2> DEFINE p == <<e>> \o Sorted(Class(e) \ {e})
  <2>0. ComponentOf(e) = Class(e)
    BY ComponentIsClass
  <2>1. values'[e].path = p /\ values'[e].state = "unknown"
    <3>1. values'[e] = Outcome("unknown", <<e>> \o Sorted(ComponentOf(e) \ {e}))
      BY <1>2, <1>4, <1>5
    <3>2. values'[e] = Outcome("unknown", p)
      BY <2>0, <3>1
    <3> HIDE DEF p
    <3> QED
      BY <1>3, <3>2
  <2>2. Explains(e, p, "unknown")
    BY <1>5, ExplainsCycle
  <2> HIDE DEF p
  <2>3. PICK path : path = p
    OBVIOUS
  <2>4. Explains(e, path, "unknown")'
    BY <1>1, <1>5, <2>2, <2>3, ExplainsKept
  <2> QED
    BY <2>1, <2>3, <2>4
<1>6. CASE ~OnCycle(e) /\ Direct(record'[e], Context) = "current"
  BY <1>2, <1>4, <1>6 DEF Current
<1>7. CASE ~OnCycle(e) /\ Direct(record'[e], Context) # "current"
  <2>1. PICK s : s = Direct(record'[e], Context)
    OBVIOUS
  <2>2. values'[e].path = <<e>> /\ values'[e].state = s /\ s # "current"
    BY <1>2, <1>3, <1>4, <1>7, <2>1
  <2>3. e \in Acyclic
    BY <1>7 DEF Acyclic
  <2>4. Explains(e, <<e>>, s)'
    BY <1>1, <2>1, <2>3, ExplainsSelf
  <2> QED
    BY <2>2, <2>4
<1> QED
  BY <1>5, <1>6, <1>7

\* Outcomes are computed together, but the paths of the last round are enough.
LEMMA PathsKept ==
  ASSUME deps' = deps, record' = record,
         \A e \in Evidence : \E path, state :
           /\ values'[e].path = path /\ values'[e].state = state
           /\ IF state = "current" THEN path = <<>> ELSE Explains(e, path, state)
  PROVE  PathInv'
<1> SUFFICES ASSUME NEW e \in Evidence
             PROVE  \E path, state :
                      /\ values'[e].path = path /\ values'[e].state = state
                      /\ IF state = "current" THEN path = <<>> ELSE Explains(e, path, state)'
  BY DEF PathInv
<1>1. PICK path, state :
        /\ values'[e].path = path /\ values'[e].state = state
        /\ IF state = "current" THEN path = <<>> ELSE Explains(e, path, state)
  OBVIOUS
<1>2. state # "current" => Explains(e, path, state)'
  BY <1>1, ExplainsKept
<1> QED
  BY <1>1, <1>2

Explained == phase \in {"propagate", "done"} => PathInv

LEMMA ExplainedStep == IInv /\ Explained /\ [Next]_vars => Explained'
<1> SUFFICES ASSUME IInv, Explained, [Next]_vars PROVE Explained'
  OBVIOUS
<1>1. CASE MarkDirect
  <2>1. Found
    BY <1>1 DEF IInv, MarkDirect
  <2> QED
    BY <1>1, <2>1, MarkDirectPaths DEF Explained
<1>2. CASE Propagate
  <2>1. /\ Found /\ OutcomesTyped /\ Sound /\ PathInv
        /\ deps \in [Evidence -> SUBSET Ids]
    BY <1>2 DEF IInv, Explained, Propagate, SearchInv, SearchTyped, Ids
  <2>2. deps' = deps /\ record' = record /\ \A e \in Evidence : values'[e] = Propagated(e)
    BY <1>2 DEF Propagate
  <2>3. \A e \in Evidence : \E path, state :
          /\ values'[e].path = path /\ values'[e].state = state
          /\ IF state = "current" THEN path = <<>> ELSE Explains(e, path, state)
    BY <2>1, <2>2, PathOfOne
  <2> QED
    BY <2>2, <2>3, PathsKept DEF Explained
<1>3. CASE UNCHANGED vars
  <2>1. deps' = deps /\ record' = record /\ values' = values /\ phase' = phase
    BY <1>3 DEF vars
  <2>2. PathInv => PathInv'
    BY <2>1, PathsKept DEF PathInv
  <2> QED
    BY <2>1, <2>2 DEF Explained
<1>4. CASE SearchRoot \/ SearchStep \/ CollectRoot \/ CollectStep \/ CloseComponent
  <2>1. phase' \notin {"propagate", "done"}
    BY <1>4 DEF SearchRoot, SearchStep, CollectRoot, CollectStep, CloseComponent
  <2> QED
    BY <2>1 DEF Explained
<1> QED
  BY <1>1, <1>2, <1>3, <1>4 DEF Next

\* What PathsExplain says of one path.
Fits(e, path, state) ==
  LET turn == {i \in DOMAIN path : path[i] \in Evidence /\ OnCycle(path[i])}
      stop == IF turn = {} THEN Len(path) ELSE Min(turn)
      root == path[stop]
  IN  /\ path[1] = e
      /\ IsInjective(path)
      /\ \A i \in 1..stop - 1 : path[i] \in Evidence /\ path[i + 1] \in deps[path[i]]
      /\ turn # {} => \A i \in stop..Len(path) :
           path[i] \in Reached(root) /\ root \in Reached(path[i])
      /\ \/ root \in Evidence /\ turn = {} /\ Direct(record[root], Context) = state
         \/ /\ state = "unknown"
            /\ root \in Evidence => turn # {} \/ (stop > 1 /\ record[root].authority = "advisory")

\* Where a path stops is the first member of a cycle, or its last entry.
LEMMA PathFits ==
  ASSUME deps \in [Evidence -> SUBSET Ids],
         NEW e \in Evidence, NEW path, NEW state, Explains(e, path, state)
  PROVE  Fits(e, path, state)
<1> DEFINE turn == {i \in DOMAIN path : path[i] \in Evidence /\ OnCycle(path[i])}
           end == IF turn = {} THEN Len(path) ELSE Min(turn)
<1>1. path \in Seq(Ids) /\ path[1] = e /\ IsInjective(path)
  BY DEF Explains, IsInjective
<1>2. Len(path) \in Nat /\ DOMAIN path = 1..Len(path)
  BY <1>1
<1>3. PICK stop \in DOMAIN path :
        /\ \A i \in 1..stop - 1 : path[i] \in Acyclic /\ path[i + 1] \in deps[path[i]]
        /\ (Circles(path, stop) /\ state = "unknown") \/ Grounded(path, stop, state)
  BY DEF Explains
<1>4. stop \in Nat /\ stop >= 1 /\ stop <= Len(path)
  BY <1>2
<1>5. \A i \in turn : ~(i < stop)
  <2> SUFFICES ASSUME NEW i \in 1..Len(path), i < stop, path[i] \in Evidence, OnCycle(path[i])
               PROVE  FALSE
    BY <1>2
  <2>1. i \in 1..stop - 1
    BY <1>4
  <2> QED
    BY <1>3, <2>1 DEF Acyclic
<1>6. turn \in SUBSET Nat
  BY <1>2
<1>7. \A i \in 1..stop - 1 : path[i] \in Evidence /\ path[i + 1] \in deps[path[i]]
  BY <1>3 DEF Acyclic
<1>8. CASE Circles(path, stop) /\ state = "unknown"
  <2>1. stop \in turn
    BY <1>3, <1>8 DEF Circles
  <2>2. end = stop
    <3>1. Min(turn) \in turn /\ Min(turn) <= stop /\ Min(turn) \in Nat
      BY <1>6, <2>1, MinIsLeast
    <3>2. ~(Min(turn) < stop)
      BY <1>5, <3>1
    <3> HIDE DEF turn
    <3> QED
      BY <1>4, <2>1, <3>1, <3>2
  <2>3. \A i \in stop..Len(path) :
          path[i] \in Reached(path[stop]) /\ path[stop] \in Reached(path[i])
    BY <1>8 DEF Circles, Class
  <2> QED
    BY <1>1, <1>7, <1>8, <2>1, <2>2, <2>3 DEF Fits
<1>9. CASE Grounded(path, stop, state)
  <2>1. stop = Len(path) /\ (path[stop] \in Evidence => ~OnCycle(path[stop]))
    BY <1>9 DEF Grounded, Acyclic
  <2>2. turn = {}
    <3> SUFFICES ASSUME NEW i \in turn PROVE FALSE
      OBVIOUS
    <3>1. i \in 1..Len(path) /\ ~(i < stop)
      BY <1>2, <1>5
    <3>2. i = stop
      BY <1>4, <2>1, <3>1
    <3> QED
      BY <2>1, <3>2
  <2>3. end = stop
    BY <2>1, <2>2
  <2>4. \/ path[stop] \in Evidence /\ Direct(record[path[stop]], Context) = state
        \/ /\ state = "unknown"
           /\ path[stop] \in Evidence => stop > 1 /\ record[path[stop]].authority = "advisory"
    BY <1>9 DEF Grounded
  <2> QED
    BY <1>1, <1>7, <2>2, <2>3, <2>4 DEF Fits
<1> QED
  BY <1>3, <1>8, <1>9

\* The transitive path of an outcome explains it, in every graph
\* (_propagate_to_fixed_point, _mark_cycles_unknown).
THEOREM PathsSound == Spec => []PathsExplain
<1>1. Init => Explained
  BY DEF Init, Explained
<1>2. IInv /\ Explained => PathsExplain
  <2> SUFFICES ASSUME IInv, Explained, phase = "done",
                      NEW e \in Evidence, values[e].state # "current"
               PROVE  Fits(e, values[e].path, values[e].state)
    BY DEF PathsExplain, Fits
  <2>1. deps \in [Evidence -> SUBSET Ids]
    BY DEF IInv, SearchInv, SearchTyped, Ids
  <2>2. Explains(e, values[e].path, values[e].state)
    BY DEF Explained, PathInv
  <2> QED
    BY <2>1, <2>2, PathFits
<1> QED
  BY <1>1, <1>2, ExplainedStep, Inductive, PTL DEF Spec
=============================================================================

---------------------------- MODULE TracerProofs ----------------------------
(***************************************************************************)
(* The trace buffer and both lists of the tracer are sound, for a ring,    *)
(* lists and records of any size.                                          *)
(*                                                                         *)
(* A list is sound because a sequence of different nodes, its chain, is    *)
(* what a walk along its pointers meets: every operation on the list is    *)
(* one on its chain.  A ring is followed through a queue of words that it  *)
(* contains; the arithmetic modulo its size stays inside Place and         *)
(* Distance.  The loops of the readers and the walks are recursive         *)
(* functions: that they exist, and what they return, is proved by          *)
(* induction over the numbers, stated here for sets.                       *)
(***************************************************************************)
EXTENDS Tracer, FiniteSetTheorems, SequenceTheorems, WellFoundedInduction, TLAPS

-----------------------------------------------------------------------------
(* Induction                                                               *)

\* A well-founded relation that goes down with the numbers.
LEMMA Less ==
  \E R : IsWellFoundedOn(R, Nat) /\ \A i, j \in Nat : i < j => <<i, j>> \in R
<1>1. \A i, j \in Nat : i < j => <<i, j>> \in OpToRel(<, Nat)
  BY DEF OpToRel
<1> QED BY <1>1, NatLessThanWellFounded

\* A set of numbers has a least one.
LEMMA Least ==
  ASSUME NEW T \in SUBSET Nat, T # {}
  PROVE  \E n \in T : \A m \in T : n <= m
<1>1. PICK R : IsWellFoundedOn(R, Nat) /\ \A i, j \in Nat : i < j => <<i, j>> \in R
  BY Less
<1>2. IsWellFoundedOn(R, Nat) /\ T \subseteq Nat
  BY <1>1
<1>3. IsWellFoundedOn(R, Nat)
  BY <1>1
<1>4. T \subseteq Nat
  OBVIOUS
<1>5. \E x \in T : \A y \in T : ~ (<<y, x>> \in R)
  BY <1>3, <1>4, WFMin, Zenon
<1>6. PICK x \in T : \A y \in T : ~ (<<y, x>> \in R)
  BY <1>5
<1>7. ASSUME NEW y \in T PROVE x <= y
  <2>1. <<y, x>> \notin R /\ x \in Nat /\ y \in Nat
    BY <1>6
  <2>2. ~ (y < x)
    BY <2>1, <1>1
  <2> QED BY <2>1, <2>2
<1> QED BY <1>7

\* Induction, over a set instead of a predicate: the library's theorems take an
\* operator, which the provers cannot instantiate.
LEMMA SetInduction ==
  ASSUME NEW S, 0 \in S, \A n \in Nat : n \in S => n + 1 \in S
  PROVE  Nat \subseteq S
<1> SUFFICES ASSUME Nat \ S # {} PROVE FALSE
  OBVIOUS
<1>1. PICK n \in Nat \ S : \A m \in Nat \ S : n <= m
  BY Least
<1> QED BY <1>1

-----------------------------------------------------------------------------
(* Lists                                                                   *)

\* f is the walk of At through n pointers.
Walk(l, n, f) ==
  f = [k \in 0..n |-> IF k = 0 THEN l.first
                      ELSE LET before == f[k - 1]
                           IN  IF before = None THEN None ELSE l.next[before]]

\* The recursive function At chooses exists: one more pointer can be followed.
LEMMA WalkExists ==
  ASSUME NEW l, NEW n \in Nat
  PROVE  \E f : Walk(l, n, f)
<1> DEFINE S == {m \in Nat : \E f : Walk(l, m, f)}
<1>1. 0 \in S
  <2>1. Walk(l, 0, [k \in 0..0 |-> l.first])
    BY DEF Walk
  <2> QED BY <2>1
<1>2. ASSUME NEW m \in Nat, m \in S PROVE m + 1 \in S
  <2>1. PICK f : Walk(l, m, f)
    BY <1>2
  <2> DEFINE g == [k \in 0..(m + 1) |-> IF k <= m THEN f[k]
                                         ELSE IF f[m] = None THEN None ELSE l.next[f[m]]]
  <2>2. Walk(l, m + 1, g)
    <3>1. ASSUME NEW k \in 0..(m + 1)
          PROVE  g[k] = IF k = 0 THEN l.first
                        ELSE IF g[k - 1] = None THEN None ELSE l.next[g[k - 1]]
      <4>1. CASE k = 0
        BY <2>1, <4>1 DEF Walk
      <4>2. CASE k \in 1..m
        <5>1. f[k] = IF f[k - 1] = None THEN None ELSE l.next[f[k - 1]]
          BY <2>1, <4>2 DEF Walk
        <5>2. g[k] = f[k] /\ g[k - 1] = f[k - 1]
          BY <4>2
        <5> QED BY <4>2, <5>1, <5>2
      <4>3. CASE k = m + 1
        BY <4>3
      <4> QED BY <4>1, <4>2, <4>3
    <3>2. g = [k \in 0..(m + 1) |-> g[k]]
      OBVIOUS
    <3> HIDE DEF g
    <3> QED BY <3>1, <3>2 DEF Walk
  <2> QED BY <2>2
<1> HIDE DEF S
<1>3. Nat \subseteq S
  BY <1>1, <1>2, SetInduction
<1> QED BY <1>3 DEF S

\* At is a walk.
LEMMA AtIs ==
  ASSUME NEW l
  PROVE  Cardinality(NodesOf(l)) \in Nat => Walk(l, Cardinality(NodesOf(l)), At(l))
<1> SUFFICES ASSUME Cardinality(NodesOf(l)) \in Nat
             PROVE Walk(l, Cardinality(NodesOf(l)), At(l))
  OBVIOUS
<1>1. At(l) = CHOOSE f : Walk(l, Cardinality(NodesOf(l)), f)
  BY DEF At, Walk
<1>2. \E f : Walk(l, Cardinality(NodesOf(l)), f)
  BY WalkExists
<1> HIDE DEF Walk
<1> QED BY <1>1, <1>2

\* l has the shape of a list of nodes that say something in I.
IsList(l, nodes, I) ==
  /\ l \in [count : Nat, first : nodes \union {None}, last : nodes \union {None},
            next : [nodes -> nodes \union {None}], info : [nodes -> I \union {None}]]
  /\ None \notin I

\* s is what a walk through l meets, in its order.
Chain(l, s, nodes) ==
  /\ s \in [1..l.count -> nodes]
  /\ \A i, j \in 1..l.count : s[i] = s[j] => i = j
  /\ \A n \in nodes : l.info[n] # None <=> \E i \in 1..l.count : s[i] = n
  /\ l.first = IF l.count = 0 THEN None ELSE s[1]
  /\ \A i \in 1..l.count : l.next[s[i]] = IF i < l.count THEN s[i + 1] ELSE None
  /\ l.count > 0 => l.last = s[l.count]

\* There are finitely many nodes, and none of them is a null pointer.
Nodes(nodes) == IsFiniteSet(nodes) /\ None \notin nodes

\* At, step by step.
LEMMA AtFacts ==
  ASSUME NEW nodes, Nodes(nodes), NEW I, NEW l, IsList(l, nodes, I)
  PROVE  /\ NodesOf(l) = nodes /\ Cardinality(nodes) \in Nat
         /\ At(l)[0] = l.first
         /\ \A k \in 1..Cardinality(nodes) :
              At(l)[k] = IF At(l)[k - 1] = None THEN None ELSE l.next[At(l)[k - 1]]
<1>1. NodesOf(l) = nodes
  BY DEF NodesOf, IsList
<1>2. Cardinality(nodes) \in Nat
  BY FS_CardinalityType DEF Nodes
<1>3. Walk(l, Cardinality(nodes), At(l))
  BY <1>1, <1>2, AtIs
<1> QED BY <1>1, <1>2, <1>3 DEF Walk

\* A chain is as long as the list counts, and no longer than there are nodes.
LEMMA ChainLength ==
  ASSUME NEW nodes, Nodes(nodes), NEW I, NEW l, IsList(l, nodes, I), NEW s, Chain(l, s, nodes)
  PROVE  /\ l.count \in Nat /\ Cardinality(nodes) \in Nat /\ l.count <= Cardinality(nodes)
         /\ l.count = Cardinality(Used(l))
         /\ Used(l) = {s[i] : i \in 1..l.count}
<1>1. l.count \in Nat /\ Cardinality(nodes) \in Nat
  BY AtFacts DEF IsList
<1>2. s \in Injection(1..l.count, nodes)
  BY DEF Chain, Injection, IsInjective
<1>3. Cardinality(1..l.count) = l.count
  BY <1>1, FS_Interval
<1>4. l.count <= Cardinality(nodes)
  BY <1>2, <1>3, FS_Injection DEF Nodes
<1>5. Used(l) = {s[i] : i \in 1..l.count}
  <2>1. NodesOf(l) = nodes
    BY AtFacts
  <2> QED BY <2>1 DEF Used, Chain
<1>6. s \in Bijection(1..l.count, Used(l))
  BY <1>5 DEF Chain, Bijection, Injection, Surjection, IsInjective
<1>7. l.count = Cardinality(Used(l))
  BY <1>1, <1>6, FS_CountingElements DEF ExistsBijection
<1> QED BY <1>1, <1>4, <1>5, <1>7

\* The walk from the front follows the chain to its end, and meets all that is used.
LEMMA ChainWalk ==
  ASSUME NEW nodes, Nodes(nodes), NEW I, NEW l, IsList(l, nodes, I), NEW s, Chain(l, s, nodes)
  PROVE  /\ \A k \in 0..Cardinality(nodes) : At(l)[k] = IF k < l.count THEN s[k + 1] ELSE None
         /\ InList(l) = Used(l)
<1>1. l.count \in Nat /\ Cardinality(nodes) \in Nat /\ l.count <= Cardinality(nodes)
  BY ChainLength
<1> DEFINE A == At(l)
           C == Cardinality(nodes)
           S == {k \in Nat : k <= C => A[k] = IF k < l.count THEN s[k + 1] ELSE None}
<1>2. 0 \in S
  <2>1. A[0] = l.first
    BY AtFacts
  <2> QED BY <1>1, <2>1 DEF Chain
<1>3. ASSUME NEW k \in Nat, k \in S PROVE k + 1 \in S
  <2> SUFFICES ASSUME k + 1 <= C
               PROVE A[k + 1] = IF k + 1 < l.count THEN s[(k + 1) + 1] ELSE None
    BY <1>1
  <2>1. A[k] = IF k < l.count THEN s[k + 1] ELSE None
    BY <1>1, <1>3
  <2>2. A[k + 1] = IF A[k] = None THEN None ELSE l.next[A[k]]
    <3>1. k + 1 \in 1..C /\ (k + 1) - 1 = k
      BY <1>1
    <3> QED BY <3>1, AtFacts
  <2>3. CASE k < l.count
    <3>1. k + 1 \in 1..l.count
      BY <1>1, <2>3
    <3>2. s[k + 1] \in nodes /\ s[k + 1] # None
      BY <3>1 DEF Chain, Nodes
    <3>3. l.next[s[k + 1]] = IF k + 1 < l.count THEN s[(k + 1) + 1] ELSE None
      BY <3>1 DEF Chain
    <3> QED BY <2>1, <2>2, <2>3, <3>2, <3>3
  <2>4. CASE ~ (k < l.count)
    BY <1>1, <2>1, <2>2, <2>4
  <2> QED BY <2>3, <2>4
<1> HIDE DEF S
<1>4. Nat \subseteq S
  BY <1>2, <1>3, SetInduction
<1>5. \A k \in 0..C : A[k] = IF k < l.count THEN s[k + 1] ELSE None
  BY <1>1, <1>4 DEF S
<1>6. InList(l) = {A[k] : k \in 0..C} \ {None}
  BY AtFacts DEF InList
<1> HIDE DEF A, C
<1>7. \A i \in 1..l.count : s[i] \in nodes /\ s[i] # None
  BY DEF Chain, Nodes
<1>8. {A[k] : k \in 0..C} \ {None} = {s[i] : i \in 1..l.count}
  <2>1. ASSUME NEW k \in 0..C, A[k] # None PROVE \E i \in 1..l.count : A[k] = s[i]
    <3>1. k < l.count /\ A[k] = s[k + 1]
      BY <1>5, <2>1
    <3>2. k + 1 \in 1..l.count
      BY <1>1, <3>1
    <3> QED BY <3>1, <3>2
  <2>2. ASSUME NEW i \in 1..l.count PROVE \E k \in 0..C : A[k] = s[i]
    <3>1. i - 1 \in 0..C /\ i - 1 < l.count /\ (i - 1) + 1 = i
      BY <1>1 DEF C
    <3>2. A[i - 1] = s[i]
      BY <1>5, <3>1
    <3> QED BY <3>1, <3>2
  <2> QED BY <1>7, <2>1, <2>2
<1> QED BY <1>5, <1>6, <1>8, ChainLength DEF A, C

\* What a chain makes of a list is what Sound says.
LEMMA ChainSound ==
  ASSUME NEW nodes, Nodes(nodes), NEW I, NEW l, IsList(l, nodes, I), NEW s, Chain(l, s, nodes)
  PROVE  Sound(l)
<1>1. InList(l) = Used(l) /\ l.count \in Nat /\ l.count = Cardinality(Used(l))
  BY ChainWalk, ChainLength
<1>2. ASSUME l.count > 0 PROVE l.last \in InList(l) /\ l.next[l.last] = None
  <2>1. l.count \in 1..l.count
    BY <1>1, <1>2
  <2>2. l.last = s[l.count] /\ l.last \in Used(l)
    BY <1>2, <2>1, ChainLength DEF Chain
  <2>3. l.next[s[l.count]] = None
    BY <1>1, <2>1 DEF Chain
  <2> QED BY <1>1, <2>2, <2>3
<1> QED BY <1>1, <1>2 DEF Sound

\* A list that was just made.
LEMMA EmptyFacts ==
  ASSUME NEW nodes, NEW I, None \notin I
  PROVE  /\ IsList(EmptyList(nodes), nodes, I)
         /\ Chain(EmptyList(nodes), <<>>, nodes)
BY DEF IsList, Chain, EmptyList

\* A node is put behind the last one.
LEMMA AddFacts ==
  ASSUME NEW nodes, Nodes(nodes), NEW I, NEW l, IsList(l, nodes, I), NEW s, Chain(l, s, nodes),
         NEW n \in Unused(l), NEW x \in I, NEW m, m = AddLast(l, n, x)
  PROVE  /\ IsList(m, nodes, I) /\ \E t : Chain(m, t, nodes)
         /\ m.info = [l.info EXCEPT ![n] = x] /\ n \in nodes
<1>1. n \in nodes /\ l.info[n] = None /\ l.count \in Nat
  BY AtFacts DEF Unused, Used, IsList
<1>2. /\ m.count = l.count + 1 /\ m.last = n /\ m.info = [l.info EXCEPT ![n] = x]
      /\ m.first = IF l.count = 0 THEN n ELSE l.first
      /\ m.next = IF l.count = 0 THEN [l.next EXCEPT ![n] = None]
                  ELSE [l.next EXCEPT ![n] = None, ![l.last] = n]
      /\ m = [count |-> m.count, first |-> m.first, last |-> m.last,
              next |-> m.next, info |-> m.info]
  BY DEF AddLast, IsList
<1>3. \A i \in 1..l.count : s[i] \in nodes /\ s[i] # n
  BY <1>1 DEF Chain
<1>4. ASSUME l.count # 0
      PROVE l.count \in 1..l.count /\ l.last = s[l.count] /\ l.last \in nodes /\ l.last # n
  <2>1. l.count \in 1..l.count /\ l.count > 0
    BY <1>1, <1>4
  <2> QED BY <2>1, <1>3 DEF Chain
<1>5. m.next \in [nodes -> nodes \union {None}] /\ m.info \in [nodes -> I \union {None}]
  <2>1. l.next \in [nodes -> nodes \union {None}] /\ l.info \in [nodes -> I \union {None}]
    BY DEF IsList
  <2>2. m.info \in [nodes -> I \union {None}]
    BY <1>1, <1>2, <2>1
  <2>3. CASE l.count = 0
    <3>1. m.next = [l.next EXCEPT ![n] = None]
      BY <1>2, <2>3
    <3> QED BY <2>1, <2>2, <3>1
  <2>4. CASE l.count # 0
    <3>1. m.next = [[l.next EXCEPT ![n] = None] EXCEPT ![l.last] = n]
      BY <1>2, <2>4
    <3> QED BY <1>1, <2>1, <2>2, <3>1
  <2> QED BY <2>3, <2>4
<1>6. IsList(m, nodes, I)
  <2>1. m.first \in nodes \union {None} /\ m.last \in nodes \union {None} /\ m.count \in Nat
    BY <1>1, <1>2 DEF IsList
  <2> QED BY <1>2, <1>5, <2>1 DEF IsList
<1> DEFINE t == [i \in 1..m.count |-> IF i <= l.count THEN s[i] ELSE n]
<1>7. /\ m.next[n] = None
      /\ l.count # 0 => m.next[l.last] = n
      /\ \A k \in nodes \ {n} : (l.count # 0 /\ k = l.last) \/ m.next[k] = l.next[k]
  BY <1>1, <1>2, <1>4 DEF IsList
<1>8. m.count \in Nat /\ m.count = l.count + 1 /\ t \in [1..m.count -> nodes]
  BY <1>1, <1>2, <1>3
<1>9. /\ \A i \in 1..l.count : i \in 1..m.count /\ t[i] = s[i]
      /\ m.count \in 1..m.count /\ t[m.count] = n
      /\ \A i \in 1..m.count : i \in 1..l.count \/ i = m.count
  BY <1>1, <1>8
<1> HIDE DEF t
<1>10. \A i, j \in 1..m.count : t[i] = t[j] => i = j
  BY <1>3, <1>9 DEF Chain
<1>11. ASSUME NEW k \in nodes PROVE m.info[k] # None <=> \E i \in 1..m.count : t[i] = k
  <2>1. CASE k = n
    BY <1>1, <1>2, <1>9, <2>1 DEF IsList
  <2>2. CASE k # n
    <3>1. m.info[k] = l.info[k]
      BY <1>2, <2>2 DEF IsList
    <3> QED BY <1>9, <2>2, <3>1 DEF Chain
  <2> QED BY <2>1, <2>2
<1>12. m.first = IF m.count = 0 THEN None ELSE t[1]
  <2>1. CASE l.count = 0
    BY <1>1, <1>2, <1>9, <2>1
  <2>2. CASE l.count # 0
    <3>1. 1 \in 1..l.count
      BY <1>1, <2>2
    <3> QED BY <1>1, <1>2, <1>9, <2>2, <3>1 DEF Chain
  <2> QED BY <2>1, <2>2
<1>13. ASSUME NEW i \in 1..m.count
       PROVE  m.next[t[i]] = IF i < m.count THEN t[i + 1] ELSE None
  <2>1. CASE i = m.count
    BY <1>7, <1>8, <1>9, <2>1
  <2>2. CASE i # m.count /\ i = l.count
    <3>1. t[i] = l.last /\ m.next[l.last] = n /\ i < m.count /\ i + 1 = m.count
      BY <1>1, <1>4, <1>7, <1>8, <1>9, <2>2
    <3> QED BY <1>9, <3>1
  <2>3. CASE i # m.count /\ i # l.count
    <3>1. i \in 1..l.count /\ i + 1 \in 1..l.count /\ i < m.count /\ i < l.count
      BY <1>1, <1>8, <2>3
    <3>2. t[i] = s[i] /\ t[i + 1] = s[i + 1] /\ l.next[s[i]] = s[i + 1]
      BY <1>9, <3>1 DEF Chain
    <3>3. l.count \in 1..l.count /\ l.last = s[l.count]
      BY <1>1, <1>4, <3>1
    <3>4. s[i] # l.last /\ s[i] \in nodes \ {n}
      BY <1>3, <2>3, <3>1, <3>3 DEF Chain
    <3> QED BY <1>7, <3>1, <3>2, <3>4
  <2> QED BY <2>1, <2>2, <2>3
<1>14. Chain(m, t, nodes)
  BY <1>2, <1>8, <1>9, <1>10, <1>11, <1>12, <1>13 DEF Chain
<1> QED BY <1>1, <1>2, <1>6, <1>14

\* A node is taken out: the first, the last or one between two others.
LEMMA UnlinkFacts ==
  ASSUME NEW nodes, Nodes(nodes), NEW I, NEW l, IsList(l, nodes, I), NEW s, Chain(l, s, nodes),
         NEW n \in InList(l), NEW m, m = Unlink(l, n)
  PROVE  /\ IsList(m, nodes, I) /\ \E t : Chain(m, t, nodes)
         /\ m.info = [l.info EXCEPT ![n] = None] /\ n \in nodes
<1>1. InList(l) = {s[i] : i \in 1..l.count} /\ l.count \in Nat
  BY ChainWalk, ChainLength
<1>2. PICK j \in 1..l.count : s[j] = n
  BY <1>1
<1>3. /\ n \in nodes /\ n # None /\ l.count # 0 /\ l.count > 0
      /\ l.next[n] = IF j < l.count THEN s[j + 1] ELSE None
      /\ l.last = s[l.count]
  BY <1>1, <1>2 DEF Chain, Nodes
<1> DEFINE prev == CHOOSE k \in InList(l) : l.next[k] = n
<1>4. l.first = n <=> j = 1
  <2>1. 1 \in 1..l.count /\ l.first = s[1]
    BY <1>1, <1>2, <1>3 DEF Chain
  <2> QED BY <1>2, <2>1 DEF Chain
<1>5. ASSUME j # 1
      PROVE  j - 1 \in 1..l.count /\ prev = s[j - 1] /\ prev \in nodes /\ prev # n
  <2>1. j - 1 \in 1..l.count /\ j - 1 < l.count /\ (j - 1) + 1 = j
    BY <1>1, <1>2, <1>5
  <2>2. s[j - 1] \in InList(l) /\ l.next[s[j - 1]] = n
    BY <1>1, <1>2, <2>1 DEF Chain
  <2>3. ASSUME NEW k \in InList(l), l.next[k] = n PROVE k = s[j - 1]
    <3>1. PICK i \in 1..l.count : k = s[i]
      BY <1>1
    <3>2. i < l.count /\ s[i + 1] = n
      BY <1>3, <2>3, <3>1 DEF Chain
    <3>3. i + 1 \in 1..l.count
      BY <1>1, <3>2
    <3>4. i + 1 = j
      BY <1>2, <3>2, <3>3 DEF Chain
    <3> QED BY <2>1, <3>1, <3>4
  <2>4. prev = s[j - 1]
    BY <2>2, <2>3
  <2>5. s[j - 1] \in nodes /\ s[j - 1] # s[j]
    BY <2>1 DEF Chain
  <2> QED BY <1>2, <2>1, <2>4, <2>5
<1> HIDE DEF prev
<1>6. /\ m.count = l.count - 1 /\ m.info = [l.info EXCEPT ![n] = None]
      /\ j = 1 => /\ m.first = l.next[n] /\ m.last = l.last
                  /\ m.next = [l.next EXCEPT ![n] = None]
      /\ j # 1 => /\ m.first = l.first /\ m.last = IF l.last = n THEN prev ELSE l.last
                  /\ m.next = [[l.next EXCEPT ![prev] = l.next[n]] EXCEPT ![n] = None]
      /\ m = [count |-> m.count, first |-> m.first, last |-> m.last,
              next |-> m.next, info |-> m.info]
  <2>1. CASE j = 1
    <3>1. m = Freed([l EXCEPT !.first = l.next[n], !.count = @ - 1], n)
      BY <1>4, <2>1 DEF Unlink
    <3> QED BY <2>1, <3>1 DEF Freed, IsList
  <2>2. CASE j # 1
    <3>1. m = Freed([l EXCEPT !.next[prev] = l.next[n], !.count = @ - 1,
                              !.last = IF @ = n THEN prev ELSE @], n)
      BY <1>4, <2>2 DEF Unlink, prev
    <3> QED BY <2>2, <3>1 DEF Freed, IsList
  <2> QED BY <2>1, <2>2
<1>7. l.next[n] \in nodes \union {None} /\ l.next \in [nodes -> nodes \union {None}]
  BY <1>3 DEF IsList
<1>8. /\ m.next \in [nodes -> nodes \union {None}] /\ m.next[n] = None
      /\ j # 1 => m.next[prev] = l.next[n]
      /\ \A k \in nodes \ {n} : (j # 1 /\ k = prev) \/ m.next[k] = l.next[k]
  <2>1. CASE j = 1
    BY <1>3, <1>6, <1>7, <2>1
  <2>2. CASE j # 1
    BY <1>3, <1>5, <1>6, <1>7, <2>2
  <2> QED BY <2>1, <2>2
<1>9. m.count \in Nat /\ m.count + 1 = l.count
  BY <1>1, <1>3, <1>6
<1>10. IsList(m, nodes, I)
  <2>1. m.first \in nodes \union {None} /\ m.last \in nodes \union {None}
    BY <1>5, <1>6, <1>7 DEF IsList
  <2>2. m.info \in [nodes -> I \union {None}]
    BY <1>6 DEF IsList
  <2> QED BY <1>6, <1>8, <1>9, <2>1, <2>2 DEF IsList
<1> DEFINE t == [i \in 1..m.count |-> IF i < j THEN s[i] ELSE s[i + 1]]
<1>11. /\ \A i \in 1..m.count : i \in 1..l.count /\ i + 1 \in 1..l.count
       /\ \A i \in 1..m.count : i < j => t[i] = s[i]
       /\ \A i \in 1..m.count : ~(i < j) => t[i] = s[i + 1]
  BY <1>9
<1>12. t \in [1..m.count -> nodes]
  BY <1>11 DEF Chain
<1> HIDE DEF t
<1>13. ASSUME NEW i \in 1..m.count, NEW k \in 1..m.count, t[i] = t[k] PROVE i = k
  <2>1. (i < j => t[i] = s[i]) /\ (~(i < j) => t[i] = s[i + 1])
        /\ (k < j => t[k] = s[k]) /\ (~(k < j) => t[k] = s[k + 1])
        /\ i \in 1..l.count /\ i + 1 \in 1..l.count /\ k \in 1..l.count /\ k + 1 \in 1..l.count
    BY <1>11
  <2>2. \A a, b \in 1..l.count : s[a] = s[b] => a = b
    BY DEF Chain
  <2>3. CASE i < j /\ k < j
    BY <1>13, <2>1, <2>2, <2>3
  <2>4. CASE i < j /\ ~(k < j)
    <3>1. i = k + 1
      BY <1>13, <2>1, <2>2, <2>4
    <3> QED BY <2>4, <3>1
  <2>5. CASE ~(i < j) /\ k < j
    <3>1. i + 1 = k
      BY <1>13, <2>1, <2>2, <2>5
    <3> QED BY <2>5, <3>1
  <2>6. CASE ~(i < j) /\ ~(k < j)
    <3>1. i + 1 = k + 1
      BY <1>13, <2>1, <2>2, <2>6
    <3> QED BY <3>1
  <2> QED BY <2>3, <2>4, <2>5, <2>6
<1>14. ASSUME NEW k \in nodes PROVE m.info[k] # None <=> \E i \in 1..m.count : t[i] = k
  <2>1. CASE k = n
    <3>1. m.info[k] = None
      BY <1>6, <2>1 DEF IsList
    <3>2. ASSUME NEW i \in 1..m.count PROVE t[i] # n
      <4>1. CASE i < j
        <5>1. t[i] = s[i] /\ i \in 1..l.count /\ i # j
          BY <1>2, <1>11, <4>1
        <5> QED BY <1>2, <5>1 DEF Chain
      <4>2. CASE ~(i < j)
        <5>1. t[i] = s[i + 1] /\ i + 1 \in 1..l.count /\ i + 1 # j
          BY <1>2, <1>11, <4>2
        <5> QED BY <1>2, <5>1 DEF Chain
      <4> QED BY <4>1, <4>2
    <3> QED BY <2>1, <3>1, <3>2
  <2>2. CASE k # n
    <3>1. m.info[k] = l.info[k]
      BY <1>6, <2>2 DEF IsList
    <3>2. ASSUME NEW i \in 1..l.count, s[i] = k PROVE \E h \in 1..m.count : t[h] = k
      <4>1. i # j
        BY <1>2, <2>2, <3>2
      <4>2. CASE i < j
        <5>1. i \in 1..m.count
          BY <1>2, <1>9, <4>2
        <5> QED BY <1>11, <3>2, <4>2, <5>1
      <4>3. CASE i > j
        <5>1. i - 1 \in 1..m.count /\ ~(i - 1 < j) /\ (i - 1) + 1 = i
          BY <1>2, <1>9, <4>3
        <5> QED BY <1>11, <3>2, <5>1
      <4> QED BY <1>2, <4>1, <4>2, <4>3
    <3>3. ASSUME NEW h \in 1..m.count, t[h] = k PROVE \E i \in 1..l.count : s[i] = k
      BY <1>11, <3>3
    <3> QED BY <3>1, <3>2, <3>3 DEF Chain
  <2> QED BY <2>1, <2>2
<1>15. m.first = IF m.count = 0 THEN None ELSE t[1]
  <2>1. CASE j = 1
    <3>1. m.first = IF 1 < l.count THEN s[2] ELSE None
      BY <1>3, <1>6, <2>1
    <3>2. CASE m.count = 0
      BY <1>9, <3>1, <3>2
    <3>3. CASE m.count # 0
      <4>1. 1 \in 1..m.count /\ ~(1 < j) /\ 1 + 1 = 2
        BY <1>9, <2>1, <3>3
      <4>2. t[1] = s[2]
        BY <1>11, <4>1
      <4> QED BY <1>9, <3>1, <3>3, <4>2
    <3> QED BY <3>2, <3>3
  <2>2. CASE j # 1
    <3>1. 1 < j /\ 1 \in 1..m.count /\ m.count # 0
      BY <1>2, <1>9, <2>2
    <3>2. t[1] = s[1]
      BY <1>11, <3>1
    <3>3. l.first = s[1]
      BY <1>3 DEF Chain
    <3> QED BY <1>6, <2>2, <3>1, <3>2, <3>3
  <2> QED BY <2>1, <2>2
<1>16. ASSUME NEW i \in 1..m.count
       PROVE  m.next[t[i]] = IF i < m.count THEN t[i + 1] ELSE None
  <2>0. i \in Int /\ j \in Int /\ i < m.count => i + 1 \in 1..m.count
    BY <1>9
  <2>a. \A k \in 1..l.count : /\ s[k] \in nodes
                              /\ l.next[s[k]] = IF k < l.count THEN s[k + 1] ELSE None
    BY DEF Chain
  <2>b. \A k, h \in 1..l.count : s[k] = s[h] => k = h
    BY DEF Chain
  <2>1. CASE ~(i < j)
    <3>1. t[i] = s[i + 1] /\ i + 1 \in 1..l.count
      BY <1>11, <2>1
    <3>2. s[i + 1] # n /\ (j # 1 => s[i + 1] # prev)
      <4>1. i + 1 # j /\ i + 1 # j - 1
        BY <1>2, <2>1
      <4> QED BY <1>2, <1>5, <2>b, <3>1, <4>1
    <3>3. m.next[s[i + 1]] = l.next[s[i + 1]]
      BY <1>8, <2>a, <3>1, <3>2
    <3>4. i + 1 < l.count <=> i < m.count
      BY <1>9
    <3>5. i < m.count => t[i + 1] = s[(i + 1) + 1]
      <4>1. ~(i + 1 < j)
        BY <1>2, <2>1
      <4> QED BY <1>11, <2>0, <4>1
    <3> QED BY <2>a, <3>1, <3>3, <3>4, <3>5
  <2>2. CASE i < j /\ i + 1 # j
    <3>1. t[i] = s[i] /\ i \in 1..l.count /\ i + 1 < j
      BY <1>2, <1>11, <2>2
    <3>2. s[i] # n /\ (j # 1 => s[i] # prev)
      <4>1. i # j /\ i # j - 1
        BY <1>2, <2>2
      <4> QED BY <1>2, <1>5, <2>b, <3>1, <4>1
    <3>3. m.next[s[i]] = l.next[s[i]]
      BY <1>8, <2>a, <3>1, <3>2
    <3>4. i < m.count /\ i < l.count
      BY <1>2, <1>9, <3>1
    <3>5. t[i + 1] = s[i + 1]
      BY <1>11, <2>0, <3>1, <3>4
    <3> QED BY <2>a, <3>1, <3>3, <3>4, <3>5
  <2>3. CASE i < j /\ i + 1 = j
    <3>1. t[i] = s[i] /\ i \in 1..l.count /\ j # 1 /\ i = j - 1
      BY <1>2, <1>11, <2>3
    <3>2. m.next[t[i]] = l.next[n]
      BY <1>5, <1>8, <3>1
    <3>3. j < l.count <=> i < m.count
      BY <1>2, <1>9, <2>3
    <3>4. i < m.count => t[i + 1] = s[j + 1]
      <4>1. ~(i + 1 < j)
        BY <1>2, <2>3
      <4> QED BY <1>11, <2>0, <2>3, <4>1
    <3> QED BY <1>3, <3>2, <3>3, <3>4
  <2> QED BY <2>1, <2>2, <2>3
<1>17. ASSUME m.count > 0 PROVE m.last = t[m.count]
  <2>1. m.count \in 1..m.count
    BY <1>9, <1>17
  <2>2. CASE j = l.count
    <3>1. j # 1 /\ m.count < j /\ m.count = j - 1
      BY <1>2, <1>9, <1>17, <2>2
    <3>2. t[m.count] = s[j - 1]
      BY <1>11, <2>1, <3>1
    <3> QED BY <1>2, <1>3, <1>5, <1>6, <2>2, <3>1, <3>2
  <2>3. CASE j # l.count
    <3>1. ~(m.count < j) /\ m.count + 1 = l.count
      BY <1>2, <1>9, <2>3
    <3>2. t[m.count] = s[l.count]
      BY <1>11, <2>1, <3>1
    <3>3. s[l.count] # n
      BY <1>1, <1>2, <1>3, <2>3 DEF Chain
    <3> QED BY <1>3, <1>6, <3>2, <3>3
  <2> QED BY <2>2, <2>3
<1>18. Chain(m, t, nodes)
  BY <1>12, <1>13, <1>14, <1>15, <1>16, <1>17 DEF Chain
<1> QED BY <1>3, <1>6, <1>10, <1>18

\* Find stops at a node for x when there is one.
LEMMA FindFacts ==
  ASSUME NEW nodes, Nodes(nodes), NEW I, NEW l, IsList(l, nodes, I), NEW s, Chain(l, s, nodes),
         NEW x, Found(l, x) # {}
  PROVE  Find(l, x) \in Found(l, x)
<1> DEFINE C == Cardinality(NodesOf(l))
           F == Found(l, x)
           T == {i \in 0..C : At(l)[i] \in F}
<1>1. C \in Nat
  BY AtFacts
<1>2. T # {}
  <2>1. PICK n \in InList(l) : n \in F
    BY DEF Found
  <2> QED BY <2>1 DEF InList
<1>3. T \in SUBSET Nat
  BY <1>1
<1>4. PICK k \in T : \A i \in T : k <= i
  BY <1>2, <1>3, Least
<1>5. k \in 0..C /\ At(l)[k] \in F
  BY <1>4
<1>6. ASSUME NEW j \in 0..(k - 1) PROVE At(l)[j] \notin F
  <2>1. j \in 0..C /\ ~(k <= j)
    BY <1>1, <1>5
  <2> QED BY <1>4, <2>1
<1> HIDE DEF F, C, T
<1>7. Find(l, x) = LET h == CHOOSE i \in 0..C : /\ At(l)[i] \in F
                                                 /\ \A j \in 0..(i - 1) : At(l)[j] \notin F
                   IN  At(l)[h]
  BY DEF Find, C, F
<1> DEFINE h == CHOOSE i \in 0..C : At(l)[i] \in F /\ \A j \in 0..(i - 1) : At(l)[j] \notin F
<1>8. At(l)[h] \in F
  BY <1>5, <1>6
<1> HIDE DEF h
<1> QED BY <1>7, <1>8 DEF h, F

\* What Find gives is the node for x, when there is only one.
LEMMA FoundFacts ==
  ASSUME NEW nodes, Nodes(nodes), NEW I, NEW l, IsList(l, nodes, I), NEW s, Chain(l, s, nodes),
         NEW x
  PROVE  /\ Found(l, x) = {n \in nodes : l.info[n] # None /\ l.info[n].key = x}
         /\ Found(l, x) # {} => Find(l, x) \in InList(l) /\ Find(l, x) \in Found(l, x)
<1>1. InList(l) = {n \in nodes : l.info[n] # None}
  BY ChainWalk, AtFacts DEF Used
<1>2. Found(l, x) = {n \in nodes : l.info[n] # None /\ l.info[n].key = x}
  BY <1>1 DEF Found
<1>3. Found(l, x) \subseteq InList(l)
  BY DEF Found
<1> QED BY <1>2, <1>3, FindFacts

-----------------------------------------------------------------------------
(* The ring                                                                *)

\* What % is for positions that go round the ring at most once.
LEMMA ModFacts ==
  ASSUME NEW N \in Nat \ {0}, NEW a \in 0..(N - 1), NEW b \in 0..N
  PROVE  /\ (a + b) % N = IF a + b < N THEN a + b ELSE a + b - N
         /\ (a + b) % N \in 0..(N - 1)
         /\ b < N => (a - b) % N = IF a >= b THEN a - b ELSE a - b + N
<1>1. ASSUME a + b >= N PROVE (a + b) % N = a + b - N
  <2>1. a + b - N \in 0..(N - 1) /\ a + b = N * 1 + (a + b - N)
    BY <1>1
  <2> QED BY <2>1
<1>2. ASSUME a + b < N PROVE (a + b) % N = a + b
  BY <1>2
<1>3. ASSUME b < N, a < b PROVE (a - b) % N = a - b + N
  BY <1>3
<1>4. ASSUME b < N, a >= b PROVE (a - b) % N = a - b
  BY <1>4
<1> QED BY <1>1, <1>2, <1>3, <1>4

\* The place k words behind rp, and how far i is behind rp.
Place(rp, k) == (rp + k) % RING
Distance(i, rp) == (i - rp) % RING

\* The words a writer puts in the ring, and a ring of them.
RingWords == {Size(n) : n \in Nat} \union {Name(x) : x \in Fns \union {"call"}} \union {Arg, Raw}

IsRing(r) ==
  r \in [buffer : [0..(RING - 1) -> RingWords \union {Gone}], read_pos : 0..(RING - 1),
         write_pos : 0..(RING - 1), remaining_data : 0..RING]

\* The words of r that are not read yet are l.
Contains(r, l) ==
  /\ IsRing(r)
  /\ l \in Seq(RingWords) /\ Len(l) = r.remaining_data
  /\ r.write_pos = Place(r.read_pos, r.remaining_data)
  /\ \A k \in 0..(r.remaining_data - 1) : r.buffer[Place(r.read_pos, k)] = l[k + 1]

\* The parts of a ring.
LEMMA RingFacts ==
  ASSUME NEW r, IsRing(r)
  PROVE  /\ r.read_pos \in 0..(RING - 1) /\ r.write_pos \in 0..(RING - 1)
         /\ r.remaining_data \in 0..RING /\ r.buffer \in [0..(RING - 1) -> RingWords \union {Gone}]
         /\ RING \in Nat \ {0}
BY TracerAssumption DEF IsRing

\* An empty ring contains nothing.
LEMMA EmptyContains == Contains(EmptyRing, <<>>)
<1>1. RING \in Nat \ {0}
  BY TracerAssumption
<1>2. (0 + 0) % RING = 0
  BY <1>1, ModFacts
<1> QED BY <1>1, <1>2 DEF EmptyRing, Contains, IsRing, Place

\* Place and Distance without %.
LEMMA PlaceIs ==
  ASSUME NEW rp \in 0..(RING - 1), NEW n \in 0..RING
  PROVE  /\ Place(rp, n) = IF rp + n < RING THEN rp + n ELSE rp + n - RING
         /\ Place(rp, n) \in 0..(RING - 1)
BY TracerAssumption, ModFacts DEF Place

LEMMA DistanceIs ==
  ASSUME NEW i \in 0..(RING - 1), NEW rp \in 0..(RING - 1)
  PROVE  Distance(i, rp) = IF i >= rp THEN i - rp ELSE i - rp + RING
<1>1. rp \in 0..RING /\ rp < RING
  BY TracerAssumption
<1> QED BY <1>1, TracerAssumption, ModFacts DEF Distance

\* Places one after the other, and places that differ.
LEMMA PlaceFacts ==
  ASSUME NEW rp \in 0..(RING - 1), NEW n \in 0..RING
  PROVE  /\ Place(rp, n) \in 0..(RING - 1)
         /\ \A rd \in 0..RING :
              /\ rd + n <= RING => Place(Place(rp, rd), n) = Place(rp, rd + n)
              /\ n <= rd => Place(Place(rp, n), rd - n) = Place(rp, rd)
         /\ \A k \in 0..(RING - 1) : n + k < RING => Place(Place(rp, n), k) = Place(rp, n + k)
<1>1. RING \in Nat \ {0}
  BY TracerAssumption
<1>2. /\ Place(rp, n) = IF rp + n < RING THEN rp + n ELSE rp + n - RING
      /\ Place(rp, n) \in 0..(RING - 1)
  BY PlaceIs
<1>3. ASSUME NEW rd \in 0..RING, rd + n <= RING
      PROVE  Place(Place(rp, rd), n) = Place(rp, rd + n)
  <2>1. /\ Place(rp, rd) = IF rp + rd < RING THEN rp + rd ELSE rp + rd - RING
        /\ Place(rp, rd) \in 0..(RING - 1)
    BY PlaceIs
  <2> DEFINE p == Place(rp, rd)
  <2>2. Place(p, n) = IF p + n < RING THEN p + n ELSE p + n - RING
    BY <2>1, PlaceIs
  <2>3. rd + n \in 0..RING
    BY <1>1, <1>3
  <2>4. Place(rp, rd + n) = IF rp + (rd + n) < RING THEN rp + (rd + n) ELSE rp + (rd + n) - RING
    BY <2>3, PlaceIs
  <2> HIDE DEF p
  <2>5. p = IF rp + rd < RING THEN rp + rd ELSE rp + rd - RING
    BY <2>1 DEF p
  <2> QED BY <1>1, <1>3, <2>2, <2>4, <2>5 DEF p
<1>4. ASSUME NEW rd \in 0..RING, n <= rd
      PROVE  Place(Place(rp, n), rd - n) = Place(rp, rd)
  <2> DEFINE p == Place(rp, n)
  <2>1. rd - n \in 0..RING
    BY <1>1, <1>4
  <2>2. Place(p, rd - n) = IF p + (rd - n) < RING THEN p + (rd - n) ELSE p + (rd - n) - RING
    BY <1>2, <2>1, PlaceIs
  <2>3. Place(rp, rd) = IF rp + rd < RING THEN rp + rd ELSE rp + rd - RING
    BY PlaceIs
  <2> QED BY <1>1, <1>2, <1>4, <2>2, <2>3
<1>5. ASSUME NEW k \in 0..(RING - 1), n + k < RING
      PROVE  Place(Place(rp, n), k) = Place(rp, n + k)
  <2> DEFINE p == Place(rp, n)
  <2>1. n + k \in 0..RING /\ k \in 0..RING
    BY <1>1, <1>5
  <2>2. Place(p, k) = IF p + k < RING THEN p + k ELSE p + k - RING
    BY <1>2, <2>1, PlaceIs
  <2>3. Place(rp, n + k) = IF rp + (n + k) < RING THEN rp + (n + k) ELSE rp + (n + k) - RING
    BY <2>1, PlaceIs
  <2> QED BY <1>1, <1>2, <1>5, <2>2, <2>3
<1> QED BY <1>2, <1>3, <1>4, <1>5

\* A place is as far behind as it was put, from read_pos and from write_pos.
LEMMA DistanceFacts ==
  ASSUME NEW rp \in 0..(RING - 1), NEW k \in 0..(RING - 1), NEW rd \in 0..RING
  PROVE  /\ Place(rp, k) \in 0..(RING - 1)
         /\ Distance(Place(rp, k), rp) = k
         /\ k < rd => Distance(Place(rp, k), Place(rp, rd)) = RING - rd + k
         /\ k >= rd => Distance(Place(rp, k), Place(rp, rd)) = k - rd
<1> DEFINE i == Place(rp, k)
           wp == Place(rp, rd)
<1>1. RING \in Nat \ {0} /\ k \in 0..RING
  BY TracerAssumption
<1>2. /\ i = IF rp + k < RING THEN rp + k ELSE rp + k - RING
      /\ i \in 0..(RING - 1)
  BY <1>1, PlaceIs
<1>3. /\ wp = IF rp + rd < RING THEN rp + rd ELSE rp + rd - RING
      /\ wp \in 0..(RING - 1)
  BY PlaceIs
<1> HIDE DEF i, wp
<1>4. Distance(i, rp) = IF i >= rp THEN i - rp ELSE i - rp + RING
  BY <1>2, DistanceIs
<1>5. Distance(i, wp) = IF i >= wp THEN i - wp ELSE i - wp + RING
  BY <1>2, <1>3, DistanceIs
<1>6. /\ Distance(i, rp) = k
      /\ k < rd => Distance(i, wp) = RING - rd + k
      /\ k >= rd => Distance(i, wp) = k - rd
  BY <1>1, <1>2, <1>3, <1>4, <1>5
<1> QED BY <1>2, <1>6 DEF i, wp

\* What it is for a ring to contain a queue.
LEMMA ContainsFacts ==
  ASSUME NEW r, NEW l, Contains(r, l)
  PROVE  /\ IsRing(r) /\ RING \in Nat \ {0}
         /\ r.read_pos \in 0..(RING - 1) /\ r.write_pos \in 0..(RING - 1)
         /\ r.remaining_data \in 0..RING
         /\ r.buffer \in [0..(RING - 1) -> RingWords \union {Gone}]
         /\ r.write_pos = Place(r.read_pos, r.remaining_data)
         /\ l \in Seq(RingWords) /\ Len(l) = r.remaining_data
         /\ \A k \in 0..(r.remaining_data - 1) : r.buffer[Place(r.read_pos, k)] = l[k + 1]
BY RingFacts DEF Contains

\* trace_buffer_write appends what fits.
LEMMA PutFacts ==
  ASSUME NEW r, NEW l, Contains(r, l), NEW words \in Seq(RingWords)
  PROVE  /\ Contains(Put(r, words), Logged(l, r, words))
         /\ Len(words) <= Room(r) => Logged(l, r, words) = l \o words
<1> DEFINE n == IF Len(words) > Room(r) THEN Room(r) ELSE Len(words)
           q == Put(r, words)
           new == SubSeq(words, 1, n)
           m == Logged(l, r, words)
           rp == r.read_pos
           wp == r.write_pos
           rd == r.remaining_data
<1>1. rp \in 0..(RING - 1) /\ wp \in 0..(RING - 1) /\ rd \in 0..RING /\ RING \in Nat \ {0}
  BY ContainsFacts
<1>2. l \in Seq(RingWords) /\ Len(l) = rd
  BY ContainsFacts
<1>3. Len(words) \in Nat /\ \A k \in 1..Len(words) : words[k] \in RingWords
  OBVIOUS
<1>4. n \in 0..RING /\ rd + n <= RING /\ rd + n \in 0..RING /\ n <= Len(words)
  BY <1>1, <1>3 DEF Room
<1>5. m = l \o new
  BY DEF Logged
<1>6. new \in Seq(RingWords) /\ Len(new) = n /\ \A k \in 1..n : new[k] = words[k]
  BY <1>3, <1>4
<1>7. Len(words) <= Room(r) => new = words
  BY <1>1, <1>3 DEF Room
<1>8. /\ q.buffer = [i \in 0..(RING - 1) |->
                       IF Distance(i, wp) < n THEN words[Distance(i, wp) + 1] ELSE r.buffer[i]]
      /\ q.read_pos = rp /\ q.write_pos = Place(wp, n) /\ q.remaining_data = rd + n
      /\ q = [buffer |-> q.buffer, read_pos |-> q.read_pos, write_pos |-> q.write_pos,
              remaining_data |-> q.remaining_data]
  <2>1. IsRing(r)
    BY ContainsFacts
  <2> DEFINE b == [i \in 0..(RING - 1) |->
                       LET k == (i - r.write_pos) % RING
                       IN  IF k < n THEN words[k + 1] ELSE r.buffer[i]]
  <2>2. q = [r EXCEPT !.buffer = b, !.write_pos = (@ + n) % RING, !.remaining_data = @ + n]
    BY DEF Put
  <2>3. b = [i \in 0..(RING - 1) |->
                       IF Distance(i, wp) < n THEN words[Distance(i, wp) + 1] ELSE r.buffer[i]]
    BY DEF Distance
  <2> HIDE DEF b, n, q
  <2>4. q = [buffer |-> b, read_pos |-> rp, write_pos |-> (wp + n) % RING,
             remaining_data |-> rd + n]
    BY <2>1, <2>2 DEF IsRing
  <2> QED BY <2>3, <2>4 DEF Place
<1> HIDE DEF n, q, new, m
<1>9. /\ m \in Seq(RingWords) /\ Len(m) = rd + n
      /\ \A k \in 1..rd : m[k] = l[k]
      /\ \A k \in 1..n : m[rd + k] = words[k]
  <2>1. Len(new) \in Nat /\ Len(l) \in Nat
    BY <1>2, <1>6
  <2>2. l \in Seq(RingWords) /\ new \in Seq(RingWords)
    BY <1>2, <1>6
  <2>3. /\ m \in Seq(RingWords) /\ Len(m) = Len(l) + Len(new)
        /\ \A k \in 1..Len(m) : m[k] = IF k <= Len(l) THEN l[k] ELSE new[k - Len(l)]
    <3>1. /\ l \o new \in Seq(RingWords) /\ Len(l \o new) = Len(l) + Len(new)
          /\ \A k \in 1..(Len(l) + Len(new)) :
               (l \o new)[k] = IF k <= Len(l) THEN l[k] ELSE new[k - Len(l)]
      BY <2>2, ConcatProperties, Zenon
    <3> QED BY <1>5, <3>1
  <2>4. ASSUME NEW k \in 1..Len(new) PROVE m[Len(l) + k] = new[k]
    <3>1. Len(l) + k \in 1..Len(m) /\ ~(Len(l) + k <= Len(l)) /\ Len(l) + k - Len(l) = k
      BY <2>1, <2>3
    <3> QED BY <2>3, <3>1
  <2>5. ASSUME NEW k \in 1..Len(l) PROVE m[k] = l[k]
    <3>1. k \in 1..Len(m) /\ k <= Len(l)
      BY <2>1, <2>3
    <3> QED BY <2>3, <3>1
  <2> QED BY <1>2, <1>6, <2>3, <2>4, <2>5
<1> HIDE DEF rp, wp, rd
<1>10. Place(wp, n) \in 0..(RING - 1) /\ Place(wp, n) = Place(rp, rd + n)
  <2>1. wp = Place(rp, rd)
    BY ContainsFacts DEF wp, rp, rd
  <2> QED BY <1>1, <1>4, <2>1, PlaceFacts
<1>11. \A i \in 0..(RING - 1) : Distance(i, wp) \in 0..(RING - 1)
  <2>1. ASSUME NEW i \in 0..(RING - 1) PROVE (i - wp) % RING \in 0..(RING - 1)
    <3>1. (i - wp) % RING = IF i >= wp THEN i - wp ELSE i - wp + RING
      <4>1. wp \in 0..RING /\ wp < RING
        BY <1>1
      <4> QED BY <1>1, <4>1, ModFacts
    <3> QED BY <1>1, <3>1
  <2> QED BY <2>1 DEF Distance
<1>12. q.buffer \in [0..(RING - 1) -> RingWords \union {Gone}]
  <2>1. ASSUME NEW i \in 0..(RING - 1), Distance(i, wp) < n
        PROVE  words[Distance(i, wp) + 1] \in RingWords
    <3>1. Distance(i, wp) + 1 \in 1..Len(words)
      BY <1>3, <1>4, <1>11, <2>1
    <3> QED BY <1>3, <3>1
  <2>2. r.buffer \in [0..(RING - 1) -> RingWords \union {Gone}]
    BY ContainsFacts
  <2> QED BY <1>8, <2>1, <2>2
<1>13. IsRing(q)
  <2>1. /\ q.remaining_data \in 0..RING
        /\ q.write_pos \in 0..(RING - 1) /\ q.read_pos \in 0..(RING - 1)
    BY <1>1, <1>4, <1>8, <1>10
  <2> QED BY <1>8, <1>12, <2>1 DEF IsRing
<1>13a. \A k \in 0..(RING - 1) :
        /\ Place(rp, k) \in 0..(RING - 1)
        /\ k < rd => Distance(Place(rp, k), Place(rp, rd)) = RING - rd + k
        /\ k >= rd => Distance(Place(rp, k), Place(rp, rd)) = k - rd
  BY <1>1, DistanceFacts
<1>14. ASSUME NEW k \in 0..((rd + n) - 1)
       PROVE  q.buffer[Place(rp, k)] = m[k + 1]
  <2> DEFINE i == Place(rp, k)
  <2>1. k \in 0..(RING - 1)
    BY <1>1, <1>4
  <2>2. /\ i \in 0..(RING - 1)
        /\ k < rd => Distance(i, wp) = RING - rd + k
        /\ k >= rd => Distance(i, wp) = k - rd
    <3>1. wp = Place(rp, rd)
      BY ContainsFacts DEF wp, rp, rd
    <3> QED BY <1>13a, <2>1, <3>1
  <2> HIDE DEF i
  <2>3. CASE k < rd
    <3>1. ~(Distance(i, wp) < n)
      BY <1>1, <1>4, <2>1, <2>2, <2>3
    <3>2. q.buffer[i] = r.buffer[i]
      BY <1>8, <2>2, <3>1
    <3>3. k \in 0..(rd - 1) /\ k + 1 \in 1..rd
      BY <1>1, <2>1, <2>3
    <3>4. r.buffer[i] = l[k + 1]
      BY <3>3, ContainsFacts DEF i, rp, rd
    <3> QED BY <1>9, <3>2, <3>3, <3>4 DEF i
  <2>4. CASE ~(k < rd)
    <3>1. Distance(i, wp) = k - rd /\ k - rd < n /\ k - rd + 1 \in 1..n /\ rd + (k - rd + 1) = k + 1
      BY <1>1, <1>4, <2>1, <2>2, <2>4
    <3>2. q.buffer[i] = words[k - rd + 1]
      BY <1>8, <2>2, <3>1
    <3>3. m[k + 1] = words[k - rd + 1]
      BY <1>9, <3>1
    <3> QED BY <3>2, <3>3 DEF i
  <2> QED BY <2>3, <2>4
<1>15. Contains(q, m)
  BY <1>8, <1>9, <1>10, <1>13, <1>14 DEF Contains
<1> QED BY <1>5, <1>7, <1>15 DEF q, m

\* The ring with n words taken off and not counted any more.
TakenOff(r, n) == [Taken(r, n) EXCEPT !.remaining_data = @ - n]

\* n words taken from a ring, with the count that is right.
LEMMA TakenFacts ==
  ASSUME NEW r, NEW l, Contains(r, l), NEW n \in 0..r.remaining_data,
         NEW q, q = TakenOff(r, n)
  PROVE  /\ Contains(q, SubSeq(l, n + 1, Len(l)))
         /\ \A k \in 0..(r.remaining_data - 1) : Word(r, k) = l[k + 1] /\ l[k + 1] \in RingWords
<1> DEFINE m == SubSeq(l, n + 1, Len(l))
           rp == r.read_pos
           wp == r.write_pos
           rd == r.remaining_data
<1>1. rp \in 0..(RING - 1) /\ wp \in 0..(RING - 1) /\ rd \in 0..RING /\ RING \in Nat \ {0}
  BY ContainsFacts
<1>2. l \in Seq(RingWords) /\ Len(l) = rd
  BY ContainsFacts
<1>3. /\ q.buffer = [i \in 0..(RING - 1) |-> IF Distance(i, rp) < n THEN Gone ELSE r.buffer[i]]
      /\ q.read_pos = Place(rp, n) /\ q.write_pos = wp /\ q.remaining_data = rd - n
      /\ q = [buffer |-> q.buffer, read_pos |-> q.read_pos, write_pos |-> q.write_pos,
              remaining_data |-> q.remaining_data]
  <2>1. IsRing(r)
    BY ContainsFacts
  <2> DEFINE b == [i \in 0..(RING - 1) |-> IF (i - rp) % RING < n THEN Gone ELSE r.buffer[i]]
  <2>2. q = [[r EXCEPT !.buffer = b, !.read_pos = (@ + n) % RING] EXCEPT !.remaining_data = @ - n]
    BY DEF Taken, TakenOff
  <2>3. b = [i \in 0..(RING - 1) |-> IF Distance(i, rp) < n THEN Gone ELSE r.buffer[i]]
    BY DEF Distance
  <2> HIDE DEF b
  <2>4. q = [buffer |-> b, read_pos |-> (rp + n) % RING, write_pos |-> wp,
             remaining_data |-> rd - n]
    BY <2>1, <2>2 DEF IsRing
  <2> HIDE DEF m, rp, wp, rd
  <2>5. (rp + n) % RING = Place(rp, n)
    BY DEF Place
  <2>6. /\ q.buffer = b /\ q.read_pos = (rp + n) % RING /\ q.write_pos = wp
        /\ q.remaining_data = rd - n
        /\ q = [buffer |-> q.buffer, read_pos |-> q.read_pos, write_pos |-> q.write_pos,
                remaining_data |-> q.remaining_data]
    BY <2>4
  <2> QED BY <2>3, <2>5, <2>6
<1>4. n \in 0..RING /\ n <= rd /\ rd - n \in 0..RING /\ n \in 0..rd
  BY <1>1
<1>5. /\ m \in Seq(RingWords) /\ Len(m) = rd - n
      /\ \A k \in 1..(rd - n) : m[k] = l[n + k]
  BY <1>1, <1>2, <1>4
<1>6. \A k \in 0..(rd - 1) : Word(r, k) = l[k + 1] /\ l[k + 1] \in RingWords
  <2> SUFFICES ASSUME NEW k \in 0..(rd - 1) PROVE Word(r, k) = l[k + 1] /\ l[k + 1] \in RingWords
    OBVIOUS
  <2>1. k + 1 \in 1..Len(l)
    BY <1>1, <1>2
  <2>2. Word(r, k) = r.buffer[Place(rp, k)]
    BY DEF Word, Place
  <2>3. r.buffer[Place(rp, k)] = l[k + 1]
    BY ContainsFacts
  <2> QED BY <1>2, <2>1, <2>2, <2>3
<1> HIDE DEF m, rp, wp, rd
<1>7. Place(rp, n) \in 0..(RING - 1) /\ Place(Place(rp, n), rd - n) = wp
  <2>1. wp = Place(rp, rd)
    BY ContainsFacts DEF wp, rp, rd
  <2> QED BY <1>1, <1>4, <2>1, PlaceFacts
<1>9. IsRing(q)
  <2>1. q.buffer \in [0..(RING - 1) -> RingWords \union {Gone}]
    <3>1. r.buffer \in [0..(RING - 1) -> RingWords \union {Gone}]
      BY ContainsFacts
    <3> HIDE DEF rp
    <3>2. Gone \in RingWords \union {Gone}
      OBVIOUS
    <3>3. q.buffer = [i \in 0..(RING - 1) |-> IF Distance(i, rp) < n THEN Gone ELSE r.buffer[i]]
      BY <1>3
    <3> DEFINE S == RingWords \union {Gone}
    <3> HIDE DEF S
    <3>4. r.buffer \in [0..(RING - 1) -> S] /\ Gone \in S
      BY <3>1, <3>2 DEF S
    <3>5. q.buffer \in [0..(RING - 1) -> S]
      BY <3>3, <3>4
    <3> QED BY <3>5 DEF S
  <2>2. /\ q.remaining_data \in 0..RING
        /\ q.write_pos \in 0..(RING - 1) /\ q.read_pos \in 0..(RING - 1)
    BY <1>1, <1>3, <1>4, <1>7
  <2> QED BY <1>3, <2>1, <2>2 DEF IsRing
<1>10. ASSUME NEW k \in 0..((rd - n) - 1)
       PROVE  q.buffer[Place(Place(rp, n), k)] = m[k + 1]
  <2>1. k \in Int /\ 0 <= k /\ k < rd - n
    BY <1>1, <1>4
  <2>2. n + k \in 0..(RING - 1) /\ k \in 0..(RING - 1) /\ n + k < RING /\ n + k \in 0..(rd - 1)
    BY <1>1, <1>4, <2>1
  <2> DEFINE i == Place(rp, n + k)
  <2>3. Place(Place(rp, n), k) = i
    BY <1>1, <1>4, <2>2, PlaceFacts
  <2>4. i \in 0..(RING - 1) /\ Distance(i, rp) = n + k
    BY <1>1, <2>2, DistanceFacts
  <2>5. r.buffer[i] = l[(n + k) + 1]
    BY <2>2, ContainsFacts DEF rp, rd
  <2> HIDE DEF i
  <2>6. ~(Distance(i, rp) < n)
    BY <1>4, <2>1, <2>4
  <2>7. q.buffer[i] = r.buffer[i]
    BY <1>3, <2>4, <2>6
  <2>8. k + 1 \in 1..(rd - n) /\ n + (k + 1) = (n + k) + 1
    BY <1>1, <1>4, <2>1
  <2>9. m[k + 1] = l[n + (k + 1)]
    BY <1>5, <2>8
  <2> QED BY <2>3, <2>5, <2>7, <2>8, <2>9
<1>11. Contains(q, m)
  BY <1>3, <1>5, <1>7, <1>9, <1>10 DEF Contains
<1> QED BY <1>6, <1>11 DEF m, rd

-----------------------------------------------------------------------------
(* Readers of records                                                      *)

\* A whole record says how long it is, and it is there.
WholeFacts ==
  \A l \in Seq(RingWords) : l # <<>> /\ Whole(l) =>
    /\ Head(l).size \in Nat /\ Head(l).size + 1 <= Len(l) /\ Head(l) = l[1]

\* The first word of a whole record is a size: no other word looks like one.
LEMMA SizeOfWhole == WholeFacts
<1> SUFFICES ASSUME NEW l \in Seq(RingWords), l # <<>>, Whole(l)
             PROVE  Head(l).size \in Nat /\ Head(l).size + 1 <= Len(l) /\ Head(l) = l[1]
  BY DEF WholeFacts
<1>1. Len(l) \in Nat /\ Len(l) # 0 /\ Head(l) = l[1] /\ Head(l) \in RingWords
  OBVIOUS
<1>2. DOMAIN Head(l) = {"size"} /\ Head(l).size < Len(l)
  BY DEF Whole
<1>3. Head(l) \notin {Name(x) : x \in Fns \union {"call"}} /\ Head(l) # Arg /\ Head(l) # Raw
  BY <1>2 DEF Name, Arg, Raw
<1>4. PICK n \in Nat : Head(l) = Size(n)
  BY <1>1, <1>3 DEF RingWords
<1>5. Head(l).size \in Nat
  BY <1>4 DEF Size
<1> QED BY <1>1, <1>2, <1>5

\* A reader takes a whole record: its words, and one of its own perhaps.
LEMMA TakeFacts ==
  ASSUME NEW r, NEW l, Contains(r, l), l # <<>>, Whole(l), NEW c,
         NEW n, n = Head(l).size
  PROVE  /\ n \in Nat /\ n + 1 <= Len(l)
         /\ Contains(Take(c, r).ring, SubSeq(l, n + 2, Len(l)))
         /\ Take(c, r).words \in Seq(RingWords \union {Beyond}) /\ Len(Take(c, r).words) = n
         /\ SubSeq(l, 2, n + 1) \in Seq(RingWords) /\ Len(SubSeq(l, 2, n + 1)) = n
         /\ \A k \in 1..n : Take(c, r).words[k] \in {SubSeq(l, 2, n + 1)[k], Beyond}
<1>1. /\ l \in Seq(RingWords) /\ Len(l) = r.remaining_data
      /\ r.remaining_data \in Nat /\ IsRing(r)
  BY ContainsFacts
<1>2. n \in Nat /\ n + 1 <= Len(l) /\ Head(l) = l[1]
  BY <1>1, SizeOfWhole DEF WholeFacts
<1> HIDE DEF WholeFacts
<1>3. n + 1 \in 0..r.remaining_data
  BY <1>1, <1>2
<1>4. /\ Contains(TakenOff(r, n + 1), SubSeq(l, (n + 1) + 1, Len(l)))
      /\ \A k \in 0..(r.remaining_data - 1) : Word(r, k) = l[k + 1] /\ l[k + 1] \in RingWords
  BY <1>3, TakenFacts
<1>5. Word(r, 0).size = n
  <2>1. 0 \in 0..(r.remaining_data - 1)
    BY <1>1, <1>2
  <2> QED BY <1>2, <1>4, <2>1
<1>6. \A k \in 1..n : Word(r, k) = l[k + 1] /\ l[k + 1] \in RingWords
  BY <1>1, <1>2, <1>4
<1>7. Taken(r, n + 1).remaining_data = r.remaining_data
  BY <1>1 DEF Taken, IsRing
<1>8. LeftAfter(r.remaining_data, n) = r.remaining_data - (n + 1)
  BY <1>1, <1>2 DEF LeftAfter
<1>9. Take(c, r).ring = TakenOff(r, n + 1)
  <2>1. CASE c = "read_strace"
    <3>1. Take(c, r).ring = [Taken(r, n + 1) EXCEPT
                               !.remaining_data = LeftAfter(r.remaining_data, n)]
      BY <1>5, <2>1 DEF Take, TakeCall
    <3> QED BY <1>7, <1>8, <3>1 DEF TakenOff
  <2>2. CASE c # "read_strace"
    BY <1>5, <2>2 DEF Take, TakeFn, TakenOff
  <2> QED BY <2>1, <2>2
<1>10. \E w : /\ Take(c, r).words = w /\ w \in [1..n -> RingWords \union {Beyond}]
              /\ \A k \in 1..n : w[k] \in {l[k + 1], Beyond}
  <2>1. CASE c = "read_strace"
    <3>1. Take(c, r).words = [k \in 1..n |-> Word(r, k)]
      BY <1>5, <2>1 DEF Take, TakeCall
    <3> QED BY <1>6, <3>1
  <2>2. CASE c # "read_strace"
    <3>1. Take(c, r).words = [k \in 1..n |->
                    IF k = 1 /\ r.read_pos = RING - 1 THEN Beyond ELSE Word(r, k)]
      BY <1>5, <2>2 DEF Take, TakeFn
    <3>2. \A k \in 1..n : (IF k = 1 /\ r.read_pos = RING - 1 THEN Beyond ELSE Word(r, k))
                             \in {l[k + 1], Beyond}
      BY <1>6
    <3> DEFINE w == [k \in 1..n |-> IF k = 1 /\ r.read_pos = RING - 1 THEN Beyond ELSE Word(r, k)]
    <3>3. w \in [1..n -> RingWords \union {Beyond}] /\ \A k \in 1..n : w[k] \in {l[k + 1], Beyond}
      BY <1>6, <3>2
    <3> QED BY <3>1, <3>3
  <2> QED BY <2>1, <2>2
<1>11. SubSeq(l, 2, n + 1) \in Seq(RingWords) /\ Len(SubSeq(l, 2, n + 1)) = n
       /\ \A k \in 1..n : SubSeq(l, 2, n + 1)[k] = l[k + 1]
  BY <1>1, <1>2
<1>12. PICK w : /\ Take(c, r).words = w /\ w \in [1..n -> RingWords \union {Beyond}]
                /\ \A k \in 1..n : w[k] \in {l[k + 1], Beyond}
  BY <1>10
<1>13. w \in Seq(RingWords \union {Beyond}) /\ Len(w) = n
  <2> DEFINE T == RingWords \union {Beyond}
  <2>1. w \in [1..n -> T]
    BY <1>12
  <2> HIDE DEF T
  <2>2. w \in Seq(T) /\ Len(w) = n
    BY <1>2, <2>1
  <2> QED BY <2>2 DEF T
<1>14. (n + 1) + 1 = n + 2
  BY <1>2
<1> QED BY <1>2, <1>4, <1>9, <1>11, <1>12, <1>13, <1>14

\* One turn of the loop of a reader, and the same on a queue.
ReadingStep(c, p) ==
  IF p.ring.remaining_data = 0 THEN p
  ELSE LET one == Take(c, p.ring)
       IN  [ring |-> one.ring, words |-> p.words \o one.words]

UnframedStep(p) ==
  IF p.stays = <<>> \/ p.torn THEN p
  ELSE IF ~Whole(p.stays) THEN [p EXCEPT !.torn = TRUE]
  ELSE LET n == Head(p.stays).size
       IN  [p EXCEPT !.stays = SubSeq(@, n + 2, Len(@)),
                     !.said = @ \o SubSeq(p.stays, 2, n + 1)]

\* f is what Reading, g what Unframed defines by recursion, for n turns.
Reads(c, r, n, f) ==
  f = [i \in 0..n |-> IF i = 0 THEN [ring |-> r, words |-> <<>>] ELSE ReadingStep(c, f[i - 1])]

Unframes(l, n, f) ==
  f = [i \in 0..n |-> IF i = 0 THEN [stays |-> l, said |-> <<>>, torn |-> FALSE]
                      ELSE UnframedStep(f[i - 1])]

\* The recursive functions of Reading and Unframed exist.
LEMMA ReadsExists ==
  ASSUME NEW c, NEW r, NEW n \in Nat
  PROVE  \E f : Reads(c, r, n, f)
<1> DEFINE S == {m \in Nat : \E f : Reads(c, r, m, f)}
<1>1. 0 \in S
  <2>1. Reads(c, r, 0, [k \in 0..0 |-> [ring |-> r, words |-> <<>>]])
    BY DEF Reads
  <2> QED BY <2>1
<1>2. ASSUME NEW m \in Nat, m \in S PROVE m + 1 \in S
  <2>1. PICK f : Reads(c, r, m, f)
    BY <1>2
  <2> DEFINE g == [k \in 0..(m + 1) |-> IF k <= m THEN f[k] ELSE ReadingStep(c, f[m])]
  <2>2. ASSUME NEW k \in 0..(m + 1)
        PROVE  g[k] = IF k = 0 THEN [ring |-> r, words |-> <<>>] ELSE ReadingStep(c, g[k - 1])
    <3>1. CASE k = 0
      BY <2>1, <3>1 DEF Reads
    <3>2. CASE k \in 1..m
      <4>1. f[k] = ReadingStep(c, f[k - 1])
        BY <2>1, <3>2 DEF Reads
      <4>2. g[k] = f[k] /\ g[k - 1] = f[k - 1]
        BY <3>2
      <4> QED BY <3>2, <4>1, <4>2
    <3>3. CASE k = m + 1
      BY <3>3
    <3> QED BY <3>1, <3>2, <3>3
  <2>3. g = [k \in 0..(m + 1) |-> g[k]]
    OBVIOUS
  <2> HIDE DEF g
  <2>4. Reads(c, r, m + 1, g)
    BY <2>2, <2>3 DEF Reads
  <2> QED BY <2>4
<1> HIDE DEF S
<1>3. Nat \subseteq S
  BY <1>1, <1>2, SetInduction
<1> QED BY <1>3 DEF S

\* Reading is its last turn.
LEMMA ReadingIs ==
  ASSUME NEW c, NEW r, NEW n \in Nat
  PROVE  \E f : Reads(c, r, n, f) /\ Reading(c, r, n) = f[n]
<1> DEFINE f == CHOOSE f : Reads(c, r, n, f)
<1>1. Reading(c, r, n) = f[n]
  BY DEF Reading, Reads, ReadingStep
<1>2. \E g : Reads(c, r, n, g)
  BY ReadsExists
<1> HIDE DEF Reads
<1>3. Reads(c, r, n, f)
  BY <1>2
<1> QED BY <1>1, <1>3

\* The loop on a queue exists.
LEMMA UnframesExists ==
  ASSUME NEW l, NEW n \in Nat
  PROVE  \E f : Unframes(l, n, f)
<1> DEFINE S == {m \in Nat : \E f : Unframes(l, m, f)}
<1>1. 0 \in S
  <2>1. Unframes(l, 0, [k \in 0..0 |-> [stays |-> l, said |-> <<>>, torn |-> FALSE]])
    BY DEF Unframes
  <2> QED BY <2>1
<1>2. ASSUME NEW m \in Nat, m \in S PROVE m + 1 \in S
  <2>1. PICK f : Unframes(l, m, f)
    BY <1>2
  <2> DEFINE g == [k \in 0..(m + 1) |-> IF k <= m THEN f[k] ELSE UnframedStep(f[m])]
  <2>2. ASSUME NEW k \in 0..(m + 1)
        PROVE  g[k] = IF k = 0 THEN [stays |-> l, said |-> <<>>, torn |-> FALSE]
                      ELSE UnframedStep(g[k - 1])
    <3>1. CASE k = 0
      BY <2>1, <3>1 DEF Unframes
    <3>2. CASE k \in 1..m
      <4>1. f[k] = UnframedStep(f[k - 1])
        <5>1. k \in 0..m /\ k # 0
          BY <3>2
        <5>2. \A i \in 0..m : f[i] = IF i = 0 THEN [stays |-> l, said |-> <<>>, torn |-> FALSE]
                                     ELSE UnframedStep(f[i - 1])
          BY <2>1 DEF Unframes
        <5> QED BY <5>1, <5>2
      <4>2. g[k] = f[k] /\ g[k - 1] = f[k - 1]
        BY <3>2
      <4> QED BY <3>2, <4>1, <4>2
    <3>3. CASE k = m + 1
      BY <3>3
    <3> QED BY <3>1, <3>2, <3>3
  <2>3. g = [k \in 0..(m + 1) |-> g[k]]
    OBVIOUS
  <2> HIDE DEF g
  <2>4. Unframes(l, m + 1, g)
    BY <2>2, <2>3 DEF Unframes
  <2> QED BY <2>4
<1> HIDE DEF S
<1>3. Nat \subseteq S
  BY <1>1, <1>2, SetInduction
<1> QED BY <1>3 DEF S

\* Unframed is its last turn.
LEMMA UnframedIs ==
  ASSUME NEW l, NEW n \in Nat
  PROVE  \E f : Unframes(l, n, f) /\ Unframed(l, n) = f[n]
<1> DEFINE f == CHOOSE f : Unframes(l, n, f)
<1>1. Unframed(l, n) = f[n]
  BY DEF Unframed, Unframes, UnframedStep
<1>2. \E g : Unframes(l, n, g)
  BY UnframesExists
<1> HIDE DEF Unframes
<1>3. Unframes(l, n, f)
  BY <1>2
<1> QED BY <1>1, <1>3

\* What a reader got and left is what the queue says of it.
Agrees(p, u) ==
  /\ Contains(p.ring, u.stays)
  /\ u.said \in Seq(RingWords) /\ p.words \in Seq(RingWords \union {Beyond})
  /\ Len(p.words) = Len(u.said)
  /\ \A i \in 1..Len(u.said) : p.words[i] \in {u.said[i], Beyond}

\* One turn of the loop keeps reader and queue in agreement.
LEMMA AgreesStep ==
  ASSUME NEW c, NEW p, NEW u \in [stays : Seq(RingWords), said : Seq(RingWords), torn : BOOLEAN],
         Agrees(p, u), ~UnframedStep(u).torn
  PROVE  /\ ~u.torn /\ Agrees(ReadingStep(c, p), UnframedStep(u))
         /\ UnframedStep(u) \in [stays : Seq(RingWords), said : Seq(RingWords), torn : BOOLEAN]
<1> DEFINE l == u.stays
           q == ReadingStep(c, p)
           v == UnframedStep(u)
<1>1. /\ Contains(p.ring, l) /\ l \in Seq(RingWords) /\ Len(l) = p.ring.remaining_data
      /\ p.ring.remaining_data \in Nat
  BY ContainsFacts DEF Agrees
<1>2. ~u.torn
  BY DEF UnframedStep
<1>3. CASE l = <<>>
  <2>1. v = u
    BY <1>3 DEF UnframedStep
  <2>2. q = p
    BY <1>1, <1>3 DEF ReadingStep
  <2> QED BY <1>2, <2>1, <2>2
<1>4. CASE l # <<>>
  <2>1. Whole(l)
    BY <1>2, <1>4 DEF UnframedStep
  <2> DEFINE n == Head(l).size
             one == Take(c, p.ring)
             said == SubSeq(l, 2, n + 1)
  <2>2. v = [stays |-> SubSeq(l, n + 2, Len(l)), said |-> u.said \o said, torn |-> FALSE]
    BY <1>2, <1>4, <2>1 DEF UnframedStep
  <2>3. p.ring.remaining_data # 0
    BY <1>1, <1>4
  <2>4. q = [ring |-> one.ring, words |-> p.words \o one.words]
    BY <2>3 DEF ReadingStep
  <2>5. /\ n \in Nat /\ n + 1 <= Len(l)
        /\ Contains(one.ring, SubSeq(l, n + 2, Len(l)))
        /\ one.words \in Seq(RingWords \union {Beyond}) /\ Len(one.words) = n
        /\ said \in Seq(RingWords) /\ Len(said) = n
        /\ \A k \in 1..n : one.words[k] \in {said[k], Beyond}
    BY <1>1, <1>4, <2>1, TakeFacts
  <2>6. SubSeq(l, n + 2, Len(l)) \in Seq(RingWords)
    BY <2>5, ContainsFacts
  <2> DEFINE B == RingWords \union {Beyond}
             w == one.words
  <2>7. /\ p.words \in Seq(B) /\ u.said \in Seq(RingWords) /\ Len(p.words) = Len(u.said)
        /\ \A i \in 1..Len(u.said) : p.words[i] \in {u.said[i], Beyond}
        /\ w \in Seq(B)
    BY <2>5 DEF Agrees
  <2> HIDE DEF said, B, w, n
  <2>7a. u.said \in Seq(RingWords) /\ said \in Seq(RingWords)
    BY <2>5, <2>7
  <2>8. /\ p.words \o w \in Seq(B) /\ Len(p.words \o w) = Len(p.words) + Len(w)
        /\ \A i \in 1..(Len(p.words) + Len(w)) :
             (p.words \o w)[i] = IF i <= Len(p.words) THEN p.words[i] ELSE w[i - Len(p.words)]
    BY <2>7, ConcatProperties, Zenon
  <2>9. /\ u.said \o said \in Seq(RingWords) /\ Len(u.said \o said) = Len(u.said) + Len(said)
        /\ \A i \in 1..(Len(u.said) + Len(said)) :
             (u.said \o said)[i] = IF i <= Len(u.said) THEN u.said[i] ELSE said[i - Len(u.said)]
    BY <2>7a, ConcatProperties, Zenon
  <2>10. Len(w) = n /\ Len(said) = n /\ Len(p.words) \in Nat /\ n \in Nat
         /\ \A k \in 1..n : w[k] \in {said[k], Beyond}
    BY <2>5, <2>7 DEF w
  <2>11. ASSUME NEW i \in 1..Len(u.said \o said)
         PROVE  (p.words \o w)[i] \in {(u.said \o said)[i], Beyond}
    <3>1. i \in 1..(Len(u.said) + Len(said)) /\ i \in 1..(Len(p.words) + Len(w))
      BY <2>7, <2>9, <2>10
    <3>2. CASE i <= Len(u.said)
      <4>1. i \in 1..Len(u.said)
        BY <2>7, <2>10, <3>1, <3>2
      <4> QED BY <2>7, <2>8, <2>9, <3>1, <3>2, <4>1
    <3>3. CASE ~(i <= Len(u.said))
      <4>1. i - Len(u.said) \in 1..n
        BY <2>7, <2>10, <3>1, <3>3
      <4>2. (p.words \o w)[i] = w[i - Len(u.said)] /\ (u.said \o said)[i] = said[i - Len(u.said)]
        BY <2>7, <2>8, <2>9, <3>1, <3>3
      <4> QED BY <2>10, <4>1, <4>2
    <3> QED BY <3>2, <3>3
  <2>12. Agrees(q, v)
    <3> DEFINE a == p.words \o w
               b == u.said \o said
               d == SubSeq(l, n + 2, Len(l))
    <3>a. q = [ring |-> one.ring, words |-> a] /\ v = [stays |-> d, said |-> b, torn |-> FALSE]
      BY <2>2, <2>4 DEF w, said, n
    <3> HIDE DEF a, b, d, q, v
    <3>b. q.ring = one.ring /\ q.words = a /\ v.stays = d /\ v.said = b
      BY <3>a
    <3>1. q.ring = one.ring /\ q.words = p.words \o w
      BY <3>b DEF a
    <3>2. v.stays = SubSeq(l, n + 2, Len(l)) /\ v.said = u.said \o said
      BY <3>b DEF b, d
    <3>3. Contains(q.ring, v.stays)
      BY <2>5, <3>1, <3>2
    <3>4. /\ Len(q.words) = Len(v.said)
          /\ q.words \in Seq(RingWords \union {Beyond}) /\ v.said \in Seq(RingWords)
      BY <2>7, <2>8, <2>9, <2>10, <3>1, <3>2 DEF B
    <3>5. \A i \in 1..Len(v.said) : q.words[i] \in {v.said[i], Beyond}
      BY <2>11, <3>1, <3>2
    <3> QED BY <3>3, <3>4, <3>5 DEF Agrees
  <2>13. v \in [stays : Seq(RingWords), said : Seq(RingWords), torn : BOOLEAN]
    BY <2>2, <2>6, <2>9 DEF said, n
  <2> QED BY <1>2, <2>12, <2>13
<1> QED BY <1>3, <1>4

\* sys_read_strace and sys_read_ftrace on a ring and on the queue it contains.
LEMMA ReadingAgrees ==
  ASSUME NEW r, NEW l, Contains(r, l), NEW c, NEW count \in Nat, ~Unframed(l, count).torn
  PROVE  Agrees(Reading(c, r, count), Unframed(l, count))
<1>1. PICK f : Reads(c, r, count, f) /\ Reading(c, r, count) = f[count]
  BY ReadingIs
<1>2. PICK g : Unframes(l, count, g) /\ Unframed(l, count) = g[count]
  BY UnframedIs
<1> DEFINE U == [stays : Seq(RingWords), said : Seq(RingWords), torn : BOOLEAN]
           S == {i \in Nat : i <= count /\ ~g[i].torn => g[i] \in U /\ Agrees(f[i], g[i])}
<1>3. 0 \in S
  <2>1. f[0] = [ring |-> r, words |-> <<>>] /\ g[0] = [stays |-> l, said |-> <<>>, torn |-> FALSE]
    BY <1>1, <1>2 DEF Reads, Unframes
  <2>2. l \in Seq(RingWords)
    BY ContainsFacts
  <2>3. <<>> \in Seq(RingWords) /\ <<>> \in Seq(RingWords \union {Beyond}) /\ Len(<<>>) = 0
    OBVIOUS
  <2>4. Agrees(f[0], g[0])
    BY <2>1, <2>3 DEF Agrees
  <2>5. g[0] \in U
    BY <2>1, <2>2, <2>3
  <2> HIDE DEF U
  <2> QED BY <2>4, <2>5
<1>4. ASSUME NEW i \in Nat, i \in S PROVE i + 1 \in S
  <2> SUFFICES ASSUME i + 1 <= count, ~g[i + 1].torn
               PROVE g[i + 1] \in U /\ Agrees(f[i + 1], g[i + 1])
    OBVIOUS
  <2>1. i + 1 \in 0..count /\ i + 1 # 0 /\ (i + 1) - 1 = i
    OBVIOUS
  <2>2. f[i + 1] = ReadingStep(c, f[i])
    <3>1. \A k \in 0..count : f[k] = IF k = 0 THEN [ring |-> r, words |-> <<>>]
                                     ELSE ReadingStep(c, f[k - 1])
      BY <1>1 DEF Reads
    <3> QED BY <2>1, <3>1
  <2>3. g[i + 1] = UnframedStep(g[i])
    <3>1. \A k \in 0..count : g[k] = IF k = 0 THEN [stays |-> l, said |-> <<>>, torn |-> FALSE]
                                     ELSE UnframedStep(g[k - 1])
      BY <1>2 DEF Unframes
    <3> QED BY <2>1, <3>1
  <2>4. ~g[i].torn
    BY <2>3 DEF UnframedStep
  <2>5. g[i] \in U /\ Agrees(f[i], g[i])
    BY <1>4, <2>1, <2>4
  <2> QED BY <2>2, <2>3, <2>5, AgreesStep
<1> HIDE DEF S
<1>5. Nat \subseteq S
  BY <1>3, <1>4, SetInduction
<1> QED BY <1>1, <1>2, <1>5 DEF S

-----------------------------------------------------------------------------
(* The invariant                                                           *)

\* The list of traced system calls, and that of traced functions, have a chain.
CallsInv == IsList(calls, CallNodes, CallInfos) /\ \E s : Chain(calls, s, CallNodes)

FnsInv == IsList(fns, FnNodes, FnInfos) /\ \E s : Chain(fns, s, FnNodes)

\* The nodes of the functions on the list.
OfFn(l, f) == {n \in FnNodes : l.info[n] # None /\ l.info[n].key = f}

\* add_ftrace does not list a function twice.
OneNodeEach(l) == \A f \in Fns : \A m, n \in OfFn(l, f) : m = n

\* The first bytes of a function that is patched are kept in its node.
Kept(l, co, sp) ==
  \A f \in Fns \ sp :
    \/ co[f] = "push"
    \/ co[f] = "inv" /\ \E n \in OfFn(l, f) : l.info[n].backup = "push"

\* What the code of the functions and their list are to one another.
CodeInv == code \in [Fns -> Codes] /\ OneNodeEach(fns) /\ Kept(fns, code, spoiled)

\* The inductive invariant.
Inv == Contains(ring, log) /\ CallsInv /\ FnsInv /\ CodeInv

\* The nodes and what they say, from the assumptions on the constants.
LEMMA NodesAre == Nodes(CallNodes) /\ Nodes(FnNodes) /\ None \notin CallInfos /\ None \notin FnInfos
BY TracerAssumption, InfoAssumption DEF Nodes

\* The invariant holds when the process starts.
LEMMA InitInv ==
  ASSUME Init
  PROVE  Inv
<1>1. Contains(ring, log)
  BY EmptyContains DEF Init
<1>2. CallsInv /\ FnsInv
  BY EmptyFacts, NodesAre DEF Init, CallsInv, FnsInv
<1>3. \A f \in Fns : OfFn(fns, f) = {}
  BY DEF Init, OfFn, EmptyList
<1>4. CodeInv
  BY <1>3 DEF Init, CodeInv, OneNodeEach, Kept, Codes
<1> QED BY <1>1, <1>2, <1>4 DEF Inv

\* A record is made of words of the ring.
LEMMA RecordWords ==
  ASSUME NEW x \in Fns \union {"call"}, NEW n \in Nat
  PROVE  Record(x, n) \in Seq(RingWords)
<1> DEFINE h == <<Size(n + 1), Name(x)>>
           t == [k \in 1..n |-> Arg]
<1>1. Size(n + 1) \in RingWords /\ Name(x) \in RingWords /\ Arg \in RingWords
  BY DEF RingWords
<1> HIDE DEF RingWords
<1>2. h \in Seq(RingWords)
  BY <1>1
<1>3. t \in Seq(RingWords)
  <2>1. t \in [1..n -> RingWords]
    BY <1>1
  <2> HIDE DEF t
  <2> QED BY <2>1
<1> HIDE DEF h, t
<1>4. h \o t \in Seq(RingWords)
  BY <1>2, <1>3
<1> QED BY <1>4 DEF Record, h, t

\* perform_tracing, before the handler of c.
LEMMA HandlerFinds ==
  ASSUME Inv, NEW c \in Calls
  PROVE  /\ Contains(RingAt(c), LogAt(c))
         /\ Through(c) => LogAt(c) \in {log, log \o CallRecord(c)}
<1>1. CallRecord(c) \in Seq(RingWords)
  BY RecordWords DEF CallRecord, ParamSize, Calls
<1>2. Contains(ring, log)
  BY DEF Inv
<1>3. CASE Traced(c) /\ CanWrite
  <2>1. RingAt(c) = Put(ring, CallRecord(c)) /\ LogAt(c) = Logged(log, ring, CallRecord(c))
    BY <1>3 DEF RingAt, LogAt
  <2>2. Contains(RingAt(c), LogAt(c))
    BY <1>1, <1>2, <2>1, PutFacts
  <2>3. Through(c) => Len(CallRecord(c)) <= Room(ring)
    BY <1>3 DEF Through, Fits
  <2>4. Through(c) => LogAt(c) = log \o CallRecord(c)
    BY <1>1, <1>2, <2>1, <2>3, PutFacts
  <2> QED BY <2>2, <2>4
<1>4. CASE ~(Traced(c) /\ CanWrite)
  <2>1. RingAt(c) = ring /\ LogAt(c) = log
    BY <1>4 DEF RingAt, LogAt
  <2> QED BY <1>2, <2>1
<1> QED BY <1>3, <1>4

\* Nothing but the ring changes.
ListsSame == UNCHANGED <<calls, fns, code, spoiled>>

\* Such a step keeps the invariant if the ring contains the log.
LEMMA SameLists ==
  ASSUME Inv, Contains(ring, log)', ListsSame
  PROVE  Inv'
BY DEF Inv, CallsInv, FnsInv, CodeInv, ListsSame

\* A call that is recorded and goes on to its handler.
LEMMA RecordedStep ==
  ASSUME Inv, NEW c \in Calls, Recorded(c)
  PROVE  Contains(ring, log)'
BY HandlerFinds DEF Recorded

\* The handlers of the trace buffer.
LEMMA BufferStep ==
  ASSUME Inv, TraceBufferCall
  PROVE  Inv'
<1>1. ListsSame
  BY DEF TraceBufferCall, CreateTraceBuffer, Close, Read, Write, ReadStrace, ReadFtrace,
         ReadRecords, ListsSame, stVars, fnVars
<1>2. ASSUME NEW m \in Modes, CreateTraceBuffer(m) PROVE Contains(ring', log')
  BY <1>2, EmptyContains DEF CreateTraceBuffer
<1>3. ASSUME Close PROVE Contains(ring', log')
  BY <1>3, EmptyContains DEF Close
<1>4. ASSUME NEW count \in Amounts, Read(count) PROVE Contains(ring', log')
  <2> DEFINE r == RingAt("read")
             n == IF count >= r.remaining_data THEN r.remaining_data ELSE count
  <2>1. Contains(r, LogAt("read"))
    BY HandlerFinds DEF Calls
  <2>2. r.remaining_data \in Nat /\ count \in Nat
    BY <2>1, ContainsFacts, TracerAssumption
  <2>3. ring' = TakenOff(r, n) /\ log' = SubSeq(LogAt("read"), n + 1, Len(LogAt("read")))
    BY <1>4 DEF Read, TakenOff
  <2> HIDE DEF r
  <2>4. n \in 0..r.remaining_data
    BY <2>2
  <2> QED BY <2>1, <2>3, <2>4, TakenFacts DEF r
<1>5. ASSUME NEW count \in Amounts, Write(count) PROVE Contains(ring', log')
  <2> DEFINE words == [k \in 1..count |-> Raw]
  <2>1. count \in Nat /\ Raw \in RingWords
    BY TracerAssumption DEF RingWords
  <2>2. words \in [1..count -> RingWords]
    BY <2>1
  <2>3. Contains(RingAt("write"), LogAt("write"))
    BY HandlerFinds DEF Calls
  <2>4. ring' = Put(RingAt("write"), words) /\ log' = Logged(LogAt("write"), RingAt("write"), words)
    BY <1>5 DEF Write
  <2> HIDE DEF words
  <2>5. words \in Seq(RingWords)
    BY <2>1, <2>2
  <2> QED BY <2>3, <2>4, <2>5, PutFacts
<1>6. ASSUME NEW c \in {"read_strace", "read_ftrace"}, NEW count \in Records, ReadRecords(c, count)
      PROVE  Contains(ring', log')
  <2>1. Contains(RingAt(c), LogAt(c)) /\ count \in Nat
    BY HandlerFinds, TracerAssumption DEF Calls
  <2>2. CASE Unframed(LogAt(c), count).torn
    BY <1>6, <2>2 DEF ReadRecords, Inv
  <2>3. CASE ~Unframed(LogAt(c), count).torn
    <3>1. Agrees(Reading(c, RingAt(c), count), Unframed(LogAt(c), count))
      BY <2>1, <2>3, ReadingAgrees
    <3>2. ring' = Reading(c, RingAt(c), count).ring /\ log' = Unframed(LogAt(c), count).stays
      BY <1>6, <2>3 DEF ReadRecords
    <3> QED BY <3>1, <3>2 DEF Agrees
  <2> QED BY <2>2, <2>3
<1>7. Contains(ring', log')
  BY <1>2, <1>3, <1>4, <1>5, <1>6 DEF TraceBufferCall, ReadStrace, ReadFtrace
<1> QED BY <1>1, <1>7, SameLists

\* No function is traced otherwise.
FunctionsSame == UNCHANGED <<fns, code, spoiled>>

\* Such a step keeps what the invariant says of functions.
LEMMA SameFunctions ==
  ASSUME Inv, Contains(ring, log)', CallsInv', FunctionsSame
  PROVE  Inv'
BY DEF Inv, FnsInv, CodeInv, FunctionsSame

\* The list of traced system calls.
LEMMA StraceStep ==
  ASSUME Inv, StraceCall
  PROVE  Inv'
<1>1. FunctionsSame
  BY DEF StraceCall, GetPid, ListCall, AddStrace, RemoveStrace, StartStrace, EndStrace,
         FunctionsSame, fnVars
<1>2. Contains(ring, log)'
  BY RecordedStep
     DEF StraceCall, GetPid, ListCall, AddStrace, RemoveStrace, StartStrace, EndStrace, Calls
<1>3. ASSUME UNCHANGED calls PROVE CallsInv'
  BY <1>3 DEF Inv, CallsInv
<1>4. IsList(calls, CallNodes, CallInfos) /\ Nodes(CallNodes)
  BY NodesAre DEF Inv, CallsInv
<1>5. PICK s : Chain(calls, s, CallNodes)
  BY DEF Inv, CallsInv
<1>6. ASSUME NEW c \in Listable, AddStrace(c) PROVE CallsInv'
  <2>1. CASE UNCHANGED calls
    BY <1>3, <2>1
  <2>2. CASE \E n \in Unused(calls) : calls' = AddLast(calls, n, [key |-> c])
    <3>1. [key |-> c] \in CallInfos
      BY DEF CallInfos
    <3>2. PICK n \in Unused(calls) : calls' = AddLast(calls, n, [key |-> c])
      BY <2>2
    <3>3. IsList(calls', CallNodes, CallInfos) /\ \E t : Chain(calls', t, CallNodes)
      BY <1>4, <1>5, <3>1, <3>2, AddFacts
    <3> QED BY <3>3 DEF CallsInv
  <2> QED BY <1>6, <2>1, <2>2 DEF AddStrace
<1>7. ASSUME NEW c \in Listable, RemoveStrace(c) PROVE CallsInv'
  <2>1. CASE Found(calls, c) = {}
    BY <1>3, <1>7, <2>1 DEF RemoveStrace
  <2>2. CASE Found(calls, c) # {}
    <3>1. Find(calls, c) \in InList(calls)
      BY <1>4, <1>5, <2>2, FoundFacts
    <3>2. calls' = Unlink(calls, Find(calls, c))
      BY <1>7, <2>2 DEF RemoveStrace
    <3> QED BY <1>4, <1>5, <3>1, <3>2, UnlinkFacts DEF CallsInv
  <2> QED BY <2>1, <2>2
<1>8. ASSUME EndStrace PROVE CallsInv'
  <2>1. calls' = EmptyList(CallNodes)
    BY <1>8 DEF EndStrace
  <2> QED BY <2>1, EmptyFacts, NodesAre DEF CallsInv
<1>9. CallsInv'
  BY <1>3, <1>6, <1>7, <1>8 DEF StraceCall, GetPid, ListCall, StartStrace, stVars
<1> QED BY <1>1, <1>2, <1>9, SameFunctions

-----------------------------------------------------------------------------
(* Functions                                                               *)

\* The list with what n says replaced.
Saying(l, n, y) == [l EXCEPT !.info[n] = y]

\* What a node says is changed, and its place in the list is not.
LEMMA InfoFacts ==
  ASSUME NEW nodes, NEW I, None \notin I, NEW l, IsList(l, nodes, I), NEW s, Chain(l, s, nodes),
         NEW n \in nodes, l.info[n] # None, NEW y \in I, NEW m, m = Saying(l, n, y)
  PROVE  /\ IsList(m, nodes, I) /\ Chain(m, s, nodes)
         /\ m.info = [l.info EXCEPT ![n] = y]
<1>1. /\ m.count = l.count /\ m.first = l.first /\ m.last = l.last /\ m.next = l.next
      /\ m.info = [l.info EXCEPT ![n] = y]
      /\ m = [count |-> m.count, first |-> m.first, last |-> m.last,
              next |-> m.next, info |-> m.info]
  BY DEF IsList, Saying
<1>2. l.info \in [nodes -> I \union {None}]
  BY DEF IsList
<1>3. m.info \in [nodes -> I \union {None}]
  BY <1>1, <1>2
<1>4. \A k \in nodes : m.info[k] # None <=> l.info[k] # None
  BY <1>1, <1>2
<1>5. IsList(m, nodes, I)
  BY <1>1, <1>3 DEF IsList
<1>6. Chain(m, s, nodes)
  BY <1>1, <1>4 DEF Chain
<1> QED BY <1>1, <1>5, <1>6

\* The node of a function that is listed.
LEMMA ListedFacts ==
  ASSUME FnsInv, NEW f \in Fns
  PROVE  /\ Found(fns, f) = OfFn(fns, f)
         /\ Listed(f) => /\ Find(fns, f) \in InList(fns) /\ Find(fns, f) \in FnNodes
                         /\ Find(fns, f) \in OfFn(fns, f)
                         /\ fns.info[Find(fns, f)] \in FnInfos
                         /\ fns.info[Find(fns, f)] # None /\ fns.info[Find(fns, f)].key = f
<1>1. IsList(fns, FnNodes, FnInfos) /\ Nodes(FnNodes)
  BY NodesAre DEF FnsInv
<1>2. PICK s : Chain(fns, s, FnNodes)
  BY DEF FnsInv
<1>3. /\ Found(fns, f) = {n \in FnNodes : fns.info[n] # None /\ fns.info[n].key = f}
      /\ Found(fns, f) # {} => Find(fns, f) \in InList(fns) /\ Find(fns, f) \in Found(fns, f)
  BY <1>1, <1>2, FoundFacts
<1>4. Found(fns, f) = OfFn(fns, f)
  BY <1>3 DEF OfFn
<1>5. \A n \in OfFn(fns, f) : /\ n \in FnNodes /\ fns.info[n] \in FnInfos
                              /\ fns.info[n] # None /\ fns.info[n].key = f
  BY <1>1 DEF OfFn, IsList
<1> QED BY <1>3, <1>4, <1>5 DEF Listed

\* The list is fns', with one node changed to a record for the same function.
LEMMA SetStep ==
  ASSUME FnsInv, CodeInv, NEW f \in Fns, Listed(f), NEW y \in FnInfos, y.key = f,
         NEW m, m = Saying(fns, Find(fns, f), y)
  PROVE  /\ IsList(m, FnNodes, FnInfos) /\ \E s : Chain(m, s, FnNodes)
         /\ \A g \in Fns : OfFn(m, g) = OfFn(fns, g)
         /\ m.info[Find(fns, f)] = y
         /\ \A n \in FnNodes \ {Find(fns, f)} : m.info[n] = fns.info[n]
<1> DEFINE n == Find(fns, f)
<1>1. IsList(fns, FnNodes, FnInfos) /\ None \notin FnInfos
  BY NodesAre DEF FnsInv
<1>2. PICK s : Chain(fns, s, FnNodes)
  BY DEF FnsInv
<1>3. n \in FnNodes /\ fns.info[n] # None /\ fns.info[n].key = f
  BY ListedFacts
<1>4. m = Saying(fns, n, y)
  OBVIOUS
<1> HIDE DEF n
<1>5. IsList(m, FnNodes, FnInfos) /\ Chain(m, s, FnNodes) /\ m.info = [fns.info EXCEPT ![n] = y]
  BY <1>1, <1>2, <1>3, <1>4, InfoFacts
<1>6. fns.info \in [FnNodes -> FnInfos \union {None}]
  BY <1>1 DEF IsList
<1>7. m.info[n] = y /\ \A k \in FnNodes \ {n} : m.info[k] = fns.info[k]
  BY <1>3, <1>5, <1>6
<1>8. ASSUME NEW g \in Fns PROVE OfFn(m, g) = OfFn(fns, g)
  BY <1>1, <1>3, <1>7 DEF OfFn
<1> QED BY <1>5, <1>7, <1>8 DEF n

\* Tracing a function leaves CodeInv when code, backup and spoiled of every
\* other function stay, and its own code is whole, kept or spoiled.
LEMMA KeptStep ==
  ASSUME CodeInv, NEW f \in Fns, NEW m, NEW co \in [Fns -> Codes], NEW sp, spoiled \subseteq sp,
         \A g \in Fns \ {f} : /\ OfFn(m, g) = OfFn(fns, g) /\ co[g] = code[g]
                              /\ \A n \in OfFn(fns, g) : m.info[n] = fns.info[n],
         \A j, k \in OfFn(m, f) : j = k,
         \/ f \in sp \/ co[f] = "push"
         \/ co[f] = "inv" /\ \E n \in OfFn(m, f) : m.info[n].backup = "push"
  PROVE  OneNodeEach(m) /\ Kept(m, co, sp)
<1>1. OneNodeEach(fns) /\ Kept(fns, code, spoiled)
  BY DEF CodeInv
<1>2. ASSUME NEW g \in Fns, NEW j \in OfFn(m, g), NEW k \in OfFn(m, g) PROVE j = k
  BY <1>1 DEF OneNodeEach
<1>3. ASSUME NEW g \in Fns \ sp
      PROVE  \/ co[g] = "push"
             \/ co[g] = "inv" /\ \E n \in OfFn(m, g) : m.info[n].backup = "push"
  <2>1. CASE g = f
    BY <2>1
  <2>2. CASE g # f
    <3>1. g \in Fns \ spoiled /\ OfFn(m, g) = OfFn(fns, g) /\ co[g] = code[g]
      BY <2>2
    <3> QED BY <1>1, <2>2, <3>1 DEF Kept
  <2> QED BY <2>1, <2>2
<1> QED BY <1>2, <1>3 DEF OneNodeEach, Kept

\* add_ftrace: a new node, for a function that has none and is not patched.
LEMMA AddFtraceStep ==
  ASSUME FnsInv, CodeInv, NEW f \in Fns, AddFtrace(f)
  PROVE  FnsInv' /\ CodeInv'
<1>1. UNCHANGED <<code, spoiled>>
  BY DEF AddFtrace
<1>2. CASE UNCHANGED fns
  BY <1>1, <1>2 DEF FnsInv, CodeInv
<1>3. CASE ~Listed(f) /\ \E n \in Unused(fns) :
             fns' = AddLast(fns, n, [key |-> f, backup |-> "zero", backtrace |-> FALSE])
  <2> DEFINE x == [key |-> f, backup |-> "zero", backtrace |-> FALSE]
  <2>1. x \in FnInfos /\ x # None /\ x.key = f
    <3>1. x \in FnInfos /\ x.key = f
      BY DEF FnInfos, Codes
    <3>2. None \notin FnInfos
      BY InfoAssumption
    <3> HIDE DEF x
    <3> QED BY <3>1, <3>2
  <2>2. PICK n \in Unused(fns) : fns' = AddLast(fns, n, x)
    BY <1>3
  <2> HIDE DEF x
  <2>3. IsList(fns, FnNodes, FnInfos) /\ Nodes(FnNodes)
    BY NodesAre DEF FnsInv
  <2>4. PICK s : Chain(fns, s, FnNodes)
    BY DEF FnsInv
  <2>5. /\ IsList(fns', FnNodes, FnInfos) /\ \E t : Chain(fns', t, FnNodes)
        /\ fns'.info = [fns.info EXCEPT ![n] = x] /\ n \in FnNodes
    BY <2>1, <2>2, <2>3, <2>4, AddFacts
  <2>6. OfFn(fns, f) = {}
    BY <1>3, ListedFacts DEF Listed
  <2>7. fns.info[n] = None
    BY <2>5 DEF Unused, Used, NodesOf, IsList, FnsInv
  <2>8. fns'.info[n] = x /\ \A k \in FnNodes \ {n} : fns'.info[k] = fns.info[k]
    <3>1. fns.info \in [FnNodes -> FnInfos \union {None}]
      BY <2>3 DEF IsList
    <3> QED BY <2>5, <3>1
  <2>9. OfFn(fns', f) \subseteq {n}
    BY <2>6, <2>8 DEF OfFn
  <2>10. \A g \in Fns \ {f} : /\ OfFn(fns', g) = OfFn(fns, g)
                              /\ \A k \in OfFn(fns, g) : fns'.info[k] = fns.info[k]
    BY <2>1, <2>5, <2>7, <2>8 DEF OfFn
  <2>11. f \in spoiled \/ code[f] = "push"
    BY <2>6 DEF CodeInv, Kept
  <2>12. OneNodeEach(fns') /\ Kept(fns', code, spoiled)
    <3>1. code \in [Fns -> Codes] /\ \A j, k \in OfFn(fns', f) : j = k
      BY <2>9 DEF CodeInv
    <3> QED BY <2>10, <2>11, <3>1, KeptStep
  <2> QED BY <1>1, <2>5, <2>12 DEF FnsInv, CodeInv
<1> QED BY <1>2, <1>3 DEF AddFtrace

\* enable_ftrace: the bytes that are overwritten are kept first.
LEMMA EnableFtraceStep ==
  ASSUME FnsInv, CodeInv, NEW f \in Fns, EnableFtrace(f)
  PROVE  FnsInv' /\ CodeInv'
<1> DEFINE n == Find(fns, f)
           y == [fns.info[n] EXCEPT !.backup = code[f]]
<1>1. code \in [Fns -> Codes] /\ Listed(f)
  BY DEF CodeInv, EnableFtrace
<1>2. /\ n \in FnNodes /\ n \in OfFn(fns, f)
      /\ fns.info[n] \in FnInfos /\ fns.info[n].key = f
  BY <1>1, ListedFacts
<1>3. y \in FnInfos /\ y.key = f /\ y.backup = code[f]
  BY <1>1, <1>2 DEF FnInfos
<1>4. fns' = Saying(fns, n, y)
  BY DEF EnableFtrace, Saying
<1> HIDE DEF n, y
<1>5. /\ IsList(fns', FnNodes, FnInfos) /\ \E s : Chain(fns', s, FnNodes)
      /\ \A g \in Fns : OfFn(fns', g) = OfFn(fns, g)
      /\ fns'.info[n] = y /\ \A k \in FnNodes \ {n} : fns'.info[k] = fns.info[k]
  BY <1>1, <1>3, <1>4, SetStep DEF n
<1>6. code' = [code EXCEPT ![f] = "inv"] /\ code' \in [Fns -> Codes]
  BY <1>1 DEF EnableFtrace, Codes
<1>7. spoiled' = IF code[f] = "push" THEN spoiled ELSE spoiled \union {f}
  BY DEF EnableFtrace
<1>8. \A j, k \in OfFn(fns', f) : j = k
  BY <1>5 DEF CodeInv, OneNodeEach
<1>9. \A g \in Fns \ {f} : /\ n \notin OfFn(fns, g) /\ OfFn(fns, g) \subseteq FnNodes
                           /\ code'[g] = code[g]
  BY <1>1, <1>2, <1>6 DEF OfFn
<1>10. \/ f \in spoiled'
       \/ code'[f] = "inv" /\ \E k \in OfFn(fns', f) : fns'.info[k].backup = "push"
  BY <1>1, <1>2, <1>3, <1>5, <1>6, <1>7
<1>11. \A g \in Fns \ {f} : /\ OfFn(fns', g) = OfFn(fns, g) /\ code'[g] = code[g]
                            /\ \A k \in OfFn(fns, g) : fns'.info[k] = fns.info[k]
  BY <1>5, <1>9
<1>12. OneNodeEach(fns') /\ Kept(fns', code', spoiled')
  BY <1>6, <1>7, <1>8, <1>10, <1>11, KeptStep
<1> QED BY <1>5, <1>6, <1>12 DEF FnsInv, CodeInv

\* disable_ftrace: the kept bytes are put back, or the function is spoiled.
LEMMA DisableFtraceStep ==
  ASSUME FnsInv, CodeInv, NEW f \in Fns, DisableFtrace(f)
  PROVE  FnsInv' /\ CodeInv'
<1> DEFINE backup == fns.info[Find(fns, f)].backup
<1>1. code \in [Fns -> Codes] /\ Listed(f) /\ fns' = fns
  BY DEF CodeInv, DisableFtrace
<1>2. backup \in Codes
  BY <1>1, ListedFacts DEF FnInfos
<1>3. /\ code' = [code EXCEPT ![f] = backup]
      /\ spoiled' = IF backup = "push" THEN spoiled ELSE spoiled \union {f}
  BY DEF DisableFtrace
<1> HIDE DEF backup
<1>4. code' \in [Fns -> Codes]
  BY <1>1, <1>2, <1>3
<1>5. f \in spoiled' \/ code'[f] = "push"
  BY <1>1, <1>3
<1>6. \A g \in Fns \ {f} : code'[g] = code[g]
  BY <1>1, <1>3
<1>7. spoiled \subseteq spoiled' /\ \A j, k \in OfFn(fns, f) : j = k
  BY <1>3 DEF CodeInv, OneNodeEach
<1>8. OneNodeEach(fns) /\ Kept(fns, code', spoiled')
  BY <1>4, <1>5, <1>6, <1>7, KeptStep
<1> QED BY <1>1, <1>4, <1>8 DEF FnsInv, CodeInv

\* remove_ftrace unpatches the function before its backup goes.
LEMMA RemoveFtraceStep ==
  ASSUME FnsInv, CodeInv, NEW f \in Fns, RemoveFtrace(f)
  PROVE  FnsInv' /\ CodeInv'
<1> DEFINE n == Find(fns, f)
<1>1. code \in [Fns -> Codes] /\ Listed(f) /\ spoiled' = spoiled /\ code' = Unpatched(f)
  BY DEF CodeInv, RemoveFtrace
<1>2. /\ n \in InList(fns) /\ n \in FnNodes /\ n \in OfFn(fns, f)
      /\ fns.info[n] \in FnInfos /\ fns.info[n].key = f
  BY <1>1, ListedFacts
<1>3. code' = IF code[f] = "inv" THEN [code EXCEPT ![f] = fns.info[n].backup] ELSE code
  BY <1>1 DEF Unpatched
<1>4. fns' = Unlink(fns, n)
  BY DEF RemoveFtrace
<1> HIDE DEF n
<1>5. IsList(fns, FnNodes, FnInfos) /\ Nodes(FnNodes) /\ None \notin FnInfos
  BY NodesAre DEF FnsInv
<1>6. PICK s : Chain(fns, s, FnNodes)
  BY DEF FnsInv
<1>7. /\ IsList(fns', FnNodes, FnInfos) /\ \E t : Chain(fns', t, FnNodes)
      /\ fns'.info = [fns.info EXCEPT ![n] = None]
  BY <1>2, <1>4, <1>5, <1>6, UnlinkFacts
<1>8. fns'.info[n] = None /\ \A k \in FnNodes \ {n} : fns'.info[k] = fns.info[k]
  <2>1. fns.info \in [FnNodes -> FnInfos \union {None}]
    BY <1>5 DEF IsList
  <2> QED BY <1>2, <1>7, <2>1
<1>9. fns.info[n].backup \in Codes
  BY <1>2 DEF FnInfos
<1>10. code' \in [Fns -> Codes] /\ \A g \in Fns \ {f} : code'[g] = code[g]
  BY <1>1, <1>3, <1>9
<1>11. \A g \in Fns \ {f} : /\ OfFn(fns', g) = OfFn(fns, g)
                            /\ \A k \in OfFn(fns, g) : fns'.info[k] = fns.info[k]
  BY <1>2, <1>8 DEF OfFn
<1>12. \A j, k \in OfFn(fns, f) : j = k
  BY DEF CodeInv, OneNodeEach
<1>13. OfFn(fns', f) \subseteq OfFn(fns, f)
  BY <1>8 DEF OfFn
<1>14. f \in spoiled \/ code'[f] = "push"
  <2>1. CASE f \notin spoiled /\ code[f] = "push"
    BY <1>3, <2>1
  <2>2. CASE /\ f \notin spoiled /\ code[f] = "inv"
             /\ \E k \in OfFn(fns, f) : fns.info[k].backup = "push"
    <3>1. fns.info[n].backup = "push"
      BY <1>2, <1>12, <2>2
    <3> QED BY <1>1, <1>3, <2>2, <3>1
  <2> QED BY <2>1, <2>2 DEF CodeInv, Kept
<1>15. OneNodeEach(fns') /\ Kept(fns', code', spoiled)
  BY <1>10, <1>11, <1>12, <1>13, <1>14, KeptStep
<1> QED BY <1>1, <1>7, <1>10, <1>15 DEF FnsInv, CodeInv

\* enable_backtrace and disable_backtrace leave the kept bytes alone.
LEMMA SetBacktraceStep ==
  ASSUME FnsInv, CodeInv, NEW f \in Fns, NEW on \in BOOLEAN, SetBacktrace(f, on)
  PROVE  FnsInv' /\ CodeInv'
<1> DEFINE n == Find(fns, f)
           y == [fns.info[n] EXCEPT !.backtrace = on]
<1>1. code \in [Fns -> Codes] /\ Listed(f) /\ UNCHANGED <<code, spoiled>>
  BY DEF CodeInv, SetBacktrace
<1>2. /\ n \in FnNodes /\ n \in OfFn(fns, f)
      /\ fns.info[n] \in FnInfos /\ fns.info[n].key = f
  BY <1>1, ListedFacts
<1>3. y \in FnInfos /\ y.key = f /\ y.backup = fns.info[n].backup
  BY <1>1, <1>2 DEF FnInfos
<1>4. fns' = Saying(fns, n, y)
  BY DEF SetBacktrace, Saying
<1> HIDE DEF n, y
<1>5. /\ IsList(fns', FnNodes, FnInfos) /\ \E s : Chain(fns', s, FnNodes)
      /\ \A g \in Fns : OfFn(fns', g) = OfFn(fns, g)
      /\ fns'.info[n] = y /\ \A k \in FnNodes \ {n} : fns'.info[k] = fns.info[k]
  BY <1>1, <1>3, <1>4, SetStep DEF n
<1>6. \A k \in FnNodes : fns'.info[k].backup = fns.info[k].backup
  BY <1>3, <1>5
<1>7. \A g \in Fns : OfFn(fns, g) \subseteq FnNodes
  BY DEF OfFn
<1>8. OneNodeEach(fns') /\ Kept(fns', code, spoiled)
  <2>1. OneNodeEach(fns')
    BY <1>5 DEF CodeInv, OneNodeEach
  <2>2. Kept(fns', code, spoiled)
    BY <1>5, <1>6, <1>7 DEF CodeInv, Kept
  <2> QED BY <2>1, <2>2
<1> QED BY <1>1, <1>5, <1>8 DEF FnsInv, CodeInv

\* A patched function is called: its record goes to the ring.
LEMMA FunctionCalledStep ==
  ASSUME Inv, NEW f \in Fns, FunctionCalled(f)
  PROVE  Contains(ring, log)' /\ FnsInv' /\ CodeInv'
<1> DEFINE size == ARGS + IF fns.info[Find(fns, f)].backtrace THEN DEPTH ELSE 0
<1>1. size \in Nat
  BY TracerAssumption
<1> HIDE DEF size
<1>2. Record(f, size) \in Seq(RingWords)
  BY <1>1, RecordWords
<1>3. ring' = Put(ring, Record(f, size)) /\ log' = Logged(log, ring, Record(f, size))
  BY DEF FunctionCalled, FtraceFileWrite, size
<1>4. Contains(ring', log')
  BY <1>2, <1>3, PutFacts DEF Inv
<1>5. UNCHANGED <<fns, code, spoiled>>
  BY DEF FunctionCalled, fnVars
<1> QED BY <1>4, <1>5 DEF Inv, FnsInv, CodeInv

\* The list of functions and their code.
LEMMA FunctionStep ==
  ASSUME Inv, FunctionCall
  PROVE  Inv'
<1>1. PICK f \in Fns : \/ AddFtrace(f) \/ EnableFtrace(f) \/ DisableFtrace(f) \/ RemoveFtrace(f)
                       \/ \E on \in BOOLEAN : SetBacktrace(f, on)
                       \/ FtraceNotListed(f) \/ FunctionCalled(f)
  BY DEF FunctionCall
<1>2. FnsInv /\ CodeInv
  BY DEF Inv
<1>3. CallsInv'
  <2>1. UNCHANGED calls
    BY <1>1 DEF AddFtrace, EnableFtrace, DisableFtrace, RemoveFtrace, SetBacktrace, FtraceNotListed,
                FunctionCalled, FtraceCall, stVars
  <2> QED BY <2>1 DEF Inv, CallsInv
<1>4. CASE FunctionCalled(f)
  BY <1>3, <1>4, FunctionCalledStep DEF Inv
<1>5. ASSUME FtraceCall PROVE Contains(ring, log)'
  BY <1>5, RecordedStep DEF FtraceCall, Calls
<1>6. CASE FtraceNotListed(f)
  BY <1>2, <1>3, <1>5, <1>6 DEF FtraceNotListed, fnVars, Inv, FnsInv, CodeInv
<1>7. CASE ~FunctionCalled(f) /\ ~FtraceNotListed(f)
  <2>1. FnsInv' /\ CodeInv'
    BY <1>1, <1>2, <1>7, AddFtraceStep, EnableFtraceStep, DisableFtraceStep, RemoveFtraceStep,
       SetBacktraceStep
  <2>2. FtraceCall
    BY <1>1, <1>7 DEF AddFtrace, EnableFtrace, DisableFtrace, RemoveFtrace, SetBacktrace
  <2> QED BY <1>3, <1>5, <2>1, <2>2 DEF Inv
<1> QED BY <1>4, <1>6, <1>7

\* Every step keeps the invariant.
LEMMA NextInv ==
  ASSUME Inv, Next
  PROVE  Inv'
<1>1. ASSUME NEW c \in Calls, Refused(c) PROVE Inv'
  <2>1. ring' = RingAt(c) /\ log' = LogAt(c) /\ ListsSame
    BY <1>1 DEF Refused, ListsSame, stVars, fnVars
  <2>2. Contains(ring', log')
    BY <2>1, HandlerFinds
  <2> QED BY <2>1, <2>2, SameLists
<1> QED BY <1>1, BufferStep, StraceStep, FunctionStep DEF Next

\* So does a step that changes nothing.
LEMMA StutterInv ==
  ASSUME Inv, UNCHANGED vars
  PROVE  Inv'
BY DEF vars, Inv, CallsInv, FnsInv, CodeInv

\* The ring contains the words written and not read, both lists have a chain, and
\* patched functions have their bytes kept, after any system calls in any order.
THEOREM Invariance == Spec => []Inv
<1>1. Inv /\ [Next]_vars => Inv'
  BY NextInv, StutterInv
<1> QED BY <1>1, InitInv, PTL DEF Spec

-----------------------------------------------------------------------------
(* The properties                                                          *)

\* The integers of the trace buffer agree and what is in it is what was written and
\* not read, for a ring, records and reads of any size.
THEOREM RingIsTheLog == Spec => []RingHoldsLog
<1>1. Inv => RingHoldsLog
  <2> SUFFICES ASSUME Inv PROVE RingHoldsLog
    OBVIOUS
  <2> DEFINE rp == ring.read_pos
             wp == ring.write_pos
             rd == ring.remaining_data
  <2>1. Contains(ring, log)
    BY DEF Inv
  <2>2. /\ rp \in 0..(RING - 1) /\ wp \in 0..(RING - 1) /\ rd \in 0..RING /\ RING \in Nat \ {0}
        /\ wp = Place(rp, rd) /\ log \in Seq(RingWords) /\ Len(log) = rd
    BY <2>1, ContainsFacts
  <2>3. \A k \in 0..(rd - 1) : Word(ring, k) = log[k + 1]
    <3>1. 0 \in 0..rd
      BY <2>2
    <3> QED BY <2>1, <3>1, TakenFacts
  <2> HIDE DEF rp, wp, rd
  <2>4. (wp - rp - rd) % RING = 0
    <3>1. Place(rp, rd) = IF rp + rd < RING THEN rp + rd ELSE rp + rd - RING
      BY <2>2, PlaceIs
    <3>2. wp - rp - rd = 0 \/ wp - rp - rd = -RING
      BY <2>2, <3>1
    <3>3. 0 % RING = 0 /\ (-RING) % RING = 0
      <4>1. \A N \in Nat \ {0} : 0 % N = 0
        OBVIOUS
      <4>2. \A N \in Nat \ {0} : (-N) % N = 0
        OBVIOUS
      <4> QED BY <2>2, <4>1, <4>2
    <3>4. CASE wp - rp - rd = 0
      BY <3>3, <3>4
    <3>5. CASE wp - rp - rd = -RING
      BY <3>3, <3>5
    <3> QED BY <3>2, <3>4, <3>5
  <2>5. [k \in 1..rd |-> Word(ring, k - 1)] = log
    <3>1. \A k \in 1..rd : k - 1 \in 0..(rd - 1) /\ (k - 1) + 1 = k
      BY <2>2
    <3>2. [k \in 1..rd |-> Word(ring, k - 1)] = [k \in 1..rd |-> log[k]]
      BY <2>3, <3>1
    <3>3. log = [k \in 1..rd |-> log[k]]
      BY <2>2
    <3> QED BY <3>2, <3>3
  <2> QED BY <2>2, <2>4, <2>5 DEF RingHoldsLog, rp, wp, rd
<1> QED BY <1>1, Invariance, PTL

\* Both lists are what their counts and pointers say, however many nodes and
\* whatever was put in and taken out.
THEOREM ListsAreSound == Spec => []ListSound
<1>1. Inv => ListSound
  BY ChainSound, NodesAre DEF Inv, CallsInv, FnsInv, ListSound
<1> QED BY <1>1, Invariance, PTL

\* A patched function has its first bytes in its node, unless it was spoiled, for
\* any number of functions.
THEOREM TracingCanBeUndone == Spec => []CodeRestorable
<1>1. Inv => CodeRestorable
  <2> SUFFICES ASSUME Inv, NEW f \in Fns \ spoiled, code[f] # "push"
               PROVE  /\ code[f] = "inv" /\ Listed(f)
                      /\ fns.info[Find(fns, f)].backup = "push"
    BY DEF CodeRestorable
  <2>1. FnsInv /\ CodeInv
    BY DEF Inv
  <2>2. code[f] = "inv" /\ \E n \in OfFn(fns, f) : fns.info[n].backup = "push"
    BY <2>1 DEF CodeInv, Kept
  <2>3. Listed(f)
    BY <2>1, <2>2, ListedFacts DEF Listed
  <2>4. Find(fns, f) \in OfFn(fns, f)
    BY <2>1, <2>3, ListedFacts
  <2> QED BY <2>1, <2>2, <2>3, <2>4 DEF CodeInv, OneNodeEach
<1> QED BY <1>1, Invariance, PTL

\* What a call of either kind returned, and left in the buffer.
ReadsOne(c) ==
  \E l \in {log, log \o CallRecord(c)}, n \in Records :
    LET queue == Unframed(l, n)
    IN  /\ log' = queue.stays
        /\ Len(got'.words) = Len(queue.said)
        /\ \A i \in 1..Len(queue.said) : got'.words[i] \in {queue.said[i], Beyond}

\* read_strace and read_ftrace that return something return what ReadsOne says.
LEMMA ReadsOneStep ==
  ASSUME Inv, NEW c \in {"read_strace", "read_ftrace"}, NEW n \in Records, ReadRecords(c, n),
         got' # Nothing
  PROVE  got'.call = c /\ ReadsOne(c)
<1>1. Contains(RingAt(c), LogAt(c)) /\ n \in Nat
  BY HandlerFinds, TracerAssumption DEF Calls
<1>2. LogAt(c) \in {log, log \o CallRecord(c)}
  BY HandlerFinds DEF ReadRecords, Calls
<1>3. ~Unframed(LogAt(c), n).torn
  BY DEF ReadRecords
<1>4. Agrees(Reading(c, RingAt(c), n), Unframed(LogAt(c), n))
  BY <1>1, <1>3, ReadingAgrees
<1>5. /\ got' = [call |-> c, words |-> Reading(c, RingAt(c), n).words]
      /\ log' = Unframed(LogAt(c), n).stays
  BY <1>3 DEF ReadRecords
<1>6. got'.call = c /\ got'.words = Reading(c, RingAt(c), n).words
  BY <1>5
<1> QED BY <1>2, <1>4, <1>5, <1>6 DEF Agrees, ReadsOne

\* No other call returns records.
LEMMA ReadersOnly ==
  ASSUME Inv, Next, got'.call \in {"read_strace", "read_ftrace"}
  PROVE  ReadsOne(got'.call)
<1>1. got' # Nothing
  BY DEF Nothing
<1>2. CASE \E n \in Records : ReadStrace(n) \/ ReadFtrace(n)
  BY <1>1, <1>2, ReadsOneStep DEF ReadStrace, ReadFtrace
<1>3. ASSUME FtraceCall PROVE FALSE
  BY <1>1, <1>3 DEF FtraceCall, Recorded
<1>4. CASE StraceCall
  BY <1>1, <1>4 DEF StraceCall, GetPid, ListCall, AddStrace, RemoveStrace, StartStrace, EndStrace,
                    Recorded
<1>5. CASE FunctionCall
  BY <1>1, <1>3, <1>5 DEF FunctionCall, AddFtrace, EnableFtrace, DisableFtrace, RemoveFtrace,
                          SetBacktrace, FtraceNotListed, FunctionCalled
<1>6. CASE \E c \in Calls : Refused(c)
  BY <1>1, <1>6 DEF Refused
<1>7. ASSUME NEW m \in Modes, CreateTraceBuffer(m) PROVE FALSE
  BY <1>1, <1>7 DEF CreateTraceBuffer
<1>8. ASSUME Close PROVE FALSE
  BY <1>1, <1>8 DEF Close
<1>9. ASSUME NEW n \in Amounts, Read(n) PROVE FALSE
  <2>1. got'.call = "read"
    BY <1>9 DEF Read
  <2> QED BY <2>1
<1>10. ASSUME NEW n \in Amounts, Write(n) PROVE FALSE
  BY <1>1, <1>10 DEF Write
<1> QED BY <1>2, <1>4, <1>5, <1>6, <1>7, <1>8, <1>9, <1>10 DEF Next, TraceBufferCall

\* read_strace and read_ftrace return the oldest records, in order and whole, and
\* take them out of the buffer, for any ring and any number of records.
THEOREM RecordsAreRead == Spec => ReadsRecords
<1>1. Inv /\ [Next]_vars
        => [got'.call \in {"read_strace", "read_ftrace"} =>
              \E l \in {log, log \o CallRecord(got'.call)}, n \in Records :
                LET queue == Unframed(l, n)
                IN  /\ log' = queue.stays
                    /\ Len(got'.words) = Len(queue.said)
                    /\ \A i \in 1..Len(queue.said) :
                         got'.words[i] \in {queue.said[i], Beyond}]_vars
  BY ReadersOnly DEF ReadsOne
<1> QED BY <1>1, Invariance, PTL DEF Spec, ReadsRecords
=============================================================================

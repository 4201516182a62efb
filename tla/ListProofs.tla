---------------------------- MODULE ListProofs ----------------------------
(***************************************************************************)
(* The linked lists of the page table: what a walk along next or fifonext  *)
(* visits, and what appending a node or taking one out does to it.         *)
(***************************************************************************)
EXTENDS PageTable, Integers, FiniteSetTheorems, WellFoundedInduction, TLAPS

(* Induction and recursion on the naturals in first-order form: every set  *)
(* of naturals has a least element, and a step function can be iterated.   *)

\* Every non-empty set of naturals has a least element.
LEMMA LeastNat ==
  ASSUME NEW T \in SUBSET Nat, T # {}
  PROVE  \E x \in T : \A y \in T : x <= y
<1> DEFINE R == OpToRel(<, Nat)
<1>1. IsWellFoundedOn(R, Nat)
  BY NatLessThanWellFounded
<1>2. \A x,y \in Nat : y < x => <<y,x>> \in R
  BY DEF OpToRel
<1> HIDE DEF R
<1>3. PICK x \in T : \A y \in T : ~(<<y,x>> \in R)
  BY <1>1, WFMin
<1>4. ASSUME NEW y \in T PROVE x <= y
  <2>1. x \in Nat /\ y \in Nat
    OBVIOUS
  <2>2. ~(y < x)
    BY <2>1, <1>2, <1>3
  <2> QED
    BY <2>1, <2>2
<1> QED
  BY <1>4

\* A set of naturals that holds 0 and every successor is all of Nat.
LEMMA NatIsInductive ==
  ASSUME NEW T \in SUBSET Nat,
         0 \in T,
         \A n \in T : n + 1 \in T
  PROVE  T = Nat
<1>1. SUFFICES ASSUME T # Nat PROVE FALSE
  OBVIOUS
<1> DEFINE U == Nat \ T
<1>2. U \in SUBSET Nat /\ U # {}
  BY <1>1
<1>3. PICK x \in U : \A y \in U : x <= y
  BY <1>2, LeastNat
<1>4. x \in Nat /\ x # 0 /\ x \notin T
  BY <1>3
<1>5. x - 1 \in Nat /\ ~(x <= x - 1)
  BY <1>4
<1>6. x - 1 \in T
  BY <1>3, <1>5
<1>7. (x - 1) + 1 = x
  BY <1>4
<1> QED
  BY <1>4, <1>6, <1>7

\* f follows the step function g from x on, for the first n steps.
Follows(f, g, x, n) ==
  /\ f[0] = x
  /\ \A i \in 1 .. n : f[i] = g[<<f[i-1], i-1>>]

\* Two functions that follow the same step function agree where both do.
LEMMA FollowsUnique ==
  ASSUME NEW g, NEW x, NEW n \in Nat, NEW m \in Nat, n <= m,
         NEW e, Follows(e, g, x, n),
         NEW f, Follows(f, g, x, m)
  PROVE  \A i \in 0 .. n : e[i] = f[i]
<1> DEFINE T == {i \in Nat : i \in 0 .. n => e[i] = f[i]}
<1>1. 0 \in T
  BY DEF Follows
<1>2. ASSUME NEW i \in T PROVE i + 1 \in T
  <2>1. SUFFICES ASSUME i + 1 \in 0 .. n PROVE e[i+1] = f[i+1]
    OBVIOUS
  <2>2. i \in 0 .. n /\ i + 1 \in 1 .. n /\ i + 1 \in 1 .. m /\ (i + 1) - 1 = i
    BY <2>1
  <2>3. e[i] = f[i]
    BY <2>2
  <2>4. e[i+1] = g[<<e[i], i>>] /\ f[i+1] = g[<<f[i], i>>]
    BY <2>2 DEF Follows
  <2> QED
    BY <2>3, <2>4
<1>3. T = Nat
  <2> HIDE DEF T
  <2>1. T \in SUBSET Nat
    BY DEF T
  <2> QED
    BY <1>1, <1>2, <2>1, NatIsInductive
<1> QED
  BY <1>3

\* A step function can be followed for any number of steps.
LEMMA FollowsExists ==
  ASSUME NEW S, NEW g \in [S \X Nat -> S], NEW x \in S
  PROVE  \A n \in Nat : \E f \in [0 .. n -> S] : Follows(f, g, x, n)
<1> DEFINE T == {n \in Nat : \E f \in [0 .. n -> S] : Follows(f, g, x, n)}
<1>1. 0 \in T
  <2> DEFINE f == [i \in 0 .. 0 |-> x]
  <2>1. f \in [0 .. 0 -> S] /\ Follows(f, g, x, 0)
    BY DEF Follows
  <2> QED
    BY <2>1
<1>2. ASSUME NEW n \in T PROVE n + 1 \in T
  <2>1. PICK e \in [0 .. n -> S] : Follows(e, g, x, n)
    OBVIOUS
  <2> DEFINE f == [i \in 0 .. n + 1 |-> IF i = n + 1 THEN g[<<e[n], n>>] ELSE e[i]]
  <2>2. e[n] \in S /\ <<e[n], n>> \in S \X Nat
    OBVIOUS
  <2>3. f \in [0 .. n + 1 -> S]
    BY <2>2
  <2>4. f[0] = x
    BY <2>1 DEF Follows
  <2>5. ASSUME NEW i \in 1 .. n + 1 PROVE f[i] = g[<<f[i-1], i-1>>]
    <3>1. CASE i = n + 1
      <4>1. f[i] = g[<<e[n], n>>] /\ i - 1 = n /\ f[i-1] = e[n]
        BY <3>1
      <4> QED
        BY <4>1
    <3>2. CASE i # n + 1
      <4>1. i \in 1 .. n /\ i - 1 \in 0 .. n
        BY <3>2
      <4>2. f[i] = e[i] /\ f[i-1] = e[i-1]
        BY <4>1
      <4> QED
        BY <2>1, <4>1, <4>2 DEF Follows
    <3> QED
      BY <3>1, <3>2
  <2> HIDE DEF f
  <2>6. Follows(f, g, x, n + 1)
    BY <2>4, <2>5 DEF Follows
  <2>7. n + 1 \in Nat
    OBVIOUS
  <2> QED
    BY <2>3, <2>6, <2>7
<1>3. T = Nat
  <2> HIDE DEF T
  <2>1. T \in SUBSET Nat
    BY DEF T
  <2> QED
    BY <1>1, <1>2, <2>1, NatIsInductive
<1> QED
  BY <1>3

\* f follows the step function g from x on, for ever.
Iterates(f, g, x) ==
  /\ f[0] = x
  /\ \A i \in Nat : f[i+1] = g[<<f[i], i>>]

(***************************************************************************)
(* The iteration of a step function: what a loop computes, iteration by    *)
(* iteration.                                                              *)
(***************************************************************************)
THEOREM Iteration ==
  ASSUME NEW S, NEW g \in [S \X Nat -> S], NEW x \in S
  PROVE  \E f \in [Nat -> S] : Iterates(f, g, x)
<1> DEFINE P(n) == {f \in [0 .. n -> S] : Follows(f, g, x, n)}
           h(n) == CHOOSE f \in P(n) : TRUE
           f == [n \in Nat |-> h(n)[n]]
<1>1. \A n \in Nat : P(n) # {}
  BY FollowsExists
<1>2. ASSUME NEW n \in Nat PROVE h(n) \in [0 .. n -> S] /\ Follows(h(n), g, x, n)
  BY <1>1
<1> HIDE DEF P, h
<1>3. f \in [Nat -> S]
  BY <1>2
<1>4. f[0] = x
  BY <1>2 DEF Follows
<1>5. ASSUME NEW i \in Nat PROVE f[i+1] = g[<<f[i], i>>]
  <2>1. i + 1 \in Nat /\ i <= i + 1 /\ i \in 0 .. i /\ i + 1 \in 1 .. i + 1 /\ (i + 1) - 1 = i
    OBVIOUS
  <2>2. h(i)[i] = h(i+1)[i]
    <3>1. Follows(h(i), g, x, i) /\ Follows(h(i+1), g, x, i + 1)
      BY <1>2, <2>1
    <3>2. \A j \in 0 .. i : h(i)[j] = h(i+1)[j]
      BY <3>1, <2>1, FollowsUnique
    <3> QED
      BY <3>2, <2>1
  <2>3. h(i+1)[i+1] = g[<<h(i+1)[i], i>>]
    BY <1>2, <2>1 DEF Follows
  <2> QED
    BY <2>1, <2>2, <2>3
<1>6. Iterates(f, g, x)
  BY <1>4, <1>5 DEF Iterates
<1> QED
  BY <1>3, <1>6

-----------------------------------------------------------------------------
(* Walks *)

\* Walk unfolds: it starts at the head and follows nxt.
LEMMA WalkDef ==
  ASSUME NEW nxt \in [Frames -> Pointers], NEW head \in Pointers
  PROVE  /\ Walk(nxt, head) \in [Nat -> Pointers]
         /\ Walk(nxt, head)[0] = head
         /\ \A i \in Nat : Walk(nxt, head)[i+1] = Follow(nxt, Walk(nxt, head)[i])
<1> DEFINE g == [a \in Pointers \X Nat |-> Follow(nxt, a[1])]
           step(f) == [i \in Nat |-> IF i = 0 THEN head ELSE Follow(nxt, f[i-1])]
           w == Walk(nxt, head)
<1>1. \A n \in Pointers : Follow(nxt, n) \in Pointers
  BY DEF Follow, Pointers
<1>2. g \in [Pointers \X Nat -> Pointers]
  BY <1>1
<1>3. PICK f \in [Nat -> Pointers] : Iterates(f, g, head)
  <2> HIDE DEF g
  <2> QED BY <1>2, Iteration
<1>4. \A i \in Nat : f[i+1] = Follow(nxt, f[i])
  BY <1>3 DEF Iterates
<1>5. f = step(f)
  <2>1. ASSUME NEW i \in Nat PROVE f[i] = IF i = 0 THEN head ELSE Follow(nxt, f[i-1])
    <3>1. CASE i = 0 BY <3>1, <1>3 DEF Iterates
    <3>2. CASE i # 0
      <4>1. i - 1 \in Nat /\ (i - 1) + 1 = i BY <3>2
      <4> QED BY <4>1, <1>4, <3>2
    <3> QED BY <3>1, <3>2
  <2> QED BY <2>1, <1>3
<1>6. w = CHOOSE h : h = step(h)
  BY DEF Walk
<1>7. w = step(w)
  <2> HIDE DEF w, step
  <2> QED BY <1>5, <1>6
<1>8. w = [i \in Nat |-> IF i = 0 THEN head ELSE Follow(nxt, w[i-1])]
  BY <1>7
<1> HIDE DEF w
<1>9. w[0] = head /\ \A i \in Nat : w[i+1] = Follow(nxt, w[i])
  BY <1>8
<1>10. w \in [Nat -> Pointers]
  <2> DEFINE T == {i \in Nat : w[i] \in Pointers}
  <2>1. 0 \in T BY <1>9
  <2>2. \A i \in T : i + 1 \in T BY <1>9, <1>1
  <2>3. T = Nat
    <3>1. T \in SUBSET Nat OBVIOUS
    <3> HIDE DEF T
    <3> QED BY <2>1, <2>2, <3>1, NatIsInductive
  <2> QED BY <1>8, <2>3
<1> QED BY <1>9, <1>10 DEF w

(***************************************************************************)
(* The n nodes s[0], ..., s[n-1] are the list from head along nxt.         *)
(***************************************************************************)
IsList(nxt, head, s, n) ==
  /\ n \in Nat
  /\ s \in [0 .. n - 1 -> Frames]
  /\ \A i, j \in 0 .. n - 1 : s[i] = s[j] => i = j
  /\ head = IF n = 0 THEN NULL ELSE s[0]
  /\ \A i \in 0 .. n - 1 : nxt[s[i]] = IF i = n - 1 THEN NULL ELSE s[i+1]

\* The nodes of such a list.
Elems(s, n) == {s[i] : i \in 0 .. n - 1}

\* Walking such a list, as the loops of pt.c do, meets s[0], s[1], ... and then NULL.
LEMMA WalkList ==
  ASSUME NEW nxt \in [Frames -> Pointers], NEW head \in Pointers, NEW s, NEW n,
         IsList(nxt, head, s, n)
  PROVE  \A i \in Nat : Walk(nxt, head)[i] = IF i < n THEN s[i] ELSE NULL
<1> DEFINE w == Walk(nxt, head)
           T == {i \in Nat : w[i] = IF i < n THEN s[i] ELSE NULL}
<1>1. w[0] = head /\ \A i \in Nat : w[i+1] = Follow(nxt, w[i])
  BY WalkDef
<1> HIDE DEF w
<1>2. 0 \in T
  BY <1>1 DEF IsList
<1>3. ASSUME NEW i \in T PROVE i + 1 \in T
  <2>1. i \in Nat /\ n \in Nat /\ i + 1 \in Nat
    BY DEF IsList
  <2>2. w[i+1] = Follow(nxt, w[i]) /\ w[i] = IF i < n THEN s[i] ELSE NULL
    BY <1>1
  <2>3. CASE i < n
    <3>1. i \in 0 .. n - 1 /\ s[i] \in Frames /\ s[i] # NULL
      BY <2>1, <2>3, SizesAssumption DEF IsList, Frames, NULL
    <3>2. w[i+1] = nxt[s[i]]
      BY <2>2, <2>3, <3>1 DEF Follow
    <3>3. nxt[s[i]] = IF i = n - 1 THEN NULL ELSE s[i+1]
      BY <3>1 DEF IsList
    <3>4. (i = n - 1) <=> ~(i + 1 < n)
      BY <2>1, <2>3
    <3> QED
      BY <2>1, <3>2, <3>3, <3>4
  <2>4. CASE ~(i < n)
    <3>1. w[i+1] = NULL /\ ~(i + 1 < n)
      BY <2>1, <2>2, <2>4 DEF Follow
    <3> QED
      BY <2>1, <3>1
  <2> QED
    BY <2>3, <2>4
<1>4. T = Nat
  <2>1. T \in SUBSET Nat
    OBVIOUS
  <2> HIDE DEF T
  <2> QED
    BY <1>2, <1>3, <2>1, NatIsInductive
<1> QED
  BY <1>4 DEF w

\* A list without repetition has at most PtSize nodes.
LEMMA ListFits ==
  ASSUME NEW nxt, NEW head, NEW s, NEW n, IsList(nxt, head, s, n)
  PROVE  n \in Nat /\ n <= PtSize
<1>1. n \in Nat /\ PtSize \in Nat /\ 0 \in Int /\ n - 1 \in Int /\ PtSize - 1 \in Int
  BY SizesAssumption DEF IsList
<1>2. IsFiniteSet(0 .. n - 1) /\ Cardinality(0 .. n - 1) = n
  <2>1. IsFiniteSet(0 .. n - 1) /\ Cardinality(0 .. n - 1) = IF 0 > n - 1 THEN 0 ELSE (n - 1) - 0 + 1
    BY <1>1, FS_Interval
  <2> QED
    BY <1>1, <2>1
<1>3. IsFiniteSet(Frames) /\ Cardinality(Frames) = PtSize
  <2>1. IsFiniteSet(0 .. PtSize - 1) /\ Cardinality(0 .. PtSize - 1) = IF 0 > PtSize - 1 THEN 0 ELSE (PtSize - 1) - 0 + 1
    BY <1>1, FS_Interval
  <2> QED
    BY <1>1, <2>1 DEF Frames
<1>4. SUFFICES ASSUME PtSize < n PROVE FALSE
  BY <1>1
<1>5. s \in [0 .. n - 1 -> Frames]
  BY DEF IsList
<1>6. \E i, j \in 0 .. n - 1 : i # j /\ s[i] = s[j]
  BY <1>2, <1>3, <1>4, <1>5, FS_PigeonHole
<1> QED
  BY <1>6 DEF IsList

\* The positions, nodes and last node of a walk are those of the list.
LEMMA ListPositions ==
  ASSUME NEW nxt \in [Frames -> Pointers], NEW head \in Pointers, NEW s, NEW n,
         IsList(nxt, head, s, n)
  PROVE  /\ Positions(nxt, head) = 0 .. n - 1
         /\ Nodes(nxt, head) = Elems(s, n)
         /\ n # 0 => LastNode(nxt, head) = s[n-1]
<1> DEFINE w == Walk(nxt, head)
<1>1. n \in Nat /\ n <= PtSize
  BY ListFits
<1>2. \A i \in Nat : w[i] = IF i < n THEN s[i] ELSE NULL
  BY WalkList
<1>3. \A i \in 0 .. n - 1 : s[i] \in Frames /\ s[i] # NULL
  BY <1>1, SizesAssumption DEF IsList, Frames, NULL
<1>4. Positions(nxt, head) = {i \in Frames : w[i] # NULL}
  BY DEF Positions
<1>n. Nodes(nxt, head) = {w[i] : i \in Positions(nxt, head)}
  BY DEF Nodes
<1>l. LastNode(nxt, head) = w[Max(Positions(nxt, head))]
  BY DEF LastNode
<1> HIDE DEF w
<1>5. Positions(nxt, head) = 0 .. n - 1
  BY <1>1, <1>2, <1>3, <1>4, SizesAssumption DEF Frames
<1>6. \A i \in 0 .. n - 1 : w[i] = s[i]
  BY <1>1, <1>2
<1>7. Nodes(nxt, head) = Elems(s, n)
  BY <1>n, <1>5, <1>6 DEF Elems
<1>8. ASSUME n # 0 PROVE LastNode(nxt, head) = s[n-1]
  <2>1. Max(0 .. n - 1) = n - 1
    BY <1>1, <1>8 DEF Max
  <2>2. n - 1 \in 0 .. n - 1
    BY <1>1, <1>8
  <2> QED
    BY <2>1, <2>2, <1>l, <1>5, <1>6
<1> QED
  BY <1>5, <1>7, <1>8

\* A store outside the list does not change it.
LEMMA ListUnchanged ==
  ASSUME NEW nxt, NEW head, NEW s, NEW n, IsList(nxt, head, s, n),
         NEW nxt2, \A f \in Elems(s, n) : nxt2[f] = nxt[f]
  PROVE  IsList(nxt2, head, s, n)
BY DEF IsList, Elems

\* Storing a new node in the last one's pointer appends it (the tail of setptentry).
LEMMA ListAppend ==
  ASSUME NEW nxt, NEW head, NEW s, NEW n, IsList(nxt, head, s, n), n # 0,
         NEW i \in Frames, i \notin Elems(s, n), nxt[i] = NULL,
         NEW nxt2, \A f \in Frames : nxt2[f] = IF f = s[n-1] THEN i ELSE nxt[f]
  PROVE  \E r : /\ IsList(nxt2, head, r, n + 1)
                /\ Elems(r, n + 1) = Elems(s, n) \cup {i}
                /\ r[n] = i
                /\ \A k \in 0 .. n - 1 : r[k] = s[k]
<1> DEFINE r == [k \in 0 .. n |-> IF k = n THEN i ELSE s[k]]
<1>1. /\ n \in Nat /\ n + 1 \in Nat /\ (n + 1) - 1 = n
      /\ n - 1 \in 0 .. n - 1 /\ 0 \in 0 .. n - 1
  BY DEF IsList
<1>2. \A k \in 0 .. n - 1 : r[k] = s[k] /\ s[k] \in Frames /\ s[k] # i
  BY <1>1 DEF IsList, Elems
<1>3. r[n] = i
  BY <1>1
<1>s. \A k \in 0 .. n : k = n \/ k \in 0 .. n - 1
  BY <1>1
<1>4. r \in [0 .. n -> Frames]
  <2>1. \A k \in 0 .. n : (IF k = n THEN i ELSE s[k]) \in Frames
    BY <1>s, <1>2
  <2> QED
    BY <2>1
<1>r. 0 .. (n + 1) - 1 = 0 .. n
  BY <1>1
<1>e. Elems(r, n + 1) = {r[k] : k \in 0 .. n}
  BY <1>r DEF Elems
<1> HIDE DEF r
<1>5. ASSUME NEW j \in 0 .. n, NEW k \in 0 .. n, r[j] = r[k] PROVE j = k
  BY <1>s, <1>5, <1>2, <1>3 DEF IsList
<1>6. head = r[0]
  BY <1>1, <1>2 DEF IsList
<1>7. ASSUME NEW k \in 0 .. n
      PROVE  nxt2[r[k]] = IF k = n THEN NULL ELSE r[k+1]
  <2>1. CASE k = n
    BY <2>1, <1>1, <1>2, <1>3
  <2>2. CASE k = n - 1
    <3>1. r[k] = s[n-1] /\ s[n-1] \in Frames /\ r[k+1] = i /\ k # n
      BY <2>2, <1>1, <1>2, <1>3
    <3> QED
      BY <3>1
  <2>3. CASE k # n /\ k # n - 1
    <3>1. k \in 0 .. n - 1 /\ k + 1 \in 0 .. n - 1 /\ k # n - 1
      BY <2>3, <1>1
    <3>2. s[k] # s[n-1] /\ nxt[s[k]] = s[k+1] /\ s[k] \in Frames
      BY <3>1, <1>1 DEF IsList
    <3>3. r[k] = s[k] /\ r[k+1] = s[k+1]
      BY <3>1, <1>2
    <3> QED
      BY <2>3, <3>2, <3>3
  <2> QED
    BY <2>1, <2>2, <2>3
<1>8. IsList(nxt2, head, r, n + 1)
  BY <1>1, <1>r, <1>4, <1>5, <1>6, <1>7 DEF IsList
<1>9. Elems(r, n + 1) = Elems(s, n) \cup {i}
  <2>1. Elems(r, n + 1) \subseteq Elems(s, n) \cup {i}
    BY <1>e, <1>s, <1>2, <1>3 DEF Elems
  <2>2. n \in 0 .. n /\ \A k \in 0 .. n - 1 : k \in 0 .. n
    BY <1>1
  <2>3. Elems(s, n) \cup {i} \subseteq Elems(r, n + 1)
    BY <1>e, <2>2, <1>2, <1>3 DEF Elems
  <2> QED
    BY <2>1, <2>3
<1> QED
  BY <1>2, <1>3, <1>8, <1>9

\* A node whose pointer is NULL is a list by itself.
LEMMA ListSingle ==
  ASSUME NEW nxt, NEW i \in Frames, nxt[i] = NULL
  PROVE  \E r : IsList(nxt, i, r, 1) /\ Elems(r, 1) = {i} /\ r[0] = i
<1> DEFINE r == [k \in 0 .. 0 |-> i]
<1>1. IsList(nxt, i, r, 1) /\ Elems(r, 1) = {i} /\ r[0] = i
  BY DEF IsList, Elems
<1> QED
  BY <1>1

\* Making the predecessor skip a node takes just that node out (freeuser).
LEMMA ListRemove ==
  ASSUME NEW nxt, NEW head, NEW s, NEW n, IsList(nxt, head, s, n),
         NEW k \in 0 .. n - 1,
         NEW nxt2,
         \A f \in Elems(s, n) \ {s[k]} :
             nxt2[f] = IF nxt[f] = s[k] THEN nxt[s[k]] ELSE nxt[f]
  PROVE  \E r : /\ IsList(nxt2, IF k = 0 THEN nxt[s[0]] ELSE head, r, n - 1)
                /\ Elems(r, n - 1) = Elems(s, n) \ {s[k]}
                /\ \A j \in 0 .. n - 2 : r[j] = IF j < k THEN s[j] ELSE s[j+1]
<1> DEFINE r == [j \in 0 .. n - 2 |-> IF j < k THEN s[j] ELSE s[j+1]]
           h == IF k = 0 THEN nxt[s[0]] ELSE head
<1>1. /\ n \in Nat /\ n - 1 \in Nat /\ n # 0 /\ k \in Nat /\ k < n
      /\ 0 .. (n - 1) - 1 = 0 .. n - 2
  BY DEF IsList
<1>2. \A j \in 0 .. n - 2 : j \in 0 .. n - 1 /\ j + 1 \in 0 .. n - 1
  BY <1>1
<1>s. \A i, j \in 0 .. n - 1 : s[i] = s[j] => i = j
  BY DEF IsList
<1>f. \A j \in 0 .. n - 1 : s[j] \in Frames /\ s[j] # NULL
  BY SizesAssumption DEF IsList, Frames, NULL
<1>3. \A j \in 0 .. n - 2 : r[j] = IF j < k THEN s[j] ELSE s[j+1]
  OBVIOUS
<1>4. r \in [0 .. n - 2 -> Frames]
  BY <1>2, <1>f
<1> HIDE DEF r
<1>5. ASSUME NEW i \in 0 .. n - 2, NEW j \in 0 .. n - 2, r[i] = r[j] PROVE i = j
  <2>1. CASE i < k /\ j < k
    BY <2>1, <1>5, <1>2, <1>3, <1>s
  <2>2. CASE ~(i < k) /\ j < k
    <3>1. s[i+1] = s[j] /\ i + 1 \in 0 .. n - 1 /\ j \in 0 .. n - 1
      BY <2>2, <1>5, <1>2, <1>3
    <3>2. i + 1 = j
      BY <3>1, <1>s
    <3> QED
      BY <3>2, <2>2, <1>1
  <2>3. CASE i < k /\ ~(j < k)
    <3>1. s[i] = s[j+1] /\ j + 1 \in 0 .. n - 1 /\ i \in 0 .. n - 1
      BY <2>3, <1>5, <1>2, <1>3
    <3>2. i = j + 1
      BY <3>1, <1>s
    <3> QED
      BY <3>2, <2>3, <1>1
  <2>4. CASE ~(i < k) /\ ~(j < k)
    <3>1. s[i+1] = s[j+1] /\ j + 1 \in 0 .. n - 1 /\ i + 1 \in 0 .. n - 1
      BY <2>4, <1>5, <1>2, <1>3
    <3>2. i + 1 = j + 1
      BY <3>1, <1>s
    <3> QED
      BY <3>2
  <2> QED
    BY <2>1, <2>2, <2>3, <2>4
<1>n. \A i \in 0 .. n - 1 : nxt[s[i]] = IF i = n - 1 THEN NULL ELSE s[i+1]
  BY DEF IsList
<1>6. h = IF n - 1 = 0 THEN NULL ELSE r[0]
  <2>1. CASE k = 0
    <3>1. 0 \in 0 .. n - 1
      BY <1>1
    <3>2. h = IF 0 = n - 1 THEN NULL ELSE s[0+1]
      BY <2>1, <3>1, <1>n
    <3>3. n - 1 # 0 => 0 \in 0 .. n - 2 /\ r[0] = s[0+1]
      BY <2>1, <1>1, <1>3
    <3> QED
      BY <3>2, <3>3
  <2>2. CASE k # 0
    <3>1. n - 1 # 0 /\ 0 \in 0 .. n - 2 /\ 0 < k
      BY <2>2, <1>1
    <3>2. h = s[0] /\ r[0] = s[0]
      BY <2>2, <3>1, <1>1, <1>3 DEF IsList
    <3> QED
      BY <3>1, <3>2
  <2> QED
    BY <2>1, <2>2
<1>7. ASSUME NEW j \in 0 .. n - 2
      PROVE  nxt2[r[j]] = IF j = (n - 1) - 1 THEN NULL ELSE r[j+1]
  <2>0. j \in 0 .. n - 1 /\ j + 1 \in 0 .. n - 1 /\ j \in Nat
    BY <1>2
  <2>1. CASE j < k
    <3>1. r[j] = s[j] /\ s[j] # s[k] /\ s[j] \in Elems(s, n) \ {s[k]}
      BY <2>0, <2>1, <1>1, <1>3, <1>s DEF Elems
    <3>2. nxt[s[j]] = s[j+1]
      BY <2>0, <2>1, <1>1, <1>n
    <3>3. CASE j + 1 = k
      <4>1. nxt2[s[j]] = nxt[s[k]]
        BY <3>1, <3>2, <3>3
      <4>2. nxt[s[k]] = IF k = n - 1 THEN NULL ELSE s[k+1]
        BY <1>n
      <4>3. (j = (n - 1) - 1) <=> k = n - 1
        BY <3>3, <1>1, <2>0
      <4>4. k # n - 1 => r[j+1] = s[k+1]
        <5>1. SUFFICES ASSUME k # n - 1 PROVE r[j+1] = s[k+1]
          OBVIOUS
        <5>2. j + 1 \in 0 .. n - 2 /\ ~(j + 1 < k) /\ (j + 1) + 1 = k + 1
          BY <5>1, <3>3, <1>1, <2>0
        <5> QED
          BY <5>2, <1>3
      <4> QED
        BY <3>1, <4>1, <4>2, <4>3, <4>4
    <3>4. CASE j + 1 # k
      <4>1. s[j+1] # s[k]
        BY <2>0, <3>4, <1>s
      <4>2. nxt2[s[j]] = s[j+1]
        BY <3>1, <3>2, <4>1
      <4>3. j + 1 \in 0 .. n - 2 /\ j + 1 < k /\ j # (n - 1) - 1
        BY <2>0, <2>1, <3>4, <1>1
      <4>4. r[j+1] = s[j+1]
        BY <4>3, <1>3
      <4> QED
        BY <3>1, <4>2, <4>3, <4>4
    <3> QED
      BY <3>3, <3>4
  <2>2. CASE ~(j < k)
    <3>1. r[j] = s[j+1] /\ j + 1 # k
      BY <2>0, <2>2, <1>1, <1>3
    <3>2. s[j+1] # s[k] /\ s[j+1] \in Elems(s, n) \ {s[k]}
      BY <2>0, <3>1, <1>s DEF Elems
    <3>3. nxt[s[j+1]] = IF j + 1 = n - 1 THEN NULL ELSE s[(j+1)+1]
      BY <2>0, <1>n
    <3>4. nxt[s[j+1]] # s[k]
      <4>1. CASE j + 1 = n - 1
        BY <3>3, <4>1, <1>f
      <4>2. CASE j + 1 # n - 1
        <5>1. (j+1)+1 \in 0 .. n - 1 /\ (j+1)+1 # k
          BY <2>0, <2>2, <4>2, <1>1
        <5> QED
          BY <5>1, <3>3, <4>2, <1>s
      <4> QED
        BY <4>1, <4>2
    <3>5. nxt2[s[j+1]] = nxt[s[j+1]]
      BY <3>2, <3>4
    <3>6. (j = (n - 1) - 1) <=> j + 1 = n - 1
      BY <2>0, <1>1
    <3>7. j + 1 # n - 1 => r[j+1] = s[(j+1)+1]
      <4>1. SUFFICES ASSUME j + 1 # n - 1 PROVE r[j+1] = s[(j+1)+1]
        OBVIOUS
      <4>2. j + 1 \in 0 .. n - 2 /\ ~(j + 1 < k)
        BY <4>1, <2>0, <2>2, <1>1
      <4> QED
        BY <4>2, <1>3
    <3> QED
      BY <3>1, <3>3, <3>5, <3>6, <3>7
  <2> QED
    BY <2>1, <2>2
<1> HIDE DEF h
<1>8. IsList(nxt2, h, r, n - 1)
  BY <1>1, <1>4, <1>5, <1>6, <1>7 DEF IsList
<1>9. Elems(r, n - 1) = Elems(s, n) \ {s[k]}
  <2>1. ASSUME NEW j \in 0 .. n - 2 PROVE r[j] \in Elems(s, n) \ {s[k]}
    <3>1. CASE j < k
      BY <3>1, <1>1, <1>2, <1>3, <1>s DEF Elems
    <3>2. CASE ~(j < k)
      <4>1. j + 1 # k /\ j + 1 \in 0 .. n - 1 /\ r[j] = s[j+1]
        BY <3>2, <1>1, <1>2, <1>3
      <4> QED
        BY <4>1, <1>s DEF Elems
    <3> QED
      BY <3>1, <3>2
  <2>2. ASSUME NEW j \in 0 .. n - 1, j # k PROVE \E i \in 0 .. n - 2 : r[i] = s[j]
    <3>1. CASE j < k
      <4>1. j \in 0 .. n - 2
        BY <3>1, <1>1
      <4> QED
        BY <3>1, <4>1, <1>3
    <3>2. CASE ~(j < k)
      <4>1. j - 1 \in 0 .. n - 2 /\ ~(j - 1 < k) /\ (j - 1) + 1 = j
        BY <2>2, <3>2, <1>1
      <4>2. r[j-1] = s[j]
        BY <4>1, <1>3
      <4> QED
        BY <4>1, <4>2
    <3> QED
      BY <3>1, <3>2
  <2>3. Elems(r, n - 1) = {r[j] : j \in 0 .. n - 2}
    BY <1>1 DEF Elems
  <2>4. Elems(r, n - 1) \subseteq Elems(s, n) \ {s[k]}
    BY <2>1, <2>3
  <2>5. ASSUME NEW f \in Elems(s, n) \ {s[k]} PROVE f \in Elems(r, n - 1)
    <3>1. PICK j \in 0 .. n - 1 : f = s[j]
      BY DEF Elems
    <3>2. j # k
      BY <3>1
    <3> QED
      BY <2>2, <2>3, <3>1, <3>2
  <2> QED
    BY <2>4, <2>5
<1> QED
  BY <1>3, <1>8, <1>9 DEF h

=============================================================================

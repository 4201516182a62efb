---------------------------- MODULE FifoProofs ----------------------------
(***************************************************************************)
(* The fifo list of Coremap implements the queue of FifoQueue, for every   *)
(* size of memory and hash table.                                          *)
(***************************************************************************)
EXTENDS CoremapProofs

\* Queue, of any table.
QueueOf(t) ==
  [i \in 1 .. Cardinality(Positions(t.fifonext, t.firstvictim)) |->
     <<t.pid[Walk(t.fifonext, t.firstvictim)[i-1]], t.vaddr[Walk(t.fifonext, t.firstvictim)[i-1]]>>]

\* q is the sequence of the pages in the frames s[0], ..., s[n-1].
IsQueue(q, t, s, n) ==
  /\ n \in Nat
  /\ q \in Seq(UserPids \X Nat)
  /\ Len(q) = n
  /\ \A i \in 1 .. n : q[i] = <<t.pid[s[i-1]], t.vaddr[s[i-1]]>>

\* The queue of a table is the sequence of the pages on its fifo list.
LEMMA QueueIs ==
  ASSUME NEW t, InOrder(t), NEW s, NEW n, IsFifo(t, s, n)
  PROVE  IsQueue(QueueOf(t), t, s, n)
<1> DEFINE w == Walk(t.fifonext, t.firstvictim)
           P == Positions(t.fifonext, t.firstvictim)
<1>0. /\ t.fifonext \in [Frames -> Pointers] /\ t.firstvictim \in Pointers
      /\ t.vaddr \in [Frames -> Nat]
  BY TableFields DEF InOrder
<1>1. IsList(t.fifonext, t.firstvictim, s, n) /\ Elems(s, n) = Users(t)
  BY DEF IsFifo
<1>2. n \in Nat /\ \A k \in 0 .. n - 1 : s[k] \in Users(t)
  BY <1>1, ListHead
<1>3. \A k \in Nat : w[k] = IF k < n THEN s[k] ELSE NULL
  BY <1>0, <1>1, WalkList
<1>4. Cardinality(P) = n
  <2>1. P = 0 .. n - 1
    BY <1>0, <1>1, ListPositions
  <2>2. Cardinality(0 .. n - 1) = n
    BY <1>1, ListCardinality
  <2> QED
    BY <2>1, <2>2
<1>5. QueueOf(t) = [i \in 1 .. Cardinality(P) |-> <<t.pid[w[i-1]], t.vaddr[w[i-1]]>>]
  BY DEF QueueOf
<1> HIDE DEF w, P
<1>6. ASSUME NEW i \in 1 .. n
      PROVE  /\ w[i-1] = s[i-1]
             /\ <<t.pid[s[i-1]], t.vaddr[s[i-1]]>> \in UserPids \X Nat
  <2>1. i - 1 \in Nat /\ i - 1 < n /\ i - 1 \in 0 .. n - 1
    BY <1>2
  <2>2. w[i-1] = s[i-1]
    BY <2>1, <1>3
  <2>3. t.pid[s[i-1]] \in UserPids /\ t.vaddr[s[i-1]] \in Nat
    BY <2>1, <1>0, <1>2 DEF Users
  <2> QED
    BY <2>2, <2>3
<1>7. QueueOf(t) = [i \in 1 .. n |-> <<t.pid[s[i-1]], t.vaddr[s[i-1]]>>]
  BY <1>4, <1>5, <1>6
<1>8. QueueOf(t) \in [1 .. n -> UserPids \X Nat]
  BY <1>6, <1>7
<1>9. QueueOf(t) \in Seq(UserPids \X Nat) /\ Len(QueueOf(t)) = n
  BY <1>2, <1>8
<1> QED
  BY <1>2, <1>7, <1>9 DEF IsQueue

\* A table has one fifo list.
LEMMA FifoUnique ==
  ASSUME NEW t, InOrder(t), NEW s, NEW n, IsFifo(t, s, n), NEW r, NEW m, IsFifo(t, r, m)
  PROVE  n \in Nat /\ n = m /\ \A i \in 0 .. n - 1 : s[i] = r[i]
<1> DEFINE w == Walk(t.fifonext, t.firstvictim)
<1>0. t.fifonext \in [Frames -> Pointers] /\ t.firstvictim \in Pointers
  BY TableFields DEF InOrder
<1>1. IsList(t.fifonext, t.firstvictim, s, n) /\ IsList(t.fifonext, t.firstvictim, r, m)
  BY DEF IsFifo
<1>2. \A k \in Nat : w[k] = IF k < n THEN s[k] ELSE NULL
  BY <1>0, <1>1, WalkList
<1>3. \A k \in Nat : w[k] = IF k < m THEN r[k] ELSE NULL
  BY <1>0, <1>1, WalkList
<1>4. n \in Nat /\ \A k \in 0 .. n - 1 : s[k] # NULL
  BY <1>1, ListHead, FrameFacts
<1>5. m \in Nat /\ \A k \in 0 .. m - 1 : r[k] # NULL
  BY <1>1, ListHead, FrameFacts
<1> HIDE DEF w
<1>6. ~(n < m)
  <2>1. SUFFICES ASSUME n < m PROVE FALSE
    OBVIOUS
  <2>2. n \in 0 .. m - 1
    BY <2>1, <1>4, <1>5
  <2> QED
    BY <2>1, <2>2, <1>2, <1>3, <1>4, <1>5
<1>7. ~(m < n)
  <2>1. SUFFICES ASSUME m < n PROVE FALSE
    OBVIOUS
  <2>2. m \in 0 .. n - 1
    BY <2>1, <1>4, <1>5
  <2> QED
    BY <2>1, <2>2, <1>2, <1>3, <1>4, <1>5
<1>8. n = m
  BY <1>4, <1>5, <1>6, <1>7
<1> QED
  BY <1>2, <1>3, <1>4, <1>8

\* The page of frame f is older than that of frame g.
Before(t, f, g) ==
  \E s, n : IsFifo(t, s, n) /\ \E i, j \in 0 .. n - 1 : i < j /\ s[i] = f /\ s[j] = g

\* The pages that t2 still holds are in the order they had in t.
KeepsOrder(t, t2) ==
  /\ \A f \in Frames : t2.vaddr[f] = t.vaddr[f]
  /\ \A f, g : Before(t2, f, g) => Before(t, f, g)

\* freeuser keeps the order of the pages it leaves.
LEMMA FreeKeepsOrder ==
  ASSUME NEW t, InOrder(t), NEW f \in Users(t), NEW pid, NEW vaddr,
         Holds(t, f, pid, vaddr),
         NEW t2, t2 = freeuser(t, pid, vaddr)
  PROVE  KeepsOrder(t, t2)
<1>1. InOrder(t2) /\ \A g \in Frames : t2.vaddr[g] = t.vaddr[g]
  BY FreeInOrder
<1>2. PICK s, m, q, r : FifoLoses(t, t2, f, s, m, q, r)
  BY FreeFifo
<1>3. /\ q \in 0 .. m - 1
      /\ IsFifo(t, s, m)
      /\ IsFifo(t2, r, m - 1)
      /\ \A j \in 0 .. m - 2 : r[j] = IF j < q THEN s[j] ELSE s[j+1]
  BY <1>2 DEF FifoLoses
<1>4. m \in Nat
  BY <1>3, ListHead DEF IsFifo
<1>5. ASSUME NEW g, NEW h, Before(t2, g, h) PROVE Before(t, g, h)
  <2>1. PICK u, n : IsFifo(t2, u, n) /\ \E i, j \in 0 .. n - 1 : i < j /\ u[i] = g /\ u[j] = h
    BY <1>5 DEF Before
  <2>2. PICK i \in 0 .. n - 1, j \in 0 .. n - 1 : i < j /\ u[i] = g /\ u[j] = h
    BY <2>1
  <2>u. IsFifo(t2, u, n)
    BY <2>1
  <2>r. IsFifo(t2, r, m - 1)
    BY <1>3
  <2>3. n \in Nat /\ n = m - 1 /\ \A k \in 0 .. n - 1 : u[k] = r[k]
    BY <2>u, <2>r, <1>1, FifoUnique
  <2>4. i \in 0 .. m - 2 /\ j \in 0 .. m - 2 /\ r[i] = g /\ r[j] = h
    BY <2>2, <2>3, <1>4
  <2> DEFINE a == IF i < q THEN i ELSE i + 1
             b == IF j < q THEN j ELSE j + 1
  <2>5. s[a] = g /\ s[b] = h
    BY <2>4, <1>3
  <2>6. a \in 0 .. m - 1 /\ b \in 0 .. m - 1 /\ a < b
    BY <2>2, <2>4, <1>3, <1>4
  <2> HIDE DEF a, b
  <2> QED
    BY <2>5, <2>6, <1>3 DEF Before
<1> QED
  BY <1>1, <1>5 DEF KeepsOrder

\* One iteration of removeptentries keeps the order of the pages it leaves.
LEMMA RemoveFrameKeepsOrder ==
  ASSUME NEW t \in Sound, NEW i \in Frames, NEW pid \in UserPids
  PROVE  KeepsOrder(t, RemoveFrame(t, i, pid))
<1>1. CASE t.pid[i] = pid
  <2>1. InOrder(t) /\ i \in Users(t) /\ Holds(t, i, pid, t.vaddr[i])
    BY <1>1 DEF Sound, Users, Holds
  <2>2. RemoveFrame(t, i, pid) = freeuser(t, pid, t.vaddr[i])
    BY <1>1 DEF RemoveFrame
  <2> QED
    BY <2>1, <2>2, FreeKeepsOrder
<1>2. CASE t.pid[i] # pid
  BY <1>2 DEF RemoveFrame, KeepsOrder
<1> QED
  BY <1>1, <1>2

\* So does the whole loop.
LEMMA RemoveKeepsOrder ==
  ASSUME NEW t, InOrder(t), NEW pid \in UserPids
  PROVE  KeepsOrder(t, removeptentries(t, pid))
<1> DEFINE after == AfterRemoving(t, pid)
           T == {i \in Nat : i <= PtSize => after[i] \in Sound /\ KeepsOrder(t, after[i])}
<1>0. t \in Sound /\ PtSize \in Nat
  BY SizesAssumption DEF Sound, InOrder
<1>1. /\ after[0] = t
      /\ \A i \in Frames : after[i+1] = RemoveFrame(after[i], i, pid)
  BY <1>0, RemovingDef
<1>r. removeptentries(t, pid) = after[PtSize]
  BY DEF removeptentries
<1> HIDE DEF after
<1>2. 0 \in T
  <2>1. KeepsOrder(t, t)
    BY DEF KeepsOrder
  <2> QED
    BY <2>1, <1>0, <1>1
<1>3. ASSUME NEW i \in T PROVE i + 1 \in T
  <2>1. SUFFICES ASSUME i + 1 <= PtSize
                 PROVE  after[i+1] \in Sound /\ KeepsOrder(t, after[i+1])
    OBVIOUS
  <2>2. i \in Nat /\ i \in Frames /\ i <= PtSize
    BY <2>1, <1>0 DEF Frames
  <2>3. after[i] \in Sound /\ KeepsOrder(t, after[i])
    BY <2>2
  <2>4. after[i+1] = RemoveFrame(after[i], i, pid)
    BY <2>2, <1>1
  <2>5. after[i+1] \in Sound
    BY <2>2, <2>3, <2>4, RemoveFrameInOrder
  <2>6. KeepsOrder(after[i], after[i+1])
    BY <2>2, <2>3, <2>4, RemoveFrameKeepsOrder
  <2>7. KeepsOrder(t, after[i+1])
    BY <2>3, <2>6 DEF KeepsOrder
  <2> QED
    BY <2>5, <2>7
<1>4. T = Nat
  <2>1. T \in SUBSET Nat
    OBVIOUS
  <2> HIDE DEF T
  <2> QED
    BY <1>2, <1>3, <2>1, NatIsInductive
<1> QED
  BY <1>0, <1>4, <1>r

\* The pages of a queue.
PagesOf(q) == {q[i] : i \in 1 .. Len(q)}

\* What Keep(rest) of FifoQueue says of the queue before and after.
Kept(q, q2, rest) ==
  /\ q2 \in Seq(rest)
  /\ PagesOf(q2) = rest
  /\ \A i, j \in 1 .. Len(q2) : i < j =>
        \E k, l \in 1 .. Len(q) : k < l /\ q[k] = q2[i] /\ q[l] = q2[j]

\* The pages of the queue are the resident ones.
LEMMA QueuePages ==
  ASSUME NEW t, InOrder(t)
  PROVE  PagesOf(QueueOf(t)) = {<<t.pid[f], t.vaddr[f]>> : f \in Users(t)}
<1> DEFINE q == QueueOf(t)
<1>1. PICK s, n : IsFifo(t, s, n)
  BY DEF InOrder, FifoInOrder
<1>2. IsQueue(q, t, s, n)
  BY <1>1, QueueIs
<1> HIDE DEF q
<1>3. /\ n \in Nat /\ Len(q) = n
      /\ \A i \in 1 .. n : q[i] = <<t.pid[s[i-1]], t.vaddr[s[i-1]]>>
  BY <1>2 DEF IsQueue
<1>4. Users(t) = {s[k] : k \in 0 .. n - 1}
  BY <1>1 DEF IsFifo, Elems
<1>5. ASSUME NEW f \in Users(t) PROVE <<t.pid[f], t.vaddr[f]>> \in PagesOf(q)
  <2>1. PICK k \in 0 .. n - 1 : f = s[k]
    BY <1>4
  <2>2. k + 1 \in 1 .. n /\ (k + 1) - 1 = k
    BY <1>3
  <2>3. q[k+1] = <<t.pid[f], t.vaddr[f]>>
    BY <2>1, <2>2, <1>3
  <2> QED
    BY <2>2, <2>3, <1>3 DEF PagesOf
<1>6. ASSUME NEW i \in 1 .. n PROVE \E f \in Users(t) : q[i] = <<t.pid[f], t.vaddr[f]>>
  <2>1. i - 1 \in 0 .. n - 1
    BY <1>3
  <2> QED
    BY <2>1, <1>3, <1>4
<1>7. PagesOf(q) = {q[i] : i \in 1 .. n}
  BY <1>3 DEF PagesOf
<1>8. PagesOf(q) = {<<t.pid[f], t.vaddr[f]>> : f \in Users(t)}
  BY <1>5, <1>6, <1>7
<1> QED
  BY <1>8 DEF q

\* A table that keeps the order of another's pages keeps its queue but for the pages gone.
LEMMA KeepsQueue ==
  ASSUME NEW t, InOrder(t), NEW t2, InOrder(t2), KeepsOrder(t, t2),
         \A f \in Users(t2) : f \in Users(t) /\ t2.pid[f] = t.pid[f],
         NEW rest, rest = {<<t2.pid[f], t2.vaddr[f]>> : f \in Users(t2)}
  PROVE  Kept(QueueOf(t), QueueOf(t2), rest)
<1> DEFINE q == QueueOf(t)
           q2 == QueueOf(t2)
<1>1. PICK s, n : IsFifo(t, s, n)
  BY DEF InOrder, FifoInOrder
<1>2. PICK r, m : IsFifo(t2, r, m)
  BY DEF InOrder, FifoInOrder
<1>3. IsQueue(q, t, s, n)
  BY <1>1, QueueIs
<1>4. IsQueue(q2, t2, r, m)
  BY <1>2, QueueIs
<1>5. PagesOf(q2) = rest
  BY QueuePages
<1> HIDE DEF q, q2
<1>6. /\ n \in Nat /\ Len(q) = n
      /\ \A i \in 1 .. n : q[i] = <<t.pid[s[i-1]], t.vaddr[s[i-1]]>>
  BY <1>3 DEF IsQueue
<1>7. /\ m \in Nat /\ Len(q2) = m /\ q2 \in Seq(UserPids \X Nat)
      /\ \A i \in 1 .. m : q2[i] = <<t2.pid[r[i-1]], t2.vaddr[r[i-1]]>>
  BY <1>4 DEF IsQueue
<1>8. q2 \in Seq(rest)
  <2>1. \A i \in 1 .. m : q2[i] \in rest
    BY <1>5, <1>7 DEF PagesOf
  <2>s. q2 \in Seq(UserPids \X Nat) /\ Len(q2) = m
    BY <1>7
  <2>2. q2 \in [1 .. m -> rest]
    BY <2>1, <2>s
  <2> QED
    BY <2>2, <1>7
<1>9. \A f \in Users(t2) : f \in Frames /\ <<t2.pid[f], t2.vaddr[f]>> = <<t.pid[f], t.vaddr[f]>>
  BY DEF KeepsOrder, Users
<1>10. \A k \in 0 .. m - 1 : r[k] \in Users(t2)
  BY <1>2 DEF IsFifo, Elems
<1>11. ASSUME NEW i \in 1 .. m, NEW j \in 1 .. m, i < j
       PROVE  \E k, l \in 1 .. n : k < l /\ q[k] = q2[i] /\ q[l] = q2[j]
  <2> DEFINE f == r[i-1]
             g == r[j-1]
  <2>1. i - 1 \in 0 .. m - 1 /\ j - 1 \in 0 .. m - 1 /\ i - 1 < j - 1
    BY <1>7, <1>11
  <2>2. f \in Users(t2) /\ g \in Users(t2)
    BY <2>1, <1>10
  <2>3. q2[i] = <<t.pid[f], t.vaddr[f]>> /\ q2[j] = <<t.pid[g], t.vaddr[g]>>
    BY <2>2, <1>7, <1>9
  <2>4. Before(t2, f, g)
    BY <2>1, <1>2 DEF Before
  <2> HIDE DEF f, g
  <2>5. Before(t, f, g)
    BY <2>4 DEF KeepsOrder
  <2>6. PICK u, p : IsFifo(t, u, p) /\ \E k, l \in 0 .. p - 1 : k < l /\ u[k] = f /\ u[l] = g
    BY <2>5 DEF Before
  <2>7. PICK k \in 0 .. p - 1, l \in 0 .. p - 1 : k < l /\ u[k] = f /\ u[l] = g
    BY <2>6
  <2>u. IsFifo(t, u, p)
    BY <2>6
  <2>8. p = n /\ \A k0 \in 0 .. n - 1 : s[k0] = u[k0]
    BY <2>u, <1>1, FifoUnique
  <2>9. k + 1 \in 1 .. n /\ l + 1 \in 1 .. n /\ k + 1 < l + 1 /\ (k + 1) - 1 = k /\ (l + 1) - 1 = l
    BY <2>7, <2>8, <1>6
  <2>10. s[k] = f /\ s[l] = g
    BY <2>7, <2>8
  <2>11. q[k+1] = <<t.pid[f], t.vaddr[f]>> /\ q[l+1] = <<t.pid[g], t.vaddr[g]>>
    BY <2>9, <2>10, <1>6
  <2> QED
    BY <2>3, <2>9, <2>11
<1> QED
  BY <1>5, <1>6, <1>7, <1>8, <1>11 DEF Kept, q, q2

\* A sequence that is another with one more element at its end.
LEMMA AppendIs ==
  ASSUME NEW S, NEW q \in Seq(S), NEW x \in S, NEW r \in Seq(S),
         Len(r) = Len(q) + 1,
         \A i \in 1 .. Len(q) : r[i] = q[i],
         r[Len(q)+1] = x
  PROVE  r = Append(q, x)
<1>1. Append(q, x) \in Seq(S) /\ Len(Append(q, x)) = Len(q) + 1 /\ Len(q) \in Nat
  OBVIOUS
<1>2. ASSUME NEW i \in 1 .. Len(r) PROVE r[i] = Append(q, x)[i]
  <2>1. CASE i = Len(q) + 1
    BY <2>1
  <2>2. CASE i # Len(q) + 1
    <3>1. i \in 1 .. Len(q)
      BY <2>2, <1>1
    <3> QED
      BY <3>1
  <2> QED
    BY <2>1, <2>2
<1> QED
  BY <1>1, <1>2

\* A sequence that is another without its first element.
LEMMA TailIs ==
  ASSUME NEW S, NEW q \in Seq(S), NEW r \in Seq(S),
         q # <<>>,
         Len(r) = Len(q) - 1,
         \A i \in 1 .. Len(q) - 1 : r[i] = q[i+1]
  PROVE  r = Tail(q)
<1>1. Tail(q) \in Seq(S) /\ Len(Tail(q)) = Len(q) - 1 /\ Len(q) \in Nat
  OBVIOUS
<1>2. ASSUME NEW i \in 1 .. Len(r) PROVE r[i] = Tail(q)[i]
  BY <1>1
<1> QED
  BY <1>1, <1>2

\* setptentry of a user page puts it at the end of the queue.
LEMMA SetAppends ==
  ASSUME NEW t, InOrder(t), NEW i, Fit(t, i, 1), NEW pid \in UserPids, NEW vaddr \in Nat,
         \A f \in Frames : ~Holds(t, f, pid, vaddr),
         NEW t2, t2 = setptentry(t, i, 1, pid, vaddr)
  PROVE  QueueOf(t2) = Append(QueueOf(t), <<pid, vaddr>>)
<1> DEFINE q == QueueOf(t)
           q2 == QueueOf(t2)
           S == UserPids \X Nat
<1>1. InOrder(t2)
  BY SetInOrder
<1>2. \A f \in Frames : /\ t2.pid[f] = IF f = i THEN pid ELSE t.pid[f]
                        /\ t2.vaddr[f] = IF f = i THEN vaddr ELSE t.vaddr[f]
  BY SetFields
<1>3. PICK s, m, r : FifoGains(t, t2, i, s, m, r)
  BY SetFifo
<1>4. /\ IsFifo(t, s, m)
      /\ IsFifo(t2, r, m + 1)
      /\ r[m] = i
      /\ \A k \in 0 .. m - 1 : r[k] = s[k]
  BY <1>3 DEF FifoGains
<1>5. IsQueue(q, t, s, m)
  BY <1>4, QueueIs
<1>6. IsQueue(q2, t2, r, m + 1)
  BY <1>1, <1>4, QueueIs
<1> HIDE DEF q, q2
<1>7. /\ m \in Nat /\ Len(q) = m /\ q \in Seq(S)
      /\ \A j \in 1 .. m : q[j] = <<t.pid[s[j-1]], t.vaddr[s[j-1]]>>
  BY <1>5 DEF IsQueue
<1>8. /\ Len(q2) = m + 1 /\ q2 \in Seq(S)
      /\ \A j \in 1 .. m + 1 : q2[j] = <<t2.pid[r[j-1]], t2.vaddr[r[j-1]]>>
  BY <1>6 DEF IsQueue
<1>9. i \in Frames /\ i \notin Users(t) /\ \A k \in 0 .. m - 1 : s[k] \in Users(t) /\ s[k] \in Frames
  <2>1. i \in Frames /\ t.pid[i] = FREE
    BY DEF Fit
  <2>2. i \notin Users(t)
    BY <2>1, PidFacts DEF Users
  <2>3. \A k \in 0 .. m - 1 : s[k] \in Users(t)
    BY <1>4 DEF IsFifo, Elems
  <2> QED
    BY <2>1, <2>2, <2>3 DEF Users
<1>10. ASSUME NEW j \in 1 .. m PROVE q2[j] = q[j]
  <2>1. j - 1 \in 0 .. m - 1 /\ j \in 1 .. m + 1
    BY <1>7
  <2>2. r[j-1] = s[j-1] /\ s[j-1] \in Frames /\ s[j-1] # i
    BY <2>1, <1>4, <1>9
  <2>3. q2[j] = <<t2.pid[s[j-1]], t2.vaddr[s[j-1]]>>
    BY <2>1, <2>2, <1>8
  <2>4. q[j] = <<t.pid[s[j-1]], t.vaddr[s[j-1]]>>
    BY <1>7
  <2>5. t2.pid[s[j-1]] = t.pid[s[j-1]] /\ t2.vaddr[s[j-1]] = t.vaddr[s[j-1]]
    BY <2>2, <1>2
  <2> QED
    BY <2>3, <2>4, <2>5
<1>11. q2[m+1] = <<pid, vaddr>>
  <2>1. m + 1 \in 1 .. m + 1 /\ (m + 1) - 1 = m
    BY <1>7
  <2> QED
    BY <2>1, <1>2, <1>4, <1>8, <1>9
<1>12. <<pid, vaddr>> \in S
  OBVIOUS
<1> HIDE DEF S
<1>13. q2 = Append(q, <<pid, vaddr>>)
  BY <1>7, <1>8, <1>10, <1>11, <1>12, AppendIs
<1> QED
  BY <1>13 DEF q, q2

\* Evicting the victim takes the first page out of the queue.
LEMMA EvictTakesFirst ==
  ASSUME NEW t, InOrder(t), Victim(t) # NULL,
         NEW t2, t2 = evictvictim(t)
  PROVE  QueueOf(t) # <<>> /\ QueueOf(t2) = Tail(QueueOf(t))
<1> DEFINE q == QueueOf(t)
           q2 == QueueOf(t2)
           S == UserPids \X Nat
           v == Victim(t)
<1>1. /\ InOrder(t2)
      /\ \A f \in Frames : /\ t2.pid[f] = IF f = v THEN FREE ELSE t.pid[f]
                           /\ t2.vaddr[f] = t.vaddr[f]
  BY EvictInOrder
<1>2. v \in Users(t) /\ Holds(t, v, t.pid[v], t.vaddr[v]) /\ v = t.firstvictim
  BY VictimIsUser DEF Holds, Victim
<1>3. t2 = freeuser(t, t.pid[v], t.vaddr[v])
  BY DEF evictvictim
<1> HIDE DEF v
<1>4. PICK s, m, p, r : FifoLoses(t, t2, v, s, m, p, r)
  BY <1>2, <1>3, FreeFifo
<1>5. /\ p \in 0 .. m - 1
      /\ IsFifo(t, s, m)
      /\ s[p] = v
      /\ IsFifo(t2, r, m - 1)
      /\ \A j \in 0 .. m - 2 : r[j] = IF j < p THEN s[j] ELSE s[j+1]
  BY <1>4 DEF FifoLoses
<1>i. IsList(t.fifonext, t.firstvictim, s, m)
  BY <1>5 DEF IsFifo
<1>6. m \in Nat /\ p = 0
  <2>1. m \in Nat
    BY <1>i, ListHead
  <2>2. t.firstvictim = s[p] <=> p = 0
    BY <1>5, <1>i, ListPredecessor
  <2> QED
    BY <2>1, <2>2, <1>2, <1>5
<1>7. IsQueue(q, t, s, m)
  BY <1>5, QueueIs
<1>8. IsQueue(q2, t2, r, m - 1)
  BY <1>1, <1>5, QueueIs
<1> HIDE DEF q, q2
<1>9. /\ Len(q) = m /\ q \in Seq(S)
      /\ \A j \in 1 .. m : q[j] = <<t.pid[s[j-1]], t.vaddr[s[j-1]]>>
  BY <1>7 DEF IsQueue
<1>10. /\ Len(q2) = m - 1 /\ q2 \in Seq(S)
       /\ \A j \in 1 .. m - 1 : q2[j] = <<t2.pid[r[j-1]], t2.vaddr[r[j-1]]>>
  BY <1>8 DEF IsQueue
<1>11. ASSUME NEW j \in 1 .. m - 1 PROVE q2[j] = q[j+1]
  <2>1. /\ j - 1 \in 0 .. m - 2 /\ ~(j - 1 < 0) /\ (j - 1) + 1 = j /\ j \in 0 .. m - 1
        /\ j + 1 \in 1 .. m /\ (j + 1) - 1 = j /\ j # 0 /\ 0 \in 0 .. m - 1
    BY <1>6
  <2>2. r[j-1] = s[j]
    BY <2>1, <1>5, <1>6
  <2>3. s[j] \in Frames /\ s[j] # v
    BY <2>1, <1>5, <1>6, <1>i DEF IsList
  <2>4. q2[j] = <<t2.pid[s[j]], t2.vaddr[s[j]]>>
    BY <2>2, <1>10
  <2>5. q[j+1] = <<t.pid[s[j]], t.vaddr[s[j]]>>
    BY <2>1, <1>9
  <2>6. t2.pid[s[j]] = t.pid[s[j]] /\ t2.vaddr[s[j]] = t.vaddr[s[j]]
    BY <2>3, <1>1
  <2> QED
    BY <2>4, <2>5, <2>6
<1>12. q # <<>>
  BY <1>5, <1>6, <1>9
<1> HIDE DEF S
<1>13. q2 = Tail(q)
  BY <1>9, <1>10, <1>11, <1>12, TailIs
<1> QED
  BY <1>12, <1>13 DEF q, q2

\* Two tables with the same fifo list and the same pages on it have the same queue.
LEMMA SameQueue ==
  ASSUME NEW t, InOrder(t), NEW t2, InOrder(t2), FifoStays(t, t2),
         \A f \in Users(t) : t2.pid[f] = t.pid[f] /\ t2.vaddr[f] = t.vaddr[f]
  PROVE  QueueOf(t2) = QueueOf(t)
<1> DEFINE q == QueueOf(t)
           q2 == QueueOf(t2)
<1>1. PICK s, n : IsFifo(t, s, n) /\ IsFifo(t2, s, n)
  BY DEF FifoStays
<1>2. IsQueue(q, t, s, n)
  BY <1>1, QueueIs
<1>3. IsQueue(q2, t2, s, n)
  BY <1>1, QueueIs
<1>4. \A k \in 0 .. n - 1 : s[k] \in Users(t)
  BY <1>1 DEF IsFifo, Elems
<1> HIDE DEF q, q2
<1>5. n \in Nat /\ Len(q) = n /\ Len(q2) = n /\ q \in Seq(UserPids \X Nat) /\ q2 \in Seq(UserPids \X Nat)
  BY <1>2, <1>3 DEF IsQueue
<1>6. ASSUME NEW i \in 1 .. n PROVE q2[i] = q[i]
  <2>1. i - 1 \in 0 .. n - 1
    BY <1>5
  <2> QED
    BY <2>1, <1>2, <1>3, <1>4 DEF IsQueue
<1>7. q2 = q
  BY <1>5, <1>6
<1> QED
  BY <1>7 DEF q, q2

\* The queue that the refinement mapping reads off the table, now and after a step.
LEMMA QueueNow ==
  /\ Queue = QueueOf(pt)
  /\ Queue' = QueueOf(pt')
  /\ FQ!Resident = PagesOf(QueueOf(pt))
<1>1. Queue = QueueOf(pt)
  BY DEF Queue, QueueOf
<1>2. Queue' = QueueOf(pt')
  BY DEF Queue, QueueOf
<1>3. FQ!Resident = PagesOf(Queue)
  BY DEF FQ!Resident, PagesOf
<1> QED
  BY <1>1, <1>2, <1>3

\* Kept is Keep of FifoQueue.
LEMMA KeptIsKeep ==
  ASSUME NEW rest, Kept(QueueOf(pt), QueueOf(pt'), rest)
  PROVE  FQ!Keep(rest)
<1> DEFINE q == QueueOf(pt)
           q2 == QueueOf(pt')
<1>1. Queue = q /\ Queue' = q2
  BY QueueNow
<1>2. Kept(q, q2, rest)
  OBVIOUS
<1> HIDE DEF q, q2
<1>3. FQ!Resident' = PagesOf(q2)
  BY <1>1 DEF FQ!Resident, PagesOf
<1> QED
  BY <1>1, <1>2, <1>3 DEF Kept, FQ!Keep

\* A page that no frame holds is not in the queue.
LEMMA AbsentPage ==
  ASSUME IInv, NEW pid \in UserPids, NEW vaddr, \A f \in Frames : ~Holds(pt, f, pid, vaddr)
  PROVE  <<pid, vaddr>> \notin PagesOf(QueueOf(pt))
<1>1. InOrder(pt)
  BY DEF IInv
<1>2. PagesOf(QueueOf(pt)) = {<<pt.pid[f], pt.vaddr[f]>> : f \in Users(pt)}
  BY <1>1, QueuePages
<1>3. \A f \in Users(pt) : <<pt.pid[f], pt.vaddr[f]>> # <<pid, vaddr>>
  BY DEF Holds, Users
<1> QED
  BY <1>2, <1>3

\* Every operation of coremap.c is a step of the queue, or leaves it alone.
LEMMA NextQueue == IInv /\ IInv' /\ [Next]_vars => [FQ!Next]_Queue
<1> SUFFICES ASSUME IInv, IInv', [Next]_vars PROVE FQ!Next \/ Queue' = Queue
  OBVIOUS
<1>0. InOrder(pt) /\ InOrder(pt') /\ Vaddrs \subseteq Nat
  <2>1. InOrder(pt) /\ InOrder(pt')
    BY DEF IInv
  <2>2. Vaddrs \subseteq Nat
    BY SizesAssumption, PidsAssumption
  <2> QED
    BY <2>1, <2>2
<1>s. ASSUME pt' = pt PROVE Queue' = Queue
  BY <1>s, QueueNow
<1>1. ASSUME NEW pid \in UserPids, NEW vaddr \in Vaddrs, allocuserpage(pid, vaddr)
      PROVE  FQ!Next \/ Queue' = Queue
  <2> DEFINE page == <<pid, vaddr>>
             ind == getfreeframes(pt, 1)
  <2>1. vaddr \in Nat /\ getpageaddr(pt, pid, vaddr) = 0 /\ page \in FQ!Pages
    BY <1>0, <1>1 DEF allocuserpage, FQ!Pages
  <2>2. \A f \in Frames : ~Holds(pt, f, pid, vaddr)
    BY <2>1, PageAddr
  <2>3. page \notin FQ!Resident
    BY <2>2, AbsentPage, QueueNow
  <2>4. CASE ind # -1 /\ pt' = setptentry(pt, ind, 1, pid, vaddr)
    <3>1. Fit(pt, ind, 1)
      BY <2>4, <1>0, FreeFramesFit
    <3> HIDE DEF ind
    <3>2. QueueOf(pt') = Append(QueueOf(pt), <<pid, vaddr>>)
      BY <2>1, <2>2, <2>4, <3>1, <1>0, SetAppends
    <3>3. FQ!Admit(page)
      BY <2>3, <3>2, QueueNow DEF FQ!Admit
    <3> QED
      BY <2>1, <3>3 DEF FQ!Next
  <2>5. CASE Victim(pt) # NULL /\ pt' = setptentry(evictvictim(pt), Victim(pt), 1, pid, vaddr)
    <3> DEFINE t2 == evictvictim(pt)
               v == Victim(pt)
    <3>1. /\ InOrder(t2)
          /\ Fit(t2, v, 1)
          /\ \A f \in Frames : /\ t2.pid[f] = IF f = v THEN FREE ELSE pt.pid[f]
                               /\ t2.vaddr[f] = pt.vaddr[f]
      BY <2>5, <1>0, EvictInOrder
    <3>2. QueueOf(pt) # <<>> /\ QueueOf(t2) = Tail(QueueOf(pt))
      BY <2>5, <1>0, EvictTakesFirst
    <3>3. pt' = setptentry(t2, v, 1, pid, vaddr)
      BY <2>5
    <3> HIDE DEF t2, v
    <3>4. \A f \in Frames : ~Holds(t2, f, pid, vaddr)
      BY <3>1, <2>2, PidFacts DEF Holds
    <3>5. QueueOf(pt') = Append(QueueOf(t2), <<pid, vaddr>>)
      BY <2>1, <3>1, <3>3, <3>4, SetAppends
    <3>6. FQ!Replace(page)
      BY <2>3, <3>2, <3>5, QueueNow DEF FQ!Replace
    <3> QED
      BY <2>1, <3>6 DEF FQ!Next
  <2>6. CASE UNCHANGED pt
    BY <2>6, <1>s
  <2> QED
    BY <1>1, <2>4, <2>5, <2>6 DEF allocuserpage
<1>2. ASSUME NEW pid \in UserPids, NEW vaddr \in Vaddrs, freeuserpage(pid, vaddr)
      PROVE  FQ!Next \/ Queue' = Queue
  <2> DEFINE page == <<pid, vaddr>>
             rest == {<<pt'.pid[f], pt'.vaddr[f]>> : f \in Users(pt')}
  <2>1. vaddr \in Nat /\ pt' = freeuser(pt, pid, vaddr) /\ page \in FQ!Pages
    BY <1>0, <1>2 DEF freeuserpage, FQ!Pages
  <2>2. CASE \A f \in Frames : ~Holds(pt, f, pid, vaddr)
    <3>1. pt' = pt
      BY <2>1, <2>2, <1>0, FreeAbsent
    <3> QED
      BY <3>1, <1>s
  <2>3. CASE \E f \in Frames : Holds(pt, f, pid, vaddr)
    <3>1. PICK f \in Users(pt) : Holds(pt, f, pid, vaddr)
      BY <2>3 DEF Holds, Users
    <3>2. \A g \in Frames : /\ pt'.pid[g] = IF g = f THEN FREE ELSE pt.pid[g]
                            /\ pt'.vaddr[g] = pt.vaddr[g]
      BY <2>1, <3>1, <1>0, FreeInOrder
    <3>3. KeepsOrder(pt, pt')
      BY <2>1, <3>1, <1>0, FreeKeepsOrder
    <3>4. Users(pt') = Users(pt) \ {f}
      BY <3>1, <3>2, PidFacts DEF Users
    <3>5. \A g \in Users(pt') : g \in Users(pt) /\ pt'.pid[g] = pt.pid[g] /\ pt'.vaddr[g] = pt.vaddr[g]
      BY <3>2, <3>4 DEF Users
    <3>6. Kept(QueueOf(pt), QueueOf(pt'), rest)
      BY <3>3, <3>5, <1>0, KeepsQueue
    <3>7. rest = FQ!Resident \ {page}
      <4>1. FQ!Resident = {<<pt.pid[g], pt.vaddr[g]>> : g \in Users(pt)}
        BY <1>0, QueueNow, QueuePages
      <4>2. <<pt.pid[f], pt.vaddr[f]>> = page
        BY <3>1 DEF Holds
      <4>3. \A g \in Users(pt) \ {f} : <<pt.pid[g], pt.vaddr[g]>> # page
        BY <3>1, <1>0 DEF InOrder, PagesUnique, Holds
      <4> QED
        BY <3>4, <3>5, <4>1, <4>2, <4>3
    <3> HIDE DEF rest
    <3>8. FQ!Release(page)
      BY <3>6, <3>7, KeptIsKeep DEF FQ!Release
    <3> QED
      BY <2>1, <3>8 DEF FQ!Next
  <2> QED
    BY <2>2, <2>3
<1>3. ASSUME NEW pid \in UserPids, RemoveProcess(pid) PROVE FQ!Next
  <2> DEFINE rest == {<<pt'.pid[f], pt'.vaddr[f]>> : f \in Users(pt')}
  <2>1. pt' = removeptentries(pt, pid)
    BY <1>3 DEF RemoveProcess
  <2>2. \A f \in Frames : pt'.pid[f] = IF pt.pid[f] = pid THEN FREE ELSE pt.pid[f]
    BY <2>1, <1>0, RemoveInOrder
  <2>3. KeepsOrder(pt, pt')
    BY <2>1, <1>0, RemoveKeepsOrder
  <2>4. Users(pt') = {f \in Users(pt) : pt.pid[f] # pid}
    BY <2>2, PidFacts DEF Users
  <2>5. \A f \in Users(pt') : f \in Users(pt) /\ pt'.pid[f] = pt.pid[f] /\ pt'.vaddr[f] = pt.vaddr[f]
    BY <2>2, <2>3, <2>4 DEF Users, KeepsOrder
  <2>6. Kept(QueueOf(pt), QueueOf(pt'), rest)
    BY <2>3, <2>5, <1>0, KeepsQueue
  <2>7. rest = {page \in FQ!Resident : page[1] # pid}
    <3>1. FQ!Resident = {<<pt.pid[g], pt.vaddr[g]>> : g \in Users(pt)}
      BY <1>0, QueueNow, QueuePages
    <3> QED
      BY <2>4, <2>5, <3>1
  <2> HIDE DEF rest
  <2>8. FQ!ReleaseAll(pid)
    BY <2>6, <2>7, KeptIsKeep DEF FQ!ReleaseAll
  <2> QED
    BY <2>8 DEF FQ!Next
<1>4. ASSUME NEW n \in 1 .. MaxBlock, getfreeppages(n) PROVE FQ!Next \/ Queue' = Queue
  <2>0. n \in Nat /\ n > 0
    BY MaxBlockAssumption
  <2> DEFINE ind == getfreeframes(pt, n)
  <2>1. CASE ind # -1 /\ pt' = setptentry(pt, ind, n, KERNEL, KVADDR(ind))
    <3>1. Fit(pt, ind, n)
      BY <2>0, <2>1, <1>0, FreeFramesFit
    <3> HIDE DEF ind
    <3>2. KVADDR(ind) \in Nat /\ ind \notin Users(pt)
      BY <3>1, KernelPages, PidFacts DEF Fit, Users
    <3>3. FifoStays(pt, pt')
      BY <2>1, <3>1, <3>2, <1>0, SetFifo
    <3>4. \A f \in Frames : /\ pt'.pid[f] = IF f = ind THEN KERNEL ELSE pt.pid[f]
                            /\ pt'.vaddr[f] = IF f = ind THEN KVADDR(ind) ELSE pt.vaddr[f]
      BY <2>1, <3>1, <3>2, <1>0, SetFields
    <3>5. \A f \in Users(pt) : pt'.pid[f] = pt.pid[f] /\ pt'.vaddr[f] = pt.vaddr[f]
      BY <3>2, <3>4 DEF Users
    <3> QED
      BY <3>3, <3>5, <1>0, SameQueue, QueueNow
  <2>2. CASE UNCHANGED pt
    BY <2>2, <1>s
  <2>3. CASE Victim(pt) # NULL /\ pt' = evictvictim(pt)
    <3>1. QueueOf(pt) # <<>> /\ QueueOf(pt') = Tail(QueueOf(pt))
      BY <2>3, <1>0, EvictTakesFirst
    <3>2. FQ!Evict
      BY <3>1, QueueNow DEF FQ!Evict
    <3> QED
      BY <3>2 DEF FQ!Next
  <2> QED
    BY <1>4, <2>1, <2>2, <2>3 DEF getfreeppages
<1>5. ASSUME NEW i \in KernelEnd .. PtSize - 1, free_kpages(i) PROVE Queue' = Queue
  <2>1. i \in Frames
    BY SizesAssumption DEF Frames
  <2>2. pt.pid[i] = KERNEL /\ pt' = freekernel(pt, i)
    BY <1>5 DEF free_kpages
  <2>3. FifoStays(pt, pt')
    BY <2>1, <2>2, <1>0, FreeKernelInOrder
  <2>4. \A f \in Frames : f # i => pt'.pid[f] = pt.pid[f] /\ pt'.vaddr[f] = pt.vaddr[f]
    BY <2>1, <2>2, <1>0, TableFields DEF freekernel, InOrder, Tables
  <2>5. i \notin Users(pt)
    BY <2>2, PidFacts DEF Users
  <2>6. \A f \in Users(pt) : pt'.pid[f] = pt.pid[f] /\ pt'.vaddr[f] = pt.vaddr[f]
    BY <2>4, <2>5 DEF Users
  <2> QED
    BY <2>3, <2>6, <1>0, SameQueue, QueueNow
<1>6. CASE Stopped
  BY <1>6, <1>s DEF Stopped, vars
<1>7. CASE UNCHANGED vars
  BY <1>7, <1>s DEF vars
<1> QED
  BY <1>1, <1>2, <1>3, <1>4, <1>5, <1>6, <1>7 DEF Next

\* At boot no user page is resident.
LEMMA InitQueue == Init => FQ!Init
<1> SUFFICES ASSUME Init PROVE Queue = <<>>
  BY DEF FQ!Init
<1>1. pt = ptinit /\ InOrder(pt)
  BY InitInOrder DEF Init
<1>2. Users(pt) = {}
  BY <1>1, PidFacts DEF Users, ptinit
<1>3. PagesOf(QueueOf(pt)) = {}
  BY <1>1, <1>2, QueuePages
<1>4. PICK s, n : IsFifo(pt, s, n)
  BY <1>1 DEF InOrder, FifoInOrder
<1>5. IsQueue(QueueOf(pt), pt, s, n)
  BY <1>1, <1>4, QueueIs
<1>6. QueueOf(pt) \in Seq(UserPids \X Nat)
  BY <1>5 DEF IsQueue
<1> DEFINE q == QueueOf(pt)
<1> HIDE DEF q
<1>7. q \in Seq(UserPids \X Nat) /\ \A i \in 1 .. Len(q) : FALSE
  BY <1>3, <1>6 DEF PagesOf, q
<1>8. Len(q) = 0
  <2>1. Len(q) \in Nat
    BY <1>7
  <2>2. Len(q) # 0 => 1 \in 1 .. Len(q)
    BY <2>1
  <2> QED
    BY <2>2, <1>7
<1>9. q = <<>>
  BY <1>7, <1>8
<1> QED
  BY <1>9, QueueNow DEF q

(***************************************************************************)
(* The singly linked list of pt.c, with its firstvictim and                *)
(* lastallocateduser pointers, implements first-in first-out replacement:  *)
(* allocuserpage and getfreeppages evict the page resident for longest,    *)
(* and no free or process removal changes the order of the other pages.    *)
(***************************************************************************)
THEOREM ImplementsFifo == Spec => ImplementsFifoQueue
<1>1. Spec => []IInv
  BY Invariance
<1> QED
  BY <1>1, InitQueue, NextQueue, PTL DEF Spec, ImplementsFifoQueue, FQ!Spec

=============================================================================

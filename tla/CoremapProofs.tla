--------------------------- MODULE CoremapProofs ---------------------------
(***************************************************************************)
(* The invariants of Coremap, for every size of memory and hash table.     *)
(***************************************************************************)
EXTENDS Coremap, PageTableProofs

\* ScanIndex unfolds: it is the outer loop of getfreeframes.
LEMMA ScanDef ==
  ASSUME NEW t \in Tables
  PROVE  /\ ScanIndex(t) \in [Nat -> Nat]
         /\ ScanIndex(t)[0] = 0
         /\ \A k \in Nat : ScanIndex(t)[k+1] = NextIndex(t)[ScanIndex(t)[k]]
<1> DEFINE N == NextIndex(t)
           g == [a \in Nat \X Nat |-> N[a[1]]]
           step(f) == [k \in Nat |-> IF k = 0 THEN 0 ELSE N[f[k-1]]]
           w == ScanIndex(t)
<1>1. N \in [Nat -> Nat]
  <2>1. \A i \in Frames : t.numpages[i] \in Nat
    BY TableFields
  <2> QED
    BY <2>1 DEF NextIndex
<1>w. w = CHOOSE h : h = step(h)
  BY DEF ScanIndex
<1> HIDE DEF N
<1>2. g \in [Nat \X Nat -> Nat]
  BY <1>1
<1>3. PICK f \in [Nat -> Nat] : Iterates(f, g, 0)
  <2> HIDE DEF g
  <2> QED
    BY <1>2, Iteration
<1>4. f[0] = 0 /\ \A k \in Nat : f[k+1] = N[f[k]]
  BY <1>3 DEF Iterates
<1>5. f = step(f)
  <2>1. ASSUME NEW k \in Nat PROVE f[k] = IF k = 0 THEN 0 ELSE N[f[k-1]]
    <3>1. CASE k = 0
      BY <3>1, <1>4
    <3>2. CASE k # 0
      <4>1. k - 1 \in Nat /\ (k - 1) + 1 = k
        BY <3>2
      <4> QED
        BY <4>1, <1>4, <3>2
    <3> QED
      BY <3>1, <3>2
  <2> QED
    BY <2>1, <1>3
<1>7. w = step(w)
  <2> HIDE DEF w, step
  <2> QED
    BY <1>5, <1>w
<1>8. w = [k \in Nat |-> IF k = 0 THEN 0 ELSE N[w[k-1]]]
  BY <1>7
<1> HIDE DEF w
<1>9. w[0] = 0 /\ \A k \in Nat : w[k+1] = N[w[k]]
  BY <1>8
<1>10. w \in [Nat -> Nat]
  <2> DEFINE T == {k \in Nat : w[k] \in Nat}
  <2>1. 0 \in T
    BY <1>9
  <2>2. \A k \in T : k + 1 \in T
    BY <1>1, <1>9
  <2>3. T = Nat
    <3>1. T \in SUBSET Nat
      OBVIOUS
    <3> HIDE DEF T
    <3> QED
      BY <2>1, <2>2, <3>1, NatIsInductive
  <2> QED
    BY <1>8, <2>3
<1> QED
  BY <1>9, <1>10 DEF w, N

\* No block of an allocated frame reaches over an index of the outer loop.
LEMMA ScanSkipsBlocks ==
  ASSUME NEW t, InOrder(t)
  PROVE  \A k \in Nat : \A h \in Frames :
            t.pid[h] # FREE /\ h < ScanIndex(t)[k] =>
               h + t.numpages[h] <= ScanIndex(t)[k]
<1> DEFINE w == ScanIndex(t)
           T == {k \in Nat : \A h \in Frames :
                   t.pid[h] # FREE /\ h < w[k] => h + t.numpages[h] <= w[k]}
<1>0. t \in Tables /\ \A h \in Frames : h \in Nat /\ t.numpages[h] \in Nat
  BY TableFields, FrameFacts DEF InOrder
<1>1. /\ w \in [Nat -> Nat]
      /\ w[0] = 0
      /\ \A k \in Nat : w[k+1] = NextIndex(t)[w[k]]
  BY <1>0, ScanDef
<1> HIDE DEF w
<1>2. 0 \in T
  BY <1>0, <1>1
<1>3. ASSUME NEW k \in T PROVE k + 1 \in T
  <2>1. k \in Nat /\ w[k] \in Nat
    BY <1>1
  <2>2. w[k+1] = IF w[k] \in Frames /\ t.pid[w[k]] # FREE /\ t.numpages[w[k]] > 0
                 THEN w[k] + t.numpages[w[k]] ELSE w[k] + 1
    BY <2>1, <1>1 DEF NextIndex
  <2>3. \A h \in Frames : t.pid[h] # FREE /\ h < w[k] => h + t.numpages[h] <= w[k]
    OBVIOUS
  <2>4. SUFFICES ASSUME NEW h \in Frames, t.pid[h] # FREE, h < w[k+1]
                 PROVE  h + t.numpages[h] <= w[k+1]
    BY <2>1
  <2>5. BlocksApart(t)
    BY DEF InOrder
  <2>6. CASE w[k] \in Frames /\ t.pid[w[k]] # FREE
    <3>1. t.numpages[w[k]] > 0 /\ t.numpages[w[k]] \in Nat
      BY <2>5, <2>6, <1>0 DEF BlocksApart
    <3>2. w[k+1] = w[k] + t.numpages[w[k]]
      BY <2>2, <2>6, <3>1
    <3>3. CASE h < w[k]
      BY <3>3, <3>1, <3>2, <2>1, <2>3, <2>4, <1>0
    <3>4. CASE h = w[k]
      BY <3>4, <3>2, <2>1, <1>0
    <3>5. CASE w[k] < h
      <4>1. w[k] + t.numpages[w[k]] <= h
        BY <3>5, <2>4, <2>5, <2>6 DEF BlocksApart
      <4> QED
        BY <4>1, <3>1, <3>2, <2>1, <2>4, <1>0
    <3> QED
      BY <3>3, <3>4, <3>5, <2>1, <1>0
  <2>7. CASE ~(w[k] \in Frames /\ t.pid[w[k]] # FREE)
    <3>1. w[k+1] = w[k] + 1 /\ h # w[k]
      BY <2>2, <2>4, <2>7
    <3>2. h < w[k]
      BY <3>1, <2>1, <2>4, <1>0
    <3>3. h + t.numpages[h] <= w[k]
      BY <3>2, <2>3, <2>4
    <3> QED
      BY <3>1, <3>3, <2>1, <1>0
  <2> QED
    BY <2>6, <2>7
<1>4. T = Nat
  <2>1. T \in SUBSET Nat
    OBVIOUS
  <2> HIDE DEF T
  <2> QED
    BY <1>2, <1>3, <2>1, NatIsInductive
<1> QED
  BY <1>4 DEF w

\* What getfreeframes returns can become a block.
LEMMA FreeFramesFit ==
  ASSUME NEW t, InOrder(t), NEW n \in Nat, n > 0,
         NEW i, i = getfreeframes(t, n), i # -1
  PROVE  Fit(t, i, n)
<1> DEFINE w == ScanIndex(t)
<1>0. t \in Tables /\ w \in [Nat -> Nat] /\ PtSize \in Nat
  BY ScanDef, SizesAssumption DEF InOrder
<1>1. Fits(t, n) # {} /\ i = w[Min(Fits(t, n))]
  BY DEF getfreeframes
<1>2. Fits(t, n) \in SUBSET Nat
  BY <1>0 DEF Fits
<1>3. PICK x \in Fits(t, n) : \A y \in Fits(t, n) : x <= y
  BY <1>1, <1>2, LeastNat
<1>4. Min(Fits(t, n)) \in Fits(t, n)
  BY <1>3 DEF Min
<1>5. PICK k \in Fits(t, n) : i = w[k]
  BY <1>1, <1>4
<1>6. k \in Nat /\ i < PtSize /\ FreeRun(t, i, n)
  BY <1>5, <1>2 DEF Fits
<1>7. i \in Nat
  BY <1>0, <1>5, <1>6
<1>8. i \in Frames /\ i + n <= PtSize /\ \A j \in i .. i + n - 1 : t.pid[j] = FREE
  BY <1>0, <1>6, <1>7 DEF FreeRun, Frames
<1>9. t.pid[i] = FREE
  <2>1. i \in i .. i + n - 1
    BY <1>7
  <2> QED
    BY <2>1, <1>8
<1>10. ASSUME NEW h \in Frames, t.pid[h] # FREE
       PROVE  (h < i => h + t.numpages[h] <= i) /\ (i < h => i + n <= h)
  <2>1. h < i => h + t.numpages[h] <= i
    BY <1>5, <1>6, <1>10, ScanSkipsBlocks
  <2>2. h \in Nat
    BY FrameFacts
  <2>3. ASSUME i < h PROVE i + n <= h
    <3>1. ~(h \in i .. i + n - 1)
      BY <1>8, <1>10
    <3> QED
      BY <3>1, <2>2, <2>3, <1>7
  <2> QED
    BY <2>1, <2>3
<1> QED
  BY <1>8, <1>9, <1>10 DEF Fit

\* The tables removeptentries goes through.
Sound == {t \in Tables : InOrder(t)}

\* One iteration of removeptentries frees the frame it looks at if it belongs to
\* the process, and no other.
LEMMA RemoveFrameInOrder ==
  ASSUME NEW t \in Sound, NEW i \in Frames, NEW pid \in UserPids
  PROVE  /\ RemoveFrame(t, i, pid) \in Sound
         /\ \A f \in Frames : RemoveFrame(t, i, pid).pid[f] =
               IF f = i /\ t.pid[i] = pid THEN FREE ELSE t.pid[f]
<1>0. InOrder(t) /\ t \in Tables /\ t.pid \in [Frames -> UserPids \cup {FREE, KERNEL}]
  BY TableFields DEF Sound
<1>1. CASE t.pid[i] = pid
  <2> DEFINE t2 == freeuser(t, pid, t.vaddr[i])
  <2>1. i \in Users(t) /\ Holds(t, i, pid, t.vaddr[i])
    BY <1>1 DEF Users, Holds
  <2>2. InOrder(t2) /\ \A f \in Frames : t2.pid[f] = IF f = i THEN FREE ELSE t.pid[f]
    BY <1>0, <2>1, FreeInOrder
  <2>3. RemoveFrame(t, i, pid) = t2
    BY <1>1 DEF RemoveFrame
  <2> HIDE DEF t2
  <2>4. t2 \in Sound
    BY <2>2 DEF Sound, InOrder
  <2> QED
    BY <2>2, <2>3, <2>4, <1>1
<1>2. CASE t.pid[i] # pid
  BY <1>2 DEF RemoveFrame
<1> QED
  BY <1>1, <1>2

\* AfterRemoving unfolds: it is the loop of removeptentries.
LEMMA RemovingDef ==
  ASSUME NEW t \in Sound, NEW pid \in UserPids
  PROVE  LET after == AfterRemoving(t, pid)
         IN  /\ after[0] = t
             /\ \A i \in Frames : after[i+1] = RemoveFrame(after[i], i, pid)
<1> DEFINE g == [a \in Sound \X Nat |->
                   IF a[2] \in Frames THEN RemoveFrame(a[1], a[2], pid) ELSE a[1]]
           step(f) == [i \in 0 .. PtSize |-> IF i = 0 THEN t ELSE RemoveFrame(f[i-1], i-1, pid)]
           after == AfterRemoving(t, pid)
<1>w. after = CHOOSE h : h = step(h)
  BY DEF AfterRemoving
<1>0. PtSize \in Nat
  BY SizesAssumption
<1>1. g \in [Sound \X Nat -> Sound]
  BY RemoveFrameInOrder
<1>2. \A a \in Sound, i \in Frames : g[<<a, i>>] = RemoveFrame(a, i, pid)
  BY FrameFacts
<1>3. PICK f \in [Nat -> Sound] : Iterates(f, g, t)
  <2> HIDE DEF g
  <2> QED
    BY <1>1, Iteration
<1> DEFINE e == [i \in 0 .. PtSize |-> f[i]]
<1>4. e = step(e)
  <2>1. ASSUME NEW i \in 0 .. PtSize
        PROVE  e[i] = IF i = 0 THEN t ELSE RemoveFrame(e[i-1], i-1, pid)
    <3>1. CASE i = 0
      BY <3>1, <1>3 DEF Iterates
    <3>2. CASE i # 0
      <4>1. /\ i - 1 \in Nat /\ (i - 1) + 1 = i /\ i - 1 \in Frames
            /\ i - 1 \in 0 .. PtSize
        BY <3>2, <1>0 DEF Frames
      <4>2. f[i] = g[<<f[i-1], i-1>>]
        BY <4>1, <1>3 DEF Iterates
      <4>3. f[i-1] \in Sound
        BY <4>1
      <4>4. f[i] = RemoveFrame(f[i-1], i-1, pid)
        <5> HIDE DEF g
        <5> QED
          BY <4>1, <4>2, <4>3, <1>2
      <4> QED
        BY <3>2, <4>1, <4>4
    <3> QED
      BY <3>1, <3>2
  <2> QED
    BY <2>1
<1>5. after = step(after)
  <2> HIDE DEF after, step, e
  <2> QED
    BY <1>4, <1>w
<1>6. after = [i \in 0 .. PtSize |-> IF i = 0 THEN t ELSE RemoveFrame(after[i-1], i-1, pid)]
  BY <1>5
<1> HIDE DEF after
<1>7. after[0] = t
  BY <1>0, <1>6
<1>8. ASSUME NEW i \in Frames PROVE after[i+1] = RemoveFrame(after[i], i, pid)
  <2>1. i + 1 \in 0 .. PtSize /\ i + 1 # 0 /\ (i + 1) - 1 = i
    BY <1>0 DEF Frames
  <2> QED
    BY <2>1, <1>6
<1> QED
  BY <1>7, <1>8 DEF after

(***************************************************************************)
(* removeptentries leaves the table in order and frees exactly the frames  *)
(* of the process.                                                         *)
(***************************************************************************)
LEMMA RemoveInOrder ==
  ASSUME NEW t, InOrder(t), NEW pid \in UserPids
  PROVE  /\ InOrder(removeptentries(t, pid))
         /\ \A f \in Frames : removeptentries(t, pid).pid[f] =
               IF t.pid[f] = pid THEN FREE ELSE t.pid[f]
<1> DEFINE after == AfterRemoving(t, pid)
           T == {i \in Nat : i <= PtSize =>
                   /\ after[i] \in Sound
                   /\ \A f \in Frames : after[i].pid[f] =
                         IF f < i /\ t.pid[f] = pid THEN FREE ELSE t.pid[f]}
<1>0. t \in Sound /\ PtSize \in Nat
  BY SizesAssumption DEF Sound, InOrder
<1>1. /\ after[0] = t
      /\ \A i \in Frames : after[i+1] = RemoveFrame(after[i], i, pid)
  BY <1>0, RemovingDef
<1>r. removeptentries(t, pid) = after[PtSize]
  BY DEF removeptentries
<1> HIDE DEF after
<1>2. 0 \in T
  BY <1>0, <1>1, FrameFacts
<1>3. ASSUME NEW i \in T PROVE i + 1 \in T
  <2>1. SUFFICES ASSUME i + 1 <= PtSize
                 PROVE  /\ after[i+1] \in Sound
                        /\ \A f \in Frames : after[i+1].pid[f] =
                              IF f < i + 1 /\ t.pid[f] = pid THEN FREE ELSE t.pid[f]
    OBVIOUS
  <2>2. i \in Nat /\ i \in Frames /\ i <= PtSize
    BY <2>1, <1>0 DEF Frames
  <2>3. /\ after[i] \in Sound
        /\ \A f \in Frames : after[i].pid[f] =
              IF f < i /\ t.pid[f] = pid THEN FREE ELSE t.pid[f]
    BY <2>2
  <2>4. after[i+1] = RemoveFrame(after[i], i, pid)
    BY <2>2, <1>1
  <2>5. /\ after[i+1] \in Sound
        /\ \A f \in Frames : after[i+1].pid[f] =
              IF f = i /\ after[i].pid[i] = pid THEN FREE ELSE after[i].pid[f]
    BY <2>2, <2>3, <2>4, RemoveFrameInOrder
  <2>6. ASSUME NEW f \in Frames
        PROVE  after[i+1].pid[f] = IF f < i + 1 /\ t.pid[f] = pid THEN FREE ELSE t.pid[f]
    <3>1. f \in Nat
      BY FrameFacts
    <3> QED
      BY <3>1, <2>2, <2>3, <2>5
  <2> QED
    BY <2>5, <2>6
<1>4. T = Nat
  <2>1. T \in SUBSET Nat
    OBVIOUS
  <2> HIDE DEF T
  <2> QED
    BY <1>2, <1>3, <2>1, NatIsInductive
<1>5. /\ after[PtSize] \in Sound
      /\ \A f \in Frames : after[PtSize].pid[f] =
            IF f < PtSize /\ t.pid[f] = pid THEN FREE ELSE t.pid[f]
  BY <1>0, <1>4
<1> QED
  BY <1>5, <1>r, FrameFacts DEF Sound

-----------------------------------------------------------------------------
\* The inductive invariant: the table is in order and the kernel's own frames
\* stay the kernel's.
IInv ==
  /\ InOrder(pt)
  /\ \A f \in 0 .. KernelEnd - 1 : pt.pid[f] = KERNEL
  /\ panic \in {"no", "no space left on memory", "spinlock_release of a lock not held"}

\* Frame 0 is never a user's, so that getpageaddr can use 0 for "not resident".
LEMMA ZeroIsKernel ==
  ASSUME IInv
  PROVE  0 \in Frames /\ 0 \notin Users(pt)
<1>1. 0 \in 0 .. KernelEnd - 1 /\ 0 \in Frames
  BY SizesAssumption DEF Frames
<1>2. pt.pid[0] = KERNEL
  BY <1>1 DEF IInv
<1> QED
  BY <1>1, <1>2, PidFacts DEF Users

\* getpageaddr returns 0 exactly for the pages that no frame holds.
LEMMA PageAddr ==
  ASSUME IInv, NEW pid \in UserPids, NEW vaddr \in Nat
  PROVE  \/ /\ getpageaddr(pt, pid, vaddr) = 0
            /\ \A f \in Frames : ~Holds(pt, f, pid, vaddr)
         \/ /\ getpageaddr(pt, pid, vaddr) # 0
            /\ {f \in Frames : Holds(pt, f, pid, vaddr)} = {getpageaddr(pt, pid, vaddr)}
<1>0. InOrder(pt)
  BY DEF IInv
<1>1. CASE \A f \in Frames : ~Holds(pt, f, pid, vaddr)
  <2>1. Lookup(pt, pid, vaddr) = NULL
    BY <1>0, <1>1, LookupAbsent
  <2> QED
    BY <1>1, <2>1 DEF getpageaddr
<1>2. CASE \E f \in Frames : Holds(pt, f, pid, vaddr)
  <2>1. PICK f \in Users(pt) : Holds(pt, f, pid, vaddr)
    BY <1>2 DEF Holds, Users
  <2>2. Lookup(pt, pid, vaddr) = f
    BY <1>0, <2>1, LookupResident
  <2>3. f # NULL /\ f # 0
    BY ZeroIsKernel, FrameFacts DEF Users
  <2>4. getpageaddr(pt, pid, vaddr) = f
    BY <2>2, <2>3 DEF getpageaddr
  <2>5. \A g \in Frames : Holds(pt, g, pid, vaddr) => g = f
    BY <1>0, <2>1 DEF InOrder, PagesUnique, Holds, Users
  <2> QED
    BY <2>1, <2>3, <2>4, <2>5 DEF Users
<1> QED
  BY <1>1, <1>2

\* The victim is the frame of a resident user page.
LEMMA VictimIsUser ==
  ASSUME NEW t, InOrder(t), Victim(t) # NULL
  PROVE  Victim(t) \in Users(t)
<1>1. PICK s, n : IsFifo(t, s, n)
  BY DEF InOrder, FifoInOrder
<1>2. IsList(t.fifonext, t.firstvictim, s, n) /\ Elems(s, n) = Users(t)
  BY <1>1 DEF IsFifo
<1>3. n \in Nat /\ n # 0
  BY <1>2, ListHead DEF Victim
<1>4. 0 \in 0 .. n - 1 /\ t.firstvictim = s[0]
  BY <1>2, <1>3 DEF IsList
<1> QED
  BY <1>2, <1>4, ListHead DEF Victim

\* Evicting the victim frees its frame, which can then become a block of one.
LEMMA EvictInOrder ==
  ASSUME NEW t, InOrder(t), Victim(t) # NULL,
         NEW t2, t2 = evictvictim(t)
  PROVE  /\ InOrder(t2)
         /\ Fit(t2, Victim(t), 1)
         /\ \A f \in Frames : /\ t2.pid[f] = IF f = Victim(t) THEN FREE ELSE t.pid[f]
                              /\ t2.vaddr[f] = t.vaddr[f]
<1> DEFINE v == Victim(t)
<1>1. v \in Users(t)
  BY VictimIsUser
<1>2. Holds(t, v, t.pid[v], t.vaddr[v])
  BY DEF Holds
<1>3. t2 = freeuser(t, t.pid[v], t.vaddr[v])
  BY DEF evictvictim
<1> HIDE DEF v
<1>4. /\ InOrder(t2)
      /\ \A f \in Frames : /\ t2.pid[f] = IF f = v THEN FREE ELSE t.pid[f]
                           /\ t2.vaddr[f] = t.vaddr[f]
                           /\ t2.numpages[f] = IF f = v THEN 0 ELSE t.numpages[f]
  BY <1>1, <1>2, <1>3, FreeInOrder
<1>5. v \in Frames /\ t.pid[v] # FREE /\ v \in Nat /\ v + 1 <= PtSize
  BY <1>1, PidFacts, FrameFacts, SizesAssumption DEF Users
<1>6. ASSUME NEW h \in Frames, t2.pid[h] # FREE
      PROVE  (h < v => h + t2.numpages[h] <= v) /\ (v < h => v + 1 <= h)
  <2>1. h # v /\ t.pid[h] # FREE /\ t2.numpages[h] = t.numpages[h] /\ h \in Nat
    BY <1>4, <1>6, FrameFacts
  <2>2. BlocksApart(t)
    BY DEF InOrder
  <2> QED
    BY <2>1, <2>2, <1>5 DEF BlocksApart
<1>7. Fit(t2, v, 1)
  BY <1>4, <1>5, <1>6 DEF Fit
<1> QED
  BY <1>4, <1>7 DEF v

\* PADDR_TO_KVADDR of a frame is an address.
LEMMA KernelPages ==
  ASSUME NEW i \in Frames
  PROVE  KVADDR(i) \in Nat
BY FrameFacts, SizesAssumption DEF KVADDR

\* ptinit establishes the inductive invariant.
LEMMA InitIInv == Init => IInv
<1>1. \A f \in 0 .. KernelEnd - 1 : ptinit.pid[f] = KERNEL
  BY SizesAssumption DEF ptinit, Frames
<1> QED
  BY <1>1, InitInOrder DEF Init, IInv

\* A frame that can become a block is not one of the kernel's own.
LEMMA FitAboveKernel ==
  ASSUME IInv, NEW i, NEW n, Fit(pt, i, n)
  PROVE  i \in Frames /\ i \notin 0 .. KernelEnd - 1
<1>1. i \in Frames /\ pt.pid[i] = FREE
  BY DEF Fit
<1>2. \A f \in 0 .. KernelEnd - 1 : pt.pid[f] = KERNEL
  BY DEF IInv
<1>3. FREE # KERNEL
  BY DEF FREE, KERNEL
<1> QED
  BY <1>1, <1>2, <1>3

\* Every step preserves the inductive invariant.
LEMMA NextIInv == IInv /\ [Next]_vars => IInv'
<1> SUFFICES ASSUME IInv, [Next]_vars PROVE IInv'
  OBVIOUS
<1>0. /\ InOrder(pt)
      /\ \A f \in 0 .. KernelEnd - 1 : pt.pid[f] = KERNEL /\ f \in Frames
      /\ Vaddrs \subseteq Nat
  <2>1. \A f \in 0 .. KernelEnd - 1 : f \in Frames
    BY SizesAssumption DEF Frames
  <2>2. Vaddrs \subseteq Nat
    BY SizesAssumption, PidsAssumption
  <2> QED
    BY <2>1, <2>2 DEF IInv
<1>u. \A f \in 0 .. KernelEnd - 1 : f \notin Users(pt) /\ f \in Frames
  BY <1>0, PidFacts DEF Users
<1>1. ASSUME NEW pid \in UserPids, NEW vaddr \in Vaddrs, allocuserpage(pid, vaddr)
      PROVE  IInv'
  <2>1. vaddr \in Nat /\ getpageaddr(pt, pid, vaddr) = 0 /\ panic' = panic
    BY <1>0, <1>1 DEF allocuserpage
  <2>2. \A f \in Frames : ~Holds(pt, f, pid, vaddr)
    BY <2>1, PageAddr
  <2> DEFINE ind == getfreeframes(pt, 1)
  <2>3. CASE ind # -1 /\ pt' = setptentry(pt, ind, 1, pid, vaddr)
    <3>1. Fit(pt, ind, 1)
      BY <2>3, <1>0, FreeFramesFit
    <3> HIDE DEF ind
    <3>2. InOrder(pt')
      BY <2>1, <2>2, <2>3, <3>1, <1>0, SetInOrder
    <3>3. \A f \in Frames : pt'.pid[f] = IF f = ind THEN pid ELSE pt.pid[f]
      BY <2>1, <2>3, <3>1, <1>0, SetFields
    <3>4. ind \notin 0 .. KernelEnd - 1
      BY <3>1, FitAboveKernel
    <3> QED
      BY <2>1, <3>2, <3>3, <3>4, <1>0 DEF IInv
  <2>4. CASE Victim(pt) # NULL /\ pt' = setptentry(evictvictim(pt), Victim(pt), 1, pid, vaddr)
    <3> DEFINE t2 == evictvictim(pt)
               v == Victim(pt)
    <3>1. /\ InOrder(t2)
          /\ Fit(t2, v, 1)
          /\ \A f \in Frames : /\ t2.pid[f] = IF f = v THEN FREE ELSE pt.pid[f]
                               /\ t2.vaddr[f] = pt.vaddr[f]
      BY <2>4, <1>0, EvictInOrder
    <3>2. v \in Users(pt) /\ pt' = setptentry(t2, v, 1, pid, vaddr)
      BY <2>4, <1>0, VictimIsUser
    <3> HIDE DEF t2, v
    <3>3. \A f \in Frames : ~Holds(t2, f, pid, vaddr)
      BY <3>1, <2>2, PidFacts DEF Holds
    <3>4. InOrder(pt')
      BY <2>1, <3>1, <3>2, <3>3, SetInOrder
    <3>5. \A f \in Frames : pt'.pid[f] = IF f = v THEN pid ELSE t2.pid[f]
      BY <2>1, <3>1, <3>2, SetFields
    <3>6. \A f \in 0 .. KernelEnd - 1 : pt'.pid[f] = KERNEL
      BY <3>1, <3>2, <3>5, <1>0, <1>u
    <3> QED
      BY <2>1, <3>4, <3>6 DEF IInv
  <2>5. CASE UNCHANGED pt
    BY <2>1, <2>5 DEF IInv
  <2> QED
    BY <1>1, <2>3, <2>4, <2>5 DEF allocuserpage
<1>2. ASSUME NEW pid \in UserPids, NEW vaddr \in Vaddrs, freeuserpage(pid, vaddr)
      PROVE  IInv'
  <2>1. vaddr \in Nat /\ panic' = panic /\ pt' = freeuser(pt, pid, vaddr)
    BY <1>0, <1>2 DEF freeuserpage
  <2>2. CASE \A f \in Frames : ~Holds(pt, f, pid, vaddr)
    <3>1. pt' = pt
      BY <2>1, <2>2, <1>0, FreeAbsent
    <3> QED
      BY <2>1, <3>1 DEF IInv
  <2>3. CASE \E f \in Frames : Holds(pt, f, pid, vaddr)
    <3>1. PICK f \in Users(pt) : Holds(pt, f, pid, vaddr)
      BY <2>3 DEF Holds, Users
    <3>2. InOrder(pt') /\ \A g \in Frames : pt'.pid[g] = IF g = f THEN FREE ELSE pt.pid[g]
      BY <2>1, <3>1, <1>0, FreeInOrder
    <3> QED
      BY <2>1, <3>1, <3>2, <1>0, <1>u DEF IInv
  <2> QED
    BY <2>2, <2>3
<1>3. ASSUME NEW pid \in UserPids, RemoveProcess(pid) PROVE IInv'
  <2>1. panic' = panic /\ pt' = removeptentries(pt, pid)
    BY <1>3 DEF RemoveProcess
  <2>2. /\ InOrder(pt')
        /\ \A f \in Frames : pt'.pid[f] = IF pt.pid[f] = pid THEN FREE ELSE pt.pid[f]
    BY <2>1, <1>0, RemoveInOrder
  <2> QED
    BY <2>1, <2>2, <1>0, PidFacts DEF IInv
<1>4. ASSUME NEW n \in 1 .. MaxBlock, getfreeppages(n) PROVE IInv'
  <2>0. n \in Nat /\ n > 0
    BY MaxBlockAssumption
  <2> DEFINE ind == getfreeframes(pt, n)
  <2>1. CASE ind # -1 /\ pt' = setptentry(pt, ind, n, KERNEL, KVADDR(ind)) /\ UNCHANGED panic
    <3>1. Fit(pt, ind, n)
      BY <2>0, <2>1, <1>0, FreeFramesFit
    <3> HIDE DEF ind
    <3>2. ind \in Frames /\ ind \notin 0 .. KernelEnd - 1
      BY <3>1, FitAboveKernel
    <3>3. KVADDR(ind) \in Nat /\ KERNEL \notin UserPids
      BY <3>2, KernelPages, PidFacts
    <3>4. InOrder(pt')
      BY <2>1, <3>1, <3>3, <1>0, SetInOrder
    <3>5. \A f \in Frames : pt'.pid[f] = IF f = ind THEN KERNEL ELSE pt.pid[f]
      BY <2>1, <3>1, <3>3, <1>0, SetFields
    <3> QED
      BY <2>1, <3>4, <3>5, <1>0 DEF IInv
  <2>2. CASE UNCHANGED pt /\ panic' = "no space left on memory"
    BY <2>2 DEF IInv
  <2>3. CASE /\ Victim(pt) # NULL /\ pt' = evictvictim(pt)
             /\ panic' = "spinlock_release of a lock not held"
    <3>1. Victim(pt) \in Users(pt)
      BY <2>3, <1>0, VictimIsUser
    <3>2. /\ InOrder(pt')
          /\ \A f \in Frames : pt'.pid[f] = IF f = Victim(pt) THEN FREE ELSE pt.pid[f]
      BY <2>3, <1>0, EvictInOrder
    <3> QED
      BY <2>3, <3>1, <3>2, <1>0, <1>u DEF IInv
  <2> QED
    BY <1>4, <2>1, <2>2, <2>3 DEF getfreeppages
<1>5. ASSUME NEW i \in KernelEnd .. PtSize - 1, free_kpages(i) PROVE IInv'
  <2>1. i \in Frames /\ i \notin 0 .. KernelEnd - 1
    BY SizesAssumption DEF Frames
  <2>2. pt.pid[i] = KERNEL /\ pt' = freekernel(pt, i) /\ panic' = panic
    BY <1>5 DEF free_kpages
  <2>3. InOrder(pt')
    BY <2>1, <2>2, <1>0, FreeKernelInOrder
  <2>4. \A f \in Frames : f # i => pt'.pid[f] = pt.pid[f]
    BY <2>1, <2>2, <1>0, TableFields DEF freekernel, InOrder, Tables
  <2> QED
    BY <2>1, <2>2, <2>3, <2>4, <1>0 DEF IInv
<1>6. CASE Stopped
  BY <1>6 DEF Stopped, vars, IInv
<1>7. CASE UNCHANGED vars
  BY <1>7 DEF vars, IInv
<1> QED
  BY <1>1, <1>2, <1>3, <1>4, <1>5, <1>6, <1>7 DEF Next

\* The inductive invariant holds in every state of coremap.c, between two of its operations.
THEOREM Invariance == Spec => []IInv
<1> QED
  BY InitIInv, NextIInv, PTL DEF Spec

\* The elements of a list are as many as its positions.
LEMMA ListCardinality ==
  ASSUME NEW nxt, NEW head, NEW s, NEW n, IsList(nxt, head, s, n)
  PROVE  Cardinality(0 .. n - 1) = n /\ Cardinality(Elems(s, n)) = n
<1>1. n \in Nat /\ s \in [0 .. n - 1 -> Frames]
  BY DEF IsList
<1>2. IsFiniteSet(0 .. n - 1) /\ Cardinality(0 .. n - 1) = n
  <2>1. n - 1 \in Int /\ 0 \in Int
    BY <1>1
  <2>2. IsFiniteSet(0 .. n - 1) /\ Cardinality(0 .. n - 1) = IF 0 > n - 1 THEN 0 ELSE (n - 1) - 0 + 1
    BY <2>1, FS_Interval
  <2> QED
    BY <1>1, <2>2
<1>3. s \in Bijection(0 .. n - 1, Elems(s, n))
  <2>1. s \in [0 .. n - 1 -> Elems(s, n)]
    BY <1>1 DEF Elems
  <2>2. s \in Injection(0 .. n - 1, Elems(s, n))
    BY <2>1 DEF IsList, Injection, IsInjective
  <2>3. s \in Surjection(0 .. n - 1, Elems(s, n))
    BY <2>1 DEF Elems, Surjection
  <2> QED
    BY <2>2, <2>3 DEF Bijection
<1>4. Cardinality(Elems(s, n)) = Cardinality(0 .. n - 1)
  BY <1>2, <1>3, FS_Bijection DEF ExistsBijection
<1> QED
  BY <1>2, <1>4

\* A pointer structure that IsList describes is a ListOf its elements.
LEMMA ListIsListOf ==
  ASSUME NEW nxt \in [Frames -> Pointers], NEW head \in Pointers, NEW s, NEW n,
         IsList(nxt, head, s, n)
  PROVE  ListOf(nxt, head, Elems(s, n))
<1>1. n \in Nat
  BY ListFits
<1>2. Walk(nxt, head)[n] = NULL
  BY <1>1, WalkList
<1>3. /\ Positions(nxt, head) = 0 .. n - 1
      /\ Nodes(nxt, head) = Elems(s, n)
  BY ListPositions
<1>4. Cardinality(0 .. n - 1) = n /\ Cardinality(Elems(s, n)) = n
  BY ListCardinality
<1> QED
  BY <1>2, <1>3, <1>4 DEF ListOf

\* The fields of the page table that the theorems below speak of.
LEMMA CurrentTable ==
  ASSUME IInv
  PROVE  /\ InOrder(pt)
         /\ pt \in Tables
         /\ pt.next \in [Frames -> Pointers]
         /\ pt.fifonext \in [Frames -> Pointers]
         /\ pt.hashedpt \in [Buckets -> Pointers]
         /\ pt.firstvictim \in Pointers
         /\ UserFrames = Users(pt)
<1>1. InOrder(pt) /\ pt \in Tables
  BY DEF IInv, InOrder
<1> QED
  BY <1>1, TableFields DEF UserFrames, Users

(***************************************************************************)
(* The fields of the page table and its list pointers always have their    *)
(* types: no operation of coremap.c stores a pointer outside pt[].         *)
(***************************************************************************)
THEOREM TypeCorrect == Spec => []TypeOK
<1>1. IInv => TypeOK
  BY DEF IInv, InOrder, TypeOK
<1> QED
  BY <1>1, Invariance, PTL

(***************************************************************************)
(* However the kernel allocates and frees, getfreeframes never hands out a *)
(* frame inside a live block.                                              *)
(***************************************************************************)
THEOREM BlocksAreDisjoint == Spec => []BlocksDisjoint
<1>1. ASSUME IInv PROVE BlocksDisjoint
  <2>1. pt.numpages \in [Frames -> Nat] /\ BlocksApart(pt)
    BY <1>1, CurrentTable, TableFields DEF InOrder
  <2>2. \A f \in Frames : f \in Nat
    BY FrameFacts
  <2> SUFFICES ASSUME NEW f \in Frames, pt.pid[f] # FREE
               PROVE  /\ Block(pt, f) # {}
                      /\ Block(pt, f) \subseteq Frames
                      /\ \A g \in Frames \ {f} :
                            pt.pid[g] # FREE => Block(pt, f) \cap Block(pt, g) = {}
    BY DEF BlocksDisjoint
  <2>3. pt.numpages[f] \in Nat /\ pt.numpages[f] > 0 /\ f + pt.numpages[f] <= PtSize
    BY <2>1 DEF BlocksApart
  <2>4. f \in Block(pt, f)
    BY <2>2, <2>3 DEF Block
  <2>5. Block(pt, f) \subseteq Frames
    BY <2>2, <2>3, SizesAssumption DEF Block, Frames
  <2>6. ASSUME NEW g \in Frames, g # f, pt.pid[g] # FREE
        PROVE  Block(pt, f) \cap Block(pt, g) = {}
    <3>1. pt.numpages[g] \in Nat /\ f \in Nat /\ g \in Nat
      BY <2>1, <2>2
    <3>2. (f < g /\ f + pt.numpages[f] <= g) \/ (g < f /\ g + pt.numpages[g] <= f)
      BY <2>1, <2>6, <3>1 DEF BlocksApart
    <3> QED
      BY <2>3, <3>1, <3>2 DEF Block
  <2> QED
    BY <2>4, <2>5, <2>6
<1> QED
  BY <1>1, Invariance, PTL

(***************************************************************************)
(* The fifo list of pt.c holds every resident user page once and ends at   *)
(* lastallocateduser, whatever was allocated, freed, evicted or removed.   *)
(***************************************************************************)
THEOREM FifoIsExact == Spec => []FifoExact
<1>1. ASSUME IInv PROVE FifoExact
  <2>1. PICK s, n : IsFifo(pt, s, n)
    BY <1>1, CurrentTable DEF InOrder, FifoInOrder
  <2>2. IsList(pt.fifonext, pt.firstvictim, s, n)
    BY <2>1 DEF IsFifo
  <2>3. Elems(s, n) = UserFrames
    BY <1>1, <2>1, CurrentTable DEF IsFifo
  <2>4. ListOf(pt.fifonext, pt.firstvictim, UserFrames)
    BY <1>1, <2>2, <2>3, CurrentTable, ListIsListOf
  <2>5. pt.lastallocateduser = IF n = 0 THEN NULL ELSE s[n-1]
    BY <2>1 DEF IsFifo
  <2>6. pt.firstvictim = NULL <=> n = 0
    BY <2>2, ListHead
  <2>7. n # 0 => LastNode(pt.fifonext, pt.firstvictim) = s[n-1]
    BY <1>1, <2>2, CurrentTable, ListPositions
  <2> QED
    BY <2>4, <2>5, <2>6, <2>7 DEF FifoExact
<1> QED
  BY <1>1, Invariance, PTL

(***************************************************************************)
(* Every hash chain of pt.c holds the resident user pages of its bucket    *)
(* and nothing else.                                                       *)
(***************************************************************************)
THEOREM HashIsExact == Spec => []HashExact
<1>1. ASSUME IInv PROVE HashExact
  <2> SUFFICES ASSUME NEW b \in Buckets
               PROVE  ListOf(pt.next, pt.hashedpt[b],
                             {f \in UserFrames : Hash(pt.pid[f], pt.vaddr[f]) = b})
    BY DEF HashExact, Buckets
  <2>1. PICK s, n : IsChain(pt, b, s, n)
    BY <1>1, CurrentTable DEF InOrder, ChainsInOrder
  <2>2. IsList(pt.next, pt.hashedpt[b], s, n)
    BY <2>1 DEF IsChain
  <2>3. Elems(s, n) = {f \in UserFrames : Hash(pt.pid[f], pt.vaddr[f]) = b}
    BY <1>1, <2>1, CurrentTable DEF IsChain, Bucket
  <2>4. pt.next \in [Frames -> Pointers] /\ pt.hashedpt[b] \in Pointers
    BY <1>1, CurrentTable
  <2>5. ListOf(pt.next, pt.hashedpt[b], Elems(s, n))
    BY <2>2, <2>4, ListIsListOf
  <2> QED
    BY <2>3, <2>5
<1> QED
  BY <1>1, Invariance, PTL

(***************************************************************************)
(* A page is resident in one frame at most, and getpageaddr returns that   *)
(* frame, or 0 when there is none.                                         *)
(***************************************************************************)
THEOREM PagesIdentifyFrames == Spec => []PageIdentifiesFrame
<1>1. ASSUME IInv PROVE PageIdentifiesFrame
  <2> SUFFICES ASSUME NEW pid \in UserPids, NEW vaddr \in Vaddrs
               PROVE  {f \in Frames : Holds(pt, f, pid, vaddr)} =
                      IF getpageaddr(pt, pid, vaddr) = 0 THEN {}
                      ELSE {getpageaddr(pt, pid, vaddr)}
    BY DEF PageIdentifiesFrame
  <2>1. vaddr \in Nat
    BY SizesAssumption, PidsAssumption
  <2> QED
    BY <1>1, <2>1, PageAddr
<1> QED
  BY <1>1, Invariance, PTL

(***************************************************************************)
(* The unguarded node->fifonext->pid of freeuser (pt.c:84) never follows a *)
(* null pointer: a page found by its hash chain is on the fifo list too.   *)
(***************************************************************************)
THEOREM NoNullPointerFollowed == Spec => []NoNullFollowed
<1>1. ASSUME IInv PROVE NoNullFollowed
  <2> SUFFICES ASSUME NEW pid \in UserPids, NEW vaddr \in Vaddrs,
                      Lookup(pt, pid, vaddr) # NULL,
                      pt.firstvictim # Lookup(pt, pid, vaddr)
               PROVE  Predecessors(pt, pid, vaddr) # {}
    BY DEF NoNullFollowed, FreeuserFaults
  <2>1. vaddr \in Nat /\ InOrder(pt)
    BY <1>1, CurrentTable, SizesAssumption, PidsAssumption
  <2>2. PICK f \in Frames : Holds(pt, f, pid, vaddr)
    BY <2>1, LookupAbsent
  <2>3. f \in Users(pt)
    BY <2>2 DEF Users, Holds
  <2>4. Lookup(pt, pid, vaddr) = f
    BY <2>1, <2>2, <2>3, LookupResident
  <2>5. PICK s, n : IsFifo(pt, s, n)
    BY <2>1 DEF InOrder, FifoInOrder
  <2>6. PICK q \in 0 .. n - 1 : s[q] = f
    BY <2>3, <2>5 DEF IsFifo, Elems
  <2>7. /\ pt.firstvictim = f <=> q = 0
        /\ q # 0 => Predecessors(pt, pid, vaddr) = {q - 1}
    BY <2>1, <2>2, <2>3, <2>5, <2>6, FifoPredecessor
  <2> QED
    BY <2>4, <2>7
<1> QED
  BY <1>1, Invariance, PTL

(***************************************************************************)
(* removeptentries frees the frames of the dying process and leaves every  *)
(* other frame with its owner.                                             *)
(***************************************************************************)
THEOREM RemovalIsExact == Spec => RemovesExactly
<1> DEFINE Exact ==
      \A pid \in UserPids : RemoveProcess(pid) =>
          \A f \in Frames : pt'.pid[f] = IF pt.pid[f] = pid THEN FREE ELSE pt.pid[f]
<1>1. IInv => Exact
  <2> SUFFICES ASSUME IInv, NEW pid \in UserPids, RemoveProcess(pid)
               PROVE  \A f \in Frames : pt'.pid[f] = IF pt.pid[f] = pid THEN FREE ELSE pt.pid[f]
    OBVIOUS
  <2> QED
    BY CurrentTable, RemoveInOrder DEF RemoveProcess
<1>2. RemovesExactly <=> [][Exact]_vars
  BY DEF RemovesExactly
<1> HIDE DEF Exact
<1> QED
  BY <1>1, <1>2, Invariance, PTL

=============================================================================

-------------------------- MODULE PageTableProofs --------------------------
(***************************************************************************)
(* What the operations of pt.c do to a table that is in order, and that    *)
(* they leave it in order.                                                 *)
(***************************************************************************)
EXTENDS ListProofs

\* The frames of user pages, and those of them in a bucket.
Users(t) == {f \in Frames : t.pid[f] \in UserPids}
Buckets == 0 .. HashSize - 1
Bucket(t, b) == {f \in Users(t) : Hash(t.pid[f], t.vaddr[f]) = b}

\* The fifo list is s[0], ..., s[n-1]: all the user pages.
IsFifo(t, s, n) ==
  /\ IsList(t.fifonext, t.firstvictim, s, n)
  /\ Elems(s, n) = Users(t)
  /\ t.lastallocateduser = IF n = 0 THEN NULL ELSE s[n-1]

\* The chain of bucket b is s[0], ..., s[n-1]: all the user pages of the bucket.
IsChain(t, b, s, n) ==
  /\ IsList(t.next, t.hashedpt[b], s, n)
  /\ Elems(s, n) = Bucket(t, b)

FifoInOrder(t) == \E s, n : IsFifo(t, s, n)
ChainsInOrder(t) == \A b \in Buckets : \E s, n : IsChain(t, b, s, n)

\* No page is in two frames.
PagesUnique(t) ==
  \A f, g \in Users(t) : t.pid[f] = t.pid[g] /\ t.vaddr[f] = t.vaddr[g] => f = g

\* The blocks of allocated frames lie inside memory and do not overlap.
BlocksApart(t) ==
  \A f \in Frames : t.pid[f] # FREE =>
    /\ t.numpages[f] > 0
    /\ f + t.numpages[f] <= PtSize
    /\ \A g \in Frames : t.pid[g] # FREE /\ f < g => f + t.numpages[f] <= g

\* What the operations of pt.c keep true of the table, between any two of them.
InOrder(t) ==
  /\ t \in Tables
  /\ FifoInOrder(t)
  /\ ChainsInOrder(t)
  /\ PagesUnique(t)
  /\ BlocksApart(t)

\* A user pid is positive, so setptentry can tell it from the kernel and from a free frame.
LEMMA PidFacts ==
  ASSUME NEW pid \in UserPids
  PROVE  pid \in Nat /\ pid > 0 /\ pid # FREE /\ pid # KERNEL
BY PidsAssumption, SizesAssumption DEF FREE, KERNEL

\* A frame number is a natural and not NULL.
LEMMA FrameFacts ==
  ASSUME NEW f \in Frames
  PROVE  f \in Nat /\ f < PtSize /\ f # NULL /\ f \in Pointers
BY SizesAssumption DEF Frames, NULL, Pointers

\* The types of the fields of a table.
LEMMA TableFields ==
  ASSUME NEW t \in Tables
  PROVE  /\ t.pid \in [Frames -> UserPids \cup {FREE, KERNEL}]
         /\ t.vaddr \in [Frames -> Nat]
         /\ t.numpages \in [Frames -> Nat]
         /\ t.next \in [Frames -> Pointers]
         /\ t.fifonext \in [Frames -> Pointers]
         /\ t.hashedpt \in [Buckets -> Pointers]
         /\ t.firstvictim \in Pointers
         /\ t.lastallocateduser \in Pointers
BY DEF Tables, Buckets

\* The hash of gethashedentry is the index of a bucket.
LEMMA HashType ==
  ASSUME NEW pid \in Nat, NEW vaddr \in Nat
  PROVE  Hash(pid, vaddr) \in Buckets
<1>1. vaddr * PageSize + pid \in Nat /\ HashSize \in Nat /\ HashSize > 0
  BY SizesAssumption
<1> DEFINE a == vaddr * PageSize + pid
<1> HIDE DEF a
<1>2. a % HashSize \in 0 .. HashSize - 1
  BY <1>1 DEF a
<1> QED
  BY <1>2 DEF Hash, Buckets, a

\* A page that no frame holds is not found.
LEMMA LookupAbsent ==
  ASSUME NEW t, InOrder(t), NEW pid \in UserPids, NEW vaddr \in Nat,
         \A f \in Frames : ~Holds(t, f, pid, vaddr)
  PROVE  Lookup(t, pid, vaddr) = NULL
<1> DEFINE b == Hash(pid, vaddr)
           w == Walk(t.next, gethashedentry(t, pid, vaddr))
<1>1. b \in Buckets
  BY PidFacts, HashType
<1>2. t.next \in [Frames -> Pointers] /\ gethashedentry(t, pid, vaddr) \in Pointers
  BY <1>1, TableFields DEF InOrder, gethashedentry
<1>3. w \in [Nat -> Pointers]
  BY <1>2, WalkDef
<1>h. Hits(t, pid, vaddr) = {i \in Frames : w[i] # NULL /\ Holds(t, w[i], pid, vaddr)}
  BY DEF Hits
<1> HIDE DEF w
<1>4. \A i \in Frames : w[i] # NULL => w[i] \in Frames
  BY <1>3, FrameFacts DEF Pointers
<1>5. Hits(t, pid, vaddr) = {}
  BY <1>4, <1>h
<1> QED
  BY <1>5 DEF Lookup

\* The chain of the page is s[0], ..., s[n-1], and the page is in s[k] = f only.
FoundAt(t, pid, vaddr, f, s, n, k) ==
  /\ n \in Nat
  /\ k \in 0 .. n - 1
  /\ IsChain(t, Hash(pid, vaddr), s, n)
  /\ s[k] = f
  /\ Hits(t, pid, vaddr) = {k}
  /\ \A i \in 0 .. n - 1 : Walk(t.next, gethashedentry(t, pid, vaddr))[i] = s[i]

\* A resident page is found in its frame, at one position of its hash chain.
LEMMA LookupResident ==
  ASSUME NEW t, InOrder(t), NEW f \in Users(t), NEW pid, NEW vaddr,
         Holds(t, f, pid, vaddr)
  PROVE  /\ pid \in UserPids
         /\ vaddr \in Nat
         /\ Hash(pid, vaddr) \in Buckets
         /\ Lookup(t, pid, vaddr) = f
         /\ \E s, n, k : FoundAt(t, pid, vaddr, f, s, n, k)
<1> DEFINE b == Hash(pid, vaddr)
           head == gethashedentry(t, pid, vaddr)
           w == Walk(t.next, head)
<1>0. f \in Frames /\ pid \in UserPids /\ vaddr \in Nat /\ t \in Tables
  BY TableFields DEF InOrder, Users, Holds
<1>1. b \in Buckets
  BY <1>0, PidFacts, HashType
<1>2. t.next \in [Frames -> Pointers] /\ head \in Pointers /\ head = t.hashedpt[b]
  BY <1>0, <1>1, TableFields DEF gethashedentry
<1>3. PICK s, n : IsChain(t, b, s, n)
  BY <1>1 DEF InOrder, ChainsInOrder
<1>4. f \in Bucket(t, b)
  BY <1>0 DEF Bucket, Holds
<1>5. PICK k \in 0 .. n - 1 : s[k] = f
  BY <1>3, <1>4 DEF IsChain, Elems
<1>6. n \in Nat /\ n <= PtSize
  BY <1>3, ListFits DEF IsChain
<1>7. \A i \in Nat : w[i] = IF i < n THEN s[i] ELSE NULL
  BY <1>2, <1>3, WalkList DEF IsChain
<1>h. Hits(t, pid, vaddr) = {i \in Frames : w[i] # NULL /\ Holds(t, w[i], pid, vaddr)}
  BY DEF Hits
<1>l. Hits(t, pid, vaddr) # {} => Lookup(t, pid, vaddr) = w[Min(Hits(t, pid, vaddr))]
  BY DEF Lookup
<1> HIDE DEF w, head, b
<1>8. \A i \in 0 .. n - 1 : s[i] \in Bucket(t, b) /\ w[i] = s[i] /\ i \in Frames
  BY <1>3, <1>6, <1>7, SizesAssumption DEF IsChain, Elems, Frames
<1>9. ASSUME NEW i \in Hits(t, pid, vaddr) PROVE i = k
  <2>1. i \in Frames /\ w[i] # NULL /\ Holds(t, w[i], pid, vaddr)
    BY <1>h
  <2>2. i \in 0 .. n - 1
    BY <2>1, <1>6, <1>7, FrameFacts
  <2>3. s[i] \in Users(t) /\ Holds(t, s[i], pid, vaddr)
    BY <2>1, <2>2, <1>8 DEF Bucket
  <2>4. s[i] = f
    BY <2>3 DEF InOrder, PagesUnique, Holds
  <2> QED
    BY <2>2, <2>4, <1>3, <1>5 DEF IsChain, IsList
<1>10. k \in Hits(t, pid, vaddr)
  BY <1>0, <1>5, <1>8, <1>h, FrameFacts
<1>11. Hits(t, pid, vaddr) = {k}
  BY <1>9, <1>10
<1>12. Min({k}) = k
  <2>1. k \in Nat
    BY <1>6
  <2> QED
    BY <2>1 DEF Min
<1>13. Lookup(t, pid, vaddr) = f
  BY <1>l, <1>11, <1>12, <1>5, <1>8
<1>14. FoundAt(t, pid, vaddr, f, s, n, k)
  BY <1>3, <1>5, <1>6, <1>8, <1>11 DEF FoundAt, b, w, head
<1> QED
  BY <1>0, <1>1, <1>13, <1>14 DEF b

\* A list is empty exactly when its head is NULL.
LEMMA ListHead ==
  ASSUME NEW nxt, NEW head, NEW s, NEW n, IsList(nxt, head, s, n)
  PROVE  /\ n \in Nat
         /\ head = NULL <=> n = 0
         /\ n # 0 => n - 1 \in 0 .. n - 1 /\ s[n-1] \in Frames /\ s[n-1] \in Elems(s, n)
         /\ Elems(s, n) \subseteq Frames
         /\ \A k \in 0 .. n - 1 : s[k] \in Elems(s, n) /\ s[k] \in Frames
<1>1. n \in Nat
  BY DEF IsList
<1>2. \A k \in 0 .. n - 1 : s[k] \in Elems(s, n) /\ s[k] \in Frames
  BY DEF IsList, Elems
<1>3. n # 0 => n - 1 \in 0 .. n - 1 /\ 0 \in 0 .. n - 1
  BY <1>1
<1>4. head = NULL <=> n = 0
  BY <1>1, <1>2, <1>3, FrameFacts DEF IsList
<1>5. Elems(s, n) \subseteq Frames
  BY DEF IsList, Elems
<1> QED
  BY <1>1, <1>2, <1>3, <1>4, <1>5

\* The list at head2 is r: s[0], ..., s[n-1] and then i.
Extended(nxt2, head2, s, n, i, r) ==
  /\ IsList(nxt2, head2, r, n + 1)
  /\ Elems(r, n + 1) = Elems(s, n) \cup {i}
  /\ r[n] = i
  /\ \A k \in 0 .. n - 1 : r[k] = s[k]

\* Clearing a node's link and putting the node at the tail of a list.
LEMMA ListExtend ==
  ASSUME NEW nxt, NEW head, NEW s, NEW n, IsList(nxt, head, s, n),
         NEW i \in Frames, i \notin Elems(s, n),
         NEW nxt2,
         \A f \in Frames : nxt2[f] = IF n # 0 /\ f = s[n-1] THEN i
                                    ELSE IF f = i THEN NULL ELSE nxt[f]
  PROVE  \E r : Extended(nxt2, IF n = 0 THEN i ELSE head, s, n, i, r)
<1> DEFINE cleared == [f \in Frames |-> IF f = i THEN NULL ELSE nxt[f]]
<1>1. n \in Nat /\ Elems(s, n) \subseteq Frames
  BY ListHead
<1>2. cleared[i] = NULL
  OBVIOUS
<1>3. \A f \in Elems(s, n) : cleared[f] = nxt[f]
  BY <1>1
<1>c. n # 0 => \A f \in Frames : nxt2[f] = IF f = s[n-1] THEN i ELSE cleared[f]
  OBVIOUS
<1>d. n = 0 => nxt2[i] = NULL
  OBVIOUS
<1> HIDE DEF cleared
<1>4. IsList(cleared, head, s, n)
  BY <1>3, ListUnchanged
<1>5. CASE n = 0
  <2>1. PICK r : IsList(nxt2, i, r, 1) /\ Elems(r, 1) = {i} /\ r[0] = i
    BY <1>5, <1>d, ListSingle
  <2>2. Elems(s, n) = {} /\ 0 .. n - 1 = {} /\ n + 1 = 1
    BY <1>5 DEF Elems
  <2>3. Extended(nxt2, i, s, n, i, r)
    BY <2>1, <2>2, <1>5 DEF Extended
  <2> QED
    BY <2>3, <1>5
<1>6. CASE n # 0
  <2>1. PICK r : /\ IsList(nxt2, head, r, n + 1)
                 /\ Elems(r, n + 1) = Elems(s, n) \cup {i} /\ r[n] = i
                 /\ \A k \in 0 .. n - 1 : r[k] = s[k]
    BY <1>2, <1>4, <1>6, <1>c, ListAppend
  <2>3. Extended(nxt2, head, s, n, i, r)
    BY <2>1 DEF Extended
  <2> QED
    BY <2>3, <1>6
<1> QED
  BY <1>5, <1>6

\* The frames i .. i+n-1 can become a block: i is free and no block reaches in.
Fit(t, i, n) ==
  /\ i \in Frames
  /\ n \in Nat
  /\ n > 0
  /\ i + n <= PtSize
  /\ t.pid[i] = FREE
  /\ \A h \in Frames : t.pid[h] # FREE =>
        (h < i => h + t.numpages[h] <= i) /\ (i < h => i + n <= h)

\* What setptentry stores in pid, vaddr and numpages, and that the result is a table.
LEMMA SetFields ==
  ASSUME NEW t, InOrder(t), NEW i, NEW n, Fit(t, i, n),
         NEW pid \in UserPids \cup {KERNEL}, NEW vaddr \in Nat,
         NEW t2, t2 = setptentry(t, i, n, pid, vaddr)
  PROVE  /\ t2 \in Tables
         /\ \A f \in Frames :
              /\ t2.pid[f] = IF f = i THEN pid ELSE t.pid[f]
              /\ t2.vaddr[f] = IF f = i THEN vaddr ELSE t.vaddr[f]
              /\ t2.numpages[f] = IF f = i THEN n ELSE t.numpages[f]
<1>0. t \in Tables /\ i \in Frames /\ n \in Nat /\ i \in Pointers /\ NULL \in Pointers
  BY FrameFacts DEF InOrder, Fit, Pointers
<1>1. pid \in Nat /\ Hash(pid, vaddr) \in Buckets
  BY PidFacts, HashType DEF KERNEL
<1>2. t2.pid = [t.pid EXCEPT ![i] = pid]
  BY DEF setptentry
<1>3. t2.vaddr = [t.vaddr EXCEPT ![i] = vaddr]
  BY DEF setptentry
<1>4. t2.numpages = [t.numpages EXCEPT ![i] = n]
  BY DEF setptentry
<1>5. t2.next \in [Frames -> Pointers]
  BY <1>0, TableFields DEF setptentry
<1>6. t2.fifonext \in [Frames -> Pointers]
  BY <1>0, TableFields DEF setptentry
<1>7. t2.hashedpt \in [Buckets -> Pointers]
  BY <1>0, TableFields DEF setptentry
<1>8. t2.firstvictim \in Pointers /\ t2.lastallocateduser \in Pointers
  BY <1>0, TableFields DEF setptentry
<1>9. t2 = [pid |-> t2.pid, vaddr |-> t2.vaddr, numpages |-> t2.numpages, next |-> t2.next,
            fifonext |-> t2.fifonext, hashedpt |-> t2.hashedpt,
            firstvictim |-> t2.firstvictim, lastallocateduser |-> t2.lastallocateduser]
  BY DEF setptentry
<1>10. t2.pid \in [Frames -> UserPids \cup {FREE, KERNEL}] /\ t2.vaddr \in [Frames -> Nat]
       /\ t2.numpages \in [Frames -> Nat]
  BY <1>0, <1>2, <1>3, <1>4, TableFields
<1>11. t2 \in Tables
  BY <1>5, <1>6, <1>7, <1>8, <1>9, <1>10 DEF Tables, Buckets
<1>12. ASSUME NEW f \in Frames
       PROVE /\ t2.pid[f] = IF f = i THEN pid ELSE t.pid[f]
             /\ t2.vaddr[f] = IF f = i THEN vaddr ELSE t.vaddr[f]
             /\ t2.numpages[f] = IF f = i THEN n ELSE t.numpages[f]
  BY <1>0, <1>2, <1>3, <1>4, TableFields
<1> QED
  BY <1>11, <1>12

\* The fifo list of t2 is that of t, s[0], ..., s[m-1], with i at its end.
FifoGains(t, t2, i, s, m, r) ==
  /\ IsFifo(t, s, m)
  /\ IsFifo(t2, r, m + 1)
  /\ r[m] = i
  /\ \A k \in 0 .. m - 1 : r[k] = s[k]

\* The two tables have the same fifo list.
FifoStays(t, t2) == \E s, m : IsFifo(t, s, m) /\ IsFifo(t2, s, m)

\* setptentry appends a user page to the fifo list and leaves the list alone for the kernel.
LEMMA SetFifo ==
  ASSUME NEW t, InOrder(t), NEW i, NEW n, Fit(t, i, n),
         NEW pid \in UserPids \cup {KERNEL}, NEW vaddr \in Nat,
         NEW t2, t2 = setptentry(t, i, n, pid, vaddr)
  PROVE  /\ FifoInOrder(t2)
         /\ pid \in UserPids => \E s, m, r : FifoGains(t, t2, i, s, m, r)
         /\ pid = KERNEL => FifoStays(t, t2)
<1>0. /\ i \in Frames /\ t.pid[i] = FREE
      /\ t2 \in Tables
      /\ t.fifonext \in [Frames -> Pointers]
      /\ \A f \in Frames : t2.pid[f] = IF f = i THEN pid ELSE t.pid[f]
  <2>1. i \in Frames /\ t.pid[i] = FREE /\ t.fifonext \in [Frames -> Pointers]
    BY TableFields DEF InOrder, Fit
  <2>2. t2 \in Tables /\ \A f \in Frames : t2.pid[f] = IF f = i THEN pid ELSE t.pid[f]
    BY SetFields
  <2> QED
    BY <2>1, <2>2
<1>1. i \notin Users(t) /\ Users(t) \subseteq Frames
  BY <1>0, PidFacts DEF Users
<1>2. PICK s, m : IsFifo(t, s, m)
  BY DEF InOrder, FifoInOrder
<1>3. IsList(t.fifonext, t.firstvictim, s, m) /\ Elems(s, m) = Users(t)
      /\ t.lastallocateduser = IF m = 0 THEN NULL ELSE s[m-1]
  BY <1>2 DEF IsFifo
<1>4. m \in Nat /\ (t.firstvictim = NULL <=> m = 0) /\ (m # 0 => s[m-1] \in Frames)
  BY <1>3, ListHead
<1>5. t.lastallocateduser = NULL <=> m = 0
  BY <1>3, <1>4, FrameFacts
<1>6. CASE pid \in UserPids
  <2>1. pid > 0
    BY <1>6, PidFacts
  <2>2. /\ t2.firstvictim = IF m = 0 THEN i ELSE t.firstvictim
        /\ t2.lastallocateduser = i
    BY <2>1, <1>4 DEF setptentry
  <2>3. t2.fifonext = IF m # 0 THEN [[t.fifonext EXCEPT ![i] = NULL] EXCEPT ![s[m-1]] = i]
                      ELSE [t.fifonext EXCEPT ![i] = NULL]
    BY <2>1, <1>3, <1>5 DEF setptentry
  <2>4. \A f \in Frames : t2.fifonext[f] = IF m # 0 /\ f = s[m-1] THEN i
                                           ELSE IF f = i THEN NULL ELSE t.fifonext[f]
    BY <2>3, <1>0, <1>4
  <2>e. PICK r : Extended(t2.fifonext, IF m = 0 THEN i ELSE t.firstvictim, s, m, i, r)
    <3>1. i \in Frames /\ i \notin Elems(s, m) /\ IsList(t.fifonext, t.firstvictim, s, m)
      BY <1>0, <1>1, <1>3
    <3> QED
      BY <2>4, <3>1, ListExtend
  <2>6. Users(t2) = Users(t) \cup {i}
    BY <1>0, <1>6 DEF Users
  <2>5. /\ IsList(t2.fifonext, t2.firstvictim, r, m + 1)
        /\ Elems(r, m + 1) = Users(t2)
        /\ r[m] = i
        /\ \A k \in 0 .. m - 1 : r[k] = s[k]
    BY <2>e, <2>2, <2>6, <1>3 DEF Extended
  <2>l. m + 1 # 0 /\ (m + 1) - 1 = m
    BY <1>4
  <2>7. IsFifo(t2, r, m + 1)
    BY <2>2, <2>5, <2>l DEF IsFifo
  <2>8. FifoGains(t, t2, i, s, m, r)
    BY <2>5, <2>7, <1>2 DEF FifoGains
  <2>9. pid # KERNEL
    BY <1>6, PidFacts
  <2> QED
    BY <2>7, <2>8, <2>9 DEF FifoInOrder
<1>7. CASE pid = KERNEL
  <2>1. ~(pid > 0) /\ pid \notin UserPids
    BY <1>7, PidFacts DEF KERNEL
  <2>2. /\ t2.firstvictim = t.firstvictim
        /\ t2.lastallocateduser = t.lastallocateduser
        /\ t2.fifonext = [t.fifonext EXCEPT ![i] = NULL]
    BY <2>1 DEF setptentry
  <2>3. \A f \in Elems(s, m) : t2.fifonext[f] = t.fifonext[f]
    BY <2>2, <1>0, <1>1, <1>3
  <2>4. IsList(t2.fifonext, t2.firstvictim, s, m)
    BY <2>2, <2>3, <1>3, ListUnchanged
  <2>5. Users(t2) = Users(t)
    BY <1>0, <1>1, <2>1 DEF Users
  <2>6. IsFifo(t2, s, m)
    BY <2>2, <2>4, <2>5, <1>3 DEF IsFifo
  <2> QED
    BY <2>1, <2>6, <1>2 DEF FifoInOrder, FifoStays
<1> QED
  BY <1>6, <1>7

\* setptentry appends a user page to the chain of its bucket and leaves the others alone.
LEMMA SetChains ==
  ASSUME NEW t, InOrder(t), NEW i, NEW n, Fit(t, i, n),
         NEW pid \in UserPids \cup {KERNEL}, NEW vaddr \in Nat,
         NEW t2, t2 = setptentry(t, i, n, pid, vaddr)
  PROVE  ChainsInOrder(t2)
<1> DEFINE c == Hash(pid, vaddr)
           cleared == [t.next EXCEPT ![i] = NULL]
<1>0. /\ i \in Frames /\ t.pid[i] = FREE
      /\ t2 \in Tables
      /\ t.next \in [Frames -> Pointers]
      /\ t.hashedpt \in [Buckets -> Pointers]
      /\ \A f \in Frames : /\ t2.pid[f] = IF f = i THEN pid ELSE t.pid[f]
                           /\ t2.vaddr[f] = IF f = i THEN vaddr ELSE t.vaddr[f]
  <2>1. i \in Frames /\ t.pid[i] = FREE /\ t.next \in [Frames -> Pointers]
        /\ t.hashedpt \in [Buckets -> Pointers]
    BY TableFields DEF InOrder, Fit
  <2>2. t2 \in Tables /\ \A f \in Frames : /\ t2.pid[f] = IF f = i THEN pid ELSE t.pid[f]
                                           /\ t2.vaddr[f] = IF f = i THEN vaddr ELSE t.vaddr[f]
    BY SetFields
  <2> QED
    BY <2>1, <2>2
<1>1. c \in Buckets
  BY PidFacts, HashType DEF KERNEL
<1>2. ASSUME NEW b \in Buckets
      PROVE i \notin Bucket(t, b) /\ Bucket(t, b) \subseteq Frames
  BY <1>0, PidFacts DEF Bucket, Users
<1>3. cleared \in [Frames -> Pointers] /\ \A f \in Frames : cleared[f] = IF f = i THEN NULL ELSE t.next[f]
  BY <1>0 DEF Pointers
<1>n. t2.next = IF pid > 0 /\ t.hashedpt[c] # NULL
                THEN [cleared EXCEPT ![LastNode(cleared, t.hashedpt[c])] = i] ELSE cleared
  BY DEF setptentry, gethashedentry
<1>h. t2.hashedpt = IF pid > 0 /\ t.hashedpt[c] = NULL
                    THEN [t.hashedpt EXCEPT ![c] = i] ELSE t.hashedpt
  BY DEF setptentry, gethashedentry
<1>b. \A f \in Frames \ {i} : Hash(t2.pid[f], t2.vaddr[f]) = Hash(t.pid[f], t.vaddr[f])
  BY <1>0
<1>i. Hash(t2.pid[i], t2.vaddr[i]) = c
  BY <1>0
<1> HIDE DEF cleared, c
<1>4. CASE pid = KERNEL
  <2>1. ~(pid > 0) /\ pid \notin UserPids
    BY <1>4, PidFacts DEF KERNEL
  <2>2. ASSUME NEW b \in Buckets PROVE \E s, m : IsChain(t2, b, s, m)
    <3>1. PICK s, m : IsChain(t, b, s, m)
      BY DEF InOrder, ChainsInOrder
    <3>2. \A f \in Elems(s, m) : t2.next[f] = t.next[f]
      BY <2>1, <3>1, <1>2, <1>3, <1>n DEF IsChain
    <3>3. IsList(t2.next, t2.hashedpt[b], s, m)
      BY <2>1, <3>1, <3>2, <1>h, ListUnchanged DEF IsChain
    <3>4. Bucket(t2, b) = Bucket(t, b)
      BY <2>1, <1>0, <1>2, <1>b, PidFacts DEF Bucket, Users
    <3> QED
      BY <3>1, <3>3, <3>4 DEF IsChain
  <2> QED
    BY <2>2 DEF ChainsInOrder
<1>5. CASE pid \in UserPids
  <2>1. pid > 0
    BY <1>5, PidFacts
  <2>2. PICK s, m : IsChain(t, c, s, m)
    BY <1>1 DEF InOrder, ChainsInOrder
  <2>3. IsList(t.next, t.hashedpt[c], s, m) /\ Elems(s, m) = Bucket(t, c)
    BY <2>2 DEF IsChain
  <2>4. /\ m \in Nat /\ (t.hashedpt[c] = NULL <=> m = 0)
        /\ (m # 0 => s[m-1] \in Frames /\ s[m-1] \in Bucket(t, c))
    BY <2>3, ListHead
  <2>5. m # 0 => LastNode(cleared, t.hashedpt[c]) = s[m-1]
    <3>1. \A f \in Elems(s, m) : cleared[f] = t.next[f]
      BY <2>3, <1>1, <1>2, <1>3
    <3>2. IsList(cleared, t.hashedpt[c], s, m)
      BY <2>3, <3>1, ListUnchanged
    <3> QED
      BY <3>2, <1>0, <1>1, <1>3, ListPositions
  <2>6. t2.next = IF m # 0 THEN [cleared EXCEPT ![s[m-1]] = i] ELSE cleared
    BY <2>1, <2>4, <2>5, <1>n
  <2>7. \A f \in Frames : t2.next[f] = IF m # 0 /\ f = s[m-1] THEN i
                                       ELSE IF f = i THEN NULL ELSE t.next[f]
    BY <2>4, <2>6, <1>3
  <2>8. t2.hashedpt[c] = IF m = 0 THEN i ELSE t.hashedpt[c]
    BY <2>1, <2>4, <1>h, <1>0, <1>1
  <2>9. \A b \in Buckets \ {c} : t2.hashedpt[b] = t.hashedpt[b]
    BY <1>h, <1>0
  <2>10. Bucket(t2, c) = Bucket(t, c) \cup {i}
    BY <1>0, <1>1, <1>5, <1>b, <1>i, <1>2 DEF Bucket, Users
  <2>11. \E r, k : IsChain(t2, c, r, k)
    <3>1. i \notin Elems(s, m)
      BY <2>3, <1>1, <1>2
    <3>2. PICK r : Extended(t2.next, IF m = 0 THEN i ELSE t.hashedpt[c], s, m, i, r)
      BY <2>3, <2>7, <3>1, <1>0, ListExtend
    <3>3. IsChain(t2, c, r, m + 1)
      BY <3>2, <2>3, <2>8, <2>10 DEF IsChain, Extended
    <3> QED
      BY <3>3
  <2>12. ASSUME NEW b \in Buckets, b # c PROVE \E r, k : IsChain(t2, b, r, k)
    <3>1. PICK r, k : IsChain(t, b, r, k)
      BY DEF InOrder, ChainsInOrder
    <3>2. \A f \in Bucket(t, b) : f \in Frames /\ f # i /\ f \notin Bucket(t, c)
      BY <2>12, <1>2 DEF Bucket
    <3>3. \A f \in Elems(r, k) : t2.next[f] = t.next[f]
      BY <3>1, <3>2, <2>4, <2>7 DEF IsChain
    <3>4. IsList(t2.next, t2.hashedpt[b], r, k)
      BY <2>9, <2>12, <3>1, <3>3, ListUnchanged DEF IsChain
    <3>5. Bucket(t2, b) = Bucket(t, b)
      BY <2>12, <1>0, <1>2, <1>b, <1>i DEF Bucket, Users
    <3> QED
      BY <3>1, <3>4, <3>5 DEF IsChain
  <2> QED
    BY <2>11, <2>12 DEF ChainsInOrder
<1> QED
  BY <1>4, <1>5

\* setptentry of a frame that is free, and not inside a block, for a page that is
\* not resident leaves the table in order.
LEMMA SetInOrder ==
  ASSUME NEW t, InOrder(t), NEW i, NEW n, Fit(t, i, n),
         NEW pid \in UserPids \cup {KERNEL}, NEW vaddr \in Nat,
         pid \in UserPids => \A f \in Frames : ~Holds(t, f, pid, vaddr),
         NEW t2, t2 = setptentry(t, i, n, pid, vaddr)
  PROVE  InOrder(t2)
<1>0. /\ t2 \in Tables
      /\ \A f \in Frames : /\ t2.pid[f] = IF f = i THEN pid ELSE t.pid[f]
                           /\ t2.vaddr[f] = IF f = i THEN vaddr ELSE t.vaddr[f]
                           /\ t2.numpages[f] = IF f = i THEN n ELSE t.numpages[f]
  BY SetFields
<1>1. FifoInOrder(t2) /\ ChainsInOrder(t2)
  BY SetFifo, SetChains
<1>2. PagesUnique(t2)
  <2>1. PagesUnique(t)
    BY DEF InOrder
  <2> QED
    BY <2>1, <1>0, PidFacts DEF PagesUnique, Users, Holds
<1>3. BlocksApart(t2)
  <2>1. /\ BlocksApart(t)
        /\ \A f \in Frames : f \in Nat /\ t.numpages[f] \in Nat
    BY TableFields, FrameFacts DEF InOrder
  <2> QED
    BY <2>1, <1>0, SizesAssumption DEF BlocksApart, Fit
<1> QED
  BY <1>0, <1>1, <1>2, <1>3 DEF InOrder

\* Only its predecessor points to a node of a list.
LEMMA ListPredecessor ==
  ASSUME NEW nxt, NEW head, NEW s, NEW n, IsList(nxt, head, s, n), NEW k \in 0 .. n - 1
  PROVE  /\ \A g \in Elems(s, n) : nxt[g] = s[k] <=> k # 0 /\ g = s[k-1]
         /\ head = s[k] <=> k = 0
<1>1. n \in Nat /\ n # 0 /\ k \in Nat /\ k < n /\ 0 \in 0 .. n - 1 /\ head = s[0]
  BY DEF IsList
<1>2. \A i, j \in 0 .. n - 1 : s[i] = s[j] => i = j
  BY DEF IsList
<1>3. \A j \in 0 .. n - 1 : s[j] # NULL
  BY ListHead, FrameFacts
<1>4. ASSUME NEW g \in Elems(s, n) PROVE nxt[g] = s[k] <=> k # 0 /\ g = s[k-1]
  <2>1. PICK j \in 0 .. n - 1 : g = s[j]
    BY DEF Elems
  <2>2. nxt[g] = IF j = n - 1 THEN NULL ELSE s[j+1]
    BY <2>1 DEF IsList
  <2>3. nxt[g] = s[k] <=> j + 1 = k
    <3>1. CASE j = n - 1
      BY <3>1, <2>2, <1>1, <1>3
    <3>2. CASE j # n - 1
      <4>1. j + 1 \in 0 .. n - 1
        BY <3>2, <1>1
      <4> QED
        BY <3>2, <4>1, <2>2, <1>2
    <3> QED
      BY <3>1, <3>2
  <2>4. j + 1 = k <=> k # 0 /\ g = s[k-1]
    <3>1. ASSUME j + 1 = k PROVE k # 0 /\ g = s[k-1]
      <4>1. j = k - 1 /\ k # 0
        BY <3>1, <1>1
      <4> QED
        BY <4>1, <2>1
    <3>2. ASSUME k # 0, g = s[k-1] PROVE j + 1 = k
      <4>1. k - 1 \in 0 .. n - 1
        BY <3>2, <1>1
      <4>2. j = k - 1
        BY <4>1, <3>2, <2>1, <1>2
      <4> QED
        BY <4>2, <1>1
    <3> QED
      BY <3>1, <3>2
  <2> QED
    BY <2>3, <2>4
<1> QED
  BY <1>1, <1>2, <1>4

\* The list at head2 is r: what is left of s[0], ..., s[n-1] without s[k].
Unlinked(nxt2, head2, s, n, k, r) ==
  /\ IsList(nxt2, head2, r, n - 1)
  /\ Elems(r, n - 1) = Elems(s, n) \ {s[k]}
  /\ k # n - 1 => n - 1 # 0 /\ r[(n-1)-1] = s[n-1]
  /\ \A j \in 0 .. n - 2 : r[j] = IF j < k THEN s[j] ELSE s[j+1]

\* The links after node k is skipped.
Skipping(nxt, head, s, k, nxt2, head2) ==
  /\ \A g \in Frames \ {s[k]} :
        nxt2[g] = IF k # 0 /\ g = s[k-1] THEN nxt[s[k]] ELSE nxt[g]
  /\ head2 = IF k = 0 THEN nxt[s[k]] ELSE head

\* Taking node k out of a list: its predecessor is made to skip it, if there is
\* one, and its own link is cleared, or not.
LEMMA ListUnlink ==
  ASSUME NEW nxt, NEW head, NEW s, NEW n, IsList(nxt, head, s, n), NEW k \in 0 .. n - 1,
         NEW nxt2, NEW head2, Skipping(nxt, head, s, k, nxt2, head2)
  PROVE  \E r : Unlinked(nxt2, head2, s, n, k, r)
<1>0. /\ \A g \in Frames \ {s[k]} :
            nxt2[g] = IF k # 0 /\ g = s[k-1] THEN nxt[s[k]] ELSE nxt[g]
      /\ head2 = IF k = 0 THEN nxt[s[k]] ELSE head
  BY DEF Skipping
<1>1. Elems(s, n) \subseteq Frames /\ n \in Nat
  BY ListHead
<1>2. \A g \in Elems(s, n) \ {s[k]} :
         nxt2[g] = IF nxt[g] = s[k] THEN nxt[s[k]] ELSE nxt[g]
  BY <1>0, <1>1, ListPredecessor
<1>3. PICK r : /\ IsList(nxt2, IF k = 0 THEN nxt[s[0]] ELSE head, r, n - 1)
               /\ Elems(r, n - 1) = Elems(s, n) \ {s[k]}
               /\ \A j \in 0 .. n - 2 : r[j] = IF j < k THEN s[j] ELSE s[j+1]
  BY <1>2, ListRemove
<1>4. ASSUME k # n - 1 PROVE n - 1 # 0 /\ r[(n-1)-1] = s[n-1]
  <2>1. n - 1 # 0 /\ n - 2 \in 0 .. n - 2 /\ ~(n - 2 < k) /\ (n - 2) + 1 = n - 1
        /\ (n - 1) - 1 = n - 2
    BY <1>1, <1>4
  <2> QED
    BY <2>1, <1>3
<1>5. IsList(nxt2, head2, r, n - 1)
  BY <1>0, <1>3
<1> QED
  BY <1>3, <1>4, <1>5 DEF Unlinked

\* The fifo loop of freeuser: it finds the predecessor of the page, if there is
\* one, and never follows the link of the last node.
LEMMA FifoPredecessor ==
  ASSUME NEW t, InOrder(t), NEW f \in Users(t), NEW pid, NEW vaddr,
         Holds(t, f, pid, vaddr),
         NEW s, NEW n, IsFifo(t, s, n), NEW q \in 0 .. n - 1, s[q] = f
  PROVE  /\ t.firstvictim = f <=> q = 0
         /\ q # 0 => /\ Predecessors(t, pid, vaddr) = {q - 1}
                     /\ Walk(t.fifonext, t.firstvictim)[q - 1] = s[q-1]
                     /\ s[q-1] \in Frames
                     /\ t.fifonext[s[q-1]] = f
<1> DEFINE w == Walk(t.fifonext, t.firstvictim)
<1>0. t.fifonext \in [Frames -> Pointers] /\ t.firstvictim \in Pointers
  BY TableFields DEF InOrder
<1>1. IsList(t.fifonext, t.firstvictim, s, n) /\ Elems(s, n) = Users(t)
  BY DEF IsFifo
<1>2. n \in Nat /\ n <= PtSize /\ q \in Nat /\ q < n
  BY <1>1, ListFits
<1>3. \A i \in Nat : w[i] = IF i < n THEN s[i] ELSE NULL
  BY <1>0, <1>1, WalkList
<1>p. Predecessors(t, pid, vaddr) =
         {i \in Frames : w[i] # NULL /\ w[i+1] # NULL /\ Holds(t, w[i+1], pid, vaddr)}
  BY DEF Predecessors
<1> HIDE DEF w
<1>4. \A k \in 0 .. n - 1 : s[k] \in Users(t) /\ s[k] \in Frames /\ s[k] # NULL
  BY <1>1, ListHead, FrameFacts
<1>5. t.firstvictim = f <=> q = 0
  BY <1>1, ListPredecessor
<1>6. ASSUME q # 0
      PROVE  /\ Predecessors(t, pid, vaddr) = {q - 1}
             /\ w[q-1] = s[q-1]
             /\ s[q-1] \in Frames
             /\ t.fifonext[s[q-1]] = f
  <2>1. /\ q - 1 \in Frames /\ q - 1 \in 0 .. n - 1 /\ (q - 1) + 1 = q
        /\ q - 1 \in Nat /\ q - 1 < n
    BY <1>2, <1>6, SizesAssumption DEF Frames
  <2>2. w[q-1] = s[q-1] /\ w[q] = f /\ s[q-1] \in Frames /\ s[q-1] # NULL /\ f # NULL
    BY <2>1, <1>2, <1>3, <1>4
  <2>3. t.fifonext[s[q-1]] = f
    BY <2>1, <1>1, <1>4, <1>6, ListPredecessor
  <2>4. q - 1 \in Predecessors(t, pid, vaddr)
    BY <2>1, <2>2, <1>p
  <2>5. ASSUME NEW i \in Predecessors(t, pid, vaddr) PROVE i = q - 1
    <3>1. i \in Nat /\ i + 1 \in Nat /\ w[i+1] # NULL /\ Holds(t, w[i+1], pid, vaddr)
      BY <1>p, FrameFacts
    <3>2. i + 1 \in 0 .. n - 1 /\ w[i+1] = s[i+1]
      BY <3>1, <1>2, <1>3
    <3>3. s[i+1] = f
      BY <3>1, <3>2, <1>4 DEF InOrder, PagesUnique, Holds
    <3>4. i + 1 = q
      BY <3>2, <3>3, <1>1 DEF IsList
    <3> QED
      BY <3>1, <3>4, <1>2
  <2> QED
    BY <2>2, <2>3, <2>4, <2>5
<1> QED
  BY <1>5, <1>6 DEF w

\* The chain of bucket b is s[0], ..., s[n-1] with f = s[k], and u is next with the
\* pointer before f made to skip it.
ChainSkips(t, f, b, u, s, n, k) ==
  /\ k \in 0 .. n - 1
  /\ IsChain(t, b, s, n)
  /\ s[k] = f
  /\ t.hashedpt[b] = f <=> k = 0
  /\ \A g \in Frames : u[g] = IF k # 0 /\ g = s[k-1] THEN t.next[f] ELSE t.next[g]

\* The same for the fifo list.
FifoSkips(t, f, u, s, n, q) ==
  /\ q \in 0 .. n - 1
  /\ IsFifo(t, s, n)
  /\ s[q] = f
  /\ t.firstvictim = f <=> q = 0
  /\ \A g \in Frames : u[g] = IF q # 0 /\ g = s[q-1] THEN t.fifonext[f] ELSE t.fifonext[g]

\* UnlinkNext and UnlinkFifo, frame by frame.
LEMMA UnlinkFacts ==
  ASSUME NEW t, InOrder(t), NEW f \in Users(t), NEW pid, NEW vaddr,
         Holds(t, f, pid, vaddr)
  PROVE  /\ UnlinkNext(t, f, pid, vaddr) \in [Frames -> Pointers]
         /\ UnlinkFifo(t, f, pid, vaddr) \in [Frames -> Pointers]
         /\ \E s, n, k :
               ChainSkips(t, f, Hash(pid, vaddr), UnlinkNext(t, f, pid, vaddr), s, n, k)
         /\ \E s, n, q : FifoSkips(t, f, UnlinkFifo(t, f, pid, vaddr), s, n, q)
<1>0. /\ f \in Frames
      /\ t.next \in [Frames -> Pointers]
      /\ t.fifonext \in [Frames -> Pointers]
  BY TableFields DEF InOrder, Users
<1>m. \A k \in Nat : Min({k}) = k
  BY DEF Min
<1>1. PICK s, n, k : FoundAt(t, pid, vaddr, f, s, n, k)
  BY LookupResident
<1>2. /\ n \in Nat
      /\ k \in 0 .. n - 1
      /\ IsChain(t, Hash(pid, vaddr), s, n)
      /\ s[k] = f
      /\ Hits(t, pid, vaddr) = {k}
      /\ \A i \in 0 .. n - 1 : Walk(t.next, gethashedentry(t, pid, vaddr))[i] = s[i]
  BY <1>1 DEF FoundAt
<1>3. k \in Nat /\ IsList(t.next, t.hashedpt[Hash(pid, vaddr)], s, n)
  BY <1>2 DEF IsChain
<1>4. t.hashedpt[Hash(pid, vaddr)] = f <=> k = 0
  BY <1>2, <1>3, ListPredecessor
<1>5. UnlinkNext(t, f, pid, vaddr) =
         IF k = 0 THEN t.next ELSE [t.next EXCEPT ![s[k-1]] = t.next[f]]
  <2>1. Min(Hits(t, pid, vaddr)) = k
    BY <1>2, <1>3, <1>m
  <2>2. k # 0 => Walk(t.next, gethashedentry(t, pid, vaddr))[k-1] = s[k-1]
    BY <1>2, <1>3
  <2> QED
    BY <2>1, <2>2 DEF UnlinkNext
<1>6. UnlinkNext(t, f, pid, vaddr) \in [Frames -> Pointers]
  BY <1>0, <1>5
<1>7. \A g \in Frames : UnlinkNext(t, f, pid, vaddr)[g] =
                     IF k # 0 /\ g = s[k-1] THEN t.next[f] ELSE t.next[g]
  BY <1>0, <1>5
<1>8. PICK r, m : IsFifo(t, r, m)
  BY DEF InOrder, FifoInOrder
<1>9. PICK q \in 0 .. m - 1 : r[q] = f
  BY <1>8 DEF IsFifo, Elems
<1>10. /\ t.firstvictim = f <=> q = 0
       /\ q # 0 => /\ Predecessors(t, pid, vaddr) = {q - 1}
                   /\ Walk(t.fifonext, t.firstvictim)[q - 1] = r[q-1]
                   /\ r[q-1] \in Frames
                   /\ t.fifonext[r[q-1]] = f
  BY <1>8, <1>9, FifoPredecessor, SMTT(20)
<1>11. UnlinkFifo(t, f, pid, vaddr) =
          IF q = 0 THEN t.fifonext ELSE [t.fifonext EXCEPT ![r[q-1]] = t.fifonext[f]]
  <2>1. m \in Nat
    BY <1>8, ListHead DEF IsFifo
  <2>2. CASE q = 0
    BY <2>2, <1>10 DEF UnlinkFifo
  <2>3. CASE q # 0
    <3>1. q - 1 \in Nat /\ Min({q - 1}) = q - 1
      BY <2>1, <2>3, <1>m
    <3>2. Predecessors(t, pid, vaddr) # {} /\ t.firstvictim # f
      BY <2>3, <1>10
    <3>3. Walk(t.fifonext, t.firstvictim)[Min(Predecessors(t, pid, vaddr))] = r[q-1]
      BY <3>1, <2>3, <1>10
    <3>4. UnlinkFifo(t, f, pid, vaddr) =
             [t.fifonext EXCEPT ![r[q-1]] = t.fifonext[t.fifonext[r[q-1]]]]
      BY <3>2, <3>3 DEF UnlinkFifo
    <3> QED
      BY <2>3, <3>4, <1>10
  <2> QED
    BY <2>2, <2>3
<1>12. UnlinkFifo(t, f, pid, vaddr) \in [Frames -> Pointers]
  BY <1>0, <1>11
<1>13. \A g \in Frames : UnlinkFifo(t, f, pid, vaddr)[g] =
                     IF q # 0 /\ g = r[q-1] THEN t.fifonext[f] ELSE t.fifonext[g]
  BY <1>0, <1>11
<1>14. FifoSkips(t, f, UnlinkFifo(t, f, pid, vaddr), r, m, q)
  BY <1>8, <1>9, <1>10, <1>13 DEF FifoSkips
<1>15. ChainSkips(t, f, Hash(pid, vaddr), UnlinkNext(t, f, pid, vaddr), s, n, k)
  BY <1>2, <1>4, <1>7 DEF ChainSkips
<1> QED
  BY <1>6, <1>12, <1>14, <1>15

\* The fields of the table t2 after freeuser has freed the frame f.
Freed(t, f, pid, vaddr, t2) ==
  /\ t2.pid = [t.pid EXCEPT ![f] = FREE]
  /\ t2.vaddr = t.vaddr
  /\ t2.numpages = [t.numpages EXCEPT ![f] = 0]
  /\ t2.next = [UnlinkNext(t, f, pid, vaddr) EXCEPT ![f] = NULL]
  /\ t2.fifonext = [UnlinkFifo(t, f, pid, vaddr) EXCEPT ![f] = NULL]
  /\ t2.hashedpt =
      IF t.hashedpt[Hash(pid, vaddr)] = f
      THEN [t.hashedpt EXCEPT ![Hash(pid, vaddr)] = UnlinkNext(t, f, pid, vaddr)[f]]
      ELSE t.hashedpt
  /\ t2.firstvictim = IF t.firstvictim = f THEN t.fifonext[f] ELSE t.firstvictim
  /\ t2.lastallocateduser =
      IF t.lastallocateduser # f THEN t.lastallocateduser
      ELSE IF t2.firstvictim = NULL THEN NULL
      ELSE LastNode(UnlinkFifo(t, f, pid, vaddr), t2.firstvictim)
  /\ t2 = [pid |-> t2.pid, vaddr |-> t2.vaddr, numpages |-> t2.numpages,
      next |-> t2.next, fifonext |-> t2.fifonext, hashedpt |-> t2.hashedpt,
      firstvictim |-> t2.firstvictim,
      lastallocateduser |-> t2.lastallocateduser]

\* The fields after freeuser has found the page in frame f.
LEMMA FreeFields ==
  ASSUME NEW t, InOrder(t), NEW f \in Users(t), NEW pid, NEW vaddr,
         Holds(t, f, pid, vaddr),
         NEW t2, t2 = freeuser(t, pid, vaddr)
  PROVE  Freed(t, f, pid, vaddr, t2)
<1>1. Lookup(t, pid, vaddr) = f
  BY LookupResident
<1>2. f # NULL
  BY FrameFacts DEF Users
<1> QED
  BY <1>1, <1>2 DEF Freed, freeuser, gethashedentry

\* The fifo list of t2 is that of t, s[0], ..., s[m-1], without f = s[q].
FifoLoses(t, t2, f, s, m, q, r) ==
  /\ q \in 0 .. m - 1
  /\ IsFifo(t, s, m)
  /\ s[q] = f
  /\ IsFifo(t2, r, m - 1)
  /\ \A j \in 0 .. m - 2 : r[j] = IF j < q THEN s[j] ELSE s[j+1]

\* freeuser takes the page out of the fifo list, and moves lastallocateduser when it has to.
LEMMA FreeFifo ==
  ASSUME NEW t, InOrder(t), NEW f \in Users(t), NEW pid, NEW vaddr,
         Holds(t, f, pid, vaddr),
         NEW t2, t2 = freeuser(t, pid, vaddr)
  PROVE  /\ FifoInOrder(t2) /\ t2.firstvictim \in Pointers /\ t2.lastallocateduser \in Pointers
         /\ \E s, m, q, r : FifoLoses(t, t2, f, s, m, q, r)
<1> DEFINE u == UnlinkFifo(t, f, pid, vaddr)
<1>0. /\ f \in Frames
      /\ t.pid \in [Frames -> UserPids \cup {FREE, KERNEL}]
      /\ t.fifonext \in [Frames -> Pointers]
      /\ t.firstvictim \in Pointers
      /\ NULL \in Pointers
  BY TableFields DEF InOrder, Users, Pointers
<1>1. u \in [Frames -> Pointers]
  BY UnlinkFacts
<1>2. PICK s, n, q : FifoSkips(t, f, u, s, n, q)
  BY UnlinkFacts
<1>3. /\ q \in 0 .. n - 1
      /\ IsFifo(t, s, n)
      /\ s[q] = f
      /\ t.firstvictim = f <=> q = 0
      /\ \A g \in Frames : u[g] = IF q # 0 /\ g = s[q-1] THEN t.fifonext[f] ELSE t.fifonext[g]
  BY <1>2 DEF FifoSkips
<1>4. /\ t2.pid = [t.pid EXCEPT ![f] = FREE]
      /\ t2.fifonext = [u EXCEPT ![f] = NULL]
      /\ t2.firstvictim = IF q = 0 THEN t.fifonext[f] ELSE t.firstvictim
      /\ t2.lastallocateduser =
               IF t.lastallocateduser # f THEN t.lastallocateduser
               ELSE IF t2.firstvictim = NULL THEN NULL
               ELSE LastNode(u, t2.firstvictim)
  <2>1. Freed(t, f, pid, vaddr, t2)
    BY FreeFields
  <2> QED
    BY <2>1, <1>3 DEF Freed
<1> HIDE DEF u
<1>5. IsList(t.fifonext, t.firstvictim, s, n) /\ Elems(s, n) = Users(t)
      /\ t.lastallocateduser = IF n = 0 THEN NULL ELSE s[n-1]
  BY <1>3 DEF IsFifo
<1>6. \A g \in Frames \ {s[q]} : t2.fifonext[g] = u[g]
  BY <1>1, <1>3, <1>4
<1>7. \A g \in Frames \ {s[q]} : t2.fifonext[g] =
         IF q # 0 /\ g = s[q-1] THEN t.fifonext[s[q]] ELSE t.fifonext[g]
  BY <1>3, <1>6
<1>8. t2.firstvictim = IF q = 0 THEN t.fifonext[s[q]] ELSE t.firstvictim
  BY <1>3, <1>4
<1>q. q \in 0 .. n - 1 /\ IsList(t.fifonext, t.firstvictim, s, n)
  BY <1>3, <1>5
<1>s. Skipping(t.fifonext, t.firstvictim, s, q, t2.fifonext, t2.firstvictim)
  BY <1>7, <1>8 DEF Skipping
<1>u. PICK r : Unlinked(t2.fifonext, t2.firstvictim, s, n, q, r)
  BY <1>q, <1>s, ListUnlink
<1>9. /\ IsList(t2.fifonext, t2.firstvictim, r, n - 1)
      /\ Elems(r, n - 1) = Elems(s, n) \ {s[q]}
      /\ q # n - 1 => n - 1 # 0 /\ r[(n-1)-1] = s[n-1]
      /\ \A j \in 0 .. n - 2 : r[j] = IF j < q THEN s[j] ELSE s[j+1]
  BY <1>u DEF Unlinked
<1>l. IsList(t2.fifonext, t2.firstvictim, r, n - 1)
  BY <1>9
<1>10. t2.firstvictim \in Pointers
  BY <1>0, <1>4
<1>i. IsList(t.fifonext, t.firstvictim, s, n)
  BY <1>5
<1>11. n \in Nat /\ n # 0
  <2>1. n \in Nat
    BY <1>i, ListHead
  <2>2. q \in 0 .. n - 1
    BY <1>q
  <2> QED
    BY <2>1, <2>2
<1>12. t2.lastallocateduser = IF n - 1 = 0 THEN NULL ELSE r[(n-1)-1]
  <2>1. t.lastallocateduser = s[n-1] /\ n - 1 \in 0 .. n - 1
    BY <1>5, <1>11
  <2>2. s[n-1] = f <=> q = n - 1
    BY <2>1, <1>3, <1>5 DEF IsList
  <2>3. CASE q # n - 1
    BY <2>1, <2>2, <2>3, <1>4, <1>9
  <2>4. CASE q = n - 1
    <3>1. t2.firstvictim = NULL <=> n - 1 = 0
      <4> DEFINE m == n - 1
      <4>1. IsList(t2.fifonext, t2.firstvictim, r, m)
        BY <1>l
      <4> HIDE DEF m
      <4>2. t2.firstvictim = NULL <=> m = 0
        BY <4>1, ListHead
      <4> QED
        BY <4>2 DEF m
    <3>2. IsList(u, t2.firstvictim, r, n - 1)
      <4>1. \A g \in Elems(r, n - 1) : u[g] = t2.fifonext[g]
        BY <1>5, <1>6, <1>9 DEF Users
      <4> QED
        BY <4>1, <1>l, ListUnchanged
    <3>3. n - 1 # 0 => LastNode(u, t2.firstvictim) = r[(n-1)-1]
      <4> DEFINE m == n - 1
      <4>1. IsList(u, t2.firstvictim, r, m)
        BY <3>2
      <4> HIDE DEF m
      <4>2. m # 0 => LastNode(u, t2.firstvictim) = r[m-1]
        BY <4>1, <1>1, <1>10, ListPositions
      <4> QED
        BY <4>2 DEF m
    <3> QED
      BY <2>1, <2>2, <2>4, <3>1, <3>3, <1>4
  <2> QED
    BY <2>3, <2>4
<1>13. Users(t2) = Users(t) \ {f}
  BY <1>0, <1>4, PidFacts DEF Users
<1>14. IsFifo(t2, r, n - 1)
  BY <1>3, <1>5, <1>9, <1>12, <1>13 DEF IsFifo
<1>15. t2.lastallocateduser \in Pointers
  <2>1. n - 1 # 0 => r[(n-1)-1] \in Frames
    <3> DEFINE m == n - 1
    <3>1. IsList(t2.fifonext, t2.firstvictim, r, m)
      BY <1>l
    <3> HIDE DEF m
    <3>2. m # 0 => r[m-1] \in Frames
      BY <3>1, ListHead
    <3> QED
      BY <3>2 DEF m
  <2> QED
    BY <2>1, <1>0, <1>12 DEF Pointers
<1>16. FifoLoses(t, t2, f, s, n, q, r)
  BY <1>3, <1>9, <1>14 DEF FifoLoses
<1> QED
  BY <1>10, <1>14, <1>15, <1>16 DEF FifoInOrder

\* freeuser takes the page out of its hash chain and leaves the other chains alone.
LEMMA FreeChains ==
  ASSUME NEW t, InOrder(t), NEW f \in Users(t), NEW pid, NEW vaddr,
         Holds(t, f, pid, vaddr),
         NEW t2, t2 = freeuser(t, pid, vaddr)
  PROVE  ChainsInOrder(t2)
<1> DEFINE u == UnlinkNext(t, f, pid, vaddr)
           c == Hash(pid, vaddr)
<1>0. /\ f \in Frames
      /\ t.pid \in [Frames -> UserPids \cup {FREE, KERNEL}]
      /\ t.next \in [Frames -> Pointers]
      /\ t.hashedpt \in [Buckets -> Pointers]
  BY TableFields DEF InOrder, Users
<1>1. u \in [Frames -> Pointers]
  BY UnlinkFacts
<1>c. c \in Buckets
  BY LookupResident
<1>2. PICK s, n, k : ChainSkips(t, f, c, u, s, n, k)
  BY UnlinkFacts
<1>3. /\ k \in 0 .. n - 1
      /\ IsChain(t, c, s, n)
      /\ s[k] = f
      /\ t.hashedpt[c] = f <=> k = 0
      /\ \A g \in Frames : u[g] = IF k # 0 /\ g = s[k-1] THEN t.next[f] ELSE t.next[g]
  BY <1>2 DEF ChainSkips
<1>4. /\ t2.pid = [t.pid EXCEPT ![f] = FREE]
      /\ t2.vaddr = t.vaddr
      /\ t2.next = [u EXCEPT ![f] = NULL]
      /\ t2.hashedpt = IF t.hashedpt[c] = f THEN [t.hashedpt EXCEPT ![c] = u[f]] ELSE t.hashedpt
  <2>1. Freed(t, f, pid, vaddr, t2)
    BY FreeFields
  <2> QED
    BY <2>1 DEF Freed
<1> HIDE DEF u, c
<1>5. IsList(t.next, t.hashedpt[c], s, n) /\ Elems(s, n) = Bucket(t, c)
  BY <1>3 DEF IsChain
<1>6. /\ n \in Nat
      /\ k # 0 => s[k-1] \in Bucket(t, c)
      /\ f \in Bucket(t, c)
  <2>1. n \in Nat /\ \A j \in 0 .. n - 1 : s[j] \in Bucket(t, c)
    BY <1>5, ListHead
  <2>2. k # 0 => k - 1 \in 0 .. n - 1
    BY <2>1, <1>3
  <2> QED
    BY <2>1, <2>2, <1>3
<1>7. \A g \in Frames \ {s[k]} : t2.next[g] =
         IF k # 0 /\ g = s[k-1] THEN t.next[s[k]] ELSE t.next[g]
  BY <1>1, <1>3, <1>4
<1>8. t2.hashedpt[c] = IF k = 0 THEN t.next[s[k]] ELSE t.hashedpt[c]
  <2>1. k = 0 => u[f] = t.next[f]
    BY <1>0, <1>3
  <2> QED
    BY <2>1, <1>0, <1>c, <1>3, <1>4
<1>9. \A b \in Buckets \ {c} : t2.hashedpt[b] = t.hashedpt[b]
  BY <1>0, <1>4
<1>10. Users(t2) = Users(t) \ {f}
  BY <1>0, <1>4, PidFacts DEF Users
<1>11. \A g \in Users(t2) : t2.pid[g] = t.pid[g] /\ t2.vaddr[g] = t.vaddr[g]
  <2>1. \A g \in Users(t2) : g \in Frames /\ g # f
    BY <1>10 DEF Users
  <2> QED
    BY <2>1, <1>0, <1>4
<1>12. \A b \in Buckets : Bucket(t2, b) = Bucket(t, b) \ {f}
  BY <1>10, <1>11 DEF Bucket
<1>13. \E r, m : IsChain(t2, c, r, m)
  <2>k. k \in 0 .. n - 1 /\ IsList(t.next, t.hashedpt[c], s, n)
    BY <1>3, <1>5
  <2>s. Skipping(t.next, t.hashedpt[c], s, k, t2.next, t2.hashedpt[c])
    BY <1>7, <1>8 DEF Skipping
  <2>u. PICK r : Unlinked(t2.next, t2.hashedpt[c], s, n, k, r)
    BY <2>k, <2>s, ListUnlink
  <2>1. /\ IsList(t2.next, t2.hashedpt[c], r, n - 1)
        /\ Elems(r, n - 1) = Elems(s, n) \ {s[k]}
    BY <2>u DEF Unlinked
  <2> QED
    BY <2>1, <1>3, <1>5, <1>c, <1>12 DEF IsChain
<1>14. ASSUME NEW b \in Buckets, b # c PROVE \E r, m : IsChain(t2, b, r, m)
  <2>1. PICK r, m : IsChain(t, b, r, m)
    BY DEF InOrder, ChainsInOrder
  <2>2. \A g \in Bucket(t, b) : g \in Frames /\ g \notin Bucket(t, c)
    BY <1>14 DEF Bucket, Users
  <2>3. \A g \in Elems(r, m) : t2.next[g] = t.next[g]
    BY <2>1, <2>2, <1>3, <1>6, <1>7 DEF IsChain
  <2>4. IsList(t2.next, t2.hashedpt[b], r, m)
    BY <2>1, <2>3, <1>9, <1>14, ListUnchanged DEF IsChain
  <2>5. Bucket(t2, b) = Bucket(t, b)
    BY <2>2, <1>6, <1>12
  <2> QED
    BY <2>1, <2>4, <2>5 DEF IsChain
<1> QED
  BY <1>13, <1>14 DEF ChainsInOrder

\* Freeing pages, or blocks, keeps what is left of them apart.
LEMMA FreeBlock ==
  ASSUME NEW t, BlocksApart(t), t \in Tables, NEW f \in Frames,
         NEW t2,
         t2.pid = [t.pid EXCEPT ![f] = FREE],
         t2.numpages = [t.numpages EXCEPT ![f] = 0]
  PROVE  BlocksApart(t2)
<1>1. /\ t.pid \in [Frames -> UserPids \cup {FREE, KERNEL}]
      /\ t.numpages \in [Frames -> Nat]
  BY TableFields
<1>2. \A g \in Frames : t2.pid[g] # FREE =>
         t.pid[g] # FREE /\ t2.numpages[g] = t.numpages[g]
  BY <1>1
<1> QED
  BY <1>2 DEF BlocksApart

\* freeuser of a resident page frees its frame, changes no other, and leaves the
\* table in order.
LEMMA FreeInOrder ==
  ASSUME NEW t, InOrder(t), NEW f \in Users(t), NEW pid, NEW vaddr,
         Holds(t, f, pid, vaddr),
         NEW t2, t2 = freeuser(t, pid, vaddr)
  PROVE  /\ InOrder(t2)
         /\ \A g \in Frames : /\ t2.pid[g] = IF g = f THEN FREE ELSE t.pid[g]
                              /\ t2.vaddr[g] = t.vaddr[g]
                              /\ t2.numpages[g] = IF g = f THEN 0 ELSE t.numpages[g]
<1>0. /\ f \in Frames
      /\ t \in Tables
      /\ NULL \in Pointers
      /\ FREE \in UserPids \cup {FREE, KERNEL}
  BY DEF InOrder, Users, Pointers
<1>f. /\ t.pid \in [Frames -> UserPids \cup {FREE, KERNEL}]
      /\ t.vaddr \in [Frames -> Nat]
      /\ t.numpages \in [Frames -> Nat]
      /\ t.hashedpt \in [Buckets -> Pointers]
  BY <1>0, TableFields
<1>1. /\ t2.pid = [t.pid EXCEPT ![f] = FREE]
      /\ t2.vaddr = t.vaddr
      /\ t2.numpages = [t.numpages EXCEPT ![f] = 0]
      /\ t2.next = [UnlinkNext(t, f, pid, vaddr) EXCEPT ![f] = NULL]
      /\ t2.fifonext = [UnlinkFifo(t, f, pid, vaddr) EXCEPT ![f] = NULL]
      /\ t2.hashedpt =
            IF t.hashedpt[Hash(pid, vaddr)] = f
            THEN [t.hashedpt EXCEPT ![Hash(pid, vaddr)] = UnlinkNext(t, f, pid, vaddr)[f]]
            ELSE t.hashedpt
      /\ t2 = [pid |-> t2.pid, vaddr |-> t2.vaddr, numpages |-> t2.numpages,
               next |-> t2.next, fifonext |-> t2.fifonext, hashedpt |-> t2.hashedpt,
               firstvictim |-> t2.firstvictim,
               lastallocateduser |-> t2.lastallocateduser]
  <2>1. Freed(t, f, pid, vaddr, t2)
    BY FreeFields
  <2> QED
    BY <2>1 DEF Freed
<1>2. /\ UnlinkNext(t, f, pid, vaddr) \in [Frames -> Pointers]
      /\ UnlinkFifo(t, f, pid, vaddr) \in [Frames -> Pointers]
  BY UnlinkFacts
<1>3. FifoInOrder(t2) /\ t2.firstvictim \in Pointers /\ t2.lastallocateduser \in Pointers
  BY FreeFifo
<1>4. ChainsInOrder(t2)
  BY FreeChains
<1>5. t2 \in Tables
  <2>1. t2.next \in [Frames -> Pointers] /\ t2.fifonext \in [Frames -> Pointers]
    BY <1>0, <1>1, <1>2
  <2>2. t2.hashedpt \in [Buckets -> Pointers]
    <3> DEFINE x == UnlinkNext(t, f, pid, vaddr)[f]
               c == Hash(pid, vaddr)
    <3>1. x \in Pointers
      BY <1>0, <1>2
    <3>2. t2.hashedpt = [t.hashedpt EXCEPT ![c] = x] \/ t2.hashedpt = t.hashedpt
      BY <1>1
    <3> HIDE DEF x, c
    <3> QED
      BY <3>1, <3>2, <1>f
  <2>3. /\ t2.pid \in [Frames -> UserPids \cup {FREE, KERNEL}]
        /\ t2.vaddr \in [Frames -> Nat]
        /\ t2.numpages \in [Frames -> Nat]
    BY <1>0, <1>f, <1>1
  <2> QED
    BY <1>1, <1>3, <2>1, <2>2, <2>3 DEF Tables, Buckets
<1>6. PagesUnique(t2)
  <2>1. \A g \in Users(t2) : g \in Users(t) /\ t2.pid[g] = t.pid[g] /\ t2.vaddr[g] = t.vaddr[g]
    BY <1>0, <1>f, <1>1, PidFacts DEF Users
  <2>2. PagesUnique(t)
    BY DEF InOrder
  <2> QED
    BY <2>1, <2>2 DEF PagesUnique
<1>7. BlocksApart(t2)
  BY <1>0, <1>1, FreeBlock DEF InOrder
<1>8. \A g \in Frames : /\ t2.pid[g] = IF g = f THEN FREE ELSE t.pid[g]
                        /\ t2.vaddr[g] = t.vaddr[g]
                        /\ t2.numpages[g] = IF g = f THEN 0 ELSE t.numpages[g]
  BY <1>0, <1>f, <1>1
<1> QED
  BY <1>3, <1>4, <1>5, <1>6, <1>7, <1>8 DEF InOrder

\* freeuser of a page that is not resident changes nothing.
LEMMA FreeAbsent ==
  ASSUME NEW t, InOrder(t), NEW pid \in UserPids, NEW vaddr \in Nat,
         \A f \in Frames : ~Holds(t, f, pid, vaddr)
  PROVE  freeuser(t, pid, vaddr) = t
<1>1. Lookup(t, pid, vaddr) = NULL
  BY LookupAbsent
<1> QED
  BY <1>1 DEF freeuser

\* freekernel of a frame of the kernel leaves the table in order.
LEMMA FreeKernelInOrder ==
  ASSUME NEW t, InOrder(t), NEW i \in Frames, t.pid[i] = KERNEL,
         NEW t2, t2 = freekernel(t, i)
  PROVE  InOrder(t2) /\ FifoStays(t, t2)
<1>0. /\ t \in Tables
      /\ t.pid \in [Frames -> UserPids \cup {FREE, KERNEL}]
      /\ t.vaddr \in [Frames -> Nat]
      /\ t.numpages \in [Frames -> Nat]
      /\ t.next \in [Frames -> Pointers]
      /\ t.fifonext \in [Frames -> Pointers]
  BY TableFields DEF InOrder
<1>r. t2 = [t EXCEPT !.pid = t2.pid, !.numpages = t2.numpages, !.next = t2.next,
                     !.fifonext = t2.fifonext]
  BY <1>0 DEF freekernel, Tables
<1>1. /\ t2.pid = [t.pid EXCEPT ![i] = FREE]
      /\ t2.numpages = [t.numpages EXCEPT ![i] = 0]
      /\ t2.next = [t.next EXCEPT ![i] = NULL]
      /\ t2.fifonext = [t.fifonext EXCEPT ![i] = NULL]
      /\ t2.vaddr = t.vaddr
      /\ t2.hashedpt = t.hashedpt
      /\ t2.firstvictim = t.firstvictim
      /\ t2.lastallocateduser = t.lastallocateduser
  BY <1>0 DEF freekernel, Tables
<1>2. t2 \in Tables
  <2>1. /\ t2.pid \in [Frames -> UserPids \cup {FREE, KERNEL}]
        /\ t2.numpages \in [Frames -> Nat]
        /\ t2.next \in [Frames -> Pointers]
        /\ t2.fifonext \in [Frames -> Pointers]
    BY <1>0, <1>1 DEF Pointers
  <2> QED
    BY <2>1, <1>0, <1>r DEF Tables
<1>3. i \notin Users(t)
  BY PidFacts DEF Users
<1>4. Users(t2) = Users(t) /\ \A b \in Buckets : Bucket(t2, b) = Bucket(t, b)
  <2>1. Users(t2) = Users(t)
    BY <1>0, <1>1, <1>3, PidFacts DEF Users
  <2>2. \A f \in Users(t) : t2.pid[f] = t.pid[f] /\ t2.vaddr[f] = t.vaddr[f]
    BY <1>0, <1>1, <1>3 DEF Users
  <2> QED
    BY <2>1, <2>2 DEF Bucket
<1>5. \A f \in Users(t) : t2.next[f] = t.next[f] /\ t2.fifonext[f] = t.fifonext[f]
  BY <1>0, <1>1, <1>3 DEF Users
<1>6. FifoInOrder(t2) /\ FifoStays(t, t2)
  <2>1. PICK s, n : IsFifo(t, s, n)
    BY DEF InOrder, FifoInOrder
  <2>2. IsList(t2.fifonext, t2.firstvictim, s, n)
    <3>1. IsList(t.fifonext, t.firstvictim, s, n) /\ Elems(s, n) = Users(t)
      BY <2>1 DEF IsFifo
    <3>2. t2.firstvictim = t.firstvictim
      BY <1>1
    <3> QED
      BY <3>1, <3>2, <1>5, ListUnchanged
  <2>3. IsFifo(t2, s, n)
    BY <2>1, <2>2, <1>1, <1>4 DEF IsFifo
  <2> QED
    BY <2>1, <2>3 DEF FifoInOrder, FifoStays
<1>7. ChainsInOrder(t2)
  <2>1. ASSUME NEW b \in Buckets PROVE \E s, n : IsChain(t2, b, s, n)
    <3>1. PICK s, n : IsChain(t, b, s, n)
      BY DEF InOrder, ChainsInOrder
    <3>2. \A f \in Elems(s, n) : t2.next[f] = t.next[f]
      BY <3>1, <1>5 DEF IsChain, Bucket
    <3>3. IsList(t2.next, t2.hashedpt[b], s, n)
      <4>1. t2.hashedpt[b] = t.hashedpt[b]
        BY <1>1
      <4> QED
        BY <3>1, <3>2, <4>1, ListUnchanged DEF IsChain
    <3> QED
      BY <3>1, <3>3, <1>4 DEF IsChain
  <2> QED
    BY <2>1 DEF ChainsInOrder
<1>8. PagesUnique(t2)
  <2>1. \A f \in Users(t) : t2.pid[f] = t.pid[f] /\ t2.vaddr[f] = t.vaddr[f]
    BY <1>0, <1>1, <1>3 DEF Users
  <2>2. PagesUnique(t)
    BY DEF InOrder
  <2>3. Users(t2) = Users(t)
    BY <1>4
  <2> QED
    BY <2>1, <2>2, <2>3 DEF PagesUnique
<1>9. BlocksApart(t2)
  BY <1>0, <1>1, FreeBlock DEF InOrder
<1> QED
  BY <1>2, <1>6, <1>7, <1>8, <1>9 DEF InOrder

\* The table vm_bootstrap leaves is in order.
LEMMA InitInOrder == InOrder(ptinit)
<1>1. \A f \in Frames : f \in Nat /\ KVADDR(f) \in Nat
  BY FrameFacts, SizesAssumption DEF KVADDR
<1>2. FirstFree \in Nat /\ NULL \in Pointers
  BY SizesAssumption DEF Pointers
<1>3. ptinit \in Tables
  BY <1>1, <1>2 DEF ptinit, Tables
<1>4. Users(ptinit) = {} /\ \A b \in Buckets : Bucket(ptinit, b) = {}
  BY PidFacts DEF Users, Bucket, ptinit
<1>5. \A nxt : IsList(nxt, NULL, <<>>, 0) /\ Elems(<<>>, 0) = {}
  <2>1. 0 .. 0 - 1 = {}
    OBVIOUS
  <2>2. <<>> \in [{} -> Frames]
    OBVIOUS
  <2> QED
    BY <2>1, <2>2 DEF IsList, Elems
<1>6. FifoInOrder(ptinit)
  <2>1. ptinit.firstvictim = NULL /\ ptinit.lastallocateduser = NULL
    BY DEF ptinit
  <2>2. IsFifo(ptinit, <<>>, 0)
    BY <2>1, <1>4, <1>5 DEF IsFifo
  <2> QED
    BY <2>2 DEF FifoInOrder
<1>7. ChainsInOrder(ptinit)
  <2>1. \A b \in Buckets : ptinit.hashedpt[b] = NULL
    BY DEF ptinit, Buckets
  <2>2. \A b \in Buckets : IsChain(ptinit, b, <<>>, 0)
    BY <2>1, <1>4, <1>5 DEF IsChain
  <2> QED
    BY <2>2 DEF ChainsInOrder
<1>8. PagesUnique(ptinit)
  BY <1>4 DEF PagesUnique
<1>9. BlocksApart(ptinit)
  <2>1. \A f \in Frames : ptinit.pid[f] # FREE => ptinit.numpages[f] = 1
    BY <1>2 DEF ptinit
  <2> QED
    BY <2>1, FrameFacts, SizesAssumption DEF BlocksApart
<1> QED
  BY <1>3, <1>6, <1>7, <1>8, <1>9 DEF InOrder

=============================================================================

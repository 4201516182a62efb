----------------------------- MODULE SplProofs -----------------------------
(***************************************************************************)
(* CountExact, IrqTracksCount and HandlersBalanced of Spl, for every       *)
(* number of cpus, threads, spinlocks and nested sections.                 *)
(*                                                                         *)
(* The invariant is local: OnCpu relates the fields of a thread to those   *)
(* of the cpu it is on, Waiting those of a thread that is on none, and     *)
(* Stack says that each remembered level is the one its section began at.  *)
(***************************************************************************)
EXTENDS Spl, SequenceTheorems, TLAPS

Levels == {IPL_NONE, IPL_HIGH}
Switches == {Off, On}
Frame == [kind : Kinds, spl : Levels, irq : Switches]

\* The level code runs at inside a section, trap or switch.
After(f) == IF f.kind = "trap" THEN f.spl ELSE IPL_HIGH

\* What a frame says by itself.
FrameOK(f) ==
    /\ f.kind = "irq" => (f.irq = On <=> f.spl = IPL_NONE)
    /\ f.kind = "trap" => (f.irq = On => f.spl = IPL_NONE)

\* Every frame remembers the level of the one below; the top one gave the level.
Stack(s, sp) ==
    /\ \A i \in 1 .. Len(s) : FrameOK(s[i])
    /\ \A i \in 1 .. Len(s) - 1 : s[i+1].spl = After(s[i])
    /\ Len(s) > 0 => sp = After(s[Len(s)])

\* A thread with level sp, count ct and frames s, at place p of a cpu whose
\* interrupts are iq and that holds n spinlocks.
OnCpu(sp, ct, iq, n, s, p) ==
    /\ p \in {"run", "switch", "idle"}
    /\ ct = sp + n
    /\ iq = On <=> ct = 0
    /\ Stack(s, sp)
    /\ p = "switch" => Len(s) > 0 /\ s[Len(s)].kind = "switch" /\ n = 1
    /\ p = "idle" =>
        \/ Len(s) > 0 /\ s[Len(s)].kind = "switch" /\ n = 0
        \/ Len(s) > 1 /\ s[Len(s)].kind = "irq" /\ s[Len(s) - 1].kind = "switch"

\* A thread that thread_switch has left.
Waiting(sp, ct, s) ==
    sp = IPL_HIGH /\ ct = 2 /\ Stack(s, sp) /\ Len(s) > 0 /\ s[Len(s)].kind = "switch"

CpusOK == \A c \in Cpus : OnCpu(spl[curthread[c]], count[curthread[c]], irq[c],
                                c_spinlocks[c], frames[curthread[c]], pc[curthread[c]])
SavedOK == \A t \in Threads : pc[t] = "saved" => Waiting(spl[t], count[t], frames[t])
OneCpu == \A c, d \in Cpus : curthread[c] = curthread[d] => c = d

IInv == TypeOK /\ OneCpu /\ CpusOK /\ SavedOK

-----------------------------------------------------------------------------
(* Frames *)

\* q is s without its top, and q is s with f on top.
Popped(q, s) ==
    /\ q \in Seq(Frame)
    /\ Len(q) = Len(s) - 1
    /\ \A i \in 1 .. Len(s) - 1 : q[i] = s[i]

Pushed(q, s, f) ==
    /\ q \in Seq(Frame)
    /\ Len(q) = Len(s) + 1
    /\ q[Len(s) + 1] = f
    /\ \A i \in 1 .. Len(s) : q[i] = s[i]

LEMMA PopFrames ==
  ASSUME NEW s \in Seq(Frame), Len(s) > 0
  PROVE  Popped(SubSeq(s, 1, Len(s) - 1), s) /\ s[Len(s)] \in Frame
<1>1. Len(s) \in Nat /\ Len(s) - 1 \in Nat /\ Len(s) - 1 \in Int
  BY LenProperties
<1>2. s[Len(s)] \in Frame
  BY <1>1, ElementOfSeq
<1>3. \A i \in 1 .. Len(s) - 1 : s[i] \in Frame
  BY <1>1, ElementOfSeq
<1> DEFINE n == Len(s) - 1
           q == SubSeq(s, 1, n)
<1>4. q \in Seq(Frame) /\ Len(q) = (IF 1 <= n THEN n - 1 + 1 ELSE 0)
      /\ \A i \in 1 .. n - 1 + 1 : q[i] = s[1 + i - 1]
  <2>1. n \in Int /\ 1 \in Int /\ \A i \in 1 .. n : s[i] \in Frame
    BY <1>1, <1>3
  <2> HIDE DEF n
  <2> QED BY <2>1, SubSeqProperties
<1> HIDE DEF q
<1>5. Len(q) = Len(s) - 1
  <2>1. CASE 1 <= n
    <3>1. Len(q) = n - 1 + 1
      BY <2>1, <1>4
    <3> QED BY <3>1, <1>1
  <2>2. CASE ~ (1 <= n)
    <3>1. Len(q) = 0
      BY <2>2, <1>4
    <3>2. Len(s) = 1
      BY <2>2, <1>1
    <3> QED BY <3>1, <3>2
  <2> QED BY <2>1, <2>2
<1>6. \A i \in 1 .. Len(s) - 1 : q[i] = s[i]
  BY <1>1, <1>4
<1> QED BY <1>2, <1>4, <1>5, <1>6 DEF q, Popped

LEMMA PushFrames ==
  ASSUME NEW s \in Seq(Frame), NEW f \in Frame
  PROVE  Pushed(Append(s, f), s, f)
<1> DEFINE q == Append(s, f)
<1>1. /\ q \in Seq(Frame)
      /\ Len(q) = Len(s) + 1
      /\ q[Len(s) + 1] = f
      /\ \A i \in 1 .. Len(s) : q[i] = s[i]
  BY AppendProperties
<1> HIDE DEF q
<1> QED BY <1>1 DEF q, Pushed

\* A consistent stack stays so when its top is popped and the level of the top
\* becomes the level.
LEMMA PopStack ==
  ASSUME NEW s \in Seq(Frame), NEW sp \in Levels, Len(s) > 0, Stack(s, sp),
         NEW q, Popped(q, s)
  PROVE  Stack(q, s[Len(s)].spl)
<1>1. Len(s) \in Nat
  BY LenProperties
<1>2. Len(q) = Len(s) - 1 /\ \A i \in 1 .. Len(s) - 1 : q[i] = s[i]
  BY DEF Popped
<1>3. \A i \in 1 .. Len(s) : FrameOK(s[i])
  BY DEF Stack
<1>4. \A i \in 1 .. Len(s) - 1 : s[i+1].spl = After(s[i])
  BY DEF Stack
<1>5. \A i \in 1 .. Len(q) : FrameOK(q[i])
  BY <1>1, <1>2, <1>3
<1>6. ASSUME NEW i \in 1 .. Len(q) - 1 PROVE q[i+1].spl = After(q[i])
  <2>1. i \in 1 .. Len(s) - 1 /\ i + 1 \in 1 .. Len(s) - 1
    BY <1>1, <1>2
  <2> QED BY <2>1, <1>2, <1>4
<1>7. ASSUME Len(q) > 0 PROVE s[Len(s)].spl = After(q[Len(q)])
  <2>1. Len(q) \in 1 .. Len(s) - 1 /\ Len(q) + 1 = Len(s)
    BY <1>1, <1>2, <1>7
  <2> QED BY <2>1, <1>2, <1>4
<1> QED BY <1>5, <1>6, <1>7 DEF Stack

\* A consistent stack stays so when a frame is pushed that remembers the level.
LEMMA PushStack ==
  ASSUME NEW s \in Seq(Frame), NEW sp \in Levels, NEW f \in Frame,
         Stack(s, sp), f.spl = sp, FrameOK(f),
         NEW q, Pushed(q, s, f)
  PROVE  Stack(q, After(f))
<1>1. Len(s) \in Nat
  BY LenProperties
<1>2. Len(q) = Len(s) + 1 /\ q[Len(s) + 1] = f /\ \A i \in 1 .. Len(s) : q[i] = s[i]
  BY DEF Pushed
<1>3. \A i \in 1 .. Len(s) : FrameOK(s[i])
  BY DEF Stack
<1>4. \A i \in 1 .. Len(s) - 1 : s[i+1].spl = After(s[i])
  BY DEF Stack
<1>5. ASSUME NEW i \in 1 .. Len(q) PROVE FrameOK(q[i])
  <2>1. i \in 1 .. Len(s) \/ i = Len(s) + 1
    BY <1>1, <1>2
  <2> QED BY <2>1, <1>2, <1>3
<1>6. ASSUME NEW i \in 1 .. Len(q) - 1 PROVE q[i+1].spl = After(q[i])
  <2>1. i \in 1 .. Len(s)
    BY <1>1, <1>2
  <2>2. CASE i = Len(s)
    <3>1. q[i+1] = f /\ q[i] = s[i] /\ Len(s) > 0
      BY <2>1, <2>2, <1>1, <1>2
    <3>2. sp = After(s[Len(s)])
      BY <3>1 DEF Stack
    <3> QED BY <3>1, <3>2, <2>2
  <2>3. CASE i # Len(s)
    <3>1. i \in 1 .. Len(s) - 1 /\ i + 1 \in 1 .. Len(s)
      BY <2>1, <2>3, <1>1
    <3> QED BY <3>1, <2>1, <1>2, <1>4
  <2> QED BY <2>2, <2>3
<1>7. q[Len(q)] = f
  BY <1>2
<1> QED BY <1>5, <1>6, <1>7 DEF Stack

-----------------------------------------------------------------------------
(* What the operations do to a thread on a cpu *)

\* splraise by a spinlock, in a thread or in a handler of the idle loop.
LEMMA RaiseOnCpu ==
  ASSUME NEW sp \in Levels, NEW ct \in Nat, NEW iq \in Switches, NEW n \in Nat,
         NEW s \in Seq(Frame), NEW p, OnCpu(sp, ct, iq, n, s, p),
         p = "run" \/ (p = "idle" /\ Len(s) > 0 /\ s[Len(s)].kind = "irq")
  PROVE  OnCpu(sp, ct + 1, IF ct = 0 THEN Off ELSE iq, n + 1, s, p)
BY DEF OnCpu, Levels, IPL_NONE, IPL_HIGH, On, Off, Switches

LEMMA LowerOnCpu ==
  ASSUME NEW sp \in Levels, NEW ct \in Nat, NEW iq \in Switches, NEW n \in Nat, n > 0,
         NEW s \in Seq(Frame), NEW p, OnCpu(sp, ct, iq, n, s, p),
         p = "run" \/ (p = "idle" /\ Len(s) > 0 /\ s[Len(s)].kind = "irq")
  PROVE  OnCpu(sp, ct - 1, IF ct = 1 THEN On ELSE iq, n - 1, s, p) /\ ct - 1 \in Nat
BY DEF OnCpu, Levels, IPL_NONE, IPL_HIGH, On, Off, Switches

\* splhigh in a running thread.
LEMMA SplhighOnCpu ==
  ASSUME NEW sp \in Levels, NEW ct \in Nat, NEW iq \in Switches, NEW n \in Nat,
         NEW s \in Seq(Frame), OnCpu(sp, ct, iq, n, s, "run"),
         NEW q, Pushed(q, s, [kind |-> "spl", spl |-> sp, irq |-> iq])
  PROVE  OnCpu(IPL_HIGH, IF sp = IPL_NONE THEN ct + 1 ELSE ct,
               IF sp = IPL_NONE THEN IF ct = 0 THEN Off ELSE iq ELSE iq, n, q, "run")
<1> DEFINE f == [kind |-> "spl", spl |-> sp, irq |-> iq]
<1>1. f \in Frame /\ f.spl = sp /\ FrameOK(f) /\ After(f) = IPL_HIGH
  BY DEF Frame, Kinds, FrameOK, After
<1>2. Stack(s, sp)
  BY DEF OnCpu
<1>3. Stack(q, IPL_HIGH)
  <2> HIDE DEF f
  <2>1. Pushed(q, s, f) BY DEF f
  <2> QED BY <1>1, <1>2, <2>1, PushStack
<1> QED BY <1>3 DEF OnCpu, Levels, IPL_NONE, IPL_HIGH, On, Off, Switches

\* splx back to the level of the top frame.
LEMMA SplxOnCpu ==
  ASSUME NEW sp \in Levels, NEW ct \in Nat, NEW iq \in Switches, NEW n \in Nat,
         NEW s \in Seq(Frame), OnCpu(sp, ct, iq, n, s, "run"),
         Len(s) > 0, s[Len(s)].kind = "spl", NEW q, Popped(q, s)
  PROVE  /\ sp = IPL_HIGH /\ s[Len(s)].spl \in Levels
         /\ s[Len(s)].spl = IPL_HIGH => OnCpu(IPL_HIGH, ct, iq, n, q, "run")
         /\ s[Len(s)].spl = IPL_NONE =>
              OnCpu(IPL_NONE, ct - 1, IF ct = 1 THEN On ELSE iq, n, q, "run") /\ ct - 1 \in Nat
<1> DEFINE lv == s[Len(s)].spl
<1>1. Stack(s, sp)
  BY DEF OnCpu
<1>2. Stack(q, lv)
  BY <1>1, PopStack
<1>3. sp = IPL_HIGH
  BY <1>1 DEF Stack, After
<1>4. lv \in Levels
  BY PopFrames DEF Frame
<1> HIDE DEF lv
<1>5. lv = IPL_HIGH => OnCpu(IPL_HIGH, ct, iq, n, q, "run")
  BY <1>2, <1>3 DEF OnCpu
<1>6. lv = IPL_NONE => OnCpu(IPL_NONE, ct - 1, IF ct = 1 THEN On ELSE iq, n, q, "run") /\ ct - 1 \in Nat
  BY <1>2, <1>3 DEF OnCpu, IPL_NONE, IPL_HIGH, On, Off, Switches
<1> QED BY <1>3, <1>4, <1>5, <1>6 DEF lv

\* An interrupt, of a thread that takes them or in the idle loop.
LEMMA EnterOnCpu ==
  ASSUME NEW sp \in Levels, NEW ct \in Nat, NEW iq \in Switches, NEW n \in Nat,
         NEW s \in Seq(Frame), NEW p, OnCpu(sp, ct, iq, n, s, p),
         \/ p = "run" /\ iq = On
         \/ p = "idle" /\ Len(s) > 0 /\ s[Len(s)].kind # "irq",
         NEW q, Pushed(q, s, [kind |-> "irq", spl |-> sp, irq |-> iq])
  PROVE  OnCpu(IPL_HIGH, IF sp = IPL_NONE THEN ct + 1 ELSE ct, Off, n, q, p)
<1> DEFINE f == [kind |-> "irq", spl |-> sp, irq |-> iq]
<1>1. Stack(s, sp) /\ ct = sp + n /\ (iq = On <=> ct = 0) /\ Len(s) \in Nat
  BY LenProperties DEF OnCpu
<1>2. p = "run" => sp = IPL_NONE /\ iq = On /\ ct = 0 /\ n = 0
  BY <1>1 DEF Levels, IPL_NONE, IPL_HIGH, On, Off, Switches
<1>3. p = "idle" => sp = IPL_HIGH /\ iq = Off /\ s[Len(s)].kind = "switch" /\ n = 0 /\ Len(s) > 0
  <2>1. p = "idle" => Len(s) > 0 /\ s[Len(s)].kind = "switch" /\ n = 0
    BY DEF OnCpu
  <2>2. p = "idle" => sp = IPL_HIGH
    BY <2>1, <1>1 DEF Stack, After
  <2> QED BY <2>1, <2>2, <1>1 DEF IPL_HIGH, Switches, On, Off
<1>4. f \in Frame /\ f.spl = sp /\ FrameOK(f) /\ After(f) = IPL_HIGH
  <2>1. iq = On <=> sp = IPL_NONE
    BY <1>2, <1>3 DEF IPL_NONE, IPL_HIGH, On, Off, Switches
  <2> QED BY <2>1 DEF Frame, Kinds, FrameOK, After
<1>5. Stack(q, IPL_HIGH)
  <2> HIDE DEF f
  <2>1. Pushed(q, s, f) BY DEF f
  <2> QED BY <1>1, <1>4, <2>1, PushStack
<1>6. Len(q) = Len(s) + 1 /\ q[Len(q)].kind = "irq" /\ \A i \in 1 .. Len(s) : q[i] = s[i]
  BY DEF Pushed
<1>7. CASE p = "run"
  BY <1>2, <1>5, <1>7 DEF OnCpu, IPL_NONE, IPL_HIGH, On, Off, Switches
<1>8. CASE p = "idle"
  <2>1. Len(q) > 1 /\ q[Len(q) - 1] = s[Len(s)]
    BY <1>1, <1>3, <1>6, <1>8
  <2> QED BY <2>1, <1>3, <1>5, <1>6, <1>8 DEF OnCpu, IPL_NONE, IPL_HIGH, On, Off, Switches
<1> QED BY <1>7, <1>8

LEMMA ExitOnCpu ==
  ASSUME NEW sp \in Levels, NEW ct \in Nat, NEW iq \in Switches,
         NEW s \in Seq(Frame), NEW p, OnCpu(sp, ct, iq, 0, s, p),
         p \in {"run", "idle"}, Len(s) > 0, s[Len(s)].kind = "irq",
         NEW q, Popped(q, s), NEW f, f = s[Len(s)]
  PROVE  /\ OnCpu(f.spl, IF f.spl = IPL_NONE THEN ct - 1 ELSE ct, f.irq, 0, q, p)
         /\ f \in Frame
         /\ ct = 1
<1>1. Stack(s, sp) /\ ct = sp /\ Len(s) \in Nat
  BY LenProperties DEF OnCpu, Levels, IPL_NONE, IPL_HIGH, On, Off, Switches
<1>2. sp = IPL_HIGH /\ FrameOK(f) /\ f \in Frame
  BY <1>1, PopFrames DEF Stack, After
<1>3. Stack(q, f.spl)
  BY <1>1, PopStack
<1>4. f.irq = On <=> f.spl = IPL_NONE
  BY <1>2 DEF FrameOK
<1>5. p = "idle" => Len(q) > 0 /\ q[Len(q)].kind = "switch"
  BY <1>1 DEF OnCpu, Popped
<1>6. f.spl \in Levels
  BY <1>2 DEF Frame
<1>7. CASE f.spl = IPL_NONE
  BY <1>1, <1>2, <1>3, <1>4, <1>5, <1>7 DEF OnCpu, IPL_NONE, IPL_HIGH, On, Off, Switches
<1>8. CASE f.spl = IPL_HIGH
  BY <1>1, <1>2, <1>3, <1>4, <1>5, <1>8 DEF OnCpu, IPL_NONE, IPL_HIGH, On, Off, Switches
<1> QED BY <1>1, <1>2, <1>6, <1>7, <1>8 DEF Levels, IPL_HIGH

\* A trap leaves the level and the count, and interrupts as the count says.
LEMMA TrapOnCpu ==
  ASSUME NEW sp \in Levels, NEW ct \in Nat, NEW iq \in Switches, NEW n \in Nat,
         NEW s \in Seq(Frame), OnCpu(sp, ct, iq, n, s, "run"),
         NEW q, Pushed(q, s, [kind |-> "trap", spl |-> sp, irq |-> iq])
  PROVE  OnCpu(sp, ct, IF ct = 0 THEN On ELSE Off, n, q, "run")
<1> DEFINE f == [kind |-> "trap", spl |-> sp, irq |-> iq]
<1>1. Stack(s, sp) /\ ct = sp + n /\ (iq = On <=> ct = 0)
  BY DEF OnCpu
<1>2. f \in Frame /\ f.spl = sp /\ FrameOK(f) /\ After(f) = sp
  <2>1. iq = On => sp = IPL_NONE
    BY <1>1 DEF Levels, IPL_NONE, IPL_HIGH, On, Off, Switches
  <2> QED BY <2>1 DEF Frame, Kinds, FrameOK, After
<1>3. Stack(q, sp)
  <2> HIDE DEF f
  <2>1. Pushed(q, s, f) BY DEF f
  <2> QED BY <1>1, <1>2, <2>1, PushStack
<1> QED BY <1>1, <1>3 DEF OnCpu, On, Off

LEMMA TrapExitOnCpu ==
  ASSUME NEW sp \in Levels, NEW ct \in Nat, NEW iq \in Switches, NEW n \in Nat,
         NEW s \in Seq(Frame), OnCpu(sp, ct, iq, n, s, "run"),
         Len(s) > 0, s[Len(s)].kind = "trap", NEW q, Popped(q, s),
         s[Len(s)].irq = On => n = 0,
         s[Len(s)].irq = Off /\ s[Len(s)].spl = IPL_NONE => n > 0
  PROVE  OnCpu(sp, ct, s[Len(s)].irq, n, q, "run") /\ s[Len(s)].irq \in Switches
<1> DEFINE f == s[Len(s)]
<1>1. Stack(s, sp) /\ ct = sp + n /\ Len(s) \in Nat
  BY LenProperties DEF OnCpu
<1>2. sp = f.spl /\ FrameOK(f) /\ f \in Frame
  BY <1>1, PopFrames DEF Stack, After
<1>3. Stack(q, sp)
  BY <1>1, <1>2, PopStack
<1>4. f.irq = On <=> ct = 0
  <2>1. f.irq = On \/ f.irq = Off
    BY <1>2 DEF Frame, Switches
  <2>2. CASE f.irq = On
    BY <1>1, <1>2, <2>2 DEF FrameOK, IPL_NONE
  <2>3. CASE f.irq = Off
    BY <1>1, <1>2, <2>3 DEF Levels, IPL_NONE, IPL_HIGH, On, Off, Switches
  <2> QED BY <2>1, <2>2, <2>3
<1> QED BY <1>1, <1>2, <1>3, <1>4 DEF OnCpu, Frame

\* thread_switch: one lock, the run queue's, and the level are counted.
LEMMA SwitchOutOnCpu ==
  ASSUME NEW sp \in Levels, NEW ct \in Nat, NEW iq \in Switches, NEW n \in {0, 1},
         NEW s \in Seq(Frame), OnCpu(sp, ct, iq, n, s, "run"),
         NEW q, Pushed(q, s, [kind |-> "switch", spl |-> sp, irq |-> iq])
  PROVE  OnCpu(IPL_HIGH, 2, Off, 1, q, "switch")
<1> DEFINE f == [kind |-> "switch", spl |-> sp, irq |-> iq]
<1>1. Stack(s, sp) /\ ct = sp + n
  BY DEF OnCpu
<1>2. f \in Frame /\ f.spl = sp /\ FrameOK(f) /\ After(f) = IPL_HIGH
  BY DEF Frame, Kinds, FrameOK, After
<1>3. Stack(q, IPL_HIGH)
  <2> HIDE DEF f
  <2>1. Pushed(q, s, f) BY DEF f
  <2> QED BY <1>1, <1>2, <2>1, PushStack
<1>4. Len(q) = Len(s) + 1 /\ q[Len(q)].kind = "switch" /\ Len(s) \in Nat
  BY LenProperties DEF Pushed
<1> QED BY <1>3, <1>4 DEF OnCpu, IPL_HIGH, On, Off

LEMMA IdleOnCpu ==
  ASSUME NEW sp \in Levels, NEW ct \in Nat, NEW iq \in Switches, NEW n \in Nat,
         NEW s \in Seq(Frame), OnCpu(sp, ct, iq, n, s, "switch")
  PROVE  /\ sp = IPL_HIGH /\ ct = 2 /\ iq = Off /\ n = 1
         /\ Waiting(sp, ct, s)
         /\ OnCpu(sp, ct - 1, IF ct = 1 THEN On ELSE iq, 0, s, "idle")
<1>1. Stack(s, sp) /\ Len(s) > 0 /\ s[Len(s)].kind = "switch" /\ n = 1 /\ ct = sp + n /\ (iq = On <=> ct = 0)
  BY DEF OnCpu
<1>2. sp = IPL_HIGH
  BY <1>1 DEF Stack, After
<1> QED BY <1>1, <1>2 DEF OnCpu, Waiting, IPL_HIGH, Switches, On, Off

LEMMA UnidleOnCpu ==
  ASSUME NEW sp \in Levels, NEW ct \in Nat, NEW iq \in Switches, NEW n \in Nat,
         NEW s \in Seq(Frame), OnCpu(sp, ct, iq, n, s, "idle"),
         Len(s) > 0, s[Len(s)].kind = "switch"
  PROVE  OnCpu(sp, ct + 1, IF ct = 0 THEN Off ELSE iq, 1, s, "switch")
<1>1. Stack(s, sp) /\ n = 0 /\ ct = sp + n /\ (iq = On <=> ct = 0)
  BY DEF OnCpu
<1>2. sp = IPL_HIGH
  BY <1>1 DEF Stack, After
<1> QED BY <1>1, <1>2 DEF OnCpu, IPL_HIGH

\* The thread that comes back releases the run queue lock and restores its level.
LEMMA SwitchInOnCpu ==
  ASSUME NEW s \in Seq(Frame), NEW sp \in Levels, NEW ct, Waiting(sp, ct, s),
         NEW q, Popped(q, s), NEW lv, lv = s[Len(s)].spl
  PROVE  /\ lv \in Levels
         /\ lv = IPL_NONE => OnCpu(lv, 0, On, 0, q, "run")
         /\ lv = IPL_HIGH => OnCpu(lv, 1, Off, 0, q, "run")
<1>1. Stack(s, sp) /\ Len(s) > 0
  BY DEF Waiting
<1>2. Stack(q, lv)
  BY <1>1, PopStack
<1>3. lv \in Levels
  BY <1>1, PopFrames DEF Frame
<1> QED BY <1>2, <1>3 DEF OnCpu, IPL_NONE, IPL_HIGH, On, Off, Switches

-----------------------------------------------------------------------------
(* A step of a cpu disturbs its thread only *)

\* The new values of what step of cpu c may change.
Local(c, t, sp, ct, iq, n, s, p) ==
    /\ curthread' = curthread
    /\ spl' = [spl EXCEPT ![t] = sp]
    /\ count' = [count EXCEPT ![t] = ct]
    /\ irq' = [irq EXCEPT ![c] = iq]
    /\ c_spinlocks' = [c_spinlocks EXCEPT ![c] = n]
    /\ frames' = [frames EXCEPT ![t] = s]
    /\ pc' = [pc EXCEPT ![t] = p]

LEMMA LocalStep ==
  ASSUME IInv, NEW c \in Cpus, NEW t, t = curthread[c],
         NEW sp \in Levels, NEW ct \in Nat, NEW iq \in Switches, NEW n \in Nat,
         NEW s \in Seq(Frame), NEW p, OnCpu(sp, ct, iq, n, s, p),
         Local(c, t, sp, ct, iq, n, s, p)
  PROVE  IInv'
<1> USE DEF Local
<1>1. t \in Threads /\ p \in {"run", "switch", "idle"}
  BY DEF IInv, TypeOK, OnCpu
<1>2. TypeOK'
  <2>1. curthread' \in [Cpus -> Threads] /\ irq' \in [Cpus -> {Off, On}]
    BY DEF IInv, TypeOK, Switches
  <2>2. c_spinlocks' \in [Cpus -> Nat] /\ count' \in [Threads -> Nat]
    BY <1>1 DEF IInv, TypeOK
  <2>3. spl' \in [Threads -> {IPL_NONE, IPL_HIGH}]
    BY <1>1 DEF IInv, TypeOK, Levels
  <2>4. frames' \in [Threads -> Seq(Frame)]
    BY <1>1 DEF IInv, TypeOK, Frame, Levels, Switches
  <2>5. pc' \in [Threads -> {"none", "run", "switch", "idle", "saved"}]
    BY <1>1 DEF IInv, TypeOK
  <2> QED BY <2>1, <2>2, <2>3, <2>4, <2>5 DEF TypeOK, Frame, Levels, Switches
<1>3. OneCpu'
  BY DEF IInv, OneCpu
<1>4. CpusOK'
  <2>1. SUFFICES ASSUME NEW d \in Cpus
        PROVE OnCpu(spl'[curthread[d]], count'[curthread[d]], irq'[d],
                    c_spinlocks'[d], frames'[curthread[d]], pc'[curthread[d]])
    BY DEF CpusOK
  <2>2. CASE d = c
    BY <2>2, <1>1 DEF IInv, TypeOK
  <2>3. CASE d # c
    <3>1. curthread[d] # t /\ curthread[d] \in Threads
      BY <2>3 DEF IInv, TypeOK, OneCpu
    <3>2. OnCpu(spl[curthread[d]], count[curthread[d]], irq[d],
                c_spinlocks[d], frames[curthread[d]], pc[curthread[d]])
      BY DEF IInv, CpusOK
    <3> QED BY <3>1, <3>2, <2>3 DEF IInv, TypeOK
  <2> QED BY <2>2, <2>3
<1>5. SavedOK'
  <2>1. SUFFICES ASSUME NEW u \in Threads, pc'[u] = "saved"
        PROVE Waiting(spl'[u], count'[u], frames'[u])
    BY DEF SavedOK
  <2>2. u # t /\ pc[u] = "saved"
    BY <2>1, <1>1 DEF IInv, TypeOK
  <2>3. Waiting(spl[u], count[u], frames[u])
    BY <2>2 DEF IInv, SavedOK
  <2> QED BY <2>2, <2>3 DEF IInv, TypeOK
<1> QED BY <1>2, <1>3, <1>4, <1>5 DEF IInv

\* What the invariant says of a cpu and its thread, with names.
Here(c, t, sp, ct, iq, n, s, p) ==
    /\ t = curthread[c]
    /\ sp = spl[t]
    /\ ct = count[t]
    /\ iq = irq[c]
    /\ n = c_spinlocks[c]
    /\ s = frames[t]
    /\ p = pc[t]

Places == {"none", "run", "switch", "idle", "saved"}

LEMMA HereHolds ==
  ASSUME IInv, NEW c \in Cpus
  PROVE  \E t \in Threads, sp \in Levels, ct \in Nat, iq \in Switches, n \in Nat,
            s \in Seq(Frame), p \in Places :
            Here(c, t, sp, ct, iq, n, s, p) /\ OnCpu(sp, ct, iq, n, s, p)
<1> DEFINE t == curthread[c]
<1>1. t \in Threads
  BY DEF IInv, TypeOK
<1>2. spl[t] \in Levels /\ count[t] \in Nat /\ irq[c] \in Switches /\ c_spinlocks[c] \in Nat
  BY <1>1 DEF IInv, TypeOK, Levels, Switches
<1>3. frames[t] \in Seq(Frame) /\ pc[t] \in Places
  BY <1>1 DEF IInv, TypeOK, Frame, Levels, Switches, Places
<1>4. OnCpu(spl[t], count[t], irq[c], c_spinlocks[c], frames[t], pc[t])
  BY DEF IInv, CpusOK
<1>5. Here(c, t, spl[t], count[t], irq[c], c_spinlocks[c], frames[t], pc[t])
  BY DEF Here
<1> HIDE DEF t
<1> QED BY <1>1, <1>2, <1>3, <1>4, <1>5

\* The frame on top, when there is one of that kind.
LEMMA TopFrame ==
  ASSUME NEW t, NEW kind, NEW s \in Seq(Frame), s = frames[t], TopIs(t, kind)
  PROVE  Len(s) > 0 /\ Top(t) = s[Len(s)] /\ s[Len(s)].kind = kind
<1>1. s # <<>> => Len(s) \in Nat \ {0}
  BY EmptySeq
<1> QED BY <1>1 DEF TopIs, Top

\* splx up from a level, and down from the high one.
LEMMA SplxUp ==
  ASSUME NEW st, NEW sp \in Levels, NEW ct, NEW iq, st.spl = sp, st.count = ct, st.irq = iq
  PROVE  /\ splx(st, IPL_HIGH).spl = IPL_HIGH
         /\ splx(st, IPL_HIGH).count = IF sp = IPL_NONE THEN ct + 1 ELSE ct
         /\ splx(st, IPL_HIGH).irq = IF sp = IPL_NONE THEN (IF ct = 0 THEN Off ELSE iq) ELSE iq
<1>1. CASE sp = IPL_NONE
  <2>1. splx(st, IPL_HIGH) = WithLevel(splraise(st), IPL_HIGH)
    BY <1>1 DEF splx, IPL_NONE, IPL_HIGH
  <2> QED BY <1>1, <2>1 DEF WithLevel, splraise
<1>2. CASE sp = IPL_HIGH
  <2>1. splx(st, IPL_HIGH) = st
    BY <1>2 DEF splx, IPL_HIGH
  <2> QED BY <1>2, <2>1 DEF IPL_NONE, IPL_HIGH
<1> QED BY <1>1, <1>2 DEF Levels

LEMMA SplxDown ==
  ASSUME NEW st, NEW lv \in Levels, NEW ct, NEW iq, st.spl = IPL_HIGH, st.count = ct, st.irq = iq
  PROVE  /\ splx(st, lv).spl = lv
         /\ splx(st, lv).count = IF lv = IPL_NONE THEN ct - 1 ELSE ct
         /\ splx(st, lv).irq = IF lv = IPL_NONE THEN (IF ct = 1 THEN On ELSE iq) ELSE iq
<1>1. CASE lv = IPL_NONE
  <2>1. splx(st, lv) = spllower(WithLevel(st, lv))
    BY <1>1 DEF splx, IPL_NONE, IPL_HIGH
  <2> QED BY <1>1, <2>1 DEF WithLevel, spllower
<1>2. CASE lv = IPL_HIGH
  <2>1. splx(st, lv) = st
    BY <1>2 DEF splx, IPL_HIGH
  <2> QED BY <1>2, <2>1 DEF IPL_NONE, IPL_HIGH
<1> QED BY <1>1, <1>2 DEF Levels

\* The state a cpu works on.
LEMMA StateHere ==
  ASSUME NEW c, NEW t, NEW sp, NEW ct, NEW iq, NEW n, NEW s, NEW p,
         Here(c, t, sp, ct, iq, n, s, p)
  PROVE  State(c).spl = sp /\ State(c).count = ct /\ State(c).irq = iq
BY DEF Here, State

\* splhigh keeps the invariant.
LEMMA SplhighInv ==
  ASSUME IInv, NEW c \in Cpus, splhigh(c)
  PROVE  IInv'
<1>1. PICK t \in Threads, sp \in Levels, ct \in Nat, iq \in Switches, n \in Nat,
           s \in Seq(Frame), p \in Places :
           Here(c, t, sp, ct, iq, n, s, p) /\ OnCpu(sp, ct, iq, n, s, p)
  BY HereHolds
<1>0. t = curthread[c]
  BY <1>1 DEF Here
<1>2. p = "run"
  BY <1>1 DEF Here, splhigh, InKernel
<1> DEFINE f == [kind |-> "spl", spl |-> sp, irq |-> iq]
<1>3. f \in Frame
  BY DEF Frame, Kinds, Switches
<1>4. PICK q : q = Append(s, f)
  OBVIOUS
<1>5. Pushed(q, s, f)
  BY <1>3, <1>4, PushFrames
<1>6. PICK ct2, iq2 : /\ ct2 = IF sp = IPL_NONE THEN ct + 1 ELSE ct
                      /\ iq2 = IF sp = IPL_NONE THEN (IF ct = 0 THEN Off ELSE iq) ELSE iq
  OBVIOUS
<1>7. OnCpu(IPL_HIGH, ct2, iq2, n, q, p)
  BY <1>1, <1>2, <1>5, <1>6, SplhighOnCpu
<1>8. Local(c, t, IPL_HIGH, ct2, iq2, n, q, p)
  <2> DEFINE r == splx(State(c), IPL_HIGH)
  <2>1. r.spl = IPL_HIGH /\ r.count = ct2 /\ r.irq = iq2
    BY <1>1, <1>6, StateHere, SplxUp
  <2>2. Becomes(c, r) /\ Push(c, "spl") /\ UNCHANGED <<curthread, c_spinlocks, pc>>
    BY DEF splhigh
  <2> HIDE DEF r
  <2> QED BY <1>1, <1>4, <2>1, <2>2 DEF Here, Becomes, Push, Local, IInv, TypeOK
<1>9. ct2 \in Nat /\ iq2 \in Switches
  BY <1>6 DEF Switches
<1>10. q \in Seq(Frame) /\ IPL_HIGH \in Levels
  BY <1>5 DEF Pushed, Levels
<1> QED BY <1>1, <1>0, <1>7, <1>8, <1>9, <1>10, LocalStep

\* splx at the end of a section keeps it.
LEMMA SplrestoreInv ==
  ASSUME IInv, NEW c \in Cpus, splrestore(c)
  PROVE  IInv'
<1>1. PICK t \in Threads, sp \in Levels, ct \in Nat, iq \in Switches, n \in Nat,
           s \in Seq(Frame), p \in Places :
           Here(c, t, sp, ct, iq, n, s, p) /\ OnCpu(sp, ct, iq, n, s, p)
  BY HereHolds
<1>0. t = curthread[c]
  BY <1>1 DEF Here
<1>2. p = "run"
  BY <1>1 DEF Here, splrestore, InKernel
<1>3. Len(s) > 0 /\ Top(t) = s[Len(s)] /\ s[Len(s)].kind = "spl"
  BY <1>1, TopFrame DEF Here, splrestore
<1>4. PICK lv, q : lv = s[Len(s)].spl /\ q = SubSeq(s, 1, Len(s) - 1)
  OBVIOUS
<1>5. Popped(q, s)
  BY <1>3, <1>4, PopFrames
<1>6. /\ sp = IPL_HIGH /\ lv \in Levels
      /\ lv = IPL_HIGH => OnCpu(IPL_HIGH, ct, iq, n, q, p)
      /\ lv = IPL_NONE => OnCpu(IPL_NONE, ct - 1, IF ct = 1 THEN On ELSE iq, n, q, p) /\ ct - 1 \in Nat
  BY <1>1, <1>2, <1>3, <1>4, <1>5, SplxOnCpu
<1>7. PICK ct2, iq2 : /\ ct2 = IF lv = IPL_NONE THEN ct - 1 ELSE ct
                      /\ iq2 = IF lv = IPL_NONE THEN (IF ct = 1 THEN On ELSE iq) ELSE iq
  OBVIOUS
<1>8. OnCpu(lv, ct2, iq2, n, q, p) /\ ct2 \in Nat
  BY <1>6, <1>7 DEF Levels, IPL_NONE, IPL_HIGH
<1>9. Local(c, t, lv, ct2, iq2, n, q, p)
  <2> DEFINE r == splx(State(c), lv)
  <2>1. r.spl = lv /\ r.count = ct2 /\ r.irq = iq2
    BY <1>1, <1>6, <1>7, StateHere, SplxDown
  <2>2. Becomes(c, r) /\ Pop(t) /\ UNCHANGED <<curthread, c_spinlocks, pc>>
    BY <1>1, <1>3, <1>4 DEF splrestore, Here
  <2> HIDE DEF r
  <2> QED BY <1>1, <1>4, <2>1, <2>2 DEF Here, Becomes, Pop, Local, IInv, TypeOK
<1>10. iq2 \in Switches /\ q \in Seq(Frame)
  BY <1>5, <1>7 DEF Popped, Switches
<1> QED BY <1>1, <1>0, <1>6, <1>8, <1>9, <1>10, LocalStep

\* Taking a spinlock keeps it.
LEMMA AcquireInv ==
  ASSUME IInv, NEW c \in Cpus, spinlock_acquire(c)
  PROVE  IInv'
<1>1. PICK t \in Threads, sp \in Levels, ct \in Nat, iq \in Switches, n \in Nat,
           s \in Seq(Frame), p \in Places :
           Here(c, t, sp, ct, iq, n, s, p) /\ OnCpu(sp, ct, iq, n, s, p)
  BY HereHolds
<1>0. t = curthread[c]
  BY <1>1 DEF Here
<1>2. p = "run" \/ (p = "idle" /\ Len(s) > 0 /\ s[Len(s)].kind = "irq")
  BY <1>1, TopFrame DEF Here, spinlock_acquire, InCode, InKernel
<1>3. PICK iq2 : iq2 = IF ct = 0 THEN Off ELSE iq
  OBVIOUS
<1>4. OnCpu(sp, ct + 1, iq2, n + 1, s, p)
  BY <1>1, <1>2, <1>3, RaiseOnCpu
<1>5. Local(c, t, sp, ct + 1, iq2, n + 1, s, p)
  <2> DEFINE r == splraise(State(c))
  <2>1. r.spl = sp /\ r.count = ct + 1 /\ r.irq = iq2
    BY <1>1, <1>3 DEF Here, splraise, State
  <2>2. /\ Becomes(c, r) /\ UNCHANGED <<curthread, frames, pc>>
        /\ c_spinlocks' = [c_spinlocks EXCEPT ![c] = n + 1]
    BY <1>1 DEF spinlock_acquire, Here, IInv, TypeOK
  <2> HIDE DEF r
  <2> QED BY <1>1, <2>1, <2>2 DEF Here, Becomes, Local, IInv, TypeOK
<1>6. iq2 \in Switches /\ ct + 1 \in Nat /\ n + 1 \in Nat
  BY <1>3 DEF Switches
<1> QED BY <1>1, <1>0, <1>4, <1>5, <1>6, LocalStep

\* Releasing one keeps it.
LEMMA ReleaseInv ==
  ASSUME IInv, NEW c \in Cpus, spinlock_release(c)
  PROVE  IInv'
<1>1. PICK t \in Threads, sp \in Levels, ct \in Nat, iq \in Switches, n \in Nat,
           s \in Seq(Frame), p \in Places :
           Here(c, t, sp, ct, iq, n, s, p) /\ OnCpu(sp, ct, iq, n, s, p)
  BY HereHolds
<1>0. t = curthread[c]
  BY <1>1 DEF Here
<1>2. p = "run" \/ (p = "idle" /\ Len(s) > 0 /\ s[Len(s)].kind = "irq")
  BY <1>1, TopFrame DEF Here, spinlock_release, InCode, InKernel
<1>3. n > 0
  BY <1>1 DEF Here, spinlock_release
<1>4. PICK iq2 : iq2 = IF ct = 1 THEN On ELSE iq
  OBVIOUS
<1>5. OnCpu(sp, ct - 1, iq2, n - 1, s, p) /\ ct - 1 \in Nat
  BY <1>1, <1>2, <1>3, <1>4, LowerOnCpu
<1>6. Local(c, t, sp, ct - 1, iq2, n - 1, s, p)
  <2> DEFINE r == spllower(State(c))
  <2>1. r.spl = sp /\ r.count = ct - 1 /\ r.irq = iq2
    BY <1>1, <1>4 DEF Here, spllower, State
  <2>2. /\ Becomes(c, r) /\ UNCHANGED <<curthread, frames, pc>>
        /\ c_spinlocks' = [c_spinlocks EXCEPT ![c] = n - 1]
    BY <1>1 DEF spinlock_release, Here, IInv, TypeOK
  <2> HIDE DEF r
  <2> QED BY <1>1, <2>1, <2>2 DEF Here, Becomes, Local, IInv, TypeOK
<1>7. iq2 \in Switches /\ n - 1 \in Nat
  BY <1>3, <1>4 DEF Switches
<1> QED BY <1>1, <1>0, <1>5, <1>6, <1>7, LocalStep

\* An interrupt keeps it.
LEMMA InterruptEnterInv ==
  ASSUME IInv, NEW c \in Cpus, InterruptEnter(c)
  PROVE  IInv'
<1>1. PICK t \in Threads, sp \in Levels, ct \in Nat, iq \in Switches, n \in Nat,
           s \in Seq(Frame), p \in Places :
           Here(c, t, sp, ct, iq, n, s, p) /\ OnCpu(sp, ct, iq, n, s, p)
  BY HereHolds
<1>0. t = curthread[c]
  BY <1>1 DEF Here
<1>2. \/ p = "run" /\ iq = On
      \/ p = "idle" /\ Len(s) > 0 /\ s[Len(s)].kind # "irq"
  <2>1. CASE p = "idle" /\ ~ TopIs(t, "irq")
    <3>1. Len(s) > 0
      BY <1>1, <2>1, LenProperties DEF OnCpu
    <3>2. s # <<>>
      BY <3>1
    <3> QED BY <1>1, <2>1, <3>1, <3>2 DEF TopIs, Top, Here
  <2> QED BY <1>1, <2>1 DEF InterruptEnter, InKernel, Here
<1> DEFINE f == [kind |-> "irq", spl |-> sp, irq |-> iq]
<1>3. f \in Frame
  BY DEF Frame, Kinds, Switches
<1>4. PICK q : q = Append(s, f)
  OBVIOUS
<1>5. Pushed(q, s, f)
  BY <1>3, <1>4, PushFrames
<1>6. PICK ct2 : ct2 = IF sp = IPL_NONE THEN ct + 1 ELSE ct
  OBVIOUS
<1>7. OnCpu(IPL_HIGH, ct2, Off, n, q, p)
  BY <1>1, <1>2, <1>5, <1>6, EnterOnCpu
<1>8. Local(c, t, IPL_HIGH, ct2, Off, n, q, p)
  <2> DEFINE r == Adjusted(State(c))
  <2>1. r.spl = IPL_HIGH /\ r.count = ct2 /\ r.irq = Off
    <3>1. State(c).spl = sp /\ State(c).count = ct
      BY <1>1, StateHere
    <3>2. CASE sp = IPL_NONE
      BY <3>1, <3>2, <1>6 DEF Adjusted
    <3>3. CASE sp = IPL_HIGH
      BY <3>1, <3>3, <1>6 DEF Adjusted, IrqOff, IPL_NONE, IPL_HIGH
    <3> QED BY <3>2, <3>3 DEF Levels
  <2>2. Becomes(c, r) /\ Push(c, "irq") /\ UNCHANGED <<curthread, c_spinlocks, pc>>
    BY DEF InterruptEnter
  <2> HIDE DEF r
  <2> QED BY <1>1, <1>4, <2>1, <2>2 DEF Here, Becomes, Push, Local, IInv, TypeOK
<1>9. ct2 \in Nat /\ q \in Seq(Frame) /\ IPL_HIGH \in Levels /\ Off \in Switches
  BY <1>5, <1>6 DEF Pushed, Levels, Switches
<1> QED BY <1>1, <1>0, <1>7, <1>8, <1>9, LocalStep

\* The return from an interrupt keeps it.
LEMMA InterruptExitInv ==
  ASSUME IInv, NEW c \in Cpus, InterruptExit(c)
  PROVE  IInv'
<1>1. PICK t \in Threads, sp \in Levels, ct \in Nat, iq \in Switches, n \in Nat,
           s \in Seq(Frame), p \in Places :
           Here(c, t, sp, ct, iq, n, s, p) /\ OnCpu(sp, ct, iq, n, s, p)
  BY HereHolds
<1>0. t = curthread[c]
  BY <1>1 DEF Here
<1>2. p \in {"run", "idle"} /\ n = 0
  BY <1>1 DEF Here, InterruptExit
<1>3. Len(s) > 0 /\ Top(t) = s[Len(s)] /\ s[Len(s)].kind = "irq"
  BY <1>1, TopFrame DEF Here, InterruptExit
<1>4. PICK f, q : f = s[Len(s)] /\ q = SubSeq(s, 1, Len(s) - 1)
  OBVIOUS
<1>5. Popped(q, s)
  BY <1>3, <1>4, PopFrames
<1>6. PICK ct2 : ct2 = IF f.spl = IPL_NONE THEN ct - 1 ELSE ct
  OBVIOUS
<1>7. OnCpu(f.spl, ct2, f.irq, 0, q, p) /\ f \in Frame /\ ct = 1
  BY <1>1, <1>2, <1>3, <1>4, <1>5, <1>6, ExitOnCpu
<1>8. Local(c, t, f.spl, ct2, f.irq, 0, q, p)
  BY <1>1, <1>2, <1>3, <1>4, <1>6 DEF InterruptExit, Pop, Local, Here, IInv, TypeOK
<1>9. f.spl \in Levels /\ f.irq \in Switches /\ ct2 \in Nat /\ q \in Seq(Frame)
  BY <1>5, <1>6, <1>7 DEF Frame, Popped, Switches
<1> QED BY <1>1, <1>0, <1>7, <1>8, <1>9, LocalStep

\* A trap keeps it.
LEMMA TrapEnterInv ==
  ASSUME IInv, NEW c \in Cpus, TrapEnter(c)
  PROVE  IInv'
<1>1. PICK t \in Threads, sp \in Levels, ct \in Nat, iq \in Switches, n \in Nat,
           s \in Seq(Frame), p \in Places :
           Here(c, t, sp, ct, iq, n, s, p) /\ OnCpu(sp, ct, iq, n, s, p)
  BY HereHolds
<1>0. t = curthread[c]
  BY <1>1 DEF Here
<1>2. p = "run"
  BY <1>1 DEF Here, TrapEnter, InKernel
<1> DEFINE f == [kind |-> "trap", spl |-> sp, irq |-> iq]
<1>3. f \in Frame
  BY DEF Frame, Kinds, Switches
<1>4. PICK q, iq2 : q = Append(s, f) /\ iq2 = IF ct = 0 THEN On ELSE Off
  OBVIOUS
<1>5. Pushed(q, s, f)
  BY <1>3, <1>4, PushFrames
<1>6. OnCpu(sp, ct, iq2, n, q, p)
  BY <1>1, <1>2, <1>4, <1>5, TrapOnCpu
<1>7. Local(c, t, sp, ct, iq2, n, q, p)
  <2>1. PICK a, b, r : /\ a = IrqOff(State(c))
                       /\ b = splx(a, IPL_HIGH)
                       /\ r = splx(b, sp)
    OBVIOUS
  <2>2. a.spl = sp /\ a.count = ct /\ a.irq = Off
    BY <1>1, <2>1, StateHere DEF IrqOff
  <2>3. /\ b.spl = IPL_HIGH /\ b.irq = Off
        /\ b.count = IF sp = IPL_NONE THEN ct + 1 ELSE ct
    BY <2>1, <2>2, SplxUp
  <2>4. /\ r.spl = sp
        /\ r.count = IF sp = IPL_NONE THEN b.count - 1 ELSE b.count
        /\ r.irq = IF sp = IPL_NONE THEN (IF b.count = 1 THEN On ELSE b.irq) ELSE b.irq
    BY <2>1, <2>3, SplxDown
  <2>5. sp = IPL_HIGH => ct # 0
    BY <1>1 DEF OnCpu, IPL_HIGH
  <2>6. r.count = ct /\ r.irq = iq2
    BY <1>4, <2>3, <2>4, <2>5 DEF Levels, IPL_NONE, IPL_HIGH
  <2>7. Becomes(c, r) /\ Push(c, "trap") /\ UNCHANGED <<curthread, c_spinlocks, pc>>
    BY <1>1, <2>1 DEF TrapEnter, Here
  <2> QED BY <1>1, <1>4, <2>4, <2>6, <2>7 DEF Here, Becomes, Push, Local, IInv, TypeOK
<1>8. iq2 \in Switches /\ q \in Seq(Frame)
  BY <1>4, <1>5 DEF Pushed, Switches
<1> QED BY <1>1, <1>0, <1>6, <1>7, <1>8, LocalStep

\* The return from a trap keeps it.
LEMMA TrapExitInv ==
  ASSUME IInv, NEW c \in Cpus, TrapExit(c)
  PROVE  IInv'
<1>1. PICK t \in Threads, sp \in Levels, ct \in Nat, iq \in Switches, n \in Nat,
           s \in Seq(Frame), p \in Places :
           Here(c, t, sp, ct, iq, n, s, p) /\ OnCpu(sp, ct, iq, n, s, p)
  BY HereHolds
<1>0. t = curthread[c]
  BY <1>1 DEF Here
<1>2. p = "run"
  BY <1>1 DEF Here, TrapExit, InKernel
<1>3. Len(s) > 0 /\ Top(t) = s[Len(s)] /\ s[Len(s)].kind = "trap"
  BY <1>1, TopFrame DEF Here, TrapExit
<1>4. PICK iq2, q : iq2 = s[Len(s)].irq /\ q = SubSeq(s, 1, Len(s) - 1)
  OBVIOUS
<1>5. Popped(q, s)
  BY <1>3, <1>4, PopFrames
<1>6. /\ s[Len(s)].irq = On => n = 0
      /\ s[Len(s)].irq = Off /\ s[Len(s)].spl = IPL_NONE => n > 0
  BY <1>1, <1>3 DEF TrapExit, Here
<1>7. OnCpu(sp, ct, iq2, n, q, p) /\ iq2 \in Switches
  BY <1>1, <1>2, <1>3, <1>4, <1>5, <1>6, TrapExitOnCpu
<1>8. Local(c, t, sp, ct, iq2, n, q, p)
  BY <1>1, <1>3, <1>4 DEF TrapExit, Pop, Local, Here, IInv, TypeOK
<1>9. q \in Seq(Frame)
  BY <1>5 DEF Popped
<1> QED BY <1>1, <1>0, <1>7, <1>8, <1>9, LocalStep

\* Leaving a cpu keeps it.
LEMMA SwitchOutInv ==
  ASSUME IInv, NEW c \in Cpus, NEW r, InKernel(c), c_spinlocks[c] \in {0, 1}, SwitchOut(c, r),
         r.spl = IPL_HIGH, r.count = 2, r.irq = Off
  PROVE  IInv'
<1>1. PICK t \in Threads, sp \in Levels, ct \in Nat, iq \in Switches, n \in Nat,
           s \in Seq(Frame), p \in Places :
           Here(c, t, sp, ct, iq, n, s, p) /\ OnCpu(sp, ct, iq, n, s, p)
  BY HereHolds
<1>0. t = curthread[c]
  BY <1>1 DEF Here
<1>2. p = "run" /\ n \in {0, 1}
  BY <1>1 DEF Here, InKernel
<1> DEFINE f == [kind |-> "switch", spl |-> sp, irq |-> iq]
<1>3. f \in Frame
  BY DEF Frame, Kinds, Switches
<1>4. PICK q : q = Append(s, f)
  OBVIOUS
<1>5. Pushed(q, s, f)
  BY <1>3, <1>4, PushFrames
<1>6. OnCpu(IPL_HIGH, 2, Off, 1, q, "switch")
  BY <1>1, <1>2, <1>5, SwitchOutOnCpu
<1>7. Local(c, t, IPL_HIGH, 2, Off, 1, q, "switch")
  BY <1>1, <1>4 DEF SwitchOut, Becomes, Push, Local, Here
<1>8. q \in Seq(Frame) /\ IPL_HIGH \in Levels /\ Off \in Switches
  BY <1>5 DEF Pushed, Levels, Switches
<1> QED BY <1>1, <1>0, <1>6, <1>7, <1>8, LocalStep

LEMMA SwitchSleepInv ==
  ASSUME IInv, NEW c \in Cpus, SwitchSleep(c)
  PROVE  IInv'
<1>1. PICK t \in Threads, sp \in Levels, ct \in Nat, iq \in Switches, n \in Nat,
           s \in Seq(Frame), p \in Places :
           Here(c, t, sp, ct, iq, n, s, p) /\ OnCpu(sp, ct, iq, n, s, p)
  BY HereHolds
<1>0. t = curthread[c]
  BY <1>1 DEF Here
<1>2. p = "run" /\ n = 1
  BY <1>1 DEF Here, SwitchSleep, InKernel
<1>3. ct = sp + 1 /\ iq = Off
  BY <1>1, <1>2 DEF OnCpu, Levels, IPL_NONE, IPL_HIGH, Switches
<1>4. PICK a, b, r : a = splx(State(c), IPL_HIGH) /\ b = splraise(a) /\ r = spllower(b)
  OBVIOUS
<1>5. a.spl = IPL_HIGH /\ a.count = 2 /\ a.irq = Off
  <2>0. State(c).spl = sp /\ State(c).count = ct /\ State(c).irq = iq
    BY <1>1, StateHere
  <2>1. /\ a.spl = IPL_HIGH
        /\ a.count = IF sp = IPL_NONE THEN ct + 1 ELSE ct
        /\ a.irq = IF sp = IPL_NONE THEN (IF ct = 0 THEN Off ELSE iq) ELSE iq
    BY <1>4, <2>0, SplxUp
  <2> QED BY <1>3, <2>1 DEF Levels, IPL_NONE, IPL_HIGH
<1>6. b.spl = IPL_HIGH /\ b.count = 3 /\ b.irq = Off
  BY <1>4, <1>5 DEF splraise
<1>7. r.spl = IPL_HIGH /\ r.count = 2 /\ r.irq = Off
  BY <1>4, <1>6 DEF spllower
<1>8. InKernel(c) /\ SwitchOut(c, r) /\ c_spinlocks[c] \in {0, 1}
  BY <1>4 DEF SwitchSleep
<1> QED BY <1>7, <1>8, SwitchOutInv

LEMMA SwitchYieldInv ==
  ASSUME IInv, NEW c \in Cpus, SwitchYield(c)
  PROVE  IInv'
<1>1. PICK t \in Threads, sp \in Levels, ct \in Nat, iq \in Switches, n \in Nat,
           s \in Seq(Frame), p \in Places :
           Here(c, t, sp, ct, iq, n, s, p) /\ OnCpu(sp, ct, iq, n, s, p)
  BY HereHolds
<1>0. t = curthread[c]
  BY <1>1 DEF Here
<1>2. p = "run" /\ n = 0
  BY <1>1 DEF Here, SwitchYield, InKernel
<1>3. Len(s) > 0 /\ s[Len(s)].kind = "irq"
  BY <1>1, TopFrame DEF Here, SwitchYield
<1>4. sp = IPL_HIGH
  BY <1>1, <1>3 DEF OnCpu, Stack, After
<1>5. ct = 1 /\ iq = Off
  BY <1>1, <1>2, <1>4 DEF OnCpu, IPL_HIGH, Switches
<1>6. PICK a, r : a = splx(State(c), IPL_HIGH) /\ r = splraise(a)
  OBVIOUS
<1>7. a.spl = IPL_HIGH /\ a.count = 1 /\ a.irq = Off
  BY <1>1, <1>4, <1>5, <1>6, StateHere, SplxUp DEF IPL_NONE, IPL_HIGH
<1>8. r.spl = IPL_HIGH /\ r.count = 2 /\ r.irq = Off
  BY <1>6, <1>7 DEF splraise
<1>9. InKernel(c) /\ SwitchOut(c, r) /\ c_spinlocks[c] \in {0, 1}
  BY <1>6 DEF SwitchYield
<1> QED BY <1>8, <1>9, SwitchOutInv

\* The idle loop keeps it.
LEMMA IdleInv ==
  ASSUME IInv, NEW c \in Cpus, Idle(c)
  PROVE  IInv'
<1>1. PICK t \in Threads, sp \in Levels, ct \in Nat, iq \in Switches, n \in Nat,
           s \in Seq(Frame), p \in Places :
           Here(c, t, sp, ct, iq, n, s, p) /\ OnCpu(sp, ct, iq, n, s, p)
  BY HereHolds
<1>0. t = curthread[c]
  BY <1>1 DEF Here
<1>2. p = "switch"
  BY <1>1 DEF Here, Idle
<1>3. PICK iq2 : iq2 = IF ct = 1 THEN On ELSE iq
  OBVIOUS
<1>4. ct = 2 /\ OnCpu(sp, ct - 1, iq2, 0, s, "idle")
  BY <1>1, <1>2, <1>3, IdleOnCpu
<1>5. Local(c, t, sp, ct - 1, iq2, 0, s, "idle")
  <2> DEFINE r == spllower(State(c))
  <2>1. r.spl = sp /\ r.count = ct - 1 /\ r.irq = iq2
    BY <1>1, <1>3, StateHere DEF spllower
  <2>2. /\ Becomes(c, r) /\ UNCHANGED <<curthread, frames>>
        /\ c_spinlocks' = [c_spinlocks EXCEPT ![c] = 0]
        /\ pc' = [pc EXCEPT ![curthread[c]] = "idle"]
    BY DEF Idle
  <2> HIDE DEF r
  <2> QED BY <1>1, <2>1, <2>2 DEF Here, Becomes, Local, IInv, TypeOK
<1>6. iq2 \in Switches /\ ct - 1 \in Nat
  BY <1>3, <1>4 DEF Switches
<1> QED BY <1>1, <1>0, <1>4, <1>5, <1>6, LocalStep

LEMMA UnidleInv ==
  ASSUME IInv, NEW c \in Cpus, Unidle(c)
  PROVE  IInv'
<1>1. PICK t \in Threads, sp \in Levels, ct \in Nat, iq \in Switches, n \in Nat,
           s \in Seq(Frame), p \in Places :
           Here(c, t, sp, ct, iq, n, s, p) /\ OnCpu(sp, ct, iq, n, s, p)
  BY HereHolds
<1>0. t = curthread[c]
  BY <1>1 DEF Here
<1>2. p = "idle"
  BY <1>1 DEF Here, Unidle
<1>3. Len(s) > 0 /\ s[Len(s)].kind = "switch"
  BY <1>1, TopFrame DEF Here, Unidle
<1>4. PICK ct2, iq2, n2 : ct2 = ct + 1 /\ iq2 = (IF ct = 0 THEN Off ELSE iq) /\ n2 = 1
  OBVIOUS
<1>5. OnCpu(sp, ct2, iq2, n2, s, "switch")
  BY <1>1, <1>2, <1>3, <1>4, UnidleOnCpu
<1>6. Local(c, t, sp, ct2, iq2, n2, s, "switch")
  <2> DEFINE r == splraise(State(c))
  <2>1. r.spl = sp /\ r.count = ct2 /\ r.irq = iq2
    BY <1>1, <1>4, StateHere DEF splraise
  <2>2. /\ Becomes(c, r) /\ UNCHANGED <<curthread, frames>>
        /\ c_spinlocks' = [c_spinlocks EXCEPT ![c] = n2]
        /\ pc' = [pc EXCEPT ![curthread[c]] = "switch"]
    BY <1>4 DEF Unidle
  <2> HIDE DEF r
  <2> QED BY <1>1, <2>1, <2>2 DEF Here, Becomes, Local, IInv, TypeOK
<1>7. iq2 \in Switches /\ ct2 \in Nat /\ n2 \in Nat
  BY <1>4 DEF Switches
<1> QED BY <1>1, <1>0, <1>5, <1>6, <1>7, LocalStep

\* Coming back on a cpu keeps it: the thread that leaves waits as one that
\* thread_switch has left, and the one that comes back counts what is there.
LEMMA SwitchInInv ==
  ASSUME IInv, NEW c \in Cpus, NEW u \in Threads, SwitchIn(c, u)
  PROVE  IInv'
<1>1. PICK t \in Threads, sp \in Levels, ct \in Nat, iq \in Switches, n \in Nat,
           s \in Seq(Frame), p \in Places :
           Here(c, t, sp, ct, iq, n, s, p) /\ OnCpu(sp, ct, iq, n, s, p)
  BY HereHolds
<1>0. t = curthread[c]
  BY <1>1 DEF Here
<1>2. p = "switch" /\ pc[t] = "switch"
  BY <1>1 DEF Here, SwitchIn
<1>3. Waiting(sp, ct, s) /\ iq = Off
  BY <1>1, <1>2, IdleOnCpu
<1>4. PICK usp \in Levels, uct \in Nat, us \in Seq(Frame) : usp = spl[u] /\ uct = count[u] /\ us = frames[u]
  BY DEF IInv, TypeOK, Levels, Frame, Switches
<1>5. pc[u] = "saved" \/ u = t
  BY <1>1 DEF SwitchIn, Here
<1>6. Waiting(usp, uct, us)
  <2>1. CASE u = t BY <2>1, <1>1, <1>3, <1>4 DEF Here
  <2>2. CASE pc[u] = "saved" BY <2>2, <1>4 DEF IInv, SavedOK
  <2> QED BY <2>1, <2>2, <1>5
<1>7. PICK lv, q : lv = us[Len(us)].spl /\ q = SubSeq(us, 1, Len(us) - 1)
  OBVIOUS
<1>8. Popped(q, us)
  BY <1>6, <1>7, PopFrames DEF Waiting
<1>9. /\ lv \in Levels
      /\ lv = IPL_NONE => OnCpu(lv, 0, On, 0, q, "run")
      /\ lv = IPL_HIGH => OnCpu(lv, 1, Off, 0, q, "run")
  BY <1>6, <1>7, <1>8, SwitchInOnCpu
<1>10. PICK a, r : /\ a = spllower([spl |-> spl[u], count |-> count[u], irq |-> irq[c]])
                   /\ r = splx(a, lv)
  OBVIOUS
<1>11. a.spl = IPL_HIGH /\ a.count = 1 /\ a.irq = Off
  <2>1. spl[u] = IPL_HIGH /\ count[u] = 2 /\ irq[c] = Off
    BY <1>1, <1>3, <1>4, <1>6 DEF Waiting, Here
  <2> QED BY <1>10, <2>1 DEF spllower
<1>12. PICK ct2, iq2 : ct2 = r.count /\ iq2 = r.irq
  OBVIOUS
<1>13. /\ r.spl = lv
       /\ ct2 = IF lv = IPL_NONE THEN 0 ELSE 1
       /\ iq2 = IF lv = IPL_NONE THEN On ELSE Off
  <2>1. /\ r.spl = lv
        /\ r.count = IF lv = IPL_NONE THEN 1 - 1 ELSE 1
        /\ r.irq = IF lv = IPL_NONE THEN (IF 1 = 1 THEN On ELSE Off) ELSE Off
    BY <1>9, <1>10, <1>11, SplxDown, SMTT(30)
  <2> QED BY <1>12, <2>1
<1>14. OnCpu(lv, ct2, iq2, 0, q, "run") /\ ct2 \in Nat /\ iq2 \in Switches /\ q \in Seq(Frame)
  BY <1>8, <1>9, <1>13 DEF Levels, IPL_NONE, IPL_HIGH, Switches, Popped
<1>15. /\ curthread' = [curthread EXCEPT ![c] = u]
       /\ pc' = [pc EXCEPT ![t] = "saved", ![u] = "run"]
       /\ spl' = [spl EXCEPT ![u] = lv]
       /\ count' = [count EXCEPT ![u] = ct2]
       /\ irq' = [irq EXCEPT ![c] = iq2]
       /\ c_spinlocks' = [c_spinlocks EXCEPT ![c] = 0]
       /\ frames' = [frames EXCEPT ![u] = q]
  <2>1. Top(u).spl = lv
    BY <1>4, <1>7 DEF Top
  <2> QED BY <1>1, <1>4, <1>7, <1>10, <1>12, <1>13, <2>1 DEF SwitchIn, Pop, Here
<1>16. \A d \in Cpus : d # c => curthread[d] # t /\ curthread[d] # u /\ curthread[d] \in Threads
  <2>1. \A d \in Cpus : pc[curthread[d]] # "saved"
    BY DEF IInv, CpusOK, OnCpu
  <2> QED BY <1>1, <2>1, <1>5 DEF IInv, OneCpu, TypeOK, Here
<1>17. TypeOK'
  <2>1. curthread' \in [Cpus -> Threads] /\ irq' \in [Cpus -> {Off, On}] /\ c_spinlocks' \in [Cpus -> Nat]
    BY <1>14, <1>15 DEF IInv, TypeOK, Switches
  <2>2. spl' \in [Threads -> {IPL_NONE, IPL_HIGH}] /\ count' \in [Threads -> Nat]
    BY <1>9, <1>14, <1>15 DEF IInv, TypeOK, Levels
  <2>3. frames' \in [Threads -> Seq(Frame)]
    BY <1>14, <1>15 DEF IInv, TypeOK, Frame, Levels, Switches
  <2>4. pc' \in [Threads -> {"none", "run", "switch", "idle", "saved"}]
    BY <1>15 DEF IInv, TypeOK
  <2> QED BY <2>1, <2>2, <2>3, <2>4 DEF TypeOK, Frame, Levels, Switches
<1>18. OneCpu'
  BY <1>15, <1>16 DEF IInv, OneCpu, TypeOK
<1>19. CpusOK'
  <2>1. SUFFICES ASSUME NEW d \in Cpus
        PROVE OnCpu(spl'[curthread'[d]], count'[curthread'[d]], irq'[d],
                    c_spinlocks'[d], frames'[curthread'[d]], pc'[curthread'[d]])
    BY DEF CpusOK
  <2>2. CASE d = c
    <3>1. curthread'[d] = u /\ spl'[u] = lv /\ count'[u] = ct2 /\ irq'[d] = iq2
          /\ c_spinlocks'[d] = 0 /\ frames'[u] = q /\ pc'[u] = "run"
      BY <2>2, <1>15 DEF IInv, TypeOK
    <3> QED BY <3>1, <1>14
  <2>3. CASE d # c
    <3> DEFINE w == curthread[d]
    <3>1. OnCpu(spl[w], count[w], irq[d], c_spinlocks[d], frames[w], pc[w])
      BY DEF IInv, CpusOK
    <3>2. w # t /\ w # u /\ w \in Threads /\ curthread'[d] = w
      BY <2>3, <1>15, <1>16 DEF IInv, TypeOK
    <3> HIDE DEF w
    <3>3. spl'[w] = spl[w] /\ count'[w] = count[w] /\ irq'[d] = irq[d]
          /\ c_spinlocks'[d] = c_spinlocks[d] /\ frames'[w] = frames[w] /\ pc'[w] = pc[w]
      BY <3>2, <2>3, <1>15 DEF IInv, TypeOK
    <3> QED BY <3>1, <3>2, <3>3
  <2> QED BY <2>2, <2>3
<1>20. SavedOK'
  <2>1. SUFFICES ASSUME NEW v \in Threads, pc'[v] = "saved"
        PROVE Waiting(spl'[v], count'[v], frames'[v])
    BY DEF SavedOK
  <2>2. v # u
    BY <2>1, <1>15 DEF IInv, TypeOK
  <2>3. pc[v] = "saved" \/ v = t
    BY <2>1, <2>2, <1>15 DEF IInv, TypeOK
  <2>4. Waiting(spl[v], count[v], frames[v])
    <3>1. CASE v = t BY <3>1, <1>1, <1>3 DEF Here
    <3>2. CASE pc[v] = "saved" BY <3>2 DEF IInv, SavedOK
    <3> QED BY <3>1, <3>2, <2>3
  <2>5. spl'[v] = spl[v] /\ count'[v] = count[v] /\ frames'[v] = frames[v]
    BY <2>2, <1>15 DEF IInv, TypeOK
  <2> QED BY <2>4, <2>5
<1> QED BY <1>17, <1>18, <1>19, <1>20 DEF IInv

\* A new thread waits as one that thread_switch has left.
LEMMA ForkInv ==
  ASSUME IInv, NEW c \in Cpus, NEW u \in Threads, thread_fork(c, u)
  PROVE  IInv'
<1> DEFINE f == [kind |-> "switch", spl |-> IPL_NONE, irq |-> Off]
           q == <<f>>
<1>1. f \in Frame /\ FrameOK(f) /\ After(f) = IPL_HIGH
  BY DEF Frame, Kinds, Levels, FrameOK, After, Switches
<1>2. q \in Seq(Frame) /\ Len(q) = 1 /\ q[1] = f
  <2> HIDE DEF f
  <2> QED BY <1>1
<1>3. Waiting(IPL_HIGH, 2, q)
  <2> HIDE DEF q
  <2>1. Stack(q, IPL_HIGH)
    <3>1. \A i \in 1 .. Len(q) : i = 1
      BY <1>2
    <3>2. Len(q) - 1 = 0 /\ 1 .. 0 = {}
      BY <1>2
    <3>3. \A i \in 1 .. Len(q) : FrameOK(q[i])
      BY <1>1, <1>2, <3>1
    <3>4. \A i \in 1 .. Len(q) - 1 : q[i+1].spl = After(q[i])
      BY <3>2
    <3>5. IPL_HIGH = After(q[Len(q)])
      BY <1>1, <1>2
    <3> HIDE DEF f
    <3> QED BY <3>3, <3>4, <3>5 DEF Stack
  <2> QED BY <1>2, <2>1 DEF Waiting
<1>4. /\ pc' = [pc EXCEPT ![u] = "saved"]
      /\ spl' = [spl EXCEPT ![u] = IPL_HIGH]
      /\ count' = [count EXCEPT ![u] = 2]
      /\ frames' = [frames EXCEPT ![u] = q]
      /\ curthread' = curthread /\ irq' = irq /\ c_spinlocks' = c_spinlocks
      /\ pc[u] = "none"
  BY DEF thread_fork, NewCount
<1> HIDE DEF q, f
<1>5. \A d \in Cpus : curthread[d] # u /\ curthread[d] \in Threads
  BY <1>4 DEF IInv, CpusOK, OnCpu, TypeOK
<1>6. TypeOK'
  <2>1. curthread' \in [Cpus -> Threads] /\ irq' \in [Cpus -> {Off, On}] /\ c_spinlocks' \in [Cpus -> Nat]
    BY <1>4 DEF IInv, TypeOK
  <2>2. spl' \in [Threads -> {IPL_NONE, IPL_HIGH}] /\ count' \in [Threads -> Nat]
    BY <1>4 DEF IInv, TypeOK
  <2>3. frames' \in [Threads -> Seq(Frame)]
    BY <1>2, <1>4 DEF IInv, TypeOK, Frame, Levels, Switches
  <2>4. pc' \in [Threads -> {"none", "run", "switch", "idle", "saved"}]
    BY <1>4 DEF IInv, TypeOK
  <2> QED BY <2>1, <2>2, <2>3, <2>4 DEF TypeOK, Frame, Levels, Switches
<1>7. OneCpu'
  BY <1>4 DEF IInv, OneCpu
<1>8. CpusOK'
  <2>1. SUFFICES ASSUME NEW d \in Cpus
        PROVE OnCpu(spl'[curthread[d]], count'[curthread[d]], irq[d],
                    c_spinlocks[d], frames'[curthread[d]], pc'[curthread[d]])
    BY <1>4 DEF CpusOK
  <2>2. OnCpu(spl[curthread[d]], count[curthread[d]], irq[d],
              c_spinlocks[d], frames[curthread[d]], pc[curthread[d]])
    BY DEF IInv, CpusOK
  <2> QED BY <2>2, <1>4, <1>5 DEF IInv, TypeOK
<1>9. SavedOK'
  <2>1. SUFFICES ASSUME NEW v \in Threads, pc'[v] = "saved"
        PROVE Waiting(spl'[v], count'[v], frames'[v])
    BY DEF SavedOK
  <2>2. CASE v = u
    BY <2>2, <1>3, <1>4 DEF IInv, TypeOK
  <2>3. CASE v # u
    <3>1. pc[v] = "saved"
      BY <2>1, <2>3, <1>4 DEF IInv, TypeOK
    <3>2. Waiting(spl[v], count[v], frames[v])
      BY <3>1 DEF IInv, SavedOK
    <3> QED BY <2>3, <3>2, <1>4 DEF IInv, TypeOK
  <2> QED BY <2>2, <2>3
<1> QED BY <1>6, <1>7, <1>8, <1>9 DEF IInv

-----------------------------------------------------------------------------
(* The theorems *)

LEMMA InitInv ==
  ASSUME Init
  PROVE  IInv
<1>1. \A t \in Threads : frames[t] \in Seq(Frame) /\ Len(frames[t]) = 0
  BY EmptySeq DEF Init
<1>2. TypeOK
  <2>1. frames \in [Threads -> Seq(Frame)]
    BY <1>1 DEF Init
  <2>2. curthread \in [Cpus -> Threads]
    BY SplAssumption DEF Init
  <2> QED BY <2>1, <2>2 DEF Init, TypeOK, Frame, Levels, IPL_NONE, IPL_HIGH, On, Off, Switches
<1>3. OneCpu
  BY SplAssumption DEF Init, OneCpu
<1>4. \A s : Len(s) = 0 => Stack(s, IPL_NONE)
  BY DEF Stack
<1>5. CpusOK
  <2>1. SUFFICES ASSUME NEW c \in Cpus
        PROVE OnCpu(spl[curthread[c]], count[curthread[c]], irq[c],
                    c_spinlocks[c], frames[curthread[c]], pc[curthread[c]])
    BY DEF CpusOK
  <2>2. curthread[c] \in Threads /\ curthread[c] = BootThread(c)
    BY SplAssumption DEF Init
  <2>3. /\ spl[curthread[c]] = IPL_NONE /\ count[curthread[c]] = 0 /\ irq[c] = On
        /\ c_spinlocks[c] = 0 /\ pc[curthread[c]] = "run"
    BY <2>2 DEF Init
  <2> QED BY <2>2, <2>3, <1>1, <1>4 DEF OnCpu, IPL_NONE, On
<1>6. SavedOK
  BY DEF Init, SavedOK
<1> QED BY <1>2, <1>3, <1>5, <1>6 DEF IInv

\* Every action keeps the invariant.
LEMMA NextInv ==
  ASSUME IInv, Next
  PROVE  IInv'
<1>1. PICK c \in Cpus :
        \/ splhigh(c) \/ splrestore(c)
        \/ spinlock_acquire(c) \/ spinlock_release(c)
        \/ InterruptEnter(c) \/ InterruptExit(c) \/ TrapEnter(c) \/ TrapExit(c)
        \/ SwitchSleep(c) \/ SwitchYield(c) \/ Idle(c) \/ Unidle(c)
        \/ \E u \in Threads : SwitchIn(c, u) \/ thread_fork(c, u)
  BY DEF Next
<1>2. CASE splhigh(c) BY <1>2, SplhighInv
<1>3. CASE splrestore(c) BY <1>3, SplrestoreInv
<1>4. CASE spinlock_acquire(c) BY <1>4, AcquireInv
<1>5. CASE spinlock_release(c) BY <1>5, ReleaseInv
<1>6. CASE InterruptEnter(c) BY <1>6, InterruptEnterInv
<1>7. CASE InterruptExit(c) BY <1>7, InterruptExitInv
<1>8. CASE TrapEnter(c) BY <1>8, TrapEnterInv
<1>9. CASE TrapExit(c) BY <1>9, TrapExitInv
<1>10. CASE SwitchSleep(c) BY <1>10, SwitchSleepInv
<1>11. CASE SwitchYield(c) BY <1>11, SwitchYieldInv
<1>12. CASE Idle(c) BY <1>12, IdleInv
<1>13. CASE Unidle(c) BY <1>13, UnidleInv
<1>14. CASE \E u \in Threads : SwitchIn(c, u) \/ thread_fork(c, u)
  BY <1>14, SwitchInInv, ForkInv
<1> QED BY <1>1, <1>2, <1>3, <1>4, <1>5, <1>6, <1>7, <1>8, <1>9, <1>10, <1>11, <1>12, <1>13, <1>14

LEMMA Inductive == Spec => []IInv
<1>1. Init => IInv
  BY InitInv
<1>2. IInv /\ [Next]_vars => IInv'
  <2> SUFFICES ASSUME IInv, [Next]_vars PROVE IInv'
    OBVIOUS
  <2>1. CASE Next BY <2>1, NextInv
  <2>2. CASE UNCHANGED vars
    BY <2>2 DEF vars, IInv, TypeOK, OneCpu, CpusOK, SavedOK
  <2> QED BY <2>1, <2>2
<1> QED BY <1>1, <1>2, PTL DEF Spec

\* Whatever spinlocks, splhigh sections, interrupts, traps and context switches
\* do on whichever cpus, t_iplhigh_count is the level plus the spinlocks held.
THEOREM CountIsExact == Spec => []CountExact
<1>1. IInv => CountExact
  BY DEF IInv, CpusOK, SavedOK, OnCpu, Waiting, CountExact
<1> QED BY <1>1, Inductive, PTL

\* Interrupts are on exactly when t_iplhigh_count of the current thread is 0.
THEOREM IrqTracks == Spec => []IrqTracksCount
<1>1. IInv => IrqTracksCount
  BY DEF IInv, CpusOK, OnCpu, IrqTracksCount
<1> QED BY <1>1, Inductive, PTL

\* The assertions of mips_trap at the end of a handler hold.
THEOREM HandlersAreBalanced == Spec => []HandlersBalanced
<1>1. IInv => HandlersBalanced
  <2> SUFFICES ASSUME IInv, NEW c \in Cpus, TopIs(curthread[c], "irq"),
                      pc[curthread[c]] = "run", c_spinlocks[c] = 0
               PROVE  spl[curthread[c]] = IPL_HIGH /\ count[curthread[c]] = 1
    BY DEF HandlersBalanced
  <2>1. PICK t \in Threads, sp \in Levels, ct \in Nat, iq \in Switches, n \in Nat,
             s \in Seq(Frame), p \in Places :
             Here(c, t, sp, ct, iq, n, s, p) /\ OnCpu(sp, ct, iq, n, s, p)
    BY HereHolds
  <2>2. Len(s) > 0 /\ s[Len(s)].kind = "irq"
    BY <2>1, TopFrame DEF Here
  <2>3. sp = IPL_HIGH /\ ct = sp + n
    BY <2>1, <2>2 DEF OnCpu, Stack, After
  <2> QED BY <2>1, <2>3 DEF Here, IPL_HIGH
<1> QED BY <1>1, Inductive, PTL

=============================================================================

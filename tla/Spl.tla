-------------------------------- MODULE Spl --------------------------------
(***************************************************************************)
(* Interrupt state (kern/thread/spl.c, spinlock.c) and the places that     *)
(* carry it from one thread to another: thread_switch and thread_fork of   *)
(* thread.c and mips_trap of arch/mips/locore/trap.c.                      *)
(*                                                                         *)
(* A thread counts in t_iplhigh_count the reasons for which interrupts     *)
(* are off: its own level and every spinlock its cpu holds.  The run queue *)
(* lock is taken by one thread and released by the next.  frames is the    *)
(* part of the kernel stack that remembers levels to go back to.           *)
(***************************************************************************)
EXTENDS Naturals, Sequences

CONSTANTS
    Cpus,
    Threads,
    BootThread(_),
    MaxLocks,      \* bound: spinlocks a cpu holds at a time
    MaxFrames      \* bound: nested splhigh sections, traps and switches

ASSUME SplAssumption ==
    /\ \A c \in Cpus : BootThread(c) \in Threads
    /\ \A c, d \in Cpus : c # d => BootThread(c) # BootThread(d)
    /\ MaxLocks \in Nat \ {0} /\ MaxFrames \in Nat

VARIABLES
    curthread,    \* cpu -> its thread
    irq,          \* cpu -> On when the processor takes interrupts
    c_spinlocks,  \* cpu -> the number of spinlocks it holds
    spl,          \* thread -> t_curspl: 0 is IPL_NONE, 1 is IPL_HIGH
    count,        \* thread -> t_iplhigh_count
    frames,       \* thread -> levels to restore
    pc            \* thread -> "none", "run", "switch", "idle", "saved"

vars == <<curthread, irq, c_spinlocks, spl, count, frames, pc>>

IPL_NONE == 0
IPL_HIGH == 1

Off == 0
On == 1

Init ==
    /\ curthread = [c \in Cpus |-> BootThread(c)]
    /\ irq = [c \in Cpus |-> On]
    /\ c_spinlocks = [c \in Cpus |-> 0]
    /\ spl = [t \in Threads |-> IPL_NONE]
    /\ count = [t \in Threads |-> 0]
    /\ frames = [t \in Threads |-> <<>>]
    /\ pc = [t \in Threads |-> IF \E c \in Cpus : t = BootThread(c) THEN "run" ELSE "none"]

(***************************************************************************)
(* The interrupt state of a thread on its cpu, s = [spl, count, irq].      *)
(***************************************************************************)
State(c) == [spl |-> spl[curthread[c]], count |-> count[curthread[c]], irq |-> irq[c]]

splraise(s) == [spl |-> s.spl, count |-> s.count + 1, irq |-> IF s.count = 0 THEN Off ELSE s.irq]

\* (bug: interrupts go on with the first lower)
spllower_eager(s) == [spl |-> s.spl, count |-> s.count - 1, irq |-> On]

spllower(s) == [spl |-> s.spl, count |-> s.count - 1, irq |-> IF s.count = 1 THEN On ELSE s.irq]

WithLevel(s, level) == [spl |-> level, count |-> s.count, irq |-> s.irq]

splx(s, level) ==
    IF s.spl < level THEN WithLevel(splraise(s), level)
    ELSE IF s.spl > level THEN spllower(WithLevel(s, level))
    ELSE s

\* The current thread of c is in state s.
Becomes(c, s) ==
    /\ spl' = [spl EXCEPT ![curthread[c]] = s.spl]
    /\ count' = [count EXCEPT ![curthread[c]] = s.count]
    /\ irq' = [irq EXCEPT ![c] = s.irq]

Top(t) == frames[t][Len(frames[t])]
TopIs(t, kind) == frames[t] # <<>> /\ Top(t).kind = kind
Push(c, kind) ==
    /\ Len(frames[curthread[c]]) < MaxFrames
    /\ frames' = [frames EXCEPT ![curthread[c]] =
                    Append(@, [kind |-> kind, spl |-> spl[curthread[c]], irq |-> irq[c]])]
Pop(t) == frames' = [frames EXCEPT ![t] = SubSeq(@, 1, Len(@) - 1)]

InKernel(c) == pc[curthread[c]] = "run"

-----------------------------------------------------------------------------
(* Code with interrupts off and with spinlocks *)

splhigh(c) ==
    /\ InKernel(c)
    /\ Becomes(c, splx(State(c), IPL_HIGH))
    /\ Push(c, "spl")
    /\ UNCHANGED <<curthread, c_spinlocks, pc>>

splrestore(c) ==
    /\ InKernel(c)
    /\ TopIs(curthread[c], "spl")
    /\ Becomes(c, splx(State(c), Top(curthread[c]).spl))
    /\ Pop(curthread[c])
    /\ UNCHANGED <<curthread, c_spinlocks, pc>>

\* In a running thread, or in an interrupt handler while the cpu idles.
InCode(c) == InKernel(c) \/ (pc[curthread[c]] = "idle" /\ TopIs(curthread[c], "irq"))

spinlock_acquire(c) ==
    /\ InCode(c)
    /\ c_spinlocks[c] < MaxLocks
    /\ Becomes(c, splraise(State(c)))
    /\ c_spinlocks' = [c_spinlocks EXCEPT ![c] = @ + 1]
    /\ UNCHANGED <<curthread, frames, pc>>

spinlock_release(c) ==
    /\ InCode(c)
    /\ c_spinlocks[c] > 0
    /\ Becomes(c, spllower(State(c)))
    /\ c_spinlocks' = [c_spinlocks EXCEPT ![c] = @ - 1]
    /\ UNCHANGED <<curthread, frames, pc>>

-----------------------------------------------------------------------------
(* mips_trap *)

IrqOff(s) == [spl |-> s.spl, count |-> s.count, irq |-> Off]

\* (bug: the recorded state is adjusted without the count)
Adjusted_level(s) == WithLevel(IrqOff(s), IPL_HIGH)

\* The processor turns interrupts off, and the recorded state follows.
Adjusted(s) ==
    IF s.spl = IPL_NONE
    THEN [spl |-> IPL_HIGH, count |-> s.count + 1, irq |-> Off]
    ELSE IrqOff(s)

\* A cpu takes interrupts when they are on, and in the idle loop.
InterruptEnter(c) ==
    /\ \/ InKernel(c) /\ irq[c] = On
       \/ pc[curthread[c]] = "idle" /\ ~TopIs(curthread[c], "irq")
    /\ Becomes(c, Adjusted(State(c)))
    /\ Push(c, "irq")
    /\ UNCHANGED <<curthread, c_spinlocks, pc>>

\* The handler has released its locks; the adjustment is undone and the return
\* from the exception brings back the state of the processor.
InterruptExit(c) ==
    LET t == curthread[c] IN
    /\ TopIs(t, "irq")
    /\ pc[t] \in {"run", "idle"}
    /\ c_spinlocks[c] = 0
    /\ spl' = [spl EXCEPT ![t] = Top(t).spl]
    /\ count' = [count EXCEPT ![t] = IF Top(t).spl = IPL_NONE THEN @ - 1 ELSE @]
    /\ irq' = [irq EXCEPT ![c] = Top(t).irq]
    /\ Pop(t)
    /\ UNCHANGED <<curthread, c_spinlocks, pc>>

\* A system call or a fault: splhigh and splx bring the processor back to what
\* is recorded.
TrapEnter(c) ==
    /\ InKernel(c)
    /\ Becomes(c, splx(splx(IrqOff(State(c)), IPL_HIGH), spl[curthread[c]]))
    /\ Push(c, "trap")
    /\ UNCHANGED <<curthread, c_spinlocks, pc>>

\* The handler leaves the locks it found, none when it returns to user mode.
TrapExit(c) ==
    LET t == curthread[c] IN
    /\ InKernel(c)
    /\ TopIs(t, "trap")
    /\ Top(t).irq = On => c_spinlocks[c] = 0
    /\ Top(t).irq = Off /\ Top(t).spl = IPL_NONE => c_spinlocks[c] > 0
    /\ irq' = [irq EXCEPT ![c] = Top(t).irq]
    /\ Pop(t)
    /\ UNCHANGED <<curthread, c_spinlocks, spl, count, pc>>

-----------------------------------------------------------------------------
(* thread_switch *)

\* splhigh and the run queue lock; after it the cpu holds that lock only.
SwitchOut(c, s) ==
    /\ Becomes(c, s)
    /\ Push(c, "switch")
    /\ pc' = [pc EXCEPT ![curthread[c]] = "switch"]
    /\ c_spinlocks' = [c_spinlocks EXCEPT ![c] = 1]
    /\ UNCHANGED curthread

\* From wchan_sleep, which asserts that the lock of the channel is the only one
\* and that this is not an interrupt handler.
SwitchSleep(c) ==
    /\ InKernel(c)
    /\ \A i \in DOMAIN frames[curthread[c]] : frames[curthread[c]][i].kind # "irq"
    /\ c_spinlocks[c] = 1
    /\ SwitchOut(c, spllower(splraise(splx(State(c), IPL_HIGH))))

\* From thread_yield, in the timer interrupt.
SwitchYield(c) ==
    /\ InKernel(c)
    /\ TopIs(curthread[c], "irq")
    /\ c_spinlocks[c] = 0
    /\ SwitchOut(c, splraise(splx(State(c), IPL_HIGH)))

\* The idle loop gives the run queue lock up and takes it again.
Idle(c) ==
    /\ pc[curthread[c]] = "switch"
    /\ Becomes(c, spllower(State(c)))
    /\ c_spinlocks' = [c_spinlocks EXCEPT ![c] = 0]
    /\ pc' = [pc EXCEPT ![curthread[c]] = "idle"]
    /\ UNCHANGED <<curthread, frames>>

Unidle(c) ==
    /\ pc[curthread[c]] = "idle"
    /\ TopIs(curthread[c], "switch")
    /\ Becomes(c, splraise(State(c)))
    /\ c_spinlocks' = [c_spinlocks EXCEPT ![c] = 1]
    /\ pc' = [pc EXCEPT ![curthread[c]] = "switch"]
    /\ UNCHANGED <<curthread, frames>>

\* Thread u comes back on cpu c, which need not be the one it left: it releases
\* the run queue lock its predecessor took, and goes back to its own level.
SwitchIn(c, u) ==
    /\ pc[curthread[c]] = "switch"
    /\ pc[u] = "saved" \/ u = curthread[c]
    /\ curthread' = [curthread EXCEPT ![c] = u]
    /\ pc' = [pc EXCEPT ![curthread[c]] = "saved", ![u] = "run"]
    /\ LET s == splx(spllower([spl |-> spl[u], count |-> count[u], irq |-> irq[c]]), Top(u).spl) IN
        /\ spl' = [spl EXCEPT ![u] = s.spl]
        /\ count' = [count EXCEPT ![u] = s.count]
        /\ irq' = [irq EXCEPT ![c] = s.irq]
    /\ c_spinlocks' = [c_spinlocks EXCEPT ![c] = 0]
    /\ Pop(u)

\* (bug: the run queue lock is not counted)
NewCount_level == 1

\* thread_create counts the level and thread_fork the run queue lock.
NewCount == 2

\* The new thread starts in thread_startup, which ends with spl0.
thread_fork(c, u) ==
    /\ InKernel(c)
    /\ pc[u] = "none"
    /\ pc' = [pc EXCEPT ![u] = "saved"]
    /\ spl' = [spl EXCEPT ![u] = IPL_HIGH]
    /\ count' = [count EXCEPT ![u] = NewCount]
    /\ frames' = [frames EXCEPT ![u] = <<[kind |-> "switch", spl |-> IPL_NONE, irq |-> Off]>>]
    /\ UNCHANGED <<curthread, irq, c_spinlocks>>

Next ==
    \E c \in Cpus :
        \/ splhigh(c) \/ splrestore(c)
        \/ spinlock_acquire(c) \/ spinlock_release(c)
        \/ InterruptEnter(c) \/ InterruptExit(c) \/ TrapEnter(c) \/ TrapExit(c)
        \/ SwitchSleep(c) \/ SwitchYield(c) \/ Idle(c) \/ Unidle(c)
        \/ \E u \in Threads : SwitchIn(c, u) \/ thread_fork(c, u)

Spec == Init /\ [][Next]_vars

-----------------------------------------------------------------------------
(* Properties *)

Kinds == {"spl", "irq", "trap", "switch"}

TypeOK ==
    /\ curthread \in [Cpus -> Threads]
    /\ irq \in [Cpus -> {Off, On}]
    /\ c_spinlocks \in [Cpus -> Nat]
    /\ spl \in [Threads -> {IPL_NONE, IPL_HIGH}]
    /\ count \in [Threads -> Nat]
    /\ frames \in [Threads -> Seq([kind : Kinds, spl : {IPL_NONE, IPL_HIGH}, irq : {Off, On}])]
    /\ pc \in [Threads -> {"none", "run", "switch", "idle", "saved"}]

\* The reasons a thread counts are the ones there are: its level and the
\* spinlocks of its cpu.  A thread that is not on a cpu counts its level and
\* the run queue lock it will release, whichever cpu it comes back on.
CountExact ==
    /\ \A c \in Cpus : count[curthread[c]] = spl[curthread[c]] + c_spinlocks[c]
    /\ \A t \in Threads : pc[t] = "saved" => spl[t] = IPL_HIGH /\ count[t] = 2

\* The processor takes interrupts exactly when the thread counts no reason
\* against it, so spinlocks and splhigh sections may overlap in any order.
IrqTracksCount == \A c \in Cpus : irq[c] = On <=> count[curthread[c]] = 0

\* What mips_trap asserts when a handler comes back: it has undone what it did.
HandlersBalanced ==
    \A c \in Cpus :
        TopIs(curthread[c], "irq") /\ pc[curthread[c]] = "run" /\ c_spinlocks[c] = 0
            => spl[curthread[c]] = IPL_HIGH /\ count[curthread[c]] = 1

=============================================================================

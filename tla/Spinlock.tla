------------------------------ MODULE Spinlock ------------------------------
(***************************************************************************)
(* The spin lock of kernel/spinlock.c on a set of harts, with the          *)
(* interrupt nesting (push_off / pop_off) that every lock operation goes   *)
(* through, at the granularity at which an interrupt can be taken or       *)
(* another hart can step in: one label per access to lk->locked, lk->cpu,  *)
(* sstatus.SIE or the cpu's noff/intena pair.                              *)
(*                                                                         *)
(* The code between the calls is abstracted to "run": it may call          *)
(* acquire, release or myproc, or turn interrupts on or off while it holds *)
(* no lock (what scheduler() does).  Interrupt handlers are code of the    *)
(* same kind on the interrupted hart.  A local variable is reset when the  *)
(* call that uses it no longer needs it.  Memory is sequentially           *)
(* consistent: __sync_synchronize() is taken at its word.                  *)
(***************************************************************************)
EXTENDS Integers, FiniteSets

CONSTANTS Cpus,     \* the harts, indices of cpus[] (NCPU is 1 in this build)
          Locks,    \* the spin locks
          NoCpu,    \* the null lk->cpu
          NoLock,   \* the operand of push_off/pop_off called on its own
          Nestable  \* pairs <<m, l>>: code that holds m may acquire l

ASSUME SpinlockAssumption ==
    /\ NoCpu \notin Cpus
    /\ NoLock \notin Locks
    /\ IsFiniteSet(Locks)
    /\ Nestable \subseteq Locks \X Locks

VARIABLES
    locked,  \* lk->locked
    owner,   \* lk->cpu
    sie,     \* sstatus.SIE of each hart: interrupts enabled
    noff,    \* cpus[c].noff
    intena,  \* cpus[c].intena
    pc,      \* where the code running on each hart is
    arg,     \* the lock operand of the call in progress
    old,     \* the local variable of push_off()
    held,    \* locks the running code is inside of: acquire returned,
             \* release not yet called
    trap,    \* whether each hart is running an interrupt handler
    spc, sarg, sold,  \* the interrupted code's pc, arg and old
    base     \* history: the interrupt state the code outside handlers chose

hartVars == <<sie, noff, intena>>
codeVars == <<pc, arg, old, held>>
trapVars == <<trap, spc, sarg, sold>>
vars == <<locked, owner, hartVars, codeVars, trapVars, base>>

PushLabels == {"po_get", "po_off", "po_inc"}
AcqLabels  == {"acq_hold", "acq_swap", "acq_own"}
RelLabels  == {"rel_hold", "rel_own", "rel_clear"}
Labels     == {"run", "pop"} \cup PushLabels \cup AcqLabels \cup RelLabels

(* holding(lk) as evaluated on hart c *)
holding(c, l) == locked[l] /\ owner[l] = c

(* initlock: every lock is free, every hart starts with no push_off pending *)
Init ==
    /\ locked = [l \in Locks |-> FALSE]
    /\ owner = [l \in Locks |-> NoCpu]
    /\ base \in [Cpus -> BOOLEAN]
    /\ sie = base
    /\ noff = [c \in Cpus |-> 0]
    /\ intena = [c \in Cpus |-> FALSE]
    /\ pc = [c \in Cpus |-> "run"]
    /\ arg = [c \in Cpus |-> NoLock]
    /\ old = [c \in Cpus |-> FALSE]
    /\ held = [c \in Cpus |-> {}]
    /\ trap = [c \in Cpus |-> FALSE]
    /\ spc = [c \in Cpus |-> "run"]
    /\ sarg = [c \in Cpus |-> NoLock]
    /\ sold = [c \in Cpus |-> FALSE]

(***************************************************************************)
(* Calls made by the running code.                                         *)
(***************************************************************************)
Goto(c, from, to) ==
    /\ pc[c] = from
    /\ pc' = [pc EXCEPT ![c] = to]

(* acquire(l): the kernel never asks for a lock it holds, and nests locks  *)
(* only as Nestable says.                                                  *)
CallAcquire(c, l) ==
    /\ Goto(c, "run", "po_get")
    /\ l \notin held[c]
    /\ \A m \in held[c] : <<m, l>> \in Nestable
    /\ arg' = [arg EXCEPT ![c] = l]
    /\ UNCHANGED <<locked, owner, hartVars, old, held, trapVars, base>>

(* myproc(): push_off, read c->proc, pop_off *)
CallMyproc(c) ==
    /\ Goto(c, "run", "po_get")
    /\ arg' = [arg EXCEPT ![c] = NoLock]
    /\ UNCHANGED <<locked, owner, hartVars, old, held, trapVars, base>>

(* release(l): locks need not be released in the order they were taken     *)
(* (sleep() releases lk while it keeps p->lock).                           *)
CallRelease(c, l) ==
    /\ Goto(c, "run", "rel_hold")
    /\ l \in held[c]
    /\ arg' = [arg EXCEPT ![c] = l]
    /\ held' = [held EXCEPT ![c] = @ \ {l}]
    /\ UNCHANGED <<locked, owner, hartVars, old, trapVars, base>>

(* intr_on() / intr_off() outside any handler with no lock held *)
SetIntr(c, b) ==
    /\ pc[c] = "run" /\ ~trap[c] /\ held[c] = {}
    /\ sie' = [sie EXCEPT ![c] = b]
    /\ base' = [base EXCEPT ![c] = b]
    /\ UNCHANGED <<locked, owner, noff, intena, codeVars, trapVars>>

(***************************************************************************)
(* push_off(): old = intr_get(); intr_off(); then the nesting bookkeeping. *)
(***************************************************************************)
IntrGet(c) ==
    /\ Goto(c, "po_get", "po_off")
    /\ old' = [old EXCEPT ![c] = sie[c]]
    /\ UNCHANGED <<locked, owner, hartVars, arg, held, trapVars, base>>

(* mutant: push_off() does not clear SIE *)
IntrLeftOn(c) ==
    /\ Goto(c, "po_off", "po_inc")
    /\ UNCHANGED <<locked, owner, hartVars, arg, old, held, trapVars, base>>

IntrOff(c) ==
    /\ Goto(c, "po_off", "po_inc")
    /\ sie' = [sie EXCEPT ![c] = FALSE]
    /\ UNCHANGED <<locked, owner, noff, intena, arg, old, held, trapVars, base>>

(* mutant: intena is overwritten by nested push_off()s *)
PushOffAlways(c) ==
    /\ Goto(c, "po_inc", IF arg[c] = NoLock THEN "pop" ELSE "acq_hold")
    /\ intena' = [intena EXCEPT ![c] = old[c]]
    /\ noff' = [noff EXCEPT ![c] = @ + 1]
    /\ old' = [old EXCEPT ![c] = FALSE]
    /\ UNCHANGED <<locked, owner, sie, arg, held, trapVars, base>>

PushOff(c) ==
    /\ Goto(c, "po_inc", IF arg[c] = NoLock THEN "pop" ELSE "acq_hold")
    /\ intena' = IF noff[c] = 0 THEN [intena EXCEPT ![c] = old[c]] ELSE intena
    /\ noff' = [noff EXCEPT ![c] = @ + 1]
    /\ old' = [old EXCEPT ![c] = FALSE]
    /\ UNCHANGED <<locked, owner, sie, arg, held, trapVars, base>>

(***************************************************************************)
(* The rest of acquire().  panic() never returns: where an assertion of    *)
(* the code fails, the hart is stuck, so the assertion is a guard here and *)
(* NoPanic below says it never fails.                                      *)
(***************************************************************************)
AcquireCheck(c) ==
    /\ Goto(c, "acq_hold", "acq_swap")
    /\ ~holding(c, arg[c])
    /\ UNCHANGED <<locked, owner, hartVars, arg, old, held, trapVars, base>>

(* mutant: the lock is taken without looking at the swapped value *)
SetWithoutTest(c) ==
    /\ Goto(c, "acq_swap", "acq_own")
    /\ locked' = [locked EXCEPT ![arg[c]] = TRUE]
    /\ UNCHANGED <<owner, hartVars, arg, old, held, trapVars, base>>

(* the amoswap that finds the lock free; the ones that do not change nothing *)
TestAndSet(c) ==
    /\ Goto(c, "acq_swap", "acq_own")
    /\ ~locked[arg[c]]
    /\ locked' = [locked EXCEPT ![arg[c]] = TRUE]
    /\ UNCHANGED <<owner, hartVars, arg, old, held, trapVars, base>>

AcquireReturn(c) ==
    /\ Goto(c, "acq_own", "run")
    /\ owner' = [owner EXCEPT ![arg[c]] = c]
    /\ held' = [held EXCEPT ![c] = @ \cup {arg[c]}]
    /\ arg' = [arg EXCEPT ![c] = NoLock]
    /\ UNCHANGED <<locked, hartVars, old, trapVars, base>>

(***************************************************************************)
(* release() and pop_off().                                                *)
(***************************************************************************)
ReleaseCheck(c) ==
    /\ Goto(c, "rel_hold", "rel_own")
    /\ holding(c, arg[c])
    /\ UNCHANGED <<locked, owner, hartVars, arg, old, held, trapVars, base>>

ReleaseOwner(c) ==
    /\ Goto(c, "rel_own", "rel_clear")
    /\ owner' = [owner EXCEPT ![arg[c]] = NoCpu]
    /\ UNCHANGED <<locked, hartVars, arg, old, held, trapVars, base>>

ReleaseClear(c) ==
    /\ Goto(c, "rel_clear", "pop")
    /\ locked' = [locked EXCEPT ![arg[c]] = FALSE]
    /\ arg' = [arg EXCEPT ![c] = NoLock]
    /\ UNCHANGED <<owner, hartVars, old, held, trapVars, base>>

(* mutant: the nesting count is dropped by two *)
PopOffTwice(c) ==
    /\ Goto(c, "pop", "run")
    /\ ~sie[c] /\ noff[c] >= 1
    /\ noff' = [noff EXCEPT ![c] = @ - 2]
    /\ sie' = IF noff'[c] = 0 /\ intena[c] THEN [sie EXCEPT ![c] = TRUE] ELSE sie
    /\ UNCHANGED <<locked, owner, intena, arg, old, held, trapVars, base>>

PopOff(c) ==
    /\ Goto(c, "pop", "run")
    /\ ~sie[c] /\ noff[c] >= 1
    /\ noff' = [noff EXCEPT ![c] = @ - 1]
    /\ sie' = IF noff'[c] = 0 /\ intena[c] THEN [sie EXCEPT ![c] = TRUE] ELSE sie
    /\ UNCHANGED <<locked, owner, intena, arg, old, held, trapVars, base>>

(***************************************************************************)
(* Interrupts.  The hardware takes one wherever SIE is set; kernelvec      *)
(* saves the interrupted code and kerneltrap runs with SIE clear.  The     *)
(* handler returns (sret) once it has released what it acquired.           *)
(***************************************************************************)
TakeInterrupt(c) ==
    /\ sie[c]
    /\ trap' = [trap EXCEPT ![c] = TRUE]
    /\ sie' = [sie EXCEPT ![c] = FALSE]
    /\ spc' = [spc EXCEPT ![c] = pc[c]]
    /\ sarg' = [sarg EXCEPT ![c] = arg[c]]
    /\ sold' = [sold EXCEPT ![c] = old[c]]
    /\ pc' = [pc EXCEPT ![c] = "run"]
    /\ arg' = [arg EXCEPT ![c] = NoLock]
    /\ old' = [old EXCEPT ![c] = FALSE]
    /\ UNCHANGED <<locked, owner, noff, intena, held, base>>

Sret(c) ==
    /\ trap[c] /\ pc[c] = "run" /\ held[c] = {}
    /\ trap' = [trap EXCEPT ![c] = FALSE]
    /\ sie' = [sie EXCEPT ![c] = TRUE]
    /\ pc' = [pc EXCEPT ![c] = spc[c]]
    /\ arg' = [arg EXCEPT ![c] = sarg[c]]
    /\ old' = [old EXCEPT ![c] = sold[c]]
    /\ spc' = [spc EXCEPT ![c] = "run"]
    /\ sarg' = [sarg EXCEPT ![c] = NoLock]
    /\ sold' = [sold EXCEPT ![c] = FALSE]
    /\ UNCHANGED <<locked, owner, noff, intena, held, base>>

Step(c) ==
    \/ \E l \in Locks : CallAcquire(c, l)
    \/ \E l \in Locks : CallRelease(c, l)
    \/ CallMyproc(c)
    \/ \E b \in BOOLEAN : SetIntr(c, b)
    \/ IntrGet(c)
    \/ IntrOff(c)
    \/ PushOff(c)
    \/ AcquireCheck(c)
    \/ TestAndSet(c)
    \/ AcquireReturn(c)
    \/ ReleaseCheck(c)
    \/ ReleaseOwner(c)
    \/ ReleaseClear(c)
    \/ PopOff(c)
    \/ TakeInterrupt(c)
    \/ Sret(c)

Next == \E c \in Cpus : Step(c)

Spec == Init /\ [][Next]_vars

-----------------------------------------------------------------------------
(* Types of the lock words, the per-cpu nesting state (struct cpu) and the *)
(* code's position.                                                        *)
TypeOK ==
    /\ locked \in [Locks -> BOOLEAN]
    /\ owner \in [Locks -> Cpus \cup {NoCpu}]
    /\ sie \in [Cpus -> BOOLEAN]
    /\ noff \in [Cpus -> Nat]
    /\ intena \in [Cpus -> BOOLEAN]
    /\ pc \in [Cpus -> Labels]
    /\ arg \in [Cpus -> Locks \cup {NoLock}]
    /\ old \in [Cpus -> BOOLEAN]
    /\ held \in [Cpus -> SUBSET Locks]
    /\ trap \in [Cpus -> BOOLEAN]
    /\ spc \in [Cpus -> Labels]
    /\ sarg \in [Cpus -> Locks \cup {NoLock}]
    /\ sold \in [Cpus -> BOOLEAN]
    /\ base \in [Cpus -> BOOLEAN]

(* acquire/release give mutual exclusion: no lock is inside two harts'     *)
(* critical sections.                                                      *)
MutualExclusion ==
    \A c, d \in Cpus : c # d => held[c] \cap held[d] = {}

(* A hart inside a critical section cannot be interrupted: what makes it   *)
(* safe for handlers (timer_interrupt) to take the same locks.             *)
InterruptsOffInCriticalSection ==
    \A c \in Cpus : held[c] # {} => ~sie[c]

(* None of the panics of spinlock.c is reachable: acquire() of a held      *)
(* lock, release() of one not held, pop_off() with interrupts on or        *)
(* unmatched.                                                              *)
NoPanic ==
    \A c \in Cpus :
        /\ pc[c] = "acq_hold" => ~holding(c, arg[c])
        /\ pc[c] = "rel_hold" => holding(c, arg[c])
        /\ pc[c] = "pop" => ~sie[c] /\ noff[c] >= 1

(* The comment above push_off: pushes and pops are matched, and the last   *)
(* pop_off restores exactly the interrupt state the code had before its    *)
(* first push_off, even if a handler ran and used locks in between.        *)
InterruptStateRestored ==
    \A c \in Cpus :
        pc[c] = "run" /\ held[c] = {} =>
            /\ noff[c] = 0
            /\ sie[c] = (base[c] /\ ~trap[c])

OwningLabels == {"acq_own", "rel_hold", "rel_own", "rel_clear"}

(* the locks hart c has, counting one that a call in progress has won or   *)
(* not yet given back                                                      *)
Poss(c) == held[c] \cup (IF pc[c] \in OwningLabels THEN {arg[c]} ELSE {})

(* acquire() only ever waits for another hart: no handler asks for a lock  *)
(* the code it interrupted is inside of, and no call for one its own hart  *)
(* has half taken or half released.  Such a wait would never end; with one *)
(* hart (NCPU is 1) it means that acquire() does not wait at all, whatever *)
(* order locks are nested in.                                              *)
WaitsOnlyForOthers ==
    \A c \in Cpus :
        pc[c] = "acq_swap" /\ locked[arg[c]] => \E d \in Cpus \ {c} : arg[c] \in Poss(d)
=============================================================================

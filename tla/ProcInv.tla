------------------------------ MODULE ProcInv ------------------------------
(***************************************************************************)
(* The invariants of Proc, for any size of the process table, any amount   *)
(* of memory and any mix of calls the tasks make.                          *)
(*                                                                         *)
(* On one hart everything hangs on where the thread on the hart is: which  *)
(* locks are held, what interrupts are, who may be in which state.  The    *)
(* inductive invariant spells this out: who is where (CtlInv), the locks   *)
(* (LockInv), SIE, intena and what trapped or switched-out threads will    *)
(* restore (IrqInv), how p->state goes with the place a thread stopped at  *)
(* (StateInv), init (InitInv), the scheduler's pass over the table         *)
(* (PassInv), parents and pids (TreeInv), sleepers (WakeInv) and pages     *)
(* (PageInv).                                                              *)
(***************************************************************************)
EXTENDS Proc, FiniteSetTheorems, TLAPS

(* the labels by the lock that is held there *)
SlotLabels == {"a_test", "u_fin", "c_fin", "s_back"}
OwnLabels  == {"forkret", "sl_sched", "sl_back", "e_sched", "y_sched", "y_back"}
WaitLabels == {"w_scan", "e_reparent", "e_wake", "e_zombie"}
TickLabels == {"sl_ticks", "sl_done"}
TaskFree   == {"a_scan", "c_ret", "f_call", "run", "w_acq", "sl_acq", "sl_reacq", "e_acq", "y_acq"}
SchedFree  == {"s_init", "s_on", "s_off", "s_loop", "s_wfi"}
TrapFree   == {"t_tick", "t_ret"}

BootLabels == {"a_scan", "a_test", "u_fin", "c_fin", "c_ret", "s_back", "panic"} \cup SchedFree \cup TrapFree
TaskLabels == {"a_test", "c_fin", "panic"} \cup OwnLabels \cup WaitLabels \cup TickLabels
                \cup TaskFree \cup TrapFree

(* where a thread that is not on the hart has stopped *)
Suspended == {"none", "forkret", "sl_back", "y_back", "e_dead"}

(* where a thread is in its own code, the handler apart *)
Where(t) == IF savedpc[t] = "none" THEN pc[t] ELSE savedpc[t]

Alive == {"RUNNABLE", "RUNNING", "SLEEPING"}
Created(p) == state[p] \notin {"UNUSED", "USED"}

CtlInv ==
    /\ home[0] = "s_init"
    /\ IF cur = 0
       THEN /\ pc[0] \in BootLabels
            /\ IF pc[0] = "s_back" THEN cproc = slot[0] /\ slot[0] \in Procs ELSE cproc = 0
       ELSE /\ pc[0] = "s_back" /\ cproc = cur /\ slot[0] = cur
            /\ pc[cur] \in TaskLabels
    /\ \A p \in Procs : p # cur => pc[p] \in Suspended
    /\ pc[cur] \in {"a_test", "u_fin", "c_fin"} => slot[cur] \in Procs

LockInv ==
    /\ pc[cur] \in SlotLabels => locks = {slot[cur]}
    /\ pc[cur] \in OwnLabels => locks = {cur}
    /\ pc[cur] \in WaitLabels => locks = {WaitLock}
    /\ pc[cur] \in TickLabels => locks = {TicksLock}
    /\ pc[cur] \in TaskFree \cup SchedFree \cup TrapFree => locks = {}
    /\ pc[cur] = "panic" => locks = {} \/ locks = {slot[cur]}
    /\ locks = {} => hart.noff = 0
    /\ locks # {} => hart.noff = 1 /\ ~hart.sie

(* the interrupt state the code that now runs in thread t has unlocked *)
Own(t) == want[t] /\ savedpc[t] = "none"

(* a thread inside kerneltrap(), or switched out *)
TrapInv(t) ==
    /\ savedpc[t] = "none" => pc[t] \notin TrapFree
    /\ savedpc[t] # "none" =>
         /\ want[t]
         /\ pc[t] \in TrapFree \/ (t # 0 /\ pc[t] \in {"y_acq", "y_sched", "y_back"})
         /\ savedpc[t] \in IF t = 0 THEN {"a_scan", "c_ret", "s_init", "s_on", "s_off", "s_loop", "panic"}
                                    ELSE TaskFree \cup {"panic"}
    /\ pc[t] \in {"sl_back", "y_back"} => (sintena[t] <=> Own(t))

SieInv ==
    /\ pc[cur] \in TaskFree => (hart.sie <=> Own(cur))
    /\ pc[cur] = "panic" /\ locks = {} => (hart.sie => Own(cur))
    /\ pc[cur] \in TrapFree => ~hart.sie
    /\ pc[cur] \in {"a_test", "u_fin", "c_fin", "sl_sched", "e_sched", "y_sched"}
                     \cup WaitLabels \cup TickLabels => (hart.intena <=> Own(cur))

IrqInv == want[0] /\ SieInv /\ \A t \in Threads : TrapInv(t)

(* the state of a process and the place where its thread is *)
PlaceInv(p) ==
    /\ state[p] = "UNUSED" => p # cur /\ pc[p] \in {"none", "e_dead"}
    /\ state[p] = "USED" =>
         /\ p # cur /\ locks = {p}
         /\ (pc[cur] \in {"u_fin", "c_fin"} /\ pc[p] = "forkret") \/ pc[cur] = "panic"
    /\ state[p] = "RUNNABLE" => \/ pc[p] \in {"forkret", "y_back", "sl_back"} /\ p # cur
                                \/ pc[p] = "y_sched"
    /\ state[p] = "SLEEPING" => (pc[p] = "sl_back" /\ p # cur) \/ pc[p] = "sl_sched"
    /\ state[p] = "ZOMBIE" => pc[p] = "e_dead" \/ pc[p] = "e_sched"
    /\ state[p] = "RUNNING" <=> p = cur /\ pc[p] \notin {"sl_sched", "e_sched", "y_sched"}

StateInv ==
    /\ \A p \in Procs : PlaceInv(p)
    /\ pc[cur] \in {"u_fin", "c_fin"} => state[slot[cur]] = "USED"

(* what init_task can be doing *)
InitLabels == {"forkret", "f_call", "w_acq", "w_scan", "sl_sched", "sl_back", "sl_reacq",
               "y_acq", "y_sched", "y_back", "panic"}

SleepLabels == {"sl_acq", "sl_ticks", "sl_sched", "sl_back", "sl_reacq", "sl_done"}

(* the function create_process() or userinit() was given *)
Entry(p) == IF p = initproc THEN "w_acq" ELSE "run"

(* the entry point, which only forkret can lose, and the lock sleep() will *)
(* take back                                                               *)
HomeInv(p) ==
    /\ Created(p) => \/ home[p] = Entry(p)
                     \/ home[p] = "none" /\ Where(p) \in {"f_call", "panic"} /\ want[p]
    /\ Where(p) \notin SleepLabels => lk[p] = WaitLock
    /\ Where(p) \in {"sl_acq", "sl_ticks", "sl_done"} => lk[p] = TicksLock

InitInv ==
    /\ initproc = 0 => /\ cur = 0 /\ Where(0) \in {"a_scan", "a_test", "u_fin", "panic"}
                       /\ \A p \in Procs : ~Created(p)
    /\ initproc # 0 => /\ Created(initproc) /\ state[initproc] # "ZOMBIE"
                       /\ Where(initproc) \in InitLabels
                       /\ lk[initproc] = WaitLock
                       /\ pc[0] # "u_fin"
    /\ \A p \in Procs : HomeInv(p)

PassInv ==
    /\ pc[0] = "s_loop" /\ ~found =>
         ~hart.sie /\ \A p \in Procs : p < slot[0] => state[p] # "RUNNABLE"
    /\ savedpc[0] = "s_loop" => found
    /\ pc[0] = "s_wfi" => ~hart.sie /\ \A p \in Procs : state[p] # "RUNNABLE"

(* a process, its pid and its parent *)
KinInv(p) ==
    /\ ~Created(p) => parent[p] = 0 /\ chan[p] = 0
    /\ state[p] = "UNUSED" => pid[p] = 0
    /\ state[p] # "UNUSED" => pid[p] \in 1..(nextpid - 1)
    /\ parent[p] # 0 => parent[p] # p /\ state[parent[p]] \in Alive
    /\ Created(p) => IF parent[p] = 0 THEN pid[p] \in {1, 2} ELSE pid[p] > 2
    /\ pc[p] \in {"e_wake", "e_zombie"} => Children(p) = {}

(* the pid userinit() and then main() will get, and the tasks after them *)
PidInv ==
    /\ Where(0) \in {"a_scan", "a_test"} => nextpid = IF initproc = 0 THEN 1 ELSE 2
    /\ pc[0] = "u_fin" => nextpid = 2
    /\ pc[0] = "c_fin" => nextpid = 3
    /\ Where(0) \notin {"a_scan", "a_test", "u_fin", "panic"} => nextpid >= 3
    /\ pc[cur] = "c_fin" /\ cur # 0 => nextpid >= 4
    /\ pc[cur] \in {"u_fin", "c_fin"} => pid[slot[cur]] = nextpid - 1

(* the process a thread has just created *)
MadeInv(t) ==
    Where(t) = "c_ret" => slot[t] \in Procs /\ Created(slot[t]) /\ parent[slot[t]] = t

(* pids tell processes apart, and init's is 1 *)
Unique ==
    /\ \A p, q \in Procs : state[p] # "UNUSED" /\ state[q] # "UNUSED" /\ pid[p] = pid[q] => p = q
    /\ initproc # 0 => pid[initproc] = 1 /\ parent[initproc] = 0

TreeInv ==
    /\ \A p \in Procs : KinInv(p)
    /\ PidInv /\ Unique
    /\ \A t \in Threads : MadeInv(t)

(* nobody sleeps in wait_process() with nothing to wait for, or too late *)
SleepInv(p) ==
    /\ chan[p] \in {0, p, TicksChan}
    /\ state[p] = "SLEEPING" /\ chan[p] = p => Children(p) # {} /\ Zombies(p) = {}
    /\ pc[p] = "e_zombie" /\ parent[p] # 0 =>
         ~(state[parent[p]] = "SLEEPING" /\ chan[parent[p]] = parent[p])

WakeInv == \A p \in Procs : SleepInv(p)

InUse == {p \in Procs : state[p] # "UNUSED"}

(* but for the panic of alloc_page, which keeps the slot's lock *)
PageInv ==
    ~(pc[cur] = "panic" /\ locks # {}) =>
        /\ \A p \in Procs : pages[p] = IF p \in InUse THEN PagesPerProc ELSE 0
        /\ nfree + PagesPerProc * Cardinality(InUse) = TotalPages

IInv == /\ TypeOK /\ CtlInv /\ LockInv /\ IrqInv /\ StateInv /\ InitInv
        /\ PassInv /\ TreeInv /\ WakeInv /\ PageInv

-----------------------------------------------------------------------------
(* the calls of tasks that are not intr_on() or intr_off() *)
CallsOf(t) == \/ CallCreate(t) \/ CallWait(t) \/ CallYield(t) \/ CallSleep(t)
              \/ CallReturn(t) \/ \E st \in Statuses : CallExit(t, st)

(* The steps of Next, one by one. *)
LEMMA NextCases ==
    ASSUME Next
    PROVE  \/ SchedulerStart \/ IntrOn \/ IntrOff \/ SchedulerSkip \/ SchedulerSwitch
           \/ SchedulerBack \/ SchedulerPassEnd \/ Wfi \/ TimerExpire
           \/ \E t \in Threads :
                \/ AllocAcquire(t) \/ AllocNext(t) \/ AllocFound(t) \/ AllocNoMemory(t) \/ AllocFull(t)
                \/ UserinitFinish(t) \/ CreateFinish(t) \/ CreateReturn(t)
                \/ Forkret(t) \/ ForkretCall(t) \/ Sched(t)
                \/ WaitAcquire(t) \/ WaitReap(t) \/ WaitNoChildren(t) \/ WaitSleep(t)
                \/ SleepReturn(t) \/ SleepReacquire(t)
                \/ TicksAcquire(t) \/ TicksSleep(t) \/ TicksRelease(t)
                \/ ExitAcquire(t) \/ ExitReparent(t) \/ ExitWakeParent(t) \/ ExitZombie(t)
                \/ YieldAcquire(t) \/ YieldReturn(t)
                \/ TimerInterrupt(t) \/ TrapReturn(t) \/ PanicSpin(t) \/ TakeInterrupt(t)
           \/ \E t \in Procs : CallsOf(t) \/ \E b \in BOOLEAN : CallIntr(t, b)
  BY DEF Next, Kernel, SchedulerStep, KernelStep, Interrupt, Tasks, TaskCall, CallsOf

(* Slots, threads and locks are numbers, and distinct ones. *)
LEMMA Numbers ==
    /\ NPROC \in Nat /\ NPROC >= 2 /\ 0 \notin Procs /\ 0 \in Threads
    /\ Threads = Procs \cup {0} /\ Procs \subseteq Nat
    /\ WaitLock \notin Procs /\ TicksLock \notin Procs /\ WaitLock # TicksLock
    /\ LockIds = Procs \cup {WaitLock, TicksLock}
    /\ TicksChan \notin Threads /\ Procs \subseteq 0..TicksChan /\ {0, TicksChan} \subseteq 0..TicksChan
  BY ProcAssumption DEF Procs, Threads, WaitLock, TicksLock, LockIds, TicksChan

HartType == [sie : BOOLEAN, noff : Nat, intena : BOOLEAN]

(* push_off() with nothing pushed, and the acquire() that does it. *)
LEMMA PushHart ==
    ASSUME NEW h \in HartType, h.noff = 0
    PROVE  /\ PushOff(h) \in HartType
           /\ PushOff(h).noff = 1 /\ PushOff(h).sie = FALSE /\ PushOff(h).intena = h.sie
<1>1. PushOff(h) = [sie |-> FALSE, noff |-> 1, intena |-> h.sie]
  BY DEF PushOff, HartType
<1>2. h.sie \in BOOLEAN
  BY DEF HartType
<1>. QED
  BY <1>1, <1>2 DEF HartType

(* pop_off() of the last push: SIE is what intena says. *)
LEMMA PopHart ==
    ASSUME NEW h \in HartType, h.noff = 1
    PROVE  /\ PopOff(h) \in HartType
           /\ PopOff(h).noff = 0 /\ PopOff(h).sie = h.intena /\ PopOff(h).intena = h.intena
<1>1. h.intena \in BOOLEAN
  BY DEF HartType
<1>2. (h.noff = 1 /\ h.intena) = h.intena
  BY <1>1
<1>3. PopOff(h) = [sie |-> h.intena, noff |-> 0, intena |-> h.intena]
  BY <1>2 DEF PopOff
<1>. QED
  BY <1>1, <1>3 DEF HartType

(* An acquire() and a release() inside a critical section: nothing changes. *)
LEMMA SwapHart ==
    ASSUME NEW h \in HartType, h.noff = 1, ~h.sie
    PROVE  /\ PopOff(PushOff(h)) \in HartType
           /\ PopOff(PushOff(h)).noff = 1 /\ PopOff(PushOff(h)).sie = FALSE
           /\ PopOff(PushOff(h)).intena = h.intena
<1>. DEFINE g == PushOff(h)
<1>1. g.sie = FALSE /\ g.noff = 2 /\ g.intena = h.intena /\ h.intena \in BOOLEAN
  BY DEF PushOff, HartType
<1>. HIDE DEF g
<1>2. (g.noff = 1 /\ g.intena) = FALSE
  BY <1>1
<1>3. PopOff(g) = [sie |-> FALSE, noff |-> g.noff - 1, intena |-> g.intena]
  BY <1>2 DEF PopOff
<1>. QED
  BY <1>1, <1>3 DEF HartType, g

(* The same with nothing pushed: SIE is off only in between. *)
LEMMA SkipHart ==
    ASSUME NEW h \in HartType, h.noff = 0
    PROVE  /\ PopOff(PushOff(h)) \in HartType
           /\ PopOff(PushOff(h)).noff = 0 /\ PopOff(PushOff(h)).sie = h.sie
<1>. DEFINE g == PushOff(h)
<1>1. g \in HartType /\ g.noff = 1 /\ g.intena = h.sie
  BY PushHart
<1>. HIDE DEF g
<1>2. PopOff(g) \in HartType /\ PopOff(g).noff = 0 /\ PopOff(g).sie = h.sie
  BY <1>1, PopHart
<1>. QED
  BY <1>2 DEF g

(* acquire() when no lock is held *)
LEMMA AcquireEffect ==
    ASSUME TypeOK, LockInv, NEW l \in LockIds, locks = {}, Acquire(l)
    PROVE  /\ locks' = {l} /\ hart' \in HartType
           /\ hart'.noff = 1 /\ ~hart'.sie /\ (hart'.intena <=> hart.sie)
<1>1. hart \in HartType /\ hart.noff = 0
  BY DEF TypeOK, LockInv, HartType
<1>2. hart' = PushOff(hart) /\ locks' = {l}
  BY DEF Acquire
<1>. QED
  BY <1>1, <1>2, PushHart

(* release() of the one lock that is held *)
LEMMA ReleaseEffect ==
    ASSUME TypeOK, LockInv, NEW l \in LockIds, locks = {l}, Release(l)
    PROVE  /\ locks' = {} /\ hart' \in HartType
           /\ hart'.noff = 0 /\ (hart'.sie <=> hart.intena)
<1>1. hart \in HartType /\ hart.noff = 1
  BY DEF TypeOK, LockInv, HartType
<1>2. hart' = PopOff(hart) /\ locks' = {}
  BY DEF Release
<1>. QED
  BY <1>1, <1>2, PopHart

(* one lock is exchanged for another *)
LEMMA SwapEffect ==
    ASSUME TypeOK, LockInv, NEW l \in LockIds, NEW n \in LockIds, locks = {l}, Swap(n, l)
    PROVE  /\ locks' = {n} /\ hart' \in HartType
           /\ hart'.noff = 1 /\ ~hart'.sie /\ (hart'.intena <=> hart.intena)
<1>1. hart \in HartType /\ hart.noff = 1 /\ ~hart.sie
  BY DEF TypeOK, LockInv, HartType
<1>2. hart' = PopOff(PushOff(hart)) /\ locks' = {n}
  BY DEF Swap
<1>. QED
  BY <1>1, <1>2, SwapHart

(* a lock is taken and given back while none is held *)
LEMMA SkipEffect ==
    ASSUME TypeOK, LockInv, locks = {}, hart' = PopOff(PushOff(hart))
    PROVE  hart' \in HartType /\ hart'.noff = 0 /\ (hart'.sie <=> hart.sie)
<1>1. hart \in HartType /\ hart.noff = 0
  BY DEF TypeOK, LockInv, HartType
<1>. QED
  BY <1>1, SkipHart

(* sched() returns and p->lock is released: SIE is what the thread saved *)
LEMMA SchedReturnEffect ==
    ASSUME TypeOK, LockInv, NEW t \in Threads, locks = {cproc}, SchedReturn(t)
    PROVE  /\ locks' = {} /\ hart' \in HartType
           /\ hart'.noff = 0 /\ (hart'.sie <=> sintena[t])
           /\ sintena' = [sintena EXCEPT ![t] = FALSE]
<1>. DEFINE g == [hart EXCEPT !.intena = sintena[t]]
<1>1. hart \in HartType /\ hart.noff = 1 /\ sintena[t] \in BOOLEAN
  BY DEF TypeOK, LockInv, HartType
<1>2. hart' = PopOff(g) /\ locks' = {} /\ sintena' = [sintena EXCEPT ![t] = FALSE]
  BY DEF SchedReturn
<1>3. g \in HartType /\ g.noff = 1 /\ g.intena = sintena[t]
  BY <1>1 DEF HartType
<1>. HIDE DEF g
<1>. QED
  BY <1>2, <1>3, PopHart

(* intr_on(), intr_off(), the trap and sret *)
LEMMA SetEffect ==
    ASSUME TypeOK, NEW b \in BOOLEAN, hart' = [hart EXCEPT !.sie = b]
    PROVE  hart' \in HartType /\ hart'.noff = hart.noff /\ (hart'.sie <=> b) /\ (hart'.intena <=> hart.intena)
<1>1. hart \in HartType
  BY DEF TypeOK, HartType
<1>. QED
  BY <1>1 DEF HartType

(* A loop variable over the table points into it or just past it. *)
LEMMA SlotRange ==
    ASSUME IInv, NEW t \in Threads
    PROVE  /\ slot[t] \in 1..NPROC + 1 /\ (slot[t] <= NPROC => slot[t] \in Procs)
           /\ slot[t] \in Procs => slot[t] + 1 \in 1..NPROC + 1
           /\ 1 \in 1..NPROC + 1
<1>1. slot[t] \in 1..NPROC + 1
  BY DEF IInv, TypeOK
<1>. QED
  BY <1>1, ProcAssumption DEF Procs

(* The thread on the hart: c->proc, the state and the entry point. *)
LEMMA Here ==
    ASSUME IInv, NEW t \in Threads, cur = t
    PROVE  /\ t # 0 => /\ t \in Procs /\ cproc = t /\ pc[0] = "s_back" /\ slot[0] = t
                       /\ pc[t] \in TaskLabels
                       /\ pc[t] \notin {"sl_sched", "e_sched", "y_sched"} => state[t] = "RUNNING"
                       /\ pc[t] \in {"c_ret", "forkret", "w_scan", "sl_done"} =>
                             savedpc[t] = "none" /\ home[t] = IF t = initproc THEN "w_acq" ELSE "run"
                       /\ pc[t] = "y_back" /\ savedpc[t] = "none" =>
                             home[t] = IF t = initproc THEN "w_acq" ELSE "run"
           /\ t = 0 => /\ pc[0] \in BootLabels /\ home[0] = "s_init"
                       /\ pc[0] # "s_back" => cproc = 0
                       /\ pc[0] = "s_back" => cproc = slot[0] /\ slot[0] \in Procs
<1>1. t # 0 => t \in Procs
  BY Numbers
<1>2. CtlInv
  BY DEF IInv
<1>3. t # 0 /\ pc[t] \notin {"sl_sched", "e_sched", "y_sched"} => state[t] = "RUNNING"
  BY <1>1 DEF IInv, StateInv, PlaceInv
<1>4. pc[t] \in {"c_ret", "forkret", "w_scan", "sl_done"} => savedpc[t] = "none"
  BY DEF IInv, IrqInv, TrapInv, TrapFree
<1>5. ASSUME t # 0, savedpc[t] = "none", pc[t] \in {"c_ret", "forkret", "w_scan", "sl_done", "y_back"}
      PROVE  home[t] = IF t = initproc THEN "w_acq" ELSE "run"
  <2>1. Created(t) /\ Where(t) = pc[t]
    BY <1>3, <1>5 DEF Created, Where
  <2>. QED
    BY <1>1, <1>5, <2>1 DEF IInv, InitInv, HomeInv, Entry
<1>. QED
  BY <1>1, <1>2, <1>3, <1>4, <1>5 DEF CtlInv

(* A process that may be switched to waits in forkret(), yield() or sleep(), *)
(* one that sleeps in sleep().                                               *)
LEMMA WaitPlace ==
    ASSUME IInv, NEW p \in Procs, p # cur
    PROVE  /\ state[p] = "RUNNABLE" => pc[p] \in {"forkret", "y_back", "sl_back"}
           /\ state[p] = "SLEEPING" => pc[p] = "sl_back"
           /\ state[p] = "ZOMBIE" => pc[p] = "e_dead"
           /\ pc[p] \in Suspended
<1>1. PlaceInv(p)
  BY DEF IInv, StateInv
<1>2. pc[p] \in Suspended
  BY DEF IInv, CtlInv
<1>. QED
  BY <1>1, <1>2 DEF PlaceInv, Suspended

(* wakeup(): sleepers on the channel become RUNNABLE, everybody else stays. *)
LEMMA WakeupEffect ==
    ASSUME IInv, NEW ch, Wakeup(ch)
    PROVE  /\ state' \in [Procs -> States]
           /\ \A p \in Procs :
                \/ state'[p] = state[p] /\ ~(p # cproc /\ state[p] = "SLEEPING" /\ chan[p] = ch)
                \/ /\ state'[p] = "RUNNABLE" /\ state[p] = "SLEEPING" /\ chan[p] = ch
                   /\ p # cproc
<1>1. state \in [Procs -> States]
  BY DEF IInv, TypeOK
<1>. QED
  BY <1>1 DEF Wakeup, States

(* scheduler() passes over a slot *)
LEMMA SchedulerSkipEffect ==
    ASSUME IInv, SchedulerSkip
    PROVE  /\ cur = 0 /\ pc[0] = "s_loop"
           /\ locks = {}
           /\ locks' = locks /\ hart' \in HartType /\ hart'.noff = 0 /\ (hart'.sie <=> hart.sie)
<1>1. cur = 0 /\ pc[0] = "s_loop"
  BY DEF SchedulerSkip, At
<1>9. locks = {}
  BY <1>1, Numbers DEF IInv, LockInv, SlotLabels, OwnLabels, WaitLabels, TickLabels, TaskFree,
     SchedFree, TrapFree
<1>. QED
  BY <1>1, <1>9, SkipEffect DEF IInv, SchedulerSkip

(* scheduler() takes the lock of the slot it switches to *)
LEMMA SchedulerSwitchEffect ==
    ASSUME IInv, SchedulerSwitch
    PROVE  /\ cur = 0 /\ pc[0] = "s_loop"
           /\ locks = {} /\ slot[0] \in Procs
           /\ locks' = {slot[0]} /\ hart' \in HartType
           /\ hart'.noff = 1 /\ ~hart'.sie /\ (hart'.intena <=> hart.sie)
<1>1. cur = 0 /\ pc[0] = "s_loop"
  BY DEF SchedulerSwitch, At
<1>3. slot[0] \in Procs
  BY Numbers, SlotRange DEF SchedulerSwitch
<1>9. locks = {} /\ slot[0] \in LockIds
  BY <1>1, <1>3, Numbers DEF IInv, LockInv, SlotLabels, OwnLabels, WaitLabels, TickLabels,
     TaskFree, SchedFree, TrapFree
<1>. QED
  BY <1>1, <1>3, <1>9, AcquireEffect DEF IInv, SchedulerSwitch

(* scheduler() releases the slot it came back from *)
LEMMA SchedulerBackEffect ==
    ASSUME IInv, SchedulerBack
    PROVE  /\ cur = 0 /\ pc[0] = "s_back"
           /\ locks = {slot[0]} /\ slot[0] \in Procs
           /\ locks' = {} /\ hart' \in HartType /\ hart'.noff = 0 /\ (hart'.sie <=> hart.intena)
<1>1. cur = 0 /\ pc[0] = "s_back"
  BY DEF SchedulerBack, At
<1>3. slot[0] \in Procs
  BY <1>1, Here, Numbers DEF IInv, CtlInv
<1>9. locks = {slot[0]} /\ slot[0] \in LockIds
  BY <1>1, <1>3, Numbers DEF IInv, LockInv, SlotLabels, OwnLabels, WaitLabels, TickLabels,
     TaskFree, SchedFree, TrapFree
<1>. QED
  BY <1>1, <1>3, <1>9, ReleaseEffect DEF IInv, SchedulerBack

(* alloc_process() takes the lock of the next slot *)
LEMMA AllocAcquireEffect ==
    ASSUME IInv, NEW t \in Threads, AllocAcquire(t)
    PROVE  /\ cur = t /\ pc[t] = "a_scan"
           /\ locks = {} /\ slot[t] \in Procs
           /\ locks' = {slot[t]} /\ hart' \in HartType
           /\ hart'.noff = 1 /\ ~hart'.sie /\ (hart'.intena <=> hart.sie)
<1>1. cur = t /\ pc[t] = "a_scan"
  BY DEF AllocAcquire, Take, At
<1>3. slot[t] \in Procs
  BY Numbers, SlotRange DEF AllocAcquire
<1>9. locks = {} /\ slot[t] \in LockIds
  BY <1>1, <1>3, Numbers DEF IInv, LockInv, SlotLabels, OwnLabels, WaitLabels, TickLabels,
     TaskFree, SchedFree, TrapFree
<1>. QED
  BY <1>1, <1>3, <1>9, AcquireEffect DEF IInv, AllocAcquire, Take

(* alloc_process() passes over a slot in use *)
LEMMA AllocNextEffect ==
    ASSUME IInv, NEW t \in Threads, AllocNext(t)
    PROVE  /\ cur = t /\ pc[t] = "a_test"
           /\ locks = {slot[t]} /\ slot[t] \in Procs
           /\ locks' = {} /\ hart' \in HartType /\ hart'.noff = 0 /\ (hart'.sie <=> hart.intena)
<1>1. cur = t /\ pc[t] = "a_test"
  BY DEF AllocNext, At
<1>3. slot[t] \in Procs
  BY <1>1, Here, Numbers DEF IInv, CtlInv
<1>9. locks = {slot[t]} /\ slot[t] \in LockIds
  BY <1>1, <1>3, Numbers DEF IInv, LockInv, SlotLabels, OwnLabels, WaitLabels, TickLabels,
     TaskFree, SchedFree, TrapFree
<1>. QED
  BY <1>1, <1>3, <1>9, ReleaseEffect DEF IInv, AllocNext

(* userinit() releases the first slot *)
LEMMA UserinitFinishEffect ==
    ASSUME IInv, NEW t \in Threads, UserinitFinish(t)
    PROVE  /\ cur = t /\ pc[t] = "u_fin"
           /\ locks = {slot[t]} /\ slot[t] \in Procs
           /\ locks' = {} /\ hart' \in HartType /\ hart'.noff = 0 /\ (hart'.sie <=> hart.intena)
<1>1. cur = t /\ pc[t] = "u_fin"
  BY DEF UserinitFinish, Start, At
<1>3. slot[t] \in Procs
  BY <1>1, Here, Numbers DEF IInv, CtlInv
<1>9. locks = {slot[t]} /\ slot[t] \in LockIds
  BY <1>1, <1>3, Numbers DEF IInv, LockInv, SlotLabels, OwnLabels, WaitLabels, TickLabels,
     TaskFree, SchedFree, TrapFree
<1>. QED
  BY <1>1, <1>3, <1>9, ReleaseEffect DEF IInv, UserinitFinish, Start

(* create_process() releases the new slot *)
LEMMA CreateFinishEffect ==
    ASSUME IInv, NEW t \in Threads, CreateFinish(t)
    PROVE  /\ cur = t /\ pc[t] = "c_fin"
           /\ locks = {slot[t]} /\ slot[t] \in Procs
           /\ locks' = {} /\ hart' \in HartType /\ hart'.noff = 0 /\ (hart'.sie <=> hart.intena)
<1>1. cur = t /\ pc[t] = "c_fin"
  BY DEF CreateFinish, Start, At
<1>3. slot[t] \in Procs
  BY <1>1, Here, Numbers DEF IInv, CtlInv
<1>9. locks = {slot[t]} /\ slot[t] \in LockIds
  BY <1>1, <1>3, Numbers DEF IInv, LockInv, SlotLabels, OwnLabels, WaitLabels, TickLabels,
     TaskFree, SchedFree, TrapFree
<1>. QED
  BY <1>1, <1>3, <1>9, ReleaseEffect DEF IInv, CreateFinish, Start

(* forkret() releases the lock scheduler() took *)
LEMMA ForkretEffect ==
    ASSUME IInv, NEW t \in Threads, Forkret(t)
    PROVE  /\ cur = t /\ pc[t] = "forkret" /\ t # 0 /\ t \in Procs /\ cproc = t
           /\ locks = {cproc} /\ cproc \in LockIds
           /\ locks' = {} /\ hart' \in HartType /\ hart'.noff = 0 /\ (hart'.sie <=> hart.intena)
<1>1. cur = t /\ pc[t] = "forkret"
  BY DEF Forkret, At
<1>2. t # 0 /\ t \in Procs /\ cproc = t
  BY <1>1, Here DEF BootLabels, SchedFree, TrapFree
<1>9. locks = {cproc} /\ cproc \in LockIds
  BY <1>1, <1>2, Numbers DEF IInv, LockInv, SlotLabels, OwnLabels, WaitLabels, TickLabels,
     TaskFree, SchedFree, TrapFree
<1>. QED
  BY <1>1, <1>2, <1>9, ReleaseEffect DEF IInv, Forkret

(* forkret() calls the entry point, or faults if swtch() has overwritten it *)
LEMMA ForkretCallEffect ==
    ASSUME IInv, NEW t \in Threads, ForkretCall(t)
    PROVE  /\ cur = t /\ pc[t] = "f_call" /\ t # 0 /\ t \in Procs /\ cproc = t
           /\ locks = {} /\ savedpc[t] = "none" /\ state[t] = "RUNNING"
           /\ hart' \in HartType /\ hart'.noff = hart.noff
           /\ \/ /\ pc' = [pc EXCEPT ![t] = IF t = initproc THEN "w_acq" ELSE "run"]
                 /\ home[t] = (IF t = initproc THEN "w_acq" ELSE "run") /\ hart' = hart
              \/ pc' = [pc EXCEPT ![t] = "panic"] /\ ~hart'.sie
           /\ UNCHANGED <<cur, cproc, locks, pending, sepc, savedpc, state, chan, parent, pid, xstate, home>>
           /\ UNCHANGED <<pages, nfree, nextpid, initproc, slot, lk, ret, status, found, sintena, want>>
<1>1. cur = t /\ pc[t] = "f_call"
  BY DEF ForkretCall, At
<1>2. t # 0 /\ t \in Procs /\ cproc = t /\ state[t] = "RUNNING"
  BY <1>1, Here DEF BootLabels, SchedFree, TrapFree
<1>3. locks = {} /\ savedpc[t] = "none" /\ hart \in HartType
  BY <1>1 DEF IInv, LockInv, TaskFree, IrqInv, TrapInv, TrapFree, TypeOK, HartType
<1>4. home[t] # "none" => home[t] = IF t = initproc THEN "w_acq" ELSE "run"
  BY <1>2 DEF IInv, InitInv, HomeInv, Created, Entry
<1>5. /\ UNCHANGED <<cur, cproc, locks, pending, sepc, savedpc, state, chan, parent, pid, xstate, home>>
      /\ UNCHANGED <<pages, nfree, nextpid, initproc, slot, lk, ret, status, found, sintena, want>>
  BY DEF ForkretCall, irqVars, tableVars, memVars, callVars, schedVars
<1>6. \/ home[t] # "none" /\ pc' = [pc EXCEPT ![t] = home[t]] /\ hart' = hart
      \/ pc' = [pc EXCEPT ![t] = "panic"] /\ hart' = [hart EXCEPT !.sie = FALSE]
  BY DEF ForkretCall, Goto
<1>7. hart' \in HartType /\ hart'.noff = hart.noff
  BY <1>3, <1>6 DEF HartType
<1>8. pc' = [pc EXCEPT ![t] = "panic"] /\ hart' = [hart EXCEPT !.sie = FALSE] => ~hart'.sie
  BY <1>3 DEF HartType
<1>. QED
  BY <1>1, <1>2, <1>3, <1>4, <1>5, <1>6, <1>7, <1>8

(* wait_process() takes wait_lock *)
LEMMA WaitAcquireEffect ==
    ASSUME IInv, NEW t \in Threads, WaitAcquire(t)
    PROVE  /\ cur = t /\ pc[t] = "w_acq" /\ t # 0 /\ t \in Procs /\ cproc = t
           /\ locks = {} /\ WaitLock \in LockIds
           /\ locks' = {WaitLock} /\ hart' \in HartType
           /\ hart'.noff = 1 /\ ~hart'.sie /\ (hart'.intena <=> hart.sie)
<1>1. cur = t /\ pc[t] = "w_acq"
  BY DEF WaitAcquire, Take, At
<1>2. t # 0 /\ t \in Procs /\ cproc = t
  BY <1>1, Here DEF BootLabels, SchedFree, TrapFree
<1>9. locks = {} /\ WaitLock \in LockIds
  BY <1>1, <1>2, Numbers DEF IInv, LockInv, SlotLabels, OwnLabels, WaitLabels, TickLabels,
     TaskFree, SchedFree, TrapFree
<1>. QED
  BY <1>1, <1>2, <1>9, AcquireEffect DEF IInv, WaitAcquire, Take

(* wait_process() returns with a child *)
LEMMA WaitReapEffect ==
    ASSUME IInv, NEW t \in Threads, WaitReap(t)
    PROVE  /\ cur = t /\ pc[t] = "w_scan" /\ t # 0 /\ t \in Procs /\ cproc = t
           /\ locks = {WaitLock} /\ WaitLock \in LockIds
           /\ locks' = {} /\ hart' \in HartType /\ hart'.noff = 0 /\ (hart'.sie <=> hart.intena)
<1>1. cur = t /\ pc[t] = "w_scan"
  BY DEF WaitReap, At
<1>2. t # 0 /\ t \in Procs /\ cproc = t
  BY <1>1, Here DEF BootLabels, SchedFree, TrapFree
<1>9. locks = {WaitLock} /\ WaitLock \in LockIds
  BY <1>1, <1>2, Numbers DEF IInv, LockInv, SlotLabels, OwnLabels, WaitLabels, TickLabels,
     TaskFree, SchedFree, TrapFree
<1>. QED
  BY <1>1, <1>2, <1>9, ReleaseEffect DEF IInv, WaitReap

(* wait_process() returns without one *)
LEMMA WaitNoChildrenEffect ==
    ASSUME IInv, NEW t \in Threads, WaitNoChildren(t)
    PROVE  /\ cur = t /\ pc[t] = "w_scan" /\ t # 0 /\ t \in Procs /\ cproc = t
           /\ locks = {WaitLock} /\ WaitLock \in LockIds
           /\ locks' = {} /\ hart' \in HartType /\ hart'.noff = 0 /\ (hart'.sie <=> hart.intena)
<1>1. cur = t /\ pc[t] = "w_scan"
  BY DEF WaitNoChildren, init_task, At
<1>2. t # 0 /\ t \in Procs /\ cproc = t
  BY <1>1, Here DEF BootLabels, SchedFree, TrapFree
<1>9. locks = {WaitLock} /\ WaitLock \in LockIds
  BY <1>1, <1>2, Numbers DEF IInv, LockInv, SlotLabels, OwnLabels, WaitLabels, TickLabels,
     TaskFree, SchedFree, TrapFree
<1>. QED
  BY <1>1, <1>2, <1>9, ReleaseEffect DEF IInv, WaitNoChildren, init_task

(* wait_process() sleeps *)
LEMMA WaitSleepEffect ==
    ASSUME IInv, NEW t \in Threads, WaitSleep(t)
    PROVE  /\ cur = t /\ pc[t] = "w_scan" /\ t # 0 /\ t \in Procs /\ cproc = t /\ lk[t] = WaitLock
           /\ locks = {lk[t]} /\ lk[t] \in LockIds /\ cproc \in LockIds
           /\ locks' = {cproc} /\ hart' \in HartType
           /\ hart'.noff = 1 /\ ~hart'.sie /\ (hart'.intena <=> hart.intena)
<1>1. cur = t /\ pc[t] = "w_scan"
  BY DEF WaitSleep, Sleep, At
<1>2. t # 0 /\ t \in Procs /\ cproc = t
  BY <1>1, Here DEF BootLabels, SchedFree, TrapFree
<1>3. lk[t] = WaitLock
  BY <1>1, <1>2 DEF IInv, InitInv, HomeInv, Where, SleepLabels, IrqInv, TrapInv, TrapFree
<1>9. locks = {lk[t]} /\ lk[t] \in LockIds /\ cproc \in LockIds
  BY <1>1, <1>2, <1>3, Numbers DEF IInv, LockInv, SlotLabels, OwnLabels, WaitLabels,
     TickLabels, TaskFree, SchedFree, TrapFree
<1>. QED
  BY <1>1, <1>2, <1>3, <1>9, SwapEffect DEF IInv, WaitSleep, Sleep

(* sleep() comes back from sched() *)
LEMMA SleepReturnEffect ==
    ASSUME IInv, NEW t \in Threads, SleepReturn(t)
    PROVE  /\ cur = t /\ pc[t] = "sl_back" /\ t # 0 /\ t \in Procs /\ cproc = t
           /\ locks = {cproc}
           /\ locks' = {} /\ hart' \in HartType /\ hart'.noff = 0 /\ (hart'.sie <=> sintena[t])
           /\ sintena' = [sintena EXCEPT ![t] = FALSE]
<1>1. cur = t /\ pc[t] = "sl_back"
  BY DEF SleepReturn, At
<1>2. t # 0 /\ t \in Procs /\ cproc = t
  BY <1>1, Here DEF BootLabels, SchedFree, TrapFree
<1>9. locks = {cproc}
  BY <1>1, <1>2, Numbers DEF IInv, LockInv, SlotLabels, OwnLabels, WaitLabels, TickLabels,
     TaskFree, SchedFree, TrapFree
<1>. QED
  BY <1>1, <1>2, <1>9, SchedReturnEffect DEF IInv, SleepReturn

(* sleep() takes its lock back *)
LEMMA SleepReacquireEffect ==
    ASSUME IInv, NEW t \in Threads, SleepReacquire(t)
    PROVE  /\ cur = t /\ pc[t] = "sl_reacq" /\ t # 0 /\ t \in Procs /\ cproc = t
           /\ locks = {} /\ lk[t] \in LockIds
           /\ locks' = {lk[t]} /\ hart' \in HartType
           /\ hart'.noff = 1 /\ ~hart'.sie /\ (hart'.intena <=> hart.sie)
<1>1. cur = t /\ pc[t] = "sl_reacq"
  BY DEF SleepReacquire, Take, At
<1>2. t # 0 /\ t \in Procs /\ cproc = t
  BY <1>1, Here DEF BootLabels, SchedFree, TrapFree
<1>9. locks = {} /\ lk[t] \in LockIds
  BY <1>1, <1>2, Numbers DEF IInv, LockInv, SlotLabels, OwnLabels, WaitLabels, TickLabels,
     TaskFree, SchedFree, TrapFree, TypeOK
<1>. QED
  BY <1>1, <1>2, <1>9, AcquireEffect DEF IInv, SleepReacquire, Take

(* a task takes tickslock *)
LEMMA TicksAcquireEffect ==
    ASSUME IInv, NEW t \in Threads, TicksAcquire(t)
    PROVE  /\ cur = t /\ pc[t] = "sl_acq" /\ t # 0 /\ t \in Procs /\ cproc = t
           /\ locks = {} /\ TicksLock \in LockIds
           /\ locks' = {TicksLock} /\ hart' \in HartType
           /\ hart'.noff = 1 /\ ~hart'.sie /\ (hart'.intena <=> hart.sie)
<1>1. cur = t /\ pc[t] = "sl_acq"
  BY DEF TicksAcquire, Take, At
<1>2. t # 0 /\ t \in Procs /\ cproc = t
  BY <1>1, Here DEF BootLabels, SchedFree, TrapFree
<1>9. locks = {} /\ TicksLock \in LockIds
  BY <1>1, <1>2, Numbers DEF IInv, LockInv, SlotLabels, OwnLabels, WaitLabels, TickLabels,
     TaskFree, SchedFree, TrapFree
<1>. QED
  BY <1>1, <1>2, <1>9, AcquireEffect DEF IInv, TicksAcquire, Take

(* a task sleeps for a tick *)
LEMMA TicksSleepEffect ==
    ASSUME IInv, NEW t \in Threads, TicksSleep(t)
    PROVE  /\ cur = t /\ pc[t] = "sl_ticks" /\ t # 0 /\ t \in Procs /\ cproc = t /\ lk[t] = TicksLock
           /\ locks = {lk[t]} /\ lk[t] \in LockIds /\ cproc \in LockIds
           /\ locks' = {cproc} /\ hart' \in HartType
           /\ hart'.noff = 1 /\ ~hart'.sie /\ (hart'.intena <=> hart.intena)
<1>1. cur = t /\ pc[t] = "sl_ticks"
  BY DEF TicksSleep, Sleep, At
<1>2. t # 0 /\ t \in Procs /\ cproc = t
  BY <1>1, Here DEF BootLabels, SchedFree, TrapFree
<1>3. lk[t] = TicksLock
  BY <1>1, <1>2 DEF IInv, InitInv, HomeInv, Where, SleepLabels, IrqInv, TrapInv, TrapFree
<1>9. locks = {lk[t]} /\ lk[t] \in LockIds /\ cproc \in LockIds
  BY <1>1, <1>2, <1>3, Numbers DEF IInv, LockInv, SlotLabels, OwnLabels, WaitLabels,
     TickLabels, TaskFree, SchedFree, TrapFree
<1>. QED
  BY <1>1, <1>2, <1>3, <1>9, SwapEffect DEF IInv, TicksSleep, Sleep

(* a task gives tickslock back *)
LEMMA TicksReleaseEffect ==
    ASSUME IInv, NEW t \in Threads, TicksRelease(t)
    PROVE  /\ cur = t /\ pc[t] = "sl_done" /\ t # 0 /\ t \in Procs /\ cproc = t
           /\ locks = {TicksLock} /\ TicksLock \in LockIds
           /\ locks' = {} /\ hart' \in HartType /\ hart'.noff = 0 /\ (hart'.sie <=> hart.intena)
<1>1. cur = t /\ pc[t] = "sl_done"
  BY DEF TicksRelease, At
<1>2. t # 0 /\ t \in Procs /\ cproc = t
  BY <1>1, Here DEF BootLabels, SchedFree, TrapFree
<1>9. locks = {TicksLock} /\ TicksLock \in LockIds
  BY <1>1, <1>2, Numbers DEF IInv, LockInv, SlotLabels, OwnLabels, WaitLabels, TickLabels,
     TaskFree, SchedFree, TrapFree
<1>. QED
  BY <1>1, <1>2, <1>9, ReleaseEffect DEF IInv, TicksRelease

(* exit_process() takes wait_lock *)
LEMMA ExitAcquireEffect ==
    ASSUME IInv, NEW t \in Threads, ExitAcquire(t)
    PROVE  /\ cur = t /\ pc[t] = "e_acq" /\ t # 0 /\ t \in Procs /\ cproc = t
           /\ locks = {} /\ WaitLock \in LockIds
           /\ locks' = {WaitLock} /\ hart' \in HartType
           /\ hart'.noff = 1 /\ ~hart'.sie /\ (hart'.intena <=> hart.sie)
<1>1. cur = t /\ pc[t] = "e_acq"
  BY DEF ExitAcquire, Take, At
<1>2. t # 0 /\ t \in Procs /\ cproc = t
  BY <1>1, Here DEF BootLabels, SchedFree, TrapFree
<1>9. locks = {} /\ WaitLock \in LockIds
  BY <1>1, <1>2, Numbers DEF IInv, LockInv, SlotLabels, OwnLabels, WaitLabels, TickLabels,
     TaskFree, SchedFree, TrapFree
<1>. QED
  BY <1>1, <1>2, <1>9, AcquireEffect DEF IInv, ExitAcquire, Take

(* exit_process() goes over to p->lock *)
LEMMA ExitZombieEffect ==
    ASSUME IInv, NEW t \in Threads, ExitZombie(t)
    PROVE  /\ cur = t /\ pc[t] = "e_zombie" /\ t # 0 /\ t \in Procs /\ cproc = t
           /\ locks = {WaitLock} /\ WaitLock \in LockIds /\ t \in LockIds
           /\ locks' = {t} /\ hart' \in HartType
           /\ hart'.noff = 1 /\ ~hart'.sie /\ (hart'.intena <=> hart.intena)
<1>1. cur = t /\ pc[t] = "e_zombie"
  BY DEF ExitZombie, At
<1>2. t # 0 /\ t \in Procs /\ cproc = t
  BY <1>1, Here DEF BootLabels, SchedFree, TrapFree
<1>9. locks = {WaitLock} /\ WaitLock \in LockIds /\ t \in LockIds
  BY <1>1, <1>2, Numbers DEF IInv, LockInv, SlotLabels, OwnLabels, WaitLabels, TickLabels,
     TaskFree, SchedFree, TrapFree
<1>. QED
  BY <1>1, <1>2, <1>9, SwapEffect DEF IInv, ExitZombie

(* yield() takes p->lock *)
LEMMA YieldAcquireEffect ==
    ASSUME IInv, NEW t \in Threads, YieldAcquire(t)
    PROVE  /\ cur = t /\ pc[t] = "y_acq" /\ t # 0 /\ t \in Procs /\ cproc = t
           /\ locks = {} /\ cproc \in LockIds
           /\ locks' = {cproc} /\ hart' \in HartType
           /\ hart'.noff = 1 /\ ~hart'.sie /\ (hart'.intena <=> hart.sie)
<1>1. cur = t /\ pc[t] = "y_acq"
  BY DEF YieldAcquire, At
<1>2. t # 0 /\ t \in Procs /\ cproc = t
  BY <1>1, Here DEF BootLabels, SchedFree, TrapFree
<1>9. locks = {} /\ cproc \in LockIds
  BY <1>1, <1>2, Numbers DEF IInv, LockInv, SlotLabels, OwnLabels, WaitLabels, TickLabels,
     TaskFree, SchedFree, TrapFree
<1>. QED
  BY <1>1, <1>2, <1>9, AcquireEffect DEF IInv, YieldAcquire

(* yield() comes back from sched() *)
LEMMA YieldReturnEffect ==
    ASSUME IInv, NEW t \in Threads, YieldReturn(t)
    PROVE  /\ cur = t /\ pc[t] = "y_back" /\ t # 0 /\ t \in Procs /\ cproc = t
           /\ locks = {cproc}
           /\ locks' = {} /\ hart' \in HartType /\ hart'.noff = 0 /\ (hart'.sie <=> sintena[t])
           /\ sintena' = [sintena EXCEPT ![t] = FALSE]
<1>1. cur = t /\ pc[t] = "y_back"
  BY DEF YieldReturn, At
<1>2. t # 0 /\ t \in Procs /\ cproc = t
  BY <1>1, Here DEF BootLabels, SchedFree, TrapFree
<1>9. locks = {cproc}
  BY <1>1, <1>2, Numbers DEF IInv, LockInv, SlotLabels, OwnLabels, WaitLabels, TickLabels,
     TaskFree, SchedFree, TrapFree
<1>. QED
  BY <1>1, <1>2, <1>9, SchedReturnEffect DEF IInv, YieldReturn

(* timer_interrupt() *)
LEMMA TimerInterruptEffect ==
    ASSUME IInv, NEW t \in Threads, TimerInterrupt(t)
    PROVE  /\ cur = t /\ pc[t] = "t_tick"
           /\ locks = {}
           /\ locks' = locks /\ hart' \in HartType /\ hart'.noff = 0 /\ (hart'.sie <=> hart.sie)
<1>1. cur = t /\ pc[t] = "t_tick"
  BY DEF TimerInterrupt, At
<1>9. locks = {}
  BY <1>1, Numbers DEF IInv, LockInv, SlotLabels, OwnLabels, WaitLabels, TickLabels, TaskFree,
     SchedFree, TrapFree
<1>. QED
  BY <1>1, <1>9, SkipEffect DEF IInv, TimerInterrupt

(* alloc_process() has found a free slot *)
LEMMA AllocSlotEffect ==
    ASSUME IInv, NEW t \in Threads, AllocSlot(t)
    PROVE  /\ cur = t /\ pc[t] = "a_test" /\ locks = {slot[t]} /\ locks' = locks /\ hart' = hart
           /\ slot[t] \in Procs /\ slot[t] # t /\ state[slot[t]] = "UNUSED"
           /\ pc[slot[t]] \in {"none", "e_dead"}
           /\ initproc = 0 => t = 0
           /\ nextpid >= 1 /\ (t # 0 => nextpid >= 3)
           /\ cur' = t /\ cproc' = cproc /\ slot' = slot
           /\ state' = [state EXCEPT ![slot[t]] = "USED"]
           /\ pid' = [pid EXCEPT ![slot[t]] = nextpid] /\ nextpid' = nextpid + 1
           /\ UNCHANGED <<pending, sepc, savedpc, chan, parent, xstate, initproc, lk, ret, status>>
           /\ UNCHANGED <<found, sintena, want>>
<1>1. /\ cur = t /\ pc[t] = "a_test" /\ locks' = locks /\ hart' = hart
      /\ state[slot[t]] = "UNUSED"
  BY DEF AllocSlot, At, cpuVars
<1>2. locks = {slot[t]} /\ slot[t] \in Procs
  BY <1>1 DEF IInv, CtlInv, LockInv, SlotLabels
<1>3. slot[t] # t /\ pc[slot[t]] \in {"none", "e_dead"}
  BY <1>1, <1>2 DEF IInv, StateInv, PlaceInv
<1>4. initproc = 0 => t = 0
  BY <1>1 DEF IInv, InitInv
<1>5. nextpid >= 1 /\ (t # 0 => nextpid >= 3)
  <2>1. t # 0 => Where(0) = "s_back"
    BY <1>1, Here, Numbers DEF IInv, IrqInv, TrapInv, Where, TrapFree
  <2>2. t = 0 => Where(0) = "a_test"
    BY <1>1, Numbers DEF IInv, IrqInv, TrapInv, Where, TrapFree
  <2>3. PidInv /\ nextpid \in Nat
    BY DEF IInv, TreeInv, TypeOK
  <2>. QED
    BY <2>1, <2>2, <2>3 DEF PidInv
<1>. QED
  BY <1>1, <1>2, <1>3, <1>4, <1>5 DEF AllocSlot, Allocpid, cpuVars, irqVars, callVars, schedVars

(* and got its pages: the new thread will start in forkret() *)
LEMMA AllocFoundEffect ==
    ASSUME IInv, NEW t \in Threads, AllocFound(t)
    PROVE  /\ AllocSlot(t) /\ slot[t] \in Threads
           /\ pc'[slot[t]] = "forkret" /\ pc'[t] = IF initproc = 0 THEN "u_fin" ELSE "c_fin"
           /\ \A u \in Threads : u # t /\ u # slot[t] => pc'[u] = pc[u]
           /\ home'[slot[t]] = "none"
           /\ \A u \in Threads : u # slot[t] => home'[u] = home[u]
<1>1. AllocSlot(t)
  BY DEF AllocFound
<1>2. slot[t] \in Threads /\ slot[t] # t
  BY <1>1, AllocSlotEffect, Numbers
<1>3. pc \in [Threads -> Labels] /\ home \in [Threads -> Labels]
  BY DEF IInv, TypeOK
<1>. QED
  BY <1>1, <1>2, <1>3 DEF AllocFound

(* The timer interrupts a thread that holds no lock and is not in the handler. *)
LEMMA TakeInterruptEffect ==
    ASSUME IInv, NEW t \in Threads, TakeInterrupt(t)
    PROVE  /\ cur = t /\ locks = {} /\ locks' = {} /\ savedpc[t] = "none" /\ want[t]
           /\ pc[t] \in IF t = 0 THEN {"a_scan", "c_ret", "s_init", "s_on", "s_off", "s_loop", "panic"}
                                 ELSE TaskFree \cup {"panic"}
           /\ hart' \in HartType /\ hart'.noff = 0 /\ ~hart'.sie
<1>1. cur = t /\ hart.sie /\ hart' = [hart EXCEPT !.sie = FALSE] /\ locks' = locks
  BY DEF TakeInterrupt
<1>2. locks = {} /\ hart.noff = 0
  BY <1>1 DEF IInv, LockInv
<1>3. pc[t] \notin SlotLabels \cup OwnLabels \cup WaitLabels \cup TickLabels \cup TrapFree
  BY <1>1, <1>2 DEF IInv, LockInv, IrqInv, SieInv
<1>4. t = 0 => pc[t] # "s_wfi"
  BY <1>1 DEF IInv, PassInv
<1>5. pc[t] \in IF t = 0 THEN {"a_scan", "c_ret", "s_init", "s_on", "s_off", "s_loop", "panic"}
                         ELSE TaskFree \cup {"panic"}
  BY <1>1, <1>3, <1>4, Here DEF BootLabels, TaskLabels, SlotLabels, OwnLabels, WaitLabels, TickLabels,
     SchedFree, TrapFree
<1>6. want[0] /\ (pc[t] \in TaskFree => Own(t)) /\ (pc[t] = "panic" => Own(t))
  BY <1>1, <1>2 DEF IInv, IrqInv, TrapInv, SieInv
<1>7. savedpc[t] # "none" => pc[t] \in TrapFree \/ (t # 0 /\ pc[t] = "y_acq")
  <2>1. savedpc[t] # "none" => pc[t] \in TrapFree \/ (t # 0 /\ pc[t] \in {"y_acq", "y_sched", "y_back"})
    BY DEF IInv, IrqInv, TrapInv, SieInv
  <2>. QED
    BY <1>3, <2>1 DEF OwnLabels
<1>8. savedpc[t] = "none"
  BY <1>3, <1>6, <1>7 DEF Own, TaskFree
<1>9. want[t]
  BY <1>5, <1>6 DEF Own
<1>10. hart' \in HartType /\ hart'.noff = 0 /\ ~hart'.sie
  BY <1>1, <1>2, SetEffect DEF IInv
<1>. QED
  BY <1>1, <1>2, <1>5, <1>8, <1>9, <1>10

(* sret: back to where the thread was interrupted, with SIE set *)
LEMMA TrapReturnEffect ==
    ASSUME IInv, NEW t \in Threads, TrapReturn(t)
    PROVE  /\ cur = t /\ pc[t] = "t_ret" /\ locks = {} /\ locks' = {} /\ savedpc[t] # "none" /\ want[t]
           /\ savedpc[t] \in IF t = 0 THEN {"a_scan", "c_ret", "s_init", "s_on", "s_off", "s_loop", "panic"}
                                      ELSE TaskFree \cup {"panic"}
           /\ hart' \in HartType /\ hart'.noff = 0 /\ hart'.sie
           /\ pc' = [pc EXCEPT ![t] = savedpc[t]]
<1>1. /\ cur = t /\ pc[t] = "t_ret" /\ hart' = [hart EXCEPT !.sie = TRUE] /\ locks' = locks
      /\ pc' = [pc EXCEPT ![t] = savedpc[t]]
  BY DEF TrapReturn, At, Goto
<1>2. locks = {} /\ hart.noff = 0
  BY <1>1 DEF IInv, LockInv, TrapFree
<1>3. savedpc[t] # "none"
  BY <1>1 DEF IInv, IrqInv, TrapInv, SieInv, TrapFree
<1>4. want[t] /\ savedpc[t] \in IF t = 0 THEN {"a_scan", "c_ret", "s_init", "s_on", "s_off", "s_loop", "panic"}
                                         ELSE TaskFree \cup {"panic"}
  BY <1>3 DEF IInv, IrqInv, TrapInv, SieInv
<1>5. hart' \in HartType /\ hart'.noff = 0 /\ hart'.sie
  BY <1>1, <1>2, SetEffect DEF IInv
<1>. QED
  BY <1>1, <1>2, <1>3, <1>4, <1>5

(* intr_on() and intr_off() of the scheduler *)
LEMMA IntrEffect ==
    ASSUME IInv, IntrOn \/ IntrOff
    PROVE  /\ cur = 0 /\ pc[0] \in {"s_on", "s_off"} /\ locks = {} /\ locks' = {}
           /\ hart' \in HartType /\ hart'.noff = 0 /\ (hart'.sie <=> pc[0] = "s_on")
<1>1. cur = 0 /\ pc[0] \in {"s_on", "s_off"} /\ locks' = locks
  BY DEF IntrOn, IntrOff, At
<1>2. locks = {} /\ hart.noff = 0
  BY <1>1 DEF IInv, LockInv, SchedFree
<1>3. hart' = [hart EXCEPT !.sie = (pc[0] = "s_on")]
  BY DEF IntrOn, IntrOff, At
<1>. QED
  BY <1>1, <1>2, <1>3, SetEffect DEF IInv

(* and of a task *)
LEMMA CallIntrEffect ==
    ASSUME IInv, NEW t \in Procs, NEW b \in BOOLEAN, CallIntr(t, b)
    PROVE  /\ cur = t /\ pc[t] = "run" /\ locks = {} /\ locks' = {} /\ savedpc[t] = "none"
           /\ hart' \in HartType /\ hart'.noff = 0 /\ (hart'.sie <=> b)
<1>1. cur = t /\ pc[t] = "run" /\ locks' = locks /\ hart' = [hart EXCEPT !.sie = b] /\ t \in Threads
  BY Numbers DEF CallIntr, At
<1>2. locks = {} /\ hart.noff = 0
  BY <1>1 DEF IInv, LockInv, TaskFree
<1>3. savedpc[t] = "none"
  BY <1>1 DEF IInv, IrqInv, TrapInv, SieInv, TrapFree
<1>. QED
  BY <1>1, <1>2, <1>3, SetEffect DEF IInv

(* sched(): the thread keeps its lock and gives the hart to the scheduler *)
LEMMA SchedEffect ==
    ASSUME IInv, NEW t \in Threads, Sched(t)
    PROVE  /\ cur = t /\ cur' = 0 /\ t \in Procs /\ t # 0 /\ cproc = t /\ slot[0] = t /\ pc[0] = "s_back"
           /\ locks = {t} /\ locks' = {t} /\ hart' = hart
           /\ \/ pc[t] = "sl_sched" /\ pc' = [pc EXCEPT ![t] = "sl_back"]
              \/ pc[t] = "e_sched" /\ pc' = [pc EXCEPT ![t] = "e_dead"]
              \/ pc[t] = "y_sched" /\ pc' = [pc EXCEPT ![t] = "y_back"]
           /\ sintena' = [sintena EXCEPT ![t] = hart.intena]
           /\ cproc' = cproc /\ savedpc' = savedpc /\ state' = state /\ slot' = slot /\ lk' = lk
           /\ home' = [home EXCEPT ![t] = IF savedpc[t] = "f_call" THEN "none" ELSE home[t]]
           /\ UNCHANGED <<pending, sepc, chan, parent, pid, xstate, pages, nfree, nextpid, initproc>>
           /\ UNCHANGED <<ret, status, found, want>>
<1>1. cur = t /\ cur' = 0 /\ locks' = locks /\ hart' = hart
  BY DEF Sched, cpuVars
<1>2. \/ pc[t] = "sl_sched" /\ pc' = [pc EXCEPT ![t] = "sl_back"]
      \/ pc[t] = "e_sched" /\ pc' = [pc EXCEPT ![t] = "e_dead"]
      \/ pc[t] = "y_sched" /\ pc' = [pc EXCEPT ![t] = "y_back"]
  <2>1. /\ DOMAIN Resume = {"sl_sched", "e_sched", "y_sched"}
        /\ Resume["sl_sched"] = "sl_back" /\ Resume["e_sched"] = "e_dead" /\ Resume["y_sched"] = "y_back"
    BY DEF Resume
  <2>. QED
    BY <2>1 DEF Sched, Goto
<1>3. t # 0 /\ t \in Procs
  BY <1>1, <1>2, Here DEF BootLabels, SchedFree, TrapFree
<1>4. locks = {t}
  BY <1>1, <1>2 DEF IInv, LockInv, OwnLabels
<1>5. /\ sintena' = [sintena EXCEPT ![t] = hart.intena]
      /\ cproc' = cproc /\ savedpc' = savedpc /\ state' = state /\ slot' = slot /\ lk' = lk
      /\ home' = [home EXCEPT ![t] = IF savedpc[t] = "f_call" THEN "none" ELSE home[t]]
      /\ UNCHANGED <<pending, sepc, chan, parent, pid, xstate, pages, nfree, nextpid, initproc>>
      /\ UNCHANGED <<ret, status, found, want>>
  BY DEF Sched, cpuVars, irqVars, tableVars, memVars, callVars
<1>. QED
  BY <1>1, <1>2, <1>3, <1>4, <1>5, Here

(* Who is on the hart and where everybody is. *)
LEMMA CtlStep ==
    ASSUME IInv, Next
    PROVE  CtlInv'
<1>0. /\ CtlInv /\ cur \in Threads /\ pc \in [Threads -> Labels] /\ slot \in [Threads -> 1..NPROC + 1]
     /\ home \in [Threads -> Labels]
  BY DEF IInv, TypeOK
<1>1. ASSUME SchedulerSwitch PROVE CtlInv'
  <2>1. pc[slot[0]] \in {"forkret", "y_back", "sl_back"} /\ slot[0] \in Procs
    BY <1>1, SchedulerSwitchEffect, WaitPlace, Numbers DEF SchedulerSwitch
  <2>. QED
    BY <1>1, SchedulerSwitchEffect, <1>0, Here, Numbers, <2>1 DEF SchedulerSwitch, At, Goto,
       cpuVars, irqVars, tableVars, memVars, callVars, schedVars, CtlInv, BootLabels,
       TaskLabels, Suspended, SlotLabels, OwnLabels, WaitLabels, TickLabels, TaskFree,
       SchedFree, TrapFree
<1>2. ASSUME NEW t \in Threads, AllocFound(t) PROVE CtlInv'
  <2>1. AllocFound(t) /\ AllocSlot(t)
    BY <1>2, AllocFoundEffect
  <2>2. t = 0 => cproc = 0 /\ pc'[0] \in {"u_fin", "c_fin"} /\ home'[0] = "s_init"
    BY <2>1, AllocFoundEffect, AllocSlotEffect, Here, Numbers DEF BootLabels
  <2>3. t # 0 => t \in Procs /\ cproc = t /\ pc'[0] = "s_back" /\ slot[0] = t /\ pc'[t] = "c_fin" /\ home'[0] = "s_init"
    BY <2>1, AllocFoundEffect, AllocSlotEffect, Here, Numbers, <1>0 DEF CtlInv
  <2>4. \A p \in Procs : p # t => pc'[p] \in Suspended
    BY <2>1, AllocFoundEffect, AllocSlotEffect, Numbers, <1>0 DEF CtlInv, Suspended
  <2>5. cur' = t /\ cproc' = cproc /\ slot' = slot /\ slot[t] \in Procs
    BY <2>1, AllocSlotEffect
  <2>6. t = 0 \/ t # 0
    OBVIOUS
  <2>. QED
    BY <2>2, <2>3, <2>4, <2>5, <2>6 DEF CtlInv, BootLabels, TaskLabels
<1>3. ASSUME NEW t \in Threads, TrapReturn(t) PROVE CtlInv'
  <2>1. /\ cur = t /\ cur' = t /\ cproc' = cproc /\ slot' = slot /\ home' = home
        /\ pc[t] = "t_ret" /\ pc' = [pc EXCEPT ![t] = savedpc[t]]
        /\ savedpc[t] \in IF t = 0 THEN {"a_scan", "c_ret", "s_init", "s_on", "s_off",
           "s_loop", "panic"}
                                   ELSE TaskFree \cup {"panic"}
    BY <1>3, TrapReturnEffect DEF TrapReturn, callVars, tableVars
  <2>. QED
    BY <2>1, <1>0, Here, Numbers DEF CtlInv, BootLabels, TaskLabels, TaskFree, SchedFree
<1>. USE <1>0, Here, Numbers DEF At, Goto, cpuVars, irqVars, tableVars, memVars, callVars,
   schedVars, CtlInv, BootLabels, TaskLabels, Suspended, SlotLabels, OwnLabels, WaitLabels,
   TickLabels, TaskFree, SchedFree, TrapFree
<1>4. ASSUME SchedulerStart PROVE CtlInv'
  BY <1>4 DEF SchedulerStart
<1>5. ASSUME IntrOn PROVE CtlInv'
  BY <1>5, IntrEffect DEF IntrOn
<1>6. ASSUME IntrOff PROVE CtlInv'
  BY <1>6, IntrEffect DEF IntrOff
<1>7. ASSUME SchedulerSkip PROVE CtlInv'
  BY <1>7, SchedulerSkipEffect DEF SchedulerSkip
<1>8. ASSUME SchedulerBack PROVE CtlInv'
  BY <1>8, SchedulerBackEffect DEF SchedulerBack
<1>9. ASSUME SchedulerPassEnd PROVE CtlInv'
  BY <1>9 DEF SchedulerPassEnd
<1>10. ASSUME Wfi PROVE CtlInv'
  BY <1>10 DEF Wfi
<1>11. ASSUME NEW t \in Threads, AllocAcquire(t) PROVE CtlInv'
  BY <1>11, AllocAcquireEffect DEF AllocAcquire, Take
<1>12. ASSUME NEW t \in Threads, AllocNext(t) PROVE CtlInv'
  BY <1>12, AllocNextEffect DEF AllocNext
<1>13. ASSUME NEW t \in Threads, AllocNoMemory(t) PROVE CtlInv'
  BY <1>13, AllocSlotEffect DEF AllocNoMemory
<1>14. ASSUME NEW t \in Threads, AllocFull(t) PROVE CtlInv'
  BY <1>14 DEF AllocFull
<1>15. ASSUME NEW t \in Threads, UserinitFinish(t) PROVE CtlInv'
  BY <1>15, UserinitFinishEffect DEF UserinitFinish, Start
<1>16. ASSUME NEW t \in Threads, CreateFinish(t) PROVE CtlInv'
  BY <1>16, CreateFinishEffect DEF CreateFinish, Start
<1>17. ASSUME NEW t \in Threads, CreateReturn(t) PROVE CtlInv'
  BY <1>17 DEF CreateReturn
<1>18. ASSUME NEW t \in Threads, Forkret(t) PROVE CtlInv'
  BY <1>18, ForkretEffect DEF Forkret
<1>19. ASSUME NEW t \in Threads, Sched(t) PROVE CtlInv'
  BY <1>19, SchedEffect
<1>20. ASSUME NEW t \in Threads, WaitAcquire(t) PROVE CtlInv'
  BY <1>20, WaitAcquireEffect DEF WaitAcquire, Take
<1>21. ASSUME NEW t \in Threads, WaitReap(t) PROVE CtlInv'
  BY <1>21, WaitReapEffect DEF WaitReap, FreeProcess, ClearSlot
<1>22. ASSUME NEW t \in Threads, WaitNoChildren(t) PROVE CtlInv'
  BY <1>22, WaitNoChildrenEffect DEF WaitNoChildren, init_task
<1>23. ASSUME NEW t \in Threads, WaitSleep(t) PROVE CtlInv'
  BY <1>23, WaitSleepEffect DEF WaitSleep, Sleep
<1>24. ASSUME NEW t \in Threads, SleepReturn(t) PROVE CtlInv'
  BY <1>24, SleepReturnEffect DEF SleepReturn
<1>25. ASSUME NEW t \in Threads, SleepReacquire(t) PROVE CtlInv'
  BY <1>25, SleepReacquireEffect DEF SleepReacquire, Take
<1>26. ASSUME NEW t \in Threads, TicksAcquire(t) PROVE CtlInv'
  BY <1>26, TicksAcquireEffect DEF TicksAcquire, Take
<1>27. ASSUME NEW t \in Threads, TicksSleep(t) PROVE CtlInv'
  BY <1>27, TicksSleepEffect DEF TicksSleep, Sleep
<1>28. ASSUME NEW t \in Threads, TicksRelease(t) PROVE CtlInv'
  BY <1>28, TicksReleaseEffect DEF TicksRelease
<1>29. ASSUME NEW t \in Threads, ExitAcquire(t) PROVE CtlInv'
  BY <1>29, ExitAcquireEffect DEF ExitAcquire, Take
<1>30. ASSUME NEW t \in Threads, ExitReparent(t) PROVE CtlInv'
  BY <1>30 DEF ExitReparent, Wakeup
<1>31. ASSUME NEW t \in Threads, ExitWakeParent(t) PROVE CtlInv'
  BY <1>31 DEF ExitWakeParent, Wakeup
<1>32. ASSUME NEW t \in Threads, ExitZombie(t) PROVE CtlInv'
  BY <1>32, ExitZombieEffect DEF ExitZombie
<1>33. ASSUME NEW t \in Threads, YieldAcquire(t) PROVE CtlInv'
  BY <1>33, YieldAcquireEffect DEF YieldAcquire
<1>34. ASSUME NEW t \in Threads, YieldReturn(t) PROVE CtlInv'
  BY <1>34, YieldReturnEffect DEF YieldReturn
<1>35. ASSUME NEW t \in Threads, TimerInterrupt(t) PROVE CtlInv'
  BY <1>35, TimerInterruptEffect DEF TimerInterrupt, Wakeup
<1>36. ASSUME NEW t \in Threads, TakeInterrupt(t) PROVE CtlInv'
  BY <1>36, TakeInterruptEffect DEF TakeInterrupt
<1>37. ASSUME NEW t \in Procs, CallsOf(t) PROVE CtlInv'
  BY <1>37 DEF CallsOf, CallCreate, CallWait, CallYield, CallSleep, CallReturn, CallExit, Call
<1>38. ASSUME NEW t \in Procs, NEW b \in BOOLEAN, CallIntr(t, b) PROVE CtlInv'
  BY <1>38, CallIntrEffect DEF CallIntr
<1>39. ASSUME TimerExpire PROVE CtlInv'
  BY <1>39 DEF TimerExpire
<1>40. ASSUME NEW t \in Threads, PanicSpin(t) PROVE CtlInv'
  BY <1>40 DEF PanicSpin, vars
<1>41. ASSUME NEW t \in Threads, ForkretCall(t) PROVE CtlInv'
  BY <1>41, ForkretCallEffect
<1>. HIDE <1>0, Here, Numbers DEF At, Goto, cpuVars, irqVars, tableVars, memVars, callVars,
   schedVars, CtlInv, BootLabels, TaskLabels, Suspended, SlotLabels, OwnLabels, WaitLabels,
   TickLabels, TaskFree, SchedFree, TrapFree
<1>. QED
  BY <1>1, <1>2, <1>3, <1>4, <1>5, <1>6, <1>7, <1>8, <1>9, <1>10, <1>11, <1>12, <1>13, <1>14,
     <1>15, <1>16, <1>17, <1>18, <1>19, <1>20, <1>21, <1>22, <1>23, <1>24, <1>25, <1>26, <1>27,
     <1>28, <1>29, <1>30, <1>31, <1>32, <1>33, <1>34, <1>35, <1>36, <1>37, <1>38, <1>39, <1>40, <1>41,
     NextCases

(* The one lock that is held, and noff. *)
LEMMA LockStep ==
    ASSUME IInv, Next
    PROVE  hart' \in HartType /\ LockInv'
<1>0. /\ LockInv /\ cur \in Threads /\ pc \in [Threads -> Labels] /\ slot \in [Threads -> 1..NPROC + 1]
     /\ hart \in HartType /\ cproc \in Threads
  BY DEF IInv, TypeOK, HartType
<1>1. ASSUME SchedulerSwitch PROVE hart' \in HartType /\ LockInv'
  <2>1. pc[slot[0]] \in {"forkret", "y_back", "sl_back"} /\ slot[0] \in Procs
    BY <1>1, SchedulerSwitchEffect, WaitPlace, Numbers DEF SchedulerSwitch
  <2>2. cur' = slot[0] /\ pc'[slot[0]] = pc[slot[0]] /\ slot' = slot
    BY <1>1, <2>1, <1>0, Numbers DEF SchedulerSwitch, Goto, callVars
  <2>. QED
    BY <1>1, SchedulerSwitchEffect, <2>1, <2>2 DEF LockInv, SlotLabels, OwnLabels, WaitLabels,
       TickLabels, TaskFree, SchedFree, TrapFree
<1>2. ASSUME SchedulerBack PROVE hart' \in HartType /\ LockInv'
  <2>1. cur' = 0 /\ pc'[0] = "s_loop"
    BY <1>2, <1>0, SchedulerBackEffect DEF SchedulerBack, Goto
  <2>. QED
    BY <1>2, SchedulerBackEffect, <2>1 DEF LockInv, SlotLabels, OwnLabels, WaitLabels,
       TickLabels, TaskFree, SchedFree, TrapFree
<1>3. ASSUME NEW t \in Threads, AllocAcquire(t) PROVE hart' \in HartType /\ LockInv'
  <2>1. cur' = t /\ pc'[t] = "a_test" /\ slot' = slot
    BY <1>3, <1>0, AllocAcquireEffect DEF AllocAcquire, Take, Goto, callVars
  <2>. QED
    BY <1>3, AllocAcquireEffect, <2>1 DEF LockInv, SlotLabels, OwnLabels, WaitLabels,
       TickLabels, TaskFree, SchedFree, TrapFree
<1>4. ASSUME NEW t \in Threads, AllocNext(t) PROVE hart' \in HartType /\ LockInv'
  <2>1. cur' = t /\ pc'[t] = "a_scan"
    BY <1>4, <1>0, AllocNextEffect DEF AllocNext, Goto
  <2>. QED
    BY <1>4, AllocNextEffect, <2>1 DEF LockInv, SlotLabels, OwnLabels, WaitLabels, TickLabels,
       TaskFree, SchedFree, TrapFree
<1>5. ASSUME NEW t \in Threads, UserinitFinish(t) PROVE hart' \in HartType /\ LockInv'
  <2>1. cur' = t /\ pc'[t] = "a_scan"
    BY <1>5, <1>0, UserinitFinishEffect DEF UserinitFinish, Start, Goto
  <2>. QED
    BY <1>5, UserinitFinishEffect, <2>1 DEF LockInv, SlotLabels, OwnLabels, WaitLabels,
       TickLabels, TaskFree, SchedFree, TrapFree
<1>6. ASSUME NEW t \in Threads, CreateFinish(t) PROVE hart' \in HartType /\ LockInv'
  <2>1. cur' = t /\ pc'[t] = "c_ret"
    BY <1>6, <1>0, CreateFinishEffect DEF CreateFinish, Start, Goto
  <2>. QED
    BY <1>6, CreateFinishEffect, <2>1 DEF LockInv, SlotLabels, OwnLabels, WaitLabels,
       TickLabels, TaskFree, SchedFree, TrapFree
<1>7. ASSUME NEW t \in Threads, Forkret(t) PROVE hart' \in HartType /\ LockInv'
  <2>1. cur' = t /\ pc'[t] = "f_call"
    BY <1>7, <1>0, ForkretEffect DEF Forkret, Goto
  <2>. QED
    BY <1>7, ForkretEffect, <2>1, Here DEF LockInv, SlotLabels, OwnLabels, WaitLabels,
       TickLabels, TaskFree, SchedFree, TrapFree
<1>8. ASSUME NEW t \in Threads, WaitAcquire(t) PROVE hart' \in HartType /\ LockInv'
  <2>1. cur' = t /\ pc'[t] = "w_scan"
    BY <1>8, <1>0, WaitAcquireEffect DEF WaitAcquire, Take, Goto
  <2>. QED
    BY <1>8, WaitAcquireEffect, <2>1 DEF LockInv, SlotLabels, OwnLabels, WaitLabels,
       TickLabels, TaskFree, SchedFree, TrapFree
<1>9. ASSUME NEW t \in Threads, WaitReap(t) PROVE hart' \in HartType /\ LockInv'
  <2>1. cur' = t /\ pc'[t] = home[t]
    BY <1>9, <1>0, WaitReapEffect DEF WaitReap, FreeProcess, ClearSlot, Goto
  <2>. QED
    BY <1>9, WaitReapEffect, <2>1, Here DEF LockInv, SlotLabels, OwnLabels, WaitLabels,
       TickLabels, TaskFree, SchedFree, TrapFree
<1>10. ASSUME NEW t \in Threads, WaitNoChildren(t) PROVE hart' \in HartType /\ LockInv'
  <2>1. cur' = t /\ pc'[t] = IF home[t] = "w_acq" THEN "y_acq" ELSE home[t]
    BY <1>10, <1>0, WaitNoChildrenEffect DEF WaitNoChildren, init_task, Goto
  <2>. QED
    BY <1>10, WaitNoChildrenEffect, <2>1, Here DEF LockInv, SlotLabels, OwnLabels, WaitLabels,
       TickLabels, TaskFree, SchedFree, TrapFree
<1>11. ASSUME NEW t \in Threads, WaitSleep(t) PROVE hart' \in HartType /\ LockInv'
  <2>1. cur' = t /\ pc'[t] = "sl_sched"
    BY <1>11, <1>0, WaitSleepEffect DEF WaitSleep, Sleep, Goto
  <2>. QED
    BY <1>11, WaitSleepEffect, <2>1 DEF LockInv, SlotLabels, OwnLabels, WaitLabels, TickLabels,
       TaskFree, SchedFree, TrapFree
<1>12. ASSUME NEW t \in Threads, SleepReturn(t) PROVE hart' \in HartType /\ LockInv'
  <2>1. cur' = t /\ pc'[t] = "sl_reacq"
    BY <1>12, <1>0, SleepReturnEffect DEF SleepReturn, Goto
  <2>. QED
    BY <1>12, SleepReturnEffect, <2>1 DEF LockInv, SlotLabels, OwnLabels, WaitLabels,
       TickLabels, TaskFree, SchedFree, TrapFree
<1>13. ASSUME NEW t \in Threads, SleepReacquire(t) PROVE hart' \in HartType /\ LockInv'
  <2>1. lk[t] \in {WaitLock, TicksLock}
    BY DEF IInv, TypeOK
  <2>2. cur' = t /\ pc'[t] = IF lk[t] = WaitLock THEN "w_scan" ELSE "sl_done"
    BY <1>13, <1>0, SleepReacquireEffect DEF SleepReacquire, Take, Goto
  <2>. QED
    BY <1>13, SleepReacquireEffect, <2>1, <2>2 DEF LockInv, SlotLabels, OwnLabels, WaitLabels,
       TickLabels, TaskFree, SchedFree, TrapFree
<1>14. ASSUME NEW t \in Threads, TicksAcquire(t) PROVE hart' \in HartType /\ LockInv'
  <2>1. cur' = t /\ pc'[t] = "sl_ticks"
    BY <1>14, <1>0, TicksAcquireEffect DEF TicksAcquire, Take, Goto
  <2>. QED
    BY <1>14, TicksAcquireEffect, <2>1 DEF LockInv, SlotLabels, OwnLabels, WaitLabels,
       TickLabels, TaskFree, SchedFree, TrapFree
<1>15. ASSUME NEW t \in Threads, TicksSleep(t) PROVE hart' \in HartType /\ LockInv'
  <2>1. cur' = t /\ pc'[t] = "sl_sched"
    BY <1>15, <1>0, TicksSleepEffect DEF TicksSleep, Sleep, Goto
  <2>. QED
    BY <1>15, TicksSleepEffect, <2>1 DEF LockInv, SlotLabels, OwnLabels, WaitLabels,
       TickLabels, TaskFree, SchedFree, TrapFree
<1>16. ASSUME NEW t \in Threads, TicksRelease(t) PROVE hart' \in HartType /\ LockInv'
  <2>1. cur' = t /\ pc'[t] = home[t]
    BY <1>16, <1>0, TicksReleaseEffect DEF TicksRelease, Goto
  <2>. QED
    BY <1>16, TicksReleaseEffect, <2>1, Here DEF LockInv, SlotLabels, OwnLabels, WaitLabels,
       TickLabels, TaskFree, SchedFree, TrapFree
<1>17. ASSUME NEW t \in Threads, ExitAcquire(t) PROVE hart' \in HartType /\ LockInv'
  <2>1. cur' = t /\ pc'[t] = "e_reparent"
    BY <1>17, <1>0, ExitAcquireEffect DEF ExitAcquire, Take, Goto
  <2>. QED
    BY <1>17, ExitAcquireEffect, <2>1 DEF LockInv, SlotLabels, OwnLabels, WaitLabels,
       TickLabels, TaskFree, SchedFree, TrapFree
<1>18. ASSUME NEW t \in Threads, ExitZombie(t) PROVE hart' \in HartType /\ LockInv'
  <2>1. cur' = t /\ pc'[t] = "e_sched"
    BY <1>18, <1>0, ExitZombieEffect DEF ExitZombie, Goto
  <2>. QED
    BY <1>18, ExitZombieEffect, <2>1 DEF LockInv, SlotLabels, OwnLabels, WaitLabels,
       TickLabels, TaskFree, SchedFree, TrapFree
<1>19. ASSUME NEW t \in Threads, YieldAcquire(t) PROVE hart' \in HartType /\ LockInv'
  <2>1. cur' = t /\ pc'[t] = "y_sched"
    BY <1>19, <1>0, YieldAcquireEffect DEF YieldAcquire, Goto
  <2>. QED
    BY <1>19, YieldAcquireEffect, <2>1 DEF LockInv, SlotLabels, OwnLabels, WaitLabels,
       TickLabels, TaskFree, SchedFree, TrapFree
<1>20. ASSUME NEW t \in Threads, YieldReturn(t) PROVE hart' \in HartType /\ LockInv'
  <2>1. cur' = t /\ pc'[t] = IF savedpc[t] # "none" THEN "t_ret" ELSE home[t]
    BY <1>20, <1>0, YieldReturnEffect DEF YieldReturn, Goto
  <2>. QED
    BY <1>20, YieldReturnEffect, <2>1, Here DEF LockInv, SlotLabels, OwnLabels, WaitLabels,
       TickLabels, TaskFree, SchedFree, TrapFree
<1>21. ASSUME NEW t \in Threads, TimerInterrupt(t) PROVE hart' \in HartType /\ LockInv'
  <2>1. cur' = t /\ pc'[t] = IF cproc # 0 THEN "y_acq" ELSE "t_ret"
    BY <1>21, <1>0, TimerInterruptEffect DEF TimerInterrupt, Wakeup, Goto
  <2>. QED
    BY <1>21, TimerInterruptEffect, <2>1, Here DEF LockInv, SlotLabels, OwnLabels, WaitLabels,
       TickLabels, TaskFree, SchedFree, TrapFree
<1>22. ASSUME NEW t \in Threads, TrapReturn(t) PROVE hart' \in HartType /\ LockInv'
  <2>1. cur' = t /\ pc'[t] = savedpc[t]
    BY <1>22, <1>0, TrapReturnEffect DEF TrapReturn
  <2>. QED
    BY <1>22, TrapReturnEffect, <2>1, Numbers DEF LockInv, SlotLabels, OwnLabels, WaitLabels,
       TickLabels, TaskFree, SchedFree, TrapFree
<1>. USE <1>0, Here, Numbers DEF At, Goto, cpuVars, irqVars, tableVars, memVars, callVars,
   schedVars, LockInv, SlotLabels, OwnLabels, WaitLabels, TickLabels, TaskFree, SchedFree,
   TrapFree
<1>23. ASSUME SchedulerStart PROVE hart' \in HartType /\ LockInv'
  BY <1>23 DEF SchedulerStart
<1>24. ASSUME IntrOn PROVE hart' \in HartType /\ LockInv'
  BY <1>24, IntrEffect DEF IntrOn
<1>25. ASSUME IntrOff PROVE hart' \in HartType /\ LockInv'
  BY <1>25, IntrEffect DEF IntrOff
<1>26. ASSUME SchedulerSkip PROVE hart' \in HartType /\ LockInv'
  BY <1>26, SchedulerSkipEffect DEF SchedulerSkip
<1>27. ASSUME SchedulerPassEnd PROVE hart' \in HartType /\ LockInv'
  BY <1>27 DEF SchedulerPassEnd
<1>28. ASSUME Wfi PROVE hart' \in HartType /\ LockInv'
  BY <1>28 DEF Wfi
<1>29. ASSUME NEW t \in Threads, AllocFound(t) PROVE hart' \in HartType /\ LockInv'
  BY <1>29, AllocFoundEffect, AllocSlotEffect DEF AllocFound
<1>30. ASSUME NEW t \in Threads, AllocNoMemory(t) PROVE hart' \in HartType /\ LockInv'
  BY <1>30, AllocSlotEffect DEF AllocNoMemory
<1>31. ASSUME NEW t \in Threads, AllocFull(t) PROVE hart' \in HartType /\ LockInv'
  BY <1>31 DEF AllocFull
<1>32. ASSUME NEW t \in Threads, CreateReturn(t) PROVE hart' \in HartType /\ LockInv'
  BY <1>32 DEF CreateReturn
<1>33. ASSUME NEW t \in Threads, Sched(t) PROVE hart' \in HartType /\ LockInv'
  BY <1>33, SchedEffect
<1>34. ASSUME NEW t \in Threads, ExitReparent(t) PROVE hart' \in HartType /\ LockInv'
  BY <1>34 DEF ExitReparent, Wakeup
<1>35. ASSUME NEW t \in Threads, ExitWakeParent(t) PROVE hart' \in HartType /\ LockInv'
  BY <1>35 DEF ExitWakeParent, Wakeup
<1>36. ASSUME NEW t \in Threads, TakeInterrupt(t) PROVE hart' \in HartType /\ LockInv'
  BY <1>36, TakeInterruptEffect DEF TakeInterrupt
<1>37. ASSUME NEW t \in Procs, CallsOf(t) PROVE hart' \in HartType /\ LockInv'
  BY <1>37 DEF CallsOf, CallCreate, CallWait, CallYield, CallSleep, CallReturn, CallExit, Call
<1>38. ASSUME NEW t \in Procs, NEW b \in BOOLEAN, CallIntr(t, b)
      PROVE  hart' \in HartType /\ LockInv'
  BY <1>38, CallIntrEffect DEF CallIntr
<1>39. ASSUME TimerExpire PROVE hart' \in HartType /\ LockInv'
  BY <1>39 DEF TimerExpire
<1>40. ASSUME NEW t \in Threads, PanicSpin(t) PROVE hart' \in HartType /\ LockInv'
  BY <1>40 DEF PanicSpin, vars
<1>41. ASSUME NEW t \in Threads, ForkretCall(t) PROVE hart' \in HartType /\ LockInv'
  BY <1>41, ForkretCallEffect
<1>. HIDE <1>0, Here, Numbers DEF At, Goto, cpuVars, irqVars, tableVars, memVars, callVars,
   schedVars, LockInv, SlotLabels, OwnLabels, WaitLabels, TickLabels, TaskFree, SchedFree,
   TrapFree
<1>. QED
  BY <1>1, <1>2, <1>3, <1>4, <1>5, <1>6, <1>7, <1>8, <1>9, <1>10, <1>11, <1>12, <1>13, <1>14,
     <1>15, <1>16, <1>17, <1>18, <1>19, <1>20, <1>21, <1>22, <1>23, <1>24, <1>25, <1>26, <1>27,
     <1>28, <1>29, <1>30, <1>31, <1>32, <1>33, <1>34, <1>35, <1>36, <1>37, <1>38, <1>39, <1>40, <1>41,
     NextCases

(* the parts of TypeOK *)
TypeLocals ==
    /\ slot \in [Threads -> 1..NPROC + 1]
    /\ sintena \in [Threads -> BOOLEAN] /\ want \in [Threads -> BOOLEAN]

TypeCpu ==
    /\ cur \in Threads /\ cproc \in Threads /\ initproc \in Threads
    /\ pc \in [Threads -> Labels] /\ savedpc \in [Threads -> Labels]
    /\ home \in [Threads -> Labels] /\ sepc \in Labels
    /\ pending \in BOOLEAN /\ found \in BOOLEAN

TypeTable ==
    /\ state \in [Procs -> States]
    /\ chan \in [Procs -> 0..TicksChan]
    /\ parent \in [Procs -> Threads]
    /\ pid \in [Procs -> Nat] /\ nextpid \in Nat
    /\ xstate \in [Procs -> Int]

TypeArgs ==
    /\ pages \in [Procs -> 0..PagesPerProc] /\ nfree \in Nat
    /\ lk \in [Threads -> {WaitLock, TicksLock}]
    /\ ret \in [Threads -> Int] /\ status \in [Threads -> Int]

(* The loop variables, and the interrupt states that were saved. *)
LEMMA LocalsStep ==
    ASSUME IInv, Next
    PROVE  TypeLocals'
<1>0. TypeLocals /\ hart \in HartType
  BY DEF IInv, TypeOK, TypeLocals, HartType
<1>1. ASSUME IntrOff PROVE TypeLocals'
  <2>1. slot' = [slot EXCEPT ![0] = 1] /\ sintena' = sintena /\ want' = want
    BY <1>1 DEF IntrOff, schedVars
  <2>2. 1 \in 1..NPROC + 1
    BY <1>1, IntrEffect, <1>0, SlotRange, Numbers
  <2>. QED
    BY <2>1, <2>2, <1>0, Numbers DEF TypeLocals
<1>2. ASSUME SchedulerSkip PROVE TypeLocals'
  <2>1. slot' = [slot EXCEPT ![0] = slot[0] + 1] /\ sintena' = sintena /\ want' = want
    BY <1>2 DEF SchedulerSkip, schedVars
  <2>2. slot[0] + 1 \in 1..NPROC + 1
    BY <1>2, SchedulerSkipEffect, <1>0, SlotRange, Numbers DEF SchedulerSkip
  <2>. QED
    BY <2>1, <2>2, <1>0, Numbers DEF TypeLocals
<1>3. ASSUME SchedulerBack PROVE TypeLocals'
  <2>1. slot' = [slot EXCEPT ![0] = slot[0] + 1] /\ sintena' = sintena /\ want' = want
    BY <1>3 DEF SchedulerBack, schedVars
  <2>2. slot[0] + 1 \in 1..NPROC + 1
    BY <1>3, SchedulerBackEffect, <1>0, SlotRange, Numbers
  <2>. QED
    BY <2>1, <2>2, <1>0, Numbers DEF TypeLocals
<1>4. ASSUME NEW t \in Threads, AllocNext(t) PROVE TypeLocals'
  <2>1. slot' = [slot EXCEPT ![t] = slot[t] + 1] /\ sintena' = sintena /\ want' = want
    BY <1>4 DEF AllocNext, schedVars
  <2>2. slot[t] + 1 \in 1..NPROC + 1
    BY <1>4, AllocNextEffect, <1>0, SlotRange, Numbers
  <2>. QED
    BY <2>1, <2>2, <1>0, Numbers DEF TypeLocals
<1>5. ASSUME NEW t \in Threads, UserinitFinish(t) PROVE TypeLocals'
  <2>1. slot' = [slot EXCEPT ![t] = 1] /\ sintena' = sintena /\ want' = want
    BY <1>5 DEF UserinitFinish, Start, schedVars
  <2>2. 1 \in 1..NPROC + 1
    BY <1>5, UserinitFinishEffect, <1>0, SlotRange, Numbers
  <2>. QED
    BY <2>1, <2>2, <1>0, Numbers DEF TypeLocals
<1>6. ASSUME NEW t \in Threads, CreateReturn(t) PROVE TypeLocals'
  <2>1. slot' = [slot EXCEPT ![t] = 1] /\ sintena' = sintena /\ want' = want
    BY <1>6 DEF CreateReturn, schedVars
  <2>2. 1 \in 1..NPROC + 1
    BY <1>6, <1>0, SlotRange, Numbers
  <2>. QED
    BY <2>1, <2>2, <1>0, Numbers DEF TypeLocals
<1>7. ASSUME NEW t \in Threads, Forkret(t) PROVE TypeLocals'
  <2>1. want' = [want EXCEPT ![t] = hart'.sie] /\ slot' = slot /\ sintena' = sintena
    BY <1>7 DEF Forkret, callVars
  <2>2. hart'.sie \in BOOLEAN
    BY <1>7, ForkretEffect, <1>0, SlotRange, Numbers DEF HartType
  <2>. QED
    BY <2>1, <2>2, <1>0, Numbers DEF TypeLocals
<1>8. ASSUME NEW t \in Threads, Sched(t) PROVE TypeLocals'
  <2>1. sintena' = [sintena EXCEPT ![t] = hart.intena] /\ slot' = slot /\ want' = want
    BY <1>8, SchedEffect DEF Sched, callVars
  <2>2. hart.intena \in BOOLEAN
    BY <1>8, SchedEffect, <1>0, SlotRange, Numbers DEF HartType
  <2>. QED
    BY <2>1, <2>2, <1>0, Numbers DEF TypeLocals
<1>9. ASSUME NEW t \in Threads, SleepReturn(t) PROVE TypeLocals'
  <2>1. sintena' = [sintena EXCEPT ![t] = FALSE] /\ slot' = slot /\ want' = want
    BY <1>9, SleepReturnEffect DEF SleepReturn, callVars
  <2>2. FALSE \in BOOLEAN
    BY <1>9, SleepReturnEffect, <1>0, SlotRange, Numbers
  <2>. QED
    BY <2>1, <2>2, <1>0, Numbers DEF TypeLocals
<1>10. ASSUME NEW t \in Threads, YieldReturn(t) PROVE TypeLocals'
  <2>1. sintena' = [sintena EXCEPT ![t] = FALSE] /\ slot' = slot /\ want' = want
    BY <1>10, YieldReturnEffect DEF YieldReturn, callVars
  <2>2. FALSE \in BOOLEAN
    BY <1>10, YieldReturnEffect, <1>0, SlotRange, Numbers
  <2>. QED
    BY <2>1, <2>2, <1>0, Numbers DEF TypeLocals
<1>11. ASSUME NEW t \in Procs, NEW b \in BOOLEAN, CallIntr(t, b) PROVE TypeLocals'
  <2>1. want' = [want EXCEPT ![t] = b] /\ slot' = slot /\ sintena' = sintena
    BY <1>11 DEF CallIntr, callVars
  <2>2. b \in BOOLEAN
    BY <1>11, CallIntrEffect, <1>0, SlotRange, Numbers
  <2>. QED
    BY <2>1, <2>2, <1>0, Numbers DEF TypeLocals
<1>. USE <1>0, SlotRange, Numbers DEF At, Goto, cpuVars, irqVars, tableVars, memVars, callVars,
   schedVars, TypeLocals
<1>12. ASSUME \/ SchedulerStart
             \/ IntrOn
             \/ SchedulerSwitch
             \/ SchedulerPassEnd
             \/ Wfi
             \/ (\E t \in Threads : AllocAcquire(t))
             \/ (\E t \in Threads : AllocFound(t))
             \/ (\E t \in Threads : AllocNoMemory(t))
             \/ (\E t \in Threads : AllocFull(t))
             \/ (\E t \in Threads : CreateFinish(t))
             \/ (\E t \in Threads : ForkretCall(t))
             \/ (\E t \in Threads : WaitAcquire(t))
             \/ (\E t \in Threads : WaitReap(t))
             \/ (\E t \in Threads : WaitNoChildren(t))
             \/ (\E t \in Threads : WaitSleep(t))
             \/ (\E t \in Threads : SleepReacquire(t))
             \/ (\E t \in Threads : TicksAcquire(t))
             \/ (\E t \in Threads : TicksSleep(t))
             \/ (\E t \in Threads : TicksRelease(t))
             \/ (\E t \in Threads : ExitAcquire(t))
             \/ (\E t \in Threads : ExitReparent(t))
             \/ (\E t \in Threads : ExitWakeParent(t))
             \/ (\E t \in Threads : ExitZombie(t))
             \/ (\E t \in Threads : YieldAcquire(t))
             \/ (\E t \in Threads : TimerInterrupt(t))
             \/ (\E t \in Threads : TrapReturn(t))
             \/ (\E t \in Threads : TakeInterrupt(t))
             \/ (\E t \in Procs : CallsOf(t))
             \/ TimerExpire
             \/ (\E t \in Threads : PanicSpin(t))
      PROVE  TypeLocals'
  <2>1. UNCHANGED <<slot, sintena, want>>
    BY <1>12, AllocSlotEffect DEF SchedulerStart, IntrOn, SchedulerSwitch, SchedulerPassEnd,
       Wfi, AllocAcquire, Take, AllocFound, AllocNoMemory, AllocFull, CreateFinish, Start,
       ForkretCall, WaitAcquire, WaitReap, FreeProcess, ClearSlot, WaitNoChildren, init_task, WaitSleep, Sleep,
       SleepReacquire, TicksAcquire, TicksSleep, TicksRelease, ExitAcquire, ExitReparent,
       Wakeup, ExitWakeParent, ExitZombie, YieldAcquire, TimerInterrupt, TrapReturn,
       TakeInterrupt, CallsOf, CallCreate, CallWait, CallYield, CallSleep, CallReturn, CallExit, Call,
       TimerExpire, PanicSpin, vars, callVars, schedVars
  <2>. QED
    BY <2>1, <1>0 DEF TypeLocals
<1>. HIDE <1>0, SlotRange, Numbers DEF At, Goto, cpuVars, irqVars, tableVars, memVars,
   callVars, schedVars, TypeLocals
<1>. QED
  BY <1>1, <1>2, <1>3, <1>4, <1>5, <1>6, <1>7, <1>8, <1>9, <1>10, <1>11, <1>12, NextCases

(* The types of the hart and the labels. *)
LEMMA CpuStep ==
    ASSUME IInv, Next
    PROVE  TypeCpu'
<1>0. TypeCpu
  BY DEF IInv, TypeOK, TypeCpu
<1>1. ASSUME NEW t \in Threads, UserinitFinish(t) PROVE TypeCpu'
  <2>1. /\ cur' = t /\ cproc' = cproc /\ initproc' = slot[t] /\ slot[t] \in Procs
        /\ pc' = [pc EXCEPT ![t] = "a_scan"] /\ home' = [home EXCEPT ![slot[t]] = "w_acq"]
        /\ UNCHANGED <<savedpc, sepc, pending, found>>
    BY <1>1, UserinitFinishEffect DEF UserinitFinish, Start, Goto, irqVars, schedVars
  <2>. QED
    BY <2>1, <1>0, Numbers DEF TypeCpu, Labels
<1>2. ASSUME NEW t \in Threads, CreateFinish(t) PROVE TypeCpu'
  <2>1. /\ cur' = t /\ cproc' = cproc /\ initproc' = initproc /\ slot[t] \in Procs
        /\ pc' = [pc EXCEPT ![t] = "c_ret"] /\ home' = [home EXCEPT ![slot[t]] = "run"]
        /\ UNCHANGED <<savedpc, sepc, pending, found>>
    BY <1>2, CreateFinishEffect DEF CreateFinish, Start, Goto, irqVars, memVars, schedVars
  <2>. QED
    BY <2>1, <1>0, Numbers DEF TypeCpu, Labels
<1>. USE <1>0, Here, Numbers DEF At, Goto, cpuVars, irqVars, tableVars, memVars, callVars,
   schedVars, TypeCpu, Labels, TaskFree
<1>3. ASSUME SchedulerStart PROVE TypeCpu'
  BY <1>3 DEF SchedulerStart
<1>4. ASSUME IntrOn PROVE TypeCpu'
  BY <1>4, IntrEffect DEF IntrOn
<1>5. ASSUME IntrOff PROVE TypeCpu'
  BY <1>5, IntrEffect DEF IntrOff
<1>6. ASSUME SchedulerSkip PROVE TypeCpu'
  BY <1>6, SchedulerSkipEffect DEF SchedulerSkip
<1>7. ASSUME SchedulerSwitch PROVE TypeCpu'
  BY <1>7, SchedulerSwitchEffect DEF SchedulerSwitch
<1>8. ASSUME SchedulerBack PROVE TypeCpu'
  BY <1>8, SchedulerBackEffect DEF SchedulerBack
<1>9. ASSUME SchedulerPassEnd PROVE TypeCpu'
  BY <1>9 DEF SchedulerPassEnd
<1>10. ASSUME Wfi PROVE TypeCpu'
  BY <1>10 DEF Wfi
<1>11. ASSUME NEW t \in Threads, AllocAcquire(t) PROVE TypeCpu'
  BY <1>11, AllocAcquireEffect DEF AllocAcquire, Take
<1>12. ASSUME NEW t \in Threads, AllocNext(t) PROVE TypeCpu'
  BY <1>12, AllocNextEffect DEF AllocNext
<1>13. ASSUME NEW t \in Threads, AllocFound(t) PROVE TypeCpu'
  BY <1>13, AllocFoundEffect, AllocSlotEffect DEF AllocFound
<1>14. ASSUME NEW t \in Threads, AllocNoMemory(t) PROVE TypeCpu'
  BY <1>14, AllocSlotEffect DEF AllocNoMemory
<1>15. ASSUME NEW t \in Threads, AllocFull(t) PROVE TypeCpu'
  BY <1>15 DEF AllocFull
<1>16. ASSUME NEW t \in Threads, CreateReturn(t) PROVE TypeCpu'
  BY <1>16 DEF CreateReturn
<1>17. ASSUME NEW t \in Threads, Forkret(t) PROVE TypeCpu'
  BY <1>17, ForkretEffect DEF Forkret
<1>18. ASSUME NEW t \in Threads, Sched(t) PROVE TypeCpu'
  BY <1>18, SchedEffect
<1>19. ASSUME NEW t \in Threads, WaitAcquire(t) PROVE TypeCpu'
  BY <1>19, WaitAcquireEffect DEF WaitAcquire, Take
<1>20. ASSUME NEW t \in Threads, WaitReap(t) PROVE TypeCpu'
  BY <1>20, WaitReapEffect DEF WaitReap, FreeProcess, ClearSlot
<1>21. ASSUME NEW t \in Threads, WaitNoChildren(t) PROVE TypeCpu'
  BY <1>21, WaitNoChildrenEffect DEF WaitNoChildren, init_task
<1>22. ASSUME NEW t \in Threads, WaitSleep(t) PROVE TypeCpu'
  BY <1>22, WaitSleepEffect DEF WaitSleep, Sleep
<1>23. ASSUME NEW t \in Threads, SleepReturn(t) PROVE TypeCpu'
  BY <1>23, SleepReturnEffect DEF SleepReturn
<1>24. ASSUME NEW t \in Threads, SleepReacquire(t) PROVE TypeCpu'
  BY <1>24, SleepReacquireEffect DEF SleepReacquire, Take
<1>25. ASSUME NEW t \in Threads, TicksAcquire(t) PROVE TypeCpu'
  BY <1>25, TicksAcquireEffect DEF TicksAcquire, Take
<1>26. ASSUME NEW t \in Threads, TicksSleep(t) PROVE TypeCpu'
  BY <1>26, TicksSleepEffect DEF TicksSleep, Sleep
<1>27. ASSUME NEW t \in Threads, TicksRelease(t) PROVE TypeCpu'
  BY <1>27, TicksReleaseEffect DEF TicksRelease
<1>28. ASSUME NEW t \in Threads, ExitAcquire(t) PROVE TypeCpu'
  BY <1>28, ExitAcquireEffect DEF ExitAcquire, Take
<1>29. ASSUME NEW t \in Threads, ExitReparent(t) PROVE TypeCpu'
  BY <1>29 DEF ExitReparent, Wakeup
<1>30. ASSUME NEW t \in Threads, ExitWakeParent(t) PROVE TypeCpu'
  BY <1>30 DEF ExitWakeParent, Wakeup
<1>31. ASSUME NEW t \in Threads, ExitZombie(t) PROVE TypeCpu'
  BY <1>31, ExitZombieEffect DEF ExitZombie
<1>32. ASSUME NEW t \in Threads, YieldAcquire(t) PROVE TypeCpu'
  BY <1>32, YieldAcquireEffect DEF YieldAcquire
<1>33. ASSUME NEW t \in Threads, YieldReturn(t) PROVE TypeCpu'
  BY <1>33, YieldReturnEffect DEF YieldReturn
<1>34. ASSUME NEW t \in Threads, TimerInterrupt(t) PROVE TypeCpu'
  BY <1>34, TimerInterruptEffect DEF TimerInterrupt, Wakeup
<1>35. ASSUME NEW t \in Threads, TrapReturn(t) PROVE TypeCpu'
  BY <1>35, TrapReturnEffect DEF TrapReturn
<1>36. ASSUME NEW t \in Threads, TakeInterrupt(t) PROVE TypeCpu'
  BY <1>36, TakeInterruptEffect DEF TakeInterrupt
<1>37. ASSUME NEW t \in Procs, CallsOf(t) PROVE TypeCpu'
  BY <1>37 DEF CallsOf, CallCreate, CallWait, CallYield, CallSleep, CallReturn, CallExit, Call
<1>38. ASSUME NEW t \in Procs, NEW b \in BOOLEAN, CallIntr(t, b) PROVE TypeCpu'
  BY <1>38, CallIntrEffect DEF CallIntr
<1>39. ASSUME TimerExpire PROVE TypeCpu'
  BY <1>39 DEF TimerExpire
<1>40. ASSUME NEW t \in Threads, PanicSpin(t) PROVE TypeCpu'
  BY <1>40 DEF PanicSpin, vars
<1>41. ASSUME NEW t \in Threads, ForkretCall(t) PROVE TypeCpu'
  BY <1>41, ForkretCallEffect
<1>. HIDE <1>0, Here, Numbers DEF At, Goto, cpuVars, irqVars, tableVars, memVars, callVars,
   schedVars, TypeCpu, Labels, TaskFree
<1>. QED
  BY <1>1, <1>2, <1>3, <1>4, <1>5, <1>6, <1>7, <1>8, <1>9, <1>10, <1>11, <1>12, <1>13, <1>14,
     <1>15, <1>16, <1>17, <1>18, <1>19, <1>20, <1>21, <1>22, <1>23, <1>24, <1>25, <1>26, <1>27,
     <1>28, <1>29, <1>30, <1>31, <1>32, <1>33, <1>34, <1>35, <1>36, <1>37, <1>38, <1>39, <1>40, <1>41,
     NextCases

(* The types of the process table. *)
LEMMA TableStep ==
    ASSUME IInv, Next
    PROVE  TypeTable'
<1>0. TypeTable
  BY DEF IInv, TypeOK, TypeTable
<1>1. ASSUME NEW t \in Threads, CreateFinish(t) PROVE TypeTable'
  <2>1. /\ slot[t] \in Procs /\ state' = [state EXCEPT ![slot[t]] = "RUNNABLE"]
        /\ parent' = [parent EXCEPT ![slot[t]] = cproc] \/ parent' = parent
        /\ UNCHANGED <<chan, pid, xstate, nextpid>>
    BY <1>1, CreateFinishEffect DEF CreateFinish, Start, memVars
  <2>2. cproc \in Threads
    BY DEF IInv, TypeOK
  <2>. QED
    BY <2>1, <2>2, <1>0 DEF TypeTable, States
<1>2. ASSUME NEW t \in Threads, WaitReap(t) PROVE TypeTable'
  <2>1. PICK np \in Zombies(t) : FreeProcess(np)
    BY <1>2 DEF WaitReap
  <2>2. /\ np \in Procs /\ nextpid' = nextpid
        /\ state' = [state EXCEPT ![np] = "UNUSED"] /\ chan' = [chan EXCEPT ![np] = 0]
        /\ parent' = [parent EXCEPT ![np] = 0] /\ pid' = [pid EXCEPT ![np] = 0] /\ xstate' = [xstate EXCEPT ![np] = 0]
    BY <1>2, <2>1 DEF WaitReap, FreeProcess, ClearSlot, Zombies, Children
  <2>. QED
    BY <2>2, <1>0, Numbers DEF TypeTable, States
<1>3. ASSUME NEW t \in Threads, ExitReparent(t) PROVE TypeTable'
  <2>1. /\ parent' = [np \in Procs |-> IF parent[np] = t THEN initproc ELSE parent[np]]
        /\ UNCHANGED <<chan, pid, xstate, nextpid>>
    BY <1>3 DEF ExitReparent, memVars
  <2>2. state' \in [Procs -> States]
    BY <1>3, <1>0, WakeupEffect DEF ExitReparent, TypeTable
  <2>3. initproc \in Threads
    BY DEF IInv, TypeOK
  <2>. QED
    BY <2>1, <2>2, <2>3, <1>0 DEF TypeTable
<1>4. ASSUME NEW t \in Threads, ExitWakeParent(t) PROVE TypeTable'
  <2>1. UNCHANGED <<chan, parent, pid, xstate, nextpid>>
    BY <1>4 DEF ExitWakeParent, memVars
  <2>2. state' \in [Procs -> States]
    BY <1>4, <1>0, WakeupEffect DEF ExitWakeParent, TypeTable
  <2>. QED
    BY <2>1, <2>2, <1>0 DEF TypeTable
<1>5. ASSUME NEW t \in Threads, ExitZombie(t) PROVE TypeTable'
  <2>1. /\ t \in Procs /\ status[t] \in Int
        /\ state' = [state EXCEPT ![t] = "ZOMBIE"] /\ xstate' = [xstate EXCEPT ![t] = status[t]]
        /\ UNCHANGED <<chan, parent, pid, nextpid>>
    BY <1>5, ExitZombieEffect DEF ExitZombie, memVars, IInv, TypeOK
  <2>. QED
    BY <2>1, <1>0 DEF TypeTable, States
<1>6. ASSUME NEW t \in Threads, TimerInterrupt(t) PROVE TypeTable'
  <2>1. UNCHANGED <<chan, parent, pid, xstate, nextpid>>
    BY <1>6 DEF TimerInterrupt, memVars
  <2>2. state' \in [Procs -> States]
    BY <1>6, <1>0, WakeupEffect DEF TimerInterrupt, TypeTable
  <2>. QED
    BY <2>1, <2>2, <1>0 DEF TypeTable
<1>. USE <1>0, Here, Numbers DEF At, Goto, cpuVars, irqVars, tableVars, memVars, callVars,
   schedVars, TypeTable, States
<1>7. ASSUME SchedulerStart PROVE TypeTable'
  BY <1>7 DEF SchedulerStart
<1>8. ASSUME IntrOn PROVE TypeTable'
  BY <1>8, IntrEffect DEF IntrOn
<1>9. ASSUME IntrOff PROVE TypeTable'
  BY <1>9, IntrEffect DEF IntrOff
<1>10. ASSUME SchedulerSkip PROVE TypeTable'
  BY <1>10, SchedulerSkipEffect DEF SchedulerSkip
<1>11. ASSUME SchedulerSwitch PROVE TypeTable'
  BY <1>11, SchedulerSwitchEffect DEF SchedulerSwitch
<1>12. ASSUME SchedulerBack PROVE TypeTable'
  BY <1>12, SchedulerBackEffect DEF SchedulerBack
<1>13. ASSUME SchedulerPassEnd PROVE TypeTable'
  BY <1>13 DEF SchedulerPassEnd
<1>14. ASSUME Wfi PROVE TypeTable'
  BY <1>14 DEF Wfi
<1>15. ASSUME NEW t \in Threads, AllocAcquire(t) PROVE TypeTable'
  BY <1>15, AllocAcquireEffect DEF AllocAcquire, Take
<1>16. ASSUME NEW t \in Threads, AllocNext(t) PROVE TypeTable'
  BY <1>16, AllocNextEffect DEF AllocNext
<1>17. ASSUME NEW t \in Threads, AllocFound(t) PROVE TypeTable'
  BY <1>17, AllocFoundEffect, AllocSlotEffect DEF AllocFound
<1>18. ASSUME NEW t \in Threads, AllocNoMemory(t) PROVE TypeTable'
  BY <1>18, AllocSlotEffect DEF AllocNoMemory
<1>19. ASSUME NEW t \in Threads, AllocFull(t) PROVE TypeTable'
  BY <1>19 DEF AllocFull
<1>20. ASSUME NEW t \in Threads, UserinitFinish(t) PROVE TypeTable'
  BY <1>20, UserinitFinishEffect DEF UserinitFinish, Start
<1>21. ASSUME NEW t \in Threads, CreateReturn(t) PROVE TypeTable'
  BY <1>21 DEF CreateReturn
<1>22. ASSUME NEW t \in Threads, Forkret(t) PROVE TypeTable'
  BY <1>22, ForkretEffect DEF Forkret
<1>23. ASSUME NEW t \in Threads, Sched(t) PROVE TypeTable'
  BY <1>23, SchedEffect
<1>24. ASSUME NEW t \in Threads, WaitAcquire(t) PROVE TypeTable'
  BY <1>24, WaitAcquireEffect DEF WaitAcquire, Take
<1>25. ASSUME NEW t \in Threads, WaitNoChildren(t) PROVE TypeTable'
  BY <1>25, WaitNoChildrenEffect DEF WaitNoChildren, init_task
<1>26. ASSUME NEW t \in Threads, WaitSleep(t) PROVE TypeTable'
  BY <1>26, WaitSleepEffect DEF WaitSleep, Sleep
<1>27. ASSUME NEW t \in Threads, SleepReturn(t) PROVE TypeTable'
  BY <1>27, SleepReturnEffect DEF SleepReturn
<1>28. ASSUME NEW t \in Threads, SleepReacquire(t) PROVE TypeTable'
  BY <1>28, SleepReacquireEffect DEF SleepReacquire, Take
<1>29. ASSUME NEW t \in Threads, TicksAcquire(t) PROVE TypeTable'
  BY <1>29, TicksAcquireEffect DEF TicksAcquire, Take
<1>30. ASSUME NEW t \in Threads, TicksSleep(t) PROVE TypeTable'
  BY <1>30, TicksSleepEffect DEF TicksSleep, Sleep
<1>31. ASSUME NEW t \in Threads, TicksRelease(t) PROVE TypeTable'
  BY <1>31, TicksReleaseEffect DEF TicksRelease
<1>32. ASSUME NEW t \in Threads, ExitAcquire(t) PROVE TypeTable'
  BY <1>32, ExitAcquireEffect DEF ExitAcquire, Take
<1>33. ASSUME NEW t \in Threads, YieldAcquire(t) PROVE TypeTable'
  BY <1>33, YieldAcquireEffect DEF YieldAcquire
<1>34. ASSUME NEW t \in Threads, YieldReturn(t) PROVE TypeTable'
  BY <1>34, YieldReturnEffect DEF YieldReturn
<1>35. ASSUME NEW t \in Threads, TrapReturn(t) PROVE TypeTable'
  BY <1>35, TrapReturnEffect DEF TrapReturn
<1>36. ASSUME NEW t \in Threads, TakeInterrupt(t) PROVE TypeTable'
  BY <1>36, TakeInterruptEffect DEF TakeInterrupt
<1>37. ASSUME NEW t \in Procs, CallsOf(t) PROVE TypeTable'
  BY <1>37 DEF CallsOf, CallCreate, CallWait, CallYield, CallSleep, CallReturn, CallExit, Call
<1>38. ASSUME NEW t \in Procs, NEW b \in BOOLEAN, CallIntr(t, b) PROVE TypeTable'
  BY <1>38, CallIntrEffect DEF CallIntr
<1>39. ASSUME TimerExpire PROVE TypeTable'
  BY <1>39 DEF TimerExpire
<1>40. ASSUME NEW t \in Threads, PanicSpin(t) PROVE TypeTable'
  BY <1>40 DEF PanicSpin, vars
<1>41. ASSUME NEW t \in Threads, ForkretCall(t) PROVE TypeTable'
  BY <1>41, ForkretCallEffect
<1>. HIDE <1>0, Here, Numbers DEF At, Goto, cpuVars, irqVars, tableVars, memVars, callVars,
   schedVars, TypeTable, States
<1>. QED
  BY <1>1, <1>2, <1>3, <1>4, <1>5, <1>6, <1>7, <1>8, <1>9, <1>10, <1>11, <1>12, <1>13, <1>14,
     <1>15, <1>16, <1>17, <1>18, <1>19, <1>20, <1>21, <1>22, <1>23, <1>24, <1>25, <1>26, <1>27,
     <1>28, <1>29, <1>30, <1>31, <1>32, <1>33, <1>34, <1>35, <1>36, <1>37, <1>38, <1>39, <1>40, <1>41,
     NextCases

(* The types of memory, arguments and results. *)
LEMMA ArgsStep ==
    ASSUME IInv, Next
    PROVE  TypeArgs'
<1>0. TypeArgs /\ Statuses \subseteq Int
  BY ProcAssumption DEF IInv, TypeOK, TypeArgs
<1>1. ASSUME NEW t \in Threads, AllocNoMemory(t) PROVE TypeArgs'
  <2>1. AllocSlot(t) /\ nfree \in 0..PagesPerProc /\ pages' = [pages EXCEPT ![slot[t]] = nfree] /\ nfree' = 0
    BY <1>1, <1>0 DEF AllocNoMemory, TypeArgs, PagesPerProc
  <2>2. UNCHANGED <<lk, ret, status>> /\ slot[t] \in Procs
    BY <2>1, AllocSlotEffect
  <2>. QED
    BY <2>1, <2>2, <1>0 DEF TypeArgs
<1>2. ASSUME NEW t \in Threads, CreateReturn(t) PROVE TypeArgs'
  <2>1. pid[slot[t]] \in Int /\ ret' = [ret EXCEPT ![t] = pid[slot[t]]]
    <3>1. Where(t) = "c_ret"
      BY <1>2 DEF CreateReturn, At, IInv, IrqInv, TrapInv, Where, TrapFree
    <3>2. slot[t] \in Procs
      BY <3>1 DEF IInv, TreeInv, MadeInv
    <3>. QED
      BY <1>2, <3>2 DEF CreateReturn, IInv, TypeOK
  <2>. QED
    BY <1>2, <2>1, <1>0 DEF TypeArgs, CreateReturn, memVars
<1>3. ASSUME NEW t \in Threads, WaitReap(t) PROVE TypeArgs'
  <2>1. PICK np \in Zombies(t) : /\ ret' = [ret EXCEPT ![t] = pid[np]] /\ status' = [status EXCEPT ![t] = xstate[np]]
                                /\ FreeProcess(np)
    BY <1>3 DEF WaitReap
  <2>2. np \in Procs /\ pid[np] \in Int /\ xstate[np] \in Int /\ pages[np] \in 0..PagesPerProc
    BY DEF Zombies, Children, IInv, TypeOK
  <2>3. nfree + pages[np] \in Nat
    BY <2>2, <1>0 DEF TypeArgs, PagesPerProc
  <2>4. pages' = [pages EXCEPT ![np] = 0] /\ nfree' = nfree + pages[np] /\ lk' = lk
    BY <1>3, <2>1 DEF WaitReap, FreeProcess
  <2>. QED
    BY <2>1, <2>2, <2>3, <2>4, <1>0 DEF TypeArgs, PagesPerProc
<1>. USE <1>0, Here, Numbers DEF At, Goto, cpuVars, irqVars, tableVars, memVars, callVars,
   schedVars, TypeArgs, PagesPerProc
<1>4. ASSUME SchedulerStart PROVE TypeArgs'
  BY <1>4 DEF SchedulerStart
<1>5. ASSUME IntrOn PROVE TypeArgs'
  BY <1>5, IntrEffect DEF IntrOn
<1>6. ASSUME IntrOff PROVE TypeArgs'
  BY <1>6, IntrEffect DEF IntrOff
<1>7. ASSUME SchedulerSkip PROVE TypeArgs'
  BY <1>7, SchedulerSkipEffect DEF SchedulerSkip
<1>8. ASSUME SchedulerSwitch PROVE TypeArgs'
  BY <1>8, SchedulerSwitchEffect DEF SchedulerSwitch
<1>9. ASSUME SchedulerBack PROVE TypeArgs'
  BY <1>9, SchedulerBackEffect DEF SchedulerBack
<1>10. ASSUME SchedulerPassEnd PROVE TypeArgs'
  BY <1>10 DEF SchedulerPassEnd
<1>11. ASSUME Wfi PROVE TypeArgs'
  BY <1>11 DEF Wfi
<1>12. ASSUME NEW t \in Threads, AllocAcquire(t) PROVE TypeArgs'
  BY <1>12, AllocAcquireEffect DEF AllocAcquire, Take
<1>13. ASSUME NEW t \in Threads, AllocNext(t) PROVE TypeArgs'
  BY <1>13, AllocNextEffect DEF AllocNext
<1>14. ASSUME NEW t \in Threads, AllocFound(t) PROVE TypeArgs'
  BY <1>14, AllocFoundEffect, AllocSlotEffect DEF AllocFound
<1>15. ASSUME NEW t \in Threads, AllocFull(t) PROVE TypeArgs'
  BY <1>15 DEF AllocFull
<1>16. ASSUME NEW t \in Threads, UserinitFinish(t) PROVE TypeArgs'
  BY <1>16, UserinitFinishEffect DEF UserinitFinish, Start
<1>17. ASSUME NEW t \in Threads, CreateFinish(t) PROVE TypeArgs'
  BY <1>17, CreateFinishEffect DEF CreateFinish, Start
<1>18. ASSUME NEW t \in Threads, Forkret(t) PROVE TypeArgs'
  BY <1>18, ForkretEffect DEF Forkret
<1>19. ASSUME NEW t \in Threads, Sched(t) PROVE TypeArgs'
  BY <1>19, SchedEffect
<1>20. ASSUME NEW t \in Threads, WaitAcquire(t) PROVE TypeArgs'
  BY <1>20, WaitAcquireEffect DEF WaitAcquire, Take
<1>21. ASSUME NEW t \in Threads, WaitNoChildren(t) PROVE TypeArgs'
  BY <1>21, WaitNoChildrenEffect DEF WaitNoChildren, init_task
<1>22. ASSUME NEW t \in Threads, WaitSleep(t) PROVE TypeArgs'
  BY <1>22, WaitSleepEffect DEF WaitSleep, Sleep
<1>23. ASSUME NEW t \in Threads, SleepReturn(t) PROVE TypeArgs'
  BY <1>23, SleepReturnEffect DEF SleepReturn
<1>24. ASSUME NEW t \in Threads, SleepReacquire(t) PROVE TypeArgs'
  BY <1>24, SleepReacquireEffect DEF SleepReacquire, Take
<1>25. ASSUME NEW t \in Threads, TicksAcquire(t) PROVE TypeArgs'
  BY <1>25, TicksAcquireEffect DEF TicksAcquire, Take
<1>26. ASSUME NEW t \in Threads, TicksSleep(t) PROVE TypeArgs'
  BY <1>26, TicksSleepEffect DEF TicksSleep, Sleep
<1>27. ASSUME NEW t \in Threads, TicksRelease(t) PROVE TypeArgs'
  BY <1>27, TicksReleaseEffect DEF TicksRelease
<1>28. ASSUME NEW t \in Threads, ExitAcquire(t) PROVE TypeArgs'
  BY <1>28, ExitAcquireEffect DEF ExitAcquire, Take
<1>29. ASSUME NEW t \in Threads, ExitReparent(t) PROVE TypeArgs'
  BY <1>29 DEF ExitReparent, Wakeup
<1>30. ASSUME NEW t \in Threads, ExitWakeParent(t) PROVE TypeArgs'
  BY <1>30 DEF ExitWakeParent, Wakeup
<1>31. ASSUME NEW t \in Threads, ExitZombie(t) PROVE TypeArgs'
  BY <1>31, ExitZombieEffect DEF ExitZombie
<1>32. ASSUME NEW t \in Threads, YieldAcquire(t) PROVE TypeArgs'
  BY <1>32, YieldAcquireEffect DEF YieldAcquire
<1>33. ASSUME NEW t \in Threads, YieldReturn(t) PROVE TypeArgs'
  BY <1>33, YieldReturnEffect DEF YieldReturn
<1>34. ASSUME NEW t \in Threads, TimerInterrupt(t) PROVE TypeArgs'
  BY <1>34, TimerInterruptEffect DEF TimerInterrupt, Wakeup
<1>35. ASSUME NEW t \in Threads, TrapReturn(t) PROVE TypeArgs'
  BY <1>35, TrapReturnEffect DEF TrapReturn
<1>36. ASSUME NEW t \in Threads, TakeInterrupt(t) PROVE TypeArgs'
  BY <1>36, TakeInterruptEffect DEF TakeInterrupt
<1>37. ASSUME NEW t \in Procs, CallsOf(t) PROVE TypeArgs'
  BY <1>37 DEF CallsOf, CallCreate, CallWait, CallYield, CallSleep, CallReturn, CallExit, Call
<1>38. ASSUME NEW t \in Procs, NEW b \in BOOLEAN, CallIntr(t, b) PROVE TypeArgs'
  BY <1>38, CallIntrEffect DEF CallIntr
<1>39. ASSUME TimerExpire PROVE TypeArgs'
  BY <1>39 DEF TimerExpire
<1>40. ASSUME NEW t \in Threads, PanicSpin(t) PROVE TypeArgs'
  BY <1>40 DEF PanicSpin, vars
<1>41. ASSUME NEW t \in Threads, ForkretCall(t) PROVE TypeArgs'
  BY <1>41, ForkretCallEffect
<1>. HIDE <1>0, Here, Numbers DEF At, Goto, cpuVars, irqVars, tableVars, memVars, callVars,
   schedVars, TypeArgs, PagesPerProc
<1>. QED
  BY <1>1, <1>2, <1>3, <1>4, <1>5, <1>6, <1>7, <1>8, <1>9, <1>10, <1>11, <1>12, <1>13, <1>14,
     <1>15, <1>16, <1>17, <1>18, <1>19, <1>20, <1>21, <1>22, <1>23, <1>24, <1>25, <1>26, <1>27,
     <1>28, <1>29, <1>30, <1>31, <1>32, <1>33, <1>34, <1>35, <1>36, <1>37, <1>38, <1>39, <1>40, <1>41,
     NextCases

(* Every step keeps the types of the process table, the hart and the locals. *)
LEMMA TypeStep ==
    ASSUME IInv, Next
    PROVE  TypeOK'
<1>1. hart' \in HartType /\ LockInv' /\ CtlInv'
  BY LockStep, CtlStep
<1>2. TypeLocals' /\ TypeCpu' /\ TypeTable' /\ TypeArgs'
  BY LocalsStep, CpuStep, TableStep, ArgsStep
<1>3. locks' \subseteq LockIds
  <2>1. slot'[cur'] \in LockIds /\ (cur' # 0 => cur' \in LockIds)
    BY <1>2, Numbers, ProcAssumption DEF TypeLocals, TypeCpu, LockIds, Threads
  <2>2. pc'[cur'] \in IF cur' = 0 THEN BootLabels ELSE TaskLabels
    BY <1>1 DEF CtlInv
  <2>3. locks' \subseteq {slot'[cur'], WaitLock, TicksLock} \/ (cur' # 0 /\ locks' = {cur'})
    BY <1>1, <2>2 DEF LockInv, BootLabels, TaskLabels, SlotLabels, OwnLabels, WaitLabels, TickLabels,
       TaskFree, SchedFree, TrapFree
  <2>. QED
    BY <2>1, <2>3, Numbers
<1>. QED
  BY <1>1, <1>2, <1>3 DEF TypeOK, HartType, TypeLocals, TypeCpu, TypeTable, TypeArgs

(* Threads that do not run keep what they will restore. *)
LEMMA TrapOthers ==
    ASSUME IInv, NEW t \in Threads, TrapInv(t)',
           \A u \in Threads \ {t} : /\ pc'[u] = pc[u] /\ savedpc'[u] = savedpc[u]
                                   /\ want'[u] = want[u] /\ sintena'[u] = sintena[u]
    PROVE  \A u \in Threads : TrapInv(u)'
<1>. SUFFICES ASSUME NEW u \in Threads \ {t} PROVE TrapInv(u)'
  OBVIOUS
<1>1. TrapInv(u)
  BY DEF IInv, IrqInv
<1>. QED
  BY <1>1 DEF TrapInv, Own

(* SIE, intena, and what a trapped or switched-out thread will restore. *)
LEMMA IrqStep ==
    ASSUME IInv, Next
    PROVE  IrqInv'
<1>0. /\ want[0] /\ SieInv /\ (\A u \in Threads : TrapInv(u)) /\ cur \in Threads
     /\ pc \in [Threads -> Labels] /\ savedpc \in [Threads -> Labels]
     /\ want \in [Threads -> BOOLEAN] /\ sintena \in [Threads -> BOOLEAN] /\ hart \in HartType
  BY DEF IInv, TypeOK, HartType, IrqInv
<1>1. ASSUME SchedulerSwitch PROVE IrqInv'
  <2>1. /\ cur' = slot[0] /\ pc' = [pc EXCEPT ![0] = "s_back"]
        /\ UNCHANGED <<savedpc, want, sintena>>
    BY <1>1, SchedulerSwitchEffect DEF SchedulerSwitch, Goto, irqVars, schedVars
  <2>2. pc[slot[0]] \in {"forkret", "y_back", "sl_back"} /\ slot[0] \in Threads /\ slot[0] # 0
    BY <1>1, SchedulerSwitchEffect, WaitPlace, Numbers DEF SchedulerSwitch
  <2>3. TrapInv(0)'
    BY <1>1, SchedulerSwitchEffect, <2>1, <1>0, Here, Numbers DEF TrapInv, Own, SlotLabels,
       OwnLabels, WaitLabels, TickLabels, TaskFree, SchedFree, TrapFree
  <2>4. \A u \in Threads : TrapInv(u)'
    BY <1>1, SchedulerSwitchEffect, <2>1, <2>3, <1>0, TrapOthers, Numbers
  <2>5. want'[0] /\ SieInv'
    BY <1>1, SchedulerSwitchEffect, <2>1, <2>2, <1>0, Here, Numbers DEF SieInv, TrapInv, Own,
       SlotLabels, OwnLabels, WaitLabels, TickLabels, TaskFree, SchedFree, TrapFree
  <2>. QED
    BY <2>4, <2>5 DEF IrqInv
<1>2. ASSUME NEW t \in Threads, AllocAcquire(t) PROVE IrqInv'
  <2>1. /\ cur' = t /\ pc' = [pc EXCEPT ![t] = "a_test"]
        /\ UNCHANGED <<savedpc, want, sintena>>
    BY <1>2, AllocAcquireEffect DEF AllocAcquire, Take, Goto, irqVars, schedVars
  <2>3. TrapInv(t)'
    BY <1>2, AllocAcquireEffect, <2>1, <1>0, Here, Numbers DEF TrapInv, Own, SlotLabels,
       OwnLabels, WaitLabels, TickLabels, TaskFree, SchedFree, TrapFree
  <2>4. \A u \in Threads : TrapInv(u)'
    BY <1>2, AllocAcquireEffect, <2>1, <2>3, <1>0, TrapOthers, Numbers
  <2>5. want'[0] /\ SieInv'
    BY <1>2, AllocAcquireEffect, <2>1, <1>0, Here, Numbers DEF SieInv, TrapInv, Own,
       SlotLabels, OwnLabels, WaitLabels, TickLabels, TaskFree, SchedFree, TrapFree
  <2>. QED
    BY <2>4, <2>5 DEF IrqInv
<1>3. ASSUME NEW t \in Threads, AllocNext(t) PROVE IrqInv'
  <2>1. /\ cur' = t /\ pc' = [pc EXCEPT ![t] = "a_scan"]
        /\ UNCHANGED <<savedpc, want, sintena>>
    BY <1>3, AllocNextEffect DEF AllocNext, Goto, irqVars, schedVars
  <2>3. TrapInv(t)'
    BY <1>3, AllocNextEffect, <2>1, <1>0, Here, Numbers DEF TrapInv, Own, SlotLabels,
       OwnLabels, WaitLabels, TickLabels, TaskFree, SchedFree, TrapFree
  <2>4. \A u \in Threads : TrapInv(u)'
    BY <1>3, AllocNextEffect, <2>1, <2>3, <1>0, TrapOthers, Numbers
  <2>5. want'[0] /\ SieInv'
    BY <1>3, AllocNextEffect, <2>1, <1>0, Here, Numbers DEF SieInv, TrapInv, Own, SlotLabels,
       OwnLabels, WaitLabels, TickLabels, TaskFree, SchedFree, TrapFree
  <2>. QED
    BY <2>4, <2>5 DEF IrqInv
<1>4. ASSUME NEW t \in Threads, AllocNoMemory(t) PROVE IrqInv'
  <2>1. /\ cur = t /\ cur' = t /\ pc[t] = "a_test" /\ pc' = [pc EXCEPT ![t] = "panic"]
        /\ UNCHANGED <<savedpc, want, sintena, hart, locks>> /\ locks # {}
    BY <1>4, AllocSlotEffect DEF AllocNoMemory, Goto
  <2>3. TrapInv(t)'
    BY <1>4, <2>1, <1>0, Here, Numbers DEF TrapInv, Own, SlotLabels, OwnLabels, WaitLabels,
       TickLabels, TaskFree, SchedFree, TrapFree
  <2>4. \A u \in Threads : TrapInv(u)'
    BY <1>4, <2>1, <2>3, <1>0, TrapOthers, Numbers
  <2>5. want'[0] /\ SieInv'
    BY <1>4, <2>1, <1>0, Here, Numbers DEF SieInv, TrapInv, Own, SlotLabels, OwnLabels,
       WaitLabels, TickLabels, TaskFree, SchedFree, TrapFree
  <2>. QED
    BY <2>4, <2>5 DEF IrqInv
<1>5. ASSUME NEW t \in Threads, UserinitFinish(t) PROVE IrqInv'
  <2>1. /\ cur' = t /\ pc' = [pc EXCEPT ![t] = "a_scan"]
        /\ UNCHANGED <<savedpc, want, sintena>>
    BY <1>5, UserinitFinishEffect DEF UserinitFinish, Start, Goto, irqVars, schedVars
  <2>3. TrapInv(t)'
    BY <1>5, UserinitFinishEffect, <2>1, <1>0, Here, Numbers DEF TrapInv, Own, SlotLabels,
       OwnLabels, WaitLabels, TickLabels, TaskFree, SchedFree, TrapFree
  <2>4. \A u \in Threads : TrapInv(u)'
    BY <1>5, UserinitFinishEffect, <2>1, <2>3, <1>0, TrapOthers, Numbers
  <2>5. want'[0] /\ SieInv'
    BY <1>5, UserinitFinishEffect, <2>1, <1>0, Here, Numbers DEF SieInv, TrapInv, Own,
       SlotLabels, OwnLabels, WaitLabels, TickLabels, TaskFree, SchedFree, TrapFree
  <2>. QED
    BY <2>4, <2>5 DEF IrqInv
<1>6. ASSUME NEW t \in Threads, CreateFinish(t) PROVE IrqInv'
  <2>1. /\ cur' = t /\ pc' = [pc EXCEPT ![t] = "c_ret"]
        /\ UNCHANGED <<savedpc, want, sintena>>
    BY <1>6, CreateFinishEffect DEF CreateFinish, Start, Goto, irqVars, schedVars
  <2>3. TrapInv(t)'
    BY <1>6, CreateFinishEffect, <2>1, <1>0, Here, Numbers DEF TrapInv, Own, SlotLabels,
       OwnLabels, WaitLabels, TickLabels, TaskFree, SchedFree, TrapFree
  <2>4. \A u \in Threads : TrapInv(u)'
    BY <1>6, CreateFinishEffect, <2>1, <2>3, <1>0, TrapOthers, Numbers
  <2>5. want'[0] /\ SieInv'
    BY <1>6, CreateFinishEffect, <2>1, <1>0, Here, Numbers DEF SieInv, TrapInv, Own,
       SlotLabels, OwnLabels, WaitLabels, TickLabels, TaskFree, SchedFree, TrapFree
  <2>. QED
    BY <2>4, <2>5 DEF IrqInv
<1>7. ASSUME NEW t \in Threads, Forkret(t) PROVE IrqInv'
  <2>1. /\ cur' = t /\ pc' = [pc EXCEPT ![t] = "f_call"]
        /\ UNCHANGED <<savedpc, sintena>> /\ want' = [want EXCEPT ![t] = hart'.sie]
    BY <1>7, ForkretEffect DEF Forkret, Goto, irqVars, schedVars
  <2>3. TrapInv(t)'
    BY <1>7, ForkretEffect, <2>1, <1>0, Here, Numbers DEF TrapInv, Own, SlotLabels, OwnLabels,
       WaitLabels, TickLabels, TaskFree, SchedFree, TrapFree
  <2>4. \A u \in Threads : TrapInv(u)'
    BY <1>7, ForkretEffect, <2>1, <2>3, <1>0, TrapOthers, Numbers
  <2>5. want'[0] /\ SieInv'
    BY <1>7, ForkretEffect, <2>1, <1>0, Here, Numbers DEF SieInv, TrapInv, Own, SlotLabels,
       OwnLabels, WaitLabels, TickLabels, TaskFree, SchedFree, TrapFree
  <2>. QED
    BY <2>4, <2>5 DEF IrqInv
<1>8. ASSUME NEW t \in Threads, WaitAcquire(t) PROVE IrqInv'
  <2>1. /\ cur' = t /\ pc' = [pc EXCEPT ![t] = "w_scan"]
        /\ UNCHANGED <<savedpc, want, sintena>>
    BY <1>8, WaitAcquireEffect DEF WaitAcquire, Take, Goto, irqVars, schedVars
  <2>3. TrapInv(t)'
    BY <1>8, WaitAcquireEffect, <2>1, <1>0, Here, Numbers DEF TrapInv, Own, SlotLabels,
       OwnLabels, WaitLabels, TickLabels, TaskFree, SchedFree, TrapFree
  <2>4. \A u \in Threads : TrapInv(u)'
    BY <1>8, WaitAcquireEffect, <2>1, <2>3, <1>0, TrapOthers, Numbers
  <2>5. want'[0] /\ SieInv'
    BY <1>8, WaitAcquireEffect, <2>1, <1>0, Here, Numbers DEF SieInv, TrapInv, Own, SlotLabels,
       OwnLabels, WaitLabels, TickLabels, TaskFree, SchedFree, TrapFree
  <2>. QED
    BY <2>4, <2>5 DEF IrqInv
<1>9. ASSUME NEW t \in Threads, WaitReap(t) PROVE IrqInv'
  <2>1. /\ cur' = t /\ pc' = [pc EXCEPT ![t] = home[t]]
        /\ UNCHANGED <<savedpc, want, sintena>>
    BY <1>9, WaitReapEffect DEF WaitReap, FreeProcess, ClearSlot, Goto, irqVars, schedVars
  <2>3. TrapInv(t)'
    BY <1>9, WaitReapEffect, <2>1, <1>0, Here, Numbers DEF TrapInv, Own, SlotLabels, OwnLabels,
       WaitLabels, TickLabels, TaskFree, SchedFree, TrapFree
  <2>4. \A u \in Threads : TrapInv(u)'
    BY <1>9, WaitReapEffect, <2>1, <2>3, <1>0, TrapOthers, Numbers
  <2>5. want'[0] /\ SieInv'
    BY <1>9, WaitReapEffect, <2>1, <1>0, Here, Numbers DEF SieInv, TrapInv, Own, SlotLabels,
       OwnLabels, WaitLabels, TickLabels, TaskFree, SchedFree, TrapFree
  <2>. QED
    BY <2>4, <2>5 DEF IrqInv
<1>10. ASSUME NEW t \in Threads, WaitNoChildren(t) PROVE IrqInv'
  <2>1. /\ cur' = t /\ pc' = [pc EXCEPT ![t] = IF home[t] = "w_acq" THEN "y_acq" ELSE home[t]]
        /\ UNCHANGED <<savedpc, want, sintena>>
    BY <1>10, WaitNoChildrenEffect DEF WaitNoChildren, init_task, Goto, irqVars, schedVars
  <2>3. TrapInv(t)'
    BY <1>10, WaitNoChildrenEffect, <2>1, <1>0, Here, Numbers DEF TrapInv, Own, SlotLabels,
       OwnLabels, WaitLabels, TickLabels, TaskFree, SchedFree, TrapFree
  <2>4. \A u \in Threads : TrapInv(u)'
    BY <1>10, WaitNoChildrenEffect, <2>1, <2>3, <1>0, TrapOthers, Numbers
  <2>5. want'[0] /\ SieInv'
    BY <1>10, WaitNoChildrenEffect, <2>1, <1>0, Here, Numbers DEF SieInv, TrapInv, Own,
       SlotLabels, OwnLabels, WaitLabels, TickLabels, TaskFree, SchedFree, TrapFree
  <2>. QED
    BY <2>4, <2>5 DEF IrqInv
<1>11. ASSUME NEW t \in Threads, WaitSleep(t) PROVE IrqInv'
  <2>1. /\ cur' = t /\ pc' = [pc EXCEPT ![t] = "sl_sched"]
        /\ UNCHANGED <<savedpc, want, sintena>>
    BY <1>11, WaitSleepEffect DEF WaitSleep, Sleep, Goto, irqVars, schedVars
  <2>3. TrapInv(t)'
    BY <1>11, WaitSleepEffect, <2>1, <1>0, Here, Numbers DEF TrapInv, Own, SlotLabels,
       OwnLabels, WaitLabels, TickLabels, TaskFree, SchedFree, TrapFree
  <2>4. \A u \in Threads : TrapInv(u)'
    BY <1>11, WaitSleepEffect, <2>1, <2>3, <1>0, TrapOthers, Numbers
  <2>5. want'[0] /\ SieInv'
    BY <1>11, WaitSleepEffect, <2>1, <1>0, Here, Numbers DEF SieInv, TrapInv, Own, SlotLabels,
       OwnLabels, WaitLabels, TickLabels, TaskFree, SchedFree, TrapFree
  <2>. QED
    BY <2>4, <2>5 DEF IrqInv
<1>12. ASSUME NEW t \in Threads, SleepReturn(t) PROVE IrqInv'
  <2>1. /\ cur' = t /\ pc' = [pc EXCEPT ![t] = "sl_reacq"]
        /\ UNCHANGED <<savedpc, want>>
    BY <1>12, SleepReturnEffect DEF SleepReturn, Goto, irqVars, schedVars
  <2>3. TrapInv(t)'
    BY <1>12, SleepReturnEffect, <2>1, <1>0, Here, Numbers DEF TrapInv, Own, SlotLabels,
       OwnLabels, WaitLabels, TickLabels, TaskFree, SchedFree, TrapFree
  <2>4. \A u \in Threads : TrapInv(u)'
    BY <1>12, SleepReturnEffect, <2>1, <2>3, <1>0, TrapOthers, Numbers
  <2>5. want'[0] /\ SieInv'
    BY <1>12, SleepReturnEffect, <2>1, <1>0, Here, Numbers DEF SieInv, TrapInv, Own,
       SlotLabels, OwnLabels, WaitLabels, TickLabels, TaskFree, SchedFree, TrapFree
  <2>. QED
    BY <2>4, <2>5 DEF IrqInv
<1>13. ASSUME NEW t \in Threads, SleepReacquire(t) PROVE IrqInv'
  <2>1. /\ cur' = t /\ pc' = [pc EXCEPT ![t] = IF lk[t] = WaitLock THEN "w_scan" ELSE "sl_done"]
        /\ UNCHANGED <<savedpc, want, sintena>>
    BY <1>13, SleepReacquireEffect DEF SleepReacquire, Take, Goto, irqVars, schedVars
  <2>3. TrapInv(t)'
    BY <1>13, SleepReacquireEffect, <2>1, <1>0, Here, Numbers DEF TrapInv, Own, SlotLabels,
       OwnLabels, WaitLabels, TickLabels, TaskFree, SchedFree, TrapFree
  <2>4. \A u \in Threads : TrapInv(u)'
    BY <1>13, SleepReacquireEffect, <2>1, <2>3, <1>0, TrapOthers, Numbers
  <2>5. want'[0] /\ SieInv'
    BY <1>13, SleepReacquireEffect, <2>1, <1>0, Here, Numbers DEF SieInv, TrapInv, Own,
       SlotLabels, OwnLabels, WaitLabels, TickLabels, TaskFree, SchedFree, TrapFree
  <2>. QED
    BY <2>4, <2>5 DEF IrqInv
<1>14. ASSUME NEW t \in Threads, TicksAcquire(t) PROVE IrqInv'
  <2>1. /\ cur' = t /\ pc' = [pc EXCEPT ![t] = "sl_ticks"]
        /\ UNCHANGED <<savedpc, want, sintena>>
    BY <1>14, TicksAcquireEffect DEF TicksAcquire, Take, Goto, irqVars, schedVars
  <2>3. TrapInv(t)'
    BY <1>14, TicksAcquireEffect, <2>1, <1>0, Here, Numbers DEF TrapInv, Own, SlotLabels,
       OwnLabels, WaitLabels, TickLabels, TaskFree, SchedFree, TrapFree
  <2>4. \A u \in Threads : TrapInv(u)'
    BY <1>14, TicksAcquireEffect, <2>1, <2>3, <1>0, TrapOthers, Numbers
  <2>5. want'[0] /\ SieInv'
    BY <1>14, TicksAcquireEffect, <2>1, <1>0, Here, Numbers DEF SieInv, TrapInv, Own,
       SlotLabels, OwnLabels, WaitLabels, TickLabels, TaskFree, SchedFree, TrapFree
  <2>. QED
    BY <2>4, <2>5 DEF IrqInv
<1>15. ASSUME NEW t \in Threads, TicksSleep(t) PROVE IrqInv'
  <2>1. /\ cur' = t /\ pc' = [pc EXCEPT ![t] = "sl_sched"]
        /\ UNCHANGED <<savedpc, want, sintena>>
    BY <1>15, TicksSleepEffect DEF TicksSleep, Sleep, Goto, irqVars, schedVars
  <2>3. TrapInv(t)'
    BY <1>15, TicksSleepEffect, <2>1, <1>0, Here, Numbers DEF TrapInv, Own, SlotLabels,
       OwnLabels, WaitLabels, TickLabels, TaskFree, SchedFree, TrapFree
  <2>4. \A u \in Threads : TrapInv(u)'
    BY <1>15, TicksSleepEffect, <2>1, <2>3, <1>0, TrapOthers, Numbers
  <2>5. want'[0] /\ SieInv'
    BY <1>15, TicksSleepEffect, <2>1, <1>0, Here, Numbers DEF SieInv, TrapInv, Own, SlotLabels,
       OwnLabels, WaitLabels, TickLabels, TaskFree, SchedFree, TrapFree
  <2>. QED
    BY <2>4, <2>5 DEF IrqInv
<1>16. ASSUME NEW t \in Threads, TicksRelease(t) PROVE IrqInv'
  <2>1. /\ cur' = t /\ pc' = [pc EXCEPT ![t] = home[t]]
        /\ UNCHANGED <<savedpc, want, sintena>>
    BY <1>16, TicksReleaseEffect DEF TicksRelease, Goto, irqVars, schedVars
  <2>3. TrapInv(t)'
    BY <1>16, TicksReleaseEffect, <2>1, <1>0, Here, Numbers DEF TrapInv, Own, SlotLabels,
       OwnLabels, WaitLabels, TickLabels, TaskFree, SchedFree, TrapFree
  <2>4. \A u \in Threads : TrapInv(u)'
    BY <1>16, TicksReleaseEffect, <2>1, <2>3, <1>0, TrapOthers, Numbers
  <2>5. want'[0] /\ SieInv'
    BY <1>16, TicksReleaseEffect, <2>1, <1>0, Here, Numbers DEF SieInv, TrapInv, Own,
       SlotLabels, OwnLabels, WaitLabels, TickLabels, TaskFree, SchedFree, TrapFree
  <2>. QED
    BY <2>4, <2>5 DEF IrqInv
<1>17. ASSUME NEW t \in Threads, ExitAcquire(t) PROVE IrqInv'
  <2>1. /\ cur' = t /\ pc' = [pc EXCEPT ![t] = "e_reparent"]
        /\ UNCHANGED <<savedpc, want, sintena>>
    BY <1>17, ExitAcquireEffect DEF ExitAcquire, Take, Goto, irqVars, schedVars
  <2>3. TrapInv(t)'
    BY <1>17, ExitAcquireEffect, <2>1, <1>0, Here, Numbers DEF TrapInv, Own, SlotLabels,
       OwnLabels, WaitLabels, TickLabels, TaskFree, SchedFree, TrapFree
  <2>4. \A u \in Threads : TrapInv(u)'
    BY <1>17, ExitAcquireEffect, <2>1, <2>3, <1>0, TrapOthers, Numbers
  <2>5. want'[0] /\ SieInv'
    BY <1>17, ExitAcquireEffect, <2>1, <1>0, Here, Numbers DEF SieInv, TrapInv, Own,
       SlotLabels, OwnLabels, WaitLabels, TickLabels, TaskFree, SchedFree, TrapFree
  <2>. QED
    BY <2>4, <2>5 DEF IrqInv
<1>18. ASSUME NEW t \in Threads, ExitZombie(t) PROVE IrqInv'
  <2>1. /\ cur' = t /\ pc' = [pc EXCEPT ![t] = "e_sched"]
        /\ UNCHANGED <<savedpc, want, sintena>>
    BY <1>18, ExitZombieEffect DEF ExitZombie, Goto, irqVars, schedVars
  <2>3. TrapInv(t)'
    BY <1>18, ExitZombieEffect, <2>1, <1>0, Here, Numbers DEF TrapInv, Own, SlotLabels,
       OwnLabels, WaitLabels, TickLabels, TaskFree, SchedFree, TrapFree
  <2>4. \A u \in Threads : TrapInv(u)'
    BY <1>18, ExitZombieEffect, <2>1, <2>3, <1>0, TrapOthers, Numbers
  <2>5. want'[0] /\ SieInv'
    BY <1>18, ExitZombieEffect, <2>1, <1>0, Here, Numbers DEF SieInv, TrapInv, Own, SlotLabels,
       OwnLabels, WaitLabels, TickLabels, TaskFree, SchedFree, TrapFree
  <2>. QED
    BY <2>4, <2>5 DEF IrqInv
<1>19. ASSUME NEW t \in Threads, YieldAcquire(t) PROVE IrqInv'
  <2>1. /\ cur' = t /\ pc' = [pc EXCEPT ![t] = "y_sched"]
        /\ UNCHANGED <<savedpc, want, sintena>>
    BY <1>19, YieldAcquireEffect DEF YieldAcquire, Goto, irqVars, schedVars
  <2>3. TrapInv(t)'
    BY <1>19, YieldAcquireEffect, <2>1, <1>0, Here, Numbers DEF TrapInv, Own, SlotLabels,
       OwnLabels, WaitLabels, TickLabels, TaskFree, SchedFree, TrapFree
  <2>4. \A u \in Threads : TrapInv(u)'
    BY <1>19, YieldAcquireEffect, <2>1, <2>3, <1>0, TrapOthers, Numbers
  <2>5. want'[0] /\ SieInv'
    BY <1>19, YieldAcquireEffect, <2>1, <1>0, Here, Numbers DEF SieInv, TrapInv, Own,
       SlotLabels, OwnLabels, WaitLabels, TickLabels, TaskFree, SchedFree, TrapFree
  <2>. QED
    BY <2>4, <2>5 DEF IrqInv
<1>20. ASSUME NEW t \in Threads, YieldReturn(t) PROVE IrqInv'
  <2>1. /\ cur' = t /\ pc' = [pc EXCEPT ![t] = IF savedpc[t] # "none" THEN "t_ret" ELSE home[t]]
        /\ UNCHANGED <<savedpc, want>>
    BY <1>20, YieldReturnEffect DEF YieldReturn, Goto, irqVars, schedVars
  <2>3. TrapInv(t)'
    BY <1>20, YieldReturnEffect, <2>1, <1>0, Here, Numbers DEF TrapInv, Own, SlotLabels,
       OwnLabels, WaitLabels, TickLabels, TaskFree, SchedFree, TrapFree
  <2>4. \A u \in Threads : TrapInv(u)'
    BY <1>20, YieldReturnEffect, <2>1, <2>3, <1>0, TrapOthers, Numbers
  <2>5. want'[0] /\ SieInv'
    BY <1>20, YieldReturnEffect, <2>1, <1>0, Here, Numbers DEF SieInv, TrapInv, Own,
       SlotLabels, OwnLabels, WaitLabels, TickLabels, TaskFree, SchedFree, TrapFree
  <2>. QED
    BY <2>4, <2>5 DEF IrqInv
<1>21. ASSUME NEW t \in Threads, TimerInterrupt(t) PROVE IrqInv'
  <2>1. /\ cur' = t /\ pc' = [pc EXCEPT ![t] = IF cproc # 0 THEN "y_acq" ELSE "t_ret"]
        /\ UNCHANGED <<savedpc, want, sintena>>
    BY <1>21, TimerInterruptEffect DEF TimerInterrupt, Wakeup, Goto, irqVars, schedVars
  <2>3. TrapInv(t)'
    BY <1>21, TimerInterruptEffect, <2>1, <1>0, Here, Numbers DEF TrapInv, Own, SlotLabels,
       OwnLabels, WaitLabels, TickLabels, TaskFree, SchedFree, TrapFree
  <2>4. \A u \in Threads : TrapInv(u)'
    BY <1>21, TimerInterruptEffect, <2>1, <2>3, <1>0, TrapOthers, Numbers
  <2>5. want'[0] /\ SieInv'
    BY <1>21, TimerInterruptEffect, <2>1, <1>0, Here, Numbers DEF SieInv, TrapInv, Own,
       SlotLabels, OwnLabels, WaitLabels, TickLabels, TaskFree, SchedFree, TrapFree
  <2>. QED
    BY <2>4, <2>5 DEF IrqInv
<1>22. ASSUME NEW t \in Threads, TakeInterrupt(t) PROVE IrqInv'
  <2>1. /\ cur' = t /\ pc' = [pc EXCEPT ![t] = "t_tick"]
        /\ UNCHANGED <<want, sintena>> /\ savedpc' = [savedpc EXCEPT ![t] = pc[t]]
    BY <1>22, TakeInterruptEffect DEF TakeInterrupt, Goto, irqVars, schedVars
  <2>3. TrapInv(t)'
    BY <1>22, TakeInterruptEffect, <2>1, <1>0, Here, Numbers DEF TrapInv, Own, SlotLabels,
       OwnLabels, WaitLabels, TickLabels, TaskFree, SchedFree, TrapFree
  <2>4. \A u \in Threads : TrapInv(u)'
    BY <1>22, TakeInterruptEffect, <2>1, <2>3, <1>0, TrapOthers, Numbers
  <2>5. want'[0] /\ SieInv'
    BY <1>22, TakeInterruptEffect, <2>1, <1>0, Here, Numbers DEF SieInv, TrapInv, Own,
       SlotLabels, OwnLabels, WaitLabels, TickLabels, TaskFree, SchedFree, TrapFree
  <2>. QED
    BY <2>4, <2>5 DEF IrqInv
<1>. USE <1>0, Here, Numbers DEF At, Goto, cpuVars, irqVars, tableVars, memVars, callVars,
   schedVars, IrqInv, TrapInv, SieInv, Own, SlotLabels, OwnLabels, WaitLabels, TickLabels,
   TaskFree, SchedFree, TrapFree
<1>23. ASSUME SchedulerStart PROVE IrqInv'
  BY <1>23 DEF SchedulerStart
<1>24. ASSUME IntrOn PROVE IrqInv'
  BY <1>24, IntrEffect DEF IntrOn
<1>25. ASSUME IntrOff PROVE IrqInv'
  BY <1>25, IntrEffect DEF IntrOff
<1>26. ASSUME SchedulerSkip PROVE IrqInv'
  BY <1>26, SchedulerSkipEffect DEF SchedulerSkip
<1>27. ASSUME SchedulerBack PROVE IrqInv'
  BY <1>27, SchedulerBackEffect DEF SchedulerBack
<1>28. ASSUME SchedulerPassEnd PROVE IrqInv'
  BY <1>28 DEF SchedulerPassEnd
<1>29. ASSUME Wfi PROVE IrqInv'
  BY <1>29 DEF Wfi
<1>30. ASSUME NEW t \in Threads, AllocFound(t) PROVE IrqInv'
  BY <1>30, AllocFoundEffect, AllocSlotEffect DEF AllocFound
<1>31. ASSUME NEW t \in Threads, AllocFull(t) PROVE IrqInv'
  BY <1>31 DEF AllocFull
<1>32. ASSUME NEW t \in Threads, CreateReturn(t) PROVE IrqInv'
  BY <1>32 DEF CreateReturn
<1>33. ASSUME NEW t \in Threads, Sched(t) PROVE IrqInv'
  BY <1>33, SchedEffect
<1>34. ASSUME NEW t \in Threads, ExitReparent(t) PROVE IrqInv'
  BY <1>34 DEF ExitReparent, Wakeup
<1>35. ASSUME NEW t \in Threads, ExitWakeParent(t) PROVE IrqInv'
  BY <1>35 DEF ExitWakeParent, Wakeup
<1>36. ASSUME NEW t \in Threads, TrapReturn(t) PROVE IrqInv'
  BY <1>36, TrapReturnEffect DEF TrapReturn
<1>37. ASSUME NEW t \in Procs, CallsOf(t) PROVE IrqInv'
  BY <1>37 DEF CallsOf, CallCreate, CallWait, CallYield, CallSleep, CallReturn, CallExit, Call
<1>38. ASSUME NEW t \in Procs, NEW b \in BOOLEAN, CallIntr(t, b) PROVE IrqInv'
  BY <1>38, CallIntrEffect DEF CallIntr
<1>39. ASSUME TimerExpire PROVE IrqInv'
  BY <1>39 DEF TimerExpire
<1>40. ASSUME NEW t \in Threads, PanicSpin(t) PROVE IrqInv'
  BY <1>40 DEF PanicSpin, vars
<1>41. ASSUME NEW t \in Threads, ForkretCall(t) PROVE IrqInv'
  BY <1>41, ForkretCallEffect
<1>. HIDE <1>0, Here, Numbers DEF At, Goto, cpuVars, irqVars, tableVars, memVars, callVars,
   schedVars, IrqInv, TrapInv, SieInv, Own, SlotLabels, OwnLabels, WaitLabels, TickLabels,
   TaskFree, SchedFree, TrapFree
<1>. QED
  BY <1>1, <1>2, <1>3, <1>4, <1>5, <1>6, <1>7, <1>8, <1>9, <1>10, <1>11, <1>12, <1>13, <1>14,
     <1>15, <1>16, <1>17, <1>18, <1>19, <1>20, <1>21, <1>22, <1>23, <1>24, <1>25, <1>26, <1>27,
     <1>28, <1>29, <1>30, <1>31, <1>32, <1>33, <1>34, <1>35, <1>36, <1>37, <1>38, <1>39, <1>40, <1>41,
     NextCases
=============================================================================

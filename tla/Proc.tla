-------------------------------- MODULE Proc --------------------------------
(***************************************************************************)
(* The process system of kernel/proc.c with the timer interrupt path of    *)
(* kernel/trap.c, on the one hart of this build (NCPU is 1): the process   *)
(* table, the scheduler and its context switches, create / exit / wait,    *)
(* sleep / wakeup, yield, and kernel code interrupted and preempted by the *)
(* timer wherever SIE is set.                                              *)
(*                                                                         *)
(* Thread 0 is the boot stack: main() from the call of userinit() on, then *)
(* scheduler().  Threads 1..NPROC are the kernel threads of the process    *)
(* slots.  0 is also the null struct proc *.  A step ends wherever an      *)
(* interrupt can be taken, after each acquire of wait_lock, and before     *)
(* each swtch; a loop that runs entirely with a lock held (hence with SIE  *)
(* clear, nothing else can run) is one step.  pid_lock, kmem.lock and      *)
(* printlock are taken and given back inside one step.  panic() is         *)
(* modelled where the code can reach it (process table or memory used up,  *)
(* a task that returns, forkret preempted before it read context.s0);      *)
(* elsewhere the assertion is a guard and NoPanic says it never fails.     *)
(***************************************************************************)
EXTENDS Integers, FiniteSets

CONSTANTS NPROC,       \* size of the process table (64 in param.h)
          MaxPid,      \* bound: tasks create processes while nextpid <= MaxPid
          Statuses,    \* the values tasks pass to exit_process
          TotalPages,  \* free physical pages when userinit() is called
          Calls        \* what tasks do besides computing

ASSUME ProcAssumption ==
    /\ NPROC \in Nat /\ NPROC >= 2
    /\ MaxPid \in Nat
    /\ TotalPages \in Nat
    /\ Statuses \subseteq Int
    /\ Calls \subseteq {"create", "wait", "exit", "yield", "sleep", "return", "intr_on", "intr_off"}

Procs     == 1..NPROC
Threads   == 0..NPROC
WaitLock  == NPROC + 1     \* p->lock of slot p is lock p
TicksLock == NPROC + 2
LockIds   == 1..NPROC + 2
TicksChan == NPROC + 1     \* &ticks; the channel &proc[p] is p, 0 is none

(* a process owns its trapframe and the three page-table pages that map    *)
(* TRAMPOLINE and TRAPFRAME                                                *)
PagesPerProc == 4

States == {"UNUSED", "USED", "SLEEPING", "RUNNABLE", "RUNNING", "ZOMBIE"}

Labels == {"a_scan", "a_test", "u_fin", "c_fin", "c_ret",             \* userinit, create_process
           "s_init", "s_on", "s_off", "s_loop", "s_back", "s_wfi",    \* scheduler
           "forkret", "f_call", "run", "w_acq", "w_scan",             \* tasks, wait_process
           "sl_acq", "sl_ticks", "sl_sched", "sl_back", "sl_reacq", "sl_done",  \* sleep
           "e_acq", "e_reparent", "e_wake", "e_zombie", "e_sched", "e_dead",    \* exit_process
           "y_acq", "y_sched", "y_back", "t_tick", "t_ret",           \* yield, kerneltrap
           "panic", "none"}

VARIABLES
    cur,      \* the thread on the hart
    pc,       \* where each thread is
    cproc,    \* mycpu()->proc
    hart,     \* SIE and mycpu()'s noff and intena
    locks,    \* the locks that are held
    pending,  \* the timer interrupt request
    sepc,     \* the CSR: where the hardware was interrupted last
    savedpc,  \* kerneltrap's local sepc; "none" outside it
    state, chan, parent, pid, xstate,  \* fields of proc[]
    home,     \* context.s0 until forkret reads it, then the task that runs
    pages,    \* how many pages hang from trapframe and pagetable
    nfree,    \* length of kmem.freelist
    nextpid, initproc,
    slot,     \* the loop variable of scheduler and alloc_process, per thread
    lk,       \* sleep's second argument
    ret,      \* what the last create_process / wait_process returned
    status,   \* exit_process's argument, or what *status was set to
    found,    \* the local of scheduler
    sintena,  \* sched's local intena
    want      \* history: the interrupt state each task started with or chose

cpuVars == <<cproc, hart, locks>>
irqVars == <<pending, sepc, savedpc>>
tableVars == <<state, chan, parent, pid, xstate, home>>
memVars == <<pages, nfree, nextpid, initproc>>
callVars == <<slot, lk, ret, status>>
schedVars == <<found, sintena, want>>
vars == <<cur, pc, cpuVars, irqVars, tableVars, memVars, callVars, schedVars>>

(* main() calls userinit() with interrupts on (start() set SIE); the table  *)
(* is as procinit() left it.                                                *)
Init ==
    /\ cur = 0 /\ cproc = 0 /\ initproc = 0 /\ nextpid = 1
    /\ pc = [t \in Threads |-> IF t = 0 THEN "a_scan" ELSE "none"]
    /\ home = [t \in Threads |-> IF t = 0 THEN "s_init" ELSE "none"]
    /\ hart = [sie |-> TRUE, noff |-> 0, intena |-> FALSE]
    /\ locks = {}
    /\ pending = FALSE /\ sepc = "none" /\ savedpc = [t \in Threads |-> "none"]
    /\ state = [p \in Procs |-> "UNUSED"]
    /\ chan = [p \in Procs |-> 0] /\ parent = [p \in Procs |-> 0]
    /\ pid = [p \in Procs |-> 0] /\ xstate = [p \in Procs |-> 0]
    /\ pages = [p \in Procs |-> 0] /\ nfree = TotalPages
    /\ slot = [t \in Threads |-> 1] /\ lk = [t \in Threads |-> WaitLock]
    /\ ret = [t \in Threads |-> 0] /\ status = [t \in Threads |-> 0]
    /\ found = FALSE /\ sintena = [t \in Threads |-> FALSE]
    /\ want = [t \in Threads |-> t = 0]

(***************************************************************************)
(* Building blocks.                                                        *)
(***************************************************************************)
At(t, label) == cur = t /\ pc[t] = label

Goto(t, label) == pc' = [pc EXCEPT ![t] = label]

PushOff(h) == [sie |-> FALSE, noff |-> h.noff + 1,
               intena |-> IF h.noff = 0 THEN h.sie ELSE h.intena]

(* mutant: a pop_off() that counts twice *)
PopOffTwice(h) == [h EXCEPT !.noff = @ - 2, !.sie = (h.noff = 2 /\ h.intena)]

PopOff(h) == [sie |-> h.noff = 1 /\ h.intena, noff |-> h.noff - 1, intena |-> h.intena]

Acquire(l) == /\ l \notin locks
              /\ locks' = locks \cup {l}
              /\ hart' = PushOff(hart)

Release(l) == /\ l \in locks
              /\ locks' = locks \ {l}
              /\ hart' = PopOff(hart)

(* mutant: lk is not released *)
SwapKeeping(new, l) == /\ l \in locks
                       /\ Acquire(new)

(* acquire(&new); release(&l) of sleep and exit_process *)
Swap(new, l) == /\ new \notin locks /\ l \in locks
                /\ locks' = (locks \cup {new}) \ {l}
                /\ hart' = PopOff(PushOff(hart))

(* an acquire() that does nothing else before the next step *)
Take(t, from, l, to) ==
    /\ At(t, from)
    /\ Acquire(l)
    /\ Goto(t, to)
    /\ UNCHANGED <<cur, cproc, irqVars, tableVars, memVars, callVars, schedVars>>

(* wakeup(ch): takes the lock of every slot but the caller's in turn *)
Wakeup(ch) ==
    /\ locks \cap (Procs \ {cproc}) = {}
    /\ state' = [p \in Procs |->
                   IF p # cproc /\ state[p] = "SLEEPING" /\ chan[p] = ch
                   THEN "RUNNABLE" ELSE state[p]]

(***************************************************************************)
(* sched(): called by sleep, exit_process and yield, each with its own     *)
(* place to resume.  swtch() stores s0, sched()'s frame pointer, over the  *)
(* entry point in context.s0; forkret may not have read that yet.          *)
(***************************************************************************)
Resume == [sl_sched |-> "sl_back", e_sched |-> "e_dead", y_sched |-> "y_back"]

Sched(t) ==
    /\ cur = t /\ pc[t] \in DOMAIN Resume
    /\ cproc = t /\ t \in locks
    /\ hart.noff = 1 /\ ~hart.sie
    /\ state[t] # "RUNNING"
    /\ sintena' = [sintena EXCEPT ![t] = hart.intena]
    /\ cur' = 0
    /\ Goto(t, Resume[pc[t]])
    /\ home' = [home EXCEPT ![t] = IF savedpc[t] = "f_call" THEN "none" ELSE @]
    /\ UNCHANGED <<cpuVars, irqVars, state, chan, parent, pid, xstate>>
    /\ UNCHANGED <<memVars, callVars, found, want>>

(* mutant: sched() does not restore intena *)
SchedReturnAsIs(t) ==
    /\ Release(cproc)
    /\ UNCHANGED sintena

(* the rest of sched() once the scheduler has switched back, and the       *)
(* release(&p->lock) that follows it in yield and sleep                    *)
SchedReturn(t) ==
    /\ cproc \in locks
    /\ locks' = locks \ {cproc}
    /\ hart' = PopOff([hart EXCEPT !.intena = sintena[t]])
    /\ sintena' = [sintena EXCEPT ![t] = FALSE]

(***************************************************************************)
(* alloc_process, userinit, create_process                                 *)
(***************************************************************************)
AllocAcquire(t) == slot[t] <= NPROC /\ Take(t, "a_scan", slot[t], "a_test")

AllocNext(t) ==
    /\ At(t, "a_test") /\ state[slot[t]] # "UNUSED"
    /\ Release(slot[t])
    /\ slot' = [slot EXCEPT ![t] = @ + 1]
    /\ Goto(t, "a_scan")
    /\ UNCHANGED <<cur, cproc, irqVars, tableVars, memVars, lk, ret, status, schedVars>>

(* mutant: nextpid is not advanced *)
AllocpidStuck(p) ==
    /\ pid' = [pid EXCEPT ![p] = nextpid]
    /\ UNCHANGED nextpid

(* allocpid() *)
Allocpid(p) ==
    /\ pid' = [pid EXCEPT ![p] = nextpid]
    /\ nextpid' = nextpid + 1

(* the pid and the state are set before the pages are asked for *)
AllocSlot(t) ==
    /\ At(t, "a_test") /\ state[slot[t]] = "UNUSED"
    /\ Allocpid(slot[t])
    /\ state' = [state EXCEPT ![slot[t]] = "USED"]
    /\ UNCHANGED <<cur, cpuVars, irqVars, chan, parent, xstate, initproc, callVars, schedVars>>

AllocFound(t) ==
    /\ nfree >= PagesPerProc
    /\ AllocSlot(t)
    /\ pages' = [pages EXCEPT ![slot[t]] = PagesPerProc]
    /\ nfree' = nfree - PagesPerProc
    /\ home' = [home EXCEPT ![slot[t]] = "none"]
    /\ pc' = [pc EXCEPT ![slot[t]] = "forkret",
                        ![t] = IF initproc = 0 THEN "u_fin" ELSE "c_fin"]

(* alloc_page() panics when the free list runs out, with p->lock held *)
AllocNoMemory(t) ==
    /\ nfree < PagesPerProc
    /\ AllocSlot(t)
    /\ pages' = [pages EXCEPT ![slot[t]] = nfree]
    /\ nfree' = 0
    /\ Goto(t, "panic")
    /\ UNCHANGED home

(* alloc_process() returns 0 and create_process() panics *)
AllocFull(t) ==
    /\ At(t, "a_scan") /\ slot[t] > NPROC
    /\ Goto(t, "panic")
    /\ UNCHANGED <<cur, cpuVars, irqVars, tableVars, memVars, callVars, schedVars>>

(* context.s0, the state and release(&p->lock), the end of userinit and    *)
(* of create_process                                                       *)
Start(t, entry) ==
    /\ home' = [home EXCEPT ![slot[t]] = entry]
    /\ state' = [state EXCEPT ![slot[t]] = "RUNNABLE"]
    /\ Release(slot[t])

(* the rest of userinit(); main() then calls create_process() *)
UserinitFinish(t) ==
    /\ At(t, "u_fin")
    /\ initproc' = slot[t]
    /\ Start(t, "w_acq")
    /\ slot' = [slot EXCEPT ![t] = 1]
    /\ Goto(t, "a_scan")
    /\ UNCHANGED <<cur, cproc, irqVars, chan, parent, pid, xstate>>
    /\ UNCHANGED <<pages, nfree, nextpid, lk, ret, status, schedVars>>

(* wait_lock is taken and given back inside p->lock when there is a parent *)
CreateFinish(t) ==
    /\ At(t, "c_fin")
    /\ IF cproc # 0
       THEN /\ WaitLock \notin locks
            /\ parent' = [parent EXCEPT ![slot[t]] = cproc]
       ELSE UNCHANGED parent
    /\ Start(t, "run")
    /\ Goto(t, "c_ret")
    /\ UNCHANGED <<cur, cproc, irqVars, chan, pid, xstate, memVars, callVars, schedVars>>

(* return p->pid, read after release(&p->lock) *)
CreateReturn(t) ==
    /\ At(t, "c_ret")
    /\ ret' = [ret EXCEPT ![t] = pid[slot[t]]]
    /\ slot' = [slot EXCEPT ![t] = 1]
    /\ Goto(t, home[t])
    /\ UNCHANGED <<cur, cpuVars, irqVars, tableVars, memVars, lk, status, schedVars>>

(***************************************************************************)
(* scheduler() and forkret()                                               *)
(***************************************************************************)
SchedulerStart ==
    /\ At(0, "s_init")
    /\ cproc' = 0
    /\ Goto(0, "s_on")
    /\ UNCHANGED <<cur, hart, locks, irqVars, tableVars, memVars, callVars, schedVars>>

IntrOn ==
    /\ At(0, "s_on")
    /\ hart' = [hart EXCEPT !.sie = TRUE]
    /\ Goto(0, "s_off")
    /\ UNCHANGED <<cur, cproc, locks, irqVars, tableVars, memVars, callVars, schedVars>>

(* mutant: no intr_off() before the table is scanned *)
IntrLeftOn ==
    /\ At(0, "s_off")
    /\ found' = FALSE
    /\ slot' = [slot EXCEPT ![0] = 1]
    /\ Goto(0, "s_loop")
    /\ UNCHANGED <<cur, cpuVars, irqVars, tableVars, memVars, lk, ret, status, sintena, want>>

IntrOff ==
    /\ At(0, "s_off")
    /\ hart' = [hart EXCEPT !.sie = FALSE]
    /\ found' = FALSE
    /\ slot' = [slot EXCEPT ![0] = 1]
    /\ Goto(0, "s_loop")
    /\ UNCHANGED <<cur, cproc, locks, irqVars, tableVars, memVars, lk, ret, status, sintena, want>>

(* acquire(&p->lock), p is not RUNNABLE, release(&p->lock) *)
SchedulerSkip ==
    /\ At(0, "s_loop") /\ slot[0] <= NPROC
    /\ slot[0] \notin locks
    /\ state[slot[0]] # "RUNNABLE"
    /\ hart' = PopOff(PushOff(hart))
    /\ slot' = [slot EXCEPT ![0] = @ + 1]
    /\ UNCHANGED <<cur, pc, cproc, locks, irqVars, tableVars, memVars, lk, ret, status, schedVars>>

(* mutant: p->state is not set to RUNNING *)
SwitchStateKept ==
    /\ At(0, "s_loop") /\ slot[0] <= NPROC
    /\ state[slot[0]] = "RUNNABLE"
    /\ Acquire(slot[0])
    /\ cproc' = slot[0]
    /\ cur' = slot[0]
    /\ Goto(0, "s_back")
    /\ UNCHANGED <<irqVars, tableVars, memVars, callVars, schedVars>>

(* acquire(&p->lock), p is RUNNABLE, swtch to it: it releases the lock *)
SchedulerSwitch ==
    /\ At(0, "s_loop") /\ slot[0] <= NPROC
    /\ state[slot[0]] = "RUNNABLE"
    /\ Acquire(slot[0])
    /\ state' = [state EXCEPT ![slot[0]] = "RUNNING"]
    /\ cproc' = slot[0]
    /\ cur' = slot[0]
    /\ Goto(0, "s_back")
    /\ UNCHANGED <<irqVars, chan, parent, pid, xstate, home, memVars, callVars, schedVars>>

(* mutant: the scan starts over after every process *)
SchedulerRestart ==
    /\ At(0, "s_back")
    /\ cproc' = 0
    /\ found' = TRUE
    /\ Release(slot[0])
    /\ slot' = [slot EXCEPT ![0] = 1]
    /\ Goto(0, "s_loop")
    /\ UNCHANGED <<cur, irqVars, tableVars, memVars, lk, ret, status, sintena, want>>

SchedulerBack ==
    /\ At(0, "s_back")
    /\ cproc' = 0
    /\ found' = TRUE
    /\ Release(slot[0])
    /\ slot' = [slot EXCEPT ![0] = @ + 1]
    /\ Goto(0, "s_loop")
    /\ UNCHANGED <<cur, irqVars, tableVars, memVars, lk, ret, status, sintena, want>>

SchedulerPassEnd ==
    /\ At(0, "s_loop") /\ slot[0] > NPROC
    /\ Goto(0, IF found THEN "s_on" ELSE "s_wfi")
    /\ UNCHANGED <<cur, cpuVars, irqVars, tableVars, memVars, callVars, schedVars>>

(* wfi resumes when an interrupt is pending, whether or not SIE is set *)
Wfi ==
    /\ At(0, "s_wfi")
    /\ pending
    /\ Goto(0, "s_on")
    /\ UNCHANGED <<cur, cpuVars, irqVars, tableVars, memVars, callVars, schedVars>>

(* forkret(): release the lock the scheduler took.  The new thread starts  *)
(* with whatever interrupt state the scheduler had.                        *)
Forkret(t) ==
    /\ At(t, "forkret")
    /\ home[t] # "none"
    /\ Release(cproc)
    /\ Goto(t, "f_call")
    /\ want' = [want EXCEPT ![t] = hart'.sie]
    /\ UNCHANGED <<cur, cproc, irqVars, tableVars, memVars, callVars, found, sintena>>

(* fn = p->context.s0; fn().  A stack address is not executable: the jump  *)
(* to one faults and kerneltrap() panics, with SIE clear.                  *)
ForkretCall(t) ==
    /\ At(t, "f_call")
    /\ IF home[t] # "none"
       THEN Goto(t, home[t]) /\ UNCHANGED hart
       ELSE Goto(t, "panic") /\ hart' = [hart EXCEPT !.sie = FALSE]
    /\ UNCHANGED <<cur, cproc, locks, irqVars, tableVars, memVars, callVars, schedVars>>

(***************************************************************************)
(* wait_process() and sleep().  init_task() is a loop around wait_process: *)
(* w_acq is its home, and it yields when there is nobody to wait for.      *)
(* p->killed is never set.                                                 *)
(***************************************************************************)
Children(t) == {np \in Procs : parent[np] = t}

(* mutant: wait_process() does not look at np->parent *)
AnyZombies(t) == {np \in Procs : state[np] = "ZOMBIE"}

Zombies(t) == {np \in Children(t) : state[np] = "ZOMBIE"}

WaitAcquire(t) == Take(t, "w_acq", WaitLock, "w_scan")

(* the fields free_process() clears besides the pages *)
ClearSlot(p) ==
    /\ pid' = [pid EXCEPT ![p] = 0]
    /\ parent' = [parent EXCEPT ![p] = 0]
    /\ chan' = [chan EXCEPT ![p] = 0]
    /\ xstate' = [xstate EXCEPT ![p] = 0]
    /\ state' = [state EXCEPT ![p] = "UNUSED"]

(* mutant: only the trapframe is given back *)
FreeTrapframe(p) ==
    /\ nfree' = nfree + 1
    /\ pages' = [pages EXCEPT ![p] = 0]
    /\ ClearSlot(p)

(* free_process(): trapframe and page table, then the fields *)
FreeProcess(p) ==
    /\ nfree' = nfree + pages[p]
    /\ pages' = [pages EXCEPT ![p] = 0]
    /\ ClearSlot(p)

(* the first zombie in table order: copy pid and xstate, free_process *)
WaitReap(t) ==
    /\ At(t, "w_scan") /\ Children(t) \cap locks = {}
    /\ \E np \in Zombies(t) :
         /\ \A q \in Zombies(t) : np <= q
         /\ ret' = [ret EXCEPT ![t] = pid[np]]
         /\ status' = [status EXCEPT ![t] = xstate[np]]
         /\ FreeProcess(np)
    /\ Release(WaitLock)
    /\ Goto(t, home[t])
    /\ UNCHANGED <<cur, cproc, irqVars, home, nextpid, initproc, slot, lk, schedVars>>

(* where a caller goes on when wait_process() found nobody: init_task()    *)
(* calls yield() before it waits again, a task goes on                     *)
init_task(t) == IF home[t] = "w_acq" THEN "y_acq" ELSE home[t]

(* no children: return -1 *)
WaitNoChildren(t) ==
    /\ At(t, "w_scan") /\ Children(t) = {}
    /\ ret' = [ret EXCEPT ![t] = -1]
    /\ Release(WaitLock)
    /\ Goto(t, init_task(t))
    /\ UNCHANGED <<cur, cproc, irqVars, tableVars, memVars, slot, lk, status, schedVars>>

(* sleep(ch, lk) up to its call of sched() *)
Sleep(t, ch) ==
    /\ cproc # 0
    /\ Swap(cproc, lk[t])
    /\ chan' = [chan EXCEPT ![cproc] = ch]
    /\ state' = [state EXCEPT ![cproc] = "SLEEPING"]
    /\ Goto(t, "sl_sched")
    /\ UNCHANGED <<cur, cproc, irqVars, parent, pid, xstate, home, memVars, callVars, schedVars>>

(* children, none of them a zombie: sleep(p, &wait_lock) *)
WaitSleep(t) ==
    /\ At(t, "w_scan")
    /\ Children(t) # {} /\ Children(t) \cap locks = {} /\ Zombies(t) = {}
    /\ Sleep(t, t)

SleepReturn(t) ==
    /\ At(t, "sl_back")
    /\ SchedReturn(t)
    /\ chan' = [chan EXCEPT ![cproc] = 0]
    /\ Goto(t, "sl_reacq")
    /\ UNCHANGED <<cur, cproc, irqVars, state, parent, pid, xstate, home>>
    /\ UNCHANGED <<memVars, callVars, found, want>>

SleepReacquire(t) ==
    Take(t, "sl_reacq", lk[t], IF lk[t] = WaitLock THEN "w_scan" ELSE "sl_done")

(* a task that waits for a tick: acquire(&tickslock);                      *)
(* sleep(&ticks, &tickslock); release(&tickslock)                          *)
TicksAcquire(t) == Take(t, "sl_acq", TicksLock, "sl_ticks")
TicksSleep(t) == At(t, "sl_ticks") /\ Sleep(t, TicksChan)
TicksRelease(t) ==
    /\ At(t, "sl_done")
    /\ Release(TicksLock)
    /\ lk' = [lk EXCEPT ![t] = WaitLock]
    /\ Goto(t, home[t])
    /\ UNCHANGED <<cur, cproc, irqVars, tableVars, memVars, slot, ret, status, schedVars>>

(***************************************************************************)
(* exit_process()                                                          *)
(***************************************************************************)
ExitAcquire(t) == cproc # initproc /\ Take(t, "e_acq", WaitLock, "e_reparent")

(* mutant: init is not told about the zombies it inherits *)
ReparentQuietly(t) ==
    /\ At(t, "e_reparent")
    /\ parent' = [np \in Procs |-> IF parent[np] = t THEN initproc ELSE parent[np]]
    /\ Goto(t, "e_wake")
    /\ UNCHANGED <<cur, cpuVars, irqVars, state, chan, pid, xstate, home, memVars, callVars, schedVars>>

(* mutant: the children are left with their parent *)
NoReparent(t) ==
    /\ At(t, "e_reparent")
    /\ Goto(t, "e_wake")
    /\ UNCHANGED <<cur, cpuVars, irqVars, tableVars, memVars, callVars, schedVars>>

(* children go to init, which is woken if one of them is a zombie *)
ExitReparent(t) ==
    /\ At(t, "e_reparent")
    /\ IF initproc # 0 /\ Zombies(t) # {} THEN Wakeup(initproc) ELSE UNCHANGED state
    /\ parent' = [np \in Procs |-> IF parent[np] = t THEN initproc ELSE parent[np]]
    /\ Goto(t, "e_wake")
    /\ UNCHANGED <<cur, cpuVars, irqVars, chan, pid, xstate, home, memVars, callVars, schedVars>>

(* mutant: the parent is not woken *)
ExitQuietly(t) ==
    /\ At(t, "e_wake")
    /\ Goto(t, "e_zombie")
    /\ UNCHANGED <<cur, cpuVars, irqVars, tableVars, memVars, callVars, schedVars>>

ExitWakeParent(t) ==
    /\ At(t, "e_wake")
    /\ IF parent[t] # 0 THEN Wakeup(parent[t]) ELSE UNCHANGED state
    /\ Goto(t, "e_zombie")
    /\ UNCHANGED <<cur, cpuVars, irqVars, chan, parent, pid, xstate, home, memVars, callVars, schedVars>>

(* coming back from the sched() that follows would be panic("zombie exit") *)
ExitZombie(t) ==
    /\ At(t, "e_zombie")
    /\ Swap(t, WaitLock)
    /\ xstate' = [xstate EXCEPT ![t] = status[t]]
    /\ state' = [state EXCEPT ![t] = "ZOMBIE"]
    /\ status' = [status EXCEPT ![t] = 0]
    /\ Goto(t, "e_sched")
    /\ UNCHANGED <<cur, cproc, irqVars, chan, parent, pid, home, memVars, slot, lk, ret, schedVars>>

(***************************************************************************)
(* yield()                                                                 *)
(***************************************************************************)
YieldAcquire(t) ==
    /\ At(t, "y_acq")
    /\ Acquire(cproc)
    /\ state' = [state EXCEPT ![cproc] = "RUNNABLE"]
    /\ Goto(t, "y_sched")
    /\ UNCHANGED <<cur, cproc, irqVars, chan, parent, pid, xstate, home, memVars, callVars, schedVars>>

(* back to the caller: kerneltrap if this thread is inside it *)
YieldReturn(t) ==
    /\ At(t, "y_back")
    /\ SchedReturn(t)
    /\ Goto(t, IF savedpc[t] # "none" THEN "t_ret" ELSE home[t])
    /\ UNCHANGED <<cur, cproc, irqVars, tableVars, memVars, callVars, found, want>>

(***************************************************************************)
(* The timer: stimecmp is reached; the hardware interrupts whatever runs   *)
(* with SIE set; kernelvec and kerneltrap handle it.                       *)
(***************************************************************************)
TimerExpire ==
    /\ ~pending
    /\ pending' = TRUE
    /\ UNCHANGED <<cur, pc, cpuVars, sepc, savedpc, tableVars, memVars, callVars, schedVars>>

TakeInterrupt(t) ==
    /\ cur = t /\ hart.sie /\ pending
    /\ sepc' = pc[t]
    /\ savedpc' = [savedpc EXCEPT ![t] = pc[t]]
    /\ hart' = [hart EXCEPT !.sie = FALSE]
    /\ Goto(t, "t_tick")
    /\ UNCHANGED <<cur, cproc, locks, pending, tableVars, memVars, callVars, schedVars>>

(* timer_interrupt(): wakeup(&ticks) inside tickslock, re-arm stimecmp;    *)
(* kerneltrap() then yields if a process was interrupted                   *)
TimerInterrupt(t) ==
    /\ At(t, "t_tick") /\ TicksLock \notin locks
    /\ Wakeup(TicksChan)
    /\ hart' = PopOff(PushOff(hart))
    /\ pending' = FALSE
    /\ Goto(t, IF cproc # 0 THEN "y_acq" ELSE "t_ret")
    /\ UNCHANGED <<cur, cproc, locks, sepc, savedpc, chan, parent, pid, xstate, home>>
    /\ UNCHANGED <<memVars, callVars, schedVars>>

(* mutant: sepc is not restored after yield() *)
TrapReturnStale(t) ==
    /\ At(t, "t_ret")
    /\ Goto(t, sepc)
    /\ hart' = [hart EXCEPT !.sie = TRUE]
    /\ savedpc' = [savedpc EXCEPT ![t] = "none"]
    /\ UNCHANGED <<cur, cproc, locks, pending, sepc, tableVars, memVars, callVars, schedVars>>

(* w_sepc, w_sstatus (SPIE as saved, so sret sets SIE) and sret *)
TrapReturn(t) ==
    /\ At(t, "t_ret")
    /\ sepc' = savedpc[t]
    /\ Goto(t, sepc')
    /\ hart' = [hart EXCEPT !.sie = TRUE]
    /\ savedpc' = [savedpc EXCEPT ![t] = "none"]
    /\ UNCHANGED <<cur, cproc, locks, pending, tableVars, memVars, callVars, schedVars>>

(* panic()'s for(;;), which leaves SIE as it found it *)
PanicSpin(t) == At(t, "panic") /\ UNCHANGED vars

(***************************************************************************)
(* Tasks: the functions create_process() is given.  They hold no lock when *)
(* they make a call.  A local is reset once nothing reads it any more.     *)
(***************************************************************************)
Call(t, name, entry, arg, l) ==
    /\ At(t, "run") /\ name \in Calls
    /\ ret' = [ret EXCEPT ![t] = 0]
    /\ status' = [status EXCEPT ![t] = arg]
    /\ lk' = [lk EXCEPT ![t] = l]
    /\ Goto(t, entry)
    /\ UNCHANGED <<cur, cpuVars, irqVars, tableVars, memVars, slot, schedVars>>

CallCreate(t)   == nextpid <= MaxPid /\ Call(t, "create", "a_scan", 0, WaitLock)
CallWait(t)     == Call(t, "wait", "w_acq", 0, WaitLock)
CallYield(t)    == Call(t, "yield", "y_acq", 0, WaitLock)
CallSleep(t)    == Call(t, "sleep", "sl_acq", 0, TicksLock)
CallExit(t, st) == Call(t, "exit", "e_acq", st, WaitLock)

(* the task returns to forkret(): panic("kernel thread returned") *)
CallReturn(t)   == Call(t, "return", "panic", 0, WaitLock)

CallIntr(t, b) ==
    /\ At(t, "run") /\ (IF b THEN "intr_on" ELSE "intr_off") \in Calls
    /\ hart' = [hart EXCEPT !.sie = b]
    /\ want' = [want EXCEPT ![t] = b]
    /\ UNCHANGED <<cur, pc, cproc, locks, irqVars, tableVars, memVars, callVars, found, sintena>>

TaskCall(t) ==
    \/ CallCreate(t)
    \/ CallWait(t)
    \/ CallYield(t)
    \/ CallSleep(t)
    \/ CallReturn(t)
    \/ \E st \in Statuses : CallExit(t, st)
    \/ \E b \in BOOLEAN : CallIntr(t, b)

SchedulerStep ==
    \/ SchedulerStart \/ IntrOn \/ IntrOff
    \/ SchedulerSkip \/ SchedulerSwitch \/ SchedulerBack
    \/ SchedulerPassEnd \/ Wfi

KernelStep(t) ==
    \/ AllocAcquire(t) \/ AllocNext(t) \/ AllocFound(t) \/ AllocNoMemory(t) \/ AllocFull(t)
    \/ UserinitFinish(t) \/ CreateFinish(t) \/ CreateReturn(t)
    \/ Forkret(t) \/ ForkretCall(t) \/ Sched(t)
    \/ WaitAcquire(t) \/ WaitReap(t) \/ WaitNoChildren(t) \/ WaitSleep(t)
    \/ SleepReturn(t) \/ SleepReacquire(t)
    \/ TicksAcquire(t) \/ TicksSleep(t) \/ TicksRelease(t)
    \/ ExitAcquire(t) \/ ExitReparent(t) \/ ExitWakeParent(t) \/ ExitZombie(t)
    \/ YieldAcquire(t) \/ YieldReturn(t)
    \/ TimerInterrupt(t) \/ TrapReturn(t)
    \/ PanicSpin(t)

Kernel == SchedulerStep \/ \E t \in Threads : KernelStep(t)
Interrupt == \E t \in Threads : TakeInterrupt(t)
Tasks == \E t \in Procs : TaskCall(t)

Next == Kernel \/ TimerExpire \/ Interrupt \/ Tasks

Spec == Init /\ [][Next]_vars

-----------------------------------------------------------------------------
(* Types of struct proc, struct cpu, the CSRs and the locals. *)
TypeOK ==
    /\ cur \in Threads /\ cproc \in Threads /\ initproc \in Threads
    /\ pc \in [Threads -> Labels] /\ savedpc \in [Threads -> Labels]
    /\ home \in [Threads -> Labels] /\ sepc \in Labels
    /\ hart \in [sie : BOOLEAN, noff : Nat, intena : BOOLEAN]
    /\ locks \subseteq LockIds
    /\ pending \in BOOLEAN /\ found \in BOOLEAN
    /\ state \in [Procs -> States]
    /\ chan \in [Procs -> 0..TicksChan]
    /\ parent \in [Procs -> Threads]
    /\ pid \in [Procs -> Nat] /\ nextpid \in Nat
    /\ xstate \in [Procs -> Int]
    /\ pages \in [Procs -> 0..PagesPerProc] /\ nfree \in Nat
    /\ slot \in [Threads -> 1..NPROC + 1]
    /\ sintena \in [Threads -> BOOLEAN] /\ want \in [Threads -> BOOLEAN]
    /\ lk \in [Threads -> {WaitLock, TicksLock}]
    /\ ret \in [Threads -> Int] /\ status \in [Threads -> Int]

(* A lock the current thread is about to take, and one it is about to give *)
(* back (sleep takes p->lock and then gives back lk).                      *)
ToAcquire ==
    LET t == cur IN
    CASE pc[t] \in {"a_scan", "s_loop"} /\ slot[t] <= NPROC -> {slot[t]}
      [] pc[t] \in {"w_acq", "e_acq"} -> {WaitLock}
      [] pc[t] = "sl_acq" -> {TicksLock}
      [] pc[t] = "sl_reacq" -> {lk[t]}
      [] pc[t] \in {"y_acq", "sl_ticks", "e_zombie"} -> {cproc}
      [] pc[t] = "t_tick" -> {TicksLock} \cup (Procs \ {cproc})
      [] pc[t] = "w_scan" -> Children(t) \cup {cproc}
      [] pc[t] \in {"e_reparent", "e_wake"} -> Procs \ {cproc}
      [] pc[t] = "c_fin" -> {WaitLock}
      [] OTHER -> {}

ToRelease ==
    LET t == cur IN
    CASE pc[t] \in {"a_test", "u_fin", "c_fin", "s_back"} -> {slot[t]}
      [] pc[t] \in {"forkret", "sl_back", "y_back"} -> {cproc}
      [] pc[t] \in {"w_scan", "e_zombie"} -> {WaitLock}
      [] pc[t] = "sl_ticks" -> {lk[t]}
      [] pc[t] = "sl_done" -> {TicksLock}
      [] OTHER -> {}

(* No assertion of the kernel fails, whatever tasks do and whenever the    *)
(* timer fires: acquire() of a held lock, release() of one not held,       *)
(* pop_off() with SIE set or noff 0, the four checks of sched(), sleep()   *)
(* and exit_process() without their process, "zombie exit", and forkret    *)
(* without an entry point if its release left interrupts off.  (The panics *)
(* the code can reach are steps: the table or memory used up, a task that  *)
(* returns, forkret preempted before it read context.s0.)                  *)
NoPanic ==
    /\ ToAcquire \cap locks = {}
    /\ ToRelease \subseteq locks
    /\ ToRelease # {} => ~hart.sie /\ hart.noff >= 1
    /\ pc[cur] \in {"sl_sched", "e_sched", "y_sched"} =>
         /\ cproc = cur /\ cur \in locks
         /\ hart.noff = 1 /\ ~hart.sie
         /\ state[cur] # "RUNNING"
    /\ pc[cur] \in {"y_acq", "sl_ticks", "e_acq", "e_zombie", "forkret", "sl_back", "y_back"} =>
         cproc = cur /\ cproc # 0
    /\ pc[cur] = "e_acq" => cur # initproc
    /\ pc[cur] = "forkret" \/ (pc[cur] = "f_call" /\ ~want[cur]) => home[cur] # "none"
    /\ pc[cur] # "e_dead"

(* The process on the hart is the RUNNING one, c->proc points to it, and   *)
(* it stays off limits to everyone else (its p->lock is held) from the     *)
(* moment it stops being RUNNING until the scheduler is off its stack: no  *)
(* process runs while it is free for reuse, and none waits as RUNNING.     *)
OneRunner ==
    /\ cproc \in {0, cur} \/ pc[cur] = "s_back"
    /\ \A p \in Procs :
         /\ state[p] = "RUNNING" => p = cur /\ p = cproc
         /\ p = cur => state[p] = "RUNNING" \/ p \in locks
         /\ state[p] = "RUNNABLE" /\ p \notin locks => pc[p] \in {"forkret", "y_back", "sl_back"}

(* sleep() releases wait_lock and sleeps atomically, and exit_process()    *)
(* wakes under wait_lock: whenever wait_lock is free, a process asleep in  *)
(* wait_process() has a child to wait for and none of its children is a    *)
(* zombie already.  A lost wakeup would leave it asleep forever.           *)
NoLostWakeup ==
    WaitLock \notin locks =>
        \A p \in Procs : state[p] = "SLEEPING" /\ chan[p] = p =>
            Children(p) # {} /\ Zombies(p) = {}

(* p->parent never dangles: while wait_lock is free, a parent is a process *)
(* that has not exited, so there is someone to reap every zombie.  The     *)
(* exceptions are the two processes main() created, which have no parent.  *)
ParentAlive ==
    WaitLock \notin locks =>
        \A p \in Procs : state[p] \notin {"UNUSED", "USED"} =>
            \/ parent[p] = 0 /\ pid[p] \in {1, 2}
            \/ /\ parent[p] \in Procs \ {p} /\ pid[p] > 2
               /\ state[parent[p]] \in {"RUNNABLE", "RUNNING", "SLEEPING"}

(* No page is lost or freed twice: outside alloc_process every process in  *)
(* the table holds exactly its own pages and the rest are on the free list. *)
PagesConserved ==
    LET InUse == {p \in Procs : state[p] # "UNUSED"} IN
    (\A t \in Threads : pc[t] # "panic") =>
        /\ \A p \in Procs : pages[p] = IF p \in InUse THEN PagesPerProc ELSE 0
        /\ nfree + PagesPerProc * Cardinality(InUse) = TotalPages

(* A task finds interrupts as it left them: whatever kernel calls it made, *)
(* however often it was preempted and whatever ran in between, SIE is what *)
(* the task chose last (push_off/pop_off nesting, sched()'s saved intena,  *)
(* kerneltrap()'s saved sstatus).                                          *)
InterruptStatePreserved ==
    pc[cur] \in {"run", "w_acq", "e_acq", "y_acq", "sl_acq", "sl_reacq", "c_ret"} =>
        /\ hart.noff = 0
        /\ hart.sie = (want[cur] /\ savedpc[cur] = "none")

(* create_process() reads p->pid after it released p->lock: the slot still *)
(* belongs to the child it made, even if the child has run and exited.     *)
ChildStillThere ==
    \A t \in Threads :
        "c_ret" \in {pc[t], savedpc[t]} =>
            /\ pid[slot[t]] # 0
            /\ parent[slot[t]] = t

(* scheduler() executes wfi only with interrupts off and only when no      *)
(* process could run: the race its comment is about cannot happen.         *)
IdleOnlyWhenNothingRunnable ==
    pc[0] = "s_wfi" => ~hart.sie /\ \A p \in Procs : state[p] # "RUNNABLE"

(* An interrupted thread resumes exactly where it was interrupted, however *)
(* many other threads trapped while it was switched out: kerneltrap()      *)
(* restores its own sepc.  No step but the return moves a trapped thread   *)
(* out of the handler.                                                     *)
TrapTransparent ==
    [][\A t \in Threads :
         savedpc[t] # "none" =>
             \/ savedpc'[t] = savedpc[t] /\ pc'[t] \in {"t_tick", "y_acq", "y_sched", "y_back", "t_ret"}
             \/ savedpc'[t] = "none" /\ pc'[t] = savedpc[t] /\ hart'.sie]_vars
=============================================================================

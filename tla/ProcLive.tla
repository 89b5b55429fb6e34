------------------------------ MODULE ProcLive ------------------------------
(***************************************************************************)
(* What must eventually happen in proc.c when the tasks run with           *)
(* interrupts on, so that the timer preempts them.  (The tasks of this     *)
(* repository never do: see SimpleTask.)                                   *)
(***************************************************************************)
EXTENDS Proc

Tasked == Procs \ {1}     \* all slots but init's

(* What thread t does outside interrupt handlers *)
Ahead(t) == savedpc[t] = "none" /\ (KernelStep(t) \/ (t = 0 /\ SchedulerStep))

(* The tasks main() starts look after children, the others may sleep on    *)
(* &ticks as well, while their parents wait for them.                      *)
PreemptiveNext == Next /\ \A t \in Procs : CallSleep(t) => parent[t] # 0

(* The hart executes.  The timer runs out, and once re-armed leaves about  *)
(* a second, so that interrupted kernel code gets on (SF of Ahead).  A     *)
(* pending interrupt is taken at one of the times SIE is set.  Tasks may   *)
(* compute forever, but turn interrupts on at some point.                  *)
PreemptiveSpec ==
    /\ Init /\ [][PreemptiveNext]_vars
    /\ WF_vars(Kernel)
    /\ \A t \in Threads : SF_vars(Ahead(t))
    /\ WF_vars(TimerExpire)
    /\ SF_vars(Interrupt)
    /\ \A t \in Procs : SF_vars(CallIntr(t, TRUE))

-----------------------------------------------------------------------------
(* forkret, preempted between its release and its read of context.s0, jumps *)
(* into its stack and kerneltrap() panics: the hart stops there for good.  *)
(* (The tasks do not return, and there is a slot and memory for each.)     *)
Panicked == pc[cur] = "panic"

(* With interrupts on in the tasks, the timer preempts and the scheduler's *)
(* pass over the table starves nobody; and timer_interrupt()'s             *)
(* wakeup(&ticks) reaches every process asleep on it, also when all others *)
(* sleep too and the hart waits in wfi.                                    *)
NoStarvation ==
    \A p \in Procs :
        (state[p] = "RUNNABLE" \/ (state[p] = "SLEEPING" /\ chan[p] = TicksChan))
            ~> (state[p] = "RUNNING" \/ Panicked)

(* exit_process() hands children to init "so that there is always someone  *)
(* to reap them": init does reap every zombie it is the parent of.         *)
OrphansReaped ==
    \A p \in Tasked :
        (state[p] = "ZOMBIE" /\ parent[p] = initproc) ~> (state[p] = "UNUSED" \/ Panicked)

InWait(p) ==
    /\ lk[p] = WaitLock
    /\ {pc[p], savedpc[p]} \cap {"w_acq", "w_scan", "sl_sched", "sl_back", "sl_reacq"} # {}

(* A process in wait_process() with an exited child returns, whether the   *)
(* child exits before, during or after its scan of the table.              *)
WaitReturns ==
    \A p \in Tasked : (InWait(p) /\ Zombies(p) # {}) ~> (~InWait(p) \/ Panicked)
=============================================================================

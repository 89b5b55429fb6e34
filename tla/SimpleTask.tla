----------------------------- MODULE SimpleTask -----------------------------
(***************************************************************************)
(* The system main() starts: init_task and simple_task of kernel/proc.c on *)
(* top of Proc.  The first simple_task (no parent, or init's child) is the *)
(* tester: it creates a second one, waits for it and checks its pid and    *)
(* its exit status 88.  Neither ever turns interrupts on.                  *)
(***************************************************************************)
EXTENDS Proc

VARIABLES stage,  \* how far each slot's simple_task has got
          child   \* its local child_pid

stVars == <<vars, stage, child>>

Expected == 88
Stages == {"start", "created", "waited", "passed", "failed", "exiting"}

STInit ==
    /\ Init
    /\ stage = [p \in Procs |-> "start"]
    /\ child = [p \in Procs |-> 0]

IsTester(t) == parent[t] = 0 \/ (initproc # 0 /\ parent[t] = initproc)

STCreate(t) ==
    /\ stage[t] = "start" /\ IsTester(t)
    /\ CallCreate(t)
    /\ stage' = [stage EXCEPT ![t] = "created"]
    /\ UNCHANGED child

STExit(t) ==
    /\ stage[t] = "start" /\ ~IsTester(t)
    /\ CallExit(t, Expected)
    /\ stage' = [stage EXCEPT ![t] = "exiting"]
    /\ UNCHANGED child

STWait(t) ==
    /\ stage[t] = "created"
    /\ CallWait(t)
    /\ child' = [child EXCEPT ![t] = ret[t]]
    /\ stage' = [stage EXCEPT ![t] = "waited"]

STCheck(t) ==
    /\ At(t, "run") /\ stage[t] = "waited"
    /\ stage' = [stage EXCEPT ![t] = IF ret[t] = child[t] /\ status[t] = Expected
                                     THEN "passed" ELSE "failed"]
    /\ UNCHANGED <<vars, child>>

(* while(1): prints dots forever *)
STIdle(t) ==
    /\ At(t, "run") /\ stage[t] \in {"passed", "failed"}
    /\ UNCHANGED stVars

SimpleTaskStep ==
    \E t \in Procs : STCreate(t) \/ STExit(t) \/ STWait(t) \/ STCheck(t) \/ STIdle(t)

(* forkret() enters simple_task at its first statement *)
Underneath ==
    /\ stage' = [p \in Procs |-> IF At(p, "f_call") /\ pc'[p] # "f_call" THEN "start" ELSE stage[p]]
    /\ UNCHANGED child

STNext ==
    \/ Kernel /\ Underneath
    \/ (TimerExpire \/ Interrupt) /\ UNCHANGED <<stage, child>>
    \/ SimpleTaskStep

(* The hart executes.  The timer runs out, and once re-armed leaves about  *)
(* a second, so interrupted code does get on (SF for the code outside      *)
(* handlers).  A pending interrupt is taken at one of the times SIE is     *)
(* set: the hardware must look after every write of sstatus.               *)
STSpec ==
    /\ STInit /\ [][STNext]_stVars
    /\ WF_stVars(Kernel /\ Underneath)
    /\ SF_stVars(Kernel /\ savedpc[cur] = "none" /\ Underneath)
    /\ WF_stVars(SimpleTaskStep)
    /\ WF_stVars(TimerExpire /\ UNCHANGED <<stage, child>>)
    /\ SF_stVars(Interrupt /\ UNCHANGED <<stage, child>>)

-----------------------------------------------------------------------------
(* The self-test of simple_task prints TEST PASSED: wait_process returns   *)
(* the pid create_process returned, with the status the child passed to    *)
(* exit_process; nobody takes a FAILED branch on the way, and only one     *)
(* process becomes a tester (the role test reads p->parent without         *)
(* wait_lock).                                                             *)
TestPasses ==
    /\ <>(\E p \in Procs : stage[p] = "passed" /\ parent[p] = 0)
    /\ [](\A p, q \in Procs :
             /\ stage[p] # "failed"
             /\ {stage[p], stage[q]} \subseteq {"created", "waited", "passed"} => p = q)

(* The comment above scheduler(): "eventually that process transfers       *)
(* control via swtch back to the scheduler".                               *)
SchedulerRegainsControl == []<>(cur = 0)
=============================================================================

--------------------------- MODULE ProcTreeProof ----------------------------
(***************************************************************************)
(* proc.c implements the process tree, for any size of the table.  A step  *)
(* of Proc is a step of the tree in five actions: the ends of userinit()   *)
(* and create_process(), the hand-over of the children and the zombie      *)
(* state in exit_process(), and the reaping in wait_process().  All others *)
(* leave the tree alone.  Two things are needed that no safety property of *)
(* Proc mentions: a slot is given back with p->xstate cleared, and an      *)
(* exiting process still holds the status it was given.                    *)
(***************************************************************************)
EXTENDS ProcRefinesTree, ProcProof

ExitLabels == {"e_acq", "e_reparent", "e_wake", "e_zombie"}

ExitInv ==
    \A p \in Procs :
        /\ ~Created(p) => xstate[p] = 0
        /\ Where(p) \in ExitLabels => status[p] \in Statuses

TInv == IInv /\ ExitInv

-----------------------------------------------------------------------------
(* ExitInv is an invariant *)

(* The status given to exit_process() reaches p->xstate. *)
LEMMA ExitStep ==
    ASSUME TInv, Next
    PROVE  ExitInv'
<1>a. IInv
  BY DEF TInv
<1>0. /\ ExitInv /\ cur \in Threads /\ pc \in [Threads -> Labels] /\ savedpc \in [Threads -> Labels]
     /\ state \in [Procs -> States] /\ xstate \in [Procs -> Int] /\ status \in [Threads -> Int]
  BY DEF IInv, TypeOK, TInv
<1>1. ASSUME NEW t \in Threads, AllocFound(t) PROVE ExitInv'
  <2>1. /\ pc[slot[t]] \in {"none", "e_dead"}
        /\ pc[t] = "a_test" /\ slot[t] \in Procs /\ slot[t] # t
        /\ savedpc' = savedpc /\ status' = status /\ xstate' = xstate /\ state[slot[t]] = "UNUSED"
        /\ state' = [state EXCEPT ![slot[t]] = "USED"]
    BY <1>1, <1>a, AllocFoundEffect, AllocSlotEffect DEF AllocFound
  <2>2. \A p \in Procs : pc'[p] = pc[p] \/ pc'[p] \in {"forkret", "u_fin", "c_fin"}
    BY <1>1, <1>a, <1>0, AllocFoundEffect, AllocSlotEffect, Numbers DEF AllocFound, Goto
  <2>3. \A p \in Procs : ~Created(p)' => xstate'[p] = 0
    BY <2>1, <1>0 DEF ExitInv, Created
  <2>4. \A p \in Procs : Where(p)' \in ExitLabels => status'[p] \in Statuses
    BY <2>1, <2>2, <1>0 DEF ExitInv, ExitLabels, Where
  <2>. QED
    BY <2>3, <2>4 DEF ExitInv
<1>2. ASSUME NEW t \in Threads, AllocNoMemory(t) PROVE ExitInv'
  <2>1. /\ pc[slot[t]] \in {"none", "e_dead"}
        /\ pc[t] = "a_test" /\ slot[t] \in Procs /\ slot[t] # t
        /\ savedpc' = savedpc /\ status' = status /\ xstate' = xstate /\ state[slot[t]] = "UNUSED"
        /\ state' = [state EXCEPT ![slot[t]] = "USED"]
    BY <1>2, <1>a, AllocSlotEffect DEF AllocNoMemory
  <2>2. \A p \in Procs : pc'[p] = pc[p] \/ pc'[p] = "panic"
    BY <1>2, <1>a, <1>0, AllocSlotEffect, Numbers DEF AllocNoMemory, Goto
  <2>3. \A p \in Procs : ~Created(p)' => xstate'[p] = 0
    BY <2>1, <1>0 DEF ExitInv, Created
  <2>4. \A p \in Procs : Where(p)' \in ExitLabels => status'[p] \in Statuses
    BY <2>1, <2>2, <1>0 DEF ExitInv, ExitLabels, Where
  <2>. QED
    BY <2>3, <2>4 DEF ExitInv
<1>3. ASSUME NEW t \in Threads, CreateReturn(t) PROVE ExitInv'
  <2>1. /\ cur = t /\ savedpc' = savedpc /\ status' = status /\ xstate' = xstate /\ state' = state
        /\ pc' = [pc EXCEPT ![t] = home[t]] /\ pc[t] = "c_ret"
    BY <1>3 DEF CreateReturn, At, Goto, irqVars, tableVars, callVars
  <2>2. t # 0 => home[t] \in {"run", "w_acq"}
    BY <2>1, <1>a, Here
  <2>. QED
    BY <2>1, <2>2, <1>0, Numbers DEF ExitInv, ExitLabels, Where, Created
<1>4. ASSUME NEW t \in Threads, Forkret(t) PROVE ExitInv'
  <2>1. /\ cur = t /\ savedpc' = savedpc /\ status' = status /\ xstate' = xstate /\ state' = state
        /\ pc' = [pc EXCEPT ![t] = "f_call"] /\ pc[t] = "forkret"
    BY <1>4, ForkretEffect DEF Forkret, At, Goto, irqVars, tableVars, callVars
  <2>. QED
    BY <2>1, <1>0, Numbers DEF ExitInv, ExitLabels, Where, Created
<1>5. ASSUME NEW t \in Threads, Sched(t) PROVE ExitInv'
  <2>1. /\ savedpc' = savedpc /\ status' = status /\ xstate' = xstate /\ state' = state
        /\ \A p \in Procs : pc'[p] = pc[p] \/ pc'[p] \in {"sl_back", "e_dead", "y_back"}
    BY <1>5, <1>a, SchedEffect, <1>0, Numbers
  <2>. QED
    BY <2>1, <1>0 DEF ExitInv, ExitLabels, Where, Created
<1>6. ASSUME NEW t \in Threads, WaitReap(t) PROVE ExitInv'
  <2>1. /\ t \in Procs /\ pc[t] = "w_scan" /\ cur = t /\ savedpc' = savedpc
        /\ pc' = [pc EXCEPT ![t] = home[t]]
    BY <1>6, <1>a, WaitReapEffect DEF WaitReap, Goto, irqVars
  <2>2. PICK np \in Procs : /\ xstate' = [xstate EXCEPT ![np] = 0] /\ state' = [state EXCEPT ![np] = "UNUSED"]
                           /\ status' = [status EXCEPT ![t] = xstate[np]]
    BY <1>6 DEF WaitReap, FreeProcess, ClearSlot, Zombies, Children
  <2>3. savedpc[t] = "none" /\ home[t] \in {"run", "w_acq"}
    BY <1>a, <2>1, Here, Numbers DEF IInv, IrqInv, TrapInv, TrapFree
  <2>4. \A p \in Procs : ~Created(p)' => xstate'[p] = 0
    BY <2>2, <1>0 DEF ExitInv, Created
  <2>5. \A p \in Procs : Where(p)' \in ExitLabels => status'[p] \in Statuses
    BY <2>1, <2>2, <2>3, <1>0, Numbers DEF ExitInv, ExitLabels, Where
  <2>. QED
    BY <2>4, <2>5 DEF ExitInv
<1>7. ASSUME NEW t \in Threads, WaitNoChildren(t) PROVE ExitInv'
  <2>1. /\ cur = t /\ savedpc' = savedpc /\ status' = status /\ xstate' = xstate /\ state' = state
        /\ pc' = [pc EXCEPT ![t] = IF home[t] = "w_acq" THEN "y_acq" ELSE home[t]] /\ pc[t] = "w_scan"
    BY <1>7, WaitNoChildrenEffect DEF WaitNoChildren, init_task, At, Goto, irqVars, tableVars, callVars
  <2>2. t # 0 => home[t] \in {"run", "w_acq"}
    BY <2>1, <1>a, Here
  <2>. QED
    BY <2>1, <2>2, <1>0, Numbers DEF ExitInv, ExitLabels, Where, Created
<1>8. ASSUME NEW t \in Threads, TicksRelease(t) PROVE ExitInv'
  <2>1. /\ cur = t /\ savedpc' = savedpc /\ status' = status /\ xstate' = xstate /\ state' = state
        /\ pc' = [pc EXCEPT ![t] = home[t]] /\ pc[t] = "sl_done"
    BY <1>8, TicksReleaseEffect DEF TicksRelease, At, Goto, irqVars, tableVars, callVars
  <2>2. t # 0 => home[t] \in {"run", "w_acq"}
    BY <2>1, <1>a, Here
  <2>. QED
    BY <2>1, <2>2, <1>0, Numbers DEF ExitInv, ExitLabels, Where, Created
<1>9. ASSUME NEW t \in Threads, ExitZombie(t) PROVE ExitInv'
  <2>1. /\ t \in Procs /\ pc[t] = "e_zombie" /\ savedpc' = savedpc
        /\ xstate' = [xstate EXCEPT ![t] = status[t]] /\ state' = [state EXCEPT ![t] = "ZOMBIE"]
        /\ status' = [status EXCEPT ![t] = 0] /\ pc' = [pc EXCEPT ![t] = "e_sched"]
    BY <1>9, <1>a, ExitZombieEffect DEF ExitZombie, Goto, irqVars
  <2>2. savedpc[t] = "none"
    BY <1>a, <2>1, Numbers DEF IInv, IrqInv, TrapInv, TrapFree
  <2>. QED
    BY <2>1, <2>2, <1>0, Numbers DEF ExitInv, ExitLabels, Where, Created
<1>10. ASSUME NEW t \in Threads, YieldReturn(t) PROVE ExitInv'
  <2>1. /\ cur = t /\ savedpc' = savedpc /\ status' = status /\ xstate' = xstate /\ state' = state
        /\ pc' = [pc EXCEPT ![t] = IF savedpc[t] # "none" THEN "t_ret" ELSE home[t]] /\ pc[t] = "y_back"
    BY <1>10, YieldReturnEffect DEF YieldReturn, At, Goto, irqVars, tableVars, callVars
  <2>2. t # 0 /\ savedpc[t] = "none" => home[t] \in {"run", "w_acq"}
    BY <2>1, <1>a, Here
  <2>. QED
    BY <2>1, <2>2, <1>0, Numbers DEF ExitInv, ExitLabels, Where, Created
<1>11. ASSUME NEW t \in Threads, TakeInterrupt(t) PROVE ExitInv'
  <2>1. /\ savedpc' = [savedpc EXCEPT ![t] = pc[t]] /\ savedpc[t] = "none"
        /\ status' = status /\ xstate' = xstate /\ state' = state
        /\ pc' = [pc EXCEPT ![t] = "t_tick"]
    BY <1>11, <1>a, TakeInterruptEffect DEF TakeInterrupt, Goto, tableVars, callVars
  <2>. QED
    BY <2>1, <1>0, Numbers DEF ExitInv, ExitLabels, Where, Created
<1>12. ASSUME NEW t \in Procs, CallsOf(t) PROVE ExitInv'
  <2>1. /\ pc[t] = "run" /\ savedpc' = savedpc /\ xstate' = xstate /\ state' = state
        /\ \A p \in Procs \ {t} : pc'[p] = pc[p] /\ status'[p] = status[p]
    BY <1>12, <1>0, Numbers DEF CallsOf, CallCreate, CallWait, CallYield, CallSleep, CallReturn, CallExit,
       Call, At, Goto,
       irqVars, tableVars
  <2>2. pc'[t] \in ExitLabels => status'[t] \in Statuses
    BY <1>12, <1>0, Numbers DEF CallsOf, CallCreate, CallWait, CallYield, CallSleep, CallReturn, CallExit,
       Call, Goto,
       ExitLabels
  <2>3. savedpc[t] = "none"
    BY <1>a, <2>1, Numbers DEF IInv, IrqInv, TrapInv, TrapFree
  <2>. QED
    BY <2>1, <2>2, <2>3, <1>0, Numbers DEF ExitInv, Where, Created
<1>. USE <1>a, <1>0, Here, Numbers DEF At, Goto, cpuVars, irqVars, tableVars, memVars,
   callVars, schedVars, ExitInv, ExitLabels, Where, Created
<1>13. ASSUME SchedulerStart PROVE ExitInv'
  BY <1>13 DEF SchedulerStart
<1>14. ASSUME IntrOn PROVE ExitInv'
  BY <1>14, IntrEffect DEF IntrOn
<1>15. ASSUME IntrOff PROVE ExitInv'
  BY <1>15, IntrEffect DEF IntrOff
<1>16. ASSUME SchedulerSkip PROVE ExitInv'
  BY <1>16, SchedulerSkipEffect DEF SchedulerSkip
<1>17. ASSUME SchedulerSwitch PROVE ExitInv'
  BY <1>17, SchedulerSwitchEffect DEF SchedulerSwitch
<1>18. ASSUME SchedulerBack PROVE ExitInv'
  BY <1>18, SchedulerBackEffect DEF SchedulerBack
<1>19. ASSUME SchedulerPassEnd PROVE ExitInv'
  BY <1>19 DEF SchedulerPassEnd
<1>20. ASSUME Wfi PROVE ExitInv'
  BY <1>20 DEF Wfi
<1>21. ASSUME NEW t \in Threads, AllocAcquire(t) PROVE ExitInv'
  BY <1>21, AllocAcquireEffect DEF AllocAcquire, Take
<1>22. ASSUME NEW t \in Threads, AllocNext(t) PROVE ExitInv'
  BY <1>22, AllocNextEffect DEF AllocNext
<1>23. ASSUME NEW t \in Threads, AllocFull(t) PROVE ExitInv'
  BY <1>23 DEF AllocFull
<1>24. ASSUME NEW t \in Threads, UserinitFinish(t) PROVE ExitInv'
  BY <1>24, UserinitFinishEffect DEF UserinitFinish, Start
<1>25. ASSUME NEW t \in Threads, CreateFinish(t) PROVE ExitInv'
  BY <1>25, CreateFinishEffect DEF CreateFinish, Start
<1>26. ASSUME NEW t \in Threads, WaitAcquire(t) PROVE ExitInv'
  BY <1>26, WaitAcquireEffect DEF WaitAcquire, Take
<1>27. ASSUME NEW t \in Threads, WaitSleep(t) PROVE ExitInv'
  BY <1>27, WaitSleepEffect DEF WaitSleep, Sleep
<1>28. ASSUME NEW t \in Threads, SleepReturn(t) PROVE ExitInv'
  BY <1>28, SleepReturnEffect DEF SleepReturn
<1>29. ASSUME NEW t \in Threads, SleepReacquire(t) PROVE ExitInv'
  BY <1>29, SleepReacquireEffect DEF SleepReacquire, Take
<1>30. ASSUME NEW t \in Threads, TicksAcquire(t) PROVE ExitInv'
  BY <1>30, TicksAcquireEffect DEF TicksAcquire, Take
<1>31. ASSUME NEW t \in Threads, TicksSleep(t) PROVE ExitInv'
  BY <1>31, TicksSleepEffect DEF TicksSleep, Sleep
<1>32. ASSUME NEW t \in Threads, ExitAcquire(t) PROVE ExitInv'
  BY <1>32, ExitAcquireEffect DEF ExitAcquire, Take
<1>33. ASSUME NEW t \in Threads, ExitReparent(t) PROVE ExitInv'
  BY <1>33 DEF ExitReparent, Wakeup
<1>34. ASSUME NEW t \in Threads, ExitWakeParent(t) PROVE ExitInv'
  BY <1>34 DEF ExitWakeParent, Wakeup
<1>35. ASSUME NEW t \in Threads, YieldAcquire(t) PROVE ExitInv'
  BY <1>35, YieldAcquireEffect DEF YieldAcquire
<1>36. ASSUME NEW t \in Threads, TimerInterrupt(t) PROVE ExitInv'
  BY <1>36, TimerInterruptEffect DEF TimerInterrupt, Wakeup
<1>37. ASSUME NEW t \in Threads, TrapReturn(t) PROVE ExitInv'
  BY <1>37, TrapReturnEffect DEF TrapReturn
<1>38. ASSUME NEW t \in Procs, NEW b \in BOOLEAN, CallIntr(t, b) PROVE ExitInv'
  BY <1>38, CallIntrEffect DEF CallIntr
<1>39. ASSUME TimerExpire PROVE ExitInv'
  BY <1>39 DEF TimerExpire
<1>40. ASSUME NEW t \in Threads, PanicSpin(t) PROVE ExitInv'
  BY <1>40 DEF PanicSpin, vars
<1>41. ASSUME NEW t \in Threads, ForkretCall(t) PROVE ExitInv'
  BY <1>41, ForkretCallEffect
<1>. HIDE <1>a, <1>0, Here, Numbers DEF At, Goto, cpuVars, irqVars, tableVars, memVars,
   callVars, schedVars, ExitInv, ExitLabels, Where, Created
<1>. QED
  BY <1>1, <1>2, <1>3, <1>4, <1>5, <1>6, <1>7, <1>8, <1>9, <1>10, <1>11, <1>12, <1>13, <1>14,
     <1>15, <1>16, <1>17, <1>18, <1>19, <1>20, <1>21, <1>22, <1>23, <1>24, <1>25, <1>26, <1>27,
     <1>28, <1>29, <1>30, <1>31, <1>32, <1>33, <1>34, <1>35, <1>36, <1>37, <1>38, <1>39, <1>40, <1>41,
     NextCases

LEMMA TreeInvariance == Spec => []TInv
<1>1. Init => ExitInv
  BY Numbers DEF Init, ExitInv, ExitLabels, Where, Created
<1>2. TInv /\ [Next]_vars => ExitInv'
  <2>1. ASSUME TInv, UNCHANGED vars PROVE ExitInv'
    BY <2>1 DEF TInv, ExitInv, Where, Created, vars, cpuVars, irqVars, tableVars, memVars, callVars,
       schedVars
  <2>. QED
    BY <2>1, ExitStep
<1>. QED
  BY <1>1, <1>2, Invariance, PTL DEF Spec, TInv

-----------------------------------------------------------------------------
(* The tree, slot by slot *)

(* what the tree says of the process in slot p *)
Node(p) == [parent |-> IF parent[p] = 0 THEN 0 ELSE pid[parent[p]],
            exited |-> state[p] = "ZOMBIE",
            status |-> xstate[p]]

(* A pid names one process: the tree at p->pid is what the table says of p. *)
TreeIsTable ==
    /\ DOMAIN TreeOfTable = {pid[p] : p \in Existing}
    /\ \A p \in Existing : TreeOfTable[pid[p]] = Node(p)
    /\ TreeOfTable = [i \in DOMAIN TreeOfTable |-> TreeOfTable[i]]

LEMMA TreeAt == IInv => TreeIsTable
<1>. SUFFICES ASSUME IInv PROVE TreeIsTable
  OBVIOUS
<1>1. TreeOfTable = [i \in {pid[p] : p \in Existing} |-> Node(SlotOf(i))]
  BY DEF TreeOfTable, Node
<1>2. ASSUME NEW p \in Existing PROVE SlotOf(pid[p]) = p
  <2>1. \A q \in Existing : pid[q] = pid[p] => q = p
    BY DEF IInv, TreeInv, Unique, Existing
  <2>. QED
    BY <2>1 DEF SlotOf
<1>. QED
  BY <1>1, <1>2 DEF TreeIsTable

LEMMA NextTreeAt == IInv' => TreeIsTable'
  BY TreeAt, PTL

(* At most one slot is between alloc_process() and the RUNNABLE state. *)
LastPidUsed ==
    /\ (\A p \in Procs : state[p] # "USED") => LastPid = nextpid - 1
    /\ \A q \in Procs : state[q] = "USED" => LastPid = nextpid - 2

LEMMA LastPidAt == IInv => LastPidUsed
<1>. SUFFICES ASSUME IInv PROVE LastPidUsed
  OBVIOUS
<1>0. nextpid \in Nat
  BY DEF IInv, TypeOK
<1>1. ASSUME \A p \in Procs : state[p] # "USED" PROVE LastPid = nextpid - 1
  <2>1. {p \in Procs : state[p] = "USED"} = {}
    BY <1>1
  <2>. QED
    BY <1>0, <2>1, FS_EmptySet DEF LastPid
<1>2. ASSUME NEW q \in Procs, state[q] = "USED" PROVE LastPid = nextpid - 2
  <2>1. \A p \in Procs : state[p] = "USED" => locks = {p}
    BY DEF IInv, StateInv, PlaceInv
  <2>2. {p \in Procs : state[p] = "USED"} = {q}
    BY <1>2, <2>1
  <2>3. Cardinality({p \in Procs : state[p] = "USED"}) = 1
    BY <2>2, FS_Singleton
  <2>. QED
    BY <1>0, <2>3 DEF LastPid
<1>. QED
  BY <1>1, <1>2 DEF LastPidUsed

LEMMA NextLastPidAt == IInv' => LastPidUsed'
  BY LastPidAt, PTL

(* Facts about the processes in the tree. *)
LEMMA Kin ==
    ASSUME IInv, NEW p \in Existing
    PROVE  /\ p \in Procs /\ pid[p] \in 1..(nextpid - 1) /\ pid[p] # 0
           /\ parent[p] # 0 => parent[p] \in Existing /\ parent[p] # p /\ state[parent[p]] # "ZOMBIE"
           /\ \A q \in Existing : pid[q] = pid[p] => q = p
<1>1. KinInv(p) /\ parent[p] \in Threads /\ nextpid \in Nat
  BY DEF IInv, TypeOK, TreeInv, Existing
<1>2. p \in Procs /\ pid[p] \in 1..(nextpid - 1) /\ pid[p] # 0
  BY <1>1 DEF KinInv, Existing
<1>3. parent[p] # 0 => parent[p] \in Existing /\ parent[p] # p /\ state[parent[p]] # "ZOMBIE"
  BY <1>1, Numbers DEF KinInv, Existing, Alive
<1>4. \A q \in Existing : pid[q] = pid[p] => q = p
  BY DEF IInv, TreeInv, Unique, Existing
<1>. QED
  BY <1>2, <1>3, <1>4

-----------------------------------------------------------------------------
(* Steps that do not change the tree *)

SameTree ==
    /\ \A p \in Procs :
         /\ p \in Existing' <=> p \in Existing
         /\ p \in Existing => /\ pid'[p] = pid[p] /\ parent'[p] = parent[p] /\ xstate'[p] = xstate[p]
                              /\ state'[p] = "ZOMBIE" <=> state[p] = "ZOMBIE"
    /\ LastPid' = LastPid

LEMMA SameTreeStutters ==
    ASSUME IInv, IInv', SameTree
    PROVE  TreeOfTable' = TreeOfTable /\ LastPid' = LastPid
<1>1. Existing' = Existing
  BY DEF SameTree, Existing
<1>2. ASSUME NEW p \in Existing PROVE pid'[p] = pid[p] /\ Node(p)' = Node(p)
  <2>1. p \in Procs /\ (parent[p] # 0 => parent[p] \in Existing /\ parent[p] \in Procs)
    BY Kin DEF Existing
  <2>2. /\ pid'[p] = pid[p] /\ parent'[p] = parent[p] /\ xstate'[p] = xstate[p]
        /\ state'[p] = "ZOMBIE" <=> state[p] = "ZOMBIE"
        /\ parent[p] # 0 => pid'[parent[p]] = pid[parent[p]]
    BY <2>1 DEF SameTree
  <2>. QED
    BY <2>2 DEF Node
<1>3. DOMAIN TreeOfTable' = DOMAIN TreeOfTable
  BY <1>1, <1>2, TreeAt, NextTreeAt DEF TreeIsTable
<1>4. \A i \in DOMAIN TreeOfTable : TreeOfTable'[i] = TreeOfTable[i]
  BY <1>1, <1>2, TreeAt, NextTreeAt DEF TreeIsTable
<1>5. TreeOfTable' = TreeOfTable
  BY <1>3, <1>4, TreeAt, NextTreeAt DEF TreeIsTable
<1>. QED
  BY <1>5 DEF SameTree

(* the actions that alloc_process(), create_process(), exit_process() and   *)
(* wait_process() change the tree's data with                              *)
TreeAction ==
    \E t \in Threads : \/ AllocFound(t) \/ AllocNoMemory(t) \/ UserinitFinish(t) \/ CreateFinish(t)
                       \/ WaitReap(t) \/ ExitReparent(t) \/ ExitZombie(t)

Quiet ==
    /\ \A p \in Procs : /\ Created(p)' <=> Created(p)
                        /\ state'[p] = "USED" <=> state[p] = "USED"
                        /\ state'[p] = "ZOMBIE" <=> state[p] = "ZOMBIE"
    /\ UNCHANGED <<pid, parent, xstate, nextpid>>

(* No other action touches it. *)
LEMMA OthersQuiet ==
    ASSUME IInv, Next
    PROVE  Quiet \/ TreeAction
<1>0. cur \in Threads /\ state \in [Procs -> States] /\ slot \in [Threads -> 1..NPROC + 1]
  BY DEF IInv, TypeOK
<1>1. ASSUME NEW t \in Threads, AllocFound(t) PROVE Quiet \/ TreeAction
  BY <1>1 DEF TreeAction
<1>2. ASSUME NEW t \in Threads, AllocNoMemory(t) PROVE Quiet \/ TreeAction
  BY <1>2 DEF TreeAction
<1>3. ASSUME NEW t \in Threads, UserinitFinish(t) PROVE Quiet \/ TreeAction
  BY <1>3 DEF TreeAction
<1>4. ASSUME NEW t \in Threads, CreateFinish(t) PROVE Quiet \/ TreeAction
  BY <1>4 DEF TreeAction
<1>5. ASSUME NEW t \in Threads, WaitReap(t) PROVE Quiet \/ TreeAction
  BY <1>5 DEF TreeAction
<1>6. ASSUME NEW t \in Threads, WaitSleep(t) PROVE Quiet \/ TreeAction
  <2>1. \E s \in {"SLEEPING", "RUNNABLE"} : state' = [state EXCEPT ![t] = s]
    BY <1>6, WaitSleepEffect DEF WaitSleep, Sleep
  <2>2. UNCHANGED <<pid, parent, xstate, nextpid>> /\ t \in Procs /\ state[t] = "RUNNING"
    BY <1>6, WaitSleepEffect, Here DEF WaitSleep, Sleep, memVars
  <2>. QED
    BY <2>1, <2>2, <1>0 DEF Quiet, Created
<1>7. ASSUME NEW t \in Threads, TicksSleep(t) PROVE Quiet \/ TreeAction
  <2>1. \E s \in {"SLEEPING", "RUNNABLE"} : state' = [state EXCEPT ![t] = s]
    BY <1>7, TicksSleepEffect DEF TicksSleep, Sleep
  <2>2. UNCHANGED <<pid, parent, xstate, nextpid>> /\ t \in Procs /\ state[t] = "RUNNING"
    BY <1>7, TicksSleepEffect, Here DEF TicksSleep, Sleep, memVars
  <2>. QED
    BY <2>1, <2>2, <1>0 DEF Quiet, Created
<1>8. ASSUME NEW t \in Threads, ExitReparent(t) PROVE Quiet \/ TreeAction
  BY <1>8 DEF TreeAction
<1>9. ASSUME NEW t \in Threads, ExitWakeParent(t) PROVE Quiet \/ TreeAction
  <2>1. state' = state \/ \E ch : Wakeup(ch)
    BY <1>9 DEF ExitWakeParent
  <2>2. UNCHANGED <<pid, parent, xstate, nextpid>>
    BY <1>9 DEF ExitWakeParent, memVars
  <2>3. \A p \in Procs : state'[p] = state[p] \/ (state'[p] = "RUNNABLE" /\ state[p] = "SLEEPING")
    BY <2>1, <1>0, WakeupEffect
  <2>. QED
    BY <2>2, <2>3, <1>0 DEF Quiet, Created
<1>10. ASSUME NEW t \in Threads, ExitZombie(t) PROVE Quiet \/ TreeAction
  BY <1>10 DEF TreeAction
<1>11. ASSUME NEW t \in Threads, YieldAcquire(t) PROVE Quiet \/ TreeAction
  <2>1. \E s \in {"SLEEPING", "RUNNABLE"} : state' = [state EXCEPT ![t] = s]
    BY <1>11, YieldAcquireEffect DEF YieldAcquire
  <2>2. UNCHANGED <<pid, parent, xstate, nextpid>> /\ t \in Procs /\ state[t] = "RUNNING"
    BY <1>11, YieldAcquireEffect, Here DEF YieldAcquire, memVars
  <2>. QED
    BY <2>1, <2>2, <1>0 DEF Quiet, Created
<1>12. ASSUME NEW t \in Threads, TimerInterrupt(t) PROVE Quiet \/ TreeAction
  <2>1. state' = state \/ \E ch : Wakeup(ch)
    BY <1>12 DEF TimerInterrupt
  <2>2. UNCHANGED <<pid, parent, xstate, nextpid>>
    BY <1>12 DEF TimerInterrupt, memVars
  <2>3. \A p \in Procs : state'[p] = state[p] \/ (state'[p] = "RUNNABLE" /\ state[p] = "SLEEPING")
    BY <2>1, <1>0, WakeupEffect
  <2>. QED
    BY <2>2, <2>3, <1>0 DEF Quiet, Created
<1>. USE <1>0, Here, Numbers DEF At, Goto, cpuVars, irqVars, tableVars, memVars, callVars,
   schedVars, Quiet, Created
<1>13. ASSUME SchedulerStart PROVE Quiet \/ TreeAction
  BY <1>13 DEF SchedulerStart
<1>14. ASSUME IntrOn PROVE Quiet \/ TreeAction
  BY <1>14, IntrEffect DEF IntrOn
<1>15. ASSUME IntrOff PROVE Quiet \/ TreeAction
  BY <1>15, IntrEffect DEF IntrOff
<1>16. ASSUME SchedulerSkip PROVE Quiet \/ TreeAction
  BY <1>16, SchedulerSkipEffect DEF SchedulerSkip
<1>17. ASSUME SchedulerSwitch PROVE Quiet \/ TreeAction
  BY <1>17, SchedulerSwitchEffect DEF SchedulerSwitch
<1>18. ASSUME SchedulerBack PROVE Quiet \/ TreeAction
  BY <1>18, SchedulerBackEffect DEF SchedulerBack
<1>19. ASSUME SchedulerPassEnd PROVE Quiet \/ TreeAction
  BY <1>19 DEF SchedulerPassEnd
<1>20. ASSUME Wfi PROVE Quiet \/ TreeAction
  BY <1>20 DEF Wfi
<1>21. ASSUME NEW t \in Threads, AllocAcquire(t) PROVE Quiet \/ TreeAction
  BY <1>21, AllocAcquireEffect DEF AllocAcquire, Take
<1>22. ASSUME NEW t \in Threads, AllocNext(t) PROVE Quiet \/ TreeAction
  BY <1>22, AllocNextEffect DEF AllocNext
<1>23. ASSUME NEW t \in Threads, AllocFull(t) PROVE Quiet \/ TreeAction
  BY <1>23 DEF AllocFull
<1>24. ASSUME NEW t \in Threads, CreateReturn(t) PROVE Quiet \/ TreeAction
  BY <1>24 DEF CreateReturn
<1>25. ASSUME NEW t \in Threads, Forkret(t) PROVE Quiet \/ TreeAction
  BY <1>25, ForkretEffect DEF Forkret
<1>26. ASSUME NEW t \in Threads, Sched(t) PROVE Quiet \/ TreeAction
  BY <1>26, SchedEffect
<1>27. ASSUME NEW t \in Threads, WaitAcquire(t) PROVE Quiet \/ TreeAction
  BY <1>27, WaitAcquireEffect DEF WaitAcquire, Take
<1>28. ASSUME NEW t \in Threads, WaitNoChildren(t) PROVE Quiet \/ TreeAction
  BY <1>28, WaitNoChildrenEffect DEF WaitNoChildren, init_task
<1>29. ASSUME NEW t \in Threads, SleepReturn(t) PROVE Quiet \/ TreeAction
  BY <1>29, SleepReturnEffect DEF SleepReturn
<1>30. ASSUME NEW t \in Threads, SleepReacquire(t) PROVE Quiet \/ TreeAction
  BY <1>30, SleepReacquireEffect DEF SleepReacquire, Take
<1>31. ASSUME NEW t \in Threads, TicksAcquire(t) PROVE Quiet \/ TreeAction
  BY <1>31, TicksAcquireEffect DEF TicksAcquire, Take
<1>32. ASSUME NEW t \in Threads, TicksRelease(t) PROVE Quiet \/ TreeAction
  BY <1>32, TicksReleaseEffect DEF TicksRelease
<1>33. ASSUME NEW t \in Threads, ExitAcquire(t) PROVE Quiet \/ TreeAction
  BY <1>33, ExitAcquireEffect DEF ExitAcquire, Take
<1>34. ASSUME NEW t \in Threads, YieldReturn(t) PROVE Quiet \/ TreeAction
  BY <1>34, YieldReturnEffect DEF YieldReturn
<1>35. ASSUME NEW t \in Threads, TrapReturn(t) PROVE Quiet \/ TreeAction
  BY <1>35, TrapReturnEffect DEF TrapReturn
<1>36. ASSUME NEW t \in Threads, TakeInterrupt(t) PROVE Quiet \/ TreeAction
  BY <1>36, TakeInterruptEffect DEF TakeInterrupt
<1>37. ASSUME NEW t \in Procs, CallsOf(t) PROVE Quiet \/ TreeAction
  BY <1>37 DEF CallsOf, CallCreate, CallWait, CallYield, CallSleep, CallReturn, CallExit, Call
<1>38. ASSUME NEW t \in Procs, NEW b \in BOOLEAN, CallIntr(t, b) PROVE Quiet \/ TreeAction
  BY <1>38, CallIntrEffect DEF CallIntr
<1>39. ASSUME TimerExpire PROVE Quiet \/ TreeAction
  BY <1>39 DEF TimerExpire
<1>40. ASSUME NEW t \in Threads, PanicSpin(t) PROVE Quiet \/ TreeAction
  BY <1>40 DEF PanicSpin, vars
<1>41. ASSUME NEW t \in Threads, ForkretCall(t) PROVE Quiet \/ TreeAction
  BY <1>41, ForkretCallEffect
<1>. HIDE <1>0, Here, Numbers DEF At, Goto, cpuVars, irqVars, tableVars, memVars, callVars,
   schedVars, Quiet, Created
<1>. QED
  BY <1>1, <1>2, <1>3, <1>4, <1>5, <1>6, <1>7, <1>8, <1>9, <1>10, <1>11, <1>12, <1>13, <1>14,
     <1>15, <1>16, <1>17, <1>18, <1>19, <1>20, <1>21, <1>22, <1>23, <1>24, <1>25, <1>26, <1>27,
     <1>28, <1>29, <1>30, <1>31, <1>32, <1>33, <1>34, <1>35, <1>36, <1>37, <1>38, <1>39, <1>40, <1>41,
     NextCases

LEMMA QuietSame ==
    ASSUME Quiet
    PROVE  SameTree
<1>1. {p \in Procs : state'[p] = "USED"} = {p \in Procs : state[p] = "USED"}
  BY DEF Quiet
<1>2. LastPid' = LastPid
  BY <1>1 DEF Quiet, LastPid
<1>. QED
  BY <1>2 DEF Quiet, SameTree, Existing, Created

(* alloc_process() uses up a pid and a slot, but the process is not there yet. *)
LEMMA AllocSame ==
    ASSUME IInv, IInv', NEW t \in Threads, AllocFound(t) \/ AllocNoMemory(t)
    PROVE  SameTree
<1>1. /\ slot[t] \in Procs /\ state[slot[t]] = "UNUSED" /\ state' = [state EXCEPT ![slot[t]] = "USED"]
      /\ pid' = [pid EXCEPT ![slot[t]] = nextpid] /\ nextpid' = nextpid + 1
      /\ UNCHANGED <<parent, xstate>> /\ locks = {slot[t]}
  BY AllocSlotEffect DEF AllocFound, AllocNoMemory
<1>2. nextpid \in Nat /\ state \in [Procs -> States] /\ pid \in [Procs -> Nat]
  BY DEF IInv, TypeOK
<1>3. \A p \in Procs : state[p] # "USED"
  BY <1>1 DEF IInv, StateInv, PlaceInv
<1>4. LastPid' = LastPid
  BY <1>1, <1>2, <1>3, LastPidAt, NextLastPidAt DEF LastPidUsed
<1>. QED
  BY <1>1, <1>2, <1>4 DEF SameTree, Existing

-----------------------------------------------------------------------------
(* The five steps of the tree *)

(* The new tree is a function F if it has F's pids and its slots F's values. *)
LEMMA TreeIs ==
    ASSUME IInv', NEW F, F = [i \in DOMAIN F |-> F[i]],
           {pid'[p] : p \in Existing'} = DOMAIN F,
           \A p \in Existing' : Node(p)' = F[pid'[p]]
    PROVE  TreeOfTable' = F
<1>1. TreeIsTable'
  BY NextTreeAt
<1>2. DOMAIN TreeOfTable' = DOMAIN F
  BY <1>1 DEF TreeIsTable
<1>3. ASSUME NEW i \in DOMAIN F PROVE TreeOfTable'[i] = F[i]
  <2>1. PICK p \in Existing' : i = pid'[p]
    OBVIOUS
  <2>2. TreeOfTable'[pid'[p]] = Node(p)'
    BY <1>1, <2>1 DEF TreeIsTable
  <2>. QED
    BY <2>1, <2>2
<1>4. TreeOfTable' = [i \in DOMAIN TreeOfTable' |-> TreeOfTable'[i]]
  BY <1>1 DEF TreeIsTable
<1>. QED
  BY <1>2, <1>3, <1>4

(* userinit() and create_process() *)
LEMMA SpawnStep ==
    ASSUME TInv, IInv', NEW t \in Threads, UserinitFinish(t) \/ CreateFinish(t)
    PROVE  \E i \in Tree!Pids \cup {0} : Tree!Spawn(i)
<1>1. PICK q \in Procs :
        /\ q = slot[t] /\ cur = t /\ pc[t] \in {"u_fin", "c_fin"} /\ locks = {q}
        /\ state' = [state EXCEPT ![q] = "RUNNABLE"]
        /\ UNCHANGED <<pid, xstate, nextpid>>
  BY UserinitFinishEffect, CreateFinishEffect DEF TInv, UserinitFinish, CreateFinish, Start, memVars
<1>2. state[q] = "USED" /\ pid[q] = nextpid - 1 /\ nextpid \in Nat
  BY <1>1 DEF TInv, IInv, TypeOK, StateInv, TreeInv, PidInv
<1>3. \A p \in Procs : state[p] = "USED" => p = q
  BY <1>1 DEF TInv, IInv, StateInv, PlaceInv
<1>4. state \in [Procs -> States] /\ parent \in [Procs -> Threads] /\ xstate[q] = 0 /\ parent[q] = 0
  BY <1>2 DEF TInv, IInv, TypeOK, ExitInv, Created, TreeInv, KinInv
<1>5. Existing' = Existing \cup {q} /\ q \notin Existing
  BY <1>1, <1>2, <1>4 DEF Existing
<1>6. LastPid = nextpid - 2 /\ LastPid' = nextpid - 1
  BY <1>1, <1>2, <1>3, <1>4, LastPidAt, NextLastPidAt DEF TInv, LastPidUsed
<1>7. t # 0 => t \in Existing /\ t # q /\ state[t] = "RUNNING"
  BY <1>1, <1>2, Here DEF TInv, Existing
<1>8. parent' = [parent EXCEPT ![q] = t]
  <2>1. cproc = t /\ (pc[t] = "u_fin" => t = 0)
    BY <1>1, Here, Numbers DEF TInv, TaskLabels, TrapFree, OwnLabels, WaitLabels, TickLabels, TaskFree
  <2>2. t = 0 => parent' = parent
    BY <2>1 DEF UserinitFinish, CreateFinish
  <2>3. t # 0 => parent' = [parent EXCEPT ![q] = t]
    BY <1>1, <2>1 DEF UserinitFinish, CreateFinish, At
  <2>. QED
    BY <1>1, <1>4, <2>2, <2>3
<1>. DEFINE i == IF t = 0 THEN 0 ELSE pid[t]
            new == [parent |-> i, exited |-> FALSE, status |-> 0]
<1>9. Node(q)' = new
  BY <1>1, <1>4, <1>8, Numbers DEF Node
<1>10. ASSUME NEW p \in Existing PROVE Node(p)' = Node(p) /\ pid[p] # LastPid'
  <2>1. p \in Procs /\ p # q /\ parent[p] # q
    BY <1>1, <1>5, Kin, Numbers DEF TInv, Existing
  <2>2. pid[p] # pid[q]
    BY <1>2, <2>1 DEF TInv, IInv, TreeInv, Unique, Existing
  <2>. QED
    BY <1>1, <1>2, <1>4, <1>6, <1>8, <2>1, <2>2 DEF Node
<1>11. TreeIsTable
  BY TreeAt DEF TInv
<1>12. i = 0 \/ (i \in DOMAIN TreeOfTable /\ ~TreeOfTable[i].exited)
  <2>1. t # 0 => TreeOfTable[pid[t]] = Node(t) /\ pid[t] \in DOMAIN TreeOfTable
    BY <1>7, <1>11 DEF TreeIsTable
  <2>2. t # 0 => ~Node(t).exited
    BY <1>7 DEF Node
  <2>. QED
    BY <2>1, <2>2
<1>13. TreeOfTable' = [j \in DOMAIN TreeOfTable \cup {LastPid'} |-> IF j = LastPid' THEN new ELSE TreeOfTable[j]]
  <2>. DEFINE F == [j \in DOMAIN TreeOfTable \cup {LastPid'} |-> IF j = LastPid' THEN new ELSE TreeOfTable[j]]
  <2>1. {pid'[p] : p \in Existing'} = DOMAIN F
    BY <1>1, <1>2, <1>5, <1>6, <1>11 DEF TreeIsTable
  <2>2. \A p \in Existing' : Node(p)' = F[pid'[p]]
    BY <1>1, <1>2, <1>5, <1>6, <1>9, <1>10, <1>11 DEF TreeIsTable
  <2>3. F = [j \in DOMAIN F |-> F[j]]
    OBVIOUS
  <2>. HIDE DEF F
  <2>4. TreeOfTable' = F
    BY <2>1, <2>2, <2>3, TreeIs
  <2>. QED
    BY <2>4 DEF F
<1>14. LastPid' = LastPid + 1
  BY <1>2, <1>6
<1>. QED
  BY <1>12, <1>13, <1>14 DEF Tree!Spawn, Tree!Running, Tree!Pids

(* exit_process(): the children go to init *)
LEMMA DisownStep ==
    ASSUME TInv, IInv', NEW t \in Threads, ExitReparent(t)
    PROVE  pid[t] \in Tree!Pids /\ Tree!Disown(pid[t])
<1>1. /\ cur = t /\ pc[t] = "e_reparent"
      /\ parent' = [p \in Procs |-> IF parent[p] = t THEN initproc ELSE parent[p]]
      /\ UNCHANGED <<pid, xstate, nextpid>>
      /\ state' = state \/ \E ch : Wakeup(ch)
  BY DEF ExitReparent, At, memVars
<1>2. t \in Procs /\ state[t] = "RUNNING" /\ t \in Existing
  BY <1>1, Here DEF TInv, BootLabels, SchedFree, TrapFree, Existing
<1>3. state \in [Procs -> States]
  BY DEF TInv, IInv, TypeOK
<1>4. \A p \in Procs : state'[p] = state[p] \/ (state'[p] = "RUNNABLE" /\ state[p] = "SLEEPING")
  BY <1>1, <1>3, WakeupEffect DEF TInv
<1>5. Existing' = Existing /\ LastPid' = LastPid
  <2>1. {p \in Procs : state'[p] = "USED"} = {p \in Procs : state[p] = "USED"}
    BY <1>4
  <2>. QED
    BY <1>1, <1>4, <2>1 DEF Existing, LastPid
<1>6. initproc \in Existing /\ initproc # t /\ pid[initproc] = 1 /\ initproc # 0
  <2>1. savedpc[t] = "none"
    BY <1>1, <1>2 DEF TInv, IInv, IrqInv, TrapInv, TrapFree
  <2>2. initproc \in Threads /\ initproc # 0
    BY <1>2 DEF TInv, IInv, TypeOK, InitInv, Created
  <2>. QED
    BY <1>1, <2>1, <2>2, Numbers DEF TInv, IInv, InitInv, InitLabels, Where, TreeInv, Unique, Existing, Created
<1>7. pid[t] # 1
  BY <1>2, <1>6, Kin DEF TInv
<1>8. TreeIsTable
  BY TreeAt DEF TInv
<1>9. pid[t] \in DOMAIN TreeOfTable /\ ~TreeOfTable[pid[t]].exited
  <2>1. TreeOfTable[pid[t]] = Node(t) /\ pid[t] \in DOMAIN TreeOfTable
    BY <1>2, <1>8 DEF TreeIsTable
  <2>2. ~Node(t).exited
    BY <1>2 DEF Node
  <2>. QED
    BY <2>1, <2>2
<1>. DEFINE F == [j \in DOMAIN TreeOfTable |->
                    IF TreeOfTable[j].parent = pid[t] THEN [TreeOfTable[j] EXCEPT !.parent = 1]
                    ELSE TreeOfTable[j]]
<1>10. ASSUME NEW p \in Existing
       PROVE  Node(p)' = IF Node(p).parent = pid[t] THEN [Node(p) EXCEPT !.parent = 1] ELSE Node(p)
  <2>1. p \in Procs /\ (parent[p] # 0 => parent[p] \in Existing) /\ 0 \notin Procs
    BY Kin, Numbers DEF TInv
  <2>2. Node(p).parent = pid[t] <=> parent[p] = t
    BY <1>2, <2>1, Kin DEF TInv, Node
  <2>3. Node(p)' = [parent |-> IF parent'[p] = 0 THEN 0 ELSE pid[parent'[p]],
                    exited |-> state[p] = "ZOMBIE", status |-> xstate[p]]
    BY <1>1, <1>4, <2>1 DEF Node
  <2>4. CASE parent[p] = t
    BY <1>1, <1>6, <2>1, <2>2, <2>3, <2>4 DEF Node
  <2>5. CASE parent[p] # t
    BY <1>1, <2>1, <2>2, <2>3, <2>5 DEF Node
  <2>. QED
    BY <2>4, <2>5
<1>11. {pid'[p] : p \in Existing'} = DOMAIN F
  BY <1>1, <1>5, <1>8 DEF TreeIsTable
<1>12. \A p \in Existing' : Node(p)' = F[pid'[p]]
  BY <1>1, <1>5, <1>8, <1>10 DEF TreeIsTable
<1>13. F = [j \in DOMAIN F |-> F[j]]
  OBVIOUS
<1>. HIDE DEF F
<1>14. TreeOfTable' = F
  BY <1>11, <1>12, <1>13, TreeIs
<1>. QED
  BY <1>5, <1>7, <1>9, <1>14 DEF F, Tree!Disown, Tree!Running, Tree!Pids, Tree!InitPid

(* exit_process(): the process becomes a zombie with its exit status *)
LEMMA ExitingStep ==
    ASSUME TInv, IInv', NEW t \in Threads, ExitZombie(t)
    PROVE  pid[t] \in Tree!Pids /\ \E st \in Statuses : Tree!Exit(pid[t], st)
<1>1. /\ cur = t /\ pc[t] = "e_zombie"
      /\ xstate' = [xstate EXCEPT ![t] = status[t]] /\ state' = [state EXCEPT ![t] = "ZOMBIE"]
      /\ UNCHANGED <<pid, parent, nextpid>>
  BY DEF ExitZombie, At, memVars
<1>2. t \in Procs /\ state[t] = "RUNNING" /\ t \in Existing
  BY <1>1, Here DEF TInv, BootLabels, SchedFree, TrapFree, Existing
<1>3. state \in [Procs -> States] /\ xstate \in [Procs -> Int]
  BY DEF TInv, IInv, TypeOK
<1>4. Existing' = Existing /\ LastPid' = LastPid
  <2>1. {p \in Procs : state'[p] = "USED"} = {p \in Procs : state[p] = "USED"}
    BY <1>1, <1>2, <1>3
  <2>. QED
    BY <1>1, <1>2, <1>3, <2>1 DEF Existing, LastPid
<1>5. savedpc[t] = "none"
  BY <1>1, <1>2 DEF TInv, IInv, IrqInv, TrapInv, TrapFree
<1>6. initproc \in Existing /\ initproc # t /\ pid[initproc] = 1
  <2>1. initproc \in Threads /\ initproc # 0
    BY <1>2 DEF TInv, IInv, TypeOK, InitInv, Created
  <2>. QED
    BY <1>1, <1>5, <2>1, Numbers DEF TInv, IInv, InitInv, InitLabels, Where, TreeInv, Unique, Existing, Created
<1>7. pid[t] # 1 /\ status[t] \in Statuses
  BY <1>1, <1>2, <1>5, <1>6, Kin DEF TInv, ExitInv, ExitLabels, Where
<1>8. TreeIsTable
  BY TreeAt DEF TInv
<1>9. /\ pid[t] \in DOMAIN TreeOfTable /\ TreeOfTable[pid[t]] = Node(t)
      /\ ~TreeOfTable[pid[t]].exited
  <2>1. TreeOfTable[pid[t]] = Node(t) /\ pid[t] \in DOMAIN TreeOfTable
    BY <1>2, <1>8 DEF TreeIsTable
  <2>2. ~Node(t).exited
    BY <1>2 DEF Node
  <2>. QED
    BY <2>1, <2>2
<1>10. \A p \in Procs : parent[p] # t
  BY <1>1, <1>2 DEF TInv, IInv, TreeInv, KinInv, Children
<1>11. \A j \in DOMAIN TreeOfTable : TreeOfTable[j].parent # pid[t]
  <2>1. ASSUME NEW p \in Existing PROVE Node(p).parent # pid[t]
    BY <1>2, <1>10, Kin DEF TInv, Node
  <2>. QED
    BY <1>8, <2>1 DEF TreeIsTable
<1>. DEFINE F == [TreeOfTable EXCEPT ![pid[t]].exited = TRUE, ![pid[t]].status = status[t]]
<1>12. {pid'[p] : p \in Existing'} = DOMAIN F
  BY <1>1, <1>4, <1>8 DEF TreeIsTable
<1>13. ASSUME NEW p \in Existing' PROVE Node(p)' = F[pid'[p]]
  <2>1. CASE p = t
    <3>. DEFINE n == [parent |-> Node(t).parent, exited |-> TRUE, status |-> status[t]]
    <3>1. Node(t)' = n
      <4>1. state'[t] = "ZOMBIE" /\ xstate'[t] = status[t]
        BY <1>1, <1>2, <1>3
      <4>. QED
        BY <1>1, <4>1 DEF Node
    <3>2. F[pid[t]] = n
      BY <1>9 DEF Node
    <3>. QED
      BY <1>1, <2>1, <3>1, <3>2
  <2>2. CASE p # t
    <3>1. p \in Existing /\ p \in Procs /\ pid[p] # pid[t] /\ TreeOfTable[pid[p]] = Node(p)
      BY <1>2, <1>4, <1>8, <2>2, Kin DEF TInv, TreeIsTable
    <3>2. Node(p)' = Node(p)
      BY <1>1, <1>2, <1>3, <2>2, <3>1 DEF Node
    <3>3. pid[p] \in DOMAIN TreeOfTable
      BY <1>8, <3>1 DEF TreeIsTable
    <3>. QED
      BY <1>1, <3>1, <3>2, <3>3
  <2>. QED
    BY <2>1, <2>2
<1>14. F = [j \in DOMAIN F |-> F[j]]
  OBVIOUS
<1>. HIDE DEF F
<1>15. TreeOfTable' = F
  BY <1>12, <1>13, <1>14, TreeIs
<1>. QED
  BY <1>4, <1>7, <1>9, <1>11, <1>15 DEF F, Tree!Exit, Tree!Running, Tree!Pids, Tree!InitPid

(* wait_process() reaps a zombie child *)
LEMMA ReapStep ==
    ASSUME TInv, IInv', NEW t \in Threads, WaitReap(t)
    PROVE  pid[t] \in Tree!Pids /\ \E j \in Tree!Pids : Tree!Reap(pid[t], j)
<1>1. t \in Procs /\ cur = t /\ pc[t] = "w_scan" /\ nextpid' = nextpid
  BY WaitReapEffect DEF TInv, WaitReap
<1>2. PICK np \in Procs :
        /\ parent[np] = t /\ state[np] = "ZOMBIE"
        /\ pid' = [pid EXCEPT ![np] = 0] /\ parent' = [parent EXCEPT ![np] = 0]
        /\ xstate' = [xstate EXCEPT ![np] = 0] /\ state' = [state EXCEPT ![np] = "UNUSED"]
  BY DEF WaitReap, FreeProcess, ClearSlot, Zombies, Children
<1>3. state[t] = "RUNNING" /\ t \in Existing
  BY <1>1, Here, Numbers DEF TInv, Existing
<1>4. /\ state \in [Procs -> States] /\ xstate \in [Procs -> Int]
      /\ pid \in [Procs -> Nat] /\ parent \in [Procs -> Threads]
  BY DEF TInv, IInv, TypeOK
<1>5. Existing' = Existing \ {np} /\ np \in Existing /\ LastPid' = LastPid
  <2>1. {p \in Procs : state'[p] = "USED"} = {p \in Procs : state[p] = "USED"}
    BY <1>2, <1>4
  <2>. QED
    BY <1>1, <1>2, <1>4, <2>1 DEF Existing, LastPid
<1>6. TreeIsTable
  BY TreeAt DEF TInv
<1>7. /\ pid[t] \in DOMAIN TreeOfTable /\ ~TreeOfTable[pid[t]].exited
      /\ pid[np] \in DOMAIN TreeOfTable /\ TreeOfTable[pid[np]].exited
      /\ TreeOfTable[pid[np]].parent = pid[t]
  <2>1. /\ TreeOfTable[pid[t]] = Node(t) /\ pid[t] \in DOMAIN TreeOfTable
        /\ TreeOfTable[pid[np]] = Node(np) /\ pid[np] \in DOMAIN TreeOfTable
    BY <1>3, <1>5, <1>6 DEF TreeIsTable
  <2>2. ~Node(t).exited /\ Node(np).exited /\ Node(np).parent = pid[t]
    BY <1>1, <1>2, <1>3, Numbers DEF Node
  <2>. QED
    BY <2>1, <2>2
<1>. DEFINE F == [k \in DOMAIN TreeOfTable \ {pid[np]} |-> TreeOfTable[k]]
<1>8. ASSUME NEW p \in Existing'
      PROVE  pid'[p] = pid[p] /\ pid[p] # pid[np] /\ pid[p] \in DOMAIN F /\ Node(p)' = F[pid'[p]]
  <2>1. p \in Existing /\ p \in Procs /\ p # np
    BY <1>5 DEF Existing
  <2>2. pid[p] # pid[np] /\ (parent[p] # 0 => parent[p] # np /\ parent[p] \in Procs)
    BY <1>2, <1>5, <2>1, Kin DEF TInv
  <2>3. pid'[p] = pid[p] /\ Node(p)' = Node(p)
    BY <1>2, <1>4, <2>1, <2>2 DEF Node
  <2>4. TreeOfTable[pid[p]] = Node(p) /\ pid[p] \in DOMAIN TreeOfTable
    BY <1>6, <2>1 DEF TreeIsTable
  <2>. QED
    BY <2>2, <2>3, <2>4
<1>9. {pid'[p] : p \in Existing'} = DOMAIN F
  <2>1. ASSUME NEW k \in DOMAIN F PROVE \E p \in Existing' : k = pid'[p]
    <3>1. PICK p \in Existing : k = pid[p]
      BY <1>6, <2>1 DEF TreeIsTable
    <3>. QED
      BY <1>5, <1>8, <3>1
  <2>2. \A p \in Existing' : pid'[p] \in DOMAIN F
    BY <1>8
  <2>. HIDE DEF F
  <2>. QED
    BY <2>1, <2>2
<1>10. F = [j \in DOMAIN F |-> F[j]]
  OBVIOUS
<1>. HIDE DEF F
<1>11. TreeOfTable' = F
  BY <1>8, <1>9, <1>10, TreeIs
<1>. QED
  BY <1>5, <1>7, <1>11 DEF F, Tree!Reap, Tree!Running, Tree!Pids

-----------------------------------------------------------------------------
(* The process table, read through pids, implements the process tree: pids *)
(* are fresh and given out in order, children are handed to init before    *)
(* their parent is gone, an exit status is kept until the parent itself    *)
(* collects it, and nothing is freed that was not collected.               *)
THEOREM Implementation == Spec => ImplementsProcTree
<1>1. Init => Tree!Init
  <2>. SUFFICES ASSUME Init PROVE Tree!Init
    OBVIOUS
  <2>1. \A p \in Procs : state[p] = "UNUSED"
    BY DEF Init
  <2>2. Existing = {} /\ {p \in Procs : state[p] = "USED"} = {} /\ nextpid = 1
    BY <2>1 DEF Existing, Init
  <2>3. TreeOfTable = [i \in {} |-> [parent |-> 0, exited |-> FALSE, status |-> 0]]
    BY <2>2 DEF TreeOfTable
  <2>4. LastPid = 0
    BY <2>2, FS_EmptySet DEF LastPid
  <2>. QED
    BY <2>3, <2>4 DEF Tree!Init
<1>2. TInv /\ [Next]_vars => [Tree!Next]_(Tree!vars)
  <2>. SUFFICES ASSUME TInv, [Next]_vars PROVE [Tree!Next]_(Tree!vars)
    OBVIOUS
  <2>1. IInv /\ IInv'
    BY NextIInv DEF TInv
  <2>2. ASSUME Next, SameTree PROVE UNCHANGED Tree!vars
    BY <2>1, <2>2, SameTreeStutters DEF Tree!vars
  <2>3. ASSUME NEW t \in Threads, AllocFound(t) \/ AllocNoMemory(t) PROVE SameTree
    BY <2>1, <2>3, AllocSame
  <2>4. ASSUME NEW t \in Threads, UserinitFinish(t) \/ CreateFinish(t) PROVE Tree!Next
    BY <2>1, <2>4, SpawnStep DEF Tree!Next
  <2>5. ASSUME NEW t \in Threads, WaitReap(t) PROVE Tree!Next
    BY <2>1, <2>5, ReapStep DEF Tree!Next
  <2>6. ASSUME NEW t \in Threads, ExitReparent(t) PROVE Tree!Next
    BY <2>1, <2>6, DisownStep DEF Tree!Next
  <2>7. ASSUME NEW t \in Threads, ExitZombie(t) PROVE Tree!Next
    BY <2>1, <2>7, ExitingStep DEF Tree!Next
  <2>8. ASSUME Next PROVE [Tree!Next]_(Tree!vars)
    BY <2>1, <2>2, <2>3, <2>4, <2>5, <2>6, <2>7, <2>8, OthersQuiet, QuietSame DEF TreeAction
  <2>9. ASSUME UNCHANGED vars PROVE UNCHANGED Tree!vars
    <3>1. UNCHANGED <<state, pid, parent, xstate, nextpid>>
      BY <2>9 DEF vars, tableVars, memVars
    <3>2. Existing' = Existing
      BY <3>1 DEF Existing
    <3>. QED
      BY <3>1, <3>2 DEF Tree!vars, TreeOfTable, LastPid, SlotOf
  <2>. QED
    BY <2>8, <2>9
<1>. QED
  BY <1>1, <1>2, TreeInvariance, PTL DEF Spec, ImplementsProcTree, Tree!Spec
=============================================================================

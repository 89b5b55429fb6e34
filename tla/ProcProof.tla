----------------------------- MODULE ProcProof ------------------------------
(***************************************************************************)
(* The invariants of Proc hold in every reachable state.  ProcInv states   *)
(* the inductive invariant and shows that a step keeps its parts about     *)
(* control, locks, types and interrupts; this module shows the same of the *)
(* process table, the sleepers and the pages, and draws the conclusions.   *)
(***************************************************************************)
EXTENDS ProcInv

(* The states of the processes and the places where they have stopped. *)
LEMMA StateStep ==
    ASSUME IInv, Next
    PROVE  StateInv'
<1>0. /\ StateInv /\ cur \in Threads /\ pc \in [Threads -> Labels] /\ state \in [Procs -> States]
     /\ slot \in [Threads -> 1..NPROC + 1]
  BY DEF IInv, TypeOK
<1>1. ASSUME SchedulerSwitch PROVE StateInv'
  <2>1. /\ cur = 0 /\ cur' = slot[0] /\ slot[0] \in Procs /\ pc[0] = "s_loop" /\ pc' = [pc EXCEPT ![0] = "s_back"]
        /\ state[slot[0]] = "RUNNABLE" /\ state' = [state EXCEPT ![slot[0]] = "RUNNING"] /\ locks = {}
    BY <1>1, SchedulerSwitchEffect, <1>0 DEF SchedulerSwitch, Goto
  <2>2. pc[slot[0]] \in {"forkret", "y_back", "sl_back"} /\ slot[0] # 0 /\ slot[0] \in Threads
    BY <2>1, WaitPlace, Numbers
  <2>4. ASSUME NEW p \in Procs PROVE PlaceInv(p)'
    <3>1. PlaceInv(p)
      BY <1>0 DEF StateInv
    <3>. QED
      BY <2>1, <3>1, <2>2, <1>0, Numbers DEF PlaceInv, TaskFree
  <2>5. pc'[cur'] \notin {"u_fin", "c_fin"}
    BY <2>1, <2>2, Numbers, <1>0 DEF TaskFree
  <2>. QED
    BY <2>4, <2>5 DEF StateInv
<1>2. ASSUME NEW t \in Threads, UserinitFinish(t) PROVE StateInv'
  <2>1. /\ cur = t /\ cur' = t /\ pc[t] = "u_fin" /\ pc' = [pc EXCEPT ![t] = "a_scan"]
        /\ slot[t] \in Procs /\ locks = {slot[t]} /\ state' = [state EXCEPT ![slot[t]] = "RUNNABLE"]
        /\ state[slot[t]] = "USED"
    BY <1>2, UserinitFinishEffect, <1>0 DEF UserinitFinish, Start, Goto, StateInv
  <2>4. ASSUME NEW p \in Procs PROVE PlaceInv(p)'
    <3>1. PlaceInv(p)
      BY <1>0 DEF StateInv
    <3>. QED
      BY <2>1, <3>1, <1>0, Numbers DEF PlaceInv, TaskFree
  <2>5. pc'[cur'] \notin {"u_fin", "c_fin"}
    BY <2>1, <1>0 DEF TaskFree
  <2>. QED
    BY <2>4, <2>5 DEF StateInv
<1>3. ASSUME NEW t \in Threads, CreateFinish(t) PROVE StateInv'
  <2>1. /\ cur = t /\ cur' = t /\ pc[t] = "c_fin" /\ pc' = [pc EXCEPT ![t] = "c_ret"]
        /\ slot[t] \in Procs /\ locks = {slot[t]} /\ state' = [state EXCEPT ![slot[t]] = "RUNNABLE"]
        /\ state[slot[t]] = "USED"
    BY <1>3, CreateFinishEffect, <1>0 DEF CreateFinish, Start, Goto, StateInv
  <2>4. ASSUME NEW p \in Procs PROVE PlaceInv(p)'
    <3>1. PlaceInv(p)
      BY <1>0 DEF StateInv
    <3>. QED
      BY <2>1, <3>1, <1>0, Numbers DEF PlaceInv, TaskFree
  <2>5. pc'[cur'] \notin {"u_fin", "c_fin"}
    BY <2>1, <1>0 DEF TaskFree
  <2>. QED
    BY <2>4, <2>5 DEF StateInv
<1>4. ASSUME NEW t \in Threads, WaitReap(t) PROVE StateInv'
  <2>1. PICK np \in Zombies(t) : FreeProcess(np)
    BY <1>4 DEF WaitReap
  <2>2. /\ cur = t /\ cur' = t /\ pc[t] = "w_scan" /\ pc' = [pc EXCEPT ![t] = home[t]] /\ home[t] \in {"w_acq", "run"}
        /\ np \in Procs /\ state[np] = "ZOMBIE" /\ state' = [state EXCEPT ![np] = "UNUSED"]
        /\ locks = {WaitLock}
    BY <1>4, <2>1, WaitReapEffect, Here, <1>0 DEF WaitReap, Goto, FreeProcess, ClearSlot,
       Zombies, Children
  <2>4. ASSUME NEW p \in Procs PROVE PlaceInv(p)'
    <3>1. PlaceInv(p)
      BY <1>0 DEF StateInv
    <3>. QED
      BY <2>2, <3>1, <1>0, WaitPlace, Numbers DEF PlaceInv, TaskFree
  <2>5. pc'[cur'] \notin {"u_fin", "c_fin"}
    BY <2>2, <1>0 DEF TaskFree
  <2>. QED
    BY <2>4, <2>5 DEF StateInv
<1>5. ASSUME NEW t \in Threads, ExitReparent(t) PROVE StateInv'
  <2>1. /\ cur = t /\ cur' = t /\ pc[t] = "e_reparent" /\ locks' = locks /\ slot' = slot
        /\ pc' = [pc EXCEPT ![t] = "e_wake"]
    BY <1>5, <1>0 DEF ExitReparent, At, Goto, cpuVars, callVars
  <2>2. \/ state' = state
        \/ \E ch : Wakeup(ch)
    BY <1>5 DEF ExitReparent
  <2>3. \A p \in Procs : \/ state'[p] = state[p]
                         \/ state'[p] = "RUNNABLE" /\ state[p] = "SLEEPING" /\ p # cproc
    BY <2>2, WakeupEffect
  <2>4. ASSUME NEW p \in Procs PROVE PlaceInv(p)'
    <3>1. PlaceInv(p)
      BY <1>0 DEF StateInv
    <3>. QED
      BY <2>1, <3>1, <2>3, <1>0, WaitPlace, Here, Numbers DEF PlaceInv, TaskFree
  <2>5. pc'[cur'] \notin {"u_fin", "c_fin"}
    BY <2>1, <1>0 DEF TaskFree
  <2>. QED
    BY <2>4, <2>5 DEF StateInv
<1>6. ASSUME NEW t \in Threads, ExitWakeParent(t) PROVE StateInv'
  <2>1. /\ cur = t /\ cur' = t /\ pc[t] = "e_wake" /\ locks' = locks /\ slot' = slot
        /\ pc' = [pc EXCEPT ![t] = "e_zombie"]
    BY <1>6, <1>0 DEF ExitWakeParent, At, Goto, cpuVars, callVars
  <2>2. \/ state' = state
        \/ \E ch : Wakeup(ch)
    BY <1>6 DEF ExitWakeParent
  <2>3. \A p \in Procs : \/ state'[p] = state[p]
                         \/ state'[p] = "RUNNABLE" /\ state[p] = "SLEEPING" /\ p # cproc
    BY <2>2, WakeupEffect
  <2>4. ASSUME NEW p \in Procs PROVE PlaceInv(p)'
    <3>1. PlaceInv(p)
      BY <1>0 DEF StateInv
    <3>. QED
      BY <2>1, <3>1, <2>3, <1>0, WaitPlace, Here, Numbers DEF PlaceInv, TaskFree
  <2>5. pc'[cur'] \notin {"u_fin", "c_fin"}
    BY <2>1, <1>0 DEF TaskFree
  <2>. QED
    BY <2>4, <2>5 DEF StateInv
<1>7. ASSUME NEW t \in Threads, TimerInterrupt(t) PROVE StateInv'
  <2>1. /\ cur = t /\ cur' = t /\ pc[t] = "t_tick" /\ locks' = locks /\ slot' = slot
        /\ pc' = [pc EXCEPT ![t] = IF cproc # 0 THEN "y_acq" ELSE "t_ret"]
    BY <1>7, TimerInterruptEffect, <1>0 DEF TimerInterrupt, At, Goto, cpuVars, callVars
  <2>2. \/ state' = state
        \/ \E ch : Wakeup(ch)
    BY <1>7 DEF TimerInterrupt
  <2>3. \A p \in Procs : \/ state'[p] = state[p]
                         \/ state'[p] = "RUNNABLE" /\ state[p] = "SLEEPING" /\ p # cproc
    BY <2>2, WakeupEffect
  <2>4. ASSUME NEW p \in Procs PROVE PlaceInv(p)'
    <3>1. PlaceInv(p)
      BY <1>0 DEF StateInv
    <3>. QED
      BY <2>1, <3>1, <2>3, <1>0, WaitPlace, Here, Numbers DEF PlaceInv, TaskFree
  <2>5. pc'[cur'] \notin {"u_fin", "c_fin"}
    BY <2>1, <1>0 DEF TaskFree
  <2>. QED
    BY <2>4, <2>5 DEF StateInv
<1>8. ASSUME NEW t \in Threads, TrapReturn(t) PROVE StateInv'
  <2>1. /\ cur = t /\ cur' = t /\ locks = {} /\ locks' = {} /\ state' = state /\ pc[t] = "t_ret"
        /\ pc' = [pc EXCEPT ![t] = savedpc[t]]
        /\ savedpc[t] \notin {"sl_sched", "e_sched", "y_sched", "u_fin", "c_fin"}
    BY <1>8, TrapReturnEffect, <1>0 DEF TrapReturn, tableVars, TaskFree
  <2>4. ASSUME NEW p \in Procs PROVE PlaceInv(p)'
    <3>1. PlaceInv(p)
      BY <1>0 DEF StateInv
    <3>. QED
      BY <2>1, <3>1, <1>0, Here DEF PlaceInv, TaskFree
  <2>5. pc'[cur'] \notin {"u_fin", "c_fin"}
    BY <2>1, <1>0 DEF TaskFree
  <2>. QED
    BY <2>4, <2>5 DEF StateInv
<1>9. ASSUME NEW t \in Threads, TakeInterrupt(t) PROVE StateInv'
  <2>1. /\ cur = t /\ cur' = t /\ locks = {} /\ locks' = {} /\ state' = state
        /\ pc' = [pc EXCEPT ![t] = "t_tick"] /\ pc[t] \notin {"sl_sched", "e_sched", "y_sched"}
    BY <1>9, TakeInterruptEffect, <1>0 DEF TakeInterrupt, Goto, tableVars, TaskFree
  <2>4. ASSUME NEW p \in Procs PROVE PlaceInv(p)'
    <3>1. PlaceInv(p)
      BY <1>0 DEF StateInv
    <3>. QED
      BY <2>1, <3>1, <1>0, Here DEF PlaceInv, TaskFree
  <2>5. pc'[cur'] \notin {"u_fin", "c_fin"}
    BY <2>1, <1>0 DEF TaskFree
  <2>. QED
    BY <2>4, <2>5 DEF StateInv
<1>. USE <1>0, Here, Numbers DEF At, Goto, cpuVars, irqVars, tableVars, memVars, callVars,
   schedVars, StateInv, PlaceInv, TaskFree
<1>10. ASSUME SchedulerStart PROVE StateInv'
  BY <1>10 DEF SchedulerStart
<1>11. ASSUME IntrOn PROVE StateInv'
  BY <1>11, IntrEffect DEF IntrOn
<1>12. ASSUME IntrOff PROVE StateInv'
  BY <1>12, IntrEffect DEF IntrOff
<1>13. ASSUME SchedulerSkip PROVE StateInv'
  BY <1>13, SchedulerSkipEffect DEF SchedulerSkip
<1>14. ASSUME SchedulerBack PROVE StateInv'
  BY <1>14, SchedulerBackEffect DEF SchedulerBack
<1>15. ASSUME SchedulerPassEnd PROVE StateInv'
  BY <1>15 DEF SchedulerPassEnd
<1>16. ASSUME Wfi PROVE StateInv'
  BY <1>16 DEF Wfi
<1>17. ASSUME NEW t \in Threads, AllocAcquire(t) PROVE StateInv'
  BY <1>17, AllocAcquireEffect DEF AllocAcquire, Take
<1>18. ASSUME NEW t \in Threads, AllocNext(t) PROVE StateInv'
  BY <1>18, AllocNextEffect DEF AllocNext
<1>19. ASSUME NEW t \in Threads, AllocFound(t) PROVE StateInv'
  BY <1>19, AllocFoundEffect, AllocSlotEffect DEF AllocFound
<1>20. ASSUME NEW t \in Threads, AllocNoMemory(t) PROVE StateInv'
  BY <1>20, AllocSlotEffect DEF AllocNoMemory
<1>21. ASSUME NEW t \in Threads, AllocFull(t) PROVE StateInv'
  BY <1>21 DEF AllocFull
<1>22. ASSUME NEW t \in Threads, CreateReturn(t) PROVE StateInv'
  BY <1>22 DEF CreateReturn
<1>23. ASSUME NEW t \in Threads, Forkret(t) PROVE StateInv'
  BY <1>23, ForkretEffect DEF Forkret
<1>24. ASSUME NEW t \in Threads, Sched(t) PROVE StateInv'
  BY <1>24, SchedEffect
<1>25. ASSUME NEW t \in Threads, WaitAcquire(t) PROVE StateInv'
  BY <1>25, WaitAcquireEffect DEF WaitAcquire, Take
<1>26. ASSUME NEW t \in Threads, WaitNoChildren(t) PROVE StateInv'
  BY <1>26, WaitNoChildrenEffect DEF WaitNoChildren, init_task
<1>27. ASSUME NEW t \in Threads, WaitSleep(t) PROVE StateInv'
  BY <1>27, WaitSleepEffect DEF WaitSleep, Sleep
<1>28. ASSUME NEW t \in Threads, SleepReturn(t) PROVE StateInv'
  BY <1>28, SleepReturnEffect DEF SleepReturn
<1>29. ASSUME NEW t \in Threads, SleepReacquire(t) PROVE StateInv'
  BY <1>29, SleepReacquireEffect DEF SleepReacquire, Take
<1>30. ASSUME NEW t \in Threads, TicksAcquire(t) PROVE StateInv'
  BY <1>30, TicksAcquireEffect DEF TicksAcquire, Take
<1>31. ASSUME NEW t \in Threads, TicksSleep(t) PROVE StateInv'
  BY <1>31, TicksSleepEffect DEF TicksSleep, Sleep
<1>32. ASSUME NEW t \in Threads, TicksRelease(t) PROVE StateInv'
  BY <1>32, TicksReleaseEffect DEF TicksRelease
<1>33. ASSUME NEW t \in Threads, ExitAcquire(t) PROVE StateInv'
  BY <1>33, ExitAcquireEffect DEF ExitAcquire, Take
<1>34. ASSUME NEW t \in Threads, ExitZombie(t) PROVE StateInv'
  BY <1>34, ExitZombieEffect DEF ExitZombie
<1>35. ASSUME NEW t \in Threads, YieldAcquire(t) PROVE StateInv'
  BY <1>35, YieldAcquireEffect DEF YieldAcquire
<1>36. ASSUME NEW t \in Threads, YieldReturn(t) PROVE StateInv'
  BY <1>36, YieldReturnEffect DEF YieldReturn
<1>37. ASSUME NEW t \in Procs, CallsOf(t) PROVE StateInv'
  BY <1>37 DEF CallsOf, CallCreate, CallWait, CallYield, CallSleep, CallReturn, CallExit, Call
<1>38. ASSUME NEW t \in Procs, NEW b \in BOOLEAN, CallIntr(t, b) PROVE StateInv'
  BY <1>38, CallIntrEffect DEF CallIntr
<1>39. ASSUME TimerExpire PROVE StateInv'
  BY <1>39 DEF TimerExpire
<1>40. ASSUME NEW t \in Threads, PanicSpin(t) PROVE StateInv'
  BY <1>40 DEF PanicSpin, vars
<1>41. ASSUME NEW t \in Threads, ForkretCall(t) PROVE StateInv'
  BY <1>41, ForkretCallEffect
<1>. HIDE <1>0, Here, Numbers DEF At, Goto, cpuVars, irqVars, tableVars, memVars, callVars,
   schedVars, StateInv, PlaceInv, TaskFree
<1>. QED
  BY <1>1, <1>2, <1>3, <1>4, <1>5, <1>6, <1>7, <1>8, <1>9, <1>10, <1>11, <1>12, <1>13, <1>14,
     <1>15, <1>16, <1>17, <1>18, <1>19, <1>20, <1>21, <1>22, <1>23, <1>24, <1>25, <1>26, <1>27,
     <1>28, <1>29, <1>30, <1>31, <1>32, <1>33, <1>34, <1>35, <1>36, <1>37, <1>38, <1>39, <1>40, <1>41,
     NextCases

(* init lives for ever and does nothing but wait and yield; entry points. *)
LEMMA InitStep ==
    ASSUME IInv, Next
    PROVE  InitInv'
<1>0. /\ InitInv /\ cur \in Threads /\ pc \in [Threads -> Labels] /\ state \in [Procs -> States]
     /\ slot \in [Threads -> 1..NPROC + 1] /\ savedpc \in [Threads -> Labels] /\ initproc \in Threads
     /\ lk \in [Threads -> {WaitLock, TicksLock}] /\ home \in [Threads -> Labels]
     /\ \A t \in Threads : TrapInv(t)
  BY DEF IInv, TypeOK, IrqInv
<1>1. ASSUME NEW t \in Threads, AllocFound(t) PROVE InitInv'
  <2>1. AllocFound(t) /\ AllocSlot(t)
    BY <1>1, AllocFoundEffect
  <2>2. /\ cur = t /\ cur' = t /\ pc[t] = "a_test" /\ slot[t] \in Procs /\ slot[t] # t /\ slot[t] \in Threads
        /\ state[slot[t]] = "UNUSED" /\ state' = [state EXCEPT ![slot[t]] = "USED"]
        /\ pc[slot[t]] \in {"none", "e_dead"} /\ (initproc = 0 => t = 0)
        /\ savedpc' = savedpc /\ initproc' = initproc /\ lk' = lk /\ slot' = slot /\ want' = want
    BY <2>1, AllocSlotEffect, AllocFoundEffect
  <2>3. /\ pc'[slot[t]] = "forkret" /\ pc'[t] = IF initproc = 0 THEN "u_fin" ELSE "c_fin"
        /\ \A u \in Threads : u # t /\ u # slot[t] => pc'[u] = pc[u]
        /\ \A u \in Threads : u # slot[t] => home'[u] = home[u]
    BY <2>1, AllocFoundEffect
  <2>4. savedpc[t] = "none" /\ savedpc[slot[t]] = "none"
    BY <2>2, <1>0 DEF TrapInv, TrapFree
  <2>5. initproc # 0 => initproc # t /\ initproc # slot[t] /\ initproc \in Procs
    BY <2>2, <2>4, <1>0, Numbers DEF InitInv, Where, Created, InitLabels
  <2>6. \A p \in Procs : Created(p)' <=> Created(p)
    BY <2>2, <1>0 DEF Created
  <2>7. /\ Where(t)' = pc'[t] /\ Where(slot[t])' = "forkret" /\ Where(slot[t]) = pc[slot[t]]
        /\ Where(t) = "a_test"
        /\ \A u \in Threads : u # t /\ u # slot[t] => Where(u)' = Where(u)
    BY <2>2, <2>3, <2>4 DEF Where
  <2>8. ASSUME NEW p \in Procs PROVE HomeInv(p)'
    BY <2>2, <2>3, <2>6, <2>7, <1>0, Numbers DEF InitInv, HomeInv, Entry, SleepLabels, Created
  <2>9. initproc' = 0 => /\ cur' = 0 /\ Where(0)' \in {"a_scan", "a_test", "u_fin", "panic"}
                         /\ \A p \in Procs : ~Created(p)'
    BY <2>2, <2>3, <2>6, <2>7, <1>0 DEF InitInv
  <2>10. initproc # 0 => /\ Created(initproc)' /\ state'[initproc] # "ZOMBIE"
                         /\ Where(initproc)' \in InitLabels /\ lk[initproc] = WaitLock /\ pc'[0] # "u_fin"
    BY <2>2, <2>3, <2>5, <2>6, <2>7, <1>0, Numbers DEF InitInv
  <2>. QED
    BY <2>2, <2>8, <2>9, <2>10 DEF InitInv, Created, Where
<1>2. ASSUME NEW t \in Threads, UserinitFinish(t) PROVE InitInv'
  <2>0. PICK n \in Procs : n = slot[t]
    BY <1>2, UserinitFinishEffect
  <2>1. /\ cur = t /\ cur' = t /\ pc[t] = "u_fin" /\ savedpc' = savedpc
        /\ state' = [state EXCEPT ![n] = "RUNNABLE"] /\ initproc' = n /\ lk' = lk
        /\ home' = [home EXCEPT ![n] = "w_acq"] /\ pc' = [pc EXCEPT ![t] = "a_scan"]
    BY <1>2, <2>0, UserinitFinishEffect DEF UserinitFinish, Start, Goto, irqVars
  <2>2. t = 0 /\ initproc = 0 /\ savedpc[t] = "none" /\ n # 0 /\ n \in Threads
    BY <2>1, <1>0, Here, Numbers DEF InitInv, TaskLabels, TrapInv, SlotLabels, OwnLabels,
       WaitLabels, TickLabels, TaskFree, SchedFree, TrapFree
  <2>3. pc[n] = "forkret" /\ savedpc[n] = "none"
    <3>1. state[n] = "USED" /\ PlaceInv(n)
      BY <2>0, <2>1 DEF IInv, StateInv
    <3>2. pc[n] = "forkret"
      BY <2>1, <3>1 DEF PlaceInv
    <3>. QED
      BY <2>2, <3>2, <1>0 DEF TrapInv, TrapFree
  <2>4. \A p \in Procs : Created(p)' <=> p = n
    BY <2>1, <2>2, <1>0 DEF Created, InitInv
  <2>5. \A p \in Procs : Where(p)' = Where(p)
    BY <2>1, <2>2, <1>0, Numbers DEF Where
  <2>6. Where(n)' = "forkret"
    BY <2>1, <2>2, <2>3, <1>0 DEF Where
  <2>7. ASSUME NEW p \in Procs PROVE HomeInv(p)'
    BY <2>1, <2>2, <2>4, <2>5, <1>0, Numbers DEF InitInv, HomeInv, Entry
  <2>8. lk[n] = WaitLock
    BY <2>1, <2>5, <2>6, <1>0 DEF InitInv, HomeInv, Entry, SleepLabels
  <2>9. state'[initproc'] = "RUNNABLE" /\ pc'[0] # "u_fin" /\ Created(n)'
    BY <2>1, <2>2, <2>4, <1>0
  <2>. QED
    BY <2>1, <2>2, <2>6, <2>7, <2>8, <2>9 DEF InitInv, Created, InitLabels, Where
<1>3. ASSUME NEW t \in Threads, CreateFinish(t) PROVE InitInv'
  <2>1. /\ cur = t /\ cur' = t /\ pc[t] = "c_fin" /\ slot[t] \in Procs /\ savedpc' = savedpc
        /\ state' = [state EXCEPT ![slot[t]] = "RUNNABLE"] /\ initproc' = initproc /\ lk' = lk
        /\ home' = [home EXCEPT ![slot[t]] = "run"] /\ pc' = [pc EXCEPT ![t] = "c_ret"] /\ want' = want
    BY <1>3, CreateFinishEffect DEF CreateFinish, Start, Goto, irqVars, memVars, callVars, schedVars
  <2>2. savedpc[t] = "none" /\ Where(t) = "c_fin" /\ initproc # 0 /\ t # initproc
    BY <2>1, <1>0 DEF InitInv, TrapInv, TrapFree, Where, InitLabels
  <2>3. state[slot[t]] = "USED" /\ slot[t] # initproc
    BY <2>1, <2>2, <1>0 DEF IInv, StateInv, InitInv, Created
  <2>4. \A p \in Procs : Created(p)' <=> Created(p) \/ p = slot[t]
    BY <2>1, <1>0 DEF Created
  <2>5. Where(t)' = "c_ret" /\ \A u \in Threads : u # t => Where(u)' = Where(u)
    BY <2>1, <2>2, <1>0 DEF Where
  <2>6. ASSUME NEW p \in Procs PROVE HomeInv(p)'
    BY <2>1, <2>2, <2>3, <2>4, <2>5, <1>0, Numbers DEF InitInv, HomeInv, Entry, SleepLabels
  <2>7. /\ Created(initproc)' /\ state'[initproc] # "ZOMBIE" /\ Where(initproc)' \in InitLabels
        /\ lk[initproc] = WaitLock /\ pc'[0] # "u_fin"
    BY <2>1, <2>2, <2>3, <2>4, <2>5, <1>0, Numbers DEF InitInv
  <2>. QED
    BY <2>1, <2>2, <2>6, <2>7 DEF InitInv, Created, Where
<1>4. ASSUME NEW t \in Threads, WaitReap(t) PROVE InitInv'
  <2>1. PICK np \in Zombies(t) : FreeProcess(np)
    BY <1>4 DEF WaitReap
  <2>2. /\ cur = t /\ cur' = t /\ pc[t] = "w_scan" /\ np \in Procs /\ state[np] = "ZOMBIE" /\ t \in Procs
        /\ state' = [state EXCEPT ![np] = "UNUSED"] /\ initproc' = initproc /\ lk' = lk /\ home' = home
        /\ pc' = [pc EXCEPT ![t] = home[t]] /\ savedpc' = savedpc /\ want' = want
        /\ home[t] = IF t = initproc THEN "w_acq" ELSE "run"
    BY <1>4, <2>1, WaitReapEffect, Here DEF WaitReap, Goto, irqVars, schedVars, FreeProcess, ClearSlot,
       Zombies, Children
  <2>3. savedpc[t] = "none" /\ Where(t) = "w_scan" /\ initproc # 0 /\ np # initproc
    BY <2>2, <1>0 DEF InitInv, TrapInv, TrapFree, Where, Created
  <2>4. \A p \in Procs : Created(p)' <=> Created(p) /\ p # np
    BY <2>2, <1>0 DEF Created
  <2>5. Where(t)' = home[t] /\ \A u \in Threads : u # t => Where(u)' = Where(u)
    BY <2>2, <2>3, <1>0 DEF Where
  <2>6. ASSUME NEW p \in Procs PROVE HomeInv(p)'
    BY <2>2, <2>3, <2>4, <2>5, <1>0, Numbers DEF InitInv, HomeInv, Entry, SleepLabels
  <2>7. /\ Created(initproc)' /\ state'[initproc] # "ZOMBIE" /\ Where(initproc)' \in InitLabels
        /\ lk[initproc] = WaitLock /\ pc'[0] # "u_fin"
    BY <2>2, <2>3, <2>4, <2>5, <1>0, Numbers DEF InitInv, InitLabels
  <2>. QED
    BY <2>2, <2>3, <2>6, <2>7 DEF InitInv, Created, Where
<1>5. ASSUME NEW t \in Threads, TakeInterrupt(t) PROVE InitInv'
  <2>1. /\ cur = t /\ cur' = t /\ savedpc[t] = "none" /\ pc[t] # "none" /\ pc' = [pc EXCEPT ![t] = "t_tick"]
        /\ savedpc' = [savedpc EXCEPT ![t] = pc[t]]
        /\ initproc' = initproc /\ state' = state /\ lk' = lk /\ home' = home /\ want' = want
    BY <1>5, TakeInterruptEffect DEF TakeInterrupt, Goto, tableVars, memVars, callVars, schedVars, TaskFree
  <2>2. \A u \in Threads : Where(u)' = Where(u)
    BY <2>1, <1>0 DEF Where
  <2>3. \A p \in Procs : Created(p)' <=> Created(p)
    BY <2>1 DEF Created
  <2>4. pc'[0] # "u_fin" \/ pc'[0] = pc[0]
    BY <2>1, <1>0, Numbers
  <2>. QED
    BY <2>1, <2>2, <2>3, <2>4, <1>0, Numbers DEF InitInv, HomeInv, Entry
<1>. USE <1>0, Here, Numbers DEF At, Goto, cpuVars, irqVars, tableVars, memVars, callVars,
   schedVars, InitInv, HomeInv, Entry, Where, Created, TrapInv, InitLabels, SleepLabels, TrapFree
<1>6. ASSUME SchedulerStart PROVE InitInv'
  BY <1>6 DEF SchedulerStart
<1>7. ASSUME IntrOn PROVE InitInv'
  BY <1>7, IntrEffect DEF IntrOn
<1>8. ASSUME IntrOff PROVE InitInv'
  BY <1>8, IntrEffect DEF IntrOff
<1>9. ASSUME SchedulerSkip PROVE InitInv'
  BY <1>9, SchedulerSkipEffect DEF SchedulerSkip
<1>10. ASSUME SchedulerSwitch PROVE InitInv'
  BY <1>10, SchedulerSwitchEffect DEF SchedulerSwitch
<1>11. ASSUME SchedulerBack PROVE InitInv'
  BY <1>11, SchedulerBackEffect DEF SchedulerBack
<1>12. ASSUME SchedulerPassEnd PROVE InitInv'
  BY <1>12 DEF SchedulerPassEnd
<1>13. ASSUME Wfi PROVE InitInv'
  BY <1>13 DEF Wfi
<1>14. ASSUME NEW t \in Threads, AllocAcquire(t) PROVE InitInv'
  BY <1>14, AllocAcquireEffect DEF AllocAcquire, Take
<1>15. ASSUME NEW t \in Threads, AllocNext(t) PROVE InitInv'
  BY <1>15, AllocNextEffect DEF AllocNext
<1>16. ASSUME NEW t \in Threads, AllocNoMemory(t) PROVE InitInv'
  BY <1>16, AllocSlotEffect DEF AllocNoMemory
<1>17. ASSUME NEW t \in Threads, AllocFull(t) PROVE InitInv'
  BY <1>17 DEF AllocFull
<1>18. ASSUME NEW t \in Threads, CreateReturn(t) PROVE InitInv'
  BY <1>18 DEF CreateReturn
<1>19. ASSUME NEW t \in Threads, Forkret(t) PROVE InitInv'
  BY <1>19, ForkretEffect DEF Forkret
<1>20. ASSUME NEW t \in Threads, Sched(t) PROVE InitInv'
  BY <1>20, SchedEffect
<1>21. ASSUME NEW t \in Threads, WaitAcquire(t) PROVE InitInv'
  BY <1>21, WaitAcquireEffect DEF WaitAcquire, Take
<1>22. ASSUME NEW t \in Threads, WaitNoChildren(t) PROVE InitInv'
  BY <1>22, WaitNoChildrenEffect DEF WaitNoChildren, init_task
<1>23. ASSUME NEW t \in Threads, WaitSleep(t) PROVE InitInv'
  BY <1>23, WaitSleepEffect DEF WaitSleep, Sleep
<1>24. ASSUME NEW t \in Threads, SleepReturn(t) PROVE InitInv'
  BY <1>24, SleepReturnEffect DEF SleepReturn
<1>25. ASSUME NEW t \in Threads, SleepReacquire(t) PROVE InitInv'
  BY <1>25, SleepReacquireEffect DEF SleepReacquire, Take
<1>26. ASSUME NEW t \in Threads, TicksAcquire(t) PROVE InitInv'
  BY <1>26, TicksAcquireEffect DEF TicksAcquire, Take
<1>27. ASSUME NEW t \in Threads, TicksSleep(t) PROVE InitInv'
  BY <1>27, TicksSleepEffect DEF TicksSleep, Sleep
<1>28. ASSUME NEW t \in Threads, TicksRelease(t) PROVE InitInv'
  BY <1>28, TicksReleaseEffect DEF TicksRelease
<1>29. ASSUME NEW t \in Threads, ExitAcquire(t) PROVE InitInv'
  BY <1>29, ExitAcquireEffect DEF ExitAcquire, Take
<1>30. ASSUME NEW t \in Threads, ExitReparent(t) PROVE InitInv'
  BY <1>30 DEF ExitReparent, Wakeup
<1>31. ASSUME NEW t \in Threads, ExitWakeParent(t) PROVE InitInv'
  BY <1>31 DEF ExitWakeParent, Wakeup
<1>32. ASSUME NEW t \in Threads, ExitZombie(t) PROVE InitInv'
  BY <1>32, ExitZombieEffect DEF ExitZombie
<1>33. ASSUME NEW t \in Threads, YieldAcquire(t) PROVE InitInv'
  BY <1>33, YieldAcquireEffect DEF YieldAcquire
<1>34. ASSUME NEW t \in Threads, YieldReturn(t) PROVE InitInv'
  BY <1>34, YieldReturnEffect DEF YieldReturn
<1>35. ASSUME NEW t \in Threads, TimerInterrupt(t) PROVE InitInv'
  BY <1>35, TimerInterruptEffect DEF TimerInterrupt, Wakeup
<1>36. ASSUME NEW t \in Threads, TrapReturn(t) PROVE InitInv'
  BY <1>36, TrapReturnEffect DEF TrapReturn
<1>37. ASSUME NEW t \in Procs, CallsOf(t) PROVE InitInv'
  BY <1>37 DEF CallsOf, CallCreate, CallWait, CallYield, CallSleep, CallReturn, CallExit, Call
<1>38. ASSUME NEW t \in Procs, NEW b \in BOOLEAN, CallIntr(t, b) PROVE InitInv'
  BY <1>38, CallIntrEffect DEF CallIntr
<1>39. ASSUME TimerExpire PROVE InitInv'
  BY <1>39 DEF TimerExpire
<1>40. ASSUME NEW t \in Threads, PanicSpin(t) PROVE InitInv'
  BY <1>40 DEF PanicSpin, vars
<1>41. ASSUME NEW t \in Threads, ForkretCall(t) PROVE InitInv'
  BY <1>41, ForkretCallEffect
<1>. HIDE <1>0, Here, Numbers DEF At, Goto, cpuVars, irqVars, tableVars, memVars, callVars,
   schedVars, InitInv, HomeInv, Entry, Where, Created, TrapInv, InitLabels, SleepLabels, TrapFree
<1>. QED
  BY <1>1, <1>2, <1>3, <1>4, <1>5, <1>6, <1>7, <1>8, <1>9, <1>10, <1>11, <1>12, <1>13, <1>14,
     <1>15, <1>16, <1>17, <1>18, <1>19, <1>20, <1>21, <1>22, <1>23, <1>24, <1>25, <1>26, <1>27,
     <1>28, <1>29, <1>30, <1>31, <1>32, <1>33, <1>34, <1>35, <1>36, <1>37, <1>38, <1>39, <1>40, <1>41,
     NextCases

(* A pass that has found nothing runs with interrupts off: nothing it has seen changes. *)
LEMMA PassStep ==
    ASSUME IInv, Next
    PROVE  PassInv'
<1>0. /\ PassInv /\ cur \in Threads /\ pc \in [Threads -> Labels] /\ state \in [Procs -> States]
     /\ slot \in [Threads -> 1..NPROC + 1] /\ savedpc \in [Threads -> Labels] /\ found \in BOOLEAN
     /\ TrapInv(0)
  BY Numbers DEF IInv, TypeOK, IrqInv
<1>1. ASSUME SchedulerPassEnd PROVE PassInv'
  <2>1. \A p \in Procs : p < slot[0]
    BY <1>1, <1>0, ProcAssumption, Numbers DEF SchedulerPassEnd, Procs
  <2>2. /\ cur = 0 /\ pc[0] = "s_loop" /\ pc' = [pc EXCEPT ![0] = IF found THEN "s_on" ELSE "s_wfi"]
        /\ hart' = hart /\ state' = state /\ savedpc' = savedpc /\ found' = found
    BY <1>1 DEF SchedulerPassEnd, At, Goto, cpuVars, irqVars, tableVars, schedVars
  <2>. QED
    BY <2>1, <2>2, <1>0, Numbers DEF PassInv
<1>. USE <1>0, Here, Numbers DEF At, Goto, cpuVars, irqVars, tableVars, memVars, callVars,
   schedVars, PassInv, TrapInv, TrapFree
<1>2. ASSUME SchedulerStart PROVE PassInv'
  BY <1>2 DEF SchedulerStart
<1>3. ASSUME IntrOn PROVE PassInv'
  BY <1>3, IntrEffect DEF IntrOn
<1>4. ASSUME IntrOff PROVE PassInv'
  BY <1>4, IntrEffect DEF IntrOff
<1>5. ASSUME SchedulerSkip PROVE PassInv'
  BY <1>5, SchedulerSkipEffect DEF SchedulerSkip
<1>6. ASSUME SchedulerSwitch PROVE PassInv'
  BY <1>6, SchedulerSwitchEffect DEF SchedulerSwitch
<1>7. ASSUME SchedulerBack PROVE PassInv'
  BY <1>7, SchedulerBackEffect DEF SchedulerBack
<1>8. ASSUME Wfi PROVE PassInv'
  BY <1>8 DEF Wfi
<1>9. ASSUME NEW t \in Threads, AllocAcquire(t) PROVE PassInv'
  BY <1>9, AllocAcquireEffect DEF AllocAcquire, Take
<1>10. ASSUME NEW t \in Threads, AllocNext(t) PROVE PassInv'
  BY <1>10, AllocNextEffect DEF AllocNext
<1>11. ASSUME NEW t \in Threads, AllocFound(t) PROVE PassInv'
  BY <1>11, AllocFoundEffect, AllocSlotEffect DEF AllocFound
<1>12. ASSUME NEW t \in Threads, AllocNoMemory(t) PROVE PassInv'
  BY <1>12, AllocSlotEffect DEF AllocNoMemory
<1>13. ASSUME NEW t \in Threads, AllocFull(t) PROVE PassInv'
  BY <1>13 DEF AllocFull
<1>14. ASSUME NEW t \in Threads, UserinitFinish(t) PROVE PassInv'
  BY <1>14, UserinitFinishEffect DEF UserinitFinish, Start
<1>15. ASSUME NEW t \in Threads, CreateFinish(t) PROVE PassInv'
  BY <1>15, CreateFinishEffect DEF CreateFinish, Start
<1>16. ASSUME NEW t \in Threads, CreateReturn(t) PROVE PassInv'
  BY <1>16 DEF CreateReturn
<1>17. ASSUME NEW t \in Threads, Forkret(t) PROVE PassInv'
  BY <1>17, ForkretEffect DEF Forkret
<1>18. ASSUME NEW t \in Threads, Sched(t) PROVE PassInv'
  BY <1>18, SchedEffect
<1>19. ASSUME NEW t \in Threads, WaitAcquire(t) PROVE PassInv'
  BY <1>19, WaitAcquireEffect DEF WaitAcquire, Take
<1>20. ASSUME NEW t \in Threads, WaitReap(t) PROVE PassInv'
  BY <1>20, WaitReapEffect DEF WaitReap, FreeProcess, ClearSlot
<1>21. ASSUME NEW t \in Threads, WaitNoChildren(t) PROVE PassInv'
  BY <1>21, WaitNoChildrenEffect DEF WaitNoChildren, init_task
<1>22. ASSUME NEW t \in Threads, WaitSleep(t) PROVE PassInv'
  BY <1>22, WaitSleepEffect DEF WaitSleep, Sleep
<1>23. ASSUME NEW t \in Threads, SleepReturn(t) PROVE PassInv'
  BY <1>23, SleepReturnEffect DEF SleepReturn
<1>24. ASSUME NEW t \in Threads, SleepReacquire(t) PROVE PassInv'
  BY <1>24, SleepReacquireEffect DEF SleepReacquire, Take
<1>25. ASSUME NEW t \in Threads, TicksAcquire(t) PROVE PassInv'
  BY <1>25, TicksAcquireEffect DEF TicksAcquire, Take
<1>26. ASSUME NEW t \in Threads, TicksSleep(t) PROVE PassInv'
  BY <1>26, TicksSleepEffect DEF TicksSleep, Sleep
<1>27. ASSUME NEW t \in Threads, TicksRelease(t) PROVE PassInv'
  BY <1>27, TicksReleaseEffect DEF TicksRelease
<1>28. ASSUME NEW t \in Threads, ExitAcquire(t) PROVE PassInv'
  BY <1>28, ExitAcquireEffect DEF ExitAcquire, Take
<1>29. ASSUME NEW t \in Threads, ExitReparent(t) PROVE PassInv'
  BY <1>29 DEF ExitReparent, Wakeup
<1>30. ASSUME NEW t \in Threads, ExitWakeParent(t) PROVE PassInv'
  BY <1>30 DEF ExitWakeParent, Wakeup
<1>31. ASSUME NEW t \in Threads, ExitZombie(t) PROVE PassInv'
  BY <1>31, ExitZombieEffect DEF ExitZombie
<1>32. ASSUME NEW t \in Threads, YieldAcquire(t) PROVE PassInv'
  BY <1>32, YieldAcquireEffect DEF YieldAcquire
<1>33. ASSUME NEW t \in Threads, YieldReturn(t) PROVE PassInv'
  BY <1>33, YieldReturnEffect DEF YieldReturn
<1>34. ASSUME NEW t \in Threads, TimerInterrupt(t) PROVE PassInv'
  BY <1>34, TimerInterruptEffect DEF TimerInterrupt, Wakeup
<1>35. ASSUME NEW t \in Threads, TrapReturn(t) PROVE PassInv'
  BY <1>35, TrapReturnEffect DEF TrapReturn
<1>36. ASSUME NEW t \in Threads, TakeInterrupt(t) PROVE PassInv'
  BY <1>36, TakeInterruptEffect DEF TakeInterrupt
<1>37. ASSUME NEW t \in Procs, CallsOf(t) PROVE PassInv'
  BY <1>37 DEF CallsOf, CallCreate, CallWait, CallYield, CallSleep, CallReturn, CallExit, Call
<1>38. ASSUME NEW t \in Procs, NEW b \in BOOLEAN, CallIntr(t, b) PROVE PassInv'
  BY <1>38, CallIntrEffect DEF CallIntr
<1>39. ASSUME TimerExpire PROVE PassInv'
  BY <1>39 DEF TimerExpire
<1>40. ASSUME NEW t \in Threads, PanicSpin(t) PROVE PassInv'
  BY <1>40 DEF PanicSpin, vars
<1>41. ASSUME NEW t \in Threads, ForkretCall(t) PROVE PassInv'
  BY <1>41, ForkretCallEffect
<1>. HIDE <1>0, Here, Numbers DEF At, Goto, cpuVars, irqVars, tableVars, memVars, callVars,
   schedVars, PassInv, TrapInv, TrapFree
<1>. QED
  BY <1>1, <1>2, <1>3, <1>4, <1>5, <1>6, <1>7, <1>8, <1>9, <1>10, <1>11, <1>12, <1>13, <1>14,
     <1>15, <1>16, <1>17, <1>18, <1>19, <1>20, <1>21, <1>22, <1>23, <1>24, <1>25, <1>26, <1>27,
     <1>28, <1>29, <1>30, <1>31, <1>32, <1>33, <1>34, <1>35, <1>36, <1>37, <1>38, <1>39, <1>40, <1>41,
     NextCases

(* The first two pids go to the processes of main(). *)
LEMMA PidStep ==
    ASSUME IInv, Next
    PROVE  PidInv'
<1>0. /\ PidInv /\ cur \in Threads /\ pc \in [Threads -> Labels] /\ savedpc \in [Threads -> Labels]
     /\ pid \in [Procs -> Nat] /\ nextpid \in Nat /\ initproc \in Threads /\ slot \in [Threads -> 1..NPROC + 1]
     /\ \A t \in Threads : TrapInv(t)
  BY DEF IInv, TypeOK, TreeInv, IrqInv
<1>1. ASSUME SchedulerSwitch PROVE PidInv'
  <2>1. /\ pc[slot[0]] \in {"forkret", "y_back", "sl_back"} /\ slot[0] \in Procs
        /\ pc[0] = "s_loop" /\ pc' = [pc EXCEPT ![0] = "s_back"] /\ cur' = slot[0]
        /\ UNCHANGED <<nextpid, savedpc, initproc>>
    BY <1>1, SchedulerSwitchEffect, WaitPlace, Numbers DEF SchedulerSwitch, Goto, irqVars, memVars
  <2>. QED
    BY <2>1, <1>0, Numbers DEF PidInv, Where, TrapInv, TrapFree
<1>. USE <1>0, Here, Numbers DEF At, Goto, cpuVars, irqVars, tableVars, memVars, callVars,
   schedVars, PidInv, Where, TrapInv, TrapFree, TaskFree
<1>2. ASSUME SchedulerStart PROVE PidInv'
  BY <1>2 DEF SchedulerStart
<1>3. ASSUME IntrOn PROVE PidInv'
  BY <1>3, IntrEffect DEF IntrOn
<1>4. ASSUME IntrOff PROVE PidInv'
  BY <1>4, IntrEffect DEF IntrOff
<1>5. ASSUME SchedulerSkip PROVE PidInv'
  BY <1>5, SchedulerSkipEffect DEF SchedulerSkip
<1>6. ASSUME SchedulerBack PROVE PidInv'
  BY <1>6, SchedulerBackEffect DEF SchedulerBack
<1>7. ASSUME SchedulerPassEnd PROVE PidInv'
  BY <1>7 DEF SchedulerPassEnd
<1>8. ASSUME Wfi PROVE PidInv'
  BY <1>8 DEF Wfi
<1>9. ASSUME NEW t \in Threads, AllocAcquire(t) PROVE PidInv'
  BY <1>9, AllocAcquireEffect DEF AllocAcquire, Take
<1>10. ASSUME NEW t \in Threads, AllocNext(t) PROVE PidInv'
  BY <1>10, AllocNextEffect DEF AllocNext
<1>11. ASSUME NEW t \in Threads, AllocFound(t) PROVE PidInv'
  BY <1>11, AllocFoundEffect, AllocSlotEffect DEF AllocFound
<1>12. ASSUME NEW t \in Threads, AllocNoMemory(t) PROVE PidInv'
  BY <1>12, AllocSlotEffect DEF AllocNoMemory
<1>13. ASSUME NEW t \in Threads, AllocFull(t) PROVE PidInv'
  BY <1>13 DEF AllocFull
<1>14. ASSUME NEW t \in Threads, UserinitFinish(t) PROVE PidInv'
  BY <1>14, UserinitFinishEffect DEF UserinitFinish, Start
<1>15. ASSUME NEW t \in Threads, CreateFinish(t) PROVE PidInv'
  BY <1>15, CreateFinishEffect DEF CreateFinish, Start
<1>16. ASSUME NEW t \in Threads, CreateReturn(t) PROVE PidInv'
  BY <1>16 DEF CreateReturn
<1>17. ASSUME NEW t \in Threads, Forkret(t) PROVE PidInv'
  BY <1>17, ForkretEffect DEF Forkret
<1>18. ASSUME NEW t \in Threads, Sched(t) PROVE PidInv'
  BY <1>18, SchedEffect
<1>19. ASSUME NEW t \in Threads, WaitAcquire(t) PROVE PidInv'
  BY <1>19, WaitAcquireEffect DEF WaitAcquire, Take
<1>20. ASSUME NEW t \in Threads, WaitReap(t) PROVE PidInv'
  BY <1>20, WaitReapEffect DEF WaitReap, FreeProcess, ClearSlot
<1>21. ASSUME NEW t \in Threads, WaitNoChildren(t) PROVE PidInv'
  BY <1>21, WaitNoChildrenEffect DEF WaitNoChildren, init_task
<1>22. ASSUME NEW t \in Threads, WaitSleep(t) PROVE PidInv'
  BY <1>22, WaitSleepEffect DEF WaitSleep, Sleep
<1>23. ASSUME NEW t \in Threads, SleepReturn(t) PROVE PidInv'
  BY <1>23, SleepReturnEffect DEF SleepReturn
<1>24. ASSUME NEW t \in Threads, SleepReacquire(t) PROVE PidInv'
  BY <1>24, SleepReacquireEffect DEF SleepReacquire, Take
<1>25. ASSUME NEW t \in Threads, TicksAcquire(t) PROVE PidInv'
  BY <1>25, TicksAcquireEffect DEF TicksAcquire, Take
<1>26. ASSUME NEW t \in Threads, TicksSleep(t) PROVE PidInv'
  BY <1>26, TicksSleepEffect DEF TicksSleep, Sleep
<1>27. ASSUME NEW t \in Threads, TicksRelease(t) PROVE PidInv'
  BY <1>27, TicksReleaseEffect DEF TicksRelease
<1>28. ASSUME NEW t \in Threads, ExitAcquire(t) PROVE PidInv'
  BY <1>28, ExitAcquireEffect DEF ExitAcquire, Take
<1>29. ASSUME NEW t \in Threads, ExitReparent(t) PROVE PidInv'
  BY <1>29 DEF ExitReparent, Wakeup
<1>30. ASSUME NEW t \in Threads, ExitWakeParent(t) PROVE PidInv'
  BY <1>30 DEF ExitWakeParent, Wakeup
<1>31. ASSUME NEW t \in Threads, ExitZombie(t) PROVE PidInv'
  BY <1>31, ExitZombieEffect DEF ExitZombie
<1>32. ASSUME NEW t \in Threads, YieldAcquire(t) PROVE PidInv'
  BY <1>32, YieldAcquireEffect DEF YieldAcquire
<1>33. ASSUME NEW t \in Threads, YieldReturn(t) PROVE PidInv'
  BY <1>33, YieldReturnEffect DEF YieldReturn
<1>34. ASSUME NEW t \in Threads, TimerInterrupt(t) PROVE PidInv'
  BY <1>34, TimerInterruptEffect DEF TimerInterrupt, Wakeup
<1>35. ASSUME NEW t \in Threads, TrapReturn(t) PROVE PidInv'
  BY <1>35, TrapReturnEffect DEF TrapReturn
<1>36. ASSUME NEW t \in Threads, TakeInterrupt(t) PROVE PidInv'
  BY <1>36, TakeInterruptEffect DEF TakeInterrupt
<1>37. ASSUME NEW t \in Procs, CallsOf(t) PROVE PidInv'
  BY <1>37 DEF CallsOf, CallCreate, CallWait, CallYield, CallSleep, CallReturn, CallExit, Call
<1>38. ASSUME NEW t \in Procs, NEW b \in BOOLEAN, CallIntr(t, b) PROVE PidInv'
  BY <1>38, CallIntrEffect DEF CallIntr
<1>39. ASSUME TimerExpire PROVE PidInv'
  BY <1>39 DEF TimerExpire
<1>40. ASSUME NEW t \in Threads, PanicSpin(t) PROVE PidInv'
  BY <1>40 DEF PanicSpin, vars
<1>41. ASSUME NEW t \in Threads, ForkretCall(t) PROVE PidInv'
  BY <1>41, ForkretCallEffect
<1>. HIDE <1>0, Here, Numbers DEF At, Goto, cpuVars, irqVars, tableVars, memVars, callVars,
   schedVars, PidInv, Where, TrapInv, TrapFree, TaskFree
<1>. QED
  BY <1>1, <1>2, <1>3, <1>4, <1>5, <1>6, <1>7, <1>8, <1>9, <1>10, <1>11, <1>12, <1>13, <1>14,
     <1>15, <1>16, <1>17, <1>18, <1>19, <1>20, <1>21, <1>22, <1>23, <1>24, <1>25, <1>26, <1>27,
     <1>28, <1>29, <1>30, <1>31, <1>32, <1>33, <1>34, <1>35, <1>36, <1>37, <1>38, <1>39, <1>40, <1>41,
     NextCases

(* A process is not reaped before its parent has read its pid. *)
LEMMA MadeStep ==
    ASSUME IInv, Next
    PROVE  \A u \in Threads : MadeInv(u)'
<1>0. /\ cur \in Threads /\ pc \in [Threads -> Labels] /\ savedpc \in [Threads -> Labels]
     /\ state \in [Procs -> States] /\ parent \in [Procs -> Threads] /\ slot \in [Threads -> 1..NPROC + 1]
     /\ \A t \in Threads : TrapInv(t) /\ MadeInv(t)
  BY DEF IInv, TypeOK, TreeInv, IrqInv
<1>1. ASSUME NEW t \in Threads, AllocFound(t) PROVE \A u \in Threads : MadeInv(u)'
  <2>1. AllocFound(t) /\ AllocSlot(t)
    BY <1>1, AllocFoundEffect
  <2>2. /\ slot[t] \in Procs /\ state[slot[t]] = "UNUSED" /\ state' = [state EXCEPT ![slot[t]] = "USED"]
        /\ pc[t] = "a_test" /\ pc[slot[t]] \in {"none", "e_dead"}
        /\ slot' = slot /\ parent' = parent /\ savedpc' = savedpc
    BY <2>1, AllocSlotEffect
  <2>3. /\ pc'[slot[t]] = "forkret" /\ pc'[t] \in {"u_fin", "c_fin"} /\ slot[t] \in Threads
        /\ \A u \in Threads : u # t /\ u # slot[t] => pc'[u] = pc[u]
    BY <2>1, AllocFoundEffect
  <2>4. savedpc[t] = "none" /\ savedpc[slot[t]] = "none"
    BY <2>2, <2>3, <1>0 DEF TrapInv, TrapFree
  <2>. QED
    BY <2>2, <2>3, <2>4, <1>0 DEF MadeInv, Where, Created
<1>2. ASSUME NEW t \in Threads, CreateFinish(t) PROVE \A u \in Threads : MadeInv(u)'
  <2>1. /\ cur = t /\ pc[t] = "c_fin" /\ slot[t] \in Procs /\ savedpc' = savedpc /\ slot' = slot
        /\ state' = [state EXCEPT ![slot[t]] = "RUNNABLE"] /\ pc' = [pc EXCEPT ![t] = "c_ret"]
    BY <1>2, CreateFinishEffect DEF CreateFinish, Start, Goto, irqVars, callVars
  <2>2. state[slot[t]] = "USED" /\ parent[slot[t]] = 0
    BY <2>1 DEF IInv, StateInv, TreeInv, KinInv, Created
  <2>3. cproc = t
    BY <2>1, Here
  <2>4. parent' = [parent EXCEPT ![slot[t]] = t]
    BY <1>2, <2>2, <2>3, <1>0 DEF CreateFinish
  <2>. QED
    BY <2>1, <2>2, <2>4, <1>0 DEF MadeInv, Where, Created
<1>3. ASSUME NEW t \in Threads, WaitReap(t) PROVE \A u \in Threads : MadeInv(u)'
  <2>1. PICK np \in Zombies(t) : FreeProcess(np)
    BY <1>3 DEF WaitReap
  <2>2. /\ pc[t] = "w_scan" /\ np \in Procs /\ parent[np] = t
        /\ state' = [state EXCEPT ![np] = "UNUSED"] /\ parent' = [parent EXCEPT ![np] = 0]
        /\ pc' = [pc EXCEPT ![t] = home[t]] /\ savedpc' = savedpc /\ slot' = slot
        /\ home[t] \in {"run", "w_acq"}
    BY <1>3, <2>1, WaitReapEffect, Here DEF WaitReap, Goto, irqVars, FreeProcess, ClearSlot,
       Zombies, Children
  <2>3. savedpc[t] = "none"
    BY <2>2, <1>0 DEF TrapInv, TrapFree
  <2>. QED
    BY <2>2, <2>3, <1>0 DEF MadeInv, Where, Created
<1>. USE <1>0, Here, Numbers DEF At, Goto, cpuVars, irqVars, tableVars, memVars, callVars,
   schedVars, MadeInv, Where, Created, TrapInv, TrapFree, TaskFree
<1>4. ASSUME SchedulerStart PROVE \A u \in Threads : MadeInv(u)'
  BY <1>4 DEF SchedulerStart
<1>5. ASSUME IntrOn PROVE \A u \in Threads : MadeInv(u)'
  BY <1>5, IntrEffect DEF IntrOn
<1>6. ASSUME IntrOff PROVE \A u \in Threads : MadeInv(u)'
  BY <1>6, IntrEffect DEF IntrOff
<1>7. ASSUME SchedulerSkip PROVE \A u \in Threads : MadeInv(u)'
  BY <1>7, SchedulerSkipEffect DEF SchedulerSkip
<1>8. ASSUME SchedulerSwitch PROVE \A u \in Threads : MadeInv(u)'
  BY <1>8, SchedulerSwitchEffect DEF SchedulerSwitch
<1>9. ASSUME SchedulerBack PROVE \A u \in Threads : MadeInv(u)'
  BY <1>9, SchedulerBackEffect DEF SchedulerBack
<1>10. ASSUME SchedulerPassEnd PROVE \A u \in Threads : MadeInv(u)'
  BY <1>10 DEF SchedulerPassEnd
<1>11. ASSUME Wfi PROVE \A u \in Threads : MadeInv(u)'
  BY <1>11 DEF Wfi
<1>12. ASSUME NEW t \in Threads, AllocAcquire(t) PROVE \A u \in Threads : MadeInv(u)'
  BY <1>12, AllocAcquireEffect DEF AllocAcquire, Take
<1>13. ASSUME NEW t \in Threads, AllocNext(t) PROVE \A u \in Threads : MadeInv(u)'
  BY <1>13, AllocNextEffect DEF AllocNext
<1>14. ASSUME NEW t \in Threads, AllocNoMemory(t) PROVE \A u \in Threads : MadeInv(u)'
  BY <1>14, AllocSlotEffect DEF AllocNoMemory
<1>15. ASSUME NEW t \in Threads, AllocFull(t) PROVE \A u \in Threads : MadeInv(u)'
  BY <1>15 DEF AllocFull
<1>16. ASSUME NEW t \in Threads, UserinitFinish(t) PROVE \A u \in Threads : MadeInv(u)'
  BY <1>16, UserinitFinishEffect DEF UserinitFinish, Start
<1>17. ASSUME NEW t \in Threads, CreateReturn(t) PROVE \A u \in Threads : MadeInv(u)'
  BY <1>17 DEF CreateReturn
<1>18. ASSUME NEW t \in Threads, Forkret(t) PROVE \A u \in Threads : MadeInv(u)'
  BY <1>18, ForkretEffect DEF Forkret
<1>19. ASSUME NEW t \in Threads, Sched(t) PROVE \A u \in Threads : MadeInv(u)'
  BY <1>19, SchedEffect
<1>20. ASSUME NEW t \in Threads, WaitAcquire(t) PROVE \A u \in Threads : MadeInv(u)'
  BY <1>20, WaitAcquireEffect DEF WaitAcquire, Take
<1>21. ASSUME NEW t \in Threads, WaitNoChildren(t) PROVE \A u \in Threads : MadeInv(u)'
  BY <1>21, WaitNoChildrenEffect DEF WaitNoChildren, init_task
<1>22. ASSUME NEW t \in Threads, WaitSleep(t) PROVE \A u \in Threads : MadeInv(u)'
  BY <1>22, WaitSleepEffect DEF WaitSleep, Sleep
<1>23. ASSUME NEW t \in Threads, SleepReturn(t) PROVE \A u \in Threads : MadeInv(u)'
  BY <1>23, SleepReturnEffect DEF SleepReturn
<1>24. ASSUME NEW t \in Threads, SleepReacquire(t) PROVE \A u \in Threads : MadeInv(u)'
  BY <1>24, SleepReacquireEffect DEF SleepReacquire, Take
<1>25. ASSUME NEW t \in Threads, TicksAcquire(t) PROVE \A u \in Threads : MadeInv(u)'
  BY <1>25, TicksAcquireEffect DEF TicksAcquire, Take
<1>26. ASSUME NEW t \in Threads, TicksSleep(t) PROVE \A u \in Threads : MadeInv(u)'
  BY <1>26, TicksSleepEffect DEF TicksSleep, Sleep
<1>27. ASSUME NEW t \in Threads, TicksRelease(t) PROVE \A u \in Threads : MadeInv(u)'
  BY <1>27, TicksReleaseEffect DEF TicksRelease
<1>28. ASSUME NEW t \in Threads, ExitAcquire(t) PROVE \A u \in Threads : MadeInv(u)'
  BY <1>28, ExitAcquireEffect DEF ExitAcquire, Take
<1>29. ASSUME NEW t \in Threads, ExitReparent(t) PROVE \A u \in Threads : MadeInv(u)'
  BY <1>29 DEF ExitReparent, Wakeup
<1>30. ASSUME NEW t \in Threads, ExitWakeParent(t) PROVE \A u \in Threads : MadeInv(u)'
  BY <1>30 DEF ExitWakeParent, Wakeup
<1>31. ASSUME NEW t \in Threads, ExitZombie(t) PROVE \A u \in Threads : MadeInv(u)'
  BY <1>31, ExitZombieEffect DEF ExitZombie
<1>32. ASSUME NEW t \in Threads, YieldAcquire(t) PROVE \A u \in Threads : MadeInv(u)'
  BY <1>32, YieldAcquireEffect DEF YieldAcquire
<1>33. ASSUME NEW t \in Threads, YieldReturn(t) PROVE \A u \in Threads : MadeInv(u)'
  BY <1>33, YieldReturnEffect DEF YieldReturn
<1>34. ASSUME NEW t \in Threads, TimerInterrupt(t) PROVE \A u \in Threads : MadeInv(u)'
  BY <1>34, TimerInterruptEffect DEF TimerInterrupt, Wakeup
<1>35. ASSUME NEW t \in Threads, TrapReturn(t) PROVE \A u \in Threads : MadeInv(u)'
  BY <1>35, TrapReturnEffect DEF TrapReturn
<1>36. ASSUME NEW t \in Threads, TakeInterrupt(t) PROVE \A u \in Threads : MadeInv(u)'
  BY <1>36, TakeInterruptEffect DEF TakeInterrupt
<1>37. ASSUME NEW t \in Procs, CallsOf(t) PROVE \A u \in Threads : MadeInv(u)'
  BY <1>37 DEF CallsOf, CallCreate, CallWait, CallYield, CallSleep, CallReturn, CallExit, Call
<1>38. ASSUME NEW t \in Procs, NEW b \in BOOLEAN, CallIntr(t, b)
      PROVE  \A u \in Threads : MadeInv(u)'
  BY <1>38, CallIntrEffect DEF CallIntr
<1>39. ASSUME TimerExpire PROVE \A u \in Threads : MadeInv(u)'
  BY <1>39 DEF TimerExpire
<1>40. ASSUME NEW t \in Threads, PanicSpin(t) PROVE \A u \in Threads : MadeInv(u)'
  BY <1>40 DEF PanicSpin, vars
<1>41. ASSUME NEW t \in Threads, ForkretCall(t) PROVE \A u \in Threads : MadeInv(u)'
  BY <1>41, ForkretCallEffect
<1>. HIDE <1>0, Here, Numbers DEF At, Goto, cpuVars, irqVars, tableVars, memVars, callVars,
   schedVars, MadeInv, Where, Created, TrapInv, TrapFree, TaskFree
<1>. QED
  BY <1>1, <1>2, <1>3, <1>4, <1>5, <1>6, <1>7, <1>8, <1>9, <1>10, <1>11, <1>12, <1>13, <1>14,
     <1>15, <1>16, <1>17, <1>18, <1>19, <1>20, <1>21, <1>22, <1>23, <1>24, <1>25, <1>26, <1>27,
     <1>28, <1>29, <1>30, <1>31, <1>32, <1>33, <1>34, <1>35, <1>36, <1>37, <1>38, <1>39, <1>40, <1>41,
     NextCases

(* Parents live, pids go with parents, an exiting process has no children left. *)
LEMMA KinStep ==
    ASSUME IInv, Next
    PROVE  \A u \in Procs : KinInv(u)'
<1>0. /\ cur \in Threads /\ pc \in [Threads -> Labels] /\ state \in [Procs -> States] /\ chan \in [Procs -> 0..TicksChan]
     /\ parent \in [Procs -> Threads] /\ pid \in [Procs -> Nat] /\ nextpid \in Nat
     /\ \A u \in Procs : KinInv(u)
  BY DEF IInv, TypeOK, TreeInv
<1>1. ASSUME NEW t \in Threads, AllocFound(t) PROVE \A u \in Procs : KinInv(u)'
  <2>1. AllocSlot(t)
    BY <1>1 DEF AllocFound
  <2>2. /\ slot[t] \in Procs /\ slot[t] # t /\ state[slot[t]] = "UNUSED" /\ state' = [state EXCEPT ![slot[t]] = "USED"]
        /\ pid' = [pid EXCEPT ![slot[t]] = nextpid] /\ nextpid' = nextpid + 1 /\ nextpid >= 1
        /\ UNCHANGED <<slot, chan, parent, initproc>>
    BY <2>1, AllocSlotEffect
  <2>3. \A u \in Procs : pc'[u] \in {"e_wake", "e_zombie"} => pc'[u] = pc[u]
    BY <1>1, AllocFoundEffect, <2>2, Numbers
  <2>. QED
    BY <2>2, <2>3, <1>0 DEF KinInv, Created, Alive, Children
<1>2. ASSUME NEW t \in Threads, AllocNoMemory(t) PROVE \A u \in Procs : KinInv(u)'
  <2>1. AllocSlot(t)
    BY <1>2 DEF AllocNoMemory
  <2>2. /\ slot[t] \in Procs /\ slot[t] # t /\ state[slot[t]] = "UNUSED" /\ state' = [state EXCEPT ![slot[t]] = "USED"]
        /\ pid' = [pid EXCEPT ![slot[t]] = nextpid] /\ nextpid' = nextpid + 1 /\ nextpid >= 1
        /\ UNCHANGED <<slot, chan, parent, initproc>>
    BY <2>1, AllocSlotEffect
  <2>3. \A u \in Procs : pc'[u] \in {"e_wake", "e_zombie"} => pc'[u] = pc[u]
    BY <1>2, <2>2, <1>0, Numbers DEF AllocNoMemory, Goto
  <2>. QED
    BY <2>2, <2>3, <1>0 DEF KinInv, Created, Alive, Children
<1>3. ASSUME NEW t \in Threads, UserinitFinish(t) PROVE \A u \in Procs : KinInv(u)'
  <2>0. PICK n \in Procs : n = slot[t]
    BY <1>3, UserinitFinishEffect
  <2>1. /\ cur = t /\ pc[t] = "u_fin" /\ state' = [state EXCEPT ![n] = "RUNNABLE"] /\ initproc' = n
        /\ pc' = [pc EXCEPT ![t] = "a_scan"] /\ UNCHANGED <<chan, parent, pid, nextpid>>
    BY <1>3, <2>0, UserinitFinishEffect DEF UserinitFinish, Start, Goto
  <2>2. t = 0
    BY <2>1, Here DEF TaskLabels, SlotLabels, OwnLabels, WaitLabels, TickLabels, TaskFree,
       SchedFree, TrapFree
  <2>3. state[n] = "USED" /\ parent[n] = 0 /\ pid[n] = 1
    BY <2>0, <2>1, <2>2 DEF IInv, StateInv, TreeInv, PidInv, KinInv, Created
  <2>. QED
    BY <2>1, <2>2, <2>3, <1>0, Numbers DEF KinInv, Created, Alive, Children
<1>4. ASSUME NEW t \in Threads, CreateFinish(t) PROVE \A u \in Procs : KinInv(u)'
  <2>0. PICK n \in Procs : n = slot[t]
    BY <1>4, CreateFinishEffect
  <2>1. /\ cur = t /\ pc[t] = "c_fin" /\ state' = [state EXCEPT ![n] = "RUNNABLE"]
        /\ pc' = [pc EXCEPT ![t] = "c_ret"] /\ UNCHANGED <<chan, pid, nextpid, initproc>>
    BY <1>4, <2>0, CreateFinishEffect DEF CreateFinish, Start, Goto, memVars
  <2>2. state[n] = "USED" /\ parent[n] = 0 /\ n # t /\ cproc = t
    BY <2>0, <2>1, Here DEF IInv, StateInv, PlaceInv, TreeInv, KinInv, Created
  <2>3. parent' = [parent EXCEPT ![n] = t]
    BY <1>4, <2>0, <2>2, <1>0 DEF CreateFinish
  <2>4. IF t = 0 THEN pid[n] = 2 ELSE pid[n] > 2 /\ t \in Procs /\ state[t] = "RUNNING"
    <3>1. PidInv
      BY DEF IInv, TreeInv
    <3>. QED
      BY <2>0, <2>1, <3>1, <1>0, Here DEF PidInv
  <2>5. \A u \in Procs : pc'[u] \notin {"e_wake", "e_zombie"}
    BY <2>1, <1>0, WaitPlace DEF Suspended
  <2>6. ASSUME NEW u \in Procs PROVE KinInv(u)'
    <3>1. KinInv(u)
      BY <1>0
    <3>. QED
      BY <2>1, <2>2, <2>3, <2>4, <2>5, <3>1, <1>0, Numbers DEF KinInv, Created, Alive
  <2>. QED
    BY <2>6
<1>5. ASSUME NEW t \in Threads, WaitReap(t) PROVE \A u \in Procs : KinInv(u)'
  <2>1. PICK np \in Zombies(t) : FreeProcess(np)
    BY <1>5 DEF WaitReap
  <2>2. /\ np \in Procs /\ state[np] = "ZOMBIE" /\ state' = [state EXCEPT ![np] = "UNUSED"] /\ pid' = [pid EXCEPT ![np] = 0]
        /\ parent' = [parent EXCEPT ![np] = 0] /\ chan' = [chan EXCEPT ![np] = 0]
        /\ UNCHANGED <<nextpid, initproc>>
    BY <1>5, <2>1 DEF WaitReap, FreeProcess, ClearSlot, Zombies, Children
  <2>3. \A u \in Procs : pc'[u] \notin {"e_wake", "e_zombie"}
    <3>1. /\ cur = t /\ pc' = [pc EXCEPT ![t] = home[t]] /\ home[t] \in {"run", "w_acq"}
      BY <1>5, WaitReapEffect, Here DEF WaitReap, Goto
    <3>. QED
      BY <3>1, <1>0, WaitPlace DEF Suspended
  <2>. QED
    BY <2>2, <2>3, <1>0, Numbers DEF KinInv, Created, Alive
<1>6. ASSUME NEW t \in Threads, ExitReparent(t) PROVE \A u \in Procs : KinInv(u)'
  <2>1. /\ cur = t /\ pc[t] = "e_reparent" /\ pc' = [pc EXCEPT ![t] = "e_wake"] /\ t # 0
        /\ parent' = [np \in Procs |-> IF parent[np] = t THEN initproc ELSE parent[np]]
        /\ UNCHANGED <<chan, pid, nextpid, initproc>>
    BY <1>6, Here DEF ExitReparent, At, Goto, memVars, BootLabels, SchedFree, TrapFree
  <2>2. \A p \in Procs : state'[p] = state[p] \/ (state'[p] = "RUNNABLE" /\ state[p] = "SLEEPING")
    BY <1>6, WakeupEffect DEF ExitReparent
  <2>3. /\ initproc \in Procs /\ initproc # t /\ initproc # 0 /\ parent[initproc] = 0
        /\ state[initproc] \in Alive
    <3>1. initproc # 0 /\ initproc \in Procs
      BY <2>1, Numbers DEF IInv, InitInv, TypeOK
    <3>2. Where(t) = "e_reparent"
      BY <2>1 DEF IInv, IrqInv, TrapInv, Where, TrapFree
    <3>3. initproc # t
      BY <3>1, <3>2 DEF IInv, InitInv, InitLabels
    <3>4. state[initproc] \in Alive
      BY <3>1, <1>0 DEF IInv, InitInv, Created, Alive, States
    <3>. QED
      BY <3>1, <3>3, <3>4 DEF IInv, TreeInv, Unique
  <2>4. \A u \in Procs : pc'[u] \in {"e_wake", "e_zombie"} => u = t
    BY <2>1, <1>0, WaitPlace DEF Suspended
  <2>5. Children(t)' = {}
    BY <2>1, <2>3, <1>0 DEF Children
  <2>6. \A p \in Procs : /\ (Created(p)' <=> Created(p)) /\ (state'[p] = "UNUSED" <=> state[p] = "UNUSED")
                         /\ (state[p] \in Alive => state'[p] \in Alive)
    BY <2>2 DEF Created, Alive
  <2>7. ASSUME NEW u \in Procs PROVE KinInv(u)'
    <3>1. KinInv(u)
      BY <1>0
    <3>2. parent[u] = t => u # initproc /\ parent[u] # 0 /\ parent[u] # u
      BY <2>1, <2>3, <3>1 DEF KinInv
    <3>3. parent[u] \in Threads /\ parent'[u] = IF parent[u] = t THEN initproc ELSE parent[u]
      BY <2>1, <1>0
    <3>. QED
      BY <2>1, <2>3, <2>4, <2>5, <2>6, <3>1, <3>2, <3>3, Numbers DEF KinInv
  <2>. QED
    BY <2>7
<1>7. ASSUME NEW t \in Threads, ExitWakeParent(t) PROVE \A u \in Procs : KinInv(u)'
  <2>1. /\ cur = t /\ pc[t] = "e_wake" /\ pc' = [pc EXCEPT ![t] = "e_zombie"]
        /\ UNCHANGED <<parent, chan, pid, nextpid>>
    BY <1>7 DEF ExitWakeParent, At, Goto, memVars
  <2>2. \A p \in Procs : state'[p] = state[p] \/ (state'[p] = "RUNNABLE" /\ state[p] = "SLEEPING")
    BY <1>7, WakeupEffect DEF ExitWakeParent
  <2>3. \A u \in Procs : Children(u)' = Children(u)
    BY <2>1 DEF Children
  <2>4. \A p \in Procs : /\ (Created(p)' <=> Created(p)) /\ (state'[p] = "UNUSED" <=> state[p] = "UNUSED")
                         /\ (state[p] \in Alive => state'[p] \in Alive)
    BY <2>2 DEF Created, Alive
  <2>5. ASSUME NEW u \in Procs PROVE KinInv(u)'
    <3>1. KinInv(u) /\ parent[u] \in Threads
      BY <1>0
    <3>2. pc'[u] \in {"e_wake", "e_zombie"} => pc[u] \in {"e_wake", "e_zombie"}
      BY <2>1, <1>0
    <3>. QED
      BY <2>1, <2>3, <2>4, <3>1, <3>2, Numbers DEF KinInv
  <2>. QED
    BY <2>5
<1>8. ASSUME NEW t \in Threads, TrapReturn(t) PROVE \A u \in Procs : KinInv(u)'
  <2>1. /\ pc' = [pc EXCEPT ![t] = savedpc[t]] /\ savedpc[t] \notin {"e_wake", "e_zombie"}
        /\ UNCHANGED <<state, chan, parent, pid, nextpid>>
    BY <1>8, TrapReturnEffect DEF TrapReturn, tableVars, memVars, TaskFree
  <2>. QED
    BY <2>1, <1>0, Numbers DEF KinInv, Created, Children
<1>. USE <1>0, Here, Numbers DEF At, Goto, cpuVars, irqVars, tableVars, memVars, callVars,
   schedVars, KinInv, Created, Alive, Children, TaskFree
<1>9. ASSUME SchedulerStart PROVE \A u \in Procs : KinInv(u)'
  BY <1>9 DEF SchedulerStart
<1>10. ASSUME IntrOn PROVE \A u \in Procs : KinInv(u)'
  BY <1>10, IntrEffect DEF IntrOn
<1>11. ASSUME IntrOff PROVE \A u \in Procs : KinInv(u)'
  BY <1>11, IntrEffect DEF IntrOff
<1>12. ASSUME SchedulerSkip PROVE \A u \in Procs : KinInv(u)'
  BY <1>12, SchedulerSkipEffect DEF SchedulerSkip
<1>13. ASSUME SchedulerSwitch PROVE \A u \in Procs : KinInv(u)'
  BY <1>13, SchedulerSwitchEffect DEF SchedulerSwitch
<1>14. ASSUME SchedulerBack PROVE \A u \in Procs : KinInv(u)'
  BY <1>14, SchedulerBackEffect DEF SchedulerBack
<1>15. ASSUME SchedulerPassEnd PROVE \A u \in Procs : KinInv(u)'
  BY <1>15 DEF SchedulerPassEnd
<1>16. ASSUME Wfi PROVE \A u \in Procs : KinInv(u)'
  BY <1>16 DEF Wfi
<1>17. ASSUME NEW t \in Threads, AllocAcquire(t) PROVE \A u \in Procs : KinInv(u)'
  BY <1>17, AllocAcquireEffect DEF AllocAcquire, Take
<1>18. ASSUME NEW t \in Threads, AllocNext(t) PROVE \A u \in Procs : KinInv(u)'
  BY <1>18, AllocNextEffect DEF AllocNext
<1>19. ASSUME NEW t \in Threads, AllocFull(t) PROVE \A u \in Procs : KinInv(u)'
  BY <1>19 DEF AllocFull
<1>20. ASSUME NEW t \in Threads, CreateReturn(t) PROVE \A u \in Procs : KinInv(u)'
  BY <1>20 DEF CreateReturn
<1>21. ASSUME NEW t \in Threads, Forkret(t) PROVE \A u \in Procs : KinInv(u)'
  BY <1>21, ForkretEffect DEF Forkret
<1>22. ASSUME NEW t \in Threads, Sched(t) PROVE \A u \in Procs : KinInv(u)'
  BY <1>22, SchedEffect
<1>23. ASSUME NEW t \in Threads, WaitAcquire(t) PROVE \A u \in Procs : KinInv(u)'
  BY <1>23, WaitAcquireEffect DEF WaitAcquire, Take
<1>24. ASSUME NEW t \in Threads, WaitNoChildren(t) PROVE \A u \in Procs : KinInv(u)'
  BY <1>24, WaitNoChildrenEffect DEF WaitNoChildren, init_task
<1>25. ASSUME NEW t \in Threads, WaitSleep(t) PROVE \A u \in Procs : KinInv(u)'
  BY <1>25, WaitSleepEffect DEF WaitSleep, Sleep
<1>26. ASSUME NEW t \in Threads, SleepReturn(t) PROVE \A u \in Procs : KinInv(u)'
  BY <1>26, SleepReturnEffect DEF SleepReturn
<1>27. ASSUME NEW t \in Threads, SleepReacquire(t) PROVE \A u \in Procs : KinInv(u)'
  BY <1>27, SleepReacquireEffect DEF SleepReacquire, Take
<1>28. ASSUME NEW t \in Threads, TicksAcquire(t) PROVE \A u \in Procs : KinInv(u)'
  BY <1>28, TicksAcquireEffect DEF TicksAcquire, Take
<1>29. ASSUME NEW t \in Threads, TicksSleep(t) PROVE \A u \in Procs : KinInv(u)'
  BY <1>29, TicksSleepEffect DEF TicksSleep, Sleep
<1>30. ASSUME NEW t \in Threads, TicksRelease(t) PROVE \A u \in Procs : KinInv(u)'
  BY <1>30, TicksReleaseEffect DEF TicksRelease
<1>31. ASSUME NEW t \in Threads, ExitAcquire(t) PROVE \A u \in Procs : KinInv(u)'
  BY <1>31, ExitAcquireEffect DEF ExitAcquire, Take
<1>32. ASSUME NEW t \in Threads, ExitZombie(t) PROVE \A u \in Procs : KinInv(u)'
  BY <1>32, ExitZombieEffect DEF ExitZombie
<1>33. ASSUME NEW t \in Threads, YieldAcquire(t) PROVE \A u \in Procs : KinInv(u)'
  BY <1>33, YieldAcquireEffect DEF YieldAcquire
<1>34. ASSUME NEW t \in Threads, YieldReturn(t) PROVE \A u \in Procs : KinInv(u)'
  BY <1>34, YieldReturnEffect DEF YieldReturn
<1>35. ASSUME NEW t \in Threads, TimerInterrupt(t) PROVE \A u \in Procs : KinInv(u)'
  BY <1>35, TimerInterruptEffect DEF TimerInterrupt, Wakeup
<1>36. ASSUME NEW t \in Threads, TakeInterrupt(t) PROVE \A u \in Procs : KinInv(u)'
  BY <1>36, TakeInterruptEffect DEF TakeInterrupt
<1>37. ASSUME NEW t \in Procs, CallsOf(t) PROVE \A u \in Procs : KinInv(u)'
  BY <1>37 DEF CallsOf, CallCreate, CallWait, CallYield, CallSleep, CallReturn, CallExit, Call
<1>38. ASSUME NEW t \in Procs, NEW b \in BOOLEAN, CallIntr(t, b)
      PROVE  \A u \in Procs : KinInv(u)'
  BY <1>38, CallIntrEffect DEF CallIntr
<1>39. ASSUME TimerExpire PROVE \A u \in Procs : KinInv(u)'
  BY <1>39 DEF TimerExpire
<1>40. ASSUME NEW t \in Threads, PanicSpin(t) PROVE \A u \in Procs : KinInv(u)'
  BY <1>40 DEF PanicSpin, vars
<1>41. ASSUME NEW t \in Threads, ForkretCall(t) PROVE \A u \in Procs : KinInv(u)'
  BY <1>41, ForkretCallEffect
<1>. HIDE <1>0, Here, Numbers DEF At, Goto, cpuVars, irqVars, tableVars, memVars, callVars,
   schedVars, KinInv, Created, Alive, Children, TaskFree
<1>. QED
  BY <1>1, <1>2, <1>3, <1>4, <1>5, <1>6, <1>7, <1>8, <1>9, <1>10, <1>11, <1>12, <1>13, <1>14,
     <1>15, <1>16, <1>17, <1>18, <1>19, <1>20, <1>21, <1>22, <1>23, <1>24, <1>25, <1>26, <1>27,
     <1>28, <1>29, <1>30, <1>31, <1>32, <1>33, <1>34, <1>35, <1>36, <1>37, <1>38, <1>39, <1>40, <1>41,
     NextCases

(* No two processes have the same pid. *)
LEMMA UniqueStep ==
    ASSUME IInv, Next
    PROVE  Unique'
<1>0. /\ state \in [Procs -> States] /\ pid \in [Procs -> Nat] /\ nextpid \in Nat /\ parent \in [Procs -> Threads]
     /\ initproc \in Threads
     /\ (\A u \in Procs : KinInv(u)) /\ Unique
  BY DEF IInv, TypeOK, TreeInv
<1>1. ASSUME NEW t \in Threads, AllocFound(t) PROVE Unique'
  <2>1. AllocSlot(t)
    BY <1>1 DEF AllocFound
  <2>2. /\ slot[t] \in Procs /\ slot[t] # t /\ state[slot[t]] = "UNUSED" /\ state' = [state EXCEPT ![slot[t]] = "USED"]
        /\ pid' = [pid EXCEPT ![slot[t]] = nextpid] /\ nextpid' = nextpid + 1 /\ nextpid >= 1
        /\ UNCHANGED <<slot, chan, parent, initproc>>
    BY <2>1, AllocSlotEffect
  <2>3. initproc # 0 => initproc \in Procs /\ initproc # slot[t]
    BY <2>2, <1>0, Numbers DEF IInv, InitInv, Created
  <2>. QED
    BY <2>2, <2>3, <1>0 DEF Unique, KinInv
<1>2. ASSUME NEW t \in Threads, AllocNoMemory(t) PROVE Unique'
  <2>1. AllocSlot(t)
    BY <1>2 DEF AllocNoMemory
  <2>2. /\ slot[t] \in Procs /\ slot[t] # t /\ state[slot[t]] = "UNUSED" /\ state' = [state EXCEPT ![slot[t]] = "USED"]
        /\ pid' = [pid EXCEPT ![slot[t]] = nextpid] /\ nextpid' = nextpid + 1 /\ nextpid >= 1
        /\ UNCHANGED <<slot, chan, parent, initproc>>
    BY <2>1, AllocSlotEffect
  <2>3. initproc # 0 => initproc \in Procs /\ initproc # slot[t]
    BY <2>2, <1>0, Numbers DEF IInv, InitInv, Created
  <2>. QED
    BY <2>2, <2>3, <1>0 DEF Unique, KinInv
<1>3. ASSUME NEW t \in Threads, UserinitFinish(t) PROVE Unique'
  <2>0. PICK n \in Procs : n = slot[t]
    BY <1>3, UserinitFinishEffect
  <2>1. /\ cur = t /\ pc[t] = "u_fin" /\ state' = [state EXCEPT ![n] = "RUNNABLE"] /\ initproc' = n
        /\ pc' = [pc EXCEPT ![t] = "a_scan"] /\ UNCHANGED <<chan, parent, pid, nextpid>>
    BY <1>3, <2>0, UserinitFinishEffect DEF UserinitFinish, Start, Goto
  <2>2. t = 0
    BY <2>1, Here DEF TaskLabels, SlotLabels, OwnLabels, WaitLabels, TickLabels, TaskFree,
       SchedFree, TrapFree
  <2>3. state[n] = "USED" /\ parent[n] = 0 /\ pid[n] = 1
    BY <2>0, <2>1, <2>2 DEF IInv, StateInv, TreeInv, PidInv, KinInv, Created
  <2>. QED
    BY <2>1, <2>3, <1>0 DEF Unique
<1>4. ASSUME NEW t \in Threads, CreateFinish(t) PROVE Unique'
  <2>0. PICK n \in Procs : n = slot[t]
    BY <1>4, CreateFinishEffect
  <2>1. /\ cur = t /\ pc[t] = "c_fin" /\ state' = [state EXCEPT ![n] = "RUNNABLE"]
        /\ pc' = [pc EXCEPT ![t] = "c_ret"] /\ UNCHANGED <<chan, pid, nextpid, initproc>>
    BY <1>4, <2>0, CreateFinishEffect DEF CreateFinish, Start, Goto, memVars
  <2>2. state[n] = "USED" /\ parent[n] = 0 /\ n # t /\ cproc = t
    BY <2>0, <2>1, Here DEF IInv, StateInv, PlaceInv, TreeInv, KinInv, Created
  <2>3. parent' = [parent EXCEPT ![n] = t]
    BY <1>4, <2>0, <2>2, <1>0 DEF CreateFinish
  <2>4. n # initproc
    BY <2>2, Numbers DEF IInv, InitInv, Created
  <2>. QED
    BY <2>1, <2>2, <2>3, <2>4, <1>0 DEF Unique
<1>5. ASSUME NEW t \in Threads, WaitReap(t) PROVE Unique'
  <2>1. PICK np \in Zombies(t) : FreeProcess(np)
    BY <1>5 DEF WaitReap
  <2>2. /\ np \in Procs /\ state[np] = "ZOMBIE" /\ state' = [state EXCEPT ![np] = "UNUSED"] /\ pid' = [pid EXCEPT ![np] = 0]
        /\ parent' = [parent EXCEPT ![np] = 0] /\ chan' = [chan EXCEPT ![np] = 0]
        /\ UNCHANGED <<nextpid, initproc>>
    BY <1>5, <2>1 DEF WaitReap, FreeProcess, ClearSlot, Zombies, Children
  <2>3. np # initproc
    BY <2>2, Numbers DEF IInv, InitInv
  <2>. QED
    BY <2>2, <2>3, <1>0 DEF Unique
<1>6. ASSUME NEW t \in Threads, ExitReparent(t) PROVE Unique'
  <2>1. /\ cur = t /\ pc[t] = "e_reparent" /\ pc' = [pc EXCEPT ![t] = "e_wake"] /\ t # 0
        /\ parent' = [np \in Procs |-> IF parent[np] = t THEN initproc ELSE parent[np]]
        /\ UNCHANGED <<chan, pid, nextpid, initproc>>
    BY <1>6, Here DEF ExitReparent, At, Goto, memVars, BootLabels, SchedFree, TrapFree
  <2>2. \A p \in Procs : state'[p] = state[p] \/ (state'[p] = "RUNNABLE" /\ state[p] = "SLEEPING")
    BY <1>6, WakeupEffect DEF ExitReparent
  <2>3. /\ initproc \in Procs /\ initproc # t /\ initproc # 0 /\ parent[initproc] = 0
        /\ state[initproc] \in Alive
    <3>1. initproc # 0 /\ initproc \in Procs
      BY <2>1, Numbers DEF IInv, InitInv, TypeOK
    <3>2. Where(t) = "e_reparent"
      BY <2>1 DEF IInv, IrqInv, TrapInv, Where, TrapFree
    <3>3. initproc # t
      BY <3>1, <3>2 DEF IInv, InitInv, InitLabels
    <3>4. state[initproc] \in Alive
      BY <3>1, <1>0 DEF IInv, InitInv, Created, Alive, States
    <3>. QED
      BY <3>1, <3>3, <3>4 DEF IInv, TreeInv, Unique
  <2>. QED
    BY <2>1, <2>2, <2>3, <1>0 DEF Unique
<1>. USE <1>0, Here, Numbers DEF At, Goto, cpuVars, irqVars, tableVars, memVars, callVars,
   schedVars, Unique
<1>7. ASSUME SchedulerStart PROVE Unique'
  BY <1>7 DEF SchedulerStart
<1>8. ASSUME IntrOn PROVE Unique'
  BY <1>8, IntrEffect DEF IntrOn
<1>9. ASSUME IntrOff PROVE Unique'
  BY <1>9, IntrEffect DEF IntrOff
<1>10. ASSUME SchedulerSkip PROVE Unique'
  BY <1>10, SchedulerSkipEffect DEF SchedulerSkip
<1>11. ASSUME SchedulerSwitch PROVE Unique'
  BY <1>11, SchedulerSwitchEffect DEF SchedulerSwitch
<1>12. ASSUME SchedulerBack PROVE Unique'
  BY <1>12, SchedulerBackEffect DEF SchedulerBack
<1>13. ASSUME SchedulerPassEnd PROVE Unique'
  BY <1>13 DEF SchedulerPassEnd
<1>14. ASSUME Wfi PROVE Unique'
  BY <1>14 DEF Wfi
<1>15. ASSUME NEW t \in Threads, AllocAcquire(t) PROVE Unique'
  BY <1>15, AllocAcquireEffect DEF AllocAcquire, Take
<1>16. ASSUME NEW t \in Threads, AllocNext(t) PROVE Unique'
  BY <1>16, AllocNextEffect DEF AllocNext
<1>17. ASSUME NEW t \in Threads, AllocFull(t) PROVE Unique'
  BY <1>17 DEF AllocFull
<1>18. ASSUME NEW t \in Threads, CreateReturn(t) PROVE Unique'
  BY <1>18 DEF CreateReturn
<1>19. ASSUME NEW t \in Threads, Forkret(t) PROVE Unique'
  BY <1>19, ForkretEffect DEF Forkret
<1>20. ASSUME NEW t \in Threads, Sched(t) PROVE Unique'
  BY <1>20, SchedEffect
<1>21. ASSUME NEW t \in Threads, WaitAcquire(t) PROVE Unique'
  BY <1>21, WaitAcquireEffect DEF WaitAcquire, Take
<1>22. ASSUME NEW t \in Threads, WaitNoChildren(t) PROVE Unique'
  BY <1>22, WaitNoChildrenEffect DEF WaitNoChildren, init_task
<1>23. ASSUME NEW t \in Threads, WaitSleep(t) PROVE Unique'
  BY <1>23, WaitSleepEffect DEF WaitSleep, Sleep
<1>24. ASSUME NEW t \in Threads, SleepReturn(t) PROVE Unique'
  BY <1>24, SleepReturnEffect DEF SleepReturn
<1>25. ASSUME NEW t \in Threads, SleepReacquire(t) PROVE Unique'
  BY <1>25, SleepReacquireEffect DEF SleepReacquire, Take
<1>26. ASSUME NEW t \in Threads, TicksAcquire(t) PROVE Unique'
  BY <1>26, TicksAcquireEffect DEF TicksAcquire, Take
<1>27. ASSUME NEW t \in Threads, TicksSleep(t) PROVE Unique'
  BY <1>27, TicksSleepEffect DEF TicksSleep, Sleep
<1>28. ASSUME NEW t \in Threads, TicksRelease(t) PROVE Unique'
  BY <1>28, TicksReleaseEffect DEF TicksRelease
<1>29. ASSUME NEW t \in Threads, ExitAcquire(t) PROVE Unique'
  BY <1>29, ExitAcquireEffect DEF ExitAcquire, Take
<1>30. ASSUME NEW t \in Threads, ExitWakeParent(t) PROVE Unique'
  BY <1>30 DEF ExitWakeParent, Wakeup
<1>31. ASSUME NEW t \in Threads, ExitZombie(t) PROVE Unique'
  BY <1>31, ExitZombieEffect DEF ExitZombie
<1>32. ASSUME NEW t \in Threads, YieldAcquire(t) PROVE Unique'
  BY <1>32, YieldAcquireEffect DEF YieldAcquire
<1>33. ASSUME NEW t \in Threads, YieldReturn(t) PROVE Unique'
  BY <1>33, YieldReturnEffect DEF YieldReturn
<1>34. ASSUME NEW t \in Threads, TimerInterrupt(t) PROVE Unique'
  BY <1>34, TimerInterruptEffect DEF TimerInterrupt, Wakeup
<1>35. ASSUME NEW t \in Threads, TrapReturn(t) PROVE Unique'
  BY <1>35, TrapReturnEffect DEF TrapReturn
<1>36. ASSUME NEW t \in Threads, TakeInterrupt(t) PROVE Unique'
  BY <1>36, TakeInterruptEffect DEF TakeInterrupt
<1>37. ASSUME NEW t \in Procs, CallsOf(t) PROVE Unique'
  BY <1>37 DEF CallsOf, CallCreate, CallWait, CallYield, CallSleep, CallReturn, CallExit, Call
<1>38. ASSUME NEW t \in Procs, NEW b \in BOOLEAN, CallIntr(t, b) PROVE Unique'
  BY <1>38, CallIntrEffect DEF CallIntr
<1>39. ASSUME TimerExpire PROVE Unique'
  BY <1>39 DEF TimerExpire
<1>40. ASSUME NEW t \in Threads, PanicSpin(t) PROVE Unique'
  BY <1>40 DEF PanicSpin, vars
<1>41. ASSUME NEW t \in Threads, ForkretCall(t) PROVE Unique'
  BY <1>41, ForkretCallEffect
<1>. HIDE <1>0, Here, Numbers DEF At, Goto, cpuVars, irqVars, tableVars, memVars, callVars,
   schedVars, Unique
<1>. QED
  BY <1>1, <1>2, <1>3, <1>4, <1>5, <1>6, <1>7, <1>8, <1>9, <1>10, <1>11, <1>12, <1>13, <1>14,
     <1>15, <1>16, <1>17, <1>18, <1>19, <1>20, <1>21, <1>22, <1>23, <1>24, <1>25, <1>26, <1>27,
     <1>28, <1>29, <1>30, <1>31, <1>32, <1>33, <1>34, <1>35, <1>36, <1>37, <1>38, <1>39, <1>40, <1>41,
     NextCases

(* No wakeup is lost. *)
LEMMA WakeStep ==
    ASSUME IInv, Next
    PROVE  WakeInv'
<1>0. /\ WakeInv /\ cur \in Threads /\ pc \in [Threads -> Labels] /\ state \in [Procs -> States]
     /\ chan \in [Procs -> 0..TicksChan] /\ parent \in [Procs -> Threads]
  BY DEF IInv, TypeOK
<1>1. ASSUME NEW t \in Threads, AllocFound(t) PROVE WakeInv'
  <2>1. AllocSlot(t)
    BY <1>1 DEF AllocFound
  <2>2. /\ slot[t] \in Procs /\ slot[t] # t /\ state' = [state EXCEPT ![slot[t]] = "USED"]
        /\ UNCHANGED <<slot, chan, parent>>
    BY <2>1, AllocSlotEffect
  <2>3. \A u \in Procs : pc'[u] = "e_zombie" => pc[u] = "e_zombie"
    BY <1>1, AllocFoundEffect, <2>2, Numbers
  <2>4. \A u \in Procs : Children(u)' = Children(u) /\ Zombies(u)' \subseteq Zombies(u)
    BY <2>2, <1>0 DEF Children, Zombies
  <2>5. \A p \in Procs : state'[p] = "SLEEPING" => state[p] = "SLEEPING"
    BY <2>2, <1>0
  <2>6. \A p \in Procs : parent[p] \in Procs \cup {0}
    BY <1>0, Numbers
  <2>. QED
    BY <2>2, <2>3, <2>4, <2>5, <2>6, <1>0 DEF WakeInv, SleepInv
<1>2. ASSUME NEW t \in Threads, AllocNoMemory(t) PROVE WakeInv'
  <2>1. AllocSlot(t)
    BY <1>2 DEF AllocNoMemory
  <2>2. /\ slot[t] \in Procs /\ slot[t] # t /\ state' = [state EXCEPT ![slot[t]] = "USED"]
        /\ UNCHANGED <<slot, chan, parent>>
    BY <2>1, AllocSlotEffect
  <2>3. \A u \in Procs : pc'[u] = "e_zombie" => pc[u] = "e_zombie"
    BY <1>2, <2>2, <1>0, Numbers DEF AllocNoMemory, Goto
  <2>4. \A u \in Procs : Children(u)' = Children(u) /\ Zombies(u)' \subseteq Zombies(u)
    BY <2>2, <1>0 DEF Children, Zombies
  <2>5. \A p \in Procs : state'[p] = "SLEEPING" => state[p] = "SLEEPING"
    BY <2>2, <1>0
  <2>6. \A p \in Procs : parent[p] \in Procs \cup {0}
    BY <1>0, Numbers
  <2>. QED
    BY <2>2, <2>3, <2>4, <2>5, <2>6, <1>0 DEF WakeInv, SleepInv
<1>3. ASSUME NEW t \in Threads, CreateFinish(t) PROVE WakeInv'
  <2>0. PICK n \in Procs : n = slot[t]
    BY <1>3, CreateFinishEffect
  <2>1. /\ cur = t /\ pc[t] = "c_fin" /\ state' = [state EXCEPT ![n] = "RUNNABLE"]
        /\ pc' = [pc EXCEPT ![t] = "c_ret"] /\ chan' = chan
    BY <1>3, <2>0, CreateFinishEffect DEF CreateFinish, Start, Goto
  <2>2. parent[n] = 0 /\ (t # 0 => state[t] = "RUNNING")
    BY <2>0, <2>1, Here DEF IInv, StateInv, TreeInv, KinInv, Created
  <2>3. \A np \in Procs \ {n} : parent'[np] = parent[np]
    BY <1>3, <2>0, <1>0 DEF CreateFinish
  <2>4. parent'[n] = t
    BY <1>3, <2>0, <2>1, <2>2, <1>0, Here DEF CreateFinish
  <2>5. \A u \in Procs : pc'[u] # "e_zombie"
    BY <2>1, <1>0, WaitPlace DEF Suspended
  <2>6. \A u \in Procs : u # t => Children(u)' = Children(u) /\ Zombies(u)' = Zombies(u)
    <3>. SUFFICES ASSUME NEW u \in Procs,
       u # t PROVE Children(u)' = Children(u) /\ Zombies(u)' = Zombies(u)
      OBVIOUS
    <3>1. u # 0
      BY Numbers
    <3>2. Children(u)' = Children(u) /\ n \notin Children(u)
      BY <2>2, <2>3, <2>4, <3>1 DEF Children
    <3>. QED
      BY <2>1, <3>2, <1>0 DEF Zombies, Children
  <2>. QED
    BY <2>1, <2>2, <2>5, <2>6, <1>0, Numbers DEF WakeInv, SleepInv
<1>4. ASSUME NEW t \in Threads, WaitSleep(t) PROVE WakeInv'
  <2>1. /\ cur = t /\ pc[t] = "w_scan" /\ pc' = [pc EXCEPT ![t] = "sl_sched"] /\ t \in Procs
        /\ state' = [state EXCEPT ![t] = "SLEEPING"] /\ chan' = [chan EXCEPT ![t] = t] /\ parent' = parent
        /\ Children(t) # {} /\ Zombies(t) = {} /\ state[t] = "RUNNING"
    BY <1>4, WaitSleepEffect, Here DEF WaitSleep, Sleep, Goto
  <2>2. \A u \in Procs : Children(u)' = Children(u) /\ Zombies(u)' = Zombies(u)
    BY <2>1, <1>0 DEF Children, Zombies
  <2>3. \A u \in Procs : pc'[u] # "e_zombie"
    BY <2>1, <1>0, WaitPlace DEF Suspended
  <2>. QED
    BY <2>1, <2>2, <2>3, <1>0 DEF WakeInv, SleepInv
<1>5. ASSUME NEW t \in Threads, ExitReparent(t) PROVE WakeInv'
  <2>1. /\ cur = t /\ pc[t] = "e_reparent" /\ pc' = [pc EXCEPT ![t] = "e_wake"] /\ t \in Procs /\ cproc = t
        /\ parent' = [np \in Procs |-> IF parent[np] = t THEN initproc ELSE parent[np]] /\ UNCHANGED <<chan, initproc>>
        /\ state[t] = "RUNNING"
    BY <1>5, Here DEF ExitReparent, At, Goto, memVars, BootLabels, SchedFree, TrapFree
  <2>2. \A p \in Procs : state'[p] = state[p] \/ (state'[p] = "RUNNABLE" /\ state[p] = "SLEEPING")
    BY <1>5, WakeupEffect DEF ExitReparent
  <2>3. initproc # 0 /\ initproc # t
    <3>1. initproc # 0
      BY <2>1, Numbers DEF IInv, InitInv
    <3>2. Where(t) = "e_reparent"
      BY <2>1 DEF IInv, IrqInv, TrapInv, Where, TrapFree
    <3>. QED
      BY <3>1, <3>2 DEF IInv, InitInv, InitLabels
  <2>4. Zombies(t) # {} => ~(state'[initproc] = "SLEEPING" /\ chan[initproc] = initproc)
    BY <1>5, <2>1, <2>3, WakeupEffect, Numbers DEF ExitReparent, IInv, TypeOK
  <2>5. \A u \in Procs : pc'[u] # "e_zombie"
    BY <2>1, <1>0, WaitPlace DEF Suspended
  <2>6. ASSUME NEW p \in Procs, state'[p] = "SLEEPING", chan[p] = p
        PROVE  Children(p)' # {} /\ Zombies(p)' = {}
    <3>1. state[p] = "SLEEPING" /\ p # t
      BY <2>1, <2>2, <2>6
    <3>2. Children(p) # {} /\ Zombies(p) = {} /\ (p = initproc => Zombies(t) = {})
      BY <3>1, <2>4, <2>6, <1>0 DEF WakeInv, SleepInv
    <3>3. \A np \in Procs : parent'[np] = p => parent[np] = p \/ (p = initproc /\ parent[np] = t)
      BY <2>1
    <3>4. \A np \in Procs : parent[np] = p => parent'[np] = p
      BY <2>1, <3>1
    <3>5. Children(p) \subseteq Children(p)'
      BY <3>4 DEF Children
    <3>6. \A np \in Procs : state'[np] = "ZOMBIE" => state[np] = "ZOMBIE"
      BY <2>2
    <3>. QED
      BY <3>2, <3>3, <3>5, <3>6 DEF Children, Zombies
  <2>. QED
    BY <2>1, <2>5, <2>6, <1>0 DEF WakeInv, SleepInv
<1>6. ASSUME NEW t \in Threads, ExitWakeParent(t) PROVE WakeInv'
  <2>1. /\ cur = t /\ pc[t] = "e_wake" /\ pc' = [pc EXCEPT ![t] = "e_zombie"] /\ t \in Procs /\ cproc = t
        /\ UNCHANGED <<parent, chan>>
    BY <1>6, Here DEF ExitWakeParent, At, Goto, BootLabels, SchedFree, TrapFree
  <2>2. \A p \in Procs : state'[p] = state[p] \/ (state'[p] = "RUNNABLE" /\ state[p] = "SLEEPING")
    BY <1>6, WakeupEffect DEF ExitWakeParent
  <2>3. parent[t] # 0 => parent[t] \in Procs /\ parent[t] # t
    BY <2>1, <1>0, Numbers DEF IInv, TreeInv, KinInv
  <2>4. parent[t] # 0 => ~(state'[parent[t]] = "SLEEPING" /\ chan[parent[t]] = parent[t])
    BY <1>6, <2>1, <2>3, WakeupEffect DEF ExitWakeParent
  <2>5. \A u \in Procs : pc'[u] = "e_zombie" => u = t
    BY <2>1, <1>0, WaitPlace DEF Suspended
  <2>6. \A u \in Procs : Children(u)' = Children(u) /\ Zombies(u)' \subseteq Zombies(u)
    BY <2>1, <2>2 DEF Children, Zombies
  <2>. QED
    BY <2>1, <2>2, <2>4, <2>5, <2>6, <1>0 DEF WakeInv, SleepInv
<1>7. ASSUME NEW t \in Threads, TrapReturn(t) PROVE WakeInv'
  <2>1. /\ pc' = [pc EXCEPT ![t] = savedpc[t]] /\ savedpc[t] # "e_zombie"
        /\ UNCHANGED <<state, chan, parent>>
    BY <1>7, TrapReturnEffect DEF TrapReturn, tableVars, TaskFree
  <2>. QED
    BY <2>1, <1>0 DEF WakeInv, SleepInv, Children, Zombies
<1>. USE <1>0, Here, Numbers DEF At, Goto, cpuVars, irqVars, tableVars, memVars, callVars,
   schedVars, WakeInv, SleepInv, Children, Zombies, TaskFree
<1>8. ASSUME SchedulerStart PROVE WakeInv'
  BY <1>8 DEF SchedulerStart
<1>9. ASSUME IntrOn PROVE WakeInv'
  BY <1>9, IntrEffect DEF IntrOn
<1>10. ASSUME IntrOff PROVE WakeInv'
  BY <1>10, IntrEffect DEF IntrOff
<1>11. ASSUME SchedulerSkip PROVE WakeInv'
  BY <1>11, SchedulerSkipEffect DEF SchedulerSkip
<1>12. ASSUME SchedulerSwitch PROVE WakeInv'
  BY <1>12, SchedulerSwitchEffect DEF SchedulerSwitch
<1>13. ASSUME SchedulerBack PROVE WakeInv'
  BY <1>13, SchedulerBackEffect DEF SchedulerBack
<1>14. ASSUME SchedulerPassEnd PROVE WakeInv'
  BY <1>14 DEF SchedulerPassEnd
<1>15. ASSUME Wfi PROVE WakeInv'
  BY <1>15 DEF Wfi
<1>16. ASSUME NEW t \in Threads, AllocAcquire(t) PROVE WakeInv'
  BY <1>16, AllocAcquireEffect DEF AllocAcquire, Take
<1>17. ASSUME NEW t \in Threads, AllocNext(t) PROVE WakeInv'
  BY <1>17, AllocNextEffect DEF AllocNext
<1>18. ASSUME NEW t \in Threads, AllocFull(t) PROVE WakeInv'
  BY <1>18 DEF AllocFull
<1>19. ASSUME NEW t \in Threads, UserinitFinish(t) PROVE WakeInv'
  BY <1>19, UserinitFinishEffect DEF UserinitFinish, Start
<1>20. ASSUME NEW t \in Threads, CreateReturn(t) PROVE WakeInv'
  BY <1>20 DEF CreateReturn
<1>21. ASSUME NEW t \in Threads, Forkret(t) PROVE WakeInv'
  BY <1>21, ForkretEffect DEF Forkret
<1>22. ASSUME NEW t \in Threads, Sched(t) PROVE WakeInv'
  BY <1>22, SchedEffect
<1>23. ASSUME NEW t \in Threads, WaitAcquire(t) PROVE WakeInv'
  BY <1>23, WaitAcquireEffect DEF WaitAcquire, Take
<1>24. ASSUME NEW t \in Threads, WaitReap(t) PROVE WakeInv'
  BY <1>24, WaitReapEffect DEF WaitReap, FreeProcess, ClearSlot
<1>25. ASSUME NEW t \in Threads, WaitNoChildren(t) PROVE WakeInv'
  BY <1>25, WaitNoChildrenEffect DEF WaitNoChildren, init_task
<1>26. ASSUME NEW t \in Threads, SleepReturn(t) PROVE WakeInv'
  BY <1>26, SleepReturnEffect DEF SleepReturn
<1>27. ASSUME NEW t \in Threads, SleepReacquire(t) PROVE WakeInv'
  BY <1>27, SleepReacquireEffect DEF SleepReacquire, Take
<1>28. ASSUME NEW t \in Threads, TicksAcquire(t) PROVE WakeInv'
  BY <1>28, TicksAcquireEffect DEF TicksAcquire, Take
<1>29. ASSUME NEW t \in Threads, TicksSleep(t) PROVE WakeInv'
  BY <1>29, TicksSleepEffect DEF TicksSleep, Sleep
<1>30. ASSUME NEW t \in Threads, TicksRelease(t) PROVE WakeInv'
  BY <1>30, TicksReleaseEffect DEF TicksRelease
<1>31. ASSUME NEW t \in Threads, ExitAcquire(t) PROVE WakeInv'
  BY <1>31, ExitAcquireEffect DEF ExitAcquire, Take
<1>32. ASSUME NEW t \in Threads, ExitZombie(t) PROVE WakeInv'
  BY <1>32, ExitZombieEffect DEF ExitZombie
<1>33. ASSUME NEW t \in Threads, YieldAcquire(t) PROVE WakeInv'
  BY <1>33, YieldAcquireEffect DEF YieldAcquire
<1>34. ASSUME NEW t \in Threads, YieldReturn(t) PROVE WakeInv'
  BY <1>34, YieldReturnEffect DEF YieldReturn
<1>35. ASSUME NEW t \in Threads, TimerInterrupt(t) PROVE WakeInv'
  BY <1>35, TimerInterruptEffect DEF TimerInterrupt, Wakeup
<1>36. ASSUME NEW t \in Threads, TakeInterrupt(t) PROVE WakeInv'
  BY <1>36, TakeInterruptEffect DEF TakeInterrupt
<1>37. ASSUME NEW t \in Procs, CallsOf(t) PROVE WakeInv'
  BY <1>37 DEF CallsOf, CallCreate, CallWait, CallYield, CallSleep, CallReturn, CallExit, Call
<1>38. ASSUME NEW t \in Procs, NEW b \in BOOLEAN, CallIntr(t, b) PROVE WakeInv'
  BY <1>38, CallIntrEffect DEF CallIntr
<1>39. ASSUME TimerExpire PROVE WakeInv'
  BY <1>39 DEF TimerExpire
<1>40. ASSUME NEW t \in Threads, PanicSpin(t) PROVE WakeInv'
  BY <1>40 DEF PanicSpin, vars
<1>41. ASSUME NEW t \in Threads, ForkretCall(t) PROVE WakeInv'
  BY <1>41, ForkretCallEffect
<1>. HIDE <1>0, Here, Numbers DEF At, Goto, cpuVars, irqVars, tableVars, memVars, callVars,
   schedVars, WakeInv, SleepInv, Children, Zombies, TaskFree
<1>. QED
  BY <1>1, <1>2, <1>3, <1>4, <1>5, <1>6, <1>7, <1>8, <1>9, <1>10, <1>11, <1>12, <1>13, <1>14,
     <1>15, <1>16, <1>17, <1>18, <1>19, <1>20, <1>21, <1>22, <1>23, <1>24, <1>25, <1>26, <1>27,
     <1>28, <1>29, <1>30, <1>31, <1>32, <1>33, <1>34, <1>35, <1>36, <1>37, <1>38, <1>39, <1>40, <1>41,
     NextCases

(* The slots in use are finitely many. *)
LEMMA FiniteTable == IsFiniteSet(InUse) /\ Cardinality(InUse) \in Nat
<1>1. IsFiniteSet(Procs)
  BY ProcAssumption, FS_Interval DEF Procs
<1>2. InUse \subseteq Procs
  BY DEF InUse
<1>. QED
  BY <1>1, <1>2, FS_Subset, FS_CardinalityType

(* No page moves while no slot is filled or freed. *)
LEMMA PagesKept ==
    ASSUME IInv, pages' = pages, nfree' = nfree, pc[cur] # "panic" \/ locks = {},
           \A p \in Procs : state'[p] = "UNUSED" <=> state[p] = "UNUSED"
    PROVE  PageInv'
<1>1. InUse' = InUse
  BY DEF InUse
<1>. QED
  BY <1>1 DEF IInv, PageInv

(* Pages: a process in the table has its own, the others are free. *)
LEMMA PageStep ==
    ASSUME IInv, Next
    PROVE  PageInv'
<1>0. /\ PageInv /\ cur \in Threads /\ pc \in [Threads -> Labels] /\ state \in [Procs -> States]
     /\ pages \in [Procs -> 0..PagesPerProc] /\ nfree \in Nat
  BY DEF IInv, TypeOK
<1>1. ASSUME NEW t \in Threads, AllocFound(t) PROVE PageInv'
  <2>1. /\ AllocSlot(t) /\ pages' = [pages EXCEPT ![slot[t]] = PagesPerProc] /\ nfree' = nfree - PagesPerProc
        /\ nfree >= PagesPerProc
    BY <1>1 DEF AllocFound
  <2>2. /\ slot[t] \in Procs /\ state[slot[t]] = "UNUSED" /\ state' = [state EXCEPT ![slot[t]] = "USED"]
        /\ cur = t /\ pc[t] = "a_test"
    BY <2>1, AllocSlotEffect
  <2>3. InUse' = InUse \cup {slot[t]} /\ slot[t] \notin InUse
    BY <2>2, <1>0 DEF InUse
  <2>4. Cardinality(InUse') = Cardinality(InUse) + 1 /\ Cardinality(InUse) \in Nat
    BY <2>3, FiniteTable, FS_AddElement
  <2>5. /\ \A p \in Procs : pages[p] = IF p \in InUse THEN PagesPerProc ELSE 0
        /\ nfree + PagesPerProc * Cardinality(InUse) = TotalPages
    BY <2>2, <1>0 DEF PageInv
  <2>6. \A p \in Procs : pages'[p] = IF p \in InUse' THEN PagesPerProc ELSE 0
    BY <2>1, <2>2, <2>3, <2>5, <1>0
  <2>7. nfree' + PagesPerProc * Cardinality(InUse') = TotalPages
    BY <2>1, <2>4, <2>5, <1>0 DEF PagesPerProc
  <2>. QED
    BY <2>6, <2>7 DEF PageInv
<1>2. ASSUME NEW t \in Threads, UserinitFinish(t) PROVE PageInv'
  <2>1. /\ pages' = pages /\ nfree' = nfree /\ (pc[cur] # "panic" \/ locks = {})
        /\ \A p \in Procs : state'[p] = "UNUSED" <=> state[p] = "UNUSED"
    BY <1>2, UserinitFinishEffect, <1>0 DEF UserinitFinish, Start, memVars, tableVars, cpuVars,
       At, IInv, StateInv
  <2>. QED
    BY <2>1, PagesKept
<1>3. ASSUME NEW t \in Threads, CreateFinish(t) PROVE PageInv'
  <2>1. /\ pages' = pages /\ nfree' = nfree /\ (pc[cur] # "panic" \/ locks = {})
        /\ \A p \in Procs : state'[p] = "UNUSED" <=> state[p] = "UNUSED"
    BY <1>3, CreateFinishEffect, <1>0 DEF CreateFinish, Start, memVars, tableVars, cpuVars, At,
       IInv, StateInv
  <2>. QED
    BY <2>1, PagesKept
<1>4. ASSUME NEW t \in Threads, Sched(t) PROVE PageInv'
  <2>1. /\ pages' = pages /\ nfree' = nfree /\ (pc[cur] # "panic" \/ locks = {})
        /\ \A p \in Procs : state'[p] = "UNUSED" <=> state[p] = "UNUSED"
    BY <1>4, SchedEffect, <1>0 DEF memVars, tableVars, cpuVars, At
  <2>. QED
    BY <2>1, PagesKept
<1>5. ASSUME NEW t \in Threads, WaitReap(t) PROVE PageInv'
  <2>1. PICK np \in Zombies(t) : FreeProcess(np)
    BY <1>5 DEF WaitReap
  <2>2. /\ np \in Procs /\ state[np] = "ZOMBIE" /\ state' = [state EXCEPT ![np] = "UNUSED"]
        /\ pages' = [pages EXCEPT ![np] = 0] /\ nfree' = nfree + pages[np]
        /\ cur = t /\ pc[t] = "w_scan"
    BY <1>5, <2>1 DEF WaitReap, FreeProcess, ClearSlot, Zombies, Children, At
  <2>3. InUse' = InUse \ {np} /\ np \in InUse
    BY <2>2, <1>0 DEF InUse
  <2>4. Cardinality(InUse') = Cardinality(InUse) - 1 /\ Cardinality(InUse) \in Nat
    BY <2>3, FiniteTable, FS_RemoveElement
  <2>5. /\ \A p \in Procs : pages[p] = IF p \in InUse THEN PagesPerProc ELSE 0
        /\ nfree + PagesPerProc * Cardinality(InUse) = TotalPages
    BY <2>2, <1>0 DEF PageInv
  <2>6. \A p \in Procs : pages'[p] = IF p \in InUse' THEN PagesPerProc ELSE 0
    BY <2>2, <2>3, <2>5, <1>0
  <2>7. nfree' = nfree + PagesPerProc
    BY <2>2, <2>3, <2>5
  <2>8. nfree' + PagesPerProc * Cardinality(InUse') = TotalPages
    BY <2>4, <2>5, <2>7, <1>0 DEF PagesPerProc
  <2>. QED
    BY <2>6, <2>8 DEF PageInv
<1>6. ASSUME NEW t \in Threads, WaitSleep(t) PROVE PageInv'
  <2>1. /\ pages' = pages /\ nfree' = nfree /\ (pc[cur] # "panic" \/ locks = {})
        /\ \A p \in Procs : state'[p] = "UNUSED" <=> state[p] = "UNUSED"
    BY <1>6, WaitSleepEffect, Here, <1>0 DEF WaitSleep, Sleep, memVars, tableVars, cpuVars, At
  <2>. QED
    BY <2>1, PagesKept
<1>7. ASSUME NEW t \in Threads, TicksSleep(t) PROVE PageInv'
  <2>1. /\ pages' = pages /\ nfree' = nfree /\ (pc[cur] # "panic" \/ locks = {})
        /\ \A p \in Procs : state'[p] = "UNUSED" <=> state[p] = "UNUSED"
    BY <1>7, TicksSleepEffect, Here, <1>0 DEF TicksSleep, Sleep, memVars, tableVars, cpuVars, At
  <2>. QED
    BY <2>1, PagesKept
<1>8. ASSUME NEW t \in Threads, ExitReparent(t) PROVE PageInv'
  <2>1. /\ pages' = pages /\ nfree' = nfree /\ (pc[cur] # "panic" \/ locks = {})
        /\ \A p \in Procs : state'[p] = "UNUSED" <=> state[p] = "UNUSED"
    BY <1>8, WakeupEffect, <1>0 DEF ExitReparent, memVars, tableVars, cpuVars, At
  <2>. QED
    BY <2>1, PagesKept
<1>9. ASSUME NEW t \in Threads, ExitWakeParent(t) PROVE PageInv'
  <2>1. /\ pages' = pages /\ nfree' = nfree /\ (pc[cur] # "panic" \/ locks = {})
        /\ \A p \in Procs : state'[p] = "UNUSED" <=> state[p] = "UNUSED"
    BY <1>9, WakeupEffect, <1>0 DEF ExitWakeParent, memVars, tableVars, cpuVars, At
  <2>. QED
    BY <2>1, PagesKept
<1>10. ASSUME NEW t \in Threads, YieldAcquire(t) PROVE PageInv'
  <2>1. /\ pages' = pages /\ nfree' = nfree /\ (pc[cur] # "panic" \/ locks = {})
        /\ \A p \in Procs : state'[p] = "UNUSED" <=> state[p] = "UNUSED"
    BY <1>10, YieldAcquireEffect, Here, <1>0 DEF YieldAcquire, memVars, tableVars, cpuVars, At
  <2>. QED
    BY <2>1, PagesKept
<1>11. ASSUME NEW t \in Threads, TimerInterrupt(t) PROVE PageInv'
  <2>1. /\ pages' = pages /\ nfree' = nfree /\ (pc[cur] # "panic" \/ locks = {})
        /\ \A p \in Procs : state'[p] = "UNUSED" <=> state[p] = "UNUSED"
    BY <1>11, WakeupEffect, <1>0 DEF TimerInterrupt, memVars, tableVars, cpuVars, At
  <2>. QED
    BY <2>1, PagesKept
<1>12. ASSUME NEW t \in Threads, TakeInterrupt(t) PROVE PageInv'
  <2>1. /\ pages' = pages /\ nfree' = nfree /\ (pc[cur] # "panic" \/ locks = {})
        /\ \A p \in Procs : state'[p] = "UNUSED" <=> state[p] = "UNUSED"
    BY <1>12, TakeInterruptEffect, <1>0 DEF TakeInterrupt, memVars, tableVars, cpuVars, At
  <2>. QED
    BY <2>1, PagesKept
<1>13. ASSUME NEW t \in Procs, CallsOf(t) PROVE PageInv'
  <2>1. /\ pages' = pages /\ nfree' = nfree /\ (pc[cur] # "panic" \/ locks = {})
        /\ \A p \in Procs : state'[p] = "UNUSED" <=> state[p] = "UNUSED"
    BY <1>13, <1>0 DEF CallsOf, CallCreate, CallWait, CallYield, CallSleep, CallReturn, CallExit, Call,
       memVars, tableVars, cpuVars, At
  <2>. QED
    BY <2>1, PagesKept
<1>24. ASSUME NEW t \in Threads, AllocNoMemory(t) PROVE PageInv'
  <2>1. AllocSlot(t) /\ pc' = [pc EXCEPT ![t] = "panic"]
    BY <1>24 DEF AllocNoMemory, Goto
  <2>2. cur' = t /\ pc'[t] = "panic" /\ locks' # {}
    BY <2>1, <1>0, AllocSlotEffect
  <2>. QED
    BY <2>2 DEF PageInv
<1>. USE <1>0, Here, Numbers DEF At, Goto, cpuVars, irqVars, tableVars, memVars, callVars,
   schedVars, PageInv, InUse
<1>14. ASSUME SchedulerStart PROVE PageInv'
  BY <1>14 DEF SchedulerStart
<1>15. ASSUME IntrOn PROVE PageInv'
  BY <1>15, IntrEffect DEF IntrOn
<1>16. ASSUME IntrOff PROVE PageInv'
  BY <1>16, IntrEffect DEF IntrOff
<1>17. ASSUME SchedulerSkip PROVE PageInv'
  BY <1>17, SchedulerSkipEffect DEF SchedulerSkip
<1>18. ASSUME SchedulerSwitch PROVE PageInv'
  BY <1>18, SchedulerSwitchEffect DEF SchedulerSwitch
<1>19. ASSUME SchedulerBack PROVE PageInv'
  BY <1>19, SchedulerBackEffect DEF SchedulerBack
<1>20. ASSUME SchedulerPassEnd PROVE PageInv'
  BY <1>20 DEF SchedulerPassEnd
<1>21. ASSUME Wfi PROVE PageInv'
  BY <1>21 DEF Wfi
<1>22. ASSUME NEW t \in Threads, AllocAcquire(t) PROVE PageInv'
  BY <1>22, AllocAcquireEffect DEF AllocAcquire, Take
<1>23. ASSUME NEW t \in Threads, AllocNext(t) PROVE PageInv'
  BY <1>23, AllocNextEffect DEF AllocNext
<1>25. ASSUME NEW t \in Threads, AllocFull(t) PROVE PageInv'
  BY <1>25 DEF AllocFull
<1>26. ASSUME NEW t \in Threads, CreateReturn(t) PROVE PageInv'
  BY <1>26 DEF CreateReturn
<1>27. ASSUME NEW t \in Threads, Forkret(t) PROVE PageInv'
  BY <1>27, ForkretEffect DEF Forkret
<1>28. ASSUME NEW t \in Threads, WaitAcquire(t) PROVE PageInv'
  BY <1>28, WaitAcquireEffect DEF WaitAcquire, Take
<1>29. ASSUME NEW t \in Threads, WaitNoChildren(t) PROVE PageInv'
  BY <1>29, WaitNoChildrenEffect DEF WaitNoChildren, init_task
<1>30. ASSUME NEW t \in Threads, SleepReturn(t) PROVE PageInv'
  BY <1>30, SleepReturnEffect DEF SleepReturn
<1>31. ASSUME NEW t \in Threads, SleepReacquire(t) PROVE PageInv'
  BY <1>31, SleepReacquireEffect DEF SleepReacquire, Take
<1>32. ASSUME NEW t \in Threads, TicksAcquire(t) PROVE PageInv'
  BY <1>32, TicksAcquireEffect DEF TicksAcquire, Take
<1>33. ASSUME NEW t \in Threads, TicksRelease(t) PROVE PageInv'
  BY <1>33, TicksReleaseEffect DEF TicksRelease
<1>34. ASSUME NEW t \in Threads, ExitAcquire(t) PROVE PageInv'
  BY <1>34, ExitAcquireEffect DEF ExitAcquire, Take
<1>35. ASSUME NEW t \in Threads, ExitZombie(t) PROVE PageInv'
  BY <1>35, ExitZombieEffect DEF ExitZombie
<1>36. ASSUME NEW t \in Threads, YieldReturn(t) PROVE PageInv'
  BY <1>36, YieldReturnEffect DEF YieldReturn
<1>37. ASSUME NEW t \in Threads, TrapReturn(t) PROVE PageInv'
  BY <1>37, TrapReturnEffect DEF TrapReturn
<1>38. ASSUME NEW t \in Procs, NEW b \in BOOLEAN, CallIntr(t, b) PROVE PageInv'
  BY <1>38, CallIntrEffect DEF CallIntr
<1>39. ASSUME TimerExpire PROVE PageInv'
  BY <1>39 DEF TimerExpire
<1>40. ASSUME NEW t \in Threads, PanicSpin(t) PROVE PageInv'
  BY <1>40 DEF PanicSpin, vars
<1>41. ASSUME NEW t \in Threads, ForkretCall(t) PROVE PageInv'
  <2>1. /\ UNCHANGED <<state, pages, nfree, locks>> /\ locks = {}
    BY <1>41, ForkretCallEffect
  <2>. QED
    BY <2>1
<1>. HIDE <1>0, Here, Numbers DEF At, Goto, cpuVars, irqVars, tableVars, memVars, callVars,
   schedVars, PageInv, InUse
<1>. QED
  BY <1>1, <1>2, <1>3, <1>4, <1>5, <1>6, <1>7, <1>8, <1>9, <1>10, <1>11, <1>12, <1>13, <1>14,
     <1>15, <1>16, <1>17, <1>18, <1>19, <1>20, <1>21, <1>22, <1>23, <1>24, <1>25, <1>26, <1>27,
     <1>28, <1>29, <1>30, <1>31, <1>32, <1>33, <1>34, <1>35, <1>36, <1>37, <1>38, <1>39, <1>40, <1>41,
     NextCases

(* what no step may do to a thread that was interrupted *)
TrapKept(t) ==
    savedpc[t] # "none" =>
        \/ savedpc'[t] = savedpc[t] /\ pc'[t] \in {"t_tick", "y_acq", "y_sched", "y_back", "t_ret"}
        \/ savedpc'[t] = "none" /\ pc'[t] = savedpc[t] /\ hart'.sie

(* An interrupted thread stays in the handler until it returns from it. *)
LEMMA TrapStep ==
    ASSUME IInv, Next
    PROVE  \A u \in Threads : TrapKept(u)
<1>0. /\ cur \in Threads /\ pc \in [Threads -> Labels] /\ savedpc \in [Threads -> Labels]
     /\ \A u \in Threads : savedpc[u] # "none" =>
          pc[u] \in TrapFree \cup {"y_acq", "y_sched", "y_back"}
  BY DEF IInv, TypeOK, IrqInv, TrapInv
<1>. USE <1>0, Here, Numbers DEF At, Goto, cpuVars, irqVars, tableVars, memVars, callVars,
   schedVars, TrapKept, TrapFree
<1>1. ASSUME SchedulerStart PROVE \A u \in Threads : TrapKept(u)
  BY <1>1 DEF SchedulerStart
<1>2. ASSUME IntrOn PROVE \A u \in Threads : TrapKept(u)
  BY <1>2, IntrEffect DEF IntrOn
<1>3. ASSUME IntrOff PROVE \A u \in Threads : TrapKept(u)
  BY <1>3, IntrEffect DEF IntrOff
<1>4. ASSUME SchedulerSkip PROVE \A u \in Threads : TrapKept(u)
  BY <1>4, SchedulerSkipEffect DEF SchedulerSkip
<1>5. ASSUME SchedulerSwitch PROVE \A u \in Threads : TrapKept(u)
  BY <1>5, SchedulerSwitchEffect DEF SchedulerSwitch
<1>6. ASSUME SchedulerBack PROVE \A u \in Threads : TrapKept(u)
  BY <1>6, SchedulerBackEffect DEF SchedulerBack
<1>7. ASSUME SchedulerPassEnd PROVE \A u \in Threads : TrapKept(u)
  BY <1>7 DEF SchedulerPassEnd
<1>8. ASSUME Wfi PROVE \A u \in Threads : TrapKept(u)
  BY <1>8 DEF Wfi
<1>9. ASSUME NEW t \in Threads, AllocAcquire(t) PROVE \A u \in Threads : TrapKept(u)
  BY <1>9, AllocAcquireEffect DEF AllocAcquire, Take
<1>10. ASSUME NEW t \in Threads, AllocNext(t) PROVE \A u \in Threads : TrapKept(u)
  BY <1>10, AllocNextEffect DEF AllocNext
<1>11. ASSUME NEW t \in Threads, AllocFound(t) PROVE \A u \in Threads : TrapKept(u)
  BY <1>11, AllocFoundEffect, AllocSlotEffect DEF AllocFound
<1>12. ASSUME NEW t \in Threads, AllocNoMemory(t) PROVE \A u \in Threads : TrapKept(u)
  BY <1>12, AllocSlotEffect DEF AllocNoMemory
<1>13. ASSUME NEW t \in Threads, AllocFull(t) PROVE \A u \in Threads : TrapKept(u)
  BY <1>13 DEF AllocFull
<1>14. ASSUME NEW t \in Threads, UserinitFinish(t) PROVE \A u \in Threads : TrapKept(u)
  BY <1>14, UserinitFinishEffect DEF UserinitFinish, Start
<1>15. ASSUME NEW t \in Threads, CreateFinish(t) PROVE \A u \in Threads : TrapKept(u)
  BY <1>15, CreateFinishEffect DEF CreateFinish, Start
<1>16. ASSUME NEW t \in Threads, CreateReturn(t) PROVE \A u \in Threads : TrapKept(u)
  BY <1>16 DEF CreateReturn
<1>17. ASSUME NEW t \in Threads, Forkret(t) PROVE \A u \in Threads : TrapKept(u)
  BY <1>17, ForkretEffect DEF Forkret
<1>18. ASSUME NEW t \in Threads, Sched(t) PROVE \A u \in Threads : TrapKept(u)
  BY <1>18, SchedEffect
<1>19. ASSUME NEW t \in Threads, WaitAcquire(t) PROVE \A u \in Threads : TrapKept(u)
  BY <1>19, WaitAcquireEffect DEF WaitAcquire, Take
<1>20. ASSUME NEW t \in Threads, WaitReap(t) PROVE \A u \in Threads : TrapKept(u)
  BY <1>20, WaitReapEffect DEF WaitReap, FreeProcess, ClearSlot
<1>21. ASSUME NEW t \in Threads, WaitNoChildren(t) PROVE \A u \in Threads : TrapKept(u)
  BY <1>21, WaitNoChildrenEffect DEF WaitNoChildren, init_task
<1>22. ASSUME NEW t \in Threads, WaitSleep(t) PROVE \A u \in Threads : TrapKept(u)
  BY <1>22, WaitSleepEffect DEF WaitSleep, Sleep
<1>23. ASSUME NEW t \in Threads, SleepReturn(t) PROVE \A u \in Threads : TrapKept(u)
  BY <1>23, SleepReturnEffect DEF SleepReturn
<1>24. ASSUME NEW t \in Threads, SleepReacquire(t) PROVE \A u \in Threads : TrapKept(u)
  BY <1>24, SleepReacquireEffect DEF SleepReacquire, Take
<1>25. ASSUME NEW t \in Threads, TicksAcquire(t) PROVE \A u \in Threads : TrapKept(u)
  BY <1>25, TicksAcquireEffect DEF TicksAcquire, Take
<1>26. ASSUME NEW t \in Threads, TicksSleep(t) PROVE \A u \in Threads : TrapKept(u)
  BY <1>26, TicksSleepEffect DEF TicksSleep, Sleep
<1>27. ASSUME NEW t \in Threads, TicksRelease(t) PROVE \A u \in Threads : TrapKept(u)
  BY <1>27, TicksReleaseEffect DEF TicksRelease
<1>28. ASSUME NEW t \in Threads, ExitAcquire(t) PROVE \A u \in Threads : TrapKept(u)
  BY <1>28, ExitAcquireEffect DEF ExitAcquire, Take
<1>29. ASSUME NEW t \in Threads, ExitReparent(t) PROVE \A u \in Threads : TrapKept(u)
  BY <1>29 DEF ExitReparent, Wakeup
<1>30. ASSUME NEW t \in Threads, ExitWakeParent(t) PROVE \A u \in Threads : TrapKept(u)
  BY <1>30 DEF ExitWakeParent, Wakeup
<1>31. ASSUME NEW t \in Threads, ExitZombie(t) PROVE \A u \in Threads : TrapKept(u)
  BY <1>31, ExitZombieEffect DEF ExitZombie
<1>32. ASSUME NEW t \in Threads, YieldAcquire(t) PROVE \A u \in Threads : TrapKept(u)
  BY <1>32, YieldAcquireEffect DEF YieldAcquire
<1>33. ASSUME NEW t \in Threads, YieldReturn(t) PROVE \A u \in Threads : TrapKept(u)
  BY <1>33, YieldReturnEffect DEF YieldReturn
<1>34. ASSUME NEW t \in Threads, TimerInterrupt(t) PROVE \A u \in Threads : TrapKept(u)
  BY <1>34, TimerInterruptEffect DEF TimerInterrupt, Wakeup
<1>35. ASSUME NEW t \in Threads, TrapReturn(t) PROVE \A u \in Threads : TrapKept(u)
  BY <1>35, TrapReturnEffect DEF TrapReturn
<1>36. ASSUME NEW t \in Threads, TakeInterrupt(t) PROVE \A u \in Threads : TrapKept(u)
  BY <1>36, TakeInterruptEffect DEF TakeInterrupt
<1>37. ASSUME NEW t \in Procs, CallsOf(t) PROVE \A u \in Threads : TrapKept(u)
  BY <1>37 DEF CallsOf, CallCreate, CallWait, CallYield, CallSleep, CallReturn, CallExit, Call
<1>38. ASSUME NEW t \in Procs, NEW b \in BOOLEAN, CallIntr(t, b)
      PROVE  \A u \in Threads : TrapKept(u)
  BY <1>38, CallIntrEffect DEF CallIntr
<1>39. ASSUME TimerExpire PROVE \A u \in Threads : TrapKept(u)
  BY <1>39 DEF TimerExpire
<1>40. ASSUME NEW t \in Threads, PanicSpin(t) PROVE \A u \in Threads : TrapKept(u)
  BY <1>40 DEF PanicSpin, vars
<1>41. ASSUME NEW t \in Threads, ForkretCall(t) PROVE \A u \in Threads : TrapKept(u)
  BY <1>41, ForkretCallEffect
<1>. HIDE <1>0, Here, Numbers DEF At, Goto, cpuVars, irqVars, tableVars, memVars, callVars,
   schedVars, TrapKept, TrapFree
<1>. QED
  BY <1>1, <1>2, <1>3, <1>4, <1>5, <1>6, <1>7, <1>8, <1>9, <1>10, <1>11, <1>12, <1>13, <1>14,
     <1>15, <1>16, <1>17, <1>18, <1>19, <1>20, <1>21, <1>22, <1>23, <1>24, <1>25, <1>26, <1>27,
     <1>28, <1>29, <1>30, <1>31, <1>32, <1>33, <1>34, <1>35, <1>36, <1>37, <1>38, <1>39, <1>40, <1>41,
     NextCases

(* main() has just called userinit(). *)
LEMMA InitIInv == Init => IInv
<1>. SUFFICES ASSUME Init PROVE IInv
  OBVIOUS
<1>1. TypeOK
  <2>1. /\ hart \in [sie : BOOLEAN, noff : Nat, intena : BOOLEAN] /\ locks \subseteq LockIds
        /\ sintena \in [Threads -> BOOLEAN] /\ want \in [Threads -> BOOLEAN] /\ pending \in BOOLEAN /\ found \in BOOLEAN
    BY DEF Init
  <2>2. slot \in [Threads -> 1..NPROC + 1] /\ nfree \in Nat /\ nextpid \in Nat
    BY ProcAssumption DEF Init
  <2>. QED
    BY <2>1, <2>2, Numbers DEF Init, TypeOK, Labels, States, PagesPerProc
<1>2. CtlInv /\ LockInv
  BY Numbers DEF Init, CtlInv, LockInv, BootLabels, TaskFree, SchedFree, TrapFree, SlotLabels, OwnLabels,
     WaitLabels, TickLabels, Suspended
<1>3. IrqInv
  BY Numbers DEF Init, IrqInv, SieInv, TrapInv, Own, TaskFree, TrapFree, WaitLabels, TickLabels
<1>4. StateInv
  BY Numbers DEF Init, StateInv, PlaceInv
<1>5. InitInv /\ PassInv
  BY Numbers DEF Init, InitInv, HomeInv, Entry, PassInv, Where, Created, SleepLabels
<1>6. TreeInv /\ WakeInv
  BY Numbers DEF Init, TreeInv, KinInv, PidInv, Unique, MadeInv, Where, Created, WakeInv, SleepInv
<1>7. PageInv
  <2>1. InUse = {}
    BY DEF Init, InUse
  <2>. QED
    BY <2>1, FS_EmptySet, ProcAssumption DEF Init, PageInv, PagesPerProc
<1>. QED
  BY <1>1, <1>2, <1>3, <1>4, <1>5, <1>6, <1>7 DEF IInv

(* The inductive invariant is preserved by every step. *)
LEMMA NextIInv == IInv /\ [Next]_vars => IInv'
<1>. SUFFICES ASSUME IInv, [Next]_vars PROVE IInv'
  OBVIOUS
<1>1. CASE Next
  <2>1. TreeInv'
    BY <1>1, KinStep, PidStep, UniqueStep, MadeStep DEF TreeInv
  <2>. QED
    BY <1>1, <2>1, TypeStep, CtlStep, LockStep, IrqStep, StateStep, InitStep, PassStep, WakeStep, PageStep
       DEF IInv
<1>2. CASE UNCHANGED vars
  <2>. USE <1>2 DEF vars, cpuVars, irqVars, tableVars, memVars, callVars, schedVars
  <2>1. TypeOK' /\ CtlInv' /\ LockInv'
    BY DEF IInv, TypeOK, CtlInv, LockInv
  <2>2. IrqInv' /\ StateInv'
    BY DEF IInv, IrqInv, SieInv, TrapInv, Own, StateInv, PlaceInv
  <2>3. InitInv' /\ PassInv'
    BY DEF IInv, InitInv, HomeInv, Entry, PassInv, Where, Created
  <2>4. TreeInv'
    BY DEF IInv, TreeInv, KinInv, PidInv, Unique, MadeInv, Where, Created, Children
  <2>5. WakeInv' /\ PageInv'
    BY DEF IInv, WakeInv, SleepInv, Children, Zombies, PageInv, InUse
  <2>. QED
    BY <2>1, <2>2, <2>3, <2>4, <2>5 DEF IInv
<1>. QED
  BY <1>1, <1>2

(* The inductive invariant holds in every reachable state of the process   *)
(* system, whatever the tasks do and whenever the timer fires.             *)
THEOREM Invariance == Spec => []IInv
  BY InitIInv, NextIInv, PTL DEF Spec

-----------------------------------------------------------------------------
(* What TypeOK says holds in every reachable state.                        *)
THEOREM TypeCorrect == Spec => []TypeOK
<1>1. IInv => TypeOK
  BY DEF IInv
<1>. QED
  BY Invariance, <1>1, PTL

(* No assertion of acquire(), release(), pop_off(), sched(), sleep(),      *)
(* exit_process() or forkret() fails: LockInv and CtlInv say which lock    *)
(* the thread on the hart holds and that it is c->proc.                    *)
THEOREM Assertions == Spec => []NoPanic
<1>1. ASSUME IInv PROVE NoPanic
  <2>1. /\ cur \in Threads /\ lk \in [Threads -> {WaitLock, TicksLock}] /\ slot \in [Threads -> 1..NPROC + 1]
        /\ LockInv /\ CtlInv /\ (cur # 0 => cur \in Procs)
    BY <1>1, Numbers DEF IInv, TypeOK
  <2>2. pc[cur] \in IF cur = 0 THEN BootLabels ELSE TaskLabels
    BY <2>1 DEF CtlInv
  <2>3. Where(cur) = pc[cur] \/ pc[cur] \in {"t_tick", "t_ret", "y_acq", "y_sched", "y_back"}
    BY <1>1, <2>1 DEF IInv, IrqInv, TrapInv, Where, TrapFree
  <2>4. ToAcquire \cap locks = {}
    <3>1. pc[cur] = "w_scan" => Children(cur) \cup {cproc} \subseteq Procs
      BY <2>1, <2>2 DEF CtlInv, BootLabels, Children, SchedFree, TrapFree
    <3>2. pc[cur] \in {"sl_ticks", "e_zombie"} => cproc \in Procs
      BY <2>1, <2>2 DEF CtlInv, BootLabels, SchedFree, TrapFree
    <3>3. pc[cur] \in TaskFree \cup SchedFree \cup TrapFree => locks = {}
      BY <2>1 DEF LockInv
    <3>4. pc[cur] = "c_fin" => locks = {slot[cur]} /\ slot[cur] \in Procs
      BY <2>1 DEF LockInv, CtlInv, SlotLabels
    <3>5. pc[cur] \in WaitLabels => locks = {WaitLock}
      BY <2>1 DEF LockInv
    <3>6. pc[cur] = "sl_ticks" => locks = {TicksLock}
      BY <2>1 DEF LockInv, TickLabels
    <3>. QED
      BY <3>1, <3>2, <3>3, <3>4, <3>5, <3>6, Numbers DEF ToAcquire, TaskFree, SchedFree, TrapFree, WaitLabels
  <2>5. ToRelease \subseteq locks
    <3>1. pc[cur] = "sl_ticks" => lk[cur] = TicksLock
      BY <1>1, <2>1, <2>2, <2>3 DEF IInv, InitInv, HomeInv, Entry, BootLabels, SchedFree, TrapFree
    <3>2. pc[cur] \in {"forkret", "sl_back", "y_back"} => cproc = cur
      BY <2>1, <2>2 DEF CtlInv, BootLabels, SchedFree, TrapFree
    <3>. QED
      BY <2>1, <3>1, <3>2 DEF ToRelease, LockInv, SlotLabels, OwnLabels, WaitLabels, TickLabels
  <2>6. ToRelease # {} => ~hart.sie /\ hart.noff >= 1
    BY <2>1, <2>5 DEF LockInv
  <2>7. pc[cur] \in {"sl_sched", "e_sched", "y_sched"} =>
          /\ cproc = cur /\ cur \in locks /\ hart.noff = 1 /\ ~hart.sie /\ state[cur] # "RUNNING"
    <3>1. pc[cur] \in {"sl_sched", "e_sched", "y_sched"} => cur # 0
      BY <2>2 DEF BootLabels, SchedFree, TrapFree
    <3>2. pc[cur] \in {"sl_sched", "e_sched", "y_sched"} => state[cur] # "RUNNING"
      BY <1>1, <2>1, <3>1 DEF IInv, StateInv, PlaceInv
    <3>. QED
      BY <2>1, <3>1, <3>2 DEF CtlInv, LockInv, OwnLabels
  <2>8. pc[cur] \in {"y_acq", "sl_ticks", "e_acq", "e_zombie", "forkret", "sl_back", "y_back"} =>
          cproc = cur /\ cproc # 0
    BY <2>1, <2>2 DEF CtlInv, BootLabels, SchedFree, TrapFree
  <2>9. pc[cur] = "e_acq" => cur # initproc
    BY <1>1, <2>2, <2>3 DEF IInv, InitInv, InitLabels, BootLabels, SchedFree, TrapFree
  <2>10. pc[cur] = "forkret" \/ (pc[cur] = "f_call" /\ ~want[cur]) => home[cur] # "none"
    <3>1. pc[cur] \in {"forkret", "f_call"} => cur # 0 /\ state[cur] = "RUNNING"
      BY <1>1, <2>1, <2>2, Here DEF BootLabels, SchedFree, TrapFree
    <3>2. pc[cur] = "f_call" => home[cur] = Entry(cur) \/ want[cur]
      BY <1>1, <2>1, <3>1, Numbers DEF IInv, InitInv, HomeInv, Created
    <3>. QED
      BY <1>1, <2>1, <3>1, <3>2, Here DEF Entry
  <2>11. pc[cur] # "e_dead"
    BY <2>2 DEF BootLabels, TaskLabels, OwnLabels, WaitLabels, TickLabels, TaskFree, SchedFree, TrapFree
  <2>. QED
    BY <2>4, <2>5, <2>6, <2>7, <2>8, <2>9, <2>10, <2>11 DEF NoPanic
<1>. QED
  BY Invariance, <1>1, PTL

(* At most one process runs, it is c->proc, and nobody can take one that   *)
(* is being switched out: its p->lock is held until scheduler() is back.   *)
THEOREM Runner == Spec => []OneRunner
<1>1. ASSUME IInv PROVE OneRunner
  <2>1. cproc \in {0, cur} \/ pc[cur] = "s_back"
    BY <1>1 DEF IInv, CtlInv
  <2>2. ASSUME NEW p \in Procs
        PROVE  /\ state[p] = "RUNNING" => p = cur /\ p = cproc
               /\ p = cur => state[p] = "RUNNING" \/ p \in locks
               /\ state[p] = "RUNNABLE" /\ p \notin locks => pc[p] \in {"forkret", "y_back", "sl_back"}
    <3>1. PlaceInv(p) /\ p # 0
      BY <1>1, Numbers DEF IInv, StateInv
    <3>2. p = cur /\ pc[p] \in {"sl_sched", "e_sched", "y_sched"} => p \in locks
      BY <1>1 DEF IInv, LockInv, OwnLabels
    <3>3. p = cur => p = cproc
      BY <1>1, <3>1 DEF IInv, CtlInv
    <3>4. pc[p] = "y_sched" => p = cur
      BY <1>1, WaitPlace DEF Suspended
    <3>. QED
      BY <3>1, <3>2, <3>3, <3>4 DEF PlaceInv
  <2>. QED
    BY <2>1, <2>2 DEF OneRunner
<1>. QED
  BY Invariance, <1>1, PTL

(* A task finds SIE as it left it: push_off/pop_off, sched()'s intena and  *)
(* kerneltrap()'s sstatus together restore it.                             *)
THEOREM InterruptState == Spec => []InterruptStatePreserved
<1>1. ASSUME IInv PROVE InterruptStatePreserved
  <2>1. pc[cur] \in TaskFree => locks = {} /\ hart.noff = 0
    BY <1>1 DEF IInv, LockInv
  <2>2. pc[cur] \in TaskFree => (hart.sie <=> want[cur] /\ savedpc[cur] = "none")
    BY <1>1 DEF IInv, IrqInv, SieInv, Own
  <2>3. hart.sie \in BOOLEAN
    BY <1>1 DEF IInv, TypeOK
  <2>. QED
    BY <2>1, <2>2, <2>3 DEF InterruptStatePreserved, TaskFree
<1>. QED
  BY Invariance, <1>1, PTL

(* The slot create_process() reads p->pid from still belongs to its child. *)
THEOREM Child == Spec => []ChildStillThere
<1>1. ASSUME IInv PROVE ChildStillThere
  <2>. SUFFICES ASSUME NEW t \in Threads, "c_ret" \in {pc[t], savedpc[t]}
                PROVE  pid[slot[t]] # 0 /\ parent[slot[t]] = t
    BY DEF ChildStillThere
  <2>1. Where(t) = "c_ret"
    BY <1>1 DEF IInv, IrqInv, TrapInv, Where, TrapFree
  <2>2. slot[t] \in Procs /\ Created(slot[t]) /\ parent[slot[t]] = t
    BY <1>1, <2>1 DEF IInv, TreeInv, MadeInv
  <2>3. pid[slot[t]] \in 1..(nextpid - 1) /\ nextpid \in Nat
    BY <1>1, <2>2 DEF IInv, TypeOK, TreeInv, KinInv, Created
  <2>. QED
    BY <2>2, <2>3
<1>. QED
  BY Invariance, <1>1, PTL

(* scheduler() idles with interrupts off and nothing to run. *)
THEOREM Idle == Spec => []IdleOnlyWhenNothingRunnable
<1>1. IInv => IdleOnlyWhenNothingRunnable
  BY DEF IInv, PassInv, IdleOnlyWhenNothingRunnable
<1>. QED
  BY Invariance, <1>1, PTL

(* A process asleep in wait_process() has a child and no zombie to reap. *)
THEOREM NoLost == Spec => []NoLostWakeup
<1>1. IInv => NoLostWakeup
  BY DEF IInv, WakeInv, SleepInv, NoLostWakeup
<1>. QED
  BY Invariance, <1>1, PTL

(* p->parent is a process that has not exited. *)
THEOREM Parents == Spec => []ParentAlive
<1>1. ASSUME IInv PROVE ParentAlive
  <2>. SUFFICES ASSUME NEW p \in Procs, state[p] \notin {"UNUSED", "USED"}
                PROVE  \/ parent[p] = 0 /\ pid[p] \in {1, 2}
                       \/ /\ parent[p] \in Procs \ {p} /\ pid[p] > 2
                          /\ state[parent[p]] \in {"RUNNABLE", "RUNNING", "SLEEPING"}
    BY DEF ParentAlive
  <2>1. KinInv(p) /\ parent[p] \in Threads
    BY <1>1 DEF IInv, TypeOK, TreeInv
  <2>. QED
    BY <2>1, Numbers DEF KinInv, Created, Alive
<1>. QED
  BY Invariance, <1>1, PTL

(* No page is lost and none is freed twice. *)
THEOREM Pages == Spec => []PagesConserved
<1>1. ASSUME IInv PROVE PagesConserved
  <2>1. cur \in Threads /\ PageInv
    BY <1>1 DEF IInv, TypeOK
  <2>. QED
    BY <2>1 DEF PageInv, InUse, PagesConserved
<1>. QED
  BY Invariance, <1>1, PTL

(* An interrupted thread resumes where it was interrupted, whatever the    *)
(* others did in between: kerneltrap() restores its own sepc and sstatus.  *)
THEOREM Trap == Spec => TrapTransparent
<1>1. ASSUME IInv, [Next]_vars
      PROVE  [\A t \in Threads : TrapKept(t)]_vars
  BY <1>1, TrapStep
<1>2. Spec => [][\A t \in Threads : TrapKept(t)]_vars
  BY Invariance, <1>1, PTL DEF Spec
<1>. QED
  BY <1>2 DEF TrapTransparent, TrapKept
=============================================================================

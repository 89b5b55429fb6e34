--------------------------- MODULE SpinlockProof ----------------------------
(***************************************************************************)
(* For any set of harts and any finite set of locks, spinlock.c gives      *)
(* mutual exclusion with interrupts off, restores the interrupt state and  *)
(* never panics.                                                           *)
(*                                                                         *)
(* None of these is inductive by itself.  The inductive invariant adds who *)
(* possesses a lock while acquire or release is half way through (LockInv) *)
(* and counts noff: one for each lock held plus one while a call is between *)
(* its push_off and its pop_off (NestInv).                                 *)
(***************************************************************************)
EXTENDS Spinlock, FiniteSetTheorems, TLAPS

PushedLabels == AcqLabels \cup RelLabels \cup {"pop"}

(* whether hart c is between the push_off and the pop_off of a call *)
Pushed(c) == IF pc[c] \in PushedLabels THEN 1 ELSE 0

(* the interrupt state the code now running on c had with nothing pushed *)
Want(c) == base[c] /\ ~trap[c]

LockInv ==
    /\ \A c \in Cpus :
         /\ pc[c] \in AcqLabels \cup RelLabels => arg[c] \in Locks
         /\ pc[c] \in PushLabels \cup AcqLabels \cup RelLabels => arg[c] \notin held[c]
    /\ \A l \in Locks : locked[l] <=> \E c \in Cpus : l \in Poss(c)
    /\ \A c, d \in Cpus : c # d => Poss(c) \cap Poss(d) = {}
    /\ \A l \in Locks, c \in Cpus :
         owner[l] = c <=> l \in held[c] \/ (arg[c] = l /\ pc[c] \in {"rel_hold", "rel_own"})

NestInvOf(c) ==
    /\ noff[c] = Cardinality(held[c]) + Pushed(c)
    /\ noff[c] > 0 \/ pc[c] = "po_inc" => ~sie[c]
    /\ noff[c] = 0 /\ pc[c] # "po_inc" => sie[c] = Want(c)
    /\ noff[c] > 0 => intena[c] = Want(c)
    /\ noff[c] = 0 /\ pc[c] \in {"po_off", "po_inc"} => old[c] = Want(c)
    /\ trap[c] => /\ base[c]
                  /\ spc[c] \in {"run", "po_get", "po_off"}
                  /\ spc[c] = "po_off" => sold[c]

NestInv == \A c \in Cpus : NestInvOf(c)

IInv == TypeOK /\ LockInv /\ NestInv

-----------------------------------------------------------------------------
(* Every step of spinlock.c keeps the lock words, struct cpu and the code's *)
(* position in their types.                                                 *)
LEMMA TypeStep == ASSUME TypeOK, LockInv, NEW c \in Cpus, Step(c) PROVE TypeOK'
<1>. USE SpinlockAssumption DEF TypeOK, Labels, PushLabels, AcqLabels, RelLabels,
                                 hartVars, codeVars, trapVars
<1>1. ASSUME NEW l \in Locks, CallAcquire(c, l) PROVE TypeOK'
  BY <1>1 DEF CallAcquire, Goto
<1>2. ASSUME NEW l \in Locks, CallRelease(c, l) PROVE TypeOK'
  BY <1>2 DEF CallRelease, Goto
<1>3. ASSUME CallMyproc(c) PROVE TypeOK'
  BY <1>3 DEF CallMyproc, Goto
<1>4. ASSUME NEW b \in BOOLEAN, SetIntr(c, b) PROVE TypeOK'
  BY <1>4 DEF SetIntr
<1>5. ASSUME IntrGet(c) PROVE TypeOK'
  BY <1>5 DEF IntrGet, Goto
<1>6. ASSUME IntrOff(c) PROVE TypeOK'
  BY <1>6 DEF IntrOff, Goto
<1>7. ASSUME PushOff(c) PROVE TypeOK'
  BY <1>7 DEF PushOff, Goto
<1>8. ASSUME AcquireCheck(c) PROVE TypeOK'
  BY <1>8 DEF AcquireCheck, Goto
<1>9. ASSUME TestAndSet(c) PROVE TypeOK'
  BY <1>9 DEF TestAndSet, Goto
<1>10. ASSUME AcquireReturn(c) PROVE TypeOK'
  BY <1>10 DEF AcquireReturn, Goto, LockInv
<1>11. ASSUME ReleaseCheck(c) PROVE TypeOK'
  BY <1>11 DEF ReleaseCheck, Goto
<1>12. ASSUME ReleaseOwner(c) PROVE TypeOK'
  BY <1>12 DEF ReleaseOwner, Goto
<1>13. ASSUME ReleaseClear(c) PROVE TypeOK'
  BY <1>13 DEF ReleaseClear, Goto
<1>14. ASSUME PopOff(c) PROVE TypeOK'
  BY <1>14 DEF PopOff, Goto
<1>15. ASSUME TakeInterrupt(c) PROVE TypeOK'
  BY <1>15 DEF TakeInterrupt, Goto
<1>16. ASSUME Sret(c) PROVE TypeOK'
  BY <1>16 DEF Sret, Goto
<1>. QED
  BY <1>1, <1>2, <1>3, <1>4, <1>5, <1>6, <1>7, <1>8, <1>9, <1>10, <1>11, <1>12, <1>13, <1>14, <1>15, <1>16 DEF Step

(* The set of locks a hart is inside of is finite and its size is 0 only    *)
(* when it is empty.                                                        *)
LEMMA HeldFinite ==
    ASSUME TypeOK, NEW c \in Cpus
    PROVE  /\ IsFiniteSet(held[c])
           /\ Cardinality(held[c]) \in Nat
           /\ Cardinality(held[c]) = 0 <=> held[c] = {}
<1>1. IsFiniteSet(held[c])
  BY SpinlockAssumption, FS_Subset DEF TypeOK
<1>. QED
  BY <1>1, FS_CardinalityType, FS_EmptySet

(* Where an interrupt can be taken, nothing is pushed, no lock is held, the *)
(* interrupted code wants interrupts and is not itself a handler.           *)
LEMMA Interruptible ==
    ASSUME TypeOK, NestInv, NEW c \in Cpus, sie[c]
    PROVE  /\ noff[c] = 0 /\ held[c] = {}
           /\ pc[c] \in {"run", "po_get", "po_off"}
           /\ base[c] /\ ~trap[c]
<1>1. noff[c] = 0 /\ pc[c] # "po_inc"
  BY DEF NestInv, NestInvOf, TypeOK
<1>2. Cardinality(held[c]) = 0 /\ Pushed(c) = 0
  BY <1>1, HeldFinite DEF NestInv, NestInvOf, Pushed
<1>3. sie[c] = Want(c)
  BY <1>1 DEF NestInv, NestInvOf
<1>. QED
  BY <1>1, <1>2, <1>3, HeldFinite
     DEF Pushed, PushedLabels, TypeOK, Labels, PushLabels, AcqLabels, RelLabels, Want

(* Every step of spinlock.c keeps the account of who possesses which lock:  *)
(* locked, owner and the callers' critical sections agree.                  *)
LEMMA LockStep == ASSUME TypeOK, LockInv, NestInv, NEW c \in Cpus, Step(c) PROVE LockInv'
<1>. USE SpinlockAssumption DEF TypeOK, Labels, PushLabels, AcqLabels, RelLabels,
                                 hartVars, codeVars, trapVars, LockInv, Poss, OwningLabels
<1>1. ASSUME NEW l \in Locks, CallAcquire(c, l) PROVE LockInv'
  BY <1>1 DEF CallAcquire, Goto
<1>2. ASSUME NEW l \in Locks, CallRelease(c, l) PROVE LockInv'
  BY <1>2 DEF CallRelease, Goto
<1>3. ASSUME CallMyproc(c) PROVE LockInv'
  BY <1>3 DEF CallMyproc, Goto
<1>4. ASSUME NEW b \in BOOLEAN, SetIntr(c, b) PROVE LockInv'
  BY <1>4 DEF SetIntr
<1>5. ASSUME IntrGet(c) PROVE LockInv'
  BY <1>5 DEF IntrGet, Goto
<1>6. ASSUME IntrOff(c) PROVE LockInv'
  BY <1>6 DEF IntrOff, Goto
<1>7. ASSUME PushOff(c) PROVE LockInv'
  BY <1>7 DEF PushOff, Goto
<1>8. ASSUME AcquireCheck(c) PROVE LockInv'
  BY <1>8 DEF AcquireCheck, Goto
<1>9. ASSUME TestAndSet(c) PROVE LockInv'
  BY <1>9 DEF TestAndSet, Goto
<1>10. ASSUME AcquireReturn(c) PROVE LockInv'
  BY <1>10 DEF AcquireReturn, Goto
<1>11. ASSUME ReleaseCheck(c) PROVE LockInv'
  BY <1>11 DEF ReleaseCheck, Goto
<1>12. ASSUME ReleaseOwner(c) PROVE LockInv'
  BY <1>12 DEF ReleaseOwner, Goto
<1>13. ASSUME ReleaseClear(c) PROVE LockInv'
  BY <1>13 DEF ReleaseClear, Goto
<1>14. ASSUME PopOff(c) PROVE LockInv'
  BY <1>14 DEF PopOff, Goto
<1>15. ASSUME TakeInterrupt(c) PROVE LockInv'
  <2>1. held[c] = {} /\ pc[c] \in {"run", "po_get", "po_off"}
    BY <1>15, Interruptible DEF TakeInterrupt
  <2>2. \A d \in Cpus : Poss(d)' = Poss(d)
    BY <1>15, <2>1 DEF TakeInterrupt
  <2>. QED
    BY <1>15, <2>1, <2>2 DEF TakeInterrupt
<1>16. ASSUME Sret(c) PROVE LockInv'
  <2>1. spc[c] \in {"run", "po_get", "po_off"}
    BY <1>16 DEF Sret, NestInv, NestInvOf
  <2>. QED
    BY <1>16, <2>1 DEF Sret
<1>. QED
  BY <1>1, <1>2, <1>3, <1>4, <1>5, <1>6, <1>7, <1>8, <1>9, <1>10, <1>11, <1>12, <1>13, <1>14, <1>15, <1>16 DEF Step

(* Every step on one hart leaves the nesting state of the others alone.     *)
LEMMA NestOther ==
    ASSUME TypeOK, NestInv, NEW c \in Cpus, Step(c), NEW d \in Cpus \ {c}
    PROVE  NestInvOf(d)'
<1>. UNCHANGED <<noff[d], sie[d], intena[d], pc[d], old[d], held[d],
                 trap[d], spc[d], sold[d], base[d]>>
  BY DEF Step, CallAcquire, CallRelease, CallMyproc, SetIntr, IntrGet, IntrOff, PushOff,
         AcquireCheck, TestAndSet, AcquireReturn, ReleaseCheck, ReleaseOwner, ReleaseClear,
         PopOff, TakeInterrupt, Sret, Goto, TypeOK, hartVars, codeVars, trapVars
<1>. QED
  BY DEF NestInv, NestInvOf, Pushed, Want

(* Every step of spinlock.c on a hart keeps its noff, intena and SIE in     *)
(* step with the locks it is inside of.                                     *)
LEMMA NestSelf ==
    ASSUME TypeOK, LockInv, NestInv, NEW c \in Cpus, Step(c) PROVE NestInvOf(c)'
<1>. NestInvOf(c)
  BY DEF NestInv
<1>fin. /\ IsFiniteSet(held[c])
        /\ Cardinality(held[c]) \in Nat
        /\ Cardinality(held[c]) = 0 <=> held[c] = {}
  BY HeldFinite
<1>. USE SpinlockAssumption
     DEF TypeOK, Labels, PushLabels, AcqLabels, RelLabels, PushedLabels,
         hartVars, codeVars, trapVars, NestInvOf, Pushed, Want
<1>1. ASSUME NEW l \in Locks, CallAcquire(c, l) PROVE NestInvOf(c)'
  BY <1>1 DEF CallAcquire, Goto
<1>2. ASSUME NEW l \in Locks, CallRelease(c, l) PROVE NestInvOf(c)'
  <2>1. l \in held[c] /\ held'[c] = held[c] \ {l}
    BY <1>2 DEF CallRelease
  <2>2. Cardinality(held'[c]) = Cardinality(held[c]) - 1
    BY ONLY <2>1, <1>fin, FS_RemoveElement
  <2>3. held[c] # {} /\ Cardinality(held[c]) > 0
    BY <2>1, <1>fin
  <2>. QED
    BY <1>2, <1>fin, <2>2, <2>3 DEF CallRelease, Goto
<1>3. ASSUME CallMyproc(c) PROVE NestInvOf(c)'
  BY <1>3 DEF CallMyproc, Goto
<1>4. ASSUME NEW b \in BOOLEAN, SetIntr(c, b) PROVE NestInvOf(c)'
  <2>1. noff[c] = 0 /\ noff'[c] = 0 /\ pc'[c] = "run" /\ ~trap'[c] /\ held'[c] = held[c]
    BY <1>4, <1>fin DEF SetIntr
  <2>2. sie'[c] = b /\ base'[c] = b
    BY <1>4 DEF SetIntr
  <2>3. sie'[c] = Want(c)'
    BY <2>1, <2>2
  <2>4. /\ UNCHANGED <<pc[c], held[c], noff[c]>> /\ Pushed(c)' = 0
    BY <1>4 DEF SetIntr
  <2>. QED
    BY <1>fin, <2>1, <2>3, <2>4
<1>5. ASSUME IntrGet(c) PROVE NestInvOf(c)'
  BY <1>5 DEF IntrGet, Goto
<1>6. ASSUME IntrOff(c) PROVE NestInvOf(c)'
  BY <1>6 DEF IntrOff, Goto
<1>7. ASSUME PushOff(c) PROVE NestInvOf(c)'
  BY <1>7, <1>fin DEF PushOff, Goto
<1>8. ASSUME AcquireCheck(c) PROVE NestInvOf(c)'
  BY <1>8 DEF AcquireCheck, Goto
<1>9. ASSUME TestAndSet(c) PROVE NestInvOf(c)'
  BY <1>9 DEF TestAndSet, Goto
<1>10. ASSUME AcquireReturn(c) PROVE NestInvOf(c)'
  <2>1. arg[c] \notin held[c]
    BY <1>10 DEF AcquireReturn, Goto, LockInv
  <2>2. held'[c] = held[c] \cup {arg[c]}
    BY <1>10 DEF AcquireReturn
  <2>3. Cardinality(held'[c]) = Cardinality(held[c]) + 1
    BY ONLY <2>1, <2>2, <1>fin, FS_AddElement
  <2>. QED
    BY <1>10, <1>fin, <2>3 DEF AcquireReturn, Goto
<1>11. ASSUME ReleaseCheck(c) PROVE NestInvOf(c)'
  BY <1>11 DEF ReleaseCheck, Goto
<1>12. ASSUME ReleaseOwner(c) PROVE NestInvOf(c)'
  BY <1>12 DEF ReleaseOwner, Goto
<1>13. ASSUME ReleaseClear(c) PROVE NestInvOf(c)'
  BY <1>13 DEF ReleaseClear, Goto
<1>14. ASSUME PopOff(c) PROVE NestInvOf(c)'
  <2>1. /\ pc[c] = "pop" /\ pc'[c] = "run" /\ noff'[c] = noff[c] - 1
        /\ UNCHANGED <<held[c], intena[c], old[c], trap[c], spc[c], sold[c], base[c]>>
    BY <1>14 DEF PopOff, Goto
  <2>2. noff[c] > 0 /\ ~sie[c]
    BY <1>14 DEF PopOff
  <2>3. intena[c] = Want(c)
    BY <2>2
  <2>4. noff'[c] = Cardinality(held'[c]) + Pushed(c)'
    BY <1>fin, <2>1
  <2>5. CASE noff'[c] = 0
    <3>1. sie'[c] = intena[c]
      BY <1>14, <2>2, <2>3, <2>5 DEF PopOff
    <3>2. Want(c)' = Want(c)
      BY <2>1
    <3>. QED
      BY <2>1, <2>2, <2>3, <2>4, <2>5, <3>1, <3>2
  <2>6. CASE noff'[c] # 0
    <3>1. ~sie'[c]
      BY <1>14, <2>2, <2>3, <2>6 DEF PopOff
    <3>. QED
      BY <2>1, <2>2, <2>3, <2>4, <2>6, <3>1
  <2>. QED
    BY <2>5, <2>6
<1>15. ASSUME TakeInterrupt(c) PROVE NestInvOf(c)'
  <2>1. /\ noff[c] = 0 /\ held[c] = {} /\ base[c] /\ ~trap[c]
        /\ pc[c] \in {"run", "po_get", "po_off"}
    BY <1>15, Interruptible DEF TakeInterrupt
  <2>2. pc[c] = "po_off" => old[c]
    BY <2>1
  <2>3. /\ pc'[c] = "run" /\ sie'[c] = FALSE /\ trap'[c] = TRUE
        /\ spc'[c] = pc[c] /\ sold'[c] = old[c]
        /\ UNCHANGED <<noff[c], held[c], base[c], intena[c]>>
    BY <1>15 DEF TakeInterrupt
  <2>4. Want(c)' = FALSE
    BY <2>3
  <2>. QED
    BY <1>fin, <2>1, <2>2, <2>3, <2>4
<1>16. ASSUME Sret(c) PROVE NestInvOf(c)'
  <2>1. /\ noff[c] = 0 /\ base[c]
        /\ spc[c] \in {"run", "po_get", "po_off"} /\ (spc[c] = "po_off" => sold[c])
    BY <1>16, <1>fin DEF Sret
  <2>2. /\ pc'[c] = spc[c] /\ sie'[c] = TRUE /\ ~trap'[c] /\ old'[c] = sold[c]
        /\ UNCHANGED <<noff[c], held[c], base[c], intena[c]>>
    BY <1>16 DEF Sret
  <2>3. Want(c)' = TRUE
    BY <2>1, <2>2
  <2>4. Pushed(c)' = 0 /\ Cardinality(held'[c]) = 0
    BY <1>16, <1>fin, <2>1, <2>2 DEF Sret
  <2>5. sie'[c] = Want(c)' /\ (pc'[c] = "po_off" => old'[c] = Want(c)')
    BY <2>1, <2>2, <2>3
  <2>. QED
    BY <2>1, <2>2, <2>4, <2>5
<1>. QED
  BY <1>1, <1>2, <1>3, <1>4, <1>5, <1>6, <1>7, <1>8, <1>9, <1>10, <1>11, <1>12, <1>13, <1>14, <1>15, <1>16 DEF Step

-----------------------------------------------------------------------------
(* initlock() and the zeroed cpus[] establish the invariant. *)
LEMMA InitIInv == Init => IInv
<1>. SUFFICES ASSUME Init PROVE IInv
  OBVIOUS
<1>1. TypeOK
  BY DEF Init, TypeOK, Labels
<1>2. LockInv
  BY SpinlockAssumption DEF Init, LockInv, Poss, OwningLabels, AcqLabels, RelLabels, PushLabels
<1>3. NestInv
  BY FS_EmptySet DEF Init, NestInv, NestInvOf, Pushed, PushedLabels, AcqLabels, RelLabels, Want
<1>. QED
  BY <1>1, <1>2, <1>3 DEF IInv

(* Every step of every hart, and every stuttering step, keeps it. *)
LEMMA NextIInv == IInv /\ [Next]_vars => IInv'
<1>. SUFFICES ASSUME IInv, [Next]_vars PROVE IInv'
  OBVIOUS
<1>1. ASSUME NEW c \in Cpus, Step(c) PROVE IInv'
  <2>. TypeOK /\ LockInv /\ NestInv
    BY DEF IInv
  <2>1. TypeOK' /\ LockInv'
    BY <1>1, TypeStep, LockStep
  <2>2. NestInv'
    BY <1>1, NestSelf, NestOther DEF NestInv
  <2>. QED
    BY <2>1, <2>2 DEF IInv
<1>2. ASSUME UNCHANGED vars PROVE IInv'
  BY <1>2 DEF IInv, vars, hartVars, codeVars, trapVars, TypeOK, LockInv, Poss,
              NestInv, NestInvOf, Pushed, Want
<1>. QED
  BY <1>1, <1>2 DEF Next

(* The invariant holds in every reachable state of spinlock.c. *)
THEOREM Invariance == Spec => []IInv
  BY InitIInv, NextIInv, PTL DEF Spec

(* Lock words, struct cpu and the code's position keep their types. *)
THEOREM TypeCorrect == Spec => []TypeOK
<1>1. IInv => TypeOK
  BY DEF IInv
<1>. QED
  BY <1>1, Invariance, PTL

(* acquire() and release() exclude: for any harts and locks, no lock is     *)
(* inside two critical sections.                                            *)
THEOREM Exclusion == Spec => []MutualExclusion
<1>1. IInv => MutualExclusion
  BY DEF IInv, LockInv, MutualExclusion, Poss
<1>. QED
  BY <1>1, Invariance, PTL

(* A hart inside a critical section runs with SIE clear, so no handler can  *)
(* run there and deadlock on the lock.                                      *)
THEOREM Uninterrupted == Spec => []InterruptsOffInCriticalSection
<1>1. IInv => InterruptsOffInCriticalSection
  BY Interruptible DEF IInv, InterruptsOffInCriticalSection
<1>. QED
  BY <1>1, Invariance, PTL

(* The panics of acquire(), release() and pop_off() are unreachable. *)
THEOREM PanicFree == Spec => []NoPanic
<1>1. ASSUME IInv, NEW c \in Cpus, pc[c] = "acq_hold" PROVE ~holding(c, arg[c])
  BY <1>1 DEF IInv, LockInv, holding, AcqLabels
<1>2. ASSUME IInv, NEW c \in Cpus, pc[c] = "rel_hold" PROVE holding(c, arg[c])
  BY <1>2 DEF IInv, LockInv, holding, RelLabels, OwningLabels, Poss
<1>3. ASSUME IInv, NEW c \in Cpus, pc[c] = "pop" PROVE ~sie[c] /\ noff[c] >= 1
  <2>1. noff[c] = Cardinality(held[c]) + 1 /\ Cardinality(held[c]) \in Nat
    BY <1>3, HeldFinite DEF IInv, NestInv, NestInvOf, Pushed, PushedLabels
  <2>. QED
    BY <1>3, <2>1 DEF IInv, NestInv, NestInvOf
<1>4. IInv => NoPanic
  BY <1>1, <1>2, <1>3 DEF NoPanic
<1>. QED
  BY <1>4, Invariance, PTL

(* push_off() and pop_off() are matched and restore the interrupt state the *)
(* code had, handlers in between included.                                  *)
THEOREM Restored == Spec => []InterruptStateRestored
<1>1. ASSUME IInv, NEW c \in Cpus, pc[c] = "run", held[c] = {}
      PROVE  noff[c] = 0 /\ sie[c] = (base[c] /\ ~trap[c])
  <2>1. noff[c] = 0
    BY <1>1, HeldFinite DEF IInv, NestInv, NestInvOf, Pushed, PushedLabels, AcqLabels, RelLabels
  <2>. QED
    BY <1>1, <2>1 DEF IInv, NestInv, NestInvOf, Want
<1>2. IInv => InterruptStateRestored
  BY <1>1 DEF InterruptStateRestored
<1>. QED
  BY <1>2, Invariance, PTL

(* acquire() only ever waits for another hart: no hart spins on a lock that *)
(* it has itself, inside a handler or not.                                  *)
THEOREM NoSelfWait == Spec => []WaitsOnlyForOthers
<1>1. ASSUME IInv, NEW c \in Cpus, pc[c] = "acq_swap", locked[arg[c]]
      PROVE  \E d \in Cpus \ {c} : arg[c] \in Poss(d)
  <2>1. arg[c] \in Locks /\ arg[c] \notin held[c]
    BY <1>1 DEF IInv, LockInv, AcqLabels
  <2>2. PICK d \in Cpus : arg[c] \in Poss(d)
    BY <1>1, <2>1 DEF IInv, LockInv
  <2>3. arg[c] \notin Poss(c)
    BY <1>1, <2>1 DEF Poss, OwningLabels
  <2>. QED
    BY <2>2, <2>3
<1>2. IInv => WaitsOnlyForOthers
  BY <1>1 DEF WaitsOnlyForOthers
<1>. QED
  BY <1>2, Invariance, PTL

NeverSpins ==
    \A c \in Cpus : pc[c] = "acq_swap" => ~locked[arg[c]]

(* With a single hart no acquire() ever waits, although the kernel nests    *)
(* its locks in both orders.                                                *)
THEOREM OneHartNeverSpins ==
    ASSUME \A c, d \in Cpus : c = d
    PROVE  Spec => []NeverSpins
<1>1. WaitsOnlyForOthers => NeverSpins
  BY DEF WaitsOnlyForOthers, NeverSpins
<1>. QED
  BY <1>1, NoSelfWait, PTL
=============================================================================

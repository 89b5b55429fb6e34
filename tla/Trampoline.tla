----------------------------- MODULE Trampoline -----------------------------
(***************************************************************************)
(* uservec and userret of kernel/trampoline.S: the way of a user process's *)
(* registers through the page mapped at TRAPFRAME and back, with traps of  *)
(* several processes interleaved on one hart.  MappedAt says which page    *)
(* each user page table maps at TRAPFRAME; the kernel itself writes to     *)
(* p->trapframe, Own(p).  usertrap() and usertrapret(), which this         *)
(* repository does not have yet, are external:                             *)
(* they fill the kernel's part of p->trapframe, use every register and may *)
(* go back to another process than the one that trapped.  Interrupts are   *)
(* off from the trap to sret, so a run of stores is one step.  Of the      *)
(* registers that are saved alike, one stands for all: "ra" for ra, gp,    *)
(* t2-t6, s0-s11 and a1-a7.                                                *)
(*                                                                         *)
(* The code runs on through csrw satp only if the kernel's page table maps *)
(* TRAMPOLINE too, as trampoline.S:5-8 says it does.  kvminit() does not   *)
(* map it; KernelMapsTrampoline is TRUE for a kernel that would.           *)
(***************************************************************************)
CONSTANTS Procs, MappedAt, Values, KernelMapsTrampoline

Own(p) == <<"trapframe", p>>
FramePages == UNION {{Own(p), MappedAt[p]} : p \in Procs}
Saved == {"ra", "sp", "tp", "t0", "t1"}        \* stored at once
Regs == Saved \cup {"a0"}
Slots == Regs \cup {"kernel_satp", "kernel_sp", "kernel_trap", "kernel_hartid"}

KernelTable == <<"kernel">>       \* the kernel's page table
usertrap == <<"usertrap">>
Hartid == <<"hart0">>
Junk == <<"junk">>
TrapframeVA == <<"TRAPFRAME">>
Stack(p) == <<"kstack", p>>

(* what user code computes, told apart by process, register and time *)
Contents(p, v) == [r \in Regs |-> <<p, r, v>>]

VARIABLES reg,        \* the hart's registers
          sscratch, satp,
          frame,      \* the contents of the pages mapped at TRAPFRAME
          cur,        \* the process that runs or trapped last
          user,       \* history: each process's registers as it left them
          pc

vars == <<reg, sscratch, satp, frame, cur, user, pc>>

(* the kernel is about to enter each process for the first time, with its  *)
(* registers in p->trapframe                                               *)
Init ==
    /\ \E v \in Values : user = [p \in Procs |-> Contents(p, v)]
    /\ frame = [f \in FramePages |-> [s \in Slots |->
                  IF s \in Regs /\ \E p \in Procs : f = Own(p)
                  THEN user[CHOOSE p \in Procs : f = Own(p)][s] ELSE Junk]]
    /\ reg = [r \in Regs |-> Junk] /\ sscratch = Junk /\ satp = KernelTable
    /\ cur \in Procs /\ pc = "kernel"

(* the page the hart reaches at TRAPFRAME under a user page table *)
Mine == MappedAt[satp]

(* user instructions change the registers *)
UserStep ==
    /\ pc = "user"
    /\ \E v \in Values : reg' = Contents(cur, v)
    /\ user' = [user EXCEPT ![cur] = reg']
    /\ UNCHANGED <<sscratch, satp, frame, cur, pc>>

(* a trap: csrw sscratch, a0; li a0, TRAPFRAME *)
Uservec ==
    /\ pc = "user"
    /\ sscratch' = reg["a0"] /\ reg' = [reg EXCEPT !["a0"] = TrapframeVA]
    /\ pc' = "save" /\ UNCHANGED <<satp, frame, cur, user>>

(* sd ..., then csrr t0, sscratch and sd t0, 112(a0) *)
Save ==
    /\ pc = "save" /\ reg' = [reg EXCEPT !["t0"] = sscratch]
    /\ frame' = [frame EXCEPT ![Mine] = [s \in Slots |->
                   IF s \in Saved THEN reg[s] ELSE IF s = "a0" THEN sscratch ELSE @[s]]]
    /\ pc' = "load" /\ UNCHANGED <<sscratch, satp, cur, user>>

(* trampoline.S can be fetched at TRAMPOLINE under a table of the kernel's *)
Fetched(table) == KernelMapsTrampoline /\ table = KernelTable

(* ld sp, tp, t0, t1; csrw satp, t1 *)
Load ==
    /\ pc = "load"
    /\ reg' = [reg EXCEPT !["sp"] = frame[Mine]["kernel_sp"], !["tp"] = frame[Mine]["kernel_hartid"],
                          !["t0"] = frame[Mine]["kernel_trap"], !["t1"] = frame[Mine]["kernel_satp"]]
    /\ satp' = reg'["t1"]
    /\ pc' = IF Fetched(satp') THEN "call" ELSE "lost"
    /\ UNCHANGED <<sscratch, frame, cur, user>>

(* jalr t0 leaves the address of userret in ra *)
CallUsertrap ==
    /\ pc = "call" /\ reg' = [reg EXCEPT !["ra"] = <<"userret">>]
    /\ pc' = IF reg["t0"] = usertrap THEN "kernel" ELSE "lost"
    /\ UNCHANGED <<sscratch, satp, frame, cur, user>>

(* usertrap and usertrapret (external): the kernel uses the registers,     *)
(* picks the process to go back to, fills its p->trapframe and returns     *)
(* to userret, at TRAMPOLINE, with its satp in a0                          *)
Usertrapret ==
    /\ pc = "kernel"
    /\ \E p \in Procs :
         /\ cur' = p
         /\ frame' = [frame EXCEPT ![Own(p)] =
                        [@ EXCEPT !["kernel_satp"] = KernelTable, !["kernel_sp"] = Stack(p),
                                  !["kernel_trap"] = usertrap, !["kernel_hartid"] = Hartid]]
         /\ reg' = [r \in Regs |-> IF r = "a0" THEN p ELSE Junk]
    /\ pc' = IF Fetched(KernelTable) THEN "userret" ELSE "lost"
    /\ UNCHANGED <<sscratch, satp, user>>

(* csrw satp, a0; li a0, TRAPFRAME; ld ...; ld a0, 112(a0); sret *)
Userret ==
    /\ pc = "userret"
    /\ satp' = reg["a0"]
    /\ reg' = [r \in Regs |-> frame[MappedAt[satp']][r]]
    /\ pc' = "user" /\ UNCHANGED <<sscratch, frame, cur, user>>

(* a fetch that faults *)
Lost == pc = "lost" /\ UNCHANGED vars

Next == \/ UserStep \/ Uservec \/ Save \/ Load \/ CallUsertrap
        \/ Usertrapret \/ Userret \/ Lost

Spec == Init /\ [][Next]_vars

-----------------------------------------------------------------------------
(* A process that is back in user mode has every register as it left it,   *)
(* a0 and t0 included, whatever processes trapped in between.  (The        *)
(* comment at trampoline.S:32 says why: each process has a p->trapframe of *)
(* its own, mapped at TRAPFRAME in its page table.)                        *)
RegistersRestored == pc = "user" => reg = user[cur]
=============================================================================

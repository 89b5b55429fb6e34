-------------------------------- MODULE Boot --------------------------------
(***************************************************************************)
(* From _entry to scheduler(): entry.S, start() in machine mode, mret, and *)
(* main() in supervisor mode, with the timer that start() arms and enables *)
(* before main() has set stvec.  A step is one register or one call; what  *)
(* the machine and the kernel have become is the set of steps done.  What  *)
(* kvminit, kvminithart and procinit do is KernelMap's, step by step.  The *)
(* timer may expire at any point once its interval has passed: Slack steps *)
(* after start() or main() set it (10000 cycles, 1 ms, against the few     *)
(* hundred instructions of mret, uartinit and trapinithart), between one   *)
(* and TickGap after a tick (1 s).  A pending interrupt is taken before    *)
(* the next step.                                                          *)
(***************************************************************************)
EXTENDS KernelMap, Sequences

CONSTANTS Slack, TickGap,         \* steps the timer leaves the hart alone
          SbssWords, BssWords,    \* the sections .sbss and .bss
          LoaderZeroes            \* qemu's loader has cleared both

ASSUME BootAssumption ==
    /\ {Slack, TickGap, SbssWords, BssWords} \subseteq Nat /\ TickGap > 0
    /\ LoaderZeroes \in BOOLEAN

Words == 0..(SbssWords + BssWords - 1)

start == <<"mstatus.MPP", "mepc", "satp=0", "medeleg", "mideleg", "pmp",
           "sstatus.SIE", "sie.STIE", "menvcfg.STCE", "mcounteren.TM", "tickslock",
           "mcounteren", "stimecmp", "mret">>

(* mutant: the vector is set where paging is on, and only there *)
MainLateVector == <<"uartinit", "print", "rearm", "print", "pmm_init", "kvminit", "kvminithart",
    "trapinithart", "print", "procinit", "userinit", "create_process", "scheduler">>

main == <<"uartinit", "trapinithart", "print", "rearm", "print", "pmm_init", "kvminit", "kvminithart",
    "trapinithart", "print", "procinit", "userinit", "create_process", "scheduler">>

Program == start \o main

VARIABLES pc,        \* the next step of Program; 0 while entry.S clears memory
          done,      \* the steps done
          a0, zero,  \* entry.S's pointer; the words that are zero
          left,      \* steps until the timer may expire
          pending    \* sip.STIP

bootVars == <<pc, done, a0, zero, left, pending>>
vars == <<bootVars, mapVars>>

Init ==
    /\ MapInit
    /\ pc = 0 /\ done = {} /\ a0 = 0 /\ left = 0 /\ pending = FALSE
    /\ zero = IF LoaderZeroes THEN Words ELSE {}

(* bss_loop: clear a word, step, go on while below ebss *)
ClearWord ==
    /\ pc = 0
    /\ zero' = zero \cup {a0} /\ a0' = a0 + 1
    /\ pc' = IF a0' < SbssWords THEN 0 ELSE 1
    /\ UNCHANGED <<done, left, pending, mapVars>>

Supervisor == "mret" \in done
Armed == "stimecmp" \in done

(* The timer interrupt is delegated, so machine mode is never interrupted. *)
Deliverable == pending /\ Supervisor /\ {"sstatus.SIE", "sie.STIE"} \subseteq done

Finished == pc > Len(Program)

(* stimecmp = time + n also clears a pending request *)
Sets(step) == step \in {"stimecmp", "rearm"}

(* one step of the call; it returns with the last one *)
MapStep ==
    CASE Program[pc] = "kvminit" -> kvminit
      [] Program[pc] = "kvminithart" -> kvminithart
      [] Program[pc] = "procinit" -> procinit
      [] OTHER -> UNCHANGED mapVars

Returns ==
    CASE Program[pc] = "kvminit" -> at' = "satp"
      [] Program[pc] = "procinit" -> at' = "done"
      [] OTHER -> TRUE

Step ==
    /\ pc > 0 /\ ~Finished /\ ~Deliverable
    /\ MapStep
    /\ IF Returns THEN done' = done \cup {Program[pc]} /\ pc' = pc + 1
                  ELSE UNCHANGED <<done, pc>>
    /\ left' = IF Sets(Program[pc]) THEN Slack ELSE IF left > 0 THEN left - 1 ELSE 0
    /\ pending' = (pending /\ ~Sets(Program[pc]))
    /\ UNCHANGED <<a0, zero>>

Expire ==
    /\ Armed /\ left = 0 /\ ~pending /\ pending' = TRUE
    /\ UNCHANGED <<pc, done, a0, zero, left, mapVars>>

(* mutant: timer_interrupt does not ask for the next interrupt *)
TickNoRearm == Deliverable /\ UNCHANGED vars

(* kernelvec, kerneltrap, timer_interrupt and back *)
Tick ==
    /\ Deliverable
    /\ left' \in 1..TickGap /\ pending' = FALSE
    /\ UNCHANGED <<pc, done, a0, zero, mapVars>>

(* scheduler() does not return; from here on Proc takes over *)
Running == Finished /\ ~Deliverable /\ UNCHANGED vars

Next == ClearWord \/ Step \/ Expire \/ Tick \/ Running

Spec == Init /\ [][Next]_vars /\ WF_vars(ClearWord \/ Step \/ Tick)

-----------------------------------------------------------------------------
Paging == "kvminithart" \in done

(* Whenever the timer interrupt can be taken, everything its handler uses  *)
(* is there: the vector, the delegation, memory access in supervisor mode, *)
(* the UART and the locks of the tick, supervisor access to stimecmp, zero *)
(* words for the locks nobody has initialised yet, and with paging on the  *)
(* kernel's mappings.                                                      *)
HandlerReady ==
    Deliverable =>
        /\ {"trapinithart", "mideleg", "pmp", "uartinit", "tickslock",
            "menvcfg.STCE", "mcounteren"} \subseteq done
        /\ Words \subseteq zero
        /\ Paging => "kvminit" \in done

(* The machine gets to scheduler(), however often the timer interrupts it: *)
(* a tick always puts the next one off far enough for main() to go on.     *)
BootCompletes == <>Finished
=============================================================================

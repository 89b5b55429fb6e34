------------------------------- MODULE MCBoot -------------------------------
(* An instance of Boot for TLC, of Kvmmap, the function that kvminit and   *)
(* procinit call, and of ExtIntr, the interrupts this boot code does not   *)
(* connect, each on its own: unit says which of the three runs.            *)
EXTENDS Boot

CONSTANTS U64, SV39, PGSIZE, PAs, RxDepth, MaxInput, MaxOutput, MaxDisk, MaxStray

VARIABLES unit,
          va, sz, pa0, a, last, pa, table, kpc,       \* Kvmmap
          rx, thre, disk, stray, priority, enable, pend, service,
          sie, seie, paging, epc, irq, input, output, disks, strays   \* ExtIntr

K == INSTANCE Kvmmap WITH pc <- kpc
E == INSTANCE ExtIntr WITH pc <- epc

ASSUME MCBootAssumption == K!KvmmapConstants /\ E!ExtIntrConstants

kVars == <<va, sz, pa0, a, last, pa, table, kpc>>
eVars == <<rx, thre, disk, stray, priority, enable, pend, service, sie, seie, paging, epc, irq,
           input, output, disks, strays>>
mcVars == <<unit, vars, kVars, eVars>>

KvmmapIdle ==
    /\ va = 0 /\ sz = 0 /\ pa0 = 0 /\ a = 0 /\ last = 0 /\ pa = 0 /\ table = {}
    /\ kpc = "done"

BootIdle ==
    /\ pc = Len(Program) + 1 /\ done = {} /\ a0 = 0 /\ left = 0 /\ pending = FALSE
    /\ zero = {} /\ etext = 0 /\ end = 0 /\ regions = {} /\ tables = {} /\ next = 0
    /\ p = 0 /\ at = "create"

MCInit ==
    /\ E!Init
    /\ \/ unit = "boot" /\ Init /\ KvmmapIdle /\ enable = {}
       \/ unit = "kvmmap" /\ K!Init /\ BootIdle /\ enable = {}
       \/ unit = "extintr" /\ BootIdle /\ KvmmapIdle

BootUnit == unit = "boot" /\ Next /\ UNCHANGED <<unit, kVars, eVars>>
BootHart == unit = "boot" /\ (ClearWord \/ Step \/ Tick) /\ UNCHANGED <<unit, kVars, eVars>>
KvmmapUnit == unit = "kvmmap" /\ K!Next /\ UNCHANGED <<unit, vars, eVars>>
KvmmapEnd == unit = "kvmmap" /\ kpc \in {"done", "panic"} /\ UNCHANGED mcVars
ExtIntrUnit(A) == unit = "extintr" /\ A /\ UNCHANGED <<unit, vars, kVars>>

MCNext == BootUnit \/ KvmmapUnit \/ KvmmapEnd \/ ExtIntrUnit(E!Next)

MCSpec ==
    /\ MCInit /\ [][MCNext]_mcVars
    /\ WF_mcVars(BootHart) /\ WF_mcVars(KvmmapUnit)
    /\ \A s \in E!Irqs : WF_mcVars(ExtIntrUnit(E!Gateway(s)))
    /\ WF_mcVars(ExtIntrUnit(E!Handler)) /\ SF_mcVars(ExtIntrUnit(E!Trap))

(* For proper arguments kvmmap() does not panic and maps exactly the pages *)
(* [va, va + sz) touches.                                                  *)
MapsExactly == K!MapsExactly

(* The machine gets to scheduler() however often the timer interrupts it,  *)
(* and kvmmap()'s for(;;) ends whatever its arguments are.                 *)
Completes == BootCompletes /\ K!Terminates

(* uart_intr() gets every character, whenever it arrives, if SIE and SEIE  *)
(* are set again and again and no access to the PLIC panics, and when the  *)
(* devices fall silent the interrupts stop.                                *)
InterruptsServed == E!InputConsumed /\ E!StormEnds
=============================================================================

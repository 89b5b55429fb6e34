------------------------------- MODULE ExtIntr -------------------------------
(***************************************************************************)
(* External interrupts: devintr's PLIC branch, plic.c and uart_intr with   *)
(* the two devices they name.  The code is all there but not connected:    *)
(* main() calls neither plicinit() nor plicinithart() and nothing sets     *)
(* sie.SEIE; Connect (external) is the boot code that would.  Nor does     *)
(* kvminit() map the PLIC's pages: from kvminithart() on, every access to  *)
(* the PLIC is a page fault and a panic.  The PLIC and the UART are        *)
(* external too: a source's gateway latches its level as pending, a claim  *)
(* closes the gateway until the completion, and the UART's line is up      *)
(* while input waits or a transmit interrupt has not been acknowledged.    *)
(***************************************************************************)
EXTENDS Integers, FiniteSets

CONSTANTS RxDepth,                      \* of the UART's receive FIFO
          MaxInput, MaxOutput, MaxDisk, MaxStray  \* bounds on what the devices do

ExtIntrConstants == {RxDepth, MaxInput, MaxOutput, MaxDisk, MaxStray} \subseteq Nat

UART0_IRQ == 10
VIRTIO0_IRQ == 1
STRAY_IRQ == 32     \* a source of the enable word plicinithart does not write
Irqs == {UART0_IRQ, VIRTIO0_IRQ, STRAY_IRQ}

VARIABLES rx, thre,        \* UART: characters waiting; transmit interrupt
          disk, stray,     \* the lines of the disk and of the other source
          priority, enable,      \* PLIC: sources with a priority, enabled ones
          pend, service,         \* PLIC: latched; claimed and not completed
          sie, seie, paging,     \* sstatus.SIE, sie.SEIE, satp is set
          pc, irq,               \* devintr
          input, output, disks, strays   \* counters

vars == <<rx, thre, disk, stray, priority, enable, pend, service, sie, seie, paging, pc, irq,
          input, output, disks, strays>>
uartVars == <<rx, thre>>
devices == <<rx, thre, disk, stray>>
plicVars == <<priority, enable, pend, service>>
hartVars == <<sie, seie, paging, pc, irq>>
counters == <<input, output, disks, strays>>

(* what firmware left in the PLIC, and SIE set by start() *)
Init ==
    /\ rx = 0 /\ thre = FALSE /\ disk = FALSE /\ stray = FALSE
    /\ priority = {STRAY_IRQ} /\ enable \in SUBSET {STRAY_IRQ} /\ pend = {} /\ service = {}
    /\ sie = TRUE /\ seie = FALSE /\ paging = FALSE
    /\ pc = "boot" /\ irq = 0 /\ input = 0 /\ output = 0 /\ disks = 0 /\ strays = 0

(* an access to a PLIC register when the kernel's table is in use *)
PageFault(at) ==
    /\ paging /\ pc \in at
    /\ pc' = "panic" /\ sie' = FALSE
    /\ UNCHANGED <<devices, plicVars, seie, paging, irq, counters>>

plicinit ==
    /\ pc = "boot" /\ ~paging
    /\ priority' = priority \cup {UART0_IRQ, VIRTIO0_IRQ} /\ pc' = "hart"
    /\ UNCHANGED <<devices, enable, pend, service, sie, seie, paging, irq, counters>>

plicinithart ==
    /\ pc = "hart" /\ ~paging
    /\ enable' = (enable \cap {STRAY_IRQ}) \cup {UART0_IRQ, VIRTIO0_IRQ} /\ pc' = "seie"
    /\ UNCHANGED <<devices, priority, pend, service, sie, seie, paging, irq, counters>>

(* w_sie(r_sie() | SIE_SEIE) *)
SetSEIE ==
    /\ pc = "seie" /\ seie' = TRUE /\ pc' = "idle"
    /\ UNCHANGED <<devices, plicVars, sie, paging, irq, counters>>

Connect == plicinit \/ plicinithart \/ SetSEIE \/ PageFault({"boot", "hart"})

(***************************************************************************)
(* What runs outside the handler                                           *)
(***************************************************************************)
Outside == pc \in {"boot", "hart", "seie", "idle"}

(* main() turns on paging, at any time after or before Connect's steps *)
kvminithart ==
    /\ Outside /\ ~paging /\ paging' = TRUE
    /\ UNCHANGED <<devices, plicVars, sie, seie, pc, irq, counters>>

(* push_off, pop_off, the scheduler's intr_on; nobody promises that SIE is *)
(* ever set again                                                          *)
Toggle ==
    /\ Outside /\ sie' = ~sie
    /\ UNCHANGED <<devices, plicVars, seie, paging, pc, irq, counters>>

(***************************************************************************)
(* The devices and the PLIC's gateways                                     *)
(***************************************************************************)
Receive ==
    /\ input < MaxInput /\ rx < RxDepth
    /\ rx' = rx + 1 /\ input' = input + 1
    /\ UNCHANGED <<thre, disk, stray, plicVars, hartVars, output, disks, strays>>

Transmitted ==
    /\ output < MaxOutput /\ thre' = TRUE /\ output' = output + 1
    /\ UNCHANGED <<rx, disk, stray, plicVars, hartVars, input, disks, strays>>

DiskDone ==
    /\ disks < MaxDisk /\ disk' = TRUE /\ disks' = disks + 1
    /\ UNCHANGED <<uartVars, stray, plicVars, hartVars, input, output, strays>>

(* a source nobody serves: its line goes up, and down again by itself *)
Stray ==
    /\ IF stray THEN UNCHANGED strays ELSE strays < MaxStray /\ strays' = strays + 1
    /\ stray' = ~stray
    /\ UNCHANGED <<uartVars, disk, plicVars, hartVars, input, output, disks>>

Line(s) == CASE s = UART0_IRQ -> rx > 0 \/ thre
             [] s = VIRTIO0_IRQ -> disk
             [] OTHER -> stray

(* a line that is up is latched; one that went down may be forgotten *)
Gateway(s) ==
    /\ s \in priority
    /\ IF Line(s) THEN s \notin pend \cup service /\ pend' = pend \cup {s}
                  ELSE s \in pend /\ pend' = pend \ {s}
    /\ UNCHANGED <<devices, priority, enable, service, hartVars, counters>>

(***************************************************************************)
(* devintr and what it calls                                               *)
(***************************************************************************)
Trap ==
    /\ pc = "idle" /\ sie /\ seie /\ pend \cap enable # {}
    /\ pc' = "claim" /\ sie' = FALSE
    /\ UNCHANGED <<devices, plicVars, seie, paging, irq, counters>>

(* of equal priorities the lowest number wins; 0 when nothing is pending   *)
(* any more, and the handler returns                                       *)
plic_claim ==
    /\ pc = "claim" /\ ~paging
    /\ irq' = LET asking == pend \cap enable
              IN  IF asking = {} THEN 0 ELSE CHOOSE s \in asking : \A q \in asking : s <= q
    /\ pend' = pend \ {irq'} /\ service' = service \cup ({irq'} \ {0})
    /\ pc' = CASE irq' = UART0_IRQ -> "isr"
               [] irq' = VIRTIO0_IRQ -> "panic"
               [] irq' = STRAY_IRQ -> "complete"
               [] OTHER -> "return"
    /\ UNCHANGED <<devices, priority, enable, sie, seie, paging, counters>>

(* ReadReg(ISR) reports the most urgent cause; only a transmit interrupt   *)
(* that is reported is thereby acknowledged                                *)
ReadISR ==
    /\ pc = "isr" /\ thre' = (thre /\ rx > 0) /\ pc' = "getc"
    /\ UNCHANGED <<rx, disk, stray, plicVars, sie, seie, paging, irq, counters>>

(* uartgetc finds LSR_RX_READY set; consoleintr drops the character *)
Getc ==
    /\ pc = "getc" /\ rx > 0 /\ rx' = rx - 1
    /\ UNCHANGED <<thre, disk, stray, plicVars, hartVars, counters>>

(* uartgetc returns -1 *)
NoMore ==
    /\ pc = "getc" /\ rx = 0 /\ pc' = "complete"
    /\ UNCHANGED <<devices, plicVars, sie, seie, paging, irq, counters>>

(* mutant: the PLIC is not told *)
ForgetComplete ==
    /\ pc = "complete" /\ pc' = "return"
    /\ UNCHANGED <<devices, plicVars, sie, seie, paging, irq, counters>>

plic_complete ==
    /\ pc = "complete" /\ ~paging /\ service' = service \ {irq} /\ pc' = "return"
    /\ UNCHANGED <<devices, priority, enable, pend, sie, seie, paging, irq, counters>>

(* kerneltrap restores sstatus, kernelvec executes sret: SIE is set again *)
Return ==
    /\ pc = "return" /\ sie' = TRUE /\ irq' = 0 /\ pc' = "idle"
    /\ UNCHANGED <<devices, plicVars, seie, paging, counters>>

(* "virtio_disk_intr not implemented in lab 4", or the page fault *)
Spin == pc = "panic" /\ UNCHANGED vars

Handler == \/ plic_claim \/ ReadISR \/ Getc \/ NoMore \/ plic_complete \/ Return
           \/ PageFault({"claim", "complete"})

Next == \/ Connect \/ kvminithart \/ Toggle \/ Receive \/ Transmitted \/ DiskDone \/ Stray
        \/ (\E s \in Irqs : Gateway(s)) \/ Trap \/ Handler \/ Spin

(* the handler runs on, each gateway latches, and the hardware takes an    *)
(* interrupt that is pending and enabled again and again                   *)
Spec == /\ Init /\ [][Next]_vars /\ WF_vars(Handler) /\ SF_vars(Trap)
        /\ \A s \in Irqs : WF_vars(Gateway(s))

-----------------------------------------------------------------------------
(* Every received character is read once the interrupts are connected,     *)
(* also one that arrives between the uartgetc that found nothing and       *)
(* plic_complete, while the gateway is still closed: if SIE is not left    *)
(* off for good and no access to the PLIC panics.                          *)
InputConsumed ==
    []<>(seie /\ sie) => (rx > 0) ~> (rx = 0 \/ pc = "panic")

(* The handler removes what it was called for: when the devices fall       *)
(* silent, interrupts stop.                                                *)
StormEnds == <>[]~stray => <>[](Outside \/ pc = "panic")
=============================================================================

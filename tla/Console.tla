------------------------------- MODULE Console -------------------------------
(***************************************************************************)
(* The output path on the one hart: uart_puts (no lock, interrupts on),    *)
(* printf under printlock, the timer tick's printf, and panic() raised by  *)
(* a caller, by an exception anywhere (inside printf too) or by acquire    *)
(* and release themselves; uart_putc polls the UART and then writes to it. *)
(* The calls in progress form a stack; only the top one runs.  A message   *)
(* is MsgLen characters, known by the call they belong to.  acquire and    *)
(* release of printlock are a step per store: an exception may find the    *)
(* lock taken and its owner not written yet, or cleared already.           *)
(***************************************************************************)
EXTENDS Integers, Sequences, SequencesExt

CONSTANTS MsgLen,       \* characters per message
          FIFODepth,    \* of the 16550's transmit FIFO, once it is enabled
          MaxCalls, MaxTicks, MaxFaults   \* bounds on what may happen

ASSUME ConsoleAssumption ==
    /\ MsgLen \in Nat \ {0} /\ FIFODepth \in Nat \ {0}
    /\ {MaxCalls, MaxTicks, MaxFaults} \subseteq Nat

VARIABLES stack,      \* the calls in progress, each a Frame
          locked,     \* printlock.locked
          owner,      \* printlock.cpu is this hart (otherwise 0)
          noff, intena, sie,    \* the hart's nesting state and sstatus.SIE
          up,         \* uartinit() is done
          fifo, depth,          \* the UART: queued characters, room
          out,        \* what has left the UART: each character's function and call
          lost,       \* a character was written to a full FIFO
          id, calls, ticks, faults   \* counters

vars == <<stack, locked, owner, noff, intena, sie, up, fifo, depth, out, lost,
          id, calls, ticks, faults>>
lockVars == <<locked, owner, noff, intena, sie>>
uartVars == <<up, fifo, depth, out, lost>>
counters == <<id, calls, ticks, faults>>

(* f: the function; why: what panic() will report; left: characters to go  *)
Frame(f, why, at) == [f |-> f, why |-> why, pc |-> at, left |-> MsgLen, id |-> id]

Top == Last(stack)
SetTop(fr) == stack' = Append(Front(stack), fr)
At(pcs) == up /\ stack # <<>> /\ Top.pc \in pcs

Init ==
    /\ stack = <<>> /\ locked = FALSE /\ owner = FALSE /\ noff = 0 /\ intena = FALSE /\ sie = TRUE
    /\ up = FALSE /\ fifo = <<>> /\ depth = 1 /\ out = <<>> /\ lost = FALSE
    /\ id = 1 /\ calls = 0 /\ ticks = 0 /\ faults = 0

(* mutant: the FIFOs are not enabled *)
UartinitNoFifo ==
    /\ ~up /\ up' = TRUE
    /\ UNCHANGED <<stack, lockVars, fifo, depth, out, lost, counters>>

uartinit ==
    /\ ~up /\ up' = TRUE /\ depth' = FIFODepth
    /\ UNCHANGED <<stack, lockVars, fifo, out, lost, counters>>

(***************************************************************************)
(* What starts a call: the kernel, the timer, an exception                 *)
(***************************************************************************)
Enter(f, why, at) == stack' = Append(stack, Frame(f, why, at)) /\ id' = id + 1

Call(f, why, at) ==
    /\ up /\ stack = <<>> /\ calls < MaxCalls
    /\ Enter(f, why, at) /\ calls' = calls + 1
    /\ UNCHANGED <<lockVars, uartVars, ticks, faults>>

CallPuts   == Call("uart_puts", "none", "poll")
CallPrintf == Call("printf", "none", "acquire")
CallPanic  == Call("panic", "caller", "clear")

(* kernelvec, kerneltrap, timer_interrupt up to its printf *)
Tick ==
    /\ up /\ sie /\ ticks < MaxTicks
    /\ Enter("tick", "none", "acquire") /\ ticks' = ticks + 1 /\ sie' = FALSE
    /\ UNCHANGED <<locked, owner, noff, intena, uartVars, calls, faults>>

(* an exception: a page fault panics at once, any other is first printed *)
Fault ==
    /\ up /\ faults < MaxFaults /\ (stack # <<>> => Top.pc # "spin")
    /\ \/ Enter("panic", "fault", "clear")
       \/ Enter("scause", "fault", "acquire")
    /\ faults' = faults + 1 /\ sie' = FALSE
    /\ UNCHANGED <<locked, owner, noff, intena, uartVars, calls, ticks>>

(***************************************************************************)
(* printf and panic                                                        *)
(***************************************************************************)
PushOff == noff' = noff + 1 /\ intena' = (IF noff = 0 THEN sie ELSE intena) /\ sie' = FALSE

holding == locked /\ owner

(* the call on top goes on at another label, or panics *)
Goto(at) == SetTop([Top EXCEPT !.pc = at])
Panics(w) == SetTop([Top EXCEPT !.f = "panic", !.why = w, !.pc = "clear"])

(* mutant: interrupts stay on *)
AcquireInterruptible ==
    /\ At({"acquire"})
    /\ noff' = noff + 1 /\ intena' = (IF noff = 0 THEN sie ELSE intena) /\ UNCHANGED sie
    /\ IF holding THEN Panics("acquire") ELSE Goto("swap")
    /\ UNCHANGED <<locked, owner, uartVars, counters>>

(* acquire(&printlock): push_off; this hart holding it already is a panic *)
Acquire ==
    /\ At({"acquire"}) /\ PushOff
    /\ IF holding THEN Panics("acquire") ELSE Goto("swap")
    /\ UNCHANGED <<locked, owner, uartVars, counters>>

(* the atomic swap finds 0 *)
Swap ==
    /\ At({"swap"}) /\ ~locked /\ locked' = TRUE /\ Goto("cpu")
    /\ UNCHANGED <<owner, noff, intena, sie, uartVars, counters>>

(* it finds 1: once more *)
SwapWaits == At({"swap"}) /\ locked /\ UNCHANGED vars

(* lk->cpu = mycpu() *)
SetCpu ==
    /\ At({"cpu"}) /\ owner' = TRUE /\ Goto("poll")
    /\ UNCHANGED <<locked, noff, intena, sie, uartVars, counters>>

(* mutant: the lock is left as it is; panic and acquire call each other,   *)
(* here until noff is 4                                                    *)
PanicKeepsLock ==
    /\ At({"clear"})
    /\ IF noff < 4 THEN SetTop([Top EXCEPT !.pc = "acquire"]) ELSE UNCHANGED stack
    /\ UNCHANGED <<lockVars, uartVars, counters>>

(* panic(): printlock.locked = 0, then printf("panic: ") and the message *)
PanicClear ==
    /\ At({"clear"}) /\ SetTop([Top EXCEPT !.pc = "acquire"])
    /\ locked' = FALSE
    /\ UNCHANGED <<owner, noff, intena, sie, uartVars, counters>>

(* where a call goes on when its printf has returned *)
AfterPrintf ==
    CASE Top.f = "scause" -> [Top EXCEPT !.f = "panic", !.pc = "clear", !.left = MsgLen]
      [] Top.f = "panic"  -> [Top EXCEPT !.f = "panic2", !.pc = "acquire", !.left = MsgLen]
      [] Top.f = "panic2" -> [Top EXCEPT !.pc = "spin"]
      [] OTHER -> Top

(* release(&printlock): lk->cpu = 0 *)
Release ==
    /\ At({"release"})
    /\ IF holding THEN owner' = FALSE /\ Goto("unlock")
                  ELSE Panics("release") /\ UNCHANGED owner
    /\ UNCHANGED <<locked, noff, intena, sie, uartVars, counters>>

(* __sync_lock_release(&lk->locked) *)
Unlock ==
    /\ At({"unlock"}) /\ locked' = FALSE /\ Goto("popoff")
    /\ UNCHANGED <<owner, noff, intena, sie, uartVars, counters>>

(* pop_off, and printf returns; the tick's handler returns with sret *)
PopOff ==
    /\ At({"popoff"})
    /\ IF sie \/ noff < 1
       THEN Panics("pop_off") /\ UNCHANGED <<noff, sie>>
       ELSE /\ noff' = noff - 1
            /\ sie' = ((noff = 1 /\ intena) \/ Top.f = "tick")
            /\ stack' = IF Top.f \in {"printf", "tick"}
                        THEN Front(stack) ELSE Append(Front(stack), AfterPrintf)
    /\ UNCHANGED <<locked, owner, intena, uartVars, counters>>

(* panic()'s for(;;) *)
Spin == At({"spin"}) /\ UNCHANGED vars

(***************************************************************************)
(* uart_putc and the UART                                                  *)
(***************************************************************************)
(* LSR_TX_IDLE is set: the FIFO is empty *)
Poll ==
    /\ At({"poll"}) /\ fifo = <<>>
    /\ SetTop([Top EXCEPT !.pc = "write"])
    /\ UNCHANGED <<lockVars, uartVars, counters>>

Write ==
    /\ At({"write"})
    /\ IF Len(fifo) < depth
       THEN fifo' = Append(fifo, [f |-> Top.f, id |-> Top.id]) /\ UNCHANGED lost
       ELSE lost' = TRUE /\ UNCHANGED fifo
    /\ stack' = IF Top.left > 1 THEN Append(Front(stack), [Top EXCEPT !.pc = "poll", !.left = @ - 1])
                ELSE IF Top.f = "uart_puts" THEN Front(stack)
                ELSE Append(Front(stack), [Top EXCEPT !.pc = "release"])
    /\ UNCHANGED <<lockVars, up, depth, out, counters>>

Transmit ==
    /\ fifo # <<>> /\ fifo' = Tail(fifo) /\ out' = Append(out, Head(fifo))
    /\ UNCHANGED <<stack, lockVars, up, depth, lost, counters>>

Hart == \/ Acquire \/ Swap \/ SwapWaits \/ SetCpu \/ Release \/ Unlock \/ PopOff
        \/ PanicClear \/ Spin \/ Poll \/ Write

Done == up /\ stack = <<>> /\ fifo = <<>> /\ calls = MaxCalls /\ UNCHANGED vars

Next == \/ uartinit \/ CallPuts \/ CallPrintf \/ CallPanic \/ Tick \/ Fault
        \/ Hart \/ Transmit \/ Done

(* the hart runs on, and the UART sends what it was given *)
Spec == Init /\ [][Next]_vars /\ WF_vars(Hart) /\ WF_vars(Transmit)

-----------------------------------------------------------------------------
(* What is printed comes out, and in one piece.  uart_putc tests LSR and   *)
(* writes THR in two steps, and uart_puts does it without a lock: a tick   *)
(* in between fills the register that was found empty, and the FIFO        *)
(* uartinit() enables takes the extra character.  And what one printf      *)
(* prints comes out side by side: no tick, no other printf and no          *)
(* uart_puts in the middle.                                                *)
OutputIntact ==
    LET sent == out \o fifo
    IN  /\ ~lost
        /\ \A i, j \in DOMAIN sent :
             sent[i] = sent[j] /\ sent[i].f # "uart_puts" => j - i < MsgLen

(* printf itself never panics: its release always finds the lock it took,  *)
(* although panic() forces printlock open, its pop_off is matched, and its *)
(* acquire finds printlock taken only under an exception that hit a        *)
(* printf.                                                                 *)
PrintfNeverPanics ==
    \A i \in DOMAIN stack :
        /\ stack[i].why \notin {"release", "pop_off"}
        /\ stack[i].why = "acquire" => faults > 0

(* an exception has hit acquire or release of printlock between the store  *)
(* to locked and the one to cpu; since then nobody got beyond its acquire  *)
InWindow ==
    \E j \in 1..Len(stack) - 1 :
        /\ stack[j].pc \in {"cpu", "unlock"}
        /\ \A k \in j + 1..Len(stack) : stack[k].pc \in {"clear", "acquire", "swap"}

(* The hart waits for printlock, for good since nobody else can release    *)
(* it, in one case only: an exception that kerneltrap prints before it     *)
(* panics hit printf between acquire's or release's two stores, where      *)
(* holding() does not see that this hart has the lock.  panic() itself     *)
(* never waits.                                                            *)
HangsOnlyInWindow == At({"swap"}) /\ locked => Top.f = "scause" /\ InWindow

(* A panic gets its message out, and so does an exception, even in the     *)
(* middle of a printf that holds printlock: the machine does not stop in   *)
(* silence, unless an exception other than a page fault hit the window     *)
(* between the two stores of acquire or release.                           *)
PanicReported ==
    (\E i \in DOMAIN stack : stack[i].f \in {"scause", "panic", "panic2"})
        ~> \/ \E i \in DOMAIN stack : stack[i].pc = "spin" /\ fifo = <<>>
           \/ At({"swap"}) /\ locked /\ Top.f = "scause" /\ InWindow
=============================================================================

---------------------------- MODULE ConsoleProof ----------------------------
(***************************************************************************)
(* Output is neither lost nor torn, printf() never panics and the hart     *)
(* waits for printlock in one case only, for messages of any length and    *)
(* any number of calls, ticks and exceptions; printint()                   *)
(* and printptr() print every number right and stay inside buf[], for any  *)
(* width of the machine's words; and printf() follows every format string. *)
(*                                                                         *)
(* None of these is inductive.  What a call may find when it goes on       *)
(* depends on who can have run on top of it: a tick, which needs SIE and   *)
(* so finds printlock free, or an exception, which never returns.  Behind  *)
(* the other two is what the loops have done so far: the digits and the    *)
(* rest of the number, and the conversions up to printf()'s index.         *)
(***************************************************************************)
EXTENDS MCConsole, SequenceTheorems, FiniteSetTheorems, WellFoundedInduction, TLAPS

Funs == {"uart_puts", "printf", "tick", "scause", "panic", "panic2"}
Labels == {"clear", "acquire", "swap", "cpu", "poll", "write", "release", "unlock", "popoff",
           "spin"}
Whys == {"none", "caller", "fault", "acquire", "release", "pop_off"}

Calls == [f : Funs, why : Whys, pc : Labels, left : 1..MsgLen, id : Nat]
Chars == [f : Funs, id : Nat]

(* between push_off and pop_off; printing, with printlock held *)
Held(fr) == /\ fr.f # "uart_puts"
            /\ fr.pc \in {"swap", "cpu", "poll", "write", "release", "unlock", "popoff"}
Inside == {"poll", "write", "release"}
Prints(fr) == fr.f # "uart_puts" /\ fr.pc \in Inside

TypeInv ==
    /\ stack \in Seq(Calls) /\ fifo \in Seq(Chars) /\ out \in Seq(Chars)
    /\ locked \in BOOLEAN /\ owner \in BOOLEAN /\ intena \in BOOLEAN /\ sie \in BOOLEAN
    /\ up \in BOOLEAN /\ lost \in BOOLEAN
    /\ noff \in Nat /\ depth \in Nat /\ id \in Nat /\ faults \in Nat

(* what a tick may find below it *)
Open(fr) == /\ fr.f # "tick"
            /\ fr.f = "uart_puts" \/ fr.pc \in {"clear", "acquire", "spin"}

ShapeInv ==
    \A k \in 1..Len(stack) :
        /\ stack[k].f \in {"printf", "uart_puts"} => k = 1
        /\ stack[k].f = "tick" /\ k > 1 => Open(stack[k - 1])
        /\ stack[k].f = "uart_puts" => stack[k].pc \in {"poll", "write"}
        /\ stack[k].pc = "clear" => stack[k].f = "panic"
        /\ stack[k].pc = "spin" => stack[k].f = "panic2"
        /\ stack[k].f = "scause" => faults > 0

NestInv ==
    /\ sie => noff = 0 /\ ~locked
    /\ stack = <<>> => noff = 0 /\ ~locked
    /\ stack # <<>> =>
         /\ Held(Top) => noff > 0
         /\ Top.f \in {"printf", "tick", "uart_puts"} => noff = IF Held(Top) THEN 1 ELSE 0
         /\ Prints(Top) => locked /\ owner
         /\ Top.pc \in {"cpu", "unlock"} => locked
         /\ Top.pc = "popoff" => ~locked
         /\ Top.pc = "swap" => ~(locked /\ owner)
         /\ Top.pc \in {"acquire", "swap"} /\ Top.f # "scause" => ~locked
         /\ Top.f = "uart_puts" => ~locked
         /\ Top.f = "tick" => ~sie

(* room in the FIFO when uart_putc() writes *)
FifoInv ==
    FIFODepth >= 2 =>
        /\ ~lost
        /\ up => depth = FIFODepth
        /\ stack # <<>> =>
             /\ Top.pc = "write" => Len(fifo) <= 1
             /\ Top.pc = "write" /\ Top.f # "uart_puts" => Len(fifo) = 0
             /\ Top.pc \in {"release", "unlock", "popoff"} /\ Top.f = "tick" => Len(fifo) <= 1

Sent == out \o fifo
Char(fr) == [f |-> fr.f, id |-> fr.id]

(* the functions under whose name a call has printed *)
Before(fr) == IF fr.f = "panic" THEN {"scause"}
              ELSE IF fr.f = "panic2" THEN {"scause", "panic"} ELSE {}
Said(fr) == Before(fr) \cup IF fr.pc \in {"clear", "acquire", "swap", "cpu"}
                             THEN {} ELSE {fr.f}

IdInv ==
    /\ \A k \in 1..Len(stack) : stack[k].id < id
    /\ \A k, l \in 1..Len(stack) : stack[k].id = stack[l].id => k = l
    /\ \A j \in 1..Len(Sent) : Sent[j].id < id
    /\ \A k \in 1..Len(stack) : \A j \in 1..Len(Sent) :
          Sent[j].id = stack[k].id => Sent[j].f \in Said(stack[k])

(* what one call has printed so far is at the end of what was sent *)
RunInv ==
    /\ \A k, j \in 1..Len(Sent) : Sent[k] = Sent[j] /\ Sent[k].f # "uart_puts" => j - k < MsgLen
    /\ stack # <<>> /\ Prints(Top) /\ Top.pc # "release" =>
         \A j \in 1..Len(Sent) : Sent[j] = Char(Top) => j > Len(Sent) - (MsgLen - Top.left)

WhyInv == PrintfNeverPanics

(* printlock is taken and its owner not written, or no longer: somebody is *)
(* between the two stores, and nobody above got beyond its acquire         *)
Window(j) == /\ stack[j].pc \in {"cpu", "unlock"}
             /\ \A k \in 1..Len(stack) : k > j => stack[k].pc \in {"clear", "acquire", "swap"}
WinInv == locked /\ ~owner => \E j \in 1..Len(stack) : Window(j)

IInv == TypeInv /\ ShapeInv /\ NestInv /\ FifoInv /\ IdInv /\ RunInv /\ WhyInv /\ WinInv

-----------------------------------------------------------------------------
(* The stack of calls *)

Replaced == /\ stack # <<>> /\ stack' \in Seq(Calls) /\ Len(stack') = Len(stack) /\ stack' # <<>>
            /\ Top \in Calls /\ Top' \in Calls
            /\ Top = stack[Len(stack)] /\ Top' = stack'[Len(stack)]
            /\ \A k \in 1..(Len(stack) - 1) : stack'[k] = stack[k]

Pushed == /\ stack' \in Seq(Calls) /\ Len(stack') = Len(stack) + 1 /\ stack' # <<>>
          /\ Top' \in Calls /\ Top' = stack'[Len(stack) + 1]
          /\ \A k \in 1..Len(stack) : stack'[k] = stack[k]

Popped == /\ stack # <<>> /\ stack' \in Seq(Calls) /\ Len(stack') = Len(stack) - 1
          /\ Top \in Calls /\ Top = stack[Len(stack)]
          /\ \A k \in 1..(Len(stack) - 1) : stack'[k] = stack[k]
          /\ stack' # <<>> => Len(stack) > 1 /\ Top' = stack[Len(stack) - 1]

LEMMA TopCall ==
    ASSUME stack \in Seq(Calls), stack # <<>>
    PROVE  Len(stack) \in Nat /\ Len(stack) > 0 /\ Top = stack[Len(stack)] /\ Top \in Calls
<1>1. Len(stack) \in Nat /\ Len(stack) > 0
  BY EmptySeq, LenProperties
<1>2. stack[Len(stack)] \in Calls
  BY <1>1, ElementOfSeq
<1>. QED
  BY <1>1, <1>2 DEF Top, Last

LEMMA FrontCalls ==
    ASSUME stack \in Seq(Calls), stack # <<>>
    PROVE  /\ Front(stack) \in Seq(Calls) /\ Len(Front(stack)) = Len(stack) - 1
           /\ \A k \in 1..(Len(stack) - 1) : Front(stack)[k] = stack[k]
<1>1. Len(stack) \in Nat /\ Len(stack) > 0
  BY TopCall
<1>. DEFINE last == Len(stack) - 1
<1>2. last \in Nat /\ \A j \in 1..last : stack[j] \in Calls
  BY <1>1, ElementOfSeq
<1>. HIDE DEF last
<1>3. /\ SubSeq(stack, 1, last) \in Seq(Calls)
      /\ Len(SubSeq(stack, 1, last)) = IF 1 <= last THEN last - 1 + 1 ELSE 0
      /\ \A j \in 1..(last - 1 + 1) : SubSeq(stack, 1, last)[j] = stack[1 + j - 1]
  BY <1>2, SubSeqProperties
<1>4. Front(stack) = SubSeq(stack, 1, last)
  BY DEF Front, last
<1>. HIDE DEF Front
<1>5. Len(Front(stack)) = last
  BY <1>2, <1>3, <1>4
<1>6. ASSUME NEW k \in 1..last PROVE Front(stack)[k] = stack[k]
  <2>1. Front(stack)[k] = stack[1 + k - 1]
    BY <1>2, <1>3, <1>4
  <2>2. 1 + k - 1 = k
    BY <1>2
  <2>. QED
    BY <2>1, <2>2
<1>. QED
  BY <1>3, <1>4, <1>5, <1>6 DEF last

LEMMA Replace ==
    ASSUME stack \in Seq(Calls), stack # <<>>, NEW fr \in Calls, stack' = Append(Front(stack), fr)
    PROVE  Replaced /\ Top' = fr
<1>1. /\ Front(stack) \in Seq(Calls) /\ Len(Front(stack)) = Len(stack) - 1
      /\ \A k \in 1..(Len(stack) - 1) : Front(stack)[k] = stack[k]
  BY FrontCalls
<1>2. Len(stack) \in Nat /\ Len(stack) > 0 /\ Top = stack[Len(stack)] /\ Top \in Calls
  BY TopCall
<1>3. /\ stack' \in Seq(Calls) /\ Len(stack') = Len(stack)
      /\ \A k \in 1..(Len(stack) - 1) : stack'[k] = stack[k]
      /\ stack'[Len(stack)] = fr
  BY <1>1, <1>2, AppendProperties
<1>4. stack' # <<>>
  BY <1>2, <1>3, EmptySeq
<1>5. Top' = fr
  BY <1>3 DEF Top, Last
<1>. QED
  BY <1>2, <1>3, <1>4, <1>5 DEF Replaced

LEMMA Push ==
    ASSUME stack \in Seq(Calls), NEW fr \in Calls, stack' = Append(stack, fr)
    PROVE  Pushed /\ Top' = fr
<1>1. /\ stack' \in Seq(Calls) /\ Len(stack') = Len(stack) + 1 /\ Len(stack) \in Nat
      /\ \A k \in 1..Len(stack) : stack'[k] = stack[k]
      /\ stack'[Len(stack) + 1] = fr
  BY AppendProperties, LenProperties
<1>2. stack' # <<>>
  BY <1>1, EmptySeq
<1>3. Top' = fr
  BY <1>1 DEF Top, Last
<1>. QED
  BY <1>1, <1>2, <1>3 DEF Pushed

LEMMA Pop ==
    ASSUME stack \in Seq(Calls), stack # <<>>, stack' = Front(stack)
    PROVE  Popped
<1>1. /\ stack' \in Seq(Calls) /\ Len(stack') = Len(stack) - 1
      /\ \A k \in 1..(Len(stack) - 1) : stack'[k] = stack[k]
  BY FrontCalls
<1>2. Len(stack) \in Nat /\ Len(stack) > 0 /\ Top = stack[Len(stack)] /\ Top \in Calls
  BY TopCall
<1>3. ASSUME stack' # <<>> PROVE Len(stack) > 1 /\ Top' = stack[Len(stack) - 1]
  <2>1. Len(stack') > 0
    BY <1>1, <1>3, EmptySeq, LenProperties
  <2>2. Top' = stack'[Len(stack')]
    BY DEF Top, Last
  <2>. QED
    BY <1>1, <1>2, <2>1, <2>2
<1>. QED
  BY <1>1, <1>2, <1>3 DEF Popped

(* What was sent *)

LEMMA SentGrows ==
    ASSUME out \in Seq(Chars), fifo \in Seq(Chars), NEW c \in Chars,
           out' = out, fifo' = Append(fifo, c)
    PROVE  /\ Sent \in Seq(Chars) /\ Sent' \in Seq(Chars) /\ Len(Sent) \in Nat
           /\ Len(Sent') = Len(Sent) + 1
           /\ Sent'[Len(Sent) + 1] = c
           /\ \A j \in 1..Len(Sent) : Sent'[j] = Sent[j]
<1>1. fifo' \in Seq(Chars) /\ Len(fifo') = Len(fifo) + 1 /\ fifo'[Len(fifo) + 1] = c
      /\ \A k \in 1..Len(fifo) : fifo'[k] = fifo[k]
  BY AppendProperties
<1>2. Len(out) \in Nat /\ Len(fifo) \in Nat
  BY LenProperties
<1>3. /\ Sent \in Seq(Chars) /\ Len(Sent) = Len(out) + Len(fifo)
      /\ \A k \in 1..Len(Sent) : Sent[k] = IF k <= Len(out) THEN out[k] ELSE fifo[k - Len(out)]
  BY ConcatProperties DEF Sent
<1>4. /\ Sent' \in Seq(Chars) /\ Len(Sent') = Len(out) + Len(fifo')
      /\ \A k \in 1..Len(Sent') : Sent'[k] = IF k <= Len(out) THEN out[k] ELSE fifo'[k - Len(out)]
  BY <1>1, ConcatProperties DEF Sent
<1>5. Len(Sent) \in Nat /\ Len(Sent') = Len(Sent) + 1
  BY <1>1, <1>2, <1>3, <1>4
<1>6. Sent'[Len(Sent) + 1] = c
  BY <1>1, <1>2, <1>3, <1>4, <1>5
<1>7. ASSUME NEW j \in 1..Len(Sent) PROVE Sent'[j] = Sent[j]
  <2>1. j \in 1..Len(Sent')
    BY <1>5
  <2>2. j > Len(out) => j - Len(out) \in 1..Len(fifo)
    BY <1>2, <1>3
  <2>3. Sent'[j] = IF j <= Len(out) THEN out[j] ELSE fifo'[j - Len(out)]
    BY <1>4, <2>1
  <2>4. Sent[j] = IF j <= Len(out) THEN out[j] ELSE fifo[j - Len(out)]
    BY <1>3
  <2>5. j > Len(out) => fifo'[j - Len(out)] = fifo[j - Len(out)]
    BY <1>1, <2>2
  <2>6. j > Len(out) \/ j <= Len(out)
    BY <1>2, <1>5
  <2>. QED
    BY <2>3, <2>4, <2>5, <2>6, Zenon
<1>. QED
  BY <1>3, <1>4, <1>5, <1>6, <1>7

LEMMA SentMoves ==
    ASSUME out \in Seq(Chars), fifo \in Seq(Chars), fifo # <<>>,
           out' = Append(out, Head(fifo)), fifo' = Tail(fifo)
    PROVE  Sent' = Sent /\ out' \in Seq(Chars) /\ fifo' \in Seq(Chars) /\ Len(fifo') < Len(fifo)
<1>1. /\ Head(fifo) \in Chars /\ Tail(fifo) \in Seq(Chars)
      /\ Len(Tail(fifo)) = Len(fifo) - 1 /\ Len(fifo) \in Nat /\ Len(out) \in Nat
  BY HeadTailProperties, LenProperties
<1>2. Append(out, Head(fifo)) = out \o <<Head(fifo)>>
  BY <1>1, AppendIsConcat
<1>3. <<Head(fifo)>> \o Tail(fifo) = fifo
  BY HeadTailProperties
<1>4. Sent' = out \o (<<Head(fifo)>> \o Tail(fifo))
  <2>1. <<Head(fifo)>> \in Seq(Chars)
    BY <1>1
  <2>. QED
    BY <1>1, <1>2, <2>1, ConcatAssociative DEF Sent
<1>5. out' \in Seq(Chars)
  BY <1>1, AppendProperties
<1>. QED
  BY <1>1, <1>3, <1>4, <1>5 DEF Sent

-----------------------------------------------------------------------------
(* What each action does *)

Quiet == /\ stack' = stack /\ locked' = locked /\ owner' = owner /\ noff' = noff /\ sie' = sie
         /\ intena' = intena /\ id' = id /\ faults' = faults /\ lost' = lost

LEMMA NewFrame ==
    ASSUME id \in Nat, NEW g \in Funs, NEW w \in Whys, NEW q \in Labels
    PROVE  /\ Frame(g, w, q) \in Calls /\ Frame(g, w, q).f = g /\ Frame(g, w, q).why = w
           /\ Frame(g, w, q).pc = q /\ Frame(g, w, q).id = id
<1>1. MsgLen \in 1..MsgLen
  BY ConsoleAssumption
<1>. QED
  BY <1>1 DEF Frame, Calls

LEMMA CallEffect ==
    ASSUME TypeInv, CallPuts \/ CallPrintf \/ CallPanic
    PROVE  /\ Pushed /\ stack = <<>> /\ up /\ Top'.id = id /\ id' = id + 1
           /\ locked' = locked /\ owner' = owner /\ noff' = noff /\ intena' = intena /\ sie' = sie
           /\ up' = up /\ fifo' = fifo /\ depth' = depth /\ out' = out /\ lost' = lost
           /\ faults' = faults /\ Top'.why \in {"none", "caller"}
           /\ \/ Top'.f = "uart_puts" /\ Top'.pc = "poll"
              \/ Top'.f = "printf" /\ Top'.pc = "acquire"
              \/ Top'.f = "panic" /\ Top'.pc = "clear"
<1>. USE DEF TypeInv, Call, Enter, lockVars, uartVars
<1>1. CASE CallPuts
  <2>. DEFINE fr == Frame("uart_puts", "none", "poll")
  <2>1. fr \in Calls /\ fr.id = id /\ fr.f = "uart_puts" /\ fr.pc = "poll" /\ fr.why = "none"
    <3>1. "uart_puts" \in Funs /\ "none" \in Whys /\ "poll" \in Labels
      BY DEF Funs, Labels, Whys
    <3>. QED
      BY <3>1, NewFrame DEF TypeInv
  <2>2. Pushed /\ Top' = fr
    BY <1>1, <2>1, Push DEF CallPuts
  <2>. QED
    BY <1>1, <2>1, <2>2 DEF CallPuts
<1>2. CASE CallPrintf
  <2>. DEFINE fr == Frame("printf", "none", "acquire")
  <2>1. fr \in Calls /\ fr.id = id /\ fr.f = "printf" /\ fr.pc = "acquire" /\ fr.why = "none"
    <3>1. "printf" \in Funs /\ "none" \in Whys /\ "acquire" \in Labels
      BY DEF Funs, Labels, Whys
    <3>. QED
      BY <3>1, NewFrame DEF TypeInv
  <2>2. Pushed /\ Top' = fr
    BY <1>2, <2>1, Push DEF CallPrintf
  <2>. QED
    BY <1>2, <2>1, <2>2 DEF CallPrintf
<1>3. CASE CallPanic
  <2>. DEFINE fr == Frame("panic", "caller", "clear")
  <2>1. fr \in Calls /\ fr.id = id /\ fr.f = "panic" /\ fr.pc = "clear" /\ fr.why = "caller"
    <3>1. "panic" \in Funs /\ "caller" \in Whys /\ "clear" \in Labels
      BY DEF Funs, Labels, Whys
    <3>. QED
      BY <3>1, NewFrame DEF TypeInv
  <2>2. Pushed /\ Top' = fr
    BY <1>3, <2>1, Push DEF CallPanic
  <2>. QED
    BY <1>3, <2>1, <2>2 DEF CallPanic
<1>. QED
  BY <1>1, <1>2, <1>3

LEMMA TickEffect ==
    ASSUME TypeInv, Tick
    PROVE  /\ Pushed /\ up /\ sie /\ ~sie' /\ Top'.id = id /\ id' = id + 1
           /\ locked' = locked /\ owner' = owner /\ noff' = noff /\ intena' = intena
           /\ up' = up /\ fifo' = fifo /\ depth' = depth /\ out' = out /\ lost' = lost
           /\ faults' = faults /\ Top'.why = "none" /\ Top'.f = "tick" /\ Top'.pc = "acquire"
<1>. DEFINE fr == Frame("tick", "none", "acquire")
<1>1. fr \in Calls /\ fr.id = id /\ fr.f = "tick" /\ fr.pc = "acquire" /\ fr.why = "none"
  <2>1. "tick" \in Funs /\ "none" \in Whys /\ "acquire" \in Labels
    BY DEF Funs, Labels, Whys
  <2>. QED
    BY <2>1, NewFrame DEF TypeInv
<1>2. Pushed /\ Top' = fr
  BY <1>1, Push DEF TypeInv, Tick, Enter
<1>. QED
  BY <1>1, <1>2 DEF Tick, Enter, uartVars

LEMMA FaultEffect ==
    ASSUME TypeInv, Fault
    PROVE  /\ Pushed /\ up /\ ~sie' /\ Top'.id = id /\ id' = id + 1
           /\ locked' = locked /\ owner' = owner /\ noff' = noff /\ intena' = intena
           /\ up' = up /\ fifo' = fifo /\ depth' = depth /\ out' = out /\ lost' = lost
           /\ faults' = faults + 1 /\ Top'.why = "fault"
           /\ \/ Top'.f = "panic" /\ Top'.pc = "clear"
              \/ Top'.f = "scause" /\ Top'.pc = "acquire"
<1>1. ASSUME Enter("panic", "fault", "clear")
      PROVE Pushed /\ Top'.id = id /\ Top'.why = "fault" /\ Top'.f = "panic" /\ Top'.pc = "clear"
  <2>. DEFINE fr == Frame("panic", "fault", "clear")
  <2>1. fr \in Calls /\ fr.id = id /\ fr.f = "panic" /\ fr.pc = "clear" /\ fr.why = "fault"
    <3>1. "panic" \in Funs /\ "fault" \in Whys /\ "clear" \in Labels
      BY DEF Funs, Labels, Whys
    <3>. QED
      BY <3>1, NewFrame DEF TypeInv
  <2>. QED
    BY <1>1, <2>1, Push DEF TypeInv, Enter
<1>2. ASSUME Enter("scause", "fault", "acquire")
      PROVE Pushed /\ Top'.id = id /\ Top'.why = "fault" /\ Top'.f = "scause" /\ Top'.pc = "acquire"
  <2>. DEFINE fr == Frame("scause", "fault", "acquire")
  <2>1. fr \in Calls /\ fr.id = id /\ fr.f = "scause" /\ fr.pc = "acquire" /\ fr.why = "fault"
    <3>1. "scause" \in Funs /\ "fault" \in Whys /\ "acquire" \in Labels
      BY DEF Funs, Labels, Whys
    <3>. QED
      BY <3>1, NewFrame DEF TypeInv
  <2>. QED
    BY <1>2, <2>1, Push DEF TypeInv, Enter
<1>3. /\ up /\ ~sie' /\ id' = id + 1
      /\ locked' = locked /\ owner' = owner /\ noff' = noff /\ intena' = intena
      /\ up' = up /\ fifo' = fifo /\ depth' = depth /\ out' = out /\ lost' = lost
      /\ faults' = faults + 1
  BY DEF Fault, Enter, uartVars
<1>. QED
  BY <1>1, <1>2, <1>3 DEF Fault

(* the call on top goes on at another label, maybe as another function *)
LEMMA RecordStep ==
    ASSUME stack \in Seq(Calls), stack # <<>>, NEW g \in Funs, NEW w \in Whys, NEW q \in Labels,
           NEW l \in 1..MsgLen,
           stack' = Append(Front(stack), [f |-> g, why |-> w, pc |-> q, left |-> l, id |-> Top.id])
    PROVE  /\ Replaced /\ Top'.f = g /\ Top'.why = w /\ Top'.pc = q /\ Top'.left = l
           /\ Top'.id = Top.id
<1>. DEFINE fr == [f |-> g, why |-> w, pc |-> q, left |-> l, id |-> Top.id]
<1>1. Top \in Calls
  BY TopCall
<1>2. fr \in Calls
  BY <1>1 DEF Calls
<1>3. Replaced /\ Top' = fr
  BY <1>2, Replace
<1>. QED
  BY <1>3

LEMMA Fields ==
    ASSUME NEW fr \in Calls
    PROVE  /\ fr.f \in Funs /\ fr.why \in Whys /\ fr.pc \in Labels /\ fr.left \in 1..MsgLen /\ fr.id \in Nat
           /\ fr = [f |-> fr.f, why |-> fr.why, pc |-> fr.pc, left |-> fr.left, id |-> fr.id]
  BY DEF Calls

(* records with some fields replaced, written out *)
LEMMA NewLabel ==
    ASSUME NEW fr \in Calls, NEW q
    PROVE  [fr EXCEPT !.pc = q] = [f |-> fr.f, why |-> fr.why, pc |-> q, left |-> fr.left, id |-> fr.id]
  BY DEF Calls

LEMMA NewPanic ==
    ASSUME NEW fr \in Calls, NEW g, NEW w, NEW q
    PROVE  [fr EXCEPT !.f = g, !.why = w, !.pc = q] =
             [f |-> g, why |-> w, pc |-> q, left |-> fr.left, id |-> fr.id]
<1>. DEFINE R(a, b, c) == [f |-> a, why |-> b, pc |-> c, left |-> fr.left, id |-> fr.id]
<1>1. [fr EXCEPT !.f = g] = R(g, fr.why, fr.pc)
  BY DEF Calls
<1>2. /\ [R(g, fr.why, fr.pc) EXCEPT !.why = w] = R(g, w, fr.pc)
      /\ [R(g, w, fr.pc) EXCEPT !.pc = q] = R(g, w, q)
  OBVIOUS
<1>. QED
  BY <1>1, <1>2

LEMMA NewMessage ==
    ASSUME NEW fr \in Calls
    PROVE  /\ [fr EXCEPT !.f = "panic", !.pc = "clear", !.left = MsgLen] =
                [f |-> "panic", why |-> fr.why, pc |-> "clear", left |-> MsgLen, id |-> fr.id]
           /\ [fr EXCEPT !.f = "panic2", !.pc = "acquire", !.left = MsgLen] =
                [f |-> "panic2", why |-> fr.why, pc |-> "acquire", left |-> MsgLen, id |-> fr.id]
<1>. DEFINE R(a, c, d) == [f |-> a, why |-> fr.why, pc |-> c, left |-> d, id |-> fr.id]
<1>1. \A g : [fr EXCEPT !.f = g] = R(g, fr.pc, fr.left)
  BY DEF Calls
<1>2. /\ [R("panic", fr.pc, fr.left) EXCEPT !.pc = "clear"] = R("panic", "clear", fr.left)
      /\ [R("panic", "clear", fr.left) EXCEPT !.left = MsgLen] = R("panic", "clear", MsgLen)
  OBVIOUS
<1>3. /\ [R("panic2", fr.pc, fr.left) EXCEPT !.pc = "acquire"] = R("panic2", "acquire", fr.left)
      /\ [R("panic2", "acquire", fr.left) EXCEPT !.left = MsgLen] = R("panic2", "acquire", MsgLen)
  OBVIOUS
<1>. QED
  BY <1>1, <1>2, <1>3

LEMMA NextChar ==
    ASSUME NEW fr \in Calls, NEW q
    PROVE  [fr EXCEPT !.pc = q, !.left = @ - 1] =
             [f |-> fr.f, why |-> fr.why, pc |-> q, left |-> fr.left - 1, id |-> fr.id]
<1>. DEFINE R(d) == [f |-> fr.f, why |-> fr.why, pc |-> q, left |-> d, id |-> fr.id]
<1>1. [fr EXCEPT !.pc = q] = R(fr.left)
  BY DEF Calls
<1>2. [R(fr.left) EXCEPT !.left = fr.left - 1] = R(fr.left - 1)
  OBVIOUS
<1>. QED
  BY <1>1, <1>2

LEMMA LabelStep ==
    ASSUME stack \in Seq(Calls), stack # <<>>, NEW q \in Labels, Goto(q)
    PROVE  /\ Replaced /\ Top'.f = Top.f /\ Top'.why = Top.why /\ Top'.pc = q
           /\ Top'.left = Top.left /\ Top'.id = Top.id
<1>1. Top \in Calls
  BY TopCall
<1>2. Top.f \in Funs /\ Top.why \in Whys /\ Top.left \in 1..MsgLen
  BY <1>1, Fields
<1>3. stack' = Append(Front(stack),
                 [f |-> Top.f, why |-> Top.why, pc |-> q, left |-> Top.left, id |-> Top.id])
  BY <1>1, NewLabel DEF Goto, SetTop
<1>. QED
  BY <1>2, <1>3, RecordStep

LEMMA AcquireEffect ==
    ASSUME TypeInv, NestInv, Acquire
    PROVE  /\ Replaced /\ up /\ Top.pc = "acquire" /\ Top'.id = Top.id /\ Top'.left = Top.left
           /\ noff' = noff + 1 /\ ~sie' /\ intena' \in BOOLEAN
           /\ locked' = locked /\ owner' = owner /\ id' = id /\ faults' = faults
           /\ up' = up /\ fifo' = fifo /\ depth' = depth /\ out' = out /\ lost' = lost
           /\ \/ /\ locked /\ owner
                 /\ Top.f = "scause" /\ Top'.f = "panic" /\ Top'.why = "acquire" /\ Top'.pc = "clear"
              \/ /\ ~(locked /\ owner)
                 /\ Top'.f = Top.f /\ Top'.why = Top.why /\ Top'.pc = "swap"
<1>1. /\ up /\ stack # <<>> /\ Top.pc = "acquire"
      /\ noff' = noff + 1 /\ ~sie' /\ intena' \in BOOLEAN /\ id' = id /\ faults' = faults
      /\ locked' = locked /\ owner' = owner
      /\ up' = up /\ fifo' = fifo /\ depth' = depth /\ out' = out /\ lost' = lost
  BY DEF Acquire, At, PushOff, uartVars, counters, TypeInv
<1>2. stack \in Seq(Calls) /\ Top \in Calls
  BY <1>1, TopCall DEF TypeInv
<1>3. /\ Top.left \in 1..MsgLen
      /\ "panic" \in Funs /\ "acquire" \in Whys /\ "clear" \in Labels /\ "swap" \in Labels
  BY <1>2, Fields DEF Funs, Whys, Labels
<1>4. CASE locked /\ owner
  <2>1. Top.f = "scause"
    BY <1>1, <1>4 DEF NestInv
  <2>2. stack' = Append(Front(stack), [Top EXCEPT !.f = "panic", !.why = "acquire", !.pc = "clear"])
    BY <1>4 DEF Acquire, holding, Panics, SetTop
  <2>3. stack' = Append(Front(stack),
                   [f |-> "panic", why |-> "acquire", pc |-> "clear", left |-> Top.left, id |-> Top.id])
    BY <1>2, <2>2, NewPanic
  <2>4. /\ Replaced /\ Top'.f = "panic" /\ Top'.why = "acquire" /\ Top'.pc = "clear"
        /\ Top'.left = Top.left /\ Top'.id = Top.id
    BY <1>1, <1>2, <1>3, <2>3, RecordStep
  <2>. QED
    BY <1>1, <1>4, <2>1, <2>4
<1>5. CASE ~(locked /\ owner)
  <2>1. Goto("swap")
    BY <1>5 DEF Acquire, holding
  <2>2. /\ Replaced /\ Top'.f = Top.f /\ Top'.why = Top.why /\ Top'.pc = "swap"
        /\ Top'.left = Top.left /\ Top'.id = Top.id
    BY <1>1, <1>2, <1>3, <2>1, LabelStep
  <2>. QED
    BY <1>1, <1>5, <2>2
<1>. QED
  BY <1>4, <1>5

LEMMA PanicClearEffect ==
    ASSUME TypeInv, PanicClear
    PROVE  /\ Replaced /\ up /\ Top.pc = "clear" /\ Top'.pc = "acquire"
           /\ Top'.f = Top.f /\ Top'.why = Top.why /\ Top'.id = Top.id /\ Top'.left = Top.left
           /\ ~locked' /\ owner' = owner /\ noff' = noff /\ sie' = sie /\ intena' = intena
           /\ id' = id /\ faults' = faults
           /\ up' = up /\ fifo' = fifo /\ depth' = depth /\ out' = out /\ lost' = lost
<1>1. /\ up /\ stack # <<>> /\ Top.pc = "clear" /\ owner' = owner
      /\ ~locked' /\ noff' = noff /\ sie' = sie /\ intena' = intena /\ id' = id /\ faults' = faults
      /\ up' = up /\ fifo' = fifo /\ depth' = depth /\ out' = out /\ lost' = lost
      /\ Goto("acquire")
  BY DEF PanicClear, At, Goto, uartVars, counters
<1>2. stack \in Seq(Calls) /\ "acquire" \in Labels
  BY DEF TypeInv, Labels
<1>. QED
  BY <1>1, <1>2, LabelStep

LEMMA PollEffect ==
    ASSUME TypeInv, Poll
    PROVE  /\ Replaced /\ up /\ Top.pc = "poll" /\ Top'.pc = "write" /\ fifo = <<>>
           /\ Top'.f = Top.f /\ Top'.why = Top.why /\ Top'.id = Top.id /\ Top'.left = Top.left
           /\ locked' = locked /\ owner' = owner /\ noff' = noff /\ sie' = sie /\ intena' = intena
           /\ id' = id /\ faults' = faults
           /\ up' = up /\ fifo' = fifo /\ depth' = depth /\ out' = out /\ lost' = lost
<1>1. /\ up /\ stack # <<>> /\ Top.pc = "poll" /\ fifo = <<>> /\ owner' = owner
      /\ locked' = locked /\ noff' = noff /\ sie' = sie /\ intena' = intena /\ id' = id /\ faults' = faults
      /\ up' = up /\ fifo' = fifo /\ depth' = depth /\ out' = out /\ lost' = lost
      /\ Goto("write")
  BY DEF Poll, At, Goto, lockVars, uartVars, counters
<1>2. stack \in Seq(Calls) /\ "write" \in Labels
  BY DEF TypeInv, Labels
<1>. QED
  BY <1>1, <1>2, LabelStep

(* the stores to printlock's words; release() finds printlock held: see    *)
(* NestInv                                                                 *)
LockWords == Swap \/ SetCpu \/ Release \/ Unlock

LEMMA LockEffect ==
    ASSUME TypeInv, ShapeInv, NestInv, LockWords
    PROVE  /\ Replaced /\ up /\ Top'.f = Top.f /\ Top'.why = Top.why
           /\ Top'.left = Top.left /\ Top'.id = Top.id
           /\ noff' = noff /\ sie' = sie /\ intena' = intena /\ id' = id /\ faults' = faults
           /\ up' = up /\ fifo' = fifo /\ depth' = depth /\ out' = out /\ lost' = lost
           /\ Top.f # "uart_puts"
           /\ \/ Top.pc = "swap" /\ Top'.pc = "cpu" /\ locked' = TRUE /\ owner' = owner
              \/ Top.pc = "cpu" /\ Top'.pc = "poll" /\ locked' = locked /\ owner' = TRUE
              \/ Top.pc = "release" /\ Top'.pc = "unlock" /\ locked' = locked /\ owner' = FALSE
              \/ Top.pc = "unlock" /\ Top'.pc = "popoff" /\ locked' = FALSE /\ owner' = owner
<1>1. /\ up /\ stack # <<>> /\ Top.pc \in {"swap", "cpu", "release", "unlock"}
      /\ noff' = noff /\ sie' = sie /\ intena' = intena /\ id' = id /\ faults' = faults
      /\ up' = up /\ fifo' = fifo /\ depth' = depth /\ out' = out /\ lost' = lost
  BY DEF LockWords, Swap, SetCpu, Release, Unlock, At, uartVars, counters
<1>2. /\ stack \in Seq(Calls) /\ Len(stack) \in 1..Len(stack) /\ Top = stack[Len(stack)]
      /\ {"cpu", "poll", "unlock", "popoff"} \subseteq Labels
  BY <1>1, TopCall DEF TypeInv, Labels
<1>3. Top.f # "uart_puts"
  BY <1>1, <1>2 DEF ShapeInv
<1>4. Release => holding
  BY <1>1, <1>3 DEF Release, At, holding, NestInv, Prints, Inside
<1>5. PICK q \in {"cpu", "poll", "unlock", "popoff"} :
        /\ Goto(q)
        /\ \/ Top.pc = "swap" /\ q = "cpu" /\ locked' = TRUE /\ owner' = owner
           \/ Top.pc = "cpu" /\ q = "poll" /\ locked' = locked /\ owner' = TRUE
           \/ Top.pc = "release" /\ q = "unlock" /\ locked' = locked /\ owner' = FALSE
           \/ Top.pc = "unlock" /\ q = "popoff" /\ locked' = FALSE /\ owner' = owner
  BY <1>4, Zenon DEF LockWords, Swap, SetCpu, Release, Unlock, At
<1>6. /\ Replaced /\ Top'.f = Top.f /\ Top'.why = Top.why /\ Top'.pc = q
      /\ Top'.left = Top.left /\ Top'.id = Top.id
  BY <1>1, <1>2, <1>5, LabelStep
<1>. QED
  BY <1>1, <1>3, <1>5, <1>6

(* pop_off finds interrupts off and noff > 0: see NestInv *)
LEMMA PopOffEffect ==
    ASSUME TypeInv, ShapeInv, NestInv, PopOff
    PROVE  /\ stack # <<>> /\ up /\ Top.pc = "popoff" /\ Top.f # "uart_puts"
           /\ ~locked /\ locked' = locked /\ owner' = owner
           /\ noff > 0 /\ noff' = noff - 1 /\ intena' = intena
           /\ sie' <=> ((noff = 1 /\ intena) \/ Top.f = "tick")
           /\ id' = id /\ faults' = faults
           /\ up' = up /\ fifo' = fifo /\ depth' = depth /\ out' = out /\ lost' = lost
           /\ \/ Popped /\ Top.f \in {"printf", "tick"}
              \/ /\ Replaced /\ Top'.why = Top.why /\ Top'.id = Top.id
                 /\ \/ Top.f = "scause" /\ Top'.f = "panic" /\ Top'.pc = "clear"
                    \/ Top.f = "panic" /\ Top'.f = "panic2" /\ Top'.pc = "acquire"
                    \/ Top.f = "panic2" /\ Top'.f = "panic2" /\ Top'.pc = "spin"
<1>1. /\ up /\ stack # <<>> /\ Top.pc = "popoff" /\ intena' = intena /\ id' = id /\ faults' = faults
      /\ locked' = locked /\ owner' = owner
      /\ up' = up /\ fifo' = fifo /\ depth' = depth /\ out' = out /\ lost' = lost
  BY DEF PopOff, At, uartVars, counters
<1>2. /\ stack \in Seq(Calls) /\ Top \in Calls /\ Len(stack) \in 1..Len(stack)
      /\ Top = stack[Len(stack)]
  BY <1>1, TopCall DEF TypeInv
<1>3. /\ Top.f \in Funs /\ Top.why \in Whys /\ Top.left \in 1..MsgLen /\ MsgLen \in 1..MsgLen
      /\ {"panic", "panic2"} \subseteq Funs /\ {"clear", "acquire", "spin"} \subseteq Labels
  <2>1. /\ Top.f \in Funs /\ Top.why \in Whys /\ Top.left \in 1..MsgLen
    BY <1>2, Fields
  <2>2. {"panic", "panic2"} \subseteq Funs /\ {"clear", "acquire", "spin"} \subseteq Labels
    BY DEF Funs, Labels
  <2>. QED
    BY <2>1, <2>2, ConsoleAssumption
<1>4. Top.f # "uart_puts"
  BY <1>1, <1>2 DEF ShapeInv
<1>5. ~locked /\ noff > 0 /\ noff \in Nat /\ ~sie
  BY <1>1, <1>4 DEF NestInv, Held, TypeInv
<1>6. /\ noff' = noff - 1
      /\ sie' <=> ((noff = 1 /\ intena) \/ Top.f = "tick")
      /\ stack' = IF Top.f \in {"printf", "tick"} THEN Front(stack) ELSE Append(Front(stack), AfterPrintf)
  <2>1. ~(sie \/ noff < 1)
    BY <1>5
  <2>. QED
    BY <2>1, Zenon DEF PopOff
<1>7. CASE Top.f \in {"printf", "tick"}
  BY <1>1, <1>2, <1>4, <1>5, <1>6, <1>7, Pop
<1>8. CASE Top.f = "scause"
  <2>1. stack' = Append(Front(stack), [Top EXCEPT !.f = "panic", !.pc = "clear", !.left = MsgLen])
    BY <1>6, <1>8 DEF AfterPrintf
  <2>4. [Top EXCEPT !.f = "panic", !.pc = "clear", !.left = MsgLen] =
          [f |-> "panic", why |-> Top.why, pc |-> "clear", left |-> MsgLen, id |-> Top.id]
    BY <1>2, NewMessage
  <2>2. stack' = Append(Front(stack),
                   [f |-> "panic", why |-> Top.why, pc |-> "clear", left |-> MsgLen, id |-> Top.id])
    BY <2>1, <2>4
  <2>3. Replaced /\ Top'.f = "panic" /\ Top'.why = Top.why /\ Top'.pc = "clear" /\ Top'.id = Top.id
    BY <1>1, <1>2, <1>3, <2>2, RecordStep
  <2>. QED
    BY <1>1, <1>4, <1>5, <1>6, <1>8, <2>3
<1>9. CASE Top.f = "panic"
  <2>1. stack' = Append(Front(stack), [Top EXCEPT !.f = "panic2", !.pc = "acquire", !.left = MsgLen])
    BY <1>6, <1>9 DEF AfterPrintf
  <2>4. [Top EXCEPT !.f = "panic2", !.pc = "acquire", !.left = MsgLen] =
          [f |-> "panic2", why |-> Top.why, pc |-> "acquire", left |-> MsgLen, id |-> Top.id]
    BY <1>2, NewMessage
  <2>2. stack' = Append(Front(stack),
                   [f |-> "panic2", why |-> Top.why, pc |-> "acquire", left |-> MsgLen, id |-> Top.id])
    BY <2>1, <2>4
  <2>3. Replaced /\ Top'.f = "panic2" /\ Top'.why = Top.why /\ Top'.pc = "acquire" /\ Top'.id = Top.id
    BY <1>1, <1>2, <1>3, <2>2, RecordStep
  <2>. QED
    BY <1>1, <1>4, <1>5, <1>6, <1>9, <2>3
<1>10. CASE Top.f = "panic2"
  <2>1. stack' = Append(Front(stack), [Top EXCEPT !.pc = "spin"])
    BY <1>6, <1>10 DEF AfterPrintf
  <2>2. stack' = Append(Front(stack),
                   [f |-> "panic2", why |-> Top.why, pc |-> "spin", left |-> Top.left, id |-> Top.id])
    BY <1>2, <1>10, <2>1, NewLabel
  <2>3. Replaced /\ Top'.f = "panic2" /\ Top'.why = Top.why /\ Top'.pc = "spin" /\ Top'.id = Top.id
    BY <1>1, <1>2, <1>3, <2>2, RecordStep
  <2>. QED
    BY <1>1, <1>4, <1>5, <1>6, <1>10, <2>3
<1>. QED
  BY <1>3, <1>4, <1>7, <1>8, <1>9, <1>10 DEF Funs

LEMMA WriteEffect ==
    ASSUME TypeInv, Write
    PROVE  /\ stack # <<>> /\ up /\ Top.pc = "write" /\ Char(Top) \in Chars
           /\ locked' = locked /\ owner' = owner /\ noff' = noff /\ sie' = sie /\ intena' = intena
           /\ id' = id /\ faults' = faults /\ up' = up /\ depth' = depth /\ out' = out
           /\ IF Len(fifo) < depth THEN fifo' = Append(fifo, Char(Top)) /\ lost' = lost
                                   ELSE fifo' = fifo /\ lost'
           /\ \/ Popped /\ Top.f = "uart_puts"
              \/ /\ Replaced /\ Top'.f = Top.f /\ Top'.why = Top.why /\ Top'.id = Top.id
                 /\ \/ Top.left > 1 /\ Top'.pc = "poll" /\ Top'.left = Top.left - 1
                    \/ Top'.pc = "release" /\ Top.f # "uart_puts"
<1>1. /\ up /\ stack # <<>> /\ Top.pc = "write"
      /\ locked' = locked /\ owner' = owner /\ noff' = noff /\ sie' = sie /\ intena' = intena
      /\ id' = id /\ faults' = faults /\ up' = up /\ depth' = depth /\ out' = out
  BY DEF Write, At, lockVars, counters
<1>2. stack \in Seq(Calls) /\ Top \in Calls
  BY <1>1, TopCall DEF TypeInv
<1>3. /\ Top.f \in Funs /\ Top.why \in Whys /\ Top.left \in 1..MsgLen /\ Top.id \in Nat
      /\ "poll" \in Labels /\ "release" \in Labels
  BY <1>2, Fields DEF Labels
<1>4. Char(Top) \in Chars
  BY <1>3 DEF Char, Chars
<1>5. IF Len(fifo) < depth THEN fifo' = Append(fifo, Char(Top)) /\ lost' = lost
                           ELSE fifo' = fifo /\ lost'
  BY DEF Write, Char
<1>6. CASE Top.left > 1
  <2>1. stack' = Append(Front(stack), [Top EXCEPT !.pc = "poll", !.left = @ - 1])
    BY <1>6 DEF Write
  <2>2. stack' = Append(Front(stack),
                   [f |-> Top.f, why |-> Top.why, pc |-> "poll", left |-> Top.left - 1, id |-> Top.id])
    BY <1>2, <2>1, NextChar
  <2>3. Top.left - 1 \in 1..MsgLen
    BY <1>3, <1>6, ConsoleAssumption
  <2>4. /\ Replaced /\ Top'.f = Top.f /\ Top'.why = Top.why /\ Top'.pc = "poll"
        /\ Top'.left = Top.left - 1 /\ Top'.id = Top.id
    <3>1. PICK l \in 1..MsgLen : l = Top.left - 1
      BY <2>3
    <3>2. stack' = Append(Front(stack),
                     [f |-> Top.f, why |-> Top.why, pc |-> "poll", left |-> l, id |-> Top.id])
      BY <2>2, <3>1
    <3>3. /\ Replaced /\ Top'.f = Top.f /\ Top'.why = Top.why /\ Top'.pc = "poll"
          /\ Top'.left = l /\ Top'.id = Top.id
      BY <1>1, <1>2, <1>3, <3>2, RecordStep
    <3>. QED
      BY <3>1, <3>3
  <2>. QED
    BY <1>1, <1>4, <1>5, <1>6, <2>4
<1>7. CASE ~(Top.left > 1) /\ Top.f = "uart_puts"
  <2>1. Popped
    BY <1>1, <1>2, <1>7, Pop DEF Write
  <2>. QED
    BY <1>1, <1>4, <1>5, <1>7, <2>1
<1>8. CASE ~(Top.left > 1) /\ Top.f # "uart_puts"
  <2>1. stack' = Append(Front(stack), [Top EXCEPT !.pc = "release"])
    BY <1>8 DEF Write
  <2>2. stack' = Append(Front(stack),
                   [f |-> Top.f, why |-> Top.why, pc |-> "release", left |-> Top.left, id |-> Top.id])
    BY <1>2, <2>1, NewLabel
  <2>3. /\ Replaced /\ Top'.f = Top.f /\ Top'.why = Top.why /\ Top'.pc = "release" /\ Top'.id = Top.id
    BY <1>1, <1>2, <1>3, <2>2, RecordStep
  <2>. QED
    BY <1>1, <1>4, <1>5, <1>8, <2>3
<1>. QED
  BY <1>6, <1>7, <1>8

-----------------------------------------------------------------------------
(* The invariant is inductive *)

LEMMA UartEffect ==
    ASSUME TypeInv, uartinit \/ Transmit \/ Spin \/ SwapWaits \/ Done \/ UNCHANGED vars
    PROVE  /\ Quiet /\ Sent' = Sent /\ (up => up') /\ up' \in BOOLEAN /\ depth' \in Nat
           /\ out' \in Seq(Chars) /\ fifo' \in Seq(Chars)
           /\ Len(fifo') <= Len(fifo) /\ Len(fifo) \in Nat /\ Len(fifo') \in Nat
           /\ up' => depth' = FIFODepth \/ (up /\ depth' = depth)
<1>0. Len(fifo) \in Nat
  BY LenProperties DEF TypeInv
<1>1. CASE uartinit
  <2>1. Quiet /\ out' = out /\ fifo' = fifo /\ up' /\ depth' = FIFODepth
    BY <1>1 DEF uartinit, lockVars, counters, Quiet
  <2>. QED
    BY <1>0, <2>1, ConsoleAssumption DEF TypeInv, Sent
<1>2. CASE Transmit
  <2>1. Quiet /\ up' = up /\ depth' = depth
    BY <1>2 DEF Transmit, lockVars, counters, Quiet
  <2>2. Sent' = Sent /\ out' \in Seq(Chars) /\ fifo' \in Seq(Chars) /\ Len(fifo') < Len(fifo)
    BY <1>2, SentMoves DEF Transmit, TypeInv
  <2>3. Len(fifo') \in Nat
    BY <2>2, LenProperties
  <2>. QED
    BY <1>0, <2>1, <2>2, <2>3 DEF TypeInv
<1>3. CASE Spin \/ SwapWaits \/ Done \/ UNCHANGED vars
  <2>1. Quiet /\ out' = out /\ fifo' = fifo /\ up' = up /\ depth' = depth
    BY <1>3 DEF Spin, SwapWaits, Done, vars, Quiet
  <2>. QED
    BY <1>0, <2>1 DEF TypeInv, Sent
<1>. QED
  BY <1>1, <1>2, <1>3

Starts == CallPuts \/ CallPrintf \/ CallPanic
Hardware == uartinit \/ Transmit \/ Spin \/ SwapWaits \/ Done \/ UNCHANGED vars

LEMMA NextCases ==
    ASSUME [Next]_vars
    PROVE  \/ Hardware \/ Starts \/ Tick \/ Fault \/ Acquire \/ PanicClear \/ LockWords \/ PopOff
           \/ Poll \/ Write
  BY DEF Next, Hart, Hardware, Starts, LockWords

LEMMA Booleans ==
    ASSUME IInv, Tick \/ Fault \/ Acquire \/ PanicClear \/ LockWords \/ PopOff
    PROVE  sie' \in BOOLEAN /\ locked' \in BOOLEAN /\ owner' \in BOOLEAN
<1>0. sie \in BOOLEAN /\ locked \in BOOLEAN /\ owner \in BOOLEAN
  BY DEF IInv, TypeInv
<1>1. CASE Tick \/ Fault \/ Acquire
  <2>1. sie' = FALSE /\ locked' = locked /\ owner' = owner
    BY <1>1, Zenon DEF Tick, Fault, Acquire, PushOff
  <2>. QED
    BY <1>0, <2>1, Zenon
<1>3. CASE PanicClear
  <2>1. sie' = sie /\ locked' = FALSE /\ owner' = owner
    BY <1>3, Zenon DEF PanicClear
  <2>. QED
    BY <1>0, <2>1, Zenon
<1>4. CASE LockWords
  <2>1. /\ sie' = sie /\ (locked' = locked \/ locked' = TRUE \/ locked' = FALSE)
        /\ owner' = owner \/ owner' = TRUE \/ owner' = FALSE
    BY <1>4, Zenon DEF LockWords, Swap, SetCpu, Release, Unlock
  <2>. QED
    BY <1>0, <2>1, Zenon
<1>5. CASE PopOff
  <2>1. /\ sie' = ((noff = 1 /\ intena) \/ Top.f = "tick") \/ sie' = sie
        /\ locked' = locked /\ owner' = owner
    BY <1>5, Zenon DEF PopOff
  <2>. QED
    BY <1>0, <2>1, Zenon
<1>. QED
  BY <1>1, <1>3, <1>4, <1>5

LEMMA TypeStep ==
    ASSUME IInv, [Next]_vars
    PROVE  TypeInv'
<1>. USE DEF IInv
<1>1. CASE Hardware
  BY <1>1, UartEffect DEF TypeInv, Hardware, Quiet
<1>2. CASE Starts
  BY <1>2, CallEffect DEF TypeInv, Starts, Pushed
<1>3. CASE Tick
  BY <1>3, TickEffect, Booleans DEF TypeInv, Pushed
<1>4. CASE Fault
  BY <1>4, FaultEffect, Booleans DEF TypeInv, Pushed
<1>5. CASE Acquire
  BY <1>5, AcquireEffect, Booleans DEF TypeInv, Replaced
<1>6. CASE PanicClear
  BY <1>6, PanicClearEffect, Booleans DEF TypeInv, Replaced
<1>7. CASE PopOff
  <2>1. noff - 1 \in Nat
    BY <1>7, PopOffEffect DEF TypeInv
  <2>. QED
    BY <1>7, <2>1, PopOffEffect, Booleans DEF TypeInv, Replaced, Popped
<1>10. CASE LockWords
  BY <1>10, LockEffect, Booleans DEF TypeInv, Replaced
<1>8. CASE Poll
  BY <1>8, PollEffect DEF TypeInv, Replaced
<1>9. CASE Write
  <2>1. fifo' \in Seq(Chars)
    BY <1>9, WriteEffect, AppendProperties DEF TypeInv
  <2>. QED
    BY <1>9, <2>1, WriteEffect DEF TypeInv, Replaced, Popped
<1>. QED
  BY <1>1, <1>2, <1>3, <1>4, <1>5, <1>6, <1>7, <1>8, <1>9, <1>10, NextCases

LEMMA ShapeReplaced ==
    ASSUME IInv, Replaced, faults' = faults,
           Top'.f = Top.f \/ Top'.f \in {"panic", "panic2"},
           Top'.f = "uart_puts" => Top'.pc \in {"poll", "write"},
           Top'.pc = "clear" => Top'.f = "panic",
           Top'.pc = "spin" => Top'.f = "panic2"
    PROVE  ShapeInv'
<1>1. Len(stack) \in Nat /\ Len(stack) > 0 /\ Len(stack') = Len(stack) /\ Top = stack[Len(stack)]
  BY TopCall DEF IInv, TypeInv, Replaced
<1>2. ASSUME NEW k \in 1..Len(stack')
      PROVE  /\ stack'[k].f \in {"printf", "uart_puts"} => k = 1
             /\ stack'[k].f = "tick" /\ k > 1 => Open(stack'[k - 1])
             /\ stack'[k].f = "uart_puts" => stack'[k].pc \in {"poll", "write"}
             /\ stack'[k].pc = "clear" => stack'[k].f = "panic"
             /\ stack'[k].pc = "spin" => stack'[k].f = "panic2"
             /\ stack'[k].f = "scause" => faults > 0
  <2>1. k > 1 => k - 1 \in 1..(Len(stack) - 1)
    BY <1>1
  <2>2. k > 1 => stack'[k - 1] = stack[k - 1]
    BY <2>1 DEF Replaced
  <2>3. CASE k = Len(stack)
    <3>1. stack'[k] = Top' /\ stack[k] = Top
      BY <2>3 DEF Replaced
    <3>. QED
      BY <1>1, <2>2, <2>3, <3>1 DEF IInv, ShapeInv
  <2>4. CASE k # Len(stack)
    <3>1. stack'[k] = stack[k] /\ k \in 1..Len(stack)
      BY <1>1, <2>4 DEF Replaced
    <3>. QED
      BY <2>2, <3>1 DEF IInv, ShapeInv
  <2>. QED
    BY <2>3, <2>4
<1>. QED
  BY <1>2 DEF ShapeInv, Open

LEMMA ShapePopped ==
    ASSUME IInv, Popped, faults' = faults
    PROVE  ShapeInv'
<1>1. Len(stack) \in Nat /\ Len(stack') = Len(stack) - 1
  BY LenProperties DEF IInv, TypeInv, Popped
<1>2. ASSUME NEW k \in 1..Len(stack')
      PROVE  stack'[k] = stack[k] /\ k \in 1..Len(stack) /\ (k > 1 => stack'[k - 1] = stack[k - 1])
  <2>1. k \in 1..(Len(stack) - 1) /\ (k > 1 => k - 1 \in 1..(Len(stack) - 1))
    BY <1>1
  <2>. QED
    BY <1>1, <2>1 DEF Popped
<1>. QED
  BY <1>2 DEF IInv, ShapeInv, Open

LEMMA ShapePushed ==
    ASSUME IInv, Pushed, faults' \in Nat, faults' >= faults,
           Top'.f \in {"printf", "uart_puts"} => stack = <<>>,
           Top'.f = "tick" /\ stack # <<>> => Open(Top),
           Top'.f = "uart_puts" => Top'.pc \in {"poll", "write"},
           Top'.pc = "clear" => Top'.f = "panic",
           Top'.pc = "spin" => Top'.f = "panic2",
           Top'.f = "scause" => faults' > 0
    PROVE  ShapeInv'
<1>1. Len(stack) \in Nat /\ Len(stack') = Len(stack) + 1 /\ faults \in Nat
  BY LenProperties DEF IInv, TypeInv, Pushed
<1>2. stack = <<>> => Len(stack) = 0
  BY EmptySeq
<1>3. Len(stack) > 0 => stack # <<>> /\ Top = stack[Len(stack)]
  BY EmptySeq DEF Top, Last
<1>4. ASSUME NEW k \in 1..Len(stack')
      PROVE  /\ stack'[k].f \in {"printf", "uart_puts"} => k = 1
             /\ stack'[k].f = "tick" /\ k > 1 => Open(stack'[k - 1])
             /\ stack'[k].f = "uart_puts" => stack'[k].pc \in {"poll", "write"}
             /\ stack'[k].pc = "clear" => stack'[k].f = "panic"
             /\ stack'[k].pc = "spin" => stack'[k].f = "panic2"
             /\ stack'[k].f = "scause" => faults' > 0
  <2>1. k > 1 => k - 1 \in 1..Len(stack)
    BY <1>1
  <2>2. k > 1 => stack'[k - 1] = stack[k - 1]
    BY <2>1 DEF Pushed
  <2>3. CASE k = Len(stack) + 1
    <3>1. stack'[k] = Top'
      BY <2>3 DEF Pushed
    <3>2. k > 1 => stack # <<>> /\ stack'[k - 1] = Top
      BY <1>1, <1>3, <2>2, <2>3
    <3>. QED
      BY <1>1, <1>2, <2>3, <3>1, <3>2
  <2>4. CASE k # Len(stack) + 1
    <3>1. stack'[k] = stack[k] /\ k \in 1..Len(stack)
      BY <1>1, <2>4 DEF Pushed
    <3>2. stack[k].f = "scause" => faults' > 0
      BY <1>1, <3>1 DEF IInv, ShapeInv
    <3>. QED
      BY <2>2, <3>1, <3>2 DEF IInv, ShapeInv
  <2>. QED
    BY <2>3, <2>4
<1>. QED
  BY <1>4 DEF ShapeInv, Open

LEMMA ShapeStep ==
    ASSUME IInv, [Next]_vars
    PROVE  ShapeInv'
<1>0. TypeInv /\ ShapeInv /\ NestInv
  BY DEF IInv
<1>. USE <1>0
<1>1. CASE Hardware
  BY <1>1, UartEffect DEF Hardware, Quiet, ShapeInv, Open
<1>2. CASE Starts
  BY <1>2, CallEffect, ShapePushed DEF TypeInv, Starts
<1>3. CASE Tick
  <2>1. stack # <<>> => Open(Top)
    <3>1. stack # <<>> => Top.pc \in Labels /\ ~Held(Top) /\ Top.f # "tick"
      BY <1>3, TickEffect, TopCall, Fields DEF TypeInv, NestInv
    <3>. QED
      BY <3>1 DEF Open, Held, Labels
  <2>. QED
    BY <1>3, <2>1, TickEffect, ShapePushed DEF TypeInv
<1>4. CASE Fault
  BY <1>4, FaultEffect, ShapePushed DEF TypeInv
<1>5. CASE Acquire
  <2>1. Top.f # "uart_puts"
    BY <1>5, AcquireEffect, TopCall DEF ShapeInv, TypeInv, Replaced
  <2>. QED
    BY <1>5, <2>1, AcquireEffect, ShapeReplaced
<1>6. CASE PanicClear
  <2>1. Top.f = "panic"
    BY <1>6, PanicClearEffect, TopCall DEF ShapeInv, TypeInv, Replaced
  <2>. QED
    BY <1>6, <2>1, PanicClearEffect, ShapeReplaced
<1>7. CASE PopOff
  BY <1>7, PopOffEffect, ShapePopped, ShapeReplaced
<1>10. CASE LockWords
  BY <1>10, LockEffect, ShapeReplaced
<1>8. CASE Poll
  BY <1>8, PollEffect, ShapeReplaced
<1>9. CASE Write
  BY <1>9, WriteEffect, ShapePopped, ShapeReplaced
<1>. QED
  BY <1>1, <1>2, <1>3, <1>4, <1>5, <1>6, <1>7, <1>8, <1>9, <1>10, NextCases

(* When the call on top returns, what it returns to is open. *)
LEMMA Returns ==
    ASSUME IInv, Popped, Top.f \in {"printf", "tick", "uart_puts"}, stack' # <<>>
    PROVE  Top.f = "tick" /\ Open(Top') /\ Top' \in Calls
<1>1. Len(stack) \in Nat /\ Len(stack) > 1 /\ Top' = stack[Len(stack) - 1] /\ Top = stack[Len(stack)]
  BY LenProperties DEF IInv, TypeInv, Popped
<1>2. Len(stack) \in 1..Len(stack) /\ Len(stack) - 1 \in 1..Len(stack)
  BY <1>1
<1>3. Top' \in Calls
  BY <1>1, <1>2, ElementOfSeq DEF IInv, TypeInv
<1>. QED
  BY <1>1, <1>2, <1>3 DEF IInv, ShapeInv

LEMMA NestStep ==
    ASSUME IInv, [Next]_vars
    PROVE  NestInv'
<1>0. TypeInv /\ ShapeInv /\ NestInv
  BY DEF IInv
<1>. USE <1>0
<1>1. CASE Hardware
  <2>1. Quiet /\ Top' = Top
    BY <1>1, UartEffect DEF Hardware, Quiet, Top
  <2>. QED
    BY <2>1 DEF Quiet, NestInv, Prints, Held
<1>2. CASE Starts
  <2>1. noff' = 0 /\ ~locked' /\ stack' # <<>>
    BY <1>2, CallEffect DEF Starts, NestInv, Pushed
  <2>2. \/ Top'.f = "uart_puts" /\ Top'.pc = "poll"
        \/ Top'.f = "printf" /\ Top'.pc = "acquire"
        \/ Top'.f = "panic" /\ Top'.pc = "clear"
    BY <1>2, CallEffect DEF Starts
  <2>. QED
    BY <2>1, <2>2 DEF NestInv, Prints, Inside, Held
<1>3. CASE Tick
  <2>1. noff' = 0 /\ ~locked' /\ stack' # <<>> /\ ~sie'
    BY <1>3, TickEffect DEF NestInv, Pushed
  <2>2. Top'.f = "tick" /\ Top'.pc = "acquire"
    BY <1>3, TickEffect
  <2>. QED
    BY <2>1, <2>2 DEF NestInv, Prints, Inside, Held
<1>4. CASE Fault
  <2>1. stack' # <<>> /\ ~sie'
    BY <1>4, FaultEffect DEF Pushed
  <2>2. \/ Top'.f = "panic" /\ Top'.pc = "clear"
        \/ Top'.f = "scause" /\ Top'.pc = "acquire"
    BY <1>4, FaultEffect
  <2>. QED
    BY <2>1, <2>2 DEF NestInv, Prints, Inside, Held
<1>5. CASE Acquire
  <2>1. /\ stack' # <<>> /\ stack # <<>> /\ ~sie' /\ noff' = noff + 1 /\ noff \in Nat
        /\ Top.pc = "acquire" /\ locked' = locked /\ owner' = owner
    BY <1>5, AcquireEffect DEF Replaced, TypeInv
  <2>2. Top.f # "uart_puts"
    BY <1>5, AcquireEffect, TopCall DEF ShapeInv, TypeInv, Replaced
  <2>3. Top.f \in {"printf", "tick", "uart_puts"} => noff = 0
    BY <2>1 DEF NestInv, Held
  <2>4. \/ Top'.f = "panic" /\ Top'.pc = "clear"
        \/ Top'.f = Top.f /\ Top'.pc = "swap" /\ ~(locked /\ owner)
    BY <1>5, AcquireEffect
  <2>5. Top.f # "scause" => ~locked
    BY <2>1 DEF NestInv
  <2>. QED
    BY <2>1, <2>2, <2>3, <2>4, <2>5 DEF NestInv, Prints, Inside, Held
<1>6. CASE PanicClear
  <2>1. stack' # <<>> /\ stack # <<>> /\ ~locked' /\ sie' = sie /\ noff' = noff /\ Top'.pc = "acquire" /\ Top'.f = Top.f
    BY <1>6, PanicClearEffect DEF Replaced
  <2>2. Top.f = "panic"
    BY <1>6, PanicClearEffect, TopCall DEF ShapeInv, TypeInv, Replaced
  <2>. QED
    BY <2>1, <2>2 DEF NestInv, Prints, Inside, Held
<1>7. CASE PopOff
  <2>1. ~locked' /\ noff \in Nat /\ noff > 0 /\ noff' = noff - 1 /\ stack # <<>> /\ Top.pc = "popoff"
    BY <1>7, PopOffEffect DEF TypeInv
  <2>2. Top.f \in {"printf", "tick"} => noff = 1
    BY <1>7, <2>1, PopOffEffect DEF NestInv, Held
  <2>3. sie' => noff = 1
    BY <1>7, <2>1, <2>2, PopOffEffect DEF NestInv
  <2>4. CASE Popped /\ Top.f \in {"printf", "tick"}
    <3>1. noff' = 0
      BY <2>1, <2>2, <2>4
    <3>2. stack' # <<>> => Open(Top') /\ ~Prints(Top') /\ ~Held(Top') /\ Top'.f # "tick"
      BY <2>4, Returns DEF Open, Prints, Inside, Held
    <3>3. stack' # <<>> => Top'.pc \notin {"cpu", "unlock"}
      <4>1. stack' # <<>> => Top' = stack[Len(stack) - 1] /\ Len(stack) - 1 \in 1..Len(stack)
        BY <2>4, LenProperties DEF Popped, TypeInv
      <4>. QED
        BY <3>2, <4>1 DEF Open, ShapeInv
    <3>. QED
      BY <2>1, <3>1, <3>2, <3>3 DEF NestInv
  <2>5. CASE Replaced /\ Top'.f \in {"panic", "panic2"} /\ Top'.pc \in {"clear", "acquire", "spin"}
    BY <2>1, <2>3, <2>5 DEF NestInv, Prints, Inside, Held, Replaced
  <2>. QED
    BY <1>7, <2>4, <2>5, PopOffEffect
<1>8. CASE Poll
  <2>1. /\ stack' # <<>> /\ stack # <<>> /\ locked' = locked /\ owner' = owner /\ sie' = sie
        /\ noff' = noff /\ Top.pc = "poll" /\ Top'.pc = "write" /\ Top'.f = Top.f
    BY <1>8, PollEffect DEF Replaced
  <2>. QED
    BY <2>1 DEF NestInv, Prints, Inside, Held
<1>9. CASE Write
  <2>1. /\ stack # <<>> /\ locked' = locked /\ owner' = owner /\ sie' = sie /\ noff' = noff
        /\ Top.pc = "write"
    BY <1>9, WriteEffect
  <2>2. CASE Popped /\ Top.f = "uart_puts"
    <3>1. stack' = <<>>
      BY <2>2, Returns
    <3>2. noff' = 0 /\ ~locked'
      BY <2>1, <2>2 DEF NestInv, Held
    <3>. QED
      BY <3>1, <3>2 DEF NestInv
  <2>3. CASE Replaced /\ Top'.f = Top.f /\ Top'.pc \in {"poll", "release"} /\ (Top'.pc = "release" => Top.f # "uart_puts")
    BY <2>1, <2>3 DEF NestInv, Prints, Inside, Held, Replaced
  <2>. QED
    BY <1>9, <2>2, <2>3, WriteEffect
<1>10. CASE LockWords
  <2>1. /\ stack' # <<>> /\ stack # <<>> /\ sie' = sie /\ noff' = noff /\ Top'.f = Top.f
        /\ Top.f # "uart_puts"
        /\ \/ Top.pc = "swap" /\ Top'.pc = "cpu" /\ locked' = TRUE /\ owner' = owner
           \/ Top.pc = "cpu" /\ Top'.pc = "poll" /\ locked' = locked /\ owner' = TRUE
           \/ Top.pc = "release" /\ Top'.pc = "unlock" /\ locked' = locked /\ owner' = FALSE
           \/ Top.pc = "unlock" /\ Top'.pc = "popoff" /\ locked' = FALSE /\ owner' = owner
    BY <1>10, LockEffect DEF Replaced
  <2>2. Held(Top) /\ Held(Top') /\ noff > 0 /\ noff \in Nat /\ ~sie
    BY <2>1 DEF NestInv, Held, TypeInv
  <2>3. Top.pc \in {"cpu", "release"} => locked
    BY <2>1 DEF NestInv, Prints, Inside
  <2>. QED
    BY <2>1, <2>2, <2>3 DEF NestInv, Prints, Inside
<1>. QED
  BY <1>1, <1>2, <1>3, <1>4, <1>5, <1>6, <1>7, <1>8, <1>9, <1>10, NextCases

LEMMA FifoStep ==
    ASSUME IInv, [Next]_vars
    PROVE  FifoInv'
<1>0. TypeInv /\ ShapeInv /\ NestInv
  BY DEF IInv
<1>. USE <1>0
<1>a. /\ FIFODepth \in Nat /\ Len(fifo) \in Nat
  BY ConsoleAssumption, LenProperties DEF TypeInv
<1>. SUFFICES ASSUME FIFODepth >= 2
              PROVE  /\ ~lost'
                     /\ up' => depth' = FIFODepth
                     /\ stack' # <<>> =>
                          /\ Top'.pc = "write" => Len(fifo') <= 1
                          /\ Top'.pc = "write" /\ Top'.f # "uart_puts" => Len(fifo') = 0
                          /\ Top'.pc \in {"release", "unlock", "popoff"} /\ Top'.f = "tick"
                               => Len(fifo') <= 1
  BY DEF FifoInv
<1>b. /\ ~lost
      /\ up => depth = FIFODepth
      /\ stack # <<>> =>
           /\ Top.pc = "write" => Len(fifo) <= 1
           /\ Top.pc = "write" /\ Top.f # "uart_puts" => Len(fifo) = 0
           /\ Top.pc \in {"release", "unlock", "popoff"} /\ Top.f = "tick" => Len(fifo) <= 1
  BY DEF IInv, FifoInv
<1>1. CASE Hardware
  <2>1. Quiet /\ Top' = Top
    BY <1>1, UartEffect DEF Hardware, Quiet, Top
  <2>2. Len(fifo') <= Len(fifo) /\ Len(fifo') \in Nat /\ (up' => depth' = FIFODepth)
    BY <1>1, <1>b, UartEffect DEF Hardware
  <2>. QED
    BY <1>a, <1>b, <2>1, <2>2 DEF Quiet
<1>2. CASE Starts
  BY <1>2, <1>b, CallEffect DEF Starts
<1>3. CASE Tick
  BY <1>3, <1>b, TickEffect
<1>4. CASE Fault
  BY <1>4, <1>b, FaultEffect
<1>5. CASE Acquire
  BY <1>5, <1>b, AcquireEffect
<1>6. CASE PanicClear
  BY <1>6, <1>b, PanicClearEffect
<1>10. CASE LockWords
  <2>1. /\ stack # <<>> /\ fifo' = fifo /\ lost' = lost /\ up' = up /\ depth' = depth /\ Top'.f = Top.f
        /\ Top'.pc \in {"cpu", "poll", "unlock", "popoff"}
        /\ Top'.pc \in {"unlock", "popoff"} => Top.pc \in {"release", "unlock"}
    BY <1>10, LockEffect DEF Replaced
  <2>. QED
    BY <1>b, <2>1
<1>7. CASE PopOff
  <2>1. fifo' = fifo /\ up' = up /\ depth' = depth /\ lost' = lost /\ stack # <<>> /\ Top.pc = "popoff"
    BY <1>7, PopOffEffect
  <2>2. CASE Popped /\ Top.f \in {"printf", "tick"}
    <3>1. stack' # <<>> => Top.f = "tick" /\ Open(Top')
      BY <2>2, Returns
    <3>. QED
      BY <1>a, <1>b, <2>1, <3>1 DEF Open
  <2>3. CASE Replaced /\ Top'.pc \in {"clear", "acquire", "spin"}
    BY <1>b, <2>1, <2>3
  <2>. QED
    BY <1>7, <2>2, <2>3, PopOffEffect
<1>8. CASE Poll
  <2>1. Len(fifo') = 0
    BY <1>8, PollEffect, EmptySeq
  <2>. QED
    BY <1>8, <1>b, <2>1, PollEffect
<1>9. CASE Write
  <2>1. /\ stack # <<>> /\ up /\ up' = up /\ depth' = depth /\ Top.pc = "write" /\ Char(Top) \in Chars
    BY <1>9, WriteEffect
  <2>2. Len(fifo) < depth
    BY <1>a, <1>b, <2>1
  <2>3. fifo' = Append(fifo, Char(Top)) /\ lost' = lost
    BY <1>9, <2>2, WriteEffect
  <2>4. Len(fifo') = Len(fifo) + 1
    BY <2>1, <2>3, AppendProperties DEF TypeInv
  <2>5. CASE Popped /\ Top.f = "uart_puts"
    <3>1. stack' = <<>>
      BY <2>5, Returns
    <3>. QED
      BY <1>b, <2>1, <2>3, <3>1
  <2>6. CASE Replaced /\ Top'.f = Top.f /\ Top'.pc \in {"poll", "release"}
    <3>1. Top.f = "tick" => Len(fifo') = 1
      BY <1>b, <2>1, <2>4
    <3>. QED
      BY <1>b, <2>1, <2>3, <2>6, <3>1
  <2>. QED
    BY <1>9, <2>5, <2>6, WriteEffect
<1>. QED
  BY <1>1, <1>2, <1>3, <1>4, <1>5, <1>6, <1>7, <1>8, <1>9, <1>10, NextCases

LEMMA SentType ==
    ASSUME IInv
    PROVE  Len(Sent) \in Nat /\ \A j \in 1..Len(Sent) : Sent[j] \in Chars /\ Sent[j].id \in Nat /\ Sent[j].f \in Funs
<1>1. Sent \in Seq(Chars)
  BY ConcatProperties DEF Sent, IInv, TypeInv
<1>2. Len(Sent) \in Nat /\ \A j \in 1..Len(Sent) : Sent[j] \in Chars
  BY <1>1, LenProperties, ElementOfSeq
<1>. QED
  BY <1>2 DEF Chars

LEMMA IdPushed ==
    ASSUME IInv, Pushed, Sent' = Sent, Top'.id = id, id' = id + 1
    PROVE  IdInv'
<1>0. IdInv /\ id \in Nat /\ Len(stack) \in Nat /\ Len(stack') = Len(stack) + 1
  BY LenProperties DEF IInv, TypeInv, Pushed
<1>1. ASSUME NEW k \in 1..Len(stack)
      PROVE  k \in 1..Len(stack') /\ stack'[k] = stack[k] /\ stack[k].id \in Nat /\ stack[k].id < id
  <2>1. stack[k] \in Calls
    BY ElementOfSeq DEF IInv, TypeInv
  <2>2. stack[k].id < id /\ stack[k].id \in Nat
    BY <1>0, <2>1, Fields DEF IdInv
  <2>. QED
    BY <1>0, <2>2 DEF Pushed
<1>2. ASSUME NEW k \in 1..Len(stack')
      PROVE  k \in 1..Len(stack) \/ (stack'[k].id = id /\ k = Len(stack) + 1)
  BY <1>0 DEF Pushed
<1>3. \A k \in 1..Len(stack') : stack'[k].id < id'
  BY <1>0, <1>1, <1>2
<1>4. ASSUME NEW k \in 1..Len(stack'), NEW l \in 1..Len(stack'), stack'[k].id = stack'[l].id
      PROVE  k = l
  <2>1. CASE k \in 1..Len(stack) /\ l \in 1..Len(stack)
    <3>1. stack[k].id = stack[l].id
      BY <1>1, <1>4, <2>1
    <3>. QED
      BY <1>0, <2>1, <3>1 DEF IdInv
  <2>2. CASE k \notin 1..Len(stack) /\ l \notin 1..Len(stack)
    BY <1>2, <2>2
  <2>3. ASSUME NEW u \in 1..Len(stack), stack'[u].id = id PROVE FALSE
    BY <1>0, <1>1, <2>3
  <2>4. k \in 1..Len(stack) <=> l \in 1..Len(stack)
    BY <1>2, <1>4, <2>3
  <2>. QED
    BY <2>1, <2>2, <2>4
<1>5. \A j \in 1..Len(Sent') : Sent'[j].id < id'
  BY <1>0, SentType DEF IdInv
<1>6. ASSUME NEW k \in 1..Len(stack'), NEW j \in 1..Len(Sent), Sent[j].id = stack'[k].id
      PROVE  k \in 1..Len(stack) /\ Sent[j].f \in Said(stack[k])
  <2>1. Sent[j].id < id /\ Sent[j].id \in Nat
    BY SentType, <1>0 DEF IdInv
  <2>2. k \in 1..Len(stack)
    BY <1>0, <1>2, <1>6, <2>1
  <2>. QED
    BY <1>0, <1>1, <1>6, <2>2 DEF IdInv
<1>7. \A k \in 1..Len(stack') : \A j \in 1..Len(Sent') :
        Sent'[j].id = stack'[k].id => Sent'[j].f \in Said(stack'[k])
  BY <1>1, <1>6
<1>. QED
  BY <1>3, <1>4, <1>5, <1>7 DEF IdInv, Said, Before

(* characters that the call on top may have added to what was sent *)
Added == /\ Len(Sent) \in Nat /\ Len(Sent') \in {Len(Sent), Len(Sent) + 1}
         /\ \A j \in 1..Len(Sent) : Sent'[j] = Sent[j]
         /\ Len(Sent') = Len(Sent) + 1 => Sent'[Len(Sent) + 1] = Char(Top)

LEMMA AddedCases ==
    ASSUME IInv, Added, NEW j \in 1..Len(Sent')
    PROVE  \/ j \in 1..Len(Sent) /\ Sent'[j] = Sent[j]
           \/ j = Len(Sent) + 1 /\ Len(Sent') = Len(Sent) + 1 /\ Sent'[j] = Char(Top)
  BY DEF Added

LEMMA IdReplaced ==
    ASSUME IInv, Replaced, Added, Top'.id = Top.id, id' = id, Said(Top) \subseteq Said(Top'),
           Len(Sent') = Len(Sent) \/ Top.f \in Said(Top')
    PROVE  IdInv'
<1>0. IdInv /\ id \in Nat /\ Len(stack) \in Nat /\ Len(stack) > 0 /\ Len(stack') = Len(stack)
  BY TopCall DEF IInv, TypeInv, Replaced
<1>1. ASSUME NEW k \in 1..Len(stack)
      PROVE  /\ stack'[k].id = stack[k].id /\ stack[k].id < id
             /\ \/ k = Len(stack) /\ stack'[k] = Top' /\ stack[k] = Top
                \/ k # Len(stack) /\ stack'[k] = stack[k]
  <2>1. stack[k].id < id
    BY <1>0 DEF IdInv
  <2>2. \/ k = Len(stack) /\ stack'[k] = Top' /\ stack[k] = Top
        \/ k # Len(stack) /\ stack'[k] = stack[k]
    BY <1>0 DEF Replaced
  <2>. QED
    BY <2>1, <2>2
<1>2. Top.id < id /\ Char(Top).id = Top.id /\ Char(Top).f = Top.f
  BY <1>0 DEF IdInv, Replaced, Char
<1>3. \A k \in 1..Len(stack') : stack'[k].id < id'
  BY <1>0, <1>1
<1>4. \A k, l \in 1..Len(stack') : stack'[k].id = stack'[l].id => k = l
  BY <1>0, <1>1 DEF IdInv
<1>5. \A j \in 1..Len(Sent') : Sent'[j].id < id'
  BY <1>0, <1>2, AddedCases DEF IdInv
<1>6. ASSUME NEW k \in 1..Len(stack'), NEW j \in 1..Len(Sent'), Sent'[j].id = stack'[k].id
      PROVE  Sent'[j].f \in Said(stack'[k])
  <2>1. k \in 1..Len(stack)
    BY <1>0
  <2>2. CASE j \in 1..Len(Sent) /\ Sent'[j] = Sent[j]
    <3>1. Sent[j].f \in Said(stack[k])
      BY <1>0, <1>1, <1>6, <2>1, <2>2 DEF IdInv
    <3>. QED
      BY <1>1, <2>1, <2>2, <3>1
  <2>3. CASE Len(Sent') = Len(Sent) + 1 /\ Sent'[j] = Char(Top)
    <3>1. stack[k].id = Top.id /\ Top = stack[Len(stack)] /\ Len(stack) \in 1..Len(stack)
      BY <1>0, <1>1, <1>2, <1>6, <2>1, <2>3 DEF Replaced
    <3>2. k = Len(stack)
      BY <1>0, <2>1, <3>1 DEF IdInv
    <3>3. stack'[k] = Top' /\ Len(Sent') # Len(Sent)
      BY <3>2, <2>3 DEF Replaced, Added
    <3>. QED
      BY <1>2, <2>3, <3>3
  <2>. QED
    BY <2>2, <2>3, AddedCases
<1>. QED
  BY <1>3, <1>4, <1>5, <1>6 DEF IdInv, Said, Before

LEMMA IdPopped ==
    ASSUME IInv, Popped, Added, id' = id
    PROVE  IdInv'
<1>0. IdInv /\ id \in Nat /\ Len(stack) \in Nat /\ Len(stack) > 0 /\ Len(stack') = Len(stack) - 1
  BY TopCall DEF IInv, TypeInv, Popped
<1>1. ASSUME NEW k \in 1..Len(stack')
      PROVE  stack'[k] = stack[k] /\ k \in 1..Len(stack) /\ k # Len(stack)
  BY <1>0 DEF Popped
<1>2. Top.id < id /\ Char(Top).id = Top.id /\ Top = stack[Len(stack)] /\ Len(stack) \in 1..Len(stack)
  BY <1>0 DEF IdInv, Popped, Char
<1>3. \A k \in 1..Len(stack') : stack'[k].id < id'
  BY <1>0, <1>1 DEF IdInv
<1>4. \A k, l \in 1..Len(stack') : stack'[k].id = stack'[l].id => k = l
  BY <1>0, <1>1 DEF IdInv
<1>5. \A j \in 1..Len(Sent') : Sent'[j].id < id'
  BY <1>0, <1>2, AddedCases DEF IdInv
<1>6. ASSUME NEW k \in 1..Len(stack'), NEW j \in 1..Len(Sent'), Sent'[j].id = stack'[k].id
      PROVE  Sent'[j].f \in Said(stack'[k])
  <2>1. CASE j \in 1..Len(Sent) /\ Sent'[j] = Sent[j]
    BY <1>0, <1>1, <1>6, <2>1 DEF IdInv
  <2>2. CASE Sent'[j] = Char(Top)
    BY <1>0, <1>1, <1>2, <1>6, <2>2 DEF IdInv
  <2>. QED
    BY <2>1, <2>2, AddedCases
<1>. QED
  BY <1>3, <1>4, <1>5, <1>6 DEF IdInv, Said, Before

LEMMA WriteAdds ==
    ASSUME IInv, Write
    PROVE  Added
<1>1. /\ out' = out /\ Char(Top) \in Chars
      /\ fifo' = Append(fifo, Char(Top)) \/ fifo' = fifo
  BY WriteEffect DEF IInv
<1>2. CASE fifo' = fifo
  <2>1. Sent' = Sent
    BY <1>1, <1>2 DEF Sent
  <2>. QED
    BY <2>1, SentType DEF Added
<1>3. CASE fifo' = Append(fifo, Char(Top))
  BY <1>1, <1>3, SentGrows DEF Added, IInv, TypeInv
<1>. QED
  BY <1>1, <1>2, <1>3

LEMMA IdStep ==
    ASSUME IInv, [Next]_vars
    PROVE  IdInv'
<1>0. TypeInv /\ ShapeInv /\ NestInv /\ IdInv /\ Len(Sent) \in Nat
  BY SentType DEF IInv
<1>. USE <1>0
<1>a. Sent' = Sent => Added
  BY DEF Added
<1>1. CASE Hardware
  <2>1. Sent' = Sent /\ stack' = stack /\ id' = id
    BY <1>1, UartEffect DEF Hardware, Quiet
  <2>. QED
    BY <2>1 DEF IdInv, Said, Before
<1>2. CASE Starts
  <2>1. Sent' = Sent
    BY <1>2, CallEffect DEF Starts, Sent
  <2>. QED
    BY <1>2, <2>1, CallEffect, IdPushed DEF Starts
<1>3. CASE Tick
  <2>1. Sent' = Sent
    BY <1>3, TickEffect DEF Sent
  <2>. QED
    BY <1>3, <2>1, TickEffect, IdPushed
<1>4. CASE Fault
  <2>1. Sent' = Sent
    BY <1>4, FaultEffect DEF Sent
  <2>. QED
    BY <1>4, <2>1, FaultEffect, IdPushed
<1>5. CASE Acquire
  <2>1. Sent' = Sent
    BY <1>5, AcquireEffect DEF Sent
  <2>2. Said(Top) \subseteq Said(Top')
    BY <1>5, AcquireEffect DEF Said, Before
  <2>. QED
    BY <1>5, <1>a, <2>1, <2>2, AcquireEffect, IdReplaced
<1>6. CASE PanicClear
  <2>1. Sent' = Sent
    BY <1>6, PanicClearEffect DEF Sent
  <2>2. Said(Top) \subseteq Said(Top')
    BY <1>6, PanicClearEffect DEF Said, Before
  <2>. QED
    BY <1>6, <1>a, <2>1, <2>2, PanicClearEffect, IdReplaced
<1>10. CASE LockWords
  <2>1. Sent' = Sent
    BY <1>10, LockEffect DEF Sent
  <2>2. Said(Top) \subseteq Said(Top')
    BY <1>10, LockEffect DEF Said, Before
  <2>. QED
    BY <1>10, <1>a, <2>1, <2>2, LockEffect, IdReplaced
<1>7. CASE PopOff
  <2>1. Sent' = Sent /\ id' = id /\ Top.pc = "popoff"
    BY <1>7, PopOffEffect DEF Sent
  <2>2. CASE Popped
    BY <1>a, <2>1, <2>2, IdPopped
  <2>3. CASE /\ Replaced /\ Top'.id = Top.id
             /\ \/ Top.f = "scause" /\ Top'.f = "panic" /\ Top'.pc = "clear"
                \/ Top.f = "panic" /\ Top'.f = "panic2" /\ Top'.pc = "acquire"
                \/ Top.f = "panic2" /\ Top'.f = "panic2" /\ Top'.pc = "spin"
    <3>1. Said(Top) \subseteq Said(Top')
      BY <2>1, <2>3 DEF Said, Before
    <3>. QED
      BY <1>a, <2>1, <2>3, <3>1, IdReplaced
  <2>. QED
    BY <1>7, <2>2, <2>3, PopOffEffect
<1>8. CASE Poll
  <2>1. Sent' = Sent
    BY <1>8, PollEffect DEF Sent
  <2>2. Said(Top) \subseteq Said(Top')
    BY <1>8, PollEffect DEF Said, Before
  <2>. QED
    BY <1>8, <1>a, <2>1, <2>2, PollEffect, IdReplaced
<1>9. CASE Write
  <2>1. Added /\ id' = id /\ Top.pc = "write"
    BY <1>9, WriteAdds, WriteEffect
  <2>2. CASE Popped
    BY <2>1, <2>2, IdPopped
  <2>3. CASE Replaced /\ Top'.f = Top.f /\ Top'.id = Top.id /\ Top'.pc \in {"poll", "release"}
    <3>1. Said(Top) \subseteq Said(Top') /\ Top.f \in Said(Top')
      BY <2>1, <2>3 DEF Said, Before
    <3>. QED
      BY <2>1, <2>3, <3>1, IdReplaced
  <2>. QED
    BY <1>9, <2>2, <2>3, WriteEffect
<1>. QED
  BY <1>1, <1>2, <1>3, <1>4, <1>5, <1>6, <1>7, <1>8, <1>9, <1>10, NextCases

Printing(fr) == Prints(fr) /\ fr.pc # "release"

LEMMA RunSame ==
    ASSUME IInv, Sent' = Sent,
           stack' # <<>> /\ Printing(Top') =>
             \A j \in 1..Len(Sent) : Sent[j] = Char(Top') => j > Len(Sent) - (MsgLen - Top'.left)
    PROVE  RunInv'
<1>1. \A k, j \in 1..Len(Sent) : Sent[k] = Sent[j] /\ Sent[k].f # "uart_puts" => j - k < MsgLen
  BY DEF IInv, RunInv
<1>. QED
  BY <1>1 DEF RunInv, Prints, Printing, Char

LEMMA RunStep ==
    ASSUME IInv, [Next]_vars
    PROVE  RunInv'
<1>0. /\ TypeInv /\ ShapeInv /\ NestInv /\ IdInv /\ RunInv /\ Len(Sent) \in Nat
      /\ MsgLen \in Nat
  BY SentType, ConsoleAssumption DEF IInv
<1>. USE <1>0
<1>1. CASE Hardware
  <2>1. Sent' = Sent /\ stack' = stack /\ Top' = Top
    BY <1>1, UartEffect DEF Hardware, Quiet, Top
  <2>. QED
    BY <2>1, RunSame DEF RunInv, Printing
<1>2. CASE Starts
  <2>1. Sent' = Sent /\ ~Printing(Top')
    BY <1>2, CallEffect DEF Starts, Sent, Printing, Prints, Inside
  <2>. QED
    BY <2>1, RunSame
<1>3. CASE Tick
  <2>1. Sent' = Sent /\ ~Printing(Top')
    BY <1>3, TickEffect DEF Sent, Printing, Prints, Inside
  <2>. QED
    BY <2>1, RunSame
<1>4. CASE Fault
  <2>1. Sent' = Sent /\ ~Printing(Top')
    BY <1>4, FaultEffect DEF Sent, Printing, Prints, Inside
  <2>. QED
    BY <2>1, RunSame
<1>5. CASE Acquire
  <2>1. Sent' = Sent /\ ~Printing(Top')
    BY <1>5, AcquireEffect DEF Sent, Printing, Prints, Inside
  <2>. QED
    BY <2>1, RunSame
<1>10. CASE LockWords
  <2>1. /\ Sent' = Sent /\ Replaced /\ Top'.f = Top.f /\ Top'.id = Top.id
        /\ Top'.pc = "poll" => Top.pc = "cpu"
        /\ Top'.pc \in {"cpu", "poll", "unlock", "popoff"}
    BY <1>10, LockEffect DEF Sent
  <2>2. CASE Top'.pc # "poll"
    BY <2>1, <2>2, RunSame DEF Printing, Prints, Inside
  <2>3. CASE Top.pc = "cpu"
    <3>1. ASSUME NEW j \in 1..Len(Sent) PROVE Sent[j] # Char(Top')
      <4>1. Len(stack) \in 1..Len(stack) /\ stack[Len(stack)] = Top
        BY <2>1, TopCall DEF Replaced, TypeInv
      <4>2. Sent[j].id = Top.id => Sent[j].f \in Said(Top)
        BY <4>1 DEF IdInv
      <4>3. Top.f \notin Said(Top)
        BY <2>3 DEF Said, Before
      <4>4. Char(Top').id = Top.id /\ Char(Top').f = Top.f
        BY <2>1 DEF Char
      <4>. QED
        BY <4>2, <4>3, <4>4
    <3>. QED
      BY <2>1, <3>1, RunSame
  <2>. QED
    BY <2>1, <2>2, <2>3
<1>6. CASE PanicClear
  <2>1. Sent' = Sent /\ ~Printing(Top')
    BY <1>6, PanicClearEffect DEF Sent, Printing, Prints, Inside
  <2>. QED
    BY <2>1, RunSame
<1>7. CASE PopOff
  <2>1. Sent' = Sent
    BY <1>7, PopOffEffect DEF Sent
  <2>2. CASE Popped /\ Top.f \in {"printf", "tick"}
    <3>1. stack' # <<>> => ~Printing(Top')
      BY <2>2, Returns DEF Open, Printing, Prints, Inside
    <3>. QED
      BY <2>1, <3>1, RunSame
  <2>3. CASE Top'.pc \in {"clear", "acquire", "spin"}
    BY <2>1, <2>3, RunSame DEF Printing, Prints, Inside
  <2>. QED
    BY <1>7, <2>2, <2>3, PopOffEffect
<1>8. CASE Poll
  <2>1. /\ Sent' = Sent /\ Replaced /\ Top.pc = "poll" /\ Top'.f = Top.f /\ Top'.id = Top.id
        /\ Top'.left = Top.left
    BY <1>8, PollEffect DEF Sent
  <2>2. Char(Top') = Char(Top)
    BY <2>1 DEF Char
  <2>3. Printing(Top') => Printing(Top) /\ stack # <<>>
    BY <2>1 DEF Printing, Prints, Inside, Replaced
  <2>. QED
    BY <2>1, <2>2, <2>3, RunSame DEF RunInv, Printing
<1>9. CASE Write
  <2>1. /\ Added /\ stack # <<>> /\ Top.pc = "write" /\ Top \in Calls
        /\ Len(Sent') \in {Len(Sent), Len(Sent) + 1}
    BY <1>9, WriteAdds, WriteEffect, TopCall DEF Added, TypeInv
  <2>2. Top.left \in 1..MsgLen /\ Top.left \in Nat /\ Top.left >= 1
    BY <2>1, Fields
  <2>3. Top.f # "uart_puts" =>
          \A j \in 1..Len(Sent) : Sent[j] = Char(Top) => j > Len(Sent) - (MsgLen - Top.left)
    BY <2>1 DEF RunInv, Prints, Inside
  <2>4. Char(Top).f = Top.f
    BY DEF Char
  <2>5. ASSUME NEW k \in 1..Len(Sent'), NEW j \in 1..Len(Sent'), Sent'[k] = Sent'[j], Sent'[k].f # "uart_puts"
        PROVE  j - k < MsgLen
    <3>1. CASE j \in 1..Len(Sent) /\ k \in 1..Len(Sent)
      BY <2>1, <2>5, <3>1 DEF Added, RunInv
    <3>2. CASE k = Len(Sent) + 1
      BY <2>1, <2>2, <3>2
    <3>3. CASE j = Len(Sent) + 1 /\ k \in 1..Len(Sent) /\ Sent'[j] = Char(Top)
      <4>1. Sent[k] = Char(Top) /\ Top.f # "uart_puts"
        BY <2>1, <2>4, <2>5, <3>3 DEF Added
      <4>2. k > Len(Sent) - (MsgLen - Top.left)
        BY <2>3, <3>3, <4>1
      <4>. QED
        BY <2>2, <3>3, <4>2
    <3>. QED
      BY <2>1, <3>1, <3>2, <3>3, AddedCases
  <2>6. ASSUME stack' # <<>>, Printing(Top'), NEW j \in 1..Len(Sent'), Sent'[j] = Char(Top')
        PROVE  j > Len(Sent') - (MsgLen - Top'.left)
    <3>1. /\ Replaced /\ Top'.f = Top.f /\ Top'.id = Top.id /\ Top.f # "uart_puts"
          /\ Top'.left = Top.left - 1
      <4>1. CASE Popped /\ Top.f = "uart_puts"
        BY <2>6, <4>1, Returns
      <4>2. CASE Top'.pc = "release"
        BY <2>6, <4>2 DEF Printing
      <4>. QED
        BY <1>9, <2>6, <4>1, <4>2, WriteEffect DEF Printing, Prints
    <3>2. Char(Top') = Char(Top)
      BY <3>1 DEF Char
    <3>3. CASE j \in 1..Len(Sent) /\ Sent'[j] = Sent[j]
      <4>1. j > Len(Sent) - (MsgLen - Top.left)
        BY <2>3, <2>6, <3>1, <3>2, <3>3
      <4>. QED
        BY <2>1, <2>2, <3>1, <3>3, <4>1
    <3>4. CASE j = Len(Sent) + 1 /\ Len(Sent') = Len(Sent) + 1
      BY <2>1, <2>2, <3>1, <3>4
    <3>. QED
      BY <2>1, <3>3, <3>4, AddedCases
  <2>. QED
    BY <2>5, <2>6 DEF RunInv, Prints, Printing, Char
<1>. QED
  BY <1>1, <1>2, <1>3, <1>4, <1>5, <1>6, <1>7, <1>8, <1>9, <1>10, NextCases

LEMMA WhyStep ==
    ASSUME IInv, [Next]_vars
    PROVE  WhyInv'
<1>0. /\ TypeInv /\ ShapeInv /\ NestInv /\ Len(stack) \in Nat /\ faults \in Nat
      /\ DOMAIN stack = 1..Len(stack)
  BY LenProperties DEF IInv, TypeInv
<1>a. \A k \in 1..Len(stack) : stack[k].why \notin {"release", "pop_off"} /\ (stack[k].why = "acquire" => faults > 0)
  BY <1>0 DEF IInv, WhyInv, PrintfNeverPanics
<1>b. stack' \in Seq(Calls) /\ DOMAIN stack' = 1..Len(stack') /\ Len(stack') \in Nat
  BY TypeStep, LenProperties DEF TypeInv
<1>. SUFFICES ASSUME NEW k \in 1..Len(stack')
              PROVE  stack'[k].why \notin {"release", "pop_off"} /\ (stack'[k].why = "acquire" => faults' > 0)
  BY <1>b DEF WhyInv, PrintfNeverPanics
<1>c. ASSUME Pushed, faults' \in Nat, faults' >= faults, Top'.why \in {"none", "caller", "fault"}
      PROVE  stack'[k].why \notin {"release", "pop_off"} /\ (stack'[k].why = "acquire" => faults' > 0)
  <2>1. CASE k \in 1..Len(stack)
    <3>1. stack'[k] = stack[k]
      BY <1>c, <2>1 DEF Pushed
    <3>2. faults > 0 => faults' > 0
      BY <1>0, <1>c
    <3>. QED
      BY <1>a, <2>1, <3>1, <3>2
  <2>2. CASE k = Len(stack) + 1
    <3>1. stack'[k] = Top'
      BY <1>c, <2>2 DEF Pushed
    <3>. QED
      BY <1>c, <3>1
  <2>3. Len(stack') = Len(stack) + 1
    BY <1>c DEF Pushed
  <2>4. k \in 1..Len(stack) \/ k = Len(stack) + 1
    BY <1>0, <2>3
  <2>. QED
    BY <2>1, <2>2, <2>4
<1>d. ASSUME Replaced, faults' = faults, Top'.why = Top.why \/ (Top'.why = "acquire" /\ faults > 0)
      PROVE  stack'[k].why \notin {"release", "pop_off"} /\ (stack'[k].why = "acquire" => faults' > 0)
  <2>1. CASE k \in 1..(Len(stack) - 1)
    <3>1. stack'[k] = stack[k] /\ k \in 1..Len(stack)
      BY <1>0, <1>d, <2>1 DEF Replaced
    <3>. QED
      BY <1>a, <1>d, <3>1
  <2>2. CASE k = Len(stack)
    <3>1. stack'[k] = Top' /\ stack[k] = Top /\ k \in 1..Len(stack)
      BY <1>0, <1>d, <2>2 DEF Replaced
    <3>. QED
      BY <1>a, <1>d, <3>1
  <2>3. Len(stack') = Len(stack)
    BY <1>d DEF Replaced
  <2>4. k \in 1..(Len(stack) - 1) \/ k = Len(stack)
    <3>1. k \in 1..Len(stack) /\ Len(stack) \in Nat
      BY <1>0, <2>3
    <3>. QED
      BY <3>1
  <2>. QED
    BY <2>1, <2>2, <2>4
<1>e. ASSUME Popped, faults' = faults
      PROVE  stack'[k].why \notin {"release", "pop_off"} /\ (stack'[k].why = "acquire" => faults' > 0)
  <2>1. stack'[k] = stack[k] /\ k \in 1..Len(stack)
    BY <1>0, <1>e DEF Popped
  <2>. QED
    BY <1>a, <1>e, <2>1
<1>1. CASE Hardware
  BY <1>0, <1>1, <1>a, UartEffect DEF Hardware, Quiet
<1>2. CASE Starts
  BY <1>0, <1>2, <1>c, CallEffect DEF Starts
<1>3. CASE Tick
  BY <1>0, <1>3, <1>c, TickEffect
<1>4. CASE Fault
  BY <1>0, <1>4, <1>c, FaultEffect
<1>5. CASE Acquire
  <2>1. Top.f = "scause" => faults > 0
    BY <1>0, <1>5, AcquireEffect, TopCall DEF ShapeInv, TypeInv, Replaced
  <2>. QED
    BY <1>0, <1>5, <1>d, <2>1, AcquireEffect
<1>6. CASE PanicClear
  BY <1>0, <1>6, <1>d, PanicClearEffect
<1>7. CASE PopOff
  BY <1>0, <1>7, <1>d, <1>e, PopOffEffect
<1>10. CASE LockWords
  BY <1>0, <1>10, <1>d, LockEffect
<1>8. CASE Poll
  BY <1>0, <1>8, <1>d, PollEffect
<1>9. CASE Write
  BY <1>0, <1>9, <1>d, <1>e, WriteEffect
<1>. QED
  BY <1>1, <1>2, <1>3, <1>4, <1>5, <1>6, <1>7, <1>8, <1>9, <1>10, NextCases

(* Who is between the two stores stays there while others push and try.    *)
LEMMA WindowKept ==
    ASSUME TypeInv, WinInv, locked, ~owner, NEW m \in Nat, m >= Len(stack), Len(stack') = m,
           \A k \in 1..Len(stack) : \/ stack'[k] = stack[k]
                                   \/ /\ stack[k].pc \notin {"cpu", "unlock"}
                                      /\ stack'[k].pc \in {"clear", "acquire", "swap"},
           \A k \in 1..m : k > Len(stack) => stack'[k].pc \in {"clear", "acquire", "swap"}
    PROVE  WinInv'
<1>0. Len(stack) \in Nat
  BY LenProperties DEF TypeInv
<1>1. PICK j \in 1..Len(stack) : Window(j)
  BY DEF WinInv
<1>2. j \in 1..m /\ stack'[j].pc \in {"cpu", "unlock"}
  BY <1>0, <1>1 DEF Window
<1>3. ASSUME NEW k \in 1..m, k > j PROVE stack'[k].pc \in {"clear", "acquire", "swap"}
  <2>1. CASE k \in 1..Len(stack)
    BY <1>1, <1>3, <2>1 DEF Window
  <2>2. CASE k > Len(stack)
    BY <2>2
  <2>3. k \in 1..Len(stack) \/ k > Len(stack)
    BY <1>0
  <2>. QED
    BY <2>1, <2>2, <2>3
<1>. QED
  BY <1>2, <1>3 DEF WinInv, Window

LEMMA WinStep ==
    ASSUME IInv, [Next]_vars
    PROVE  WinInv'
<1>0. TypeInv /\ ShapeInv /\ NestInv /\ WinInv /\ Len(stack) \in Nat
  BY LenProperties DEF IInv, TypeInv
<1>. USE <1>0
<1>. SUFFICES ASSUME locked', ~owner' PROVE WinInv'
  BY DEF WinInv
<1>a. locked' = locked /\ owner' = owner => locked /\ ~owner
  <2>1. /\ locked \in BOOLEAN /\ owner \in BOOLEAN /\ locked' \in BOOLEAN /\ owner' \in BOOLEAN
    BY TypeStep DEF TypeInv
  <2>. QED
    BY <2>1
<1>1. CASE Hardware
  BY <1>1, UartEffect DEF Hardware, Quiet, WinInv, Window
<1>2. CASE Starts
  BY <1>2, CallEffect DEF Starts, NestInv
<1>3. CASE Tick
  BY <1>3, TickEffect DEF NestInv
<1>4. CASE Fault
  <2>1. /\ Len(stack') = Len(stack) + 1 /\ Len(stack) + 1 \in Nat
        /\ Top' = stack'[Len(stack) + 1] /\ Top'.pc \in {"clear", "acquire"}
        /\ \A k \in 1..Len(stack) : stack'[k] = stack[k]
    BY <1>4, FaultEffect DEF Pushed
  <2>2. \A k \in 1..(Len(stack) + 1) : k > Len(stack) => stack'[k].pc \in {"clear", "acquire", "swap"}
    BY <2>1
  <2>. QED
    BY <1>4, <1>a, <2>1, <2>2, FaultEffect, WindowKept
<1>5. CASE Acquire
  <2>1. /\ locked /\ ~owner /\ Len(stack') = Len(stack) /\ Top.pc = "acquire" /\ Top'.pc = "swap"
        /\ Top = stack[Len(stack)] /\ Top' = stack'[Len(stack)]
        /\ \A k \in 1..(Len(stack) - 1) : stack'[k] = stack[k]
    BY <1>5, <1>a, AcquireEffect DEF Replaced
  <2>2. \A k \in 1..Len(stack) : k \in 1..(Len(stack) - 1) \/ k = Len(stack)
    OBVIOUS
  <2>3. \A k \in 1..Len(stack) : \/ stack'[k] = stack[k]
                                \/ /\ stack[k].pc \notin {"cpu", "unlock"}
                                   /\ stack'[k].pc \in {"clear", "acquire", "swap"}
    BY <2>1, <2>2
  <2>. QED
    BY <2>1, <2>3, WindowKept
<1>6. CASE PanicClear
  BY <1>6, PanicClearEffect
<1>7. CASE PopOff
  BY <1>7, PopOffEffect
<1>8. CASE Poll
  <2>1. stack # <<>> /\ Top.pc = "poll" /\ locked /\ ~owner
    BY <1>8, <1>a, PollEffect DEF Replaced
  <2>. QED
    BY <2>1 DEF NestInv, Prints, Inside
<1>9. CASE Write
  <2>1. stack # <<>> /\ Top.pc = "write" /\ locked /\ ~owner
    BY <1>9, <1>a, WriteEffect
  <2>. QED
    BY <2>1 DEF NestInv, Prints, Inside
<1>10. CASE LockWords
  <2>1. /\ Len(stack') = Len(stack) /\ Top' = stack'[Len(stack)] /\ stack # <<>>
        /\ Top'.pc \in {"cpu", "unlock"}
    BY <1>10, LockEffect DEF Replaced
  <2>2. Len(stack) \in 1..Len(stack)
    BY <2>1, TopCall DEF TypeInv
  <2>. QED
    BY <2>1, <2>2 DEF WinInv, Window
<1>. QED
  BY <1>1, <1>2, <1>3, <1>4, <1>5, <1>6, <1>7, <1>8, <1>9, <1>10, NextCases

LEMMA InitInv == Init => IInv
<1>. SUFFICES ASSUME Init PROVE IInv
  OBVIOUS
<1>1. Len(stack) = 0 /\ Len(fifo) = 0 /\ stack \in Seq(Calls) /\ fifo \in Seq(Chars) /\ out \in Seq(Chars)
  BY EmptySeq DEF Init
<1>2. TypeInv
  <2>1. /\ locked \in BOOLEAN /\ owner \in BOOLEAN /\ intena \in BOOLEAN /\ sie \in BOOLEAN /\ up \in BOOLEAN /\ lost \in BOOLEAN
    BY Zenon DEF Init
  <2>. QED
    BY <1>1, <2>1 DEF Init, TypeInv
<1>3. Sent = <<>> /\ Len(Sent) = 0
  <2>1. Sent = <<>>
    BY ConcatEmptySeq DEF Init, Sent
  <2>. QED
    BY <2>1, EmptySeq
<1>4. ShapeInv
  BY <1>1 DEF ShapeInv
<1>5. NestInv /\ FifoInv
  BY DEF Init, NestInv, FifoInv
<1>6. IdInv /\ RunInv
  BY <1>1, <1>3 DEF Init, IdInv, RunInv
<1>7. WhyInv /\ WinInv
  BY DEF Init, WhyInv, PrintfNeverPanics, WinInv
<1>. QED
  BY <1>2, <1>4, <1>5, <1>6, <1>7 DEF IInv

(* The invariant behind the results below holds of the output path.    *)
THEOREM Invariance == Spec => []IInv
<1>1. IInv /\ [Next]_vars => IInv'
  BY TypeStep, ShapeStep, NestStep, FifoStep, IdStep, RunStep, WhyStep, WinStep DEF IInv
<1>. QED
  BY <1>1, InitInv, PTL DEF Spec

(* printf() never panics: release() always finds printlock held by this    *)
(* hart, although panic() forces it open, pop_off() is matched, and        *)
(* acquire() finds it held only under an exception that hit a printf().    *)
THEOREM PrintfSafe == Spec => []PrintfNeverPanics
<1>1. IInv => PrintfNeverPanics
  BY DEF IInv, WhyInv
<1>. QED
  BY <1>1, Invariance, PTL

(* The hart waits for printlock only where an exception that is printed    *)
(* before the panic hit acquire() or release() between their two stores:   *)
(* panic() and every other printf() always find printlock free.            *)
THEOREM HangsInWindow == Spec => []HangsOnlyInWindow
<1>1. ASSUME IInv, At({"swap"}), locked PROVE Top.f = "scause" /\ InWindow
  <2>1. /\ stack # <<>> /\ Top.pc = "swap" /\ Len(stack) \in Nat /\ Len(stack) > 0
        /\ Top = stack[Len(stack)]
    BY <1>1, TopCall DEF At, IInv, TypeInv
  <2>2. Top.f = "scause" /\ ~owner
    BY <1>1, <2>1 DEF IInv, NestInv
  <2>3. PICK j \in 1..Len(stack) : Window(j)
    BY <1>1, <2>2 DEF IInv, WinInv
  <2>4. j # Len(stack)
    BY <2>1, <2>3 DEF Window
  <2>5. j \in 1..(Len(stack) - 1) /\ \A k \in (j + 1)..Len(stack) : k \in 1..Len(stack) /\ k > j
    BY <2>1, <2>4
  <2>. QED
    BY <2>2, <2>3, <2>5 DEF InWindow, Window
<1>2. IInv => HangsOnlyInWindow
  BY <1>1 DEF HangsOnlyInWindow
<1>. QED
  BY <1>2, Invariance, PTL

(* Nothing printed is lost, and what one printf() prints comes out in one  *)
(* piece, if the FIFO that uartinit() enables takes two characters (the    *)
(* 16550's takes 16): uart_puts() may write one on top of a tick's last.   *)
THEOREM OutputSafe ==
    ASSUME FIFODepth >= 2
    PROVE  Spec => []OutputIntact
<1>1. ASSUME IInv PROVE OutputIntact
  <2>1. ~lost
    BY <1>1 DEF IInv, FifoInv
  <2>2. Sent \in Seq(Chars) /\ DOMAIN Sent = 1..Len(Sent)
    BY <1>1, ConcatProperties, LenProperties DEF Sent, IInv, TypeInv
  <2>3. \A k, j \in DOMAIN Sent : Sent[k] = Sent[j] /\ Sent[k].f # "uart_puts" => j - k < MsgLen
    BY <1>1, <2>2 DEF IInv, RunInv
  <2>. QED
    BY <2>1, <2>3 DEF OutputIntact, Sent
<1>. QED
  BY <1>1, Invariance, PTL

-----------------------------------------------------------------------------
(* The number conversions.                                                *)

(* A set of natural numbers that has an element has a least one: what      *)
(* stands for induction below, a least counterexample being none.          *)
LEMMA Least ==
    ASSUME NEW T, T \subseteq Nat, T # {}
    PROVE  \E m \in T : \A k \in T : m <= k
<1>. DEFINE R == OpToRel(<, Nat)
<1>1. IsWellFoundedOn(R, Nat)
  BY NatLessThanWellFounded
<1>2. \A y, z \in Nat : y < z => <<y, z>> \in R
  BY DEF OpToRel
<1>. HIDE DEF R
<1>3. PICK m \in T : \A k \in T : ~(<<k, m>> \in R)
  BY <1>1, WFMin
<1>4. ASSUME NEW k \in T PROVE m <= k
  <2>1. m \in Nat /\ k \in Nat
    OBVIOUS
  <2>2. ~(k < m)
    BY <1>2, <1>3, <2>1
  <2>. QED
    BY <2>1, <2>2
<1>. QED
  BY <1>4

(* What the machine's division computes.                                   *)
LEMMA Division ==
    ASSUME NEW g \in Nat \ {0}, NEW z \in Int
    PROVE  z = g * (z \div g) + (z % g) /\ z \div g \in Int /\ z % g \in 0..(g - 1)
<1>1. z % g \in 0..(g - 1)
  OBVIOUS
<1>. QED
  BY <1>1

(* The remainder is the only one.                                          *)
LEMMA Remainder ==
    ASSUME NEW g \in Nat \ {0}, NEW z \in Int, NEW k \in Int, NEW r \in 0..(g - 1), z = g * k + r
    PROVE  z % g = r
  OBVIOUS

(* v[k] is what the first k digits of s say in base b. *)
Horner(v, s, b) == v = [k \in 0..Len(s) |-> IF k = 0 THEN 0 ELSE b * v[k - 1] + s[k]]
Unfold(s, b) == CHOOSE v : Horner(v, s, b)

(* There is one such v.                                                    *)
LEMMA HornerUnique ==
    ASSUME NEW s, Len(s) \in Nat, NEW b, NEW v, Horner(v, s, b), NEW w, Horner(w, s, b)
    PROVE  v[Len(s)] = w[Len(s)]
<1>. DEFINE T == {k \in Nat : k <= Len(s) /\ v[k] # w[k]}
<1>1. SUFFICES ASSUME T # {} PROVE FALSE
  <2>1. Len(s) \notin T
    BY <1>1
  <2>. QED
    BY <2>1
<1>2. PICK m \in T : \A k \in T : m <= k
  <2>1. T \subseteq Nat
    OBVIOUS
  <2>. HIDE DEF T
  <2>. QED
    BY <2>1, <1>1, Least
<1>3. m # 0
  BY DEF Horner
<1>4. v[m - 1] = w[m - 1]
  BY <1>2, <1>3
<1>. QED
  BY <1>2, <1>3, <1>4 DEF Horner

(* So any one of them gives the value of the digits.                       *)
LEMMA ReadsBack ==
    ASSUME NEW s, Len(s) \in Nat, NEW b, NEW v, Horner(v, s, b)
    PROVE  N!ValueOf(s, b) = v[Len(s)]
<1>1. N!ValueOf(s, b) = Unfold(s, b)[Len(s)]
  BY DEF N!ValueOf, Unfold, Horner
<1>2. Horner(Unfold(s, b), s, b)
  BY DEF Unfold
<1>. QED
  BY <1>1, <1>2, HornerUnique

(* v[k] is b to the k. *)
Powers(v, b, e) == v = [k \in 0..e |-> IF k = 0 THEN 1 ELSE b * v[k - 1]]
PowersOf(b, e) == CHOOSE v : Powers(v, b, e)

(* The powers are there ...                                                *)
LEMMA PowersExist ==
    ASSUME NEW b \in Nat, NEW e \in Nat
    PROVE  \E v \in [0..e -> Nat] : Powers(v, b, e)
<1>. DEFINE T == {k \in Nat : ~\E v \in [0..k -> Nat] : Powers(v, b, k)}
<1>1. SUFFICES ASSUME T # {} PROVE FALSE
  OBVIOUS
<1>2. PICK m \in T : \A k \in T : m <= k
  <2>1. T \subseteq Nat
    OBVIOUS
  <2>. HIDE DEF T
  <2>. QED
    BY <2>1, <1>1, Least
<1>3. m # 0
  <2>1. Powers([k \in 0..0 |-> 1], b, 0)
    BY DEF Powers
  <2>2. [k \in 0..0 |-> 1] \in [0..0 -> Nat]
    OBVIOUS
  <2>. QED
    BY <2>1, <2>2
<1>4. m - 1 \in Nat /\ m - 1 \notin T
  <2>1. m \in Nat
    OBVIOUS
  <2>. HIDE DEF T
  <2>. QED
    BY <2>1, <1>2, <1>3
<1>5. PICK v \in [0..(m - 1) -> Nat] : Powers(v, b, m - 1)
  BY <1>4
<1>. DEFINE w == [k \in 0..m |-> IF k = m THEN b * v[m - 1] ELSE v[k]]
<1>6. w \in [0..m -> Nat]
  BY <1>3
<1>7. ASSUME NEW k \in 0..m PROVE w[k] = IF k = 0 THEN 1 ELSE b * w[k - 1]
  <2>1. CASE k = m
    BY <2>1, <1>3
  <2>2. CASE k # m
    BY <2>2, <1>3, <1>5 DEF Powers
  <2>. QED
    BY <2>1, <2>2
<1>8. Powers(w, b, m)
  <2>. HIDE DEF w
  <2>. QED
    BY <1>6, <1>7 DEF Powers
<1>. QED
  BY <1>6, <1>8

(* ... once ... *)
LEMMA PowersUnique ==
    ASSUME NEW b, NEW e \in Nat, NEW f \in Nat, e <= f, NEW v, Powers(v, b, e), NEW w, Powers(w, b, f)
    PROVE  v[e] = w[e]
<1>. DEFINE T == {k \in Nat : k <= e /\ v[k] # w[k]}
<1>1. SUFFICES ASSUME T # {} PROVE FALSE
  <2>1. e \notin T
    BY <1>1
  <2>. QED
    BY <2>1
<1>2. PICK m \in T : \A k \in T : m <= k
  <2>1. T \subseteq Nat
    OBVIOUS
  <2>. HIDE DEF T
  <2>. QED
    BY <2>1, <1>1, Least
<1>3. m # 0
  BY DEF Powers
<1>4. v[m - 1] = w[m - 1]
  BY <1>2, <1>3
<1>. QED
  BY <1>2, <1>3, <1>4 DEF Powers

(* ... and Power is one of them, *)
LEMMA PowerIs ==
    ASSUME NEW b \in Nat, NEW e \in Nat, NEW v, NEW f \in Nat, e <= f, Powers(v, b, f)
    PROVE  N!Power(b, e) = v[e]
<1>1. N!Power(b, e) = PowersOf(b, e)[e]
  BY DEF N!Power, PowersOf, Powers
<1>2. Powers(PowersOf(b, e), b, e)
  BY PowersExist DEF PowersOf
<1>. QED
  BY <1>1, <1>2, PowersUnique

(* which makes it what it should be. *)
LEMMA PowerStep ==
    ASSUME NEW b \in Nat
    PROVE  /\ N!Power(b, 0) = 1
           /\ \A e \in Nat : N!Power(b, e) \in Nat /\ N!Power(b, e + 1) = b * N!Power(b, e)
<1>1. N!Power(b, 0) = 1
  <2>1. PICK v \in [0..0 -> Nat] : Powers(v, b, 0)
    BY PowersExist
  <2>2. v[0] = 1
    BY <2>1 DEF Powers
  <2>. QED
    BY <2>1, <2>2, PowerIs
<1>2. ASSUME NEW e \in Nat PROVE N!Power(b, e) \in Nat /\ N!Power(b, e + 1) = b * N!Power(b, e)
  <2>0. e + 1 \in Nat /\ e <= e + 1
    OBVIOUS
  <2>1. PICK v \in [0..(e + 1) -> Nat] : Powers(v, b, e + 1)
    BY <2>0, PowersExist
  <2>2. v[e + 1] = b * v[e] /\ v[e] \in Nat
    BY <2>1 DEF Powers
  <2>3. N!Power(b, e) = v[e]
    BY <2>0, <2>1, PowerIs
  <2>4. N!Power(b, e + 1) = v[e + 1]
    BY <2>0, <2>1, PowerIs
  <2>. QED
    BY <2>2, <2>3, <2>4
<1>. QED
  BY <1>1, <1>2

(* the magnitude of a number *)
Abs(z) == IF z < 0 THEN -z ELSE z

(* Dividing z by b again and again has produced the digits d, the least    *)
(* first, and left e: g[j] is what is left after j digits. Only the last   *)
(* of them may be 0.                                                       *)
Divided(d, g, z, e, b) ==
    /\ d \in Seq(Int) /\ g \in [0..Len(d) -> Nat] /\ g[0] = z /\ g[Len(d)] = e
    /\ \A j \in 1..Len(d) : g[j - 1] = b * g[j] + d[j] /\ d[j] \in 0..(b - 1)
    /\ \A j \in 1..(Len(d) - 1) : g[j] > 0

(* Before the loop nothing is divided.                                     *)
LEMMA DividedFirst ==
    ASSUME NEW z \in Nat, NEW b
    PROVE  \E g : Divided(<<>>, g, z, z, b)
<1>. DEFINE g == [j \in 0..0 |-> z]
<1>1. Divided(<<>>, g, z, z, b)
  <2>1. <<>> \in Seq(Int) /\ Len(<<>>) = 0
    OBVIOUS
  <2>2. g \in [0..0 -> Nat] /\ g[0] = z
    OBVIOUS
  <2>. HIDE DEF g
  <2>. QED
    BY <2>1, <2>2 DEF Divided
<1>. QED
  BY <1>1

(* One round of printint()'s do loop: buf[i++] = digits[x % base]; x /=    *)
(* base.                                                                   *)
LEMMA DividedStep ==
    ASSUME NEW d, NEW g, NEW z, NEW e \in Nat, NEW b \in Nat, b > 1, Divided(d, g, z, e, b),
           Len(d) = 0 \/ e > 0
    PROVE  /\ e % b \in 0..(b - 1) /\ e \div b \in Nat /\ e = b * (e \div b) + (e % b)
           /\ \E h : Divided(Append(d, e % b), h, z, e \div b, b)
<1>. DEFINE r == e % b
            q == e \div b
            L == Len(d)
            h == [j \in 0..(L + 1) |-> IF j = L + 1 THEN q ELSE g[j]]
            d2 == Append(d, r)
<1>1. r \in 0..(b - 1) /\ q \in Int /\ e = b * q + r
  BY Division
<1>2. q \in Nat
  <2>. HIDE DEF q, r
  <2>. SUFFICES ASSUME q < 0 PROVE FALSE
    BY <1>1
  <2>1. b * q <= b * (-1)
    BY <1>1
  <2>. QED
    BY <1>1, <2>1
<1>. HIDE DEF r, q
<1>3. d \in Seq(Int) /\ L \in Nat /\ r \in Int
  BY <1>1, LenProperties DEF Divided
<1>4. /\ d2 \in Seq(Int) /\ Len(d2) = L + 1 /\ d2[L + 1] = r
      /\ \A j \in 1..L : d2[j] = d[j]
  BY <1>3, AppendProperties
<1>. HIDE DEF d2
<1>5. /\ h \in [0..(L + 1) -> Nat] /\ h[L + 1] = q /\ h[L] = g[L] /\ \A j \in 0..L : h[j] = g[j]
  BY <1>2, <1>3 DEF Divided
<1>6. /\ g[0] = z /\ g[L] = e
      /\ \A j \in 1..L : g[j - 1] = b * g[j] + d[j] /\ d[j] \in 0..(b - 1)
      /\ \A j \in 1..(L - 1) : g[j] > 0
  BY DEF Divided
<1>. HIDE DEF h, L
<1>7. ASSUME NEW j \in 1..(L + 1) PROVE h[j - 1] = b * h[j] + d2[j] /\ d2[j] \in 0..(b - 1)
  <2>1. CASE j = L + 1
    BY <2>1, <1>1, <1>3, <1>4, <1>5, <1>6
  <2>2. CASE j # L + 1
    <3>1. j \in 1..L /\ j - 1 \in 0..L /\ j \in 0..L
      BY <2>2, <1>3
    <3>. QED
      BY <3>1, <1>4, <1>5, <1>6
  <2>. QED
    BY <2>1, <2>2
<1>8. ASSUME NEW j \in 1..L PROVE h[j] > 0
  <2>0. L # 0 /\ L = Len(d)
    BY <1>3 DEF L
  <2>1. CASE j = L
    BY <2>0, <2>1, <1>3, <1>5, <1>6
  <2>2. CASE j # L
    <3>1. j \in 1..(L - 1) /\ j \in 0..L
      BY <2>2, <1>3
    <3>. QED
      BY <3>1, <1>5, <1>6
  <2>. QED
    BY <2>1, <2>2
<1>9. h[0] = z
  BY <1>3, <1>5, <1>6
<1>10. /\ h \in [0..Len(d2) -> Nat] /\ h[Len(d2)] = q
       /\ \A j \in 1..Len(d2) : h[j - 1] = b * h[j] + d2[j] /\ d2[j] \in 0..(b - 1)
  BY <1>4, <1>5, <1>7
<1>11. \A j \in 1..(Len(d2) - 1) : h[j] > 0
  <2>1. Len(d2) - 1 = L
    BY <1>3, <1>4
  <2>. QED
    BY <2>1, <1>8
<1>12. Divided(d2, h, z, q, b)
  BY <1>4, <1>9, <1>10, <1>11 DEF Divided
<1>. QED
  BY <1>1, <1>2, <1>12 DEF r, q, d2

(* Read backwards, the digits of a number divided down to 0 give its       *)
(* value, and the first is 0 for 0 only.                                   *)
LEMMA DigitsRead ==
    ASSUME NEW d, NEW g, NEW z, NEW b \in Nat, Divided(d, g, z, 0, b), Len(d) >= 1,
           NEW s \in Seq(Int), Len(s) = Len(d), \A j \in 1..Len(d) : s[j] = d[Len(d) + 1 - j]
    PROVE  N!ValueOf(s, b) = z /\ s[1] >= 0 /\ (s[1] = 0 => z = 0)
<1>. DEFINE L == Len(d)
            v == [k \in 0..L |-> g[L - k]]
<1>1. /\ L \in Nat /\ L >= 1 /\ Len(s) = L /\ g \in [0..L -> Nat] /\ g[0] = z /\ g[L] = 0
      /\ \A j \in 1..L : g[j - 1] = b * g[j] + d[j] /\ d[j] \in 0..(b - 1)
      /\ \A j \in 1..(L - 1) : g[j] > 0
      /\ \A j \in 1..L : s[j] = d[L + 1 - j]
  BY LenProperties DEF Divided
<1>. HIDE DEF L
<1>2. ASSUME NEW k \in 0..L PROVE v[k] = IF k = 0 THEN 0 ELSE b * v[k - 1] + s[k]
  <2>1. CASE k = 0
    BY <2>1, <1>1
  <2>2. CASE k # 0
    <3>1. L + 1 - k \in 1..L /\ k - 1 \in 0..L /\ k \in 1..L /\ L - (k - 1) = L + 1 - k /\ (L + 1 - k) - 1 = L - k
      BY <2>2, <1>1
    <3>2. v[k] = g[L - k] /\ v[k - 1] = g[L + 1 - k] /\ s[k] = d[L + 1 - k]
      BY <3>1, <1>1
    <3>. QED
      BY <2>2, <3>1, <3>2, <1>1
  <2>. QED
    BY <2>1, <2>2
<1>3. v[L] = z /\ DOMAIN v = 0..L /\ v = [k \in 0..L |-> v[k]]
  BY <1>1
<1>. HIDE DEF v
<1>4. v = [k \in 0..L |-> IF k = 0 THEN 0 ELSE b * v[k - 1] + s[k]]
  BY <1>2, <1>3
<1>5. Horner(v, s, b)
  BY <1>1, <1>4 DEF Horner
<1>6. N!ValueOf(s, b) = z
  BY <1>1, <1>3, <1>5, ReadsBack
<1>7. s[1] = d[L] /\ d[L] \in 0..(b - 1) /\ g[L - 1] = b * g[L] + d[L] /\ g[L] = 0
  <2>1. 1 \in 1..L /\ L \in 1..L /\ L + 1 - 1 = L
    BY <1>1
  <2>2. s[1] = d[L + 1 - 1]
    BY <1>1, <2>1
  <2>. QED
    BY <1>1, <2>1, <2>2
<1>8. g[L - 1] = d[L]
  <2>1. b * 0 = 0 /\ d[L] \in Int
    BY <1>7
  <2>. QED
    BY <2>1, <1>7
<1>9. ASSUME s[1] = 0 PROVE z = 0
  <2>1. L - 1 \notin 1..(L - 1)
    BY <1>1, <1>7, <1>8, <1>9
  <2>2. L = 1
    BY <2>1, <1>1
  <2>. QED
    BY <2>2, <1>1, <1>7, <1>8, <1>9
<1>. QED
  BY <1>6, <1>7, <1>9

(* Of t, u is still to be printed and o has been, the last character       *)
(* first.                                                                  *)
Split(t, u, o) ==
    /\ t \in Seq(Int) /\ u \in Seq(Int) /\ o \in Seq(Int) /\ Len(u) + Len(o) = Len(t)
    /\ \A j \in 1..Len(u) : u[j] = t[j]
    /\ \A j \in 1..Len(o) : o[j] = t[Len(t) + 1 - j]

(* Nothing is printed when the last loop starts.                           *)
LEMMA SplitFirst ==
    ASSUME NEW t \in Seq(Int) PROVE Split(t, t, <<>>)
<1>1. <<>> \in Seq(Int) /\ Len(<<>>) = 0 /\ Len(t) \in Nat
  BY LenProperties
<1>. QED
  BY <1>1 DEF Split

(* One round of it: consputc(buf[i]), i counting down.                     *)
LEMMA SplitStep ==
    ASSUME NEW t, NEW u, NEW o, Split(t, u, o), u # <<>>
    PROVE  /\ Split(t, SubSeq(u, 1, Len(u) - 1), Append(o, u[Len(u)]))
           /\ Len(SubSeq(u, 1, Len(u) - 1)) = Len(u) - 1
<1>. DEFINE L == Len(u)
            u2 == SubSeq(u, 1, L - 1)
            o2 == Append(o, u[L])
<1>1. /\ t \in Seq(Int) /\ u \in Seq(Int) /\ o \in Seq(Int) /\ L + Len(o) = Len(t)
      /\ \A j \in 1..L : u[j] = t[j]
      /\ \A j \in 1..Len(o) : o[j] = t[Len(t) + 1 - j]
  BY DEF Split
<1>2. L \in Nat /\ L >= 1 /\ Len(o) \in Nat /\ Len(t) \in Nat
  BY <1>1, LenProperties, EmptySeq
<1>3. u[L] \in Int
  BY <1>1, <1>2, ElementOfSeq
<1>4. /\ o2 \in Seq(Int) /\ Len(o2) = Len(o) + 1 /\ o2[Len(o) + 1] = u[L]
      /\ \A j \in 1..Len(o) : o2[j] = o[j]
  BY <1>1, <1>3, AppendProperties
<1>5. /\ u2 \in Seq(Int) /\ Len(u2) = L - 1 /\ \A j \in 1..(L - 1) : u2[j] = u[j]
  <2>. DEFINE m == L - 1
  <2>1. m \in Int /\ 1 \in Int /\ \A j \in 1..m : u[j] \in Int
    BY <1>1, <1>2, ElementOfSeq
  <2>3. u2 = SubSeq(u, 1, m) /\ m >= 0
    BY <1>2
  <2>. HIDE DEF m, u2
  <2>2. (IF 1 <= m THEN m - 1 + 1 ELSE 0) = m /\ m - 1 + 1 = m
    BY <2>1, <2>3
  <2>4. /\ u2 \in Seq(Int) /\ Len(u2) = m /\ \A j \in 1..m : u2[j] = u[1 + j - 1]
    BY <2>1, <2>2, <2>3, SubSeqProperties
  <2>5. \A j \in 1..m : 1 + j - 1 = j
    BY <2>1
  <2>. QED
    BY <2>4, <2>5 DEF m
<1>. HIDE DEF o2, u2, L
<1>6. ASSUME NEW j \in 1..(Len(o) + 1) PROVE o2[j] = t[Len(t) + 1 - j]
  <2>1. CASE j = Len(o) + 1
    <3>1. Len(t) + 1 - j = L
      BY <2>1, <1>1, <1>2
    <3>. QED
      BY <2>1, <3>1, <1>1, <1>2, <1>4
  <2>2. CASE j # Len(o) + 1
    <3>1. j \in 1..Len(o)
      BY <2>2, <1>2
    <3>. QED
      BY <3>1, <1>1, <1>4
  <2>. QED
    BY <2>1, <2>2
<1>7. /\ Len(u2) + Len(o2) = Len(t) /\ \A j \in 1..Len(u2) : u2[j] = t[j]
      /\ \A j \in 1..Len(o2) : o2[j] = t[Len(t) + 1 - j]
  <2>1. Len(u2) + Len(o2) = Len(t)
    <3>1. L \in Nat /\ Len(o) \in Nat /\ L + Len(o) = Len(t) /\ Len(u2) = L - 1 /\ Len(o2) = Len(o) + 1
      BY <1>1, <1>2, <1>4, <1>5
    <3>. QED
      BY <3>1
  <2>2. ASSUME NEW j \in 1..Len(u2) PROVE u2[j] = t[j]
    <3>1. j \in 1..(L - 1) /\ j \in 1..L
      BY <1>2, <1>5
    <3>. QED
      BY <3>1, <1>1, <1>5
  <2>3. \A j \in 1..Len(o2) : o2[j] = t[Len(t) + 1 - j]
    BY <1>4, <1>6
  <2>. QED
    BY <2>1, <2>2, <2>3
<1>8. Split(t, u2, o2)
  BY <1>1, <1>4, <1>5, <1>7 DEF Split
<1>. QED
  BY <1>5, <1>8 DEF o2, u2, L

(* What is assumed of the types and of buf[].                              *)
LEMMA Widths ==
    /\ LL \in Nat /\ INT \in Nat /\ INT > 1 /\ INT <= LL /\ LL % 2 = 0 /\ LL = 2 * (LL \div 2) /\ LL \div 2 \in Nat
    /\ Nibbles \in Nat /\ LL = N!Power(16, Nibbles)
    /\ BufSize \in Nat \ {0} /\ LL <= N!Power(10, BufSize) /\ LL \div 2 < N!Power(10, BufSize - 1)
    /\ Raws \subseteq 0..(LL - 1)
  BY MCConsoleAssumption DEF N!PrintintConstants

(* A two's complement number and its bits.                                 *)
LEMMA SignedRange ==
    ASSUME NEW m \in Nat, m > 1, NEW v \in 0..(m - 1)
    PROVE  /\ N!Signed(v, m) \in Int /\ N!Signed(v, m) < m
           /\ N!Signed(v, m) < 0 => N!Signed(v, m) = v - m /\ -N!Signed(v, m) <= m - (m \div 2)
           /\ N!Signed(v, m) >= 0 => N!Signed(v, m) = v
  BY DEF N!Signed

(* x starts as the magnitude of what the argument stands for, the most     *)
(* negative long long, whose -xx wraps, included.                          *)
LEMMA Magnitude ==
    ASSUME conv \in N!Conversions, raw \in 0..(LL - 1), conv # "p"
    PROVE  /\ N!Value \in Int /\ Abs(N!Value) \in Nat /\ Abs(N!Value) < LL
           /\ (conv \in {"d", "ld"} /\ N!Argument < 0) <=> N!Value < 0
           /\ (IF conv \in {"d", "ld"} /\ N!Argument < 0 THEN -N!Argument ELSE N!Argument) % LL = Abs(N!Value)
           /\ N!Value < 0 => Abs(N!Value) <= LL \div 2 /\ Abs(N!Value) >= 1
<1>0. raw % INT \in 0..(INT - 1) /\ raw \in Int /\ raw >= 0
  BY Widths, Division
<1>1. ASSUME NEW z \in Int, N!Value = z, N!Argument = z, z < LL, z < 0 => conv \in {"d", "ld"} /\ -z <= LL \div 2
      PROVE  /\ N!Value \in Int /\ Abs(N!Value) \in Nat /\ Abs(N!Value) < LL
             /\ (conv \in {"d", "ld"} /\ N!Argument < 0) <=> N!Value < 0
             /\ (IF conv \in {"d", "ld"} /\ N!Argument < 0 THEN -N!Argument ELSE N!Argument) % LL = Abs(N!Value)
             /\ N!Value < 0 => Abs(N!Value) <= LL \div 2 /\ Abs(N!Value) >= 1
  <2>1. Abs(z) \in 0..(LL - 1) /\ (z < 0 => Abs(z) <= LL \div 2 /\ Abs(z) >= 1)
    BY <1>1, Widths DEF Abs
  <2>2. Abs(z) % LL = Abs(z)
    BY <2>1, Widths
  <2>3. (IF conv \in {"d", "ld"} /\ N!Argument < 0 THEN -N!Argument ELSE N!Argument) = Abs(z)
    BY <1>1 DEF Abs
  <2>4. (conv \in {"d", "ld"} /\ N!Argument < 0) <=> N!Value < 0
    BY <1>1
  <2>5. Abs(z) \in Nat /\ Abs(z) < LL
    BY <2>1, Widths
  <2>6. (IF conv \in {"d", "ld"} /\ N!Argument < 0 THEN -N!Argument ELSE N!Argument) % LL = Abs(z)
    BY <2>2, <2>3
  <2>. QED
    BY <1>1, <2>1, <2>4, <2>5, <2>6
<1>2. CASE conv = "d"
  <2>. DEFINE z == N!Signed(raw % INT, INT)
  <2>1. N!Value = z /\ N!Argument = z
    BY <1>2 DEF N!Value, N!Argument
  <2>2. z \in Int /\ z < LL /\ (z < 0 => -z <= INT - (INT \div 2))
    BY <1>0, SignedRange, Widths
  <2>3. INT - (INT \div 2) <= LL \div 2
    BY Widths
  <2>. HIDE DEF z
  <2>. QED
    BY <1>1, <1>2, <2>1, <2>2, <2>3, Widths
<1>3. CASE conv \in {"u", "x"}
  <2>1. N!Value = raw % INT /\ N!Argument = raw % INT
    BY <1>3 DEF N!Value, N!Argument
  <2>2. raw % INT \in Int /\ raw % INT < LL /\ ~(raw % INT < 0)
    BY <1>0, Widths
  <2>. QED
    BY <1>1, <2>1, <2>2
<1>4. CASE conv = "ld"
  <2>. DEFINE z == N!Signed(raw, LL)
  <2>1. N!Value = z /\ N!Argument = z
    BY <1>4 DEF N!Value, N!Argument
  <2>2. z \in Int /\ z < LL /\ (z < 0 => -z <= LL - (LL \div 2))
    BY <1>0, SignedRange, Widths
  <2>. HIDE DEF z
  <2>. QED
    BY <1>1, <1>4, <2>1, <2>2, Widths
<1>5. CASE conv \in {"lu", "lx"}
  <2>. DEFINE z == N!Signed(raw, LL)
  <2>1. N!Value = raw /\ N!Argument = z
    BY <1>5 DEF N!Value, N!Argument
  <2>2. z \in Int /\ (z < 0 => z = raw - LL) /\ (z >= 0 => z = raw)
    BY <1>0, SignedRange, Widths
  <2>. HIDE DEF z
  <2>3. z % LL = raw
    <3>1. LL \in Nat \ {0} /\ raw \in 0..(LL - 1)
      BY Widths
    <3>2. CASE z < 0
      <4>1. z = LL * (-1) + raw
        BY <2>2, <3>2, <1>0, Widths
      <4>. QED
        BY <4>1, <2>2, <3>1, Remainder
    <3>3. CASE ~(z < 0)
      <4>1. z = raw
        BY <2>2, <3>3
      <4>. QED
        BY <4>1, <3>1
    <3>. QED
      BY <3>2, <3>3
  <2>4. Abs(raw) = raw
    BY <1>0 DEF Abs
  <2>. QED
    BY <1>0, <1>5, <2>1, <2>3, <2>4, Widths
<1>. QED
  BY <1>2, <1>3, <1>4, <1>5 DEF N!Conversions

(* The quotient is the only one.                                           *)
LEMMA Quotient ==
    ASSUME NEW g \in Nat \ {0}, NEW z \in Int, NEW k \in Int, NEW r \in 0..(g - 1), z = g * k + r
    PROVE  z \div g = k
  OBVIOUS

(* The register z of printptr() holds the y that is left of the argument   *)
(* in its upper digits, L having room for a times 16 times c. V has been   *)
(* printed.                                                                *)
Shiftable(a, c, y, V, L, z) ==
    /\ a \in Nat /\ a > 0 /\ c \in Nat /\ c > 0 /\ y \in Nat /\ y < 16 * c /\ V \in Nat
    /\ L = a * (16 * c) /\ z = y * a

(* The digit x >> 60 takes and what x << 4 leaves.                         *)
TopDigit(a, c, y, V, L, z, d, r) ==
    /\ d \in Nat /\ r \in Nat /\ r < c /\ z \div (L \div 16) = d /\ (z * 16) % L = r * (16 * a)
    /\ V * (16 * c) + y = (16 * V + d) * c + r

(* Every register has such a digit.                                        *)
LEMMA ShiftDigit ==
    ASSUME NEW a, NEW c, NEW y, NEW V, NEW L, NEW z, Shiftable(a, c, y, V, L, z)
    PROVE  \E d, r : TopDigit(a, c, y, V, L, z, d, r)
<1>. USE DEF Shiftable
<1>. DEFINE d == y \div c
            r == y % c
            p == a * c
<1>1. y = c * d + r /\ d \in Int /\ r \in 0..(c - 1)
  BY Division
<1>2. d >= 0
  <2>. HIDE DEF d, r
  <2>. SUFFICES ASSUME d < 0 PROVE FALSE
    BY <1>1
  <2>1. c * d <= c * (-1)
    BY <1>1
  <2>. QED
    BY <1>1, <2>1
<1>. HIDE DEF d, r
<1>3. p \in Nat \ {0} /\ L = 16 * p
  BY DEF p
<1>4. a * r \in 0..(p - 1)
  <2>1. r + 1 <= c /\ r \in Nat
    BY <1>1
  <2>2. a * (r + 1) <= a * c
    BY <2>1
  <2>3. a * (r + 1) = a * r + a
    BY <2>1
  <2>4. a * r \in Nat
    BY <2>1
  <2>. QED
    BY <2>2, <2>3, <2>4, <1>3
<1>5. z = p * d + a * r
  BY <1>1, <1>3
<1>. HIDE DEF p
<1>6. L \div 16 = p
  BY <1>3
<1>7. z \div p = d
  <2>1. z \in Int /\ a * r \in Int
    BY <1>1, <1>3, <1>4, <1>5
  <2>. QED
    BY <1>1, <1>3, <1>4, <1>5, <2>1, Quotient
<1>8. (z * 16) % L = 16 * (a * r)
  <2>. DEFINE w == a * r
  <2>1. w \in 0..(p - 1) /\ z = p * d + w
    BY <1>4, <1>5
  <2>. HIDE DEF w
  <2>2. L \in Nat \ {0} /\ z * 16 \in Int /\ 16 * w \in 0..(L - 1)
    BY <1>1, <1>3, <2>1
  <2>3. z * 16 = L * d + 16 * w
    BY <1>1, <1>3, <2>1
  <2>4. (z * 16) % L = 16 * w
    <3>. DEFINE z2 == z * 16
                w2 == 16 * w
    <3>1. L \in Nat \ {0} /\ z2 \in Int /\ d \in Int /\ w2 \in 0..(L - 1) /\ z2 = L * d + w2
      BY <1>1, <2>2, <2>3
    <3>. HIDE DEF z2, w2
    <3>2. z2 % L = w2
      BY <3>1, Remainder
    <3>. QED
      BY <3>2 DEF z2, w2
  <2>. QED
    BY <2>4 DEF w
<1>9. 16 * (a * r) = r * (16 * a)
  BY <1>1
<1>10. V * (16 * c) + y = (16 * V + d) * c + r
  BY <1>1
<1>11. TopDigit(a, c, y, V, L, z, d, r)
  BY <1>1, <1>2, <1>6, <1>7, <1>8, <1>9, <1>10 DEF TopDigit
<1>. QED
  BY <1>11

(* After k rounds of printptr() the output o is 0x and k digits that say   *)
(* v[k], and the register z holds the rest, y, of the argument w.          *)
Shifted(v, y, o, k, z, w) ==
    /\ o \in Seq(Int) /\ Len(o) = k + 1 /\ o[1] = N!OX /\ v \in [0..k -> Nat] /\ y \in Nat
    /\ v[0] = 0 /\ \A j \in 1..k : v[j] = 16 * v[j - 1] + o[j + 1]
    /\ w = v[k] * N!Power(16, Nibbles - k) + y /\ y < N!Power(16, Nibbles - k)
    /\ z = y * N!Power(16, k) /\ N!Power(16, k) * N!Power(16, Nibbles - k) = LL

(* Before the first round nothing is shifted out.                          *)
LEMMA ShiftedFirst ==
    ASSUME NEW w \in 0..(LL - 1)
    PROVE  \E v, y : Shifted(v, y, <<N!OX>>, 0, w, w)
<1>. DEFINE v == [k \in 0..0 |-> 0]
<1>1. v \in [0..0 -> Nat] /\ v[0] = 0
  OBVIOUS
<1>2. N!OX \in Int
  BY DEF N!OX
<1>3. <<N!OX>> \in Seq(Int) /\ Len(<<N!OX>>) = 0 + 1 /\ <<N!OX>>[1] = N!OX
  BY <1>2
<1>4. N!Power(16, 0) = 1 /\ Nibbles - 0 = Nibbles /\ LL \in Nat /\ N!Power(16, Nibbles) = LL
  BY PowerStep, Widths
<1>. HIDE DEF v
<1>5. w = v[0] * LL + w /\ w < LL /\ w = w * 1 /\ 1 * LL = LL /\ w \in Nat
  BY <1>1, <1>4
<1>6. Shifted(v, w, <<N!OX>>, 0, w, w)
  BY <1>1, <1>3, <1>4, <1>5 DEF Shifted
<1>. QED
  BY <1>6

(* One round: consputc(digits[x >> 60]), x <<= 4.                          *)
LEMMA ShiftedStep ==
    ASSUME NEW k \in Nat, k < Nibbles, NEW v, NEW y, NEW o, NEW z, NEW w, Shifted(v, y, o, k, z, w)
    PROVE  \E h, r : Shifted(h, r, Append(o, z \div (LL \div 16)), k + 1, (z * 16) % LL, w)
<1>. DEFINE a == N!Power(16, k)
            c == N!Power(16, Nibbles - (k + 1))
<1>1. Nibbles - (k + 1) \in Nat /\ (Nibbles - (k + 1)) + 1 = Nibbles - k
  BY Widths
<1>2. /\ a \in Nat /\ c \in Nat /\ N!Power(16, k + 1) = 16 * a /\ N!Power(16, Nibbles - k) = 16 * c
  BY <1>1, PowerStep
<1>3. /\ o \in Seq(Int) /\ Len(o) = k + 1 /\ o[1] = N!OX /\ v \in [0..k -> Nat] /\ y \in Nat
      /\ v[0] = 0 /\ \A j \in 1..k : v[j] = 16 * v[j - 1] + o[j + 1]
      /\ w = v[k] * (16 * c) + y /\ y < 16 * c /\ z = y * a /\ a * (16 * c) = LL
  BY <1>2 DEF Shifted
<1>. HIDE DEF a, c
<1>4. a > 0 /\ c > 0
  <2>1. LL > 0
    BY Widths
  <2>2. a # 0 /\ c # 0
    BY <2>1, <1>2, <1>3
  <2>. QED
    BY <2>2, <1>2
<1>5. v[k] \in Nat
  BY <1>3
<1>6. PICK d, r : TopDigit(a, c, y, v[k], LL, z, d, r)
  <2>1. Shiftable(a, c, y, v[k], LL, z)
    BY <1>2, <1>3, <1>4, <1>5 DEF Shiftable
  <2>. QED
    BY <2>1, ShiftDigit
<1>6a. /\ d \in Nat /\ r \in Nat /\ r < c /\ z \div (LL \div 16) = d /\ (z * 16) % LL = r * (16 * a)
       /\ v[k] * (16 * c) + y = (16 * v[k] + d) * c + r
  BY <1>6 DEF TopDigit
<1>. DEFINE h == [j \in 0..(k + 1) |-> IF j = k + 1 THEN 16 * v[k] + d ELSE v[j]]
            o2 == Append(o, d)
<1>7. /\ h \in [0..(k + 1) -> Nat] /\ h[k + 1] = 16 * v[k] + d /\ \A j \in 0..k : h[j] = v[j]
  <2>1. 16 * v[k] + d \in Nat
    BY <1>5, <1>6a
  <2>2. ASSUME NEW j \in 0..(k + 1), j # k + 1 PROVE j \in 0..k /\ v[j] \in Nat
    BY <2>2, <1>3
  <2>. QED
    BY <2>1, <2>2
<1>8. /\ o2 \in Seq(Int) /\ Len(o2) = k + 2 /\ o2[k + 2] = d
      /\ \A j \in 1..(k + 1) : o2[j] = o[j]
  <2>1. d \in Int
    BY <1>6a
  <2>. QED
    BY <2>1, <1>3, AppendProperties
<1>. HIDE DEF h, o2
<1>9. ASSUME NEW j \in 1..(k + 1) PROVE h[j] = 16 * h[j - 1] + o2[j + 1]
  <2>1. CASE j = k + 1
    <3>1. j - 1 = k /\ j + 1 = k + 2 /\ k \in 0..k
      BY <2>1
    <3>. QED
      BY <3>1, <2>1, <1>7, <1>8
  <2>2. CASE j # k + 1
    <3>1. j \in 1..k /\ j - 1 \in 0..k /\ j \in 0..k /\ j + 1 \in 1..(k + 1)
      BY <2>2
    <3>. QED
      BY <3>1, <1>3, <1>7, <1>8
  <2>. QED
    BY <2>1, <2>2
<1>10. h[0] = 0 /\ o2[1] = N!OX
  BY <1>3, <1>7, <1>8
<1>11. w = h[k + 1] * c + r
  BY <1>3, <1>6a, <1>7
<1>12. (16 * a) * c = LL
  BY <1>2, <1>3
<1>13. Len(o2) = (k + 1) + 1 /\ (16 * a) = N!Power(16, k + 1) /\ c = N!Power(16, Nibbles - (k + 1))
  BY <1>2, <1>8 DEF c
<1>14. Shifted(h, r, o2, k + 1, (z * 16) % LL, w)
  BY <1>6a, <1>7, <1>8, <1>9, <1>10, <1>11, <1>12, <1>13 DEF Shifted
<1>. QED
  BY <1>6a, <1>14 DEF o2

(* After the last round all of the argument has been printed.              *)
LEMMA ShiftedEnd ==
    ASSUME NEW v, NEW y, NEW o, NEW z, NEW w, Shifted(v, y, o, Nibbles, z, w)
    PROVE  o[1] = N!OX /\ Len(Tail(o)) = Nibbles /\ N!ValueOf(Tail(o), 16) = w
<1>. DEFINE s == Tail(o)
<1>1. Nibbles \in Nat /\ N!Power(16, Nibbles - Nibbles) = 1
  BY Widths, PowerStep
<1>2. /\ o \in Seq(Int) /\ Len(o) = Nibbles + 1 /\ o[1] = N!OX /\ v \in [0..Nibbles -> Nat] /\ y \in Nat
      /\ v[0] = 0 /\ \A j \in 1..Nibbles : v[j] = 16 * v[j - 1] + o[j + 1]
      /\ w = v[Nibbles] * 1 + y /\ y < 1
  BY <1>1 DEF Shifted
<1>3. o # <<>>
  BY <1>1, <1>2
<1>4. Len(s) = Nibbles /\ \A j \in 1..Nibbles : s[j] = o[j + 1]
  BY <1>1, <1>2, <1>3, HeadTailProperties
<1>. HIDE DEF s
<1>5. ASSUME NEW k \in 0..Nibbles PROVE v[k] = IF k = 0 THEN 0 ELSE 16 * v[k - 1] + s[k]
  BY <1>1, <1>2, <1>4
<1>6. v = [k \in 0..Nibbles |-> IF k = 0 THEN 0 ELSE 16 * v[k - 1] + s[k]]
  BY <1>2, <1>5
<1>7. Horner(v, s, 16)
  BY <1>4, <1>6 DEF Horner
<1>8. N!ValueOf(s, 16) = v[Nibbles]
  BY <1>1, <1>4, <1>7, ReadsBack
<1>9. v[Nibbles] = w
  BY <1>1, <1>2
<1>. QED
  BY <1>2, <1>4, <1>8, <1>9 DEF s

(* the room that a minus sign takes *)
Sign(b) == IF b THEN 1 ELSE 0

(* t is what buf[] holds at the end of printint()'s first part: the digits *)
(* of z, the least first, and the minus sign.                              *)
Whole(t, negative, z, b) ==
    \E d, g : /\ Divided(d, g, z, 0, b) /\ Len(d) >= 1
              /\ t = IF negative THEN Append(d, N!Dash) ELSE d

(* the types, and the labels *)
NType ==
    /\ conv \in N!Conversions /\ raw \in 0..(LL - 1) /\ neg \in BOOLEAN
    /\ ipc \in {"idle", "start", "digits", "sign", "emit", "nibbles", "done"}

(* what a call leaves alone, and what it has tested *)
NRest ==
    /\ ipc \in {"idle", "start"} => buf = <<>> /\ text = <<>> /\ n = 0
    /\ ipc \in {"digits", "sign", "emit"} => conv # "p"
    /\ ipc \in {"digits", "sign"} => text = <<>>
    /\ ipc \in {"digits", "sign", "emit", "done"} /\ conv # "p" => (neg <=> N!Value < 0)

(* in the division loop: x fits in the room that buf[] still has *)
NDigits ==
    ipc = "digits" =>
        /\ x \in Nat /\ (Len(buf) = 0 \/ x > 0)
        /\ \E g : Divided(buf, g, Abs(N!Value), x, N!Base)
        /\ BufSize - Sign(neg) - Len(buf) >= 1
        /\ x < N!Power(10, BufSize - Sign(neg) - Len(buf))

(* before the test of neg *)
NSign ==
    ipc = "sign" =>
        /\ Len(buf) >= 1 /\ Len(buf) + Sign(neg) <= BufSize
        /\ \E g : Divided(buf, g, Abs(N!Value), 0, N!Base)

(* while buf[] is printed backwards, and after that *)
NEmit ==
    ipc = "emit" \/ (ipc = "done" /\ conv # "p") =>
        /\ Len(buf) <= BufSize /\ (ipc = "done" => buf = <<>>)
        /\ \E t : Whole(t, neg, Abs(N!Value), N!Base) /\ Split(t, buf, text)

(* in printptr(), and after it *)
NPointer ==
    ipc = "nibbles" \/ (ipc = "done" /\ conv = "p") =>
        /\ conv = "p" /\ buf = <<>> /\ n \in 0..Nibbles /\ (ipc = "done" => n = Nibbles)
        /\ \E v, y : Shifted(v, y, text, n, x, raw)

(* the inductive invariant of the number conversions *)
NInv == NType /\ NRest /\ NDigits /\ NSign /\ NEmit /\ NPointer

(* A call starts with it, and the other units leave it alone.              *)
LEMMA NInvInit == N!Init \/ NumberIdle => NInv
<1>. SUFFICES ASSUME N!Init \/ NumberIdle PROVE NInv
  OBVIOUS
<1>1. ipc \in {"idle", "start"} /\ buf = <<>> /\ text = <<>> /\ n = 0 /\ neg = FALSE
  BY DEF N!Init, NumberIdle
<1>2. NType
  <2>1. 0 \in 0..(LL - 1)
    BY Widths
  <2>. QED
    BY <1>1, <2>1, Widths DEF NType, N!Init, NumberIdle, N!Conversions
<1>. QED
  BY <1>1, <1>2 DEF NInv, NRest, NDigits, NSign, NEmit, NPointer

(* the base is 10 or 16 *)
LEMMA BaseIs == N!Base \in Nat /\ N!Base >= 10
  BY DEF N!Base

(* Each step of printint() and printptr() keeps NInv: the sign and the     *)
(* magnitude of the argument,                                              *)
LEMMA NStart == ASSUME NInv, N!Start PROVE NInv'
<1>0. conv \in N!Conversions /\ raw \in 0..(LL - 1) /\ conv # "p" /\ buf = <<>> /\ text = <<>>
  BY DEF NInv, NType, NRest, N!Start
<1>. DEFINE z == Abs(N!Value)
<1>1. /\ neg' = (conv \in {"d", "ld"} /\ N!Argument < 0) /\ ipc' = "digits"
      /\ x' = (IF neg' THEN -N!Argument ELSE N!Argument) % LL
      /\ UNCHANGED <<conv, raw, buf, n, text>>
  BY DEF N!Start
<1>2. neg' \in BOOLEAN /\ (neg' <=> N!Value < 0)
  BY <1>0, <1>1, Magnitude
<1>3. x' = z /\ z \in Nat /\ z < LL /\ (neg' => z <= LL \div 2 /\ z >= 1)
  <2>1. (IF conv \in {"d", "ld"} /\ N!Argument < 0 THEN -N!Argument ELSE N!Argument) % LL = z
    BY <1>0, Magnitude
  <2>2. x' = z
    BY <1>1, <2>1
  <2>3. z \in Nat /\ z < LL /\ (N!Value < 0 => z <= LL \div 2 /\ z >= 1)
    BY <1>0, Magnitude
  <2>. QED
    BY <1>2, <2>2, <2>3
<1>4. N!Value' = N!Value /\ N!Base' = N!Base /\ z' = z
  BY <1>1 DEF N!Value, N!Base, N!Signed, Abs
<1>. HIDE DEF z
<1>5. NType'
  BY <1>0, <1>1, <1>2 DEF NType
<1>6. NRest'
  BY <1>0, <1>1, <1>2, <1>4 DEF NRest
<1>7. \E g : Divided(<<>>, g, z, z, N!Base)
  BY <1>3, DividedFirst
<1>8. Len(<<>>) = 0
  OBVIOUS
<1>9. BufSize - Sign(neg') - 0 >= 1 /\ z < N!Power(10, BufSize - Sign(neg') - 0)
  <2>1. CASE ~neg'
    <3>1. Sign(neg') = 0 /\ BufSize - 0 - 0 = BufSize /\ BufSize >= 1
      BY <2>1, Widths DEF Sign
    <3>2. N!Power(10, BufSize) \in Nat
      BY PowerStep, Widths
    <3>. QED
      BY <3>1, <3>2, <1>3, Widths
  <2>2. CASE neg'
    <3>1. Sign(neg') = 1 /\ BufSize - 1 - 0 = BufSize - 1 /\ BufSize - 1 \in Nat
      BY <2>2, Widths DEF Sign
    <3>2. N!Power(10, BufSize - 1) \in Nat /\ N!Power(10, 0) = 1
      BY <3>1, PowerStep
    <3>3. z < N!Power(10, BufSize - 1) /\ z >= 1
      BY <2>2, <3>2, <1>3, Widths
    <3>4. BufSize - 1 # 0
      BY <3>2, <3>3, <1>3
    <3>5. BufSize - 1 >= 1
      BY <3>1, <3>4, Widths
    <3>. QED
      BY <3>1, <3>3, <3>5
  <2>. QED
    BY <2>1, <2>2
<1>10. NDigits'
  BY <1>0, <1>1, <1>3, <1>4, <1>7, <1>8, <1>9 DEF NDigits, z
<1>. QED
  BY <1>1, <1>5, <1>6, <1>10 DEF NInv, NSign, NEmit, NPointer

(* a digit, *)
LEMMA NDigit == ASSUME NInv, N!Digit PROVE NInv'
<1>. DEFINE z == Abs(N!Value)
            b == N!Base
            q == x \div b
            d == Append(buf, x % b)
            k == BufSize - Sign(neg) - Len(buf)
<1>1. /\ ipc = "digits" /\ buf' = d /\ x' = q /\ ipc' = IF x' = 0 THEN "sign" ELSE "digits"
      /\ UNCHANGED <<conv, raw, neg, n, text>>
  BY DEF N!Digit
<1>2. N!Value' = N!Value /\ N!Base' = N!Base /\ z' = z
  BY <1>1 DEF N!Value, N!Base, N!Signed, Abs
<1>3. /\ x \in Nat /\ (Len(buf) = 0 \/ x > 0) /\ k >= 1 /\ x < N!Power(10, k)
      /\ b \in Nat /\ b >= 10
  BY <1>1, BaseIs DEF NInv, NDigits
<1>4. PICK g : Divided(buf, g, z, x, b)
  BY <1>1 DEF NInv, NDigits
<1>5. /\ x % b \in 0..(b - 1) /\ q \in Nat /\ x = b * q + (x % b)
      /\ \E h : Divided(d, h, z, q, b)
  BY <1>3, <1>4, DividedStep
<1>6. buf \in Seq(Int) /\ x % b \in Int
  BY <1>4, <1>5 DEF Divided
<1>7. Len(d) = Len(buf) + 1 /\ Len(buf) \in Nat
  BY <1>6, AppendProperties, LenProperties
<1>8. neg \in BOOLEAN /\ Sign(neg) \in {0, 1}
  BY DEF NInv, NType, Sign
<1>9. k \in Int /\ k - 1 \in Nat /\ k - 1 = BufSize - Sign(neg) - Len(d) /\ Len(d) + Sign(neg) <= BufSize
  <2>. DEFINE l == Len(buf)
              m == Len(d)
              w == Sign(neg)
  <2>1. k = BufSize - w - l /\ m = l + 1 /\ l \in Nat /\ w \in {0, 1} /\ k >= 1 /\ BufSize \in Nat
    BY <1>3, <1>7, <1>8, Widths
  <2>. HIDE DEF k, l, m, w
  <2>2. k \in Int /\ k - 1 \in Nat /\ k - 1 = BufSize - w - m /\ m + w <= BufSize
    BY <2>1
  <2>. QED
    BY <2>2 DEF l, m, w
<1>. HIDE DEF z, b, q, d, k
<1>10. q < N!Power(10, k - 1)
  <2>1. N!Power(10, k - 1) \in Nat /\ N!Power(10, (k - 1) + 1) = 10 * N!Power(10, k - 1)
    BY <1>9, PowerStep
  <2>2. (k - 1) + 1 = k
    BY <1>9, <1>3
  <2>3. b * q >= 10 * q
    BY <1>3, <1>5
  <2>. DEFINE w == N!Power(10, k - 1)
              r == x % b
              y == b * q
  <2>4. w \in Nat /\ x < 10 * w /\ x = y + r /\ r >= 0 /\ r \in Int /\ y \in Int /\ y >= 10 * q
    BY <2>1, <2>2, <2>3, <1>3, <1>5
  <2>. HIDE DEF w, r, y
  <2>5. q < w
    BY <2>4, <1>3, <1>5
  <2>. QED
    BY <2>5 DEF w
<1>11. NType'
  BY <1>1 DEF NInv, NType
<1>12. NRest'
  BY <1>1, <1>2 DEF NInv, NRest
<1>13. CASE q = 0
  <2>1. ipc' = "sign"
    BY <1>1, <1>13
  <2>2. Len(buf') >= 1 /\ Len(buf') + Sign(neg') <= BufSize
    BY <1>1, <1>7, <1>9
  <2>3. \E h : Divided(buf', h, z', 0, N!Base')
    BY <1>1, <1>2, <1>5, <1>13 DEF b
  <2>4. NSign'
    BY <2>2, <2>3 DEF NSign, z
  <2>. QED
    BY <2>1, <2>4, <1>11, <1>12 DEF NInv, NDigits, NEmit, NPointer
<1>14. CASE q # 0
  <2>1. ipc' = "digits"
    BY <1>1, <1>14
  <2>2. q > 0 /\ k - 1 >= 1
    <3>1. q >= 1
      BY <1>5, <1>14
    <3>2. N!Power(10, 0) = 1
      BY PowerStep
    <3>3. k - 1 # 0
      BY <3>1, <3>2, <1>5, <1>10
    <3>4. k - 1 >= 1
      BY <3>3, <1>9
    <3>. QED
      BY <3>1, <3>4, <1>5
  <2>3. \E h : Divided(buf', h, z', x', N!Base')
    BY <1>1, <1>2, <1>5 DEF b
  <2>4. x' \in Nat /\ x' > 0
    BY <2>2, <1>1, <1>5
  <2>5. BufSize - Sign(neg') - Len(buf') >= 1 /\ x' < N!Power(10, BufSize - Sign(neg') - Len(buf'))
    BY <2>2, <1>1, <1>9, <1>10
  <2>6. NDigits'
    BY <2>3, <2>4, <2>5 DEF NDigits, z
  <2>. QED
    BY <2>1, <2>6, <1>11, <1>12 DEF NInv, NSign, NEmit, NPointer
<1>. QED
  BY <1>13, <1>14

(* the minus sign, *)
LEMMA NMinus == ASSUME NInv, N!Minus PROVE NInv'
<1>. DEFINE z == Abs(N!Value)
            b == N!Base
<1>1. /\ ipc = "sign" /\ buf' = (IF neg THEN Append(buf, N!Dash) ELSE buf) /\ ipc' = "emit"
      /\ UNCHANGED <<conv, raw, x, neg, n, text>>
  BY DEF N!Minus
<1>2. N!Value' = N!Value /\ N!Base' = N!Base /\ z' = z
  BY <1>1 DEF N!Value, N!Base, N!Signed, Abs
<1>3. Len(buf) >= 1 /\ Len(buf) + Sign(neg) <= BufSize /\ text = <<>> /\ conv # "p" /\ neg \in BOOLEAN
  BY <1>1 DEF NInv, NSign, NRest, NType
<1>4. PICK g : Divided(buf, g, z, 0, b)
  BY <1>1 DEF NInv, NSign
<1>5. buf \in Seq(Int) /\ Len(buf) \in Nat /\ N!Dash \in Int
  BY <1>4, LenProperties DEF Divided, N!Dash
<1>6. Append(buf, N!Dash) \in Seq(Int) /\ Len(Append(buf, N!Dash)) = Len(buf) + 1
  BY <1>5, AppendProperties
<1>7. buf' \in Seq(Int) /\ Len(buf') <= BufSize
  <2>1. CASE neg
    BY <2>1, <1>1, <1>3, <1>5, <1>6, Widths DEF Sign
  <2>2. CASE ~neg
    BY <2>2, <1>1, <1>3, <1>5, Widths DEF Sign
  <2>. QED
    BY <2>1, <2>2, <1>3
<1>. HIDE DEF z, b
<1>8. Whole(buf', neg, z, b)
  BY <1>1, <1>3, <1>4 DEF Whole
<1>9. Split(buf', buf', text')
  BY <1>1, <1>3, <1>7, SplitFirst
<1>10. Whole(buf', neg', z', N!Base')
  BY <1>1, <1>2, <1>8 DEF b
<1>11. NEmit'
  BY <1>1, <1>7, <1>9, <1>10 DEF NEmit, z
<1>12. NType' /\ NRest'
  BY <1>1, <1>2 DEF NInv, NType, NRest
<1>. QED
  BY <1>1, <1>11, <1>12 DEF NInv, NDigits, NSign, NPointer

(* a character printed, *)
LEMMA NEmitStep == ASSUME NInv, N!Emit PROVE NInv'
<1>. DEFINE z == Abs(N!Value)
<1>1. /\ ipc = "emit" /\ buf # <<>> /\ text' = Append(text, buf[Len(buf)]) /\ ipc' = "emit"
      /\ buf' = SubSeq(buf, 1, Len(buf) - 1) /\ UNCHANGED <<conv, raw, x, neg, n>>
  BY DEF N!Emit
<1>2. N!Value' = N!Value /\ N!Base' = N!Base /\ z' = z
  BY <1>1 DEF N!Value, N!Base, N!Signed, Abs
<1>3. PICK t : Whole(t, neg, z, N!Base) /\ Split(t, buf, text)
  BY <1>1 DEF NInv, NEmit
<1>4. Split(t, buf', text') /\ Len(buf') = Len(buf) - 1
  BY <1>1, <1>3, SplitStep
<1>5. Len(buf) \in Nat /\ Len(buf) <= BufSize
  BY <1>1, <1>3, LenProperties DEF NInv, NEmit, Split
<1>6. Len(buf') <= BufSize
  BY <1>4, <1>5, Widths
<1>. HIDE DEF z
<1>7. Whole(t, neg', z', N!Base')
  BY <1>1, <1>2, <1>3
<1>8. NEmit'
  BY <1>1, <1>4, <1>6, <1>7 DEF NEmit, z
<1>9. NType' /\ NRest'
  BY <1>1, <1>2 DEF NInv, NType, NRest
<1>. QED
  BY <1>1, <1>8, <1>9 DEF NInv, NDigits, NSign, NPointer

(* the end of printint(), *)
LEMMA NReturn == ASSUME NInv, N!Return PROVE NInv'
<1>1. /\ ipc = "emit" /\ buf = <<>> /\ ipc' = "done"
      /\ UNCHANGED <<conv, raw, x, neg, buf, n, text>>
  BY DEF N!Return
<1>2. N!Value' = N!Value /\ N!Base' = N!Base /\ Abs(N!Value)' = Abs(N!Value) /\ conv # "p"
  BY <1>1 DEF N!Value, N!Base, N!Signed, Abs, NInv, NRest
<1>3. PICK t : Whole(t, neg, Abs(N!Value), N!Base) /\ Split(t, buf, text)
  BY <1>1 DEF NInv, NEmit
<1>4. Whole(t, neg', Abs(N!Value)', N!Base') /\ Split(t, buf', text') /\ Len(buf') <= BufSize /\ buf' = <<>>
  BY <1>1, <1>2, <1>3 DEF NInv, NEmit
<1>5. NEmit'
  BY <1>1, <1>4 DEF NEmit
<1>6. NType' /\ NRest'
  BY <1>1, <1>2 DEF NInv, NType, NRest
<1>. QED
  BY <1>1, <1>2, <1>5, <1>6 DEF NInv, NDigits, NSign, NPointer

(* 0x, *)
LEMMA NPointerStart == ASSUME NInv, N!Pointer PROVE NInv'
<1>1. /\ ipc = "start" /\ conv = "p" /\ x' = raw /\ text' = <<N!OX>> /\ ipc' = "nibbles"
      /\ UNCHANGED <<conv, raw, neg, buf, n>>
  BY DEF N!Pointer
<1>2. raw \in 0..(LL - 1) /\ buf = <<>> /\ n = 0
  BY <1>1 DEF NInv, NType, NRest
<1>3. \E v, y : Shifted(v, y, <<N!OX>>, 0, raw, raw)
  BY <1>2, ShiftedFirst
<1>4. \E v, y : Shifted(v, y, text', n', x', raw')
  BY <1>1, <1>2, <1>3
<1>5. 0 \in 0..Nibbles
  BY Widths
<1>6. NPointer'
  BY <1>1, <1>2, <1>4, <1>5 DEF NPointer
<1>7. NType' /\ NRest'
  BY <1>1 DEF NInv, NType, NRest
<1>. QED
  BY <1>1, <1>6, <1>7 DEF NInv, NDigits, NSign, NEmit

(* a hexadecimal digit, *)
LEMMA NNibble == ASSUME NInv, N!Nibble PROVE NInv'
<1>1. /\ ipc = "nibbles" /\ n < Nibbles /\ ipc' = ipc /\ text' = Append(text, x \div (LL \div 16))
      /\ x' = (x * 16) % LL /\ n' = n + 1 /\ UNCHANGED <<conv, raw, neg, buf>>
  BY DEF N!Nibble
<1>2. conv = "p" /\ buf = <<>> /\ n \in Nat
  BY <1>1, Widths DEF NInv, NPointer
<1>3. PICK v, y : Shifted(v, y, text, n, x, raw)
  BY <1>1 DEF NInv, NPointer
<1>4. \E h, r : Shifted(h, r, Append(text, x \div (LL \div 16)), n + 1, (x * 16) % LL, raw)
  BY <1>1, <1>2, <1>3, ShiftedStep
<1>5. \E h, r : Shifted(h, r, text', n', x', raw')
  BY <1>1, <1>4
<1>6. n' \in 0..Nibbles
  BY <1>1, <1>2, Widths
<1>7. NPointer'
  BY <1>1, <1>2, <1>5, <1>6 DEF NPointer
<1>8. NType' /\ NRest'
  BY <1>1 DEF NInv, NType, NRest
<1>. QED
  BY <1>1, <1>7, <1>8 DEF NInv, NDigits, NSign, NEmit

(* and the end of printptr(). *)
LEMMA NPointerEnd == ASSUME NInv, N!PointerEnd PROVE NInv'
<1>1. /\ ipc = "nibbles" /\ n = Nibbles /\ ipc' = "done"
      /\ UNCHANGED <<conv, raw, x, neg, buf, n, text>>
  BY DEF N!PointerEnd
<1>2. conv = "p"
  BY <1>1 DEF NInv, NPointer
<1>3. NPointer'
  BY <1>1 DEF NInv, NPointer, Shifted
<1>4. NType' /\ NRest'
  BY <1>1, <1>2 DEF NInv, NType, NRest
<1>. QED
  BY <1>1, <1>2, <1>3, <1>4 DEF NInv, NDigits, NSign, NEmit

(* So every step keeps NInv.                                               *)
LEMMA NInvNext == NInv /\ [N!Next]_nVars => NInv'
<1>1. NInv /\ UNCHANGED nVars => NInv'
  <2>. SUFFICES ASSUME NInv, UNCHANGED nVars PROVE NInv'
    OBVIOUS
  <2>1. UNCHANGED <<conv, raw, x, neg, buf, n, text, ipc>>
    BY DEF nVars
  <2>2. N!Value' = N!Value /\ N!Base' = N!Base /\ Abs(N!Value)' = Abs(N!Value)
    BY <2>1 DEF N!Value, N!Base, N!Signed, Abs
  <2>. QED
    BY <2>1, <2>2 DEF NInv, NType, NRest, NDigits, NSign, NEmit, NPointer, Sign, Shifted
<1>. QED
  BY <1>1, NStart, NDigit, NMinus, NEmitStep, NReturn, NPointerStart, NNibble, NPointerEnd DEF N!Next

(* buf[] is never overrun. *)
LEMMA NFits == NInv => N!BufferFits
<1>. SUFFICES ASSUME NInv PROVE Len(buf) <= BufSize
  BY DEF N!BufferFits
<1>0. BufSize \in Nat /\ Sign(neg) \in {0, 1} /\ Len(<<>>) = 0
  BY Widths DEF Sign
<1>1. CASE buf = <<>>
  BY <1>0, <1>1
<1>2. CASE ipc = "digits"
  <2>1. PICK g : Divided(buf, g, Abs(N!Value), x, N!Base)
    BY <1>2 DEF NInv, NDigits
  <2>2. Len(buf) \in Nat /\ BufSize - Sign(neg) - Len(buf) >= 1
    BY <1>2, <2>1, LenProperties DEF NInv, NDigits, Divided
  <2>. QED
    BY <1>0, <2>2
<1>3. CASE ipc = "sign"
  <2>1. PICK g : Divided(buf, g, Abs(N!Value), 0, N!Base)
    BY <1>3 DEF NInv, NSign
  <2>2. Len(buf) \in Nat /\ Len(buf) + Sign(neg) <= BufSize
    BY <1>3, <2>1, LenProperties DEF NInv, NSign, Divided
  <2>. QED
    BY <1>0, <2>2
<1>4. CASE ipc = "emit"
  BY <1>4 DEF NInv, NEmit
<1>5. ipc \in {"idle", "start", "nibbles", "done"} => buf = <<>>
  BY DEF NInv, NRest, NEmit, NPointer
<1>. QED
  BY <1>1, <1>2, <1>3, <1>4, <1>5 DEF NInv, NType

(* What has been printed when a call ends reads back as the argument.      *)
LEMMA NPrints == NInv => N!PrintsValue
<1>. DEFINE s == IF text[1] < 0 THEN Tail(text) ELSE text
<1>. SUFFICES ASSUME NInv, ipc = "done"
              PROVE  /\ (text[1] = N!Dash) = (N!Value < 0)
                     /\ N!ValueOf(s, IF conv = "p" THEN 16 ELSE N!Base) = Abs(N!Value)
                     /\ IF conv = "p" THEN Len(s) = Nibbles ELSE s[1] = 0 => N!Value = 0
  BY DEF N!PrintsValue, Abs
<1>1. CASE conv = "p"
  <2>1. PICK v, y : Shifted(v, y, text, Nibbles, x, raw)
    BY <1>1 DEF NInv, NPointer
  <2>2. text[1] = N!OX /\ Len(Tail(text)) = Nibbles /\ N!ValueOf(Tail(text), 16) = raw
    BY <2>1, ShiftedEnd
  <2>3. N!OX = -2 /\ N!Dash = -1
    BY DEF N!OX, N!Dash
  <2>4. N!Value = raw /\ raw \in Nat
    BY <1>1, Widths DEF NInv, NType, N!Value
  <2>5. Abs(raw) = raw /\ ~(raw < 0)
    BY <2>4 DEF Abs
  <2>6. s = Tail(text) /\ text[1] # N!Dash
    BY <2>2, <2>3
  <2>. HIDE DEF s
  <2>. QED
    BY <1>1, <2>2, <2>4, <2>5, <2>6
<1>2. CASE conv # "p"
  <2>. DEFINE z == Abs(N!Value)
              b == N!Base
  <2>1. PICK t : Whole(t, neg, z, b) /\ Split(t, buf, text)
    BY <1>2 DEF NInv, NEmit
  <2>2. buf = <<>> /\ (neg <=> N!Value < 0) /\ N!Value \in Int /\ neg \in BOOLEAN
    BY <1>2, Magnitude DEF NInv, NEmit, NRest, NType
  <2>3. /\ text \in Seq(Int) /\ t \in Seq(Int) /\ Len(text) = Len(t)
        /\ \A j \in 1..Len(t) : text[j] = t[Len(t) + 1 - j]
    <3>1. /\ text \in Seq(Int) /\ t \in Seq(Int) /\ Len(<<>>) + Len(text) = Len(t)
          /\ \A j \in 1..Len(text) : text[j] = t[Len(t) + 1 - j]
      BY <2>1, <2>2 DEF Split
    <3>2. Len(text) \in Nat /\ Len(<<>>) = 0
      BY <3>1, LenProperties
    <3>. QED
      BY <3>1, <3>2
  <2>4. PICK d, g : /\ Divided(d, g, z, 0, b) /\ Len(d) >= 1
                    /\ t = IF neg THEN Append(d, N!Dash) ELSE d
    BY <2>1 DEF Whole
  <2>5. d \in Seq(Int) /\ Len(d) \in Nat /\ b \in Nat
    BY <2>4, LenProperties, BaseIs DEF Divided
  <2>. HIDE DEF z, b
  <2>6. CASE ~neg
    <3>1. t = d
      BY <2>4, <2>6
    <3>2. /\ text \in Seq(Int) /\ Len(text) = Len(d)
          /\ \A j \in 1..Len(d) : text[j] = d[Len(d) + 1 - j]
      BY <2>3, <3>1
    <3>3. N!ValueOf(text, b) = z /\ text[1] >= 0 /\ (text[1] = 0 => z = 0)
      BY <2>4, <2>5, <3>2, DigitsRead
    <3>4. text[1] \in Int
      BY <3>2, <2>4, <2>5, ElementOfSeq
    <3>5. s = text /\ text[1] # N!Dash /\ ~(N!Value < 0)
      BY <2>2, <2>6, <3>3, <3>4 DEF N!Dash
    <3>6. z = N!Value
      BY <3>5 DEF z, Abs
    <3>. HIDE DEF s
    <3>. QED
      BY <1>2, <3>3, <3>5, <3>6 DEF z, b
  <2>7. CASE neg
    <3>1. /\ t = Append(d, N!Dash) /\ N!Dash \in Int /\ N!Dash = -1
      BY <2>4, <2>7 DEF N!Dash
    <3>2. /\ Len(t) = Len(d) + 1 /\ t[Len(d) + 1] = N!Dash /\ \A j \in 1..Len(d) : t[j] = d[j]
      BY <3>1, <2>5, AppendProperties
    <3>3. text[1] = N!Dash /\ text # <<>>
      <4>1. 1 \in 1..Len(t) /\ Len(t) + 1 - 1 = Len(d) + 1
        BY <2>5, <3>2
      <4>2. text[1] = t[Len(t) + 1 - 1]
        BY <4>1, <2>3
      <4>3. Len(text) # 0
        BY <4>1, <2>3, <2>5, <3>2
      <4>. QED
        BY <4>1, <4>2, <4>3, <3>2, <2>3, EmptySeq
    <3>4. /\ Tail(text) \in Seq(Int) /\ Len(Tail(text)) = Len(text) - 1
          /\ \A j \in 1..Len(Tail(text)) : Tail(text)[j] = text[j + 1]
      BY <2>3, <3>3, HeadTailProperties
    <3>. DEFINE r == Tail(text)
    <3>5. r \in Seq(Int) /\ Len(r) = Len(d) /\ \A j \in 1..Len(d) : r[j] = text[j + 1]
      BY <3>2, <3>4, <2>3, <2>5
    <3>6. s = r
      BY <3>1, <3>3
    <3>. HIDE DEF r, s
    <3>7. ASSUME NEW j \in 1..Len(d) PROVE r[j] = d[Len(d) + 1 - j]
      <4>1. /\ j + 1 \in 1..Len(t) /\ Len(t) + 1 - (j + 1) = Len(d) + 1 - j
            /\ Len(d) + 1 - j \in 1..Len(d)
        BY <2>5, <3>2
      <4>2. text[j + 1] = t[Len(t) + 1 - (j + 1)]
        BY <4>1, <2>3
      <4>. QED
        BY <4>1, <4>2, <3>2, <3>5
    <3>8. N!ValueOf(r, b) = z /\ r[1] >= 0 /\ (r[1] = 0 => z = 0)
      BY <2>4, <2>5, <3>5, <3>7, DigitsRead
    <3>9. N!Value < 0
      BY <2>2, <2>7
    <3>10. z # 0
      BY <3>9, <2>2 DEF z, Abs
    <3>. QED
      BY <1>2, <3>3, <3>6, <3>8, <3>9, <3>10 DEF z, b
  <2>. QED
    BY <2>2, <2>6, <2>7
<1>. QED
  BY <1>1, <1>2

(* printint() never writes behind buf[], and what it and printptr() print  *)
(* reads back as the argument, the minus sign included, without leading    *)
(* zeros for printint() and with all of them for printptr(): for every     *)
(* register content and for words of any width for which buf[] has the     *)
(* room that 20 characters are for 64 bits.                                *)
THEOREM PrintsNumbers == MCSpec => []PrintsValue
<1>1. MCInit => NInv
  BY NInvInit DEF MCInit
<1>2. NInv /\ [MCNext]_mcVars => NInv'
  BY NInvNext DEF MCNext, mcVars, Unit, ConsoleUnit, NumberUnit, FormatUnit, Rest
<1>3. NInv => PrintsValue
  BY NFits, NPrints DEF PrintsValue
<1>. QED
  BY <1>1, <1>2, <1>3, PTL DEF MCSpec

-----------------------------------------------------------------------------
(* The format loop.                                                        *)

(* The largest of some indices is one of them.                             *)
LEMMA FarthestIn ==
    ASSUME NEW b \in Nat, NEW S, S \subseteq 0..b, S # {}
    PROVE  F!Farthest(S) \in S
<1>. DEFINE T == {k \in Nat : b - k \in S}
<1>1. T \subseteq Nat /\ T # {}
  <2>1. PICK s \in S : TRUE
    OBVIOUS
  <2>2. b - s \in Nat /\ b - (b - s) = s
    OBVIOUS
  <2>. QED
    BY <2>1, <2>2
<1>2. PICK m \in T : \A k \in T : m <= k
  <2>. HIDE DEF T
  <2>. QED
    BY <1>1, Least
<1>3. b - m \in S
  OBVIOUS
<1>4. ASSUME NEW k \in S PROVE k <= b - m
  <2>1. b - k \in T /\ k \in Int
    BY DEF T
  <2>2. m <= b - k
    BY <2>1, <1>2
  <2>. QED
    BY <2>1, <2>2, <1>2
<1>5. \E j \in S : \A k \in S : k <= j
  BY <1>3, <1>4
<1>. QED
  BY <1>5 DEF F!Farthest

(* What printf() sees at index k: a character of the format, or its NUL.   *)
LEMMA CharAt ==
    ASSUME fmt \in Seq(F!Chars), NEW k \in Nat
    PROVE  /\ F!Ch(k) # F!NUL => k < Len(fmt) /\ F!Ch(k) = fmt[k + 1]
           /\ F!Ch(k) = F!NUL => k >= Len(fmt)
           /\ Len(fmt) \in Nat
<1>1. Len(fmt) \in Nat
  BY LenProperties
<1>2. ASSUME k < Len(fmt) PROVE F!Ch(k) = fmt[k + 1] /\ F!Ch(k) # F!NUL
  <2>1. fmt[k + 1] \in F!Chars
    BY <1>1, <1>2, ElementOfSeq
  <2>. QED
    BY <1>2, <2>1 DEF F!Ch, F!Chars, F!NUL
<1>3. ASSUME ~(k < Len(fmt)) PROVE F!Ch(k) = F!NUL
  BY <1>3 DEF F!Ch
<1>. QED
  BY <1>1, <1>2, <1>3

(* a conversion's letters, prefixes included, stand at index k *)
Behind(k) ==
    \/ F!Ch(k) \in {"d", "s"}
    \/ F!Ch(k) = "l" /\ F!Ch(k + 1) = "d"
    \/ F!Ch(k) = "l" /\ F!Ch(k + 1) = "l" /\ F!Ch(k + 2) = "d"

(* the text t stands at index k *)
Reads(k, t) == \A j \in 1..Len(t) : F!Ch(k + j - 1) = t[j]

(* A text stands behind position k if the characters are its.              *)
LEMMA Followed ==
    ASSUME fmt \in Seq(F!Chars), NEW k \in Nat, NEW t \in Seq(F!Chars), Len(t) >= 1
    PROVE  F!FollowedBy(k, t) <=> Reads(k, t)
<1>0. Len(fmt) \in Nat /\ Len(t) \in Nat
  BY LenProperties
<1>. DEFINE l == Len(t)
            u == SubSeq(fmt, k + 1, k + l)
<1>1. ASSUME k + l <= Len(fmt)
      PROVE  u \in Seq(F!Chars) /\ Len(u) = l /\ \A j \in 1..l : u[j] = F!Ch(k + j - 1)
  <2>1. k + 1 \in Int /\ k + l \in Int /\ \A j \in (k + 1)..(k + l) : fmt[j] \in F!Chars
    BY <1>0, <1>1, ElementOfSeq
  <2>. DEFINE a == k + 1
              b == k + l
  <2>2. /\ a \in Int /\ b \in Int /\ \A j \in a..b : fmt[j] \in F!Chars
    BY <2>1
  <2>3. b - a + 1 = l /\ (IF a <= b THEN b - a + 1 ELSE 0) = l
    BY <1>0
  <2>4. u = SubSeq(fmt, a, b)
    OBVIOUS
  <2>5. \A j \in 1..l : a + j - 1 = (k + j - 1) + 1 /\ k + j - 1 \in Nat /\ k + j - 1 < Len(fmt)
    BY <1>0, <1>1
  <2>. HIDE DEF a, b, u, l
  <2>6. u \in Seq(F!Chars) /\ Len(u) = l /\ \A j \in 1..l : u[j] = fmt[a + j - 1]
    BY <2>2, <2>3, <2>4, SubSeqProperties
  <2>7. ASSUME NEW j \in 1..l PROVE fmt[a + j - 1] = F!Ch(k + j - 1)
    BY <2>5 DEF F!Ch
  <2>. QED
    BY <2>6, <2>7
<1>2. ASSUME \A j \in 1..l : F!Ch(k + j - 1) = t[j], NEW j \in 1..l
      PROVE  k + j - 1 < Len(fmt)
  <2>1. t[j] \in F!Chars
    BY <1>0, ElementOfSeq
  <2>2. F!Ch(k + j - 1) # F!NUL /\ k + j - 1 \in Nat
    BY <2>1, <1>2, <1>0 DEF F!Chars, F!NUL
  <2>. QED
    BY <2>2, CharAt
<1>3. CASE F!FollowedBy(k, t)
  <2>1. k + l <= Len(fmt) /\ u = t
    BY <1>3 DEF F!FollowedBy
  <2>. QED
    BY <1>1, <1>3, <2>1 DEF Reads
<1>4. CASE \A j \in 1..l : F!Ch(k + j - 1) = t[j]
  <2>1. k + l <= Len(fmt)
    <3>1. l \in 1..l
      BY <1>0
    <3>2. k + l - 1 < Len(fmt)
      BY <3>1, <1>2, <1>4
    <3>. QED
      BY <3>2, <1>0
  <2>2. u \in Seq(F!Chars) /\ Len(u) = Len(t) /\ \A j \in 1..Len(u) : u[j] = t[j]
    BY <1>1, <1>4, <2>1
  <2>. HIDE DEF u
  <2>3. u = t
    BY <2>2, SeqEqual
  <2>. QED
    BY <2>1, <2>3, <1>4 DEF F!FollowedBy, u, Reads
<1>. QED
  BY <1>3, <1>4 DEF Reads

(* What makes a percent sign a conversion is what stands behind it.        *)
LEMMA BehindIs ==
    ASSUME fmt \in Seq(F!Chars), NEW k \in Nat
    PROVE  (\E t \in {<<"d">>, <<"s">>, <<"l", "d">>, <<"l", "l", "d">>} : F!FollowedBy(k, t)) <=> Behind(k)
<1>0. k + 1 - 1 = k /\ k + 2 - 1 = k + 1 /\ k + 3 - 1 = k + 2
  OBVIOUS
<1>1. ASSUME NEW c \in F!Chars PROVE F!FollowedBy(k, <<c>>) <=> F!Ch(k) = c
  <2>1. <<c>> \in Seq(F!Chars) /\ Len(<<c>>) = 1 /\ <<c>>[1] = c
    OBVIOUS
  <2>. DEFINE t == <<c>>
  <2>. HIDE DEF t
  <2>2. F!FollowedBy(k, t) <=> Reads(k, t)
    <3>1. t \in Seq(F!Chars) /\ Len(t) >= 1
      BY <2>1 DEF t
    <3>. QED
      BY ONLY fmt \in Seq(F!Chars), k \in Nat, <3>1, Followed
  <2>. QED
    BY <2>1, <2>2, <1>0 DEF Reads, t
<1>2. F!FollowedBy(k, <<"l", "d">>) <=> F!Ch(k) = "l" /\ F!Ch(k + 1) = "d"
  <2>. DEFINE t == <<"l", "d">>
  <2>1. t \in Seq(F!Chars) /\ Len(t) = 2 /\ t[1] = "l" /\ t[2] = "d"
    BY DEF F!Chars
  <2>. HIDE DEF t
  <2>2. F!FollowedBy(k, t) <=> Reads(k, t)
    <3>1. t \in Seq(F!Chars) /\ Len(t) >= 1
      BY <2>1
    <3>. QED
      BY ONLY fmt \in Seq(F!Chars), k \in Nat, <3>1, Followed
  <2>3. Reads(k, t) <=> F!Ch(k) = t[1] /\ F!Ch(k + 1) = t[2]
    BY <1>0, <2>1 DEF Reads
  <2>. QED
    BY <2>1, <2>2, <2>3 DEF t
<1>3. F!FollowedBy(k, <<"l", "l", "d">>) <=> F!Ch(k) = "l" /\ F!Ch(k + 1) = "l" /\ F!Ch(k + 2) = "d"
  <2>. DEFINE t == <<"l", "l", "d">>
  <2>1. t \in Seq(F!Chars) /\ Len(t) = 3 /\ t[1] = "l" /\ t[2] = "l" /\ t[3] = "d"
    BY DEF F!Chars
  <2>. HIDE DEF t
  <2>2. F!FollowedBy(k, t) <=> Reads(k, t)
    <3>1. t \in Seq(F!Chars) /\ Len(t) >= 1
      BY <2>1
    <3>. QED
      BY ONLY fmt \in Seq(F!Chars), k \in Nat, <3>1, Followed
  <2>3. Reads(k, t) <=> F!Ch(k) = t[1] /\ F!Ch(k + 1) = t[2] /\ F!Ch(k + 2) = t[3]
    BY <1>0, <2>1 DEF Reads
  <2>. QED
    BY <2>1, <2>2, <2>3 DEF t
<1>4. "d" \in F!Chars /\ "s" \in F!Chars
  BY DEF F!Chars
<1>. QED
  BY <1>1, <1>2, <1>3, <1>4 DEF Behind

(* An even number m of percent signs stands directly before position k +   *)
(* 1: the next percent sign, if there is one, starts an item.              *)
Edge(k, m) ==
    /\ m \in 0..k /\ m % 2 = 0 /\ \A j \in (k - m + 1)..k : fmt[j] = "%"
    /\ k - m >= 1 => fmt[k - m] # "%"

(* A percent sign at an edge starts an item.                               *)
LEMMA EdgeStarts ==
    ASSUME NEW k \in Nat, NEW m, Edge(k, m), k < Len(fmt), Len(fmt) \in Nat, fmt \in Seq(F!Chars), fmt[k + 1] = "%"
    PROVE  k + 1 \in F!Starts
<1>1. DOMAIN fmt = 1..Len(fmt)
  BY LenProperties
<1>2. m \in 0..((k + 1) - 1) /\ m % 2 = 0 /\ m \in Int
  BY DEF Edge
<1>3. \A j \in ((k + 1) - m)..(k + 1) : fmt[j] = "%"
  <2>. SUFFICES ASSUME NEW j \in ((k + 1) - m)..(k + 1), j # k + 1 PROVE fmt[j] = "%"
    OBVIOUS
  <2>1. j \in (k - m + 1)..k
    BY <1>2
  <2>. QED
    BY <2>1 DEF Edge
<1>4. (k + 1) - m > 1 => fmt[(k + 1) - m - 1] # "%"
  <2>1. (k + 1) - m - 1 = k - m
    BY <1>2
  <2>. QED
    BY <1>2, <2>1 DEF Edge
<1>5. k + 1 \in DOMAIN fmt
  BY <1>1
<1>. QED
  BY <1>2, <1>3, <1>4, <1>5 DEF F!Starts

(* There is an edge behind any other character,                            *)
LEMMA EdgePlain ==
    ASSUME NEW k \in Nat, k >= 1 => fmt[k] # "%"
    PROVE  \E m : Edge(k, m)
<1>1. Edge(k, 0)
  BY DEF Edge
<1>. QED
  BY <1>1

(* and behind two percent signs at an edge, of which the second starts     *)
(* nothing.                                                                *)
LEMMA EdgePair ==
    ASSUME NEW k \in Nat, NEW m, Edge(k, m), fmt[k + 1] = "%", fmt[k + 2] = "%"
    PROVE  (\E l : Edge(k + 2, l)) /\ k + 2 \notin F!Starts
<1>0. m \in 0..k /\ m \in Int /\ m % 2 = 0
  BY DEF Edge
<1>1. Edge(k + 2, m + 2)
  <2>1. m + 2 \in 0..(k + 2) /\ (m + 2) % 2 = 0
    BY <1>0
  <2>2. ASSUME NEW j \in ((k + 2) - (m + 2) + 1)..(k + 2) PROVE fmt[j] = "%"
    <3>1. j = k + 1 \/ j = k + 2 \/ j \in (k - m + 1)..k
      BY <1>0
    <3>. QED
      BY <3>1 DEF Edge
  <2>3. (k + 2) - (m + 2) = k - m
    BY <1>0
  <2>. QED
    BY <2>1, <2>2, <2>3 DEF Edge
<1>2. ASSUME k + 2 \in F!Starts PROVE FALSE
  <2>1. PICK l \in 0..((k + 2) - 1) : /\ l % 2 = 0 /\ \A j \in ((k + 2) - l)..(k + 2) : fmt[j] = "%"
                                     /\ ((k + 2) - l > 1 => fmt[(k + 2) - l - 1] # "%")
    BY <1>2 DEF F!Starts
  <2>2. l # m + 1 /\ l \in Int
    BY <2>1, <1>0
  <2>3. CASE l < m + 1
    <3>1. (k + 2) - l > 1 /\ (k + 2) - l - 1 \in (k - m + 1)..(k + 1)
      BY <2>2, <2>3, <1>0
    <3>2. fmt[(k + 2) - l - 1] = "%"
      <4>1. (k + 2) - l - 1 = k + 1 \/ (k + 2) - l - 1 \in (k - m + 1)..k
        BY <3>1, <1>0
      <4>. QED
        BY <4>1 DEF Edge
    <3>. QED
      BY <3>1, <3>2, <2>1
  <2>4. CASE l > m + 1
    <3>1. k - m \in ((k + 2) - l)..(k + 2) /\ k - m >= 1
      BY <2>1, <2>2, <2>4, <1>0
    <3>. QED
      BY <3>1, <2>1 DEF Edge
  <2>. QED
    BY <2>2, <2>3, <2>4, <1>0
<1>. QED
  BY <1>1, <1>2

(* the conversions up to position p *)
Seen(p) == {k \in F!Conversions : k <= p}

(* The item at i, step characters long, holds c conversions: none, or one  *)
(* that starts at its percent sign.                                        *)
Taken(step, c) ==
    /\ \A j \in 2..step : i + j \notin F!Conversions
    /\ i + 1 \in F!Conversions <=> c = 1

(* A conversion is a percent sign that starts an item and the letters      *)
(* behind it.                                                              *)
LEMMA ConversionIs ==
    ASSUME fmt \in Seq(F!Chars), NEW k \in Nat
    PROVE  /\ k \in F!Conversions <=> k \in F!Starts /\ Behind(k)
           /\ k \in F!Starts => fmt[k] = "%" /\ k \in 1..Len(fmt)
<1>1. k \in F!Conversions <=> k \in F!Starts /\ Behind(k)
  BY BehindIs DEF F!Conversions
<1>2. DOMAIN fmt = 1..Len(fmt)
  BY LenProperties
<1>. QED
  BY <1>1, <1>2 DEF F!Starts

(* There are finitely many, all inside the format.                         *)
LEMMA ConversionsFinite ==
    ASSUME fmt \in Seq(F!Chars), NEW p \in Nat
    PROVE  /\ F!Conversions \subseteq 1..Len(fmt)
           /\ IsFiniteSet(Seen(p)) /\ Seen(0) = {} /\ Cardinality(Seen(p)) \in Nat
           /\ Len(fmt) <= p => Seen(p) = F!Conversions
<1>1. DOMAIN fmt = 1..Len(fmt) /\ Len(fmt) \in Nat
  BY LenProperties
<1>2. F!Conversions \subseteq 1..Len(fmt)
  BY <1>1 DEF F!Conversions, F!Starts
<1>3. IsFiniteSet(1..Len(fmt))
  BY <1>1, FS_Interval
<1>4. Seen(p) \subseteq 1..Len(fmt)
  BY <1>2 DEF Seen
<1>5. IsFiniteSet(Seen(p)) /\ Cardinality(Seen(p)) \in Nat
  BY <1>3, <1>4, FS_Subset, FS_CardinalityType
<1>6. Seen(0) = {} /\ (Len(fmt) <= p => Seen(p) = F!Conversions)
  <2>. DEFINE C == F!Conversions
  <2>1. C \subseteq 1..Len(fmt) /\ \A q : Seen(q) = {k \in C : k <= q}
    BY <1>2 DEF Seen
  <2>. HIDE DEF C
  <2>2. Seen(0) = {}
    <3>1. ASSUME NEW k \in Seen(0) PROVE FALSE
      <4>1. k \in 1..Len(fmt) /\ k <= 0
        BY <2>1
      <4>. QED
        BY <4>1, <1>1
    <3>. QED
      BY <3>1
  <2>3. ASSUME Len(fmt) <= p PROVE Seen(p) = C
    <3>1. \A k \in C : k <= p
      BY <1>1, <2>1, <2>3
    <3>. QED
      BY <3>1, <2>1
  <2>. QED
    BY <2>2, <2>3 DEF C
<1>. QED
  BY <1>2, <1>5, <1>6

(* Handling an item adds its conversions to those seen.                    *)
LEMMA SeenStep ==
    ASSUME fmt \in Seq(F!Chars), i \in Nat, NEW s \in Nat, s >= 1, NEW c \in {0, 1}, Taken(s, c)
    PROVE  Cardinality(Seen(i + s)) = Cardinality(Seen(i)) + c
<1>0. F!Conversions \subseteq 1..Len(fmt) /\ Len(fmt) \in Nat /\ IsFiniteSet(Seen(i)) /\ Cardinality(Seen(i)) \in Nat
  BY ConversionsFinite, LenProperties
<1>1. ASSUME NEW k \in F!Conversions PROVE k <= i + s <=> k <= i \/ k = i + 1
  <2>0. k \in Nat
    BY <1>0
  <2>1. ASSUME k <= i + s, ~(k <= i), k # i + 1 PROVE FALSE
    <3>1. k - i \in 2..s /\ i + (k - i) = k
      BY <2>0, <2>1
    <3>. QED
      BY <3>1 DEF Taken
  <2>. QED
    BY <2>0, <2>1
<1>2. CASE c = 0
  <2>1. Seen(i + s) = Seen(i)
    BY <1>1, <1>2 DEF Seen, Taken
  <2>. QED
    BY <2>1, <1>2, <1>0
<1>3. CASE c = 1
  <2>1. i + 1 \in F!Conversions /\ i + 1 \notin Seen(i)
    BY <1>3 DEF Seen, Taken
  <2>2. Seen(i + s) = Seen(i) \cup {i + 1}
    BY <1>1, <2>1 DEF Seen
  <2>. QED
    BY <2>1, <2>2, <1>3, <1>0, FS_AddElement
<1>. QED
  BY <1>2, <1>3

(* printf() does not change its format. *)
LEMMA FormatKept ==
    ASSUME UNCHANGED fmt
    PROVE  F!Conversions' = F!Conversions
<1>1. F!Starts' = F!Starts
  BY DEF F!Starts
<1>. QED
  BY <1>1 DEF F!Conversions, F!FollowedBy

(* the indices stay within the format and its NUL *)
FType == fmt \in Seq(F!Chars) /\ i \in 0..Len(fmt) /\ read \in 0..Len(fmt)
(* what has been handled is the text up to i *)
FShown == shown \in Seq(F!Chars) /\ Len(shown) = i /\ \A j \in 1..i : shown[j] = fmt[j]
(* the loop stands at an edge: it never takes the second percent sign of a *)
(* pair for the first of an item                                           *)
FEdge == fpc = "loop" => \E m : Edge(i, m)
(* one argument for each conversion up to i *)
FArgs == args = Cardinality(Seen(i))
(* printf() returns at the end of the format only *)
FDone == fpc = "done" => i = Len(fmt)

(* the inductive invariant of the format loop *)
FInv == FType /\ FShown /\ FEdge /\ FArgs /\ FDone

(* The look-ahead stays within the string: c1 and c2 are read only if the  *)
(* character before them is not the NUL.                                   *)
LEMMA ReadWithin ==
    ASSUME FType, NEW t, NEW c, NEW s, F!Item(t, c, s)
    PROVE  read' \in 0..Len(fmt)
<1>0. Len(fmt) \in Nat /\ i \in Nat /\ fmt \in Seq(F!Chars) /\ read \in 0..Len(fmt)
  BY LenProperties DEF FType
<1>. DEFINE S == {read, i} \cup (IF F!Ch(i) = "%" THEN {i + 1} ELSE {})
                   \cup (IF F!Ch(i) = "%" /\ F!c0 # F!NUL THEN {i + 2} ELSE {})
                   \cup (IF F!Ch(i) = "%" /\ F!c1 # F!NUL THEN {i + 3} ELSE {})
<1>1. read' = F!Farthest(S)
  BY DEF F!Item
<1>2. F!Ch(i) = "%" => i < Len(fmt)
  <2>1. F!Ch(i) = "%" => F!Ch(i) # F!NUL
    BY DEF F!NUL
  <2>. QED
    BY <2>1, <1>0, CharAt
<1>3. F!c0 # F!NUL => i + 1 < Len(fmt)
  <2>1. i + 1 \in Nat
    BY <1>0
  <2>. QED
    BY <2>1, <1>0, CharAt DEF F!c0
<1>4. F!c1 # F!NUL => i + 2 < Len(fmt)
  <2>1. i + 2 \in Nat
    BY <1>0
  <2>2. F!c1 # F!NUL => F!Ch(i + 2) # F!NUL
    BY DEF F!c1
  <2>. QED
    BY <2>1, <2>2, <1>0, CharAt
<1>5. S \subseteq 0..Len(fmt) /\ S # {}
  BY <1>0, <1>2, <1>3, <1>4 DEF FType
<1>. HIDE DEF S
<1>. QED
  BY <1>0, <1>1, <1>5, FarthestIn

(* A round of the loop that handles an item as it stands in the format     *)
(* keeps FInv.                                                             *)
LEMMA ItemKeeps ==
    ASSUME FInv, fpc = "loop", NEW t \in Seq(F!Chars), NEW c \in {0, 1}, NEW s \in Nat, s >= 1,
           Len(t) = s, F!Item(t, c, s), Reads(i, t), Taken(s, c), \E m : Edge(i + s, m)
    PROVE  FInv'
<1>0. /\ Len(fmt) \in Nat /\ i \in Nat /\ fmt \in Seq(F!Chars) /\ i <= Len(fmt)
      /\ shown \in Seq(F!Chars) /\ Len(shown) = i /\ \A j \in 1..i : shown[j] = fmt[j]
  BY LenProperties DEF FInv, FType, FShown
<1>1. shown' = shown \o t /\ args' = args + c /\ i' = i + s /\ fmt' = fmt /\ fpc' = fpc
  BY DEF F!Item
<1>2. ASSUME NEW j \in 1..s PROVE i + j <= Len(fmt) /\ fmt[i + j] = t[j]
  <2>1. F!Ch(i + j - 1) = t[j] /\ t[j] \in F!Chars
    BY ElementOfSeq DEF Reads
  <2>2. F!Ch(i + j - 1) # F!NUL /\ i + j - 1 \in Nat
    BY <2>1, <1>0 DEF F!Chars, F!NUL
  <2>3. i + j - 1 < Len(fmt) /\ F!Ch(i + j - 1) = fmt[(i + j - 1) + 1]
    BY <2>2, <1>0, CharAt
  <2>4. (i + j - 1) + 1 = i + j
    BY <1>0
  <2>. QED
    BY <2>1, <2>3, <2>4, <1>0
<1>3. i + s <= Len(fmt)
  <2>1. s \in 1..s
    OBVIOUS
  <2>. QED
    BY <2>1, <1>2
<1>4. FType'
  <2>1. read' \in 0..Len(fmt)
    BY ReadWithin DEF FInv
  <2>. QED
    BY <1>0, <1>1, <1>3, <2>1 DEF FType
<1>5. FShown'
  <2>. DEFINE w == shown \o t
  <2>1. /\ w \in Seq(F!Chars) /\ Len(w) = i + s
        /\ \A j \in 1..(i + s) : w[j] = IF j <= i THEN shown[j] ELSE t[j - i]
    <3>1. /\ shown \o t \in Seq(F!Chars) /\ Len(shown \o t) = Len(shown) + Len(t)
          /\ \A j \in 1..(Len(shown) + Len(t)) :
                (shown \o t)[j] = IF j <= Len(shown) THEN shown[j] ELSE t[j - Len(shown)]
      BY ONLY <1>0, t \in Seq(F!Chars), ConcatProperties
    <3>2. Len(shown) = i /\ Len(t) = s
      BY <1>0
    <3>. HIDE DEF w
    <3>. QED
      BY <3>1, <3>2 DEF w
  <2>. HIDE DEF w
  <2>2. ASSUME NEW j \in 1..(i + s) PROVE w[j] = fmt[j]
    <3>1. CASE j <= i
      BY <3>1, <2>1, <1>0
    <3>2. CASE ~(j <= i)
      <4>1. j - i \in 1..s /\ i + (j - i) = j
        BY <3>2, <1>0
      <4>2. fmt[i + (j - i)] = t[j - i]
        BY <4>1, <1>2
      <4>. QED
        BY <4>1, <4>2, <3>2, <2>1
    <3>. QED
      BY <3>1, <3>2
  <2>3. shown' = w
    BY <1>1 DEF w
  <2>. QED
    BY <2>1, <2>2, <2>3, <1>1 DEF FShown
<1>6. FEdge'
  <2>1. PICK m : Edge(i + s, m)
    OBVIOUS
  <2>2. Edge(i, m)'
    BY <2>1, <1>1 DEF Edge
  <2>. QED
    BY <2>2 DEF FEdge
<1>7. FArgs'
  <2>1. args = Cardinality(Seen(i))
    BY DEF FInv, FArgs
  <2>2. Cardinality(Seen(i + s)) = Cardinality(Seen(i)) + c
    BY <1>0, SeenStep
  <2>3. Seen(i)' = Seen(i + s)
    BY <1>1, FormatKept DEF Seen
  <2>. QED
    BY <2>1, <2>2, <2>3, <1>1 DEF FArgs
<1>8. FDone'
  BY <1>1 DEF FDone
<1>. QED
  BY <1>4, <1>5, <1>6, <1>7, <1>8 DEF FInv

(* What the guards of the conversions' actions say about the format.       *)
LEMMA AtPercent ==
    ASSUME FInv, fpc = "loop", F!Ch(i) = "%", F!c0 # F!NUL
    PROVE  /\ fmt \in Seq(F!Chars) /\ i \in Nat /\ i + 1 \in Nat /\ i + 2 \in Nat /\ i + 3 \in Nat
           /\ Len(fmt) \in Nat /\ i + 2 <= Len(fmt)
           /\ fmt[i + 1] = "%" /\ fmt[i + 2] = F!c0 /\ F!Ch(i + 1) = F!c0
           /\ F!c1 = F!Ch(i + 2)
           /\ F!c1 # F!NUL => fmt[i + 3] = F!c1 /\ F!c2 = F!Ch(i + 3)
           /\ F!c1 # F!NUL /\ F!c2 # F!NUL => fmt[i + 4] = F!c2
           /\ i + 1 \in F!Starts
           /\ i + 1 \in F!Conversions <=> Behind(i + 1)
           /\ \A k \in Nat : k \in F!Conversions => fmt[k] = "%"
           /\ \E m : Edge(i, m)
<1>1. fmt \in Seq(F!Chars) /\ i \in Nat /\ Len(fmt) \in Nat /\ \E m : Edge(i, m)
  BY LenProperties DEF FInv, FType, FEdge
<1>2. i + 1 \in Nat /\ i + 2 \in Nat /\ i + 3 \in Nat /\ (i + 1) + 1 = i + 2 /\ (i + 2) + 1 = i + 3
      /\ (i + 3) + 1 = i + 4
  BY <1>1
<1>3. i < Len(fmt) /\ fmt[i + 1] = "%"
  <2>1. F!Ch(i) # F!NUL
    BY DEF F!NUL
  <2>. QED
    BY <2>1, <1>1, CharAt
<1>4. F!c0 = F!Ch(i + 1)
  BY DEF F!c0
<1>5. i + 1 < Len(fmt) /\ fmt[i + 2] = F!c0
  <2>1. i + 1 < Len(fmt) /\ F!Ch(i + 1) = fmt[(i + 1) + 1]
    BY <1>1, <1>2, <1>4, CharAt
  <2>. QED
    BY <2>1, <1>2, <1>4
<1>6. F!c1 = F!Ch(i + 2)
  BY DEF F!c1
<1>7. F!c1 # F!NUL => fmt[i + 3] = F!c1 /\ F!c2 = F!Ch(i + 3)
  <2>1. F!Ch(i + 2) # F!NUL => F!Ch(i + 2) = fmt[(i + 2) + 1]
    BY <1>1, <1>2, CharAt
  <2>. QED
    BY <2>1, <1>2, <1>6 DEF F!c2
<1>8. F!c1 # F!NUL /\ F!c2 # F!NUL => fmt[i + 4] = F!c2
  <2>1. F!Ch(i + 3) # F!NUL => F!Ch(i + 3) = fmt[(i + 3) + 1]
    BY <1>1, <1>2, CharAt
  <2>. QED
    BY <2>1, <1>2, <1>7
<1>9. i + 1 \in F!Starts
  <2>1. PICK m : Edge(i, m)
    BY <1>1
  <2>. QED
    BY <2>1, <1>1, <1>3, EdgeStarts
<1>10. i + 1 \in F!Conversions <=> Behind(i + 1)
  BY <1>1, <1>2, <1>9, ConversionIs
<1>11. \A k \in Nat : k \in F!Conversions => fmt[k] = "%"
  BY <1>1, ConversionIs
<1>12. i + 2 <= Len(fmt)
  BY <1>1, <1>5
<1>. QED
  BY <1>1, <1>2, <1>3, <1>4, <1>5, <1>6, <1>7, <1>8, <1>9, <1>10, <1>11, <1>12

(* The rounds of the loop keep FInv: a character that is printed,          *)
LEMMA FPlain ==
    ASSUME FInv, F!Plain
    PROVE  FInv'
<1>1. fpc = "loop" /\ F!Ch(i) \notin {"%", F!NUL} /\ F!Item(<<F!Ch(i)>>, 0, 1)
  BY DEF F!Plain
<1>2. fmt \in Seq(F!Chars) /\ i \in Nat /\ i + 1 \in Nat /\ Len(fmt) \in Nat
  BY LenProperties DEF FInv, FType
<1>3. i < Len(fmt) /\ fmt[i + 1] = F!Ch(i) /\ fmt[i + 1] # "%"
  BY <1>1, <1>2, CharAt
<1>4. i + 1 \notin F!Conversions
  BY <1>2, <1>3, ConversionIs
<1>5. \E m : Edge(i + 1, m)
  BY <1>2, <1>3, EdgePlain
<1>6. Taken(1, 0)
  BY <1>4, <1>2 DEF Taken
<1>. DEFINE t == <<F!Ch(i)>>
<1>7. t \in Seq(F!Chars) /\ Len(t) = 1 /\ Reads(i, t)
  <2>1. F!Ch(i) \in F!Chars
    BY <1>2, <1>3, ElementOfSeq
  <2>2. i + 1 - 1 = i
    BY <1>2
  <2>. QED
    BY <2>1, <2>2 DEF Reads
<1>8. F!Item(t, 0, 1) /\ 0 \in {0, 1} /\ 1 \in Nat /\ 1 >= 1
  BY <1>1
<1>. HIDE DEF t
<1>. QED
  BY <1>1, <1>5, <1>6, <1>7, <1>8, ItemKeeps

(* %d, %u and %x, *)
LEMMA FNumber ==
    ASSUME FInv, F!Number
    PROVE  FInv'
<1>1. fpc = "loop" /\ F!Ch(i) = "%" /\ F!c0 = "d"
      /\ F!Item(<<"%", "d">>, 1, 2)
  BY DEF F!Number, F!At
<1>2. F!c0 # F!NUL
  BY <1>1 DEF F!NUL
<1>3. /\ i \in Nat /\ i + 2 \in Nat
      /\ fmt[i + 2] # "%"
      /\ F!Ch(i) = "%" /\ F!Ch(i + 1) = "d"
  BY <1>1, <1>2, AtPercent
<1>4. i + 1 \in F!Conversions
  <2>1. (i + 1) + 1 = i + 2 /\ (i + 1) + 2 = i + 3
    BY <1>3
  <2>2. Behind(i + 1)
    BY <1>3, <2>1 DEF Behind
  <2>. QED
    BY <1>1, <1>2, <2>2, AtPercent
<1>5. Taken(2, 1)
  <2>1. ASSUME NEW j \in 2..2 PROVE i + j \notin F!Conversions
    <3>1. i + j \in Nat /\ fmt[i + j] # "%"
      BY <1>3
    <3>. QED
      BY <3>1, <1>1, <1>2, AtPercent
  <2>. QED
    BY <2>1, <1>4 DEF Taken
<1>6. \E m : Edge(i + 2, m)
  BY <1>3, EdgePlain
<1>. DEFINE t == <<"%", "d">>
<1>7. t \in Seq(F!Chars) /\ Len(t) = 2 /\ t[1] = "%" /\ t[2] = "d"
  BY DEF F!Chars
<1>8. F!Item(t, 1, 2)
  BY <1>1
<1>. HIDE DEF t
<1>9. Reads(i, t)
  <2>1. i + 1 - 1 = i /\ i + 2 - 1 = i + 1 /\ i + 3 - 1 = i + 2 /\ i + 4 - 1 = i + 3
    BY <1>3
  <2>. QED
    BY <2>1, <1>3, <1>7 DEF Reads
<1>10. 1 \in {0, 1} /\ 2 \in Nat /\ 2 >= 1
  OBVIOUS
<1>. QED
  BY <1>1, <1>5, <1>6, <1>7, <1>8, <1>9, <1>10, ItemKeeps

(* %ld, %lu and %lx, *)
LEMMA FLong ==
    ASSUME FInv, F!Long
    PROVE  FInv'
<1>1. fpc = "loop" /\ F!Ch(i) = "%" /\ F!c0 = "l" /\ F!c1 = "d"
      /\ F!Item(<<"%", "l", "d">>, 1, 3)
  BY DEF F!Long, F!At
<1>2. F!c0 # F!NUL /\ F!c1 # F!NUL
  BY <1>1 DEF F!NUL
<1>3. /\ i \in Nat /\ i + 3 \in Nat
      /\ fmt[i + 2] # "%" /\ fmt[i + 3] # "%"
      /\ F!Ch(i) = "%" /\ F!Ch(i + 1) = "l" /\ F!Ch(i + 2) = "d"
  BY <1>1, <1>2, AtPercent
<1>4. i + 1 \in F!Conversions
  <2>1. (i + 1) + 1 = i + 2 /\ (i + 1) + 2 = i + 3
    BY <1>3
  <2>2. Behind(i + 1)
    BY <1>3, <2>1 DEF Behind
  <2>. QED
    BY <1>1, <1>2, <2>2, AtPercent
<1>5. Taken(3, 1)
  <2>1. ASSUME NEW j \in 2..3 PROVE i + j \notin F!Conversions
    <3>1. i + j \in Nat /\ fmt[i + j] # "%"
      BY <1>3
    <3>. QED
      BY <3>1, <1>1, <1>2, AtPercent
  <2>. QED
    BY <2>1, <1>4 DEF Taken
<1>6. \E m : Edge(i + 3, m)
  BY <1>3, EdgePlain
<1>. DEFINE t == <<"%", "l", "d">>
<1>7. t \in Seq(F!Chars) /\ Len(t) = 3 /\ t[1] = "%" /\ t[2] = "l" /\ t[3] = "d"
  BY DEF F!Chars
<1>8. F!Item(t, 1, 3)
  BY <1>1
<1>. HIDE DEF t
<1>9. Reads(i, t)
  <2>1. i + 1 - 1 = i /\ i + 2 - 1 = i + 1 /\ i + 3 - 1 = i + 2 /\ i + 4 - 1 = i + 3
    BY <1>3
  <2>. QED
    BY <2>1, <1>3, <1>7 DEF Reads
<1>10. 1 \in {0, 1} /\ 3 \in Nat /\ 3 >= 1
  OBVIOUS
<1>. QED
  BY <1>1, <1>5, <1>6, <1>7, <1>8, <1>9, <1>10, ItemKeeps

(* %lld, %llu and %llx, *)
LEMMA FLongLong ==
    ASSUME FInv, F!LongLong
    PROVE  FInv'
<1>1. fpc = "loop" /\ F!Ch(i) = "%" /\ F!c0 = "l" /\ F!c1 = "l" /\ F!c2 = "d"
      /\ F!Item(<<"%", "l", "l", "d">>, 1, 4)
  BY DEF F!LongLong, F!At
<1>2. F!c0 # F!NUL /\ F!c1 # F!NUL /\ F!c2 # F!NUL
  BY <1>1 DEF F!NUL
<1>3. /\ i \in Nat /\ i + 4 \in Nat
      /\ fmt[i + 2] # "%" /\ fmt[i + 3] # "%" /\ fmt[i + 4] # "%"
      /\ F!Ch(i) = "%" /\ F!Ch(i + 1) = "l" /\ F!Ch(i + 2) = "l" /\ F!Ch(i + 3) = "d"
  BY <1>1, <1>2, AtPercent
<1>4. i + 1 \in F!Conversions
  <2>1. (i + 1) + 1 = i + 2 /\ (i + 1) + 2 = i + 3
    BY <1>3
  <2>2. Behind(i + 1)
    BY <1>3, <2>1 DEF Behind
  <2>. QED
    BY <1>1, <1>2, <2>2, AtPercent
<1>5. Taken(4, 1)
  <2>1. ASSUME NEW j \in 2..4 PROVE i + j \notin F!Conversions
    <3>1. i + j \in Nat /\ fmt[i + j] # "%"
      BY <1>3
    <3>. QED
      BY <3>1, <1>1, <1>2, AtPercent
  <2>. QED
    BY <2>1, <1>4 DEF Taken
<1>6. \E m : Edge(i + 4, m)
  BY <1>3, EdgePlain
<1>. DEFINE t == <<"%", "l", "l", "d">>
<1>7. t \in Seq(F!Chars) /\ Len(t) = 4 /\ t[1] = "%" /\ t[2] = "l" /\ t[3] = "l" /\ t[4] = "d"
  BY DEF F!Chars
<1>8. F!Item(t, 1, 4)
  BY <1>1
<1>. HIDE DEF t
<1>9. Reads(i, t)
  <2>1. i + 1 - 1 = i /\ i + 2 - 1 = i + 1 /\ i + 3 - 1 = i + 2 /\ i + 4 - 1 = i + 3
    BY <1>3
  <2>. QED
    BY <2>1, <1>3, <1>7 DEF Reads
<1>10. 1 \in {0, 1} /\ 4 \in Nat /\ 4 >= 1
  OBVIOUS
<1>. QED
  BY <1>1, <1>5, <1>6, <1>7, <1>8, <1>9, <1>10, ItemKeeps

(* %s, %c and %p, *)
LEMMA FSimple ==
    ASSUME FInv, F!Simple
    PROVE  FInv'
<1>1. fpc = "loop" /\ F!Ch(i) = "%" /\ F!c0 = "s"
      /\ F!Item(<<"%", "s">>, 1, 2)
  BY DEF F!Simple, F!At
<1>2. F!c0 # F!NUL
  BY <1>1 DEF F!NUL
<1>3. /\ i \in Nat /\ i + 2 \in Nat
      /\ fmt[i + 2] # "%"
      /\ F!Ch(i) = "%" /\ F!Ch(i + 1) = "s"
  BY <1>1, <1>2, AtPercent
<1>4. i + 1 \in F!Conversions
  <2>1. (i + 1) + 1 = i + 2 /\ (i + 1) + 2 = i + 3
    BY <1>3
  <2>2. Behind(i + 1)
    BY <1>3, <2>1 DEF Behind
  <2>. QED
    BY <1>1, <1>2, <2>2, AtPercent
<1>5. Taken(2, 1)
  <2>1. ASSUME NEW j \in 2..2 PROVE i + j \notin F!Conversions
    <3>1. i + j \in Nat /\ fmt[i + j] # "%"
      BY <1>3
    <3>. QED
      BY <3>1, <1>1, <1>2, AtPercent
  <2>. QED
    BY <2>1, <1>4 DEF Taken
<1>6. \E m : Edge(i + 2, m)
  BY <1>3, EdgePlain
<1>. DEFINE t == <<"%", "s">>
<1>7. t \in Seq(F!Chars) /\ Len(t) = 2 /\ t[1] = "%" /\ t[2] = "s"
  BY DEF F!Chars
<1>8. F!Item(t, 1, 2)
  BY <1>1
<1>. HIDE DEF t
<1>9. Reads(i, t)
  <2>1. i + 1 - 1 = i /\ i + 2 - 1 = i + 1 /\ i + 3 - 1 = i + 2 /\ i + 4 - 1 = i + 3
    BY <1>3
  <2>. QED
    BY <2>1, <1>3, <1>7 DEF Reads
<1>10. 1 \in {0, 1} /\ 2 \in Nat /\ 2 >= 1
  OBVIOUS
<1>. QED
  BY <1>1, <1>5, <1>6, <1>7, <1>8, <1>9, <1>10, ItemKeeps

(* %%, *)
LEMMA FPercent ==
    ASSUME FInv, F!Percent
    PROVE  FInv'
<1>1. fpc = "loop" /\ F!Ch(i) = "%" /\ F!c0 = "%" /\ F!Item(<<"%", "%">>, 0, 2)
  BY DEF F!Percent, F!At
<1>2. F!c0 # F!NUL
  BY <1>1 DEF F!NUL
<1>3. /\ i \in Nat /\ i + 1 \in Nat /\ i + 2 \in Nat /\ fmt \in Seq(F!Chars)
      /\ fmt[i + 1] = "%" /\ fmt[i + 2] = "%"
      /\ F!Ch(i) = "%" /\ F!Ch(i + 1) = "%"
      /\ i + 1 \in F!Conversions <=> Behind(i + 1)
  BY <1>1, <1>2, AtPercent
<1>4. PICK m : Edge(i, m)
  BY <1>1, <1>2, AtPercent
<1>5. (\E l : Edge(i + 2, l)) /\ i + 2 \notin F!Starts
  BY <1>3, <1>4, EdgePair
<1>6. i + 1 \notin F!Conversions
  BY <1>3 DEF Behind
<1>7. Taken(2, 0)
  <2>1. i + 2 \notin F!Conversions
    BY <1>3, <1>5, ConversionIs
  <2>2. \A j \in 2..2 : j = 2
    OBVIOUS
  <2>. QED
    BY <2>1, <2>2, <1>6 DEF Taken
<1>. DEFINE t == <<"%", "%">>
<1>8. t \in Seq(F!Chars) /\ Len(t) = 2 /\ t[1] = "%" /\ t[2] = "%"
  BY DEF F!Chars
<1>9. F!Item(t, 0, 2)
  BY <1>1
<1>. HIDE DEF t
<1>10. Reads(i, t)
  <2>1. i + 1 - 1 = i /\ i + 2 - 1 = i + 1
    BY <1>3
  <2>. QED
    BY <2>1, <1>3, <1>8 DEF Reads
<1>11. 0 \in {0, 1} /\ 2 \in Nat /\ 2 >= 1
  OBVIOUS
<1>. QED
  BY <1>1, <1>5, <1>7, <1>8, <1>9, <1>10, <1>11, ItemKeeps

(* an unknown conversion, which is printed, *)
LEMMA FUnknown ==
    ASSUME FInv, F!Unknown
    PROVE  FInv'
<1>1. /\ fpc = "loop" /\ F!Ch(i) = "%" /\ F!Item(<<"%", F!c0>>, 0, 2)
      /\ F!c0 = "z" \/ (F!c0 = "l" /\ F!c1 # "d" /\ ~(F!c1 = "l" /\ F!c2 = "d"))
  BY DEF F!Unknown, F!At
<1>2. F!c0 # F!NUL /\ F!c0 # "%"
  BY <1>1 DEF F!NUL
<1>3. /\ i \in Nat /\ i + 1 \in Nat /\ i + 2 \in Nat /\ fmt \in Seq(F!Chars)
      /\ fmt[i + 1] = "%" /\ fmt[i + 2] = F!c0 /\ fmt[i + 2] # "%"
      /\ F!Ch(i) = "%" /\ F!Ch(i + 1) = F!c0
      /\ F!c1 = F!Ch(i + 2) /\ (F!c1 # F!NUL => F!c2 = F!Ch(i + 3))
      /\ i + 1 \in F!Conversions <=> Behind(i + 1)
  BY <1>1, <1>2, AtPercent
<1>4. i + 1 \notin F!Conversions
  <2>1. (i + 1) + 1 = i + 2 /\ (i + 1) + 2 = i + 3
    BY <1>3
  <2>2. F!c1 = "l" => F!c2 = F!Ch(i + 3)
    BY <1>3 DEF F!NUL
  <2>3. ~Behind(i + 1)
    BY <1>1, <1>3, <2>1, <2>2 DEF Behind
  <2>. QED
    BY <1>3, <2>3
<1>5. Taken(2, 0)
  <2>1. i + 2 \notin F!Conversions
    BY <1>3, ConversionIs
  <2>2. \A j \in 2..2 : j = 2
    OBVIOUS
  <2>. QED
    BY <2>1, <2>2, <1>4 DEF Taken
<1>6. \E m : Edge(i + 2, m)
  BY <1>3, EdgePlain
<1>. DEFINE t == <<"%", F!c0>>
<1>7. t \in Seq(F!Chars) /\ Len(t) = 2 /\ t[1] = "%" /\ t[2] = F!c0
  <2>1. F!c0 \in F!Chars /\ "%" \in F!Chars
    BY <1>1 DEF F!Chars
  <2>. QED
    BY <2>1
<1>8. F!Item(t, 0, 2)
  BY <1>1
<1>. HIDE DEF t
<1>9. Reads(i, t)
  <2>1. i + 1 - 1 = i /\ i + 2 - 1 = i + 1
    BY <1>3
  <2>. QED
    BY <2>1, <1>3, <1>7 DEF Reads
<1>10. 0 \in {0, 1} /\ 2 \in Nat /\ 2 >= 1
  OBVIOUS
<1>. QED
  BY <1>1, <1>5, <1>6, <1>7, <1>8, <1>9, <1>10, ItemKeeps

(* a percent sign at the end, *)
LEMMA FDangling ==
    ASSUME FInv, F!Dangling
    PROVE  FInv'
<1>1. /\ fpc = "loop" /\ F!Ch(i) = "%" /\ F!c0 = F!NUL
      /\ fpc' = "done" /\ i' = i + 1 /\ shown' = Append(shown, "%")
      /\ read' = F!Farthest({read, i + 1}) /\ fmt' = fmt /\ args' = args
  BY DEF F!Dangling, F!At
<1>2. /\ Len(fmt) \in Nat /\ i \in Nat /\ fmt \in Seq(F!Chars) /\ i + 1 \in Nat /\ read \in 0..Len(fmt)
      /\ shown \in Seq(F!Chars) /\ Len(shown) = i /\ \A j \in 1..i : shown[j] = fmt[j]
  BY LenProperties DEF FInv, FType, FShown
<1>3. i + 1 = Len(fmt) /\ fmt[i + 1] = "%"
  <2>1. F!Ch(i) # F!NUL /\ F!Ch(i + 1) = F!NUL
    BY <1>1 DEF F!NUL, F!c0
  <2>2. i < Len(fmt) /\ fmt[i + 1] = "%"
    BY <2>1, <1>1, <1>2, CharAt
  <2>3. i + 1 >= Len(fmt)
    BY <2>1, <1>2, CharAt
  <2>. QED
    BY <2>2, <2>3, <1>2
<1>4. FType'
  <2>1. {read, i + 1} \subseteq 0..Len(fmt) /\ {read, i + 1} # {}
    BY <1>2, <1>3
  <2>2. F!Farthest({read, i + 1}) \in {read, i + 1}
    BY <2>1, <1>2, FarthestIn
  <2>3. read' \in 0..Len(fmt)
    BY <2>1, <2>2, <1>1
  <2>4. i' \in 0..Len(fmt)
    BY <1>1, <1>2, <1>3
  <2>. QED
    BY <2>3, <2>4, <1>1, <1>2 DEF FType
<1>5. FShown'
  <2>. DEFINE w == Append(shown, "%")
  <2>1. /\ w \in Seq(F!Chars) /\ Len(w) = i + 1 /\ w[i + 1] = "%"
        /\ \A j \in 1..i : w[j] = shown[j]
    <3>1. "%" \in F!Chars
      BY DEF F!Chars
    <3>. QED
      BY <3>1, <1>2, AppendProperties
  <2>. HIDE DEF w
  <2>2. ASSUME NEW j \in 1..(i + 1) PROVE w[j] = fmt[j]
    <3>1. j = i + 1 \/ j \in 1..i
      BY <1>2
    <3>. QED
      BY <3>1, <2>1, <1>2, <1>3
  <2>3. shown' = w
    BY <1>1 DEF w
  <2>. QED
    BY <2>1, <2>2, <2>3, <1>1 DEF FShown
<1>6. FEdge'
  BY <1>1 DEF FEdge
<1>7. FArgs'
  <2>1. i + 1 \notin F!Conversions
    <3>1. ~Behind(i + 1)
      BY <1>1 DEF Behind, F!c0, F!NUL
    <3>. QED
      BY <3>1, <1>2, ConversionIs
  <2>2. Taken(1, 0)
    BY <2>1 DEF Taken
  <2>3. Cardinality(Seen(i + 1)) = Cardinality(Seen(i)) + 0
    <3>1. 1 \in Nat /\ 1 >= 1 /\ 0 \in {0, 1}
      OBVIOUS
    <3>. QED
      BY <3>1, <2>2, <1>2, SeenStep
  <2>4. Seen(i)' = Seen(i + 1)
    BY <1>1, FormatKept DEF Seen
  <2>5. Cardinality(Seen(i)) \in Nat
    BY <1>2, ConversionsFinite
  <2>. QED
    BY <2>3, <2>4, <2>5, <1>1 DEF FInv, FArgs
<1>8. FDone'
  BY <1>1, <1>3 DEF FDone
<1>. QED
  BY <1>4, <1>5, <1>6, <1>7, <1>8 DEF FInv

(* and the end of the format. *)
LEMMA FEnd ==
    ASSUME FInv, F!End
    PROVE  FInv'
<1>1. /\ fpc = "loop" /\ F!Ch(i) = F!NUL /\ fpc' = "done"
      /\ read' = F!Farthest({read, i}) /\ fmt' = fmt /\ i' = i /\ args' = args /\ shown' = shown
  BY DEF F!End, F!At
<1>2. Len(fmt) \in Nat /\ i \in 0..Len(fmt) /\ i \in Nat /\ fmt \in Seq(F!Chars) /\ read \in 0..Len(fmt)
  BY LenProperties DEF FInv, FType
<1>3. i = Len(fmt)
  BY <1>1, <1>2, CharAt
<1>4. FType'
  <2>1. {read, i} \subseteq 0..Len(fmt) /\ {read, i} # {}
    BY <1>2
  <2>2. F!Farthest({read, i}) \in {read, i}
    BY <2>1, <1>2, FarthestIn
  <2>. QED
    BY <2>1, <2>2, <1>1, <1>2 DEF FType
<1>5. FShown' /\ FEdge' /\ FDone'
  BY <1>1, <1>3 DEF FInv, FShown, FEdge, FDone
<1>6. FArgs'
  <2>1. Seen(i)' = Seen(i)
    BY <1>1, FormatKept DEF Seen
  <2>. QED
    BY <2>1, <1>1 DEF FInv, FArgs
<1>. QED
  BY <1>4, <1>5, <1>6 DEF FInv

(* The other units leave it alone.                                         *)
LEMMA FInvStays ==
    ASSUME FInv, UNCHANGED fVars
    PROVE  FInv'
<1>1. fmt' = fmt /\ i' = i /\ read' = read /\ args' = args /\ shown' = shown /\ fpc' = fpc
  BY DEF fVars
<1>2. Seen(i)' = Seen(i)
  BY <1>1, FormatKept DEF Seen
<1>3. FType' /\ FShown' /\ FDone'
  BY <1>1 DEF FInv, FType, FShown, FDone
<1>4. FEdge'
  BY <1>1 DEF FInv, FEdge, Edge
<1>5. FArgs'
  BY <1>1, <1>2 DEF FInv, FArgs
<1>. QED
  BY <1>3, <1>4, <1>5 DEF FInv

(* It holds when printf() is called.                                       *)
LEMMA FInvInit == MCInit => FInv
<1>. SUFFICES ASSUME MCInit PROVE FInv
  OBVIOUS
<1>1. /\ i = 0 /\ read = 0 /\ args = 0 /\ shown = <<>> /\ fpc # "done"
      /\ fmt = <<>> \/ fmt \in UNION {[1..k -> F!Chars] : k \in 0..MaxLen}
  BY DEF MCInit, FormatIdle, F!Init
<1>2. fmt \in Seq(F!Chars)
  <2>1. ASSUME NEW k \in 0..MaxLen, fmt \in [1..k -> F!Chars] PROVE fmt \in Seq(F!Chars)
    <3>1. k \in Nat
      BY DEF MCConsoleAssumption
    <3>. QED
      BY <2>1, <3>1, SeqDef
  <2>2. CASE fmt = <<>>
    BY <2>2, EmptySeq
  <2>3. CASE fmt # <<>>
    <3>1. fmt \in UNION {[1..k -> F!Chars] : k \in 0..MaxLen}
      BY <2>3, <1>1
    <3>2. PICK k \in 0..MaxLen : fmt \in [1..k -> F!Chars]
      BY <3>1
    <3>. QED
      BY <3>2, <2>1
  <2>. QED
    BY <2>2, <2>3
<1>3. Len(fmt) \in Nat
  BY <1>2, LenProperties
<1>4. FType
  BY <1>1, <1>2, <1>3 DEF FType
<1>5. FShown
  BY <1>1 DEF FShown
<1>6. FEdge
  <2>1. \E m : Edge(0, m)
    BY EdgePlain
  <2>. QED
    BY <1>1, <2>1 DEF FEdge
<1>7. FArgs
  <2>1. Seen(0) = {}
    BY <1>2, ConversionsFinite
  <2>. QED
    BY <2>1, <1>1, FS_EmptySet DEF FArgs
<1>8. FDone
  BY <1>1 DEF FDone
<1>. QED
  BY <1>4, <1>5, <1>6, <1>7, <1>8 DEF FInv

(* So every step keeps FInv.                                               *)
LEMMA FInvNext == FInv /\ [MCNext]_mcVars => FInv'
<1>. SUFFICES ASSUME FInv, [MCNext]_mcVars PROVE FInv'
  OBVIOUS
<1>1. CASE F!Next
  BY <1>1, FPlain, FNumber, FLong, FLongLong, FSimple, FPercent, FUnknown, FDangling, FEnd DEF F!Next
<1>2. CASE UNCHANGED fVars
  BY <1>2, FInvStays
<1>3. F!Next \/ UNCHANGED fVars
  <2>1. CASE ConsoleUnit(Next)
    BY <2>1 DEF ConsoleUnit, Unit, fVars
  <2>2. CASE NumberUnit
    BY <2>2 DEF NumberUnit, Unit, fVars
  <2>3. CASE FormatUnit
    BY <2>3 DEF FormatUnit, Unit
  <2>5. CASE Rest
    BY <2>5 DEF Rest, mcVars, fVars
  <2>6. CASE UNCHANGED mcVars
    BY <2>6 DEF mcVars, fVars
  <2>. QED
    BY <2>1, <2>2, <2>3, <2>5, <2>6 DEF MCNext
<1>. QED
  BY <1>1, <1>2, <1>3

(* What FInv says about a call.                                            *)
LEMMA FFollowed ==
    ASSUME FInv
    PROVE  FormatFollowed
<1>1. /\ Len(fmt) \in Nat /\ i \in Nat /\ i <= Len(fmt) /\ fmt \in Seq(F!Chars) /\ read \in 0..Len(fmt)
      /\ shown \in Seq(F!Chars) /\ Len(shown) = i /\ \A j \in 1..i : shown[j] = fmt[j]
  BY LenProperties DEF FInv, FType, FShown
<1>2. F!WithinString
  BY <1>1 DEF F!WithinString
<1>3. F!TextAccounted
  <2>. DEFINE w == SubSeq(fmt, 1, i)
  <2>1. \A j \in 1..i : fmt[j] \in F!Chars
    BY <1>1, ElementOfSeq
  <2>2. 1 \in Int /\ i \in Int /\ (IF 1 <= i THEN i - 1 + 1 ELSE 0) = i
    BY <1>1
  <2>3. w \in Seq(F!Chars) /\ Len(w) = i /\ \A j \in 1..i : w[j] = fmt[1 + j - 1]
    BY <2>1, <2>2, <1>1, SubSeqProperties
  <2>. HIDE DEF w
  <2>4. \A j \in 1..i : w[j] = fmt[j]
    <3>1. ASSUME NEW j \in 1..i PROVE 1 + j - 1 = j
      BY <1>1
    <3>. QED
      BY <3>1, <2>3
  <2>5. Len(shown) = Len(w) /\ \A j \in 1..Len(shown) : shown[j] = w[j]
    BY <2>3, <2>4, <1>1
  <2>6. shown = w
    BY <2>3, <2>5, <1>1, SeqEqual
  <2>. QED
    BY <2>6, <1>1 DEF F!TextAccounted, w
<1>4. F!ArgsMatchFormat
  <2>1. Seen(Len(fmt)) = F!Conversions
    BY <1>1, ConversionsFinite
  <2>2. args = Cardinality(Seen(i)) /\ (fpc = "done" => i = Len(fmt))
    BY DEF FInv, FArgs, FDone
  <2>3. fpc = "done" => args = Cardinality(F!Conversions)
    BY <2>1, <2>2
  <2>4. F!Cardinality(F!Conversions) = Cardinality(F!Conversions)
    BY Zenon DEF F!Cardinality, Cardinality
  <2>. QED
    BY <2>3, <2>4 DEF F!ArgsMatchFormat
<1>. QED
  BY <1>2, <1>3, <1>4 DEF FormatFollowed

(* printf() looks at nothing behind the format's NUL, handles each of its  *)
(* characters once, and fetches one argument for each conversion: for      *)
(* every format string of any length.                                      *)
THEOREM FormatWalk == MCSpec => []FormatFollowed
<1>1. FInv => FormatFollowed
  BY FFollowed
<1>. QED
  BY <1>1, FInvInit, FInvNext, PTL DEF MCSpec
=============================================================================

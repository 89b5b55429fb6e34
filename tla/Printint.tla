------------------------------ MODULE Printint ------------------------------
(***************************************************************************)
(* printint() and printptr() of kernel/printf.c on the argument register   *)
(* of one conversion: what va_arg makes of it, the sign, the division loop *)
(* that fills buf[] from the least digit up, and the loop that prints it   *)
(* backwards.  long long has LL values and int has INT (2^64 and 2^32), so *)
(* the one overflow in C, -xx for the most negative xx, wraps as the       *)
(* machine's neg does.                                                     *)
(***************************************************************************)
EXTENDS Integers, Sequences

CONSTANTS LL, INT,     \* how many values the types have
          Nibbles,     \* sizeof(uint64) * 2
          BufSize,     \* of buf[]
          Raws         \* the contents of the argument register

Power(b, e) ==
    LET p[k \in 0..e] == IF k = 0 THEN 1 ELSE b * p[k - 1]
    IN  p[e]

(* 16 digits of four bits make a uint64, 20 decimal digits hold any of     *)
(* them, and 19 the magnitude of any long long: 2^63 < 10^19               *)
PrintintConstants ==
    /\ LL \in Nat /\ INT \in Nat /\ INT > 1 /\ INT <= LL /\ LL % INT = 0 /\ LL % 2 = 0
    /\ Nibbles \in Nat /\ LL = Power(16, Nibbles)
    /\ BufSize \in Nat \ {0} /\ LL <= Power(10, BufSize) /\ LL \div 2 < Power(10, BufSize - 1)
    /\ Raws \subseteq 0..(LL - 1)

(* the characters that are not digits *)
Dash == -1
OX == -2

Conversions == {"d", "u", "x", "ld", "lu", "lx", "p"}

VARIABLES conv, raw,    \* the conversion and its argument
          x, neg,       \* printint's x, and sign once it is tested
          buf,          \* buf[0..i-1]
          n,            \* printptr's i
          out, pc

vars == <<conv, raw, x, neg, buf, n, out, pc>>

Base == IF conv \in {"x", "lx"} THEN 16 ELSE 10

Signed(v, m) == IF v >= m \div 2 THEN v - m ELSE v

(* mutant: %u and %x read the whole register *)
ArgumentWide ==
    IF conv = "d" THEN Signed(raw % INT, INT) ELSE Signed(raw, LL)

(* the parameter xx: va_arg's type, converted to long long *)
Argument ==
    CASE conv = "d" -> Signed(raw % INT, INT)
      [] conv \in {"u", "x"} -> raw % INT
      [] OTHER -> Signed(raw, LL)

Init ==
    /\ conv \in Conversions /\ raw \in Raws
    /\ x = 0 /\ neg = FALSE /\ buf = <<>> /\ n = 0 /\ out = <<>> /\ pc = "start"

Start ==
    /\ pc = "start" /\ conv # "p"
    /\ neg' = (conv \in {"d", "ld"} /\ Argument < 0)
    /\ x' = (IF neg' THEN -Argument ELSE Argument) % LL
    /\ pc' = "digits" /\ UNCHANGED <<conv, raw, buf, n, out>>

Digit ==
    /\ pc = "digits"
    /\ buf' = Append(buf, x % Base) /\ x' = x \div Base
    /\ pc' = IF x' = 0 THEN "sign" ELSE "digits"
    /\ UNCHANGED <<conv, raw, neg, n, out>>

Minus ==
    /\ pc = "sign"
    /\ buf' = IF neg THEN Append(buf, Dash) ELSE buf
    /\ pc' = "emit" /\ UNCHANGED <<conv, raw, x, neg, n, out>>

(* consputc(buf[i]), from the last one stored *)
Emit ==
    /\ pc = "emit" /\ buf # <<>>
    /\ out' = Append(out, buf[Len(buf)]) /\ buf' = SubSeq(buf, 1, Len(buf) - 1)
    /\ UNCHANGED <<conv, raw, x, neg, n, pc>>

Return == pc = "emit" /\ buf = <<>> /\ pc' = "done" /\ UNCHANGED <<conv, raw, x, neg, buf, n, out>>

(* printptr: the highest four bits, then x <<= 4 *)
Pointer ==
    /\ pc = "start" /\ conv = "p"
    /\ x' = raw /\ out' = <<OX>> /\ pc' = "nibbles" /\ UNCHANGED <<conv, raw, neg, buf, n>>

Nibble ==
    /\ pc = "nibbles" /\ n < Nibbles
    /\ out' = Append(out, x \div (LL \div 16)) /\ x' = (x * 16) % LL /\ n' = n + 1
    /\ UNCHANGED <<conv, raw, neg, buf, pc>>

PointerEnd ==
    /\ pc = "nibbles" /\ n = Nibbles /\ pc' = "done"
    /\ UNCHANGED <<conv, raw, x, neg, buf, n, out>>

Next == Start \/ Digit \/ Minus \/ Emit \/ Return \/ Pointer \/ Nibble \/ PointerEnd

Spec == Init /\ [][Next]_vars

-----------------------------------------------------------------------------
(* The value a sequence of digits stands for. *)
ValueOf(s, b) ==
    LET v[k \in 0..Len(s)] == IF k = 0 THEN 0 ELSE b * v[k - 1] + s[k]
    IN  v[Len(s)]

(* buf[20] is never written past its end: the longest number, with its     *)
(* sign, just fits.                                                        *)
BufferFits == Len(buf) <= BufSize

(* the number the caller means *)
Value ==
    CASE conv = "d" -> Signed(raw % INT, INT)
      [] conv \in {"u", "x"} -> raw % INT
      [] conv = "ld" -> Signed(raw, LL)
      [] OTHER -> raw

(* What is printed reads back as the argument: a minus sign exactly for a  *)
(* negative value of a signed conversion (the most negative one too), the  *)
(* digits of its magnitude, and no leading zero but for zero itself; a     *)
(* pointer shows all its digits.                                           *)
PrintsValue ==
    pc = "done" =>
        LET shown == IF out[1] < 0 THEN Tail(out) ELSE out
        IN  /\ (out[1] = Dash) = (Value < 0)
            /\ ValueOf(shown, IF conv = "p" THEN 16 ELSE Base) = IF Value < 0 THEN -Value ELSE Value
            /\ IF conv = "p" THEN Len(shown) = Nibbles ELSE shown[1] = 0 => Value = 0
=============================================================================

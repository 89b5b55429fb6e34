------------------------------- MODULE Printf -------------------------------
(***************************************************************************)
(* printf()'s walk over its format string, for every short string: which   *)
(* characters it looks at, what it takes for a conversion and how many     *)
(* arguments it fetches.  "d" stands for d, u and x, which take the l and  *)
(* ll prefixes, "s" for s, c and p, which do not, "z" for any other letter.*)
(* What a conversion prints is the subject of Printint.                    *)
(***************************************************************************)
EXTENDS Integers, Sequences, FiniteSets

CONSTANT MaxLen     \* of the format string

PrintfConstants == MaxLen \in Nat

NUL == "nul"
Chars == {"%", "d", "l", "s", "z"}

VARIABLES fmt, i,      \* the string and printf's index, from 0
          read,        \* the highest index looked at
          args,        \* how often va_arg was called
          shown,       \* what the items handled so far look like in the source
          pc

vars == <<fmt, i, read, args, shown, pc>>

Init ==
    /\ fmt \in UNION {[1..k -> Chars] : k \in 0..MaxLen}
    /\ i = 0 /\ read = 0 /\ args = 0 /\ shown = <<>> /\ pc = "loop"

Ch(k) == IF k < Len(fmt) THEN fmt[k + 1] ELSE NUL

c0 == Ch(i + 1)
c1 == IF c0 # NUL THEN Ch(i + 2) ELSE NUL
c2 == IF c1 # NUL THEN Ch(i + 3) ELSE NUL

Farthest(S) == CHOOSE m \in S : \A k \in S : k <= m

(* one round of the loop: the item's text, the arguments, how far i moves  *)
Item(text, n, step) ==
    /\ shown' = shown \o text /\ args' = args + n /\ i' = i + step
    /\ read' = Farthest({read, i} \cup (IF Ch(i) = "%" THEN {i + 1} ELSE {})
                           \cup (IF Ch(i) = "%" /\ c0 # NUL THEN {i + 2} ELSE {})
                           \cup (IF Ch(i) = "%" /\ c1 # NUL THEN {i + 3} ELSE {}))
    /\ UNCHANGED <<fmt, pc>>

At(ch) == pc = "loop" /\ Ch(i) = ch

Plain == pc = "loop" /\ Ch(i) \notin {"%", NUL} /\ Item(<<Ch(i)>>, 0, 1)

Number == At("%") /\ c0 = "d" /\ Item(<<"%", "d">>, 1, 2)
Long   == At("%") /\ c0 = "l" /\ c1 = "d" /\ Item(<<"%", "l", "d">>, 1, 3)

(* mutant: %lld steps over one l only *)
LongLongShort == At("%") /\ c0 = "l" /\ c1 = "l" /\ c2 = "d" /\ Item(<<"%", "l", "l", "d">>, 1, 3)

LongLong == At("%") /\ c0 = "l" /\ c1 = "l" /\ c2 = "d" /\ Item(<<"%", "l", "l", "d">>, 1, 4)

Simple  == At("%") /\ c0 = "s" /\ Item(<<"%", "s">>, 1, 2)

Percent == At("%") /\ c0 = "%" /\ Item(<<"%", "%">>, 0, 2)

Unknown ==
    /\ At("%") /\ (c0 = "z" \/ (c0 = "l" /\ c1 # "d" /\ ~(c1 = "l" /\ c2 = "d")))
    /\ Item(<<"%", c0>>, 0, 2)

(* a percent sign at the end: break, after i++ *)
Dangling ==
    /\ At("%") /\ c0 = NUL
    /\ pc' = "done" /\ i' = i + 1 /\ shown' = Append(shown, "%")
    /\ read' = Farthest({read, i + 1}) /\ UNCHANGED <<fmt, args>>

End ==
    /\ At(NUL) /\ pc' = "done"
    /\ read' = Farthest({read, i}) /\ UNCHANGED <<fmt, i, args, shown>>

Next == \/ Plain \/ Number \/ Long \/ LongLong \/ Simple \/ Percent \/ Unknown
        \/ Dangling \/ End

Spec == Init /\ [][Next]_vars

-----------------------------------------------------------------------------
(* No character behind the terminating NUL is looked at, wherever the      *)
(* string breaks off: the look-ahead of two characters and the percent     *)
(* sign at the end are the ways it could be.                               *)
WithinString == read <= Len(fmt)

(* Nothing of the format is skipped or handled twice: what printf has      *)
(* taken for items, written one after the other, is the text up to i.      *)
TextAccounted == i <= Len(fmt) /\ shown = SubSeq(fmt, 1, i)

(* A percent sign starts an item if an even number of them stand directly  *)
(* before it.                                                              *)
Starts == {k \in DOMAIN fmt :
              /\ fmt[k] = "%"
              /\ \E m \in 0..(k - 1) :
                    /\ m % 2 = 0 /\ \A j \in (k - m)..k : fmt[j] = "%"
                    /\ (k - m > 1 => fmt[k - m - 1] # "%")}

FollowedBy(k, text) == k + Len(text) <= Len(fmt) /\ SubSeq(fmt, k + 1, k + Len(text)) = text

Conversions ==
    {k \in Starts : \E text \in {<<"d">>, <<"s">>, <<"l", "d">>, <<"l", "l", "d">>} : FollowedBy(k, text)}

(* printf fetches exactly one argument for each conversion the format      *)
(* contains, however percent signs and prefixes run together.              *)
ArgsMatchFormat == pc = "done" => args = Cardinality(Conversions)
=============================================================================

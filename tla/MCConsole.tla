----------------------------- MODULE MCConsole -----------------------------
(* An instance of Console for TLC, and of what lies above and below it,    *)
(* each on its own: the number conversions and printf's format loop.  unit *)
(* says which of them runs.                                                *)
EXTENDS Console

CONSTANTS LL, INT, Nibbles, BufSize, Raws, MaxLen

VARIABLES unit,
          conv, raw, x, neg, buf, n, text, ipc,       \* Printint
          fmt, i, read, args, shown, fpc              \* Printf

(* LL and INT are chosen such that, as with 64 bits, the longest unsigned  *)
(* decimal and the longest signed one, sign included, both fill buf[].     *)
Around(k) == (k - 2)..(k + 2)
MCRaws == (0..(LL - 1)) \cap
          UNION {Around(k) : k \in {10^e : e \in 0..6} \cup {2^e : e \in 0..20}
                                   \cup {LL - 10^e : e \in 0..5} \cup {LL - 2^e : e \in 0..19}}

N == INSTANCE Printint WITH out <- text, pc <- ipc
F == INSTANCE Printf WITH pc <- fpc

ASSUME MCConsoleAssumption == N!PrintintConstants /\ F!PrintfConstants

nVars == <<conv, raw, x, neg, buf, n, text, ipc>>
fVars == <<fmt, i, read, args, shown, fpc>>
mcVars == <<unit, vars, nVars, fVars>>

NumberIdle ==
    /\ conv = "d" /\ raw = 0 /\ x = 0 /\ neg = FALSE /\ buf = <<>> /\ n = 0 /\ text = <<>>
    /\ ipc = "idle"
FormatIdle ==
    fmt = <<>> /\ i = 0 /\ read = 0 /\ args = 0 /\ shown = <<>> /\ fpc = "idle"

MCInit ==
    /\ Init
    /\ \/ unit = "console" /\ NumberIdle /\ FormatIdle
       \/ unit = "printint" /\ N!Init /\ FormatIdle
       \/ unit = "printf" /\ F!Init /\ NumberIdle

Unit(u, A, others) == unit = u /\ A /\ UNCHANGED <<unit, others>>

ConsoleUnit(A) == Unit("console", A, <<nVars, fVars>>)
NumberUnit == Unit("printint", N!Next, <<vars, fVars>>)
FormatUnit == Unit("printf", F!Next, <<vars, nVars>>)

(* a call has returned *)
Rest == (ipc = "done" \/ fpc = "done") /\ UNCHANGED mcVars

MCNext == ConsoleUnit(Next) \/ NumberUnit \/ FormatUnit \/ Rest

MCSpec ==
    /\ MCInit /\ [][MCNext]_mcVars
    /\ WF_mcVars(ConsoleUnit(Hart)) /\ WF_mcVars(ConsoleUnit(Transmit))

(* printint() and printptr() stay inside buf[], and what they print reads  *)
(* back as the argument.                                                   *)
PrintsValue == N!BufferFits /\ N!PrintsValue

(* printf() looks at no character behind the format's NUL, skips nothing   *)
(* of the format, handles nothing twice, and fetches one argument for each *)
(* conversion.                                                             *)
FormatFollowed == F!WithinString /\ F!TextAccounted /\ F!ArgsMatchFormat
=============================================================================

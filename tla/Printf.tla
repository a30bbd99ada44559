------------------------------- MODULE Printf -------------------------------
(***************************************************************************)
(* The formatting of text: Console__printf and Console__print_int of       *)
(* src/src/console/console.c with itoa, str_reverse, str_len and memcpy of *)
(* src/src/libc/stdlib.c, one iteration of printf's loop per step.  The    *)
(* buffers have fixed sizes and nothing is checked against them: the first *)
(* write outside of one ends the model in "overrun".                       *)
(***************************************************************************)
EXTENDS Naturals, Sequences, FiniteSets, SequencesExt

CONSTANTS BufSz,              \* char buf[4096] of printf
          TempSz,             \* char temp_buf[64] of printf
          StrSz,              \* char str[32] of print_int
          IndexRange,         \* values of the uint16_t i and j (65536)
          Char,               \* the characters of texts, NUL not among them
          Formats,            \* the formats, each a sequence of tokens
          ArgLists,           \* the arguments: for each a string and a number, of
                              \* which the conversion takes the one it wants
          Bases               \* the bases print_int is called with

NUL == "NUL"
Digit == <<"0", "1", "2", "3", "4", "5", "6", "7", "8", "9",
           "a", "b", "c", "d", "e", "f">>

ASSUME PrintfAssumption ==
  /\ BufSz \in Nat \ {0} /\ TempSz \in Nat \ {0} /\ StrSz \in Nat \ {0}
  /\ IndexRange \in Nat /\ BufSz < IndexRange
  /\ {Digit[k] : k \in 1 .. Len(Digit)} \subseteq Char /\ NUL \notin Char
  /\ Bases \subseteq 2 .. Len(Digit)

VARIABLES fmt, args, base,    \* the call; base is 0 for printf
          buf, temp_buf, i, j, is_percent, arg, \* the locals of printf
          pc, printed

vars == <<fmt, args, base, buf, temp_buf, i, j, is_percent, arg, pc, printed>>

-----------------------------------------------------------------------------
(* str[0] .. str[len-1] reversed in place, by exchanges from both ends. *)
StrReverse(s) ==
  LET exchanged[k \in 0 .. Len(s) \div 2] ==
        IF k = 0 THEN s
                 ELSE [exchanged[k-1] EXCEPT ![k] = exchanged[k-1][Len(s) - k + 1],
                                             ![Len(s) - k + 1] = exchanged[k-1][k]]
  IN  exchanged[Len(s) \div 2]

(* The digits itoa produces, the last one first. *)
LowDigits(num, b) ==
  LET digits[m \in 0 .. num] ==
        IF m = 0 THEN << >> ELSE <<Digit[(m % b) + 1]>> \o digits[m \div b]
  IN  digits[num]

(* Mutant: the digits are not reversed. *)
Itoa_LowFirst(num, b) == (IF num = 0 THEN <<"0">> ELSE LowDigits(num, b)) \o <<NUL>>

(* What itoa writes. *)
Itoa(num, b) == (IF num = 0 THEN <<"0">> ELSE StrReverse(LowDigits(num, b))) \o <<NUL>>

(* A buffer after memcpy of a string to it; positions count from 0. *)
Copied(b, at, str) ==
  [k \in DOMAIN b |-> IF k \in at + 1 .. at + Len(str) THEN str[k - at] ELSE b[k]]

(* Mutant: the NUL is counted. *)
StrLen_WithNul(b) == SelectInSeq(b, LAMBDA c : c = NUL)

StrLen(b) == SelectInSeq(b, LAMBDA c : c = NUL) - 1

(* Mutant: the index has two bits less. *)
NextIndex_Narrow(k) == (k + 1) % (IndexRange \div 4)

NextIndex(k) == (k + 1) % IndexRange

-----------------------------------------------------------------------------
Text == Seq(Char)

Conversions == {<<"%", "s">>, <<"%", "d">>, <<"%", "p">>}

(* The conversions among the first n tokens of a format. *)
ConversionsIn(f, n) == Cardinality({u \in 1 .. n : f[u] \in Conversions})

(***************************************************************************)
(* A format is one character, or a percent sign and one character, time    *)
(* and again; a percent sign may also be its end.  It is shorter than the  *)
(* range of the index.  Callers pass at least one argument for each        *)
(* conversion, and temp_buf has room for the digits of any of them: a      *)
(* number of 64 bits has at most 20 of them in the two bases.              *)
(***************************************************************************)
ASSUME CallsAssumption ==
  /\ \A f \in Formats :
       /\ f \in Seq(Text) /\ Len(FlattenSeq(f)) < IndexRange
       /\ \A t \in DOMAIN f :
            \/ Len(f[t]) = 1 /\ (f[t][1] = "%" => t = Len(f))
            \/ Len(f[t]) = 2 /\ f[t][1] = "%"
  /\ \A a \in ArgLists :
       /\ a \in Seq([str : Text, num : Nat]) /\ a # << >>
       /\ \A k \in DOMAIN a, b \in {10, 16} : Len(Itoa(a[k].num, b)) <= TempSz
       /\ \A f \in Formats : ConversionsIn(f, Len(f)) <= Len(a)

Zeroed(size) == [k \in 1 .. size |-> NUL]

Init ==
  /\ args \in ArgLists
  /\ \/ fmt \in Formats /\ base = 0 /\ pc = "printf"
     \/ fmt = << >> /\ base \in Bases /\ pc = "print_int"
  /\ buf = Zeroed(BufSz) /\ temp_buf = Zeroed(TempSz)
  /\ i = 0 /\ j = 0 /\ is_percent = FALSE /\ arg = 1
  /\ printed = << >>

(* The characters of the format, and the one the loop is at. *)
str == FlattenSeq(fmt)
char == str[i + 1]

InLoop == pc = "printf" /\ i < Len(str)

(* A conversion takes the next argument; callers pass one for each. *)
TakeArg == arg <= Len(args) /\ arg' = arg + 1

Overrun == pc' = "overrun" /\ UNCHANGED <<buf, j>>

(* Mutant: the index goes one past the string. *)
AddToBuf_Past(s) ==
  IF j + Len(s) > BufSz
    THEN Overrun
    ELSE buf' = Copied(buf, j, s) /\ j' = j + Len(s) + 1 /\ UNCHANGED pc

(* Characters written to buf + j. *)
AddToBuf(s) ==
  IF j + Len(s) > BufSz
    THEN Overrun
    ELSE buf' = Copied(buf, j, s) /\ j' = (j + Len(s)) % IndexRange /\ UNCHANGED pc

Literal ==
  /\ InLoop /\ ~ is_percent /\ char # "%"
  /\ AddToBuf(<<char>>)
  /\ i' = NextIndex(i)
  /\ UNCHANGED <<fmt, args, base, temp_buf, is_percent, arg, printed>>

Percent ==
  /\ InLoop /\ ~ is_percent /\ char = "%"
  /\ is_percent' = TRUE
  /\ i' = NextIndex(i)
  /\ UNCHANGED <<fmt, args, base, buf, temp_buf, j, arg, pc, printed>>

ConvertString ==
  /\ InLoop /\ is_percent /\ char = "s"
  /\ TakeArg
  /\ AddToBuf(args[arg].str)
  /\ is_percent' = FALSE /\ i' = NextIndex(i)
  /\ UNCHANGED <<fmt, args, base, temp_buf, printed>>

ConvertInt ==
  /\ InLoop /\ is_percent /\ char \in {"d", "p"}
  /\ TakeArg
  /\ LET digits == Itoa(args[arg].num, IF char = "d" THEN 10 ELSE 16)
     IN  IF Len(digits) > TempSz
           THEN Overrun /\ UNCHANGED temp_buf
           ELSE /\ temp_buf' = Copied(temp_buf, 0, digits)
                /\ AddToBuf(SubSeq(temp_buf', 1, StrLen(temp_buf')))
  /\ is_percent' = FALSE /\ i' = NextIndex(i)
  /\ UNCHANGED <<fmt, args, base, printed>>

(* Any other character after a percent sign is dropped, a second one too. *)
ConvertUnknown ==
  /\ InLoop /\ is_percent /\ char \notin {"s", "d", "p"}
  /\ is_percent' = FALSE /\ i' = NextIndex(i)
  /\ UNCHANGED <<fmt, args, base, buf, temp_buf, j, arg, pc, printed>>

(* The end of printf: the NUL, and Console__print_str. *)
Finish ==
  /\ pc = "printf" /\ i >= Len(str)
  /\ IF j >= BufSz
       THEN Overrun /\ UNCHANGED printed
       ELSE /\ buf' = Copied(buf, j, <<NUL>>)
            /\ printed' = SubSeq(buf', 1, StrLen(buf'))
            /\ pc' = "returned" /\ UNCHANGED j
  /\ UNCHANGED <<fmt, args, base, temp_buf, i, is_percent, arg>>

PrintInt ==
  /\ pc = "print_int"
  /\ LET digits == Itoa(args[1].num, base)
     IN  IF Len(digits) > StrSz
           THEN pc' = "overrun" /\ UNCHANGED printed
           ELSE pc' = "returned" /\ printed' = SubSeq(digits, 1, StrLen(digits))
  /\ UNCHANGED <<fmt, args, base, buf, temp_buf, i, j, is_percent, arg>>

Next ==
  \/ Literal \/ Percent \/ ConvertString \/ ConvertInt \/ ConvertUnknown
  \/ Finish \/ PrintInt

Spec == Init /\ [][Next]_vars

(* The call runs to its end: nothing preempts it. *)
FairSpec == Spec /\ WF_vars(Next)

-----------------------------------------------------------------------------
(***************************************************************************)
(* What a call should print.  A numeral is characterised by its digits     *)
(* from the highest to the lowest; a format is the tokens it was made of,  *)
(* where each conversion of the three known ones takes one argument.       *)
(***************************************************************************)
Numeral(num, b) ==
  LET power[n \in 0 .. num + 1] == IF n = 0 THEN 1 ELSE b * power[n-1]
      length == CHOOSE n \in 1 .. num + 1 : power[n] > num /\ (n = 1 \/ power[n-1] <= num)
  IN  [k \in 1 .. length |-> Digit[((num \div power[length - k]) % b) + 1]]

(* What the token t of the format is to be replaced by. *)
Piece(t) ==
  LET a == args[ConversionsIn(fmt, t)]
  IN  CASE fmt[t] = <<"%", "s">> -> a.str
        [] fmt[t] = <<"%", "d">> -> Numeral(a.num, 10)
        [] fmt[t] = <<"%", "p">> -> Numeral(a.num, 16)
        [] fmt[t] \notin Conversions /\ fmt[t][1] = "%" -> << >>
        [] OTHER -> fmt[t]

Pieces == [t \in DOMAIN fmt |-> Piece(t)]

Expansion == FlattenSeq(Pieces)

Expected == IF base = 0 THEN Expansion ELSE Numeral(args[1].num, base)

(* The variables have their types; all of buf from j on is still NUL. *)
TypeOK ==
  /\ Len(buf) = BufSz /\ Len(temp_buf) = TempSz
  /\ i \in 0 .. Len(str) /\ j \in 0 .. BufSz
  /\ \A k \in j + 1 .. BufSz : buf[k] = NUL
  /\ is_percent \in BOOLEAN /\ arg \in 1 .. Len(args) + 1
  /\ pc \in {"printf", "print_int", "returned", "overrun"}

(***************************************************************************)
(* A call that returns has printed the text with each conversion replaced  *)
(* by its own argument: no digits of an earlier, longer number are left in *)
(* temp_buf, the digits are in order, 0 is not empty, and what is dropped  *)
(* takes no argument.                                                      *)
(***************************************************************************)
PrintsExpansion == pc = "returned" => printed = Expected

(***************************************************************************)
(* No write leaves a buffer, unless the text with its NUL does not fit the *)
(* buffer of the call; and then some write does.  temp_buf is never the    *)
(* one: it holds any number of 64 bits in base 10.                         *)
(***************************************************************************)
OverrunsIffTooLong ==
  /\ pc = "overrun"  => Len(Expected) >= IF base = 0 THEN BufSz ELSE StrSz
  /\ pc = "returned" => Len(Expected) <  IF base = 0 THEN BufSz ELSE StrSz

(* The 16-bit index reaches the end of every format shorter than its range. *)
CallEnds == <>(pc \in {"returned", "overrun"})
=============================================================================

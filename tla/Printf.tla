----------------------------- MODULE Printf -----------------------------
(***************************************************************************)
(* The two small printers of the HAL: alt_printf, and the logging          *)
(* printer of alt_log_printf.c, which reads its format with a state        *)
(* machine.  A step hands one more character of the format to both, and    *)
(* an argument in case it is asked for.  A character of a class stands for *)
(* the class; words have W bits.                                           *)
(***************************************************************************)
EXTENDS Integers, Sequences, SequencesExt

CONSTANTS W,        \* bits of a word, a multiple of 4
          Values,   \* the arguments
          MaxWidth  \* the largest field width a format asks for

PrintfAssumption ==
  W \in Nat /\ W % 4 = 0 /\ Values \subseteq 0 .. 2^W - 1 /\ MaxWidth \in Nat

\* "a" is printed as it is, "q" is a letter neither knows.
Chars  == {"%", "a", "0", "1", "5", ".", "l", "d", "u", "o", "x", "X", "c", "s", "q"}
Figure == [c \in {"0", "1", "5"} |-> CASE c = "0" -> 0 [] c = "1" -> 1 [] OTHER -> 5]

VARIABLES
  state,                                    \* alt_log_private_printf's
  fmtLeadingZero, fmtBase, fmtSigned, fmtCase, fmtBeforeDecimal, afterDot,
  inFormat,                                 \* alt_printf has read a '%'
  out, altOut,                              \* what the last character made each print
  did, arg,                                 \* the conversion just made, its argument
  common                                    \* the format is one both understand

format == <<fmtLeadingZero, fmtBase, fmtSigned, fmtCase, fmtBeforeDecimal, afterDot>>
vars   == <<state, format, inFormat, out, altOut, did, arg, common>>

Init ==
  /\ state = "chars" /\ fmtLeadingZero = FALSE /\ fmtBase = 10 /\ fmtSigned = TRUE
  /\ fmtCase = FALSE /\ fmtBeforeDecimal = -1 /\ afterDot = FALSE
  /\ inFormat = FALSE /\ out = <<>> /\ altOut = <<>> /\ did = "none" /\ arg = 0 /\ common = TRUE

Lower == <<"0", "1", "2", "3", "4", "5", "6", "7", "8", "9", "a", "b", "c", "d", "e", "f">>
Upper == <<"0", "1", "2", "3", "4", "5", "6", "7", "8", "9", "A", "B", "C", "D", "E", "F">>
Blank == " "
Str(v) == [k \in 1 .. v % 3 |-> "s"]

(***************************************************************************)
(* alt_log_private_printf.                                                 *)
(***************************************************************************)
alt_log_repchar(c, r) == [k \in 1 .. r |-> c]

\* Digits of v, counted by dividing it away, printed from the largest place.
DigitCount(v, b) ==
  LET f[x \in 0 .. v] == IF x \div b = 0 THEN 1 ELSE 1 + f[x \div b] IN f[v]
Digits(v, b, glyphs) ==
  LET n == DigitCount(v, b) IN
  [k \in 1 .. n |-> glyphs[((v % b^(n - k + 1)) \div b^(n - k)) + 1]]

\* doIntegerPrint.
Integer(v, b, signed, upper) ==
  LET neg    == signed /\ v >= 2^(W - 1)
      digits == Digits(IF neg THEN 2^W - v ELSE v, b, IF upper THEN Upper ELSE Lower)
      sign   == IF neg THEN <<"-">> ELSE <<>>
      pad    == fmtBeforeDecimal - Len(digits) - Len(sign)
  IN IF fmtLeadingZero THEN sign \o alt_log_repchar("0", pad) \o digits
     ELSE alt_log_repchar(Blank, pad) \o sign \o digits

Prints(s, kind) == out' = s /\ did' = kind
Silent == Prints(<<>>, "none")

PlainChar(c) == state = "chars" /\ c # "%" /\ Prints(<<c>>, "plain") /\ UNCHANGED <<state, format>>

Percent(c) ==
  /\ state = "chars" /\ c = "%"
  /\ fmtLeadingZero' = FALSE /\ fmtBase' = 10 /\ fmtSigned' = TRUE /\ fmtCase' = FALSE
  /\ fmtBeforeDecimal' = -1 /\ afterDot' = FALSE
  /\ state' = "first" /\ Silent

LeadingZero(c) ==
  /\ state = "first" /\ c = "0" /\ fmtLeadingZero' = TRUE /\ state' = "other" /\ Silent
  /\ UNCHANGED <<fmtBase, fmtSigned, fmtCase, fmtBeforeDecimal, afterDot>>

PercentPercent(c) ==
  state = "first" /\ c = "%" /\ Prints(<<c>>, "plain") /\ state' = "chars" /\ UNCHANGED format

\* The state falls through from the first character to the others.
Letter(c) == state = "other" \/ (state = "first" /\ c \notin {"0", "%"})

Width(c) ==
  LET w == (IF fmtBeforeDecimal < 0 THEN 0 ELSE fmtBeforeDecimal * 10) + Figure[c] IN
  /\ Letter(c) /\ c \in DOMAIN Figure /\ (afterDot \/ w <= MaxWidth)
  /\ IF afterDot THEN UNCHANGED fmtBeforeDecimal ELSE fmtBeforeDecimal' = w
  /\ state' = "other" /\ Silent
  /\ UNCHANGED <<fmtLeadingZero, fmtBase, fmtSigned, fmtCase, afterDot>>

\* A long is a word, too.
Modifier(c) ==
  /\ Letter(c) /\ c \in {".", "l"} /\ afterDot' = (afterDot \/ c = ".")
  /\ state' = "other" /\ Silent
  /\ UNCHANGED <<fmtLeadingZero, fmtBase, fmtSigned, fmtCase, fmtBeforeDecimal>>

\* Whatever the printing does to the width is set again by the next '%'.
Convert(c, v) ==
  /\ Letter(c) /\ c \notin DOMAIN Figure \cup {".", "l"} /\ state' = "chars"
  /\ fmtSigned' = (fmtSigned /\ c \notin {"u", "o", "x", "X"})
  /\ fmtBase' = (CASE c = "o" -> 8 [] c \in {"x", "X"} -> 16 [] OTHER -> fmtBase)
  /\ fmtCase' = (fmtCase \/ c = "X")
  /\ CASE c \in {"d", "u", "o", "x", "X"} -> Prints(Integer(v, fmtBase', fmtSigned', fmtCase'), "int")
       [] c = "c" -> Prints(alt_log_repchar(Blank, fmtBeforeDecimal - 1) \o <<"c">>, "char")
       [] c = "s" -> Prints(alt_log_repchar(Blank, fmtBeforeDecimal - Len(Str(v))) \o Str(v), "str")
       [] OTHER -> Silent
  /\ UNCHANGED <<fmtLeadingZero, fmtBeforeDecimal, afterDot>>

LogChar(c, v) ==
  \/ PlainChar(c) \/ Percent(c) \/ LeadingZero(c) \/ PercentPercent(c)
  \/ Width(c) \/ Modifier(c) \/ Convert(c, v)

(***************************************************************************)
(* alt_printf.                                                             *)
(***************************************************************************)

\* From the first digit that is not zero, four bits at a time.
Hex(v) ==
  LET nibble(k) == (v \div 16^k) % 16
      tops == {k \in 0 .. (W \div 4) - 1 : nibble(k) # 0}
      top  == CHOOSE k \in tops : \A j \in tops : j <= k
  IN IF v = 0 THEN <<"0">> ELSE [j \in 1 .. top + 1 |-> Lower[nibble(top + 1 - j) + 1]]

AltChar(c, v) ==
  /\ inFormat' = (~inFormat /\ c = "%")
  /\ altOut' = IF ~inFormat THEN (IF c = "%" THEN <<>> ELSE <<c>>)
               ELSE CASE c = "%" -> <<c>> [] c = "c" -> <<"c">>
                      [] c = "x" -> Hex(v) [] c = "s" -> Str(v) [] OTHER -> <<>>

(***************************************************************************)
(* Both read the same format.                                              *)
(***************************************************************************)
Read(c, v) ==
  /\ LogChar(c, v) /\ AltChar(c, v) /\ arg' = v
  /\ common' = (common /\ (inFormat => c \in {"%", "x", "c", "s", "q"}))

\* The format ends, wherever it has come to; the next call starts again.
End ==
  /\ state' = "chars" /\ inFormat' = FALSE /\ common' = TRUE
  /\ out' = <<>> /\ altOut' = <<>> /\ did' = "none" /\ arg' = 0 /\ UNCHANGED format

Next == End \/ \E c \in Chars, v \in Values : Read(c, v)

Spec == Init /\ [][Next]_vars

--------------------------------------------------------------------------
\* The type invariant.
TypeOK ==
  /\ state \in {"chars", "first", "other"} /\ inFormat \in BOOLEAN /\ common \in BOOLEAN
  /\ fmtLeadingZero \in BOOLEAN /\ fmtSigned \in BOOLEAN /\ afterDot \in BOOLEAN
  /\ fmtBase \in {8, 10, 16} /\ fmtCase \in BOOLEAN /\ (fmtCase => fmtBase = 16)
  /\ fmtBeforeDecimal \in -1 .. MaxWidth /\ arg \in Values \cup {0}
  /\ did \in {"none", "plain", "int", "char", "str"}
  /\ ToSet(out) \cup ToSet(altOut) \subseteq Chars \cup ToSet(Lower) \cup ToSet(Upper) \cup {Blank, "-"}

\* The number a row of digits stands for.
Reads(s, b) ==
  LET d(g) == CHOOSE k \in 0 .. 15 : g \in {Lower[k + 1], Upper[k + 1]}
      r[k \in 0 .. Len(s)] == IF k = 0 THEN 0 ELSE r[k - 1] * b + d(s[k])
  IN r[Len(s)]

\* A printed number reads back as its argument, fills its field exactly or is
\* as long as it has to be, and has its blanks in front of the sign, its zeros
\* behind it.
NumbersReadBack ==
  did = "int" =>
    LET neg    == fmtSigned /\ arg >= 2^(W - 1)
        value  == IF neg THEN 2^W - arg ELSE arg
        blanks == Cardinality({k \in DOMAIN out : out[k] = Blank})
        first  == blanks + (IF neg THEN 1 ELSE 0)
        digits == SubSeq(out, first + 1, Len(out))
        need   == CHOOSE n \in 1 .. W : fmtBase^n > value /\ (n = 1 \/ fmtBase^(n - 1) <= value)
    IN /\ \A k \in 1 .. blanks : out[k] = Blank
       /\ neg => out[first] = "-"
       /\ Reads(digits, fmtBase) = value
       /\ Len(out) >= fmtBeforeDecimal
       /\ Len(digits) = need \/ (fmtLeadingZero /\ blanks = 0 /\ Len(out) = fmtBeforeDecimal)
       /\ blanks > 0 => Len(out) = fmtBeforeDecimal

\* What alt_printf understands ("%x %s %c %%", alt_printf.c:36) the logging
\* printer prints the same, character for character.
PrintersAgree == common => out = altOut
=============================================================================

----------------------------- MODULE VulcanPrintf -----------------------------
(***************************************************************************)
(* vk_uart_printf, hal/vulcan_uart.c, a directive at a time: what each     *)
(* puts, in the order in which vk_uart_putc is called.  The format and the *)
(* arguments come as they are read, so that every format is covered that   *)
(* does not end in a '%'; integers have a small word.                      *)
(***************************************************************************)
EXTENDS Integers, Sequences, SequencesExt

CONSTANTS
  Word,      \* 2^32, the range of a uint32_t
  Text,      \* the characters of a format besides '%'
  MaxString, \* bound: the length of the strings given for %s
  NoString   \* the null pointer

ASSUME PrintfAssumption ==
  /\ Word \in Nat /\ Word > 1 /\ Word % 2 = 0
  /\ MaxString \in Nat

String == UNION {[1 .. k -> Text] : k \in 0 .. MaxString}
Int32 == -(Word \div 2) .. Word \div 2 - 1
UInt32 == 0 .. Word - 1

lower == <<"0", "1", "2", "3", "4", "5", "6", "7", "8", "9", "a", "b", "c", "d", "e", "f">>
upper == <<"0", "1", "2", "3", "4", "5", "6", "7", "8", "9", "A", "B", "C", "D", "E", "F">>

VARIABLES
  place,     \* "text", after a '%', in the division, or in the loop that reverses
  conv,      \* the directive, and its argument:
  arg, str,  \* a number, or a text
  u, tmp,    \* the local variables; tmp has n digits
  out        \* what has been put for the directive

printfVars == <<place, conv, arg, str, u, tmp, out>>

PrintfInit ==
  /\ place = "text"
  /\ conv = "none"
  /\ arg = 0 /\ str = NoString
  /\ u = 0
  /\ tmp = <<>>
  /\ out = <<>>

(* A directive without digits is through. *)
Puts(directive, text, characters) ==
  /\ place' = "text"
  /\ conv' = directive
  /\ arg' = 0 /\ str' = text
  /\ out' = characters
  /\ UNCHANGED <<u, tmp>>

-------------------------------------------------------------------------------

Ordinary ==
  /\ place = "text"
  /\ \E c \in Text : Puts("none", NoString, <<c>>)

Percent ==
  /\ place = "text"
  /\ place' = "percent"
  /\ out' = <<>>
  /\ conv' = "none"
  /\ arg' = 0 /\ str' = NoString
  /\ UNCHANGED <<u, tmp>>

Str ==
  /\ place = "percent"
  /\ \E s \in String \cup {NoString} :
       Puts("s", s, IF s = NoString THEN <<"(", "n", "u", "l", "l", ")">> ELSE s)

(* A number begins with its sign; 0 has one digit. *)
Number(directive, value, sign, magnitude) ==
  /\ place' = IF magnitude = 0 THEN "text" ELSE "divide"
  /\ conv' = directive
  /\ arg' = value /\ str' = NoString
  /\ out' = IF magnitude = 0 THEN Append(sign, "0") ELSE sign
  /\ u' = magnitude
  /\ tmp' = <<>>

(* v = -v, which leaves the least int what it is, and the cast of v. *)
Signed ==
  /\ place = "percent"
  /\ \E v \in Int32, directive \in {"d", "i"} :
       IF v < 0 THEN Number(directive, v, <<"-">>, (-v) % Word)
                ELSE Number(directive, v, <<>>, v)

Unsigned ==
  /\ place = "percent"
  /\ \E v \in UInt32, directive \in {"u", "x", "X"} : Number(directive, v, <<>>, v)

Char ==
  /\ place = "percent"
  /\ \E c \in Text : Puts("c", <<c>>, <<c>>)

PercentSign ==
  /\ place = "percent"
  /\ Puts("%", NoString, <<"%">>)

(* A directive that is none takes no argument. *)
Unknown ==
  /\ place = "percent"
  /\ \E c \in Text \ {"s", "d", "i", "u", "x", "X", "c"} :
       Puts("unknown", NoString, <<"%", c>>)

-------------------------------------------------------------------------------

Radix == IF conv \in {"x", "X"} THEN 16 ELSE 10
Digits == IF conv = "x" THEN lower ELSE upper

(* while (u): the least digit, into tmp. *)
Divide ==
  /\ place = "divide"
  /\ tmp' = Append(tmp, Digits[(u % Radix) + 1])
  /\ u' = u \div Radix
  /\ place' = IF u' = 0 THEN "reverse" ELSE "divide"
  /\ UNCHANGED <<conv, arg, str, out>>

(* A mutation: the digits are put as they come. *)
PutDigit_forward ==
  /\ place = "reverse"
  /\ out' = Append(out, Head(tmp))
  /\ tmp' = Tail(tmp)
  /\ place' = IF tmp' = <<>> THEN "text" ELSE "reverse"
  /\ UNCHANGED <<conv, arg, str, u>>

(* The digits, the last one first. *)
PutDigit ==
  /\ place = "reverse"
  /\ out' = Append(out, Last(tmp))
  /\ tmp' = Front(tmp)
  /\ place' = IF tmp' = <<>> THEN "text" ELSE "reverse"
  /\ UNCHANGED <<conv, arg, str, u>>

vk_uart_printf ==
  \/ Ordinary \/ Percent
  \/ Str \/ Signed \/ Unsigned \/ Char \/ PercentSign \/ Unknown
  \/ Divide \/ PutDigit

PrintfSpec == PrintfInit /\ [][vk_uart_printf]_printfVars

-------------------------------------------------------------------------------

(* The number a digit stands for, *)
Digit(c, digits) == CHOOSE k \in 0 .. 15 : digits[k + 1] = c

(* and the one that a text shows in base b, read from the left. *)
Value(text, digits, b) ==
  LET value[i \in 0 .. Len(text)] ==
        IF i = 0 THEN 0 ELSE b * value[i - 1] + Digit(text[i], digits)
  IN  value[Len(text)]

(* A numeral has digits only, one at least, and no 0 before others. *)
Numeral(text, digits, b) ==
  /\ text # <<>>
  /\ \A i \in DOMAIN text : \E k \in 1 .. b : text[i] = digits[k]
  /\ Len(text) > 1 => Head(text) # "0"

Shows(text, digits, b, value) == Numeral(text, digits, b) /\ Value(text, digits, b) = value

(* What was put for a directive of those the comment names ("supports %s %d *)
(* %u %x %c %%") shows its argument: the numeral of the number, the least   *)
(* int included, in the case asked for, the text of the string, the         *)
(* character.                                                               *)
PrintsArguments ==
  place = "text" =>
    CASE conv \in {"d", "i"} ->
           IF arg < 0 THEN Head(out) = "-" /\ Shows(Tail(out), upper, 10, -arg)
                      ELSE Shows(out, upper, 10, arg)
      [] conv = "u" -> Shows(out, upper, 10, arg)
      [] conv = "x" -> Shows(out, lower, 16, arg)
      [] conv = "X" -> Shows(out, upper, 16, arg)
      [] conv = "s" -> str # NoString => out = str
      [] conv = "c" -> out = str
      [] OTHER -> TRUE

===============================================================================

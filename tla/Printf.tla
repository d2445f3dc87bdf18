------------------------------- MODULE Printf -------------------------------
(***************************************************************************)
(* Formatted output (vsnprintf of src/string.c).  A format is a sequence   *)
(* of items: a literal character or a directive, already parsed, with its  *)
(* argument; a behaviour is one call, a step one item or one digit.        *)
(*                                                                         *)
(* The kind "char" is a literal, %c, or a directive printf does not know,  *)
(* which stands for itself.                                                *)
(***************************************************************************)
EXTENDS Integers, SequencesExt

CONSTANTS
    Formats,
    Sizes,          \* of the buffers
    CHAR_SPAN, SHORT_SPAN, INT_SPAN,      \* 2^8, 2^16, 2^32
    TMP             \* the digits tmp[] holds: 12

Bases == {8, 10, 16}

IsItem(i) ==
    /\ i.kind \in {"char", "str", "num"}
    /\ IF i.kind = "str" THEN i.arg \in Seq(Nat) ELSE i.arg \in Nat
    /\ i.width \in Int /\ i.base \in Bases
    /\ i.size \in {"char", "short", "int"}
    /\ i.zero \in BOOLEAN /\ i.alt \in BOOLEAN /\ i.sign \in BOOLEAN

Powers(base) ==
    LET power[i \in 0..TMP] == IF i = 0 THEN 1 ELSE base * power[i - 1]
    IN  power

ASSUME PrintfAssumption ==
    /\ Sizes \subseteq Nat
    /\ {CHAR_SPAN, SHORT_SPAN, INT_SPAN} \subseteq Nat \ {0}
    /\ 2 * CHAR_SPAN <= INT_SPAN /\ SHORT_SPAN <= INT_SPAN
    /\ TMP \in Nat \ {0}
    /\ \A base \in Bases : INT_SPAN <= Powers(base)[TMP]
    /\ \A f \in Formats : Len(f) \in Nat /\ \A i \in 1..Len(f) : IsItem(f[i])

\* Characters: a digit is its value, and a letter more than these.
BLANK == 16
MINUS == 17
EKS == 18                                                        \* x
NUL == 19

VARIABLES
    format,       \* the items ...
    at,           \* ... and which of them is next
    size,         \* of the buffer, which begins at 0
    str,          \* what has been written where: a function of addresses
    pos,          \* p - str, which goes on counting past the end
    value,        \* what is left of the number that is being converted
    tmp,          \* its digits so far, the last one first
    printed       \* the call has returned pos

pvars == <<format, at, size, str, pos, value, tmp, printed>>

-----------------------------------------------------------------------------
end_of_buffer == size                \* variant: room for one too many
end == size - 1

\* One do_putch for each character of the text.
do_putch(text) ==
    LET room == {a \in pos..(pos + Len(text) - 1) : a < end}
    IN  /\ str' = [a \in DOMAIN str \cup room |->
                     IF a \in room THEN text[a - pos + 1] ELSE str[a]]
        /\ pos' = pos + Len(text)

Times(k, char) == IF k > 0 THEN [i \in 1..k |-> char] ELSE <<>>

-----------------------------------------------------------------------------
(* Numbers.  char is unsigned on this processor: (char)x is never negative. *)

truncate(i) ==
    LET short == i.arg % SHORT_SPAN
    IN  CASE i.size = "char"  -> i.arg % CHAR_SPAN
          [] i.size = "short" -> IF i.sign /\ 2 * short >= SHORT_SPAN
                                 THEN INT_SPAN - SHORT_SPAN + short ELSE short
          [] i.size = "int"   -> i.arg % INT_SPAN

negative(i) == i.sign /\ 2 * truncate(i) >= INT_SPAN
magnitude(i) == IF negative(i) THEN INT_SPAN - truncate(i) ELSE truncate(i)

sign_width_zero(i) == IF negative(i) /\ i.zero THEN 1 ELSE 0      \* variant
sign_width(i) == IF negative(i) THEN 1 ELSE 0

alternate(i) ==
    CASE i.alt /\ i.base = 8  -> <<0>>
      [] i.alt /\ i.base = 16 -> <<0, EKS>>
      [] ~i.alt \/ i.base = 10 -> <<>>

\* The sign is written before zeros but after blanks.
number(i, digits) ==
    LET width == i.width - sign_width(i) - Len(alternate(i))
        dash  == IF negative(i) THEN <<MINUS>> ELSE <<>>
        pad   == Times(width - Len(digits), IF i.zero THEN 0 ELSE BLANK)
    IN  IF i.zero THEN dash \o alternate(i) \o pad \o digits
                  ELSE alternate(i) \o pad \o dash \o digits

-----------------------------------------------------------------------------
PrintInit ==
    /\ format \in Formats /\ size \in Sizes
    /\ at = 1 /\ str = <<>> /\ pos = 0 /\ value = 0 /\ tmp = <<>>
    /\ printed = FALSE

item == format[at]
comes(kind) == at <= Len(format) /\ item.kind = kind

put(text) ==
    /\ do_putch(text)
    /\ at' = at + 1
    /\ UNCHANGED <<format, size, value, printed>>

put_char == comes("char") /\ put(<<item.arg>>) /\ UNCHANGED tmp

put_string ==                            \* blanks follow a short string
    /\ comes("str")
    /\ put(item.arg \o Times(item.width - Len(item.arg), BLANK))
    /\ UNCHANGED tmp

convert ==
    /\ comes("num") /\ value = 0 /\ tmp = <<>>
    /\ value' = magnitude(item)
    /\ tmp' = IF value' = 0 THEN <<0>> ELSE <<>>
    /\ UNCHANGED <<format, at, size, str, pos, printed>>

next_digit ==
    /\ value # 0
    /\ tmp' = Append(tmp, value % item.base)
    /\ value' = value \div item.base
    /\ UNCHANGED <<format, at, size, str, pos, printed>>

put_number ==
    /\ value = 0 /\ tmp # <<>>
    /\ put(number(item, Reverse(tmp)))
    /\ tmp' = <<>>

terminate ==
    /\ at > Len(format) /\ ~printed /\ printed' = TRUE
    /\ LET nul == IF pos <= end THEN {pos} ELSE IF 0 <= end THEN {end} ELSE {}
       IN  str' = [a \in DOMAIN str \cup nul |->
                     IF a \in nul THEN NUL ELSE str[a]]
    /\ UNCHANGED <<format, at, size, pos, value, tmp>>

PrintNext ==
    put_char \/ put_string \/ convert \/ next_digit \/ put_number \/ terminate
PrintSpec == PrintInit /\ [][PrintNext]_pvars

-----------------------------------------------------------------------------
(* Correctness.                                                             *)

(* Whatever the format, the arguments and the size of the buffer - none at  *)
(* all included - nothing is written outside it, the digits of a number fit *)
(* in tmp[], and what is there at the end is terminated (string.c:12-25,    *)
(* 133-153).                                                                *)
PrintBounded ==
    /\ DOMAIN str \subseteq 0..(size - 1)
    /\ Len(tmp) <= TMP
    /\ printed /\ size > 0 => \E a \in DOMAIN str : str[a] = NUL

(* The number an item names: by its type, not by its bits.                  *)
Value(i) ==
    LET span == CASE i.size = "char"  -> CHAR_SPAN
                  [] i.size = "short" -> SHORT_SPAN
                  [] i.size = "int"   -> INT_SPAN
        y == i.arg % span
    IN  IF i.sign /\ i.size # "char" /\ 2 * y >= span THEN y - span ELSE y

Positional(v, base) ==
    LET k == Min({j \in 1..TMP : v < Powers(base)[j]})
    IN  [i \in 1..k |-> (v \div Powers(base)[k - i]) % base]

Field(i) ==
    LET v      == Value(i)
        digits == Positional(IF v < 0 THEN -v ELSE v, i.base)
        minus  == IF v < 0 THEN <<MINUS>> ELSE <<>>
        prefix == IF ~i.alt \/ i.base = 10 THEN <<>>
                  ELSE IF i.base = 8 THEN <<0>> ELSE <<0, EKS>>
        pads   == i.width - Len(minus \o prefix \o digits)
    IN  CASE i.kind = "char" -> <<i.arg>>
          [] i.kind = "str"  -> i.arg \o Times(i.width - Len(i.arg), BLANK)
          [] i.kind = "num" /\ i.zero ->
                minus \o prefix \o Times(pads, 0) \o digits
          [] i.kind = "num" /\ ~i.zero ->
                prefix \o Times(pads, BLANK) \o minus \o digits

\* The text of the first items of a format.
Texts(f) ==
    LET text[i \in 0..Len(f)] ==
            IF i = 0 THEN <<>> ELSE text[i - 1] \o Field(f[i])
    IN  text
Text == Texts(format)[Len(format)]

(* At the end the buffer holds as much of the text as there is room for,    *)
(* and the call returns the length of all of it: the fields have the values *)
(* and the widths asked for, the least negative number included             *)
(* (string.c:81-155).                                                       *)
PrintExact ==
    printed =>
        /\ pos = Len(Text)
        /\ \A a \in 0..(size - 2) : a < pos => str[a] = Text[a + 1]
        /\ size > 0 => str[IF pos < size THEN pos ELSE size - 1] = NUL
=============================================================================

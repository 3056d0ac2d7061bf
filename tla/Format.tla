-------------------------------- MODULE Format --------------------------------
(***************************************************************************)
(* Format_Output, the printf of kernel and user programs: the states in      *)
(* which a format is read, a step a character, and the layout of what a       *)
(* conversion prints.  Arguments are the values of one conversion; words are   *)
(* 2^LongBits and narrower.  %n stores nothing here: no count is kept.         *)
(* Numbers of more than NDIGITS_MAX = 43 digits, which only a precision can     *)
(* ask for, are left out: there ASSERT loops for ever (fmtout.c:190).  Formats   *)
(* must ask for fewer.                                                        *)
(***************************************************************************)
EXTENDS Integers, Sequences, SequencesExt, FiniteSets, FiniteSetsExt

CONSTANTS
  Formats,        (* the formats                                             *)
  Numbers,        (* what an integer conversion is given, as a signed long     *)
  Strings,        (* what a string conversion is given                        *)
  LongBits, IntBits, ShortBits, CharBits,
  PointerDigits

Numeral == <<"0", "1", "2", "3", "4", "5", "6", "7", "8", "9">>
Hex     == Numeral \o <<"a", "b", "c", "d", "e", "f">>
HEX     == Numeral \o <<"A", "B", "C", "D", "E", "F">>
Digits  == Range(Numeral)
Value(d) == (CHOOSE i \in 1..10 : Numeral[i] = d) - 1
Unset   == -1       (* no precision was given                                *)

VARIABLES
  format, value, text,      (* the arguments                                 *)
  rest, state, flags, width, prec, rank,
  out

vars == <<format, value, text, rest, state, flags, width, prec, rank, out>>

Start(f, v, t) ==
  /\ format = f /\ value = v /\ text = t
  /\ rest = format /\ state = "normal"
  /\ flags = {} /\ width = 0 /\ prec = Unset /\ rank = 0
  /\ out = <<>>
Init == \E f \in Formats, v \in Numbers, t \in Strings : Start(f, v, t)

-----------------------------------------------------------------------------
(* format_int *)

Repeat(ch, k) == [i \in 1..k |-> ch]

Bits(r) == CASE r = -2 -> CharBits [] r = -1 -> ShortBits [] r = 0 -> IntBits [] OTHER -> LongBits
Unsigned(v, bits) == v % (2 ^ bits)
Signed(v, bits) == LET u == Unsigned(v, bits) IN IF u >= 2 ^ (bits - 1) THEN u - 2 ^ bits ELSE u

(* How many digits a number has, none for zero, and k of them; those far to the   *)
(* left are zeros.                                                             *)
NumDigits(v, base) == Min({k \in 0..LongBits : v < base ^ k})
DigitsOf(v, base, k, digits) ==
  [i \in 1..k |-> IF k - i > LongBits THEN "0" ELSE digits[1 + ((v \div (base ^ (k - i))) % base)]]
(* A tick mark before every group of skip digits, counted from the right.         *)
Ticked(ds, skip) ==
  FoldRight(LAMBDA i, acc : <<ds[i]>> \o (IF i < Len(ds) /\ (Len(ds) - i) % skip = 0 THEN <<"_">> ELSE <<>>) \o acc,
            [i \in 1..Len(ds) |-> i], <<>>)

(* Mutant of Layout: a sign takes no room.                                      *)
LayoutSignless(sign, digits, w, f) ==
  LET pad(ch) == Repeat(ch, w - Len(digits))
  IN IF "-" \in f THEN sign \o digits \o pad(" ")
     ELSE IF "0" \in f THEN sign \o pad("0") \o digits ELSE pad(" ") \o sign \o digits
Layout(sign, digits, w, f) ==
  LET pad(ch) == Repeat(ch, w - Len(sign) - Len(digits))
  IN IF "-" \in f THEN sign \o digits \o pad(" ")
     ELSE IF "0" \in f THEN sign \o pad("0") \o digits ELSE pad(" ") \o sign \o digits

(* v is signed for d, and already cut to the width of its type.                  *)
format_int(v, f, base, w, p) ==
  LET minus == v < 0
      size == IF minus THEN -v ELSE v
      needed == NumDigits(size, base)
      least == IF "#" \in f /\ base = 8 /\ p < needed + 1 THEN needed + 1 ELSE p
      count == IF needed < least THEN least ELSE IF size = 0 THEN 1 ELSE needed
      plain == DigitsOf(size, base, count, IF "upper" \in f THEN HEX ELSE Hex)
      ds == IF "'" \in f THEN Ticked(plain, IF base = 16 THEN 4 ELSE 3) ELSE plain
      sign == (IF minus THEN <<"-">> ELSE IF "+" \in f THEN <<"+">> ELSE IF " " \in f THEN <<" ">> ELSE <<>>)
              \o (IF "#" \in f /\ base = 16 THEN <<"0", IF "upper" \in f THEN "X" ELSE "x">> ELSE <<>>)
  IN Layout(sign, ds, w, f)

format_string(s, f, w, p) ==
  LET shown == IF p # Unset /\ Len(s) > p THEN SubSeq(s, 1, p) ELSE s
  IN IF "-" \in f THEN shown \o Repeat(" ", w - Len(shown))
     ELSE Repeat(IF "0" \in f THEN "0" ELSE " ", w - Len(shown)) \o shown

-----------------------------------------------------------------------------
(* Format_Output *)

Convert(ch, r) ==
  CASE ch \in {"d", "i"}  -> format_int(Signed(value, Bits(r)), flags, 10, width, prec)
    [] ch = "u"         -> format_int(Unsigned(value, Bits(r)), flags, 10, width, prec)
    [] ch = "o"         -> format_int(Unsigned(value, Bits(r)), flags, 8, width, prec)
    [] ch = "x"         -> format_int(Unsigned(value, Bits(r)), flags, 16, width, prec)
    [] ch = "X"         -> format_int(Unsigned(value, Bits(r)), flags \cup {"upper"}, 16, width, prec)
    [] ch = "p"         -> format_int(Unsigned(value, LongBits), flags \cup {"#"}, 16, width, PointerDigits)
    [] ch = "P"         -> format_int(Unsigned(value, LongBits), flags \cup {"#", "upper"}, 16, width, PointerDigits)
    [] ch = "s"         -> format_string(text, flags, width, prec)
    [] ch = "c"         -> format_string(SubSeq(text, 1, 1), flags, width, prec)
    [] OTHER            -> <<ch>>

Take == rest' = Tail(rest) /\ UNCHANGED <<format, value, text>>
Again(s) == state' = s /\ UNCHANGED <<format, value, text, rest, flags, width, prec, rank, out>>

Ordinary ==
  /\ state = "normal" /\ rest # <<>> /\ Take
  /\ IF Head(rest) = "%"
     THEN /\ state' = "flags" /\ flags' = {} /\ width' = 0 /\ prec' = Unset /\ rank' = 0
          /\ UNCHANGED out
     ELSE out' = Append(out, Head(rest)) /\ UNCHANGED <<state, flags, width, prec, rank>>

Flag ==
  /\ state = "flags" /\ rest # <<>>
  /\ IF Head(rest) \in {"-", "+", "'", " ", "#", "0"}
     THEN Take /\ flags' = flags \cup {Head(rest)} /\ UNCHANGED <<state, width, prec, rank, out>>
     ELSE Again("width")

(* A star takes the next argument, an int.                                      *)
Star == Signed(value, IntBits)

Width ==
  /\ state = "width" /\ rest # <<>>
  /\ \/ Head(rest) \in Digits /\ Take /\ width' = width * 10 + Value(Head(rest))
        /\ UNCHANGED <<state, flags, prec, rank, out>>
     \/ Head(rest) = "*" /\ Take /\ UNCHANGED <<state, prec, rank, out>>
        /\ width' = (IF Star < 0 THEN -Star ELSE Star)
        /\ flags' = (IF Star < 0 THEN flags \cup {"-"} ELSE flags)
     \/ Head(rest) = "." /\ Take /\ prec' = 0 /\ state' = "prec" /\ UNCHANGED <<flags, width, rank, out>>
     \/ Head(rest) \notin Digits \cup {"*", "."} /\ Again("modifiers")

Precision ==
  /\ state = "prec" /\ rest # <<>>
  /\ \/ Head(rest) \in Digits /\ Take /\ prec' = prec * 10 + Value(Head(rest))
        /\ UNCHANGED <<state, flags, width, rank, out>>
     \/ Head(rest) = "*" /\ Take /\ prec' = (IF Star < 0 THEN Unset ELSE Star)
        /\ UNCHANGED <<state, flags, width, rank, out>>
     \/ Head(rest) \notin Digits \cup {"*"} /\ Again("modifiers")

Modifier ==
  /\ state = "modifiers" /\ rest # <<>> /\ Take
  /\ IF Head(rest) \in {"h", "l", "j", "z", "t", "L", "q"}
     THEN /\ rank' = CASE Head(rest) = "h"               -> rank - 1
                       [] Head(rest) = "l"               -> rank + 1
                       [] Head(rest) \in {"j", "z", "t"} -> 1
                       [] Head(rest) \in {"L", "q"}      -> rank + 2
          /\ UNCHANGED <<state, flags, width, prec, out>>
     ELSE /\ out' = out \o Convert(Head(rest), IF rank < -2 THEN -2 ELSE IF rank > 1 THEN 1 ELSE rank)
          /\ state' = "normal" /\ UNCHANGED <<flags, width, prec, rank>>

Next == Ordinary \/ Flag \/ Width \/ Precision \/ Modifier

Spec == Init /\ [][Next]_vars

-----------------------------------------------------------------------------
(* Properties *)

(* What a format of one conversion asks for, read without the machine: its width,  *)
(* its conversion, and the type that h and l make of an int.                     *)
Before(ch)  == SubSeq(format, 1, Min({i \in DOMAIN format : format[i] = ch} \cup {Len(format) + 1}) - 1)
Count(ch)   == Cardinality({i \in DOMAIN format : format[i] = ch})
InBase(ds, base, numeral) ==
  FoldLeft(LAMBDA sum, d : sum * base + (CHOOSE i \in 1..base : numeral[i] = d) - 1, 0, ds)
Conversions == {"d", "i", "u", "o", "x", "X", "p", "P"}
Asked       == IF Last(Before(".")) = "*" \/ "*" \in Range(Before("."))
               THEN (IF Star < 0 THEN -Star ELSE Star)
               ELSE InBase(SelectSeq(Before("."), LAMBDA ch : ch \in Digits), 10, Numeral)
Type        == IF Range(format) \cap {"j", "z", "t"} # {} THEN LongBits ELSE Bits(Count("l") - Count("h"))
Base        == CASE Last(format) \in {"x", "X", "p", "P"} -> 16 [] Last(format) = "o" -> 8 [] OTHER -> 10

(* The number that was printed, without sign, 0x, tick marks and spaces.           *)
Printed ==
  LET all == SelectSeq(out, LAMBDA ch : ch \notin {" ", "_"})
      unsigned == IF Head(all) \in {"-", "+"} THEN Tail(all) ELSE all
      digits == IF Base = 16 /\ (Last(format) \in {"p", "P"} \/ "#" \in Range(format)) THEN Tail(Tail(unsigned)) ELSE unsigned
      size == InBase(digits, Base, IF Last(format) \in {"X", "P"} THEN HEX ELSE Hex)
  IN IF Head(all) = "-" THEN -size ELSE size

(* A number is printed as the value it has in the type the format names, in as      *)
(* many places as the width asks for and no more than that if it is padded, with   *)
(* every mix of flags, precision and sign (fmtout.c:131, 153, 167).              *)
NumbersReadBack ==
  rest = <<>> /\ state = "normal" /\ Last(format) \in Conversions =>
    /\ Printed = CASE Last(format) \in {"d", "i"} -> Signed(value, Type)
                   [] Last(format) \in {"p", "P"} -> Unsigned(value, LongBits)
                   [] OTHER -> Unsigned(value, Type)
    /\ Len(out) >= Asked
    /\ Len(out) > Asked => Last(out) # " " /\ (Head(out) = " " => " " \in Range(format))
=============================================================================

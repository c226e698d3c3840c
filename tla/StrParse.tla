------------------------------- MODULE StrParse --------------------------------
(***************************************************************************)
(* strparse.c: integers and data from strings, which are sequences of      *)
(* characters here.  Machine integers have WordBits bits; a signed one is  *)
(* its two's complement.                                                   *)
(***************************************************************************)
EXTENDS Integers, Sequences, FiniteSetsExt

CONSTANTS
    WordBits    \* bound: the width of uintmax_t

ASSUME WordBitsAssumption == WordBits \in Nat \ {0}

Modulus == 2 ^ WordBits
INTMAX_MAX == 2 ^ (WordBits - 1) - 1

HexDigits == <<"0", "1", "2", "3", "4", "5", "6", "7", "8", "9", "a", "b", "c", "d", "e", "f">>

(* hex_digit: -1 for what is no digit. *)
hex_digit(c) ==
    IF \E d \in 1 .. 16 : HexDigits[d] = c THEN (CHOOSE d \in 1 .. 16 : HexDigits[d] = c) - 1
    ELSE -1

IsDigit(c, base) == hex_digit(c) \in 0 .. base - 1

(* How many digits s starts with. *)
LeadingDigits(s, base) ==
    CHOOSE n \in 0 .. Len(s) :
        /\ \A i \in 1 .. n : IsDigit(s[i], base)
        /\ n < Len(s) => ~IsDigit(s[n + 1], base)

(* A prefix counts only if something follows it ... *)
BasePrefix(s) ==
    IF Len(s) < 2 \/ s[1] # "0" THEN 0
    ELSE CASE s[2] = "x" -> 16 [] s[2] = "o" -> 8 [] s[2] = "b" -> 2 [] OTHER -> 0

(* handle_base_prefix: in base 16, 0b is taken for the prefix, too.         *)
handle_base_prefix(s, base) ==
    IF BasePrefix(s) = 0 THEN [n |-> 0, base |-> base] ELSE [n |-> 2, base |-> BasePrefix(s)]

Signed(s) == s # <<>> /\ s[1] \in {"+", "-"}

(* The greatest value that is no signed overflow; none is too great for an  *)
(* unsigned integer.                                                        *)
Limit(is_signed, negate) ==
    CASE ~is_signed -> Modulus - 1
      [] is_signed /\ ~negate -> INTMAX_MAX
      [] is_signed /\ negate -> INTMAX_MAX + 1

(* The test for an overflow when a digit takes value to next. *)
Overflows(value, next, is_signed, negate) ==
    IF is_signed THEN next > Limit(is_signed, negate) ELSE next < value

(* strtoint: the result, the value and how many characters were taken.  The *)
(* value wraps around as digits are added.                                  *)
strtoint(s, is_signed, base0) ==
    LET sign == IF Signed(s) THEN 1 ELSE 0
        negate == Signed(s) /\ s[1] = "-"
        prefix == handle_base_prefix(SubSeq(s, sign + 1, Len(s)), base0)
        skip == sign + prefix.n
        rest == SubSeq(s, skip + 1, Len(s))
        digits == LeadingDigits(rest, prefix.base)
        value[i \in 0 .. digits] ==
            IF i = 0 THEN 0 ELSE (value[i - 1] * prefix.base + hex_digit(rest[i])) % Modulus
        over == {i \in 1 .. digits : Overflows(value[i - 1], value[i], is_signed, negate)}
        taken == IF over = {} THEN digits ELSE Min(over) - 1
    IN [n |-> skip + taken,
        value |-> IF negate THEN (-value[taken]) % Modulus ELSE value[taken],
        result |-> IF digits = 0 THEN "NODIGITS"
                   ELSE IF over # {} THEN "OVERFLOW"
                   ELSE IF digits < Len(rest) THEN "BADDIGIT" ELSE "OK"]

(* strtodata: the digits are taken in bytes; there is no base 8.            *)
strtodata(s, base0) ==
    LET prefix == handle_base_prefix(s, base0)
        rest == SubSeq(s, prefix.n + 1, Len(s))
        per_byte == CASE prefix.base = 16 -> 2 [] prefix.base = 4 -> 4 [] prefix.base = 2 -> 8
        digits == LeadingDigits(rest, prefix.base)
    IN CASE prefix.base = 8 -> [size |-> 0, n |-> 0, result |-> "BADBASE"]
         [] prefix.base # 8 ->
            [size |-> digits \div per_byte, n |-> prefix.n + digits,
             result |-> IF digits = 0 THEN "NODIGITS"
                        ELSE IF digits % per_byte # 0 THEN "NEEDDIGIT"
                        ELSE IF digits < Len(rest) THEN "BADDIGIT" ELSE "OK"]

-----------------------------------------------------------------------------
(* The reference: what the digits of s denote, without a bound.             *)
Denotes(s, base0) ==
    LET sign == IF Signed(s) THEN 1 ELSE 0
        prefix == handle_base_prefix(SubSeq(s, sign + 1, Len(s)), base0)
        value[i \in 0 .. Len(s)] ==
            IF i <= sign + prefix.n THEN 0 ELSE value[i - 1] * prefix.base + hex_digit(s[i])
    IN IF Signed(s) /\ s[1] = "-" THEN -value[Len(s)] ELSE value[Len(s)]

Fits(v, is_signed) ==
    IF is_signed THEN v \in -(INTMAX_MAX + 1) .. INTMAX_MAX ELSE v \in -(Modulus - 1) .. Modulus - 1

(* An integer that fits is parsed, to its value. *)
Exact(s, is_signed, base) ==
    LET r == strtoint(s, is_signed, base)
    IN r.result = "OK" /\ Fits(Denotes(s, base), is_signed) => r.value = Denotes(s, base) % Modulus

FitsIsParsed(s, is_signed, base) ==
    LET r == strtoint(s, is_signed, base)
    IN r.result = "OVERFLOW" => ~Fits(Denotes(SubSeq(s, 1, r.n + 1), base), is_signed)

(* One that does not is an overflow, says strparse.h.  But the value that   *)
(* wrapped around need not be below the one before.                         *)
OverflowNoticed(s, is_signed, base) ==
    LET r == strtoint(s, is_signed, base)
    IN r.result = "OK" => Fits(Denotes(s, base), is_signed)

===============================================================================

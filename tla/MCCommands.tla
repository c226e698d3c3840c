------------------------------ MODULE MCCommands -------------------------------
(* The parser and the handlers for every command, each with a few words.   *)
(* The assumptions check the conversions of strparse.c against what the    *)
(* digits denote, for every string of a few characters.                    *)
EXTENDS Commands

Attached == {<<>>, <<"8">>, <<"f">>, <<"1", "p">>, <<"?">>}
Words == {<<"8">>, <<"-", "8">>, <<"-", "f">>, <<"-", "p">>, <<"-", "x">>, <<"f", "f">>,
          <<"-">>, <<"_sym">>, <<"8", "0", "0">>, <<"8", ":", "1">>, <<"1", "-", "f">>}
FewWords == {<<"8">>, <<"-", "x", "8">>, <<"a">>, <<"-", "f">>, <<"-">>}
ClassWords == {<<"a">>, <<"-", "k">>, <<"-", "b">>}
Names == {commands[i].command : i \in DOMAIN commands}

UpTo(n, S) == UNION {[1 .. k -> S] : k \in 0 .. n}
Entered(names, attached, n, S) ==
    {<<name \o more>> \o rest : name \in names, more \in attached, rest \in UpTo(n, S)}

const_Lines ==
    {<<>>, <<<<"?">>>>, <<<<"x">>>>}
    \cup Entered(Names, Attached, 1, Words)
    \cup Entered(Names, {<<>>, <<"8">>}, 2, Words)
    \cup Entered({<<"r">>, <<"w">>, <<"w", "d">>}, {<<>>, <<"1", "d", "f">>}, 3, FewWords)
    \cup Entered({<<"f", "c">>, <<"c", "m">>, <<"c", "z">>, <<"v", "t">>}, {<<>>}, 3, ClassWords)
    \cup Entered({<<"v", "m", "p">>}, {<<>>}, 3, {<<"r", "x">>, <<"8">>})
    \cup Entered({<<"k", "c", "d">>, <<"p", "c", "a">>, <<"k", "s">>}, {<<"o">>, <<"v">>, <<"u">>},
                 2, FewWords)

const_Characters ==
    UNION {ToSet(word) : word \in Names \cup Attached \cup Words \cup FewWords \cup ClassWords}
    \cup {"x", "o", "v", "u"}

-----------------------------------------------------------------------------
Strings(n, S) == UNION {[1 .. k -> S] : k \in 1 .. n}
DecimalStrings == Strings(3, {"0", "1", "2", "9"})
HexStrings == Strings(3, {"0", "1", "8", "f", "x", "b"})
Minus(S) == {<<"-">> \o s : s \in S}

(* An integer that fits a word is parsed exactly, and only one that does    *)
(* not is refused as an overflow.                                           *)
ASSUME ParsedExactly ==
    \A is_signed \in BOOLEAN :
        /\ \A s \in DecimalStrings \cup Minus(DecimalStrings) :
              Exact(s, is_signed, 10) /\ FitsIsParsed(s, is_signed, 10)
        /\ \A s \in HexStrings \cup Minus(HexStrings) :
              Exact(s, is_signed, 16) /\ FitsIsParsed(s, is_signed, 16)

(* A protection is accepted when it is rwx with letters left out or dashed, *)
(* and then sets the letters that are there.                                *)
Dashed(kept, dashed) ==
    SelectSeq([i \in 1 .. 3 |-> IF i \in kept THEN <<"r", "w", "x">>[i]
                                ELSE IF i \in dashed THEN "-" ELSE "skip"],
              LAMBDA c : c # "skip")
ASSUME Protections ==
    \A s \in Strings(4, {"r", "w", "x", "-"}) :
        LET ways == {k \in SUBSET (1 .. 3) : \E d \in SUBSET ((1 .. 3) \ k) : Dashed(k, d) = s}
        IN /\ "invalid" \notin parse_protection(s) <=> ways # {}
           /\ ways # {} => parse_protection(s) = ToSet(s) \ {"-"}

(* Not every overflow is noticed, signed or not. *)
ASSUME OverflowMissed ==
    /\ \E s \in HexStrings : ~OverflowNoticed(s, FALSE, 16)
    /\ \E s \in DecimalStrings : ~OverflowNoticed(s, TRUE, 10)
===============================================================================

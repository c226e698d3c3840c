------------------------------- MODULE Classes -------------------------------
(***************************************************************************)
(* The C++ classes of the kernel: mangle.c, which writes and reads the     *)
(* symbols of nested class names, and class.c, which looks them up.        *)
(*                                                                         *)
(* A character is a number: digits are 0 .. 9, and the letters N and E,    *)
(* which mean something in a mangled name, come first among the letters.   *)
(* A prefix that is read as a whole is a single character.                 *)
(***************************************************************************)
EXTENDS Naturals, SequencesExt

MANGLE_PREFIX == 20
VTABLE == 21
NESTED_PREFIX == 10
NESTED_SUFFIX == 11
UnsignedWidth == 64    \* stands for 2^32, the values of an unsigned int
VTABLE_OFFSET_SIZE == 2

(* "%zu%s"; class names here have less than 10 characters.                  *)
Named(name) == <<Len(name)>> \o name

write_nested_name(names) ==
    LET all == FlattenSeq([i \in DOMAIN names |-> Named(names[i])])
    IN IF Len(names) > 1 THEN <<NESTED_PREFIX>> \o all \o <<NESTED_SUFFIX>> ELSE all

mangle_class_name(names) == <<MANGLE_PREFIX>> \o write_nested_name(names)
mangle_class_vtable(names) == <<MANGLE_PREFIX, VTABLE>> \o write_nested_name(names)

-----------------------------------------------------------------------------
(* Reading: each function returns the rest of the string, or fails.         *)
Failed == [ok |-> FALSE]

readstr(m, char) ==
    IF m # <<>> /\ Head(m) = char THEN [ok |-> TRUE, rest |-> Tail(m)] ELSE Failed

Digits(m) == SelectInSeq(Append(m, NESTED_PREFIX), LAMBDA c : c > 9) - 1

(* The length is a size_t, but each new digit goes through an unsigned int: *)
(* a result that is below the length so far is refused, and a larger one is *)
(* taken for right.  -1 stands for a length that was refused.               *)
LengthOf(digits) ==
    FoldLeft(LAMBDA len, d :
                LET newlen == (len * 10 + d) % UnsignedWidth
                IN IF len = -1 \/ newlen < len THEN -1 ELSE newlen,
             0, digits)

read_length(m) ==
    LET len == LengthOf(SubSeq(m, 1, Digits(m)))
    IN IF m = <<>> \/ Head(m) = 0 \/ len \in {-1, 0} THEN Failed
       ELSE [ok |-> TRUE, length |-> len, rest |-> SubSeq(m, Digits(m) + 1, Len(m))]

read_name(m) ==
    LET length == read_length(m)
    IN IF ~length.ok THEN Failed
       ELSE IF Len(length.rest) < length.length THEN Failed
       ELSE [ok |-> TRUE, name |-> SubSeq(length.rest, 1, length.length),
             rest |-> SubSeq(length.rest, length.length + 1, Len(length.rest))]

(* The loop over the names of a nested name reads up to its end.            *)
Names(m) ==
    LET read[i \in 0 .. Len(m)] ==
            IF i = 0 THEN [ok |-> TRUE, names |-> <<>>, rest |-> m, ended |-> FALSE]
            ELSE LET so_far == read[i - 1]
                     next == IF so_far.ok /\ ~so_far.ended THEN read_name(so_far.rest) ELSE Failed
                 IN IF ~so_far.ok \/ so_far.ended THEN so_far
                    ELSE IF ~next.ok THEN [so_far EXCEPT !.ok = FALSE]
                    ELSE LET ended == i > 1 /\ readstr(next.rest, NESTED_SUFFIX).ok
                         IN [ok |-> TRUE, names |-> Append(so_far.names, next.name),
                             rest |-> IF ended THEN Tail(next.rest) ELSE next.rest,
                             ended |-> ended]
    IN read[Len(m)]

read_nested_name(m) ==
    IF readstr(m, NESTED_PREFIX).ok
    THEN LET all == Names(Tail(m))
         IN IF all.ok /\ all.ended THEN all ELSE Failed
    ELSE LET one == read_name(m)
         IN IF one.ok THEN [ok |-> TRUE, names |-> <<one.name>>, rest |-> one.rest] ELSE Failed

(* The names, or none for a symbol that is not that of a vtable.            *)
demangle_class_vtable(symbol) ==
    IF Len(symbol) < 2 \/ SubSeq(symbol, 1, 2) # <<MANGLE_PREFIX, VTABLE>> THEN <<>>
    ELSE LET all == read_nested_name(SubSeq(symbol, 3, Len(symbol)))
         IN IF all.ok /\ all.rest = <<>> THEN all.names ELSE <<>>

-----------------------------------------------------------------------------
(* resolve_symbol over a map from symbols to their address and size.        *)
resolve_symbol(symbols, symbol) ==
    IF symbol \in DOMAIN symbols THEN [kr |-> "SUCCESS", address |-> symbols[symbol].address,
                                       size |-> symbols[symbol].size]
    ELSE [kr |-> "NOT_FOUND", address |-> 0, size |-> 0]

METACLASS_INSTANCE_NAME == <<12, 10>>
class_metaclass(symbols, class) ==
    resolve_symbol(symbols, mangle_class_name(<<class, METACLASS_INSTANCE_NAME>>))

class_vtable(symbols, class) ==
    LET found == resolve_symbol(symbols, mangle_class_vtable(<<class>>))
    IN IF found.kr # "SUCCESS" THEN found
       ELSE [found EXCEPT !.address = @ + VTABLE_OFFSET_SIZE, !.size = @ - VTABLE_OFFSET_SIZE]

(* The class whose vtable has the address.  A vtable of a nested class,     *)
(* whose name has more than one part, ends in a failed assertion.           *)
class_vtable_lookup(symbols, address) ==
    LET hits == {s \in DOMAIN symbols : symbols[s].address <= address
                                        /\ address < symbols[s].address + symbols[s].size}
        names == demangle_class_vtable(CHOOSE s \in hits : TRUE)
    IN IF hits = {} \/ names = <<>> THEN [kr |-> "NOT_FOUND", class |-> <<>>]
       ELSE IF Len(names) > 1 THEN [kr |-> "ABORTS", class |-> <<>>]
       ELSE [kr |-> "SUCCESS", class |-> names[1]]

=============================================================================

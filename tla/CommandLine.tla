------------------------------ MODULE CommandLine ------------------------------
(***************************************************************************)
(* The command parser of memctl/command.c.  A command line is a sequence   *)
(* of words and a word a sequence of characters; the name of a symbol is   *)
(* one character here.  The first word starts with the name of a command,  *)
(* to which options may be attached (r8d for r -8 -d).  Options may be     *)
(* unnamed, so what follows the name is tried as the value of the unnamed  *)
(* option first and taken back when it is none.                            *)
(*                                                                         *)
(* Which memory is on the heap is modelled, what is in it is not.          *)
(***************************************************************************)
EXTENDS Cli, StrParse, SequencesExt, FiniteSets

CONSTANTS
    Characters,  \* what words are made of
    Lines        \* bound: the command lines entered

ASSUME LinesAssumption == \A entered \in Lines : entered \in Seq(Seq(Characters))

SymbolAddress == Modulus \div 2
Top == Modulus - 1

VARIABLES
    line,        \* argv
    pc,
    cmd,         \* the index of the command that was found, or 0
    at,          \* the position: the rest of the current word, the words left, argidx
    first,       \* the first option that is still tried (state.start)
    bad_option,
    arguments,
    heap,        \* the arguments that own memory; 0 for memory nobody owns
    success

vars == <<line, pc, cmd, at, first, bad_option, arguments, heap, success>>

-----------------------------------------------------------------------------
Numeral(s, base) == strtoint(s, FALSE, base).value

(* The position in the command line; arg is NULL when no word is left.      *)
ArgIsNull(p) == p.argv = <<>>
AtEnd(p) == p.arg = <<>>

(* A faulty advance, which drops what is left of the word. *)
advance_always(p) ==
    IF ArgIsNull(p) THEN p
    ELSE [argv |-> Tail(p.argv), argidx |-> p.argidx + 1,
          arg |-> IF Len(p.argv) > 1 THEN p.argv[2] ELSE <<>>]

(* Another one, which forgets to count the word. *)
advance_in_place(p) ==
    IF ArgIsNull(p) \/ ~AtEnd(p) THEN p
    ELSE [p EXCEPT !.argidx = @ + 1, !.arg = IF Len(p.argv) > 1 THEN p.argv[2] ELSE <<>>]

advance(p) ==
    IF ArgIsNull(p) \/ ~AtEnd(p) THEN p
    ELSE [argv |-> Tail(p.argv), argidx |-> p.argidx + 1,
          arg |-> IF Len(p.argv) > 1 THEN p.argv[2] ELSE <<>>]

Take(p, n) == [p EXCEPT !.arg = SubSeq(@, n + 1, Len(@))]
NoWords == [arg |-> <<>>, argv |-> <<>>, argidx |-> 0]

(* What a parse function returns, the argument's type and the text it is    *)
(* from; "usage" is a usage error, "abort" a failed assertion.              *)
Parsed(p, type, text) ==
    [result |-> "ok", p |-> p, type |-> type, text |-> text, keep_error |-> FALSE, lost |-> FALSE]
Failed(p, type) ==
    [result |-> "usage", p |-> p, type |-> type, text |-> <<>>, keep_error |-> FALSE,
     lost |-> FALSE]

(* parse_int_internal for the first len characters *)
parse_int_internal(p, argtype, len) ==
    LET base == IF argtype = "ADDRESS" THEN 16 ELSE 10
        s == SubSeq(p.arg, 1, len)
        sr == strtoint(s, argtype = "INT", base)
    IN IF \/ sr.result \in {"OVERFLOW", "NODIGITS"}
          \/ sr.result = "BADDIGIT" /\ (p.argidx # 0 \/ argtype = "ADDRESS")
       THEN Failed(p, "NONE")
       ELSE Parsed(Take(p, sr.n), argtype, SubSeq(s, 1, sr.n))

verify_width(text) == Numeral(text, 10) \in {1, 2, 4, 8}

(* A faulty parse_width, which leaves the type of an integer. *)
parse_width_as_integer(p) ==
    LET r == parse_int_internal(p, "UINT", Len(p.arg))
    IN IF r.result = "ok" /\ ~verify_width(r.text)
       THEN [Failed(r.p, "UINT") EXCEPT !.keep_error = TRUE]
       ELSE r

parse_width(p) ==
    LET r == parse_int_internal(p, "UINT", Len(p.arg))
    IN IF r.result # "ok" THEN r
       ELSE IF verify_width(r.text) THEN [r EXCEPT !.type = "WIDTH"]
       ELSE [Failed(r.p, "UINT") EXCEPT !.keep_error = TRUE]

parse_data(p) ==
    CASE strtodata(p.arg, 16).result = "OK" -> Parsed(Take(p, Len(p.arg)), "DATA", p.arg)
      [] strtodata(p.arg, 16).result = "NODIGITS" -> [Failed(p, "NONE") EXCEPT !.result = "abort"]
      [] strtodata(p.arg, 16).result \notin {"OK", "NODIGITS"} -> Failed(p, "NONE")

(* parse_string, and parse_symbol, which takes any string *)
parse_rest(p, type) == Parsed(Take(p, Len(p.arg)), type, p.arg)

(* extract_symbol: what looks like a symbol. *)
IsSymbol(s) == s # <<>> /\ (s[1] = "_sym" \/ Contains(s, ":"))

parse_address_internal(p, len, found) ==
    IF IsSymbol(SubSeq(p.arg, 1, len))
    THEN IF found THEN Parsed(Take(p, len), "ADDRESS", SubSeq(p.arg, 1, len))
         ELSE Failed(p, "NONE")
    ELSE parse_int_internal(p, "ADDRESS", len)

AddressOf(text) == IF IsSymbol(text) THEN SymbolAddress ELSE Numeral(text, 16)

parse_range(p, found) ==
    LET dashes == {i \in DOMAIN p.arg : p.arg[i] = "-"}
        dash == CHOOSE i \in dashes : \A j \in dashes : i <= j
        left == parse_address_internal(p, dash - 1, found)
        rest == Take(p, dash)
        right == parse_address_internal(rest, Len(rest.arg), found)
        start == IF dash = 1 THEN 0 ELSE AddressOf(left.text)
        end == IF AtEnd(rest) THEN Top ELSE AddressOf(right.text)
    IN IF \/ dashes = {}
          \/ dash > 1 /\ left.result # "ok"
          \/ ~AtEnd(rest) /\ right.result # "ok"
          \/ start > end
       THEN Failed(p, "NONE")
       ELSE Parsed(Take(p, Len(p.arg)), "RANGE", p.arg)

(* parse_word_internal for one word: value or value:width *)
IsWord(word) ==
    LET seps == {i \in DOMAIN word : word[i] = ":"}
        sep == CHOOSE i \in seps : \A j \in seps : i <= j
        value == IF seps = {} THEN word ELSE SubSeq(word, 1, sep - 1)
        width == SubSeq(word, sep + 1, Len(word))
    IN /\ strtoint(value, FALSE, 10).result = "OK"
       /\ seps # {} => strtoint(width, FALSE, 10).result = "OK" /\ verify_width(width)

(* parse_words takes all words there are.  Those before one that is none    *)
(* are on the heap already; only running out of memory frees them.          *)
parse_words(p, memory) ==
    LET bad == {i \in DOMAIN p.argv : ~IsWord(p.argv[i])}
    IN IF p.argv # <<>> /\ 1 \notin bad /\ ~memory
       THEN [Failed(p, "WORD") EXCEPT !.result = "error"]
       ELSE IF bad = {} THEN Parsed(NoWords, "WORDS", FlattenSeq(p.argv))
       ELSE [Failed(p, "UINT") EXCEPT !.lost = (1 \notin bad)]

(* parse_fns *)
Parse(type, p, found, memory) ==
    CASE type = "NONE" -> Parsed(p, "NONE", <<>>)
      [] type = "WORDS" -> parse_words(p, memory)
      [] type # "NONE" /\ type # "WORDS" /\ ArgIsNull(p) -> Failed(p, "NONE")
      [] type \in {"INT", "UINT"} /\ ~ArgIsNull(p) -> parse_int_internal(p, type, Len(p.arg))
      [] type = "WIDTH" /\ ~ArgIsNull(p) -> parse_width(p)
      [] type = "DATA" /\ ~ArgIsNull(p) -> parse_data(p)
      [] type \in {"STRING", "SYMBOL"} /\ ~ArgIsNull(p) -> parse_rest(p, type)
      [] type = "ADDRESS" /\ ~ArgIsNull(p) -> parse_address_internal(p, Len(p.arg), found)
      [] type = "RANGE" /\ ~ArgIsNull(p) -> parse_range(p, found)

OnHeap == {"DATA", "SYMBOL", "WORDS"}

-----------------------------------------------------------------------------
Init ==
    /\ line \in Lines
    /\ pc = "find" /\ cmd = 0 /\ first = 1 /\ bad_option = FALSE
    /\ at = NoWords /\ arguments = <<>> /\ heap = {} /\ success = FALSE

Specs == commands[cmd].specs
(* option_count; the table has the options before the arguments. *)
option_count == Cardinality({i \in DOMAIN Specs : SpecIsOption(Specs[i])})

Finish(result) == pc' = "done" /\ success' = result

(* No command at all: help, or the REPL. *)
DefaultAction ==
    /\ pc = "find" /\ line = <<>>
    /\ \E result \in BOOLEAN : Finish(result)
    /\ UNCHANGED <<line, cmd, at, first, bad_option, arguments, heap>>

Matching(name) == {c \in DOMAIN commands : IsPrefix(commands[c].command, name)}
Best(name) ==
    CHOOSE c \in Matching(name) :
        \A d \in Matching(name) : Len(commands[d].command) <= Len(commands[c].command)

Help ==
    /\ pc = "find" /\ line # <<>>
    /\ LET name == Head(line) IN
          \/ name = <<"?">>
          \/ Matching(name) # {} /\ name = Append(commands[Best(name)].command, "?")
    /\ \E memory \in BOOLEAN : Finish(memory)
    /\ UNCHANGED <<line, cmd, at, first, bad_option, arguments, heap>>

UnknownCommand ==
    /\ pc = "find" /\ line # <<>> /\ Matching(Head(line)) = {} /\ Head(line) # <<"?">>
    /\ Finish(FALSE)
    /\ UNCHANGED <<line, cmd, at, first, bad_option, arguments, heap>>

(* find_command, then init_arguments and init_state of parse_command *)
FindCommand ==
    /\ pc = "find" /\ line # <<>> /\ Matching(Head(line)) # {}
    /\ LET best == commands[Best(Head(line))]
           rest == SubSeq(Head(line), Len(best.command) + 1, Len(Head(line)))
       IN /\ rest # <<"?">>
          /\ cmd' = Best(Head(line))
          /\ at' = [arg |-> rest, argv |-> line, argidx |-> 0]
          /\ arguments' = [i \in DOMAIN best.specs |->
                 [option |-> best.specs[i].option, argument |-> best.specs[i].argument,
                  present |-> FALSE, type |-> "NONE", text |-> <<>>]]
    /\ pc' = "options"
    /\ UNCHANGED <<line, first, bad_option, heap, success>>

-----------------------------------------------------------------------------
(* parse_option.  It starts by advancing to the next word, if there is      *)
(* nothing left of this one, and looks for a dash there.                    *)
NewWord == ArgIsNull(at) \/ AtEnd(at)
Here == advance(at)
Dash == NewWord /\ Len(Here.arg) > 1 /\ Here.arg[1] = "-"
OptionAt == IF Dash THEN Take(Here, 1) ELSE Here
Candidates == {i \in first .. option_count : IsPrefix(Specs[i].option, OptionAt.arg)}
Match == CHOOSE i \in Candidates : \A j \in Candidates : i <= j

(* Nothing is left, or the next word is no option: on to the arguments. *)
NoMoreOptions ==
    /\ pc = "options" /\ NewWord /\ ~Dash
    /\ at' = Here
    /\ pc' = "arguments" /\ first' = option_count + 1
    /\ UNCHANGED <<line, cmd, bad_option, arguments, heap, success>>

(* An argument may start with a dash, too.  The dash is put back. *)
DashButNoOption ==
    /\ pc = "options" /\ Dash /\ Candidates = {}
    /\ at' = Here /\ bad_option' = TRUE
    /\ pc' = "arguments" /\ first' = option_count + 1
    /\ UNCHANGED <<line, cmd, arguments, heap, success>>

UnrecognizedOption ==
    /\ pc = "options" /\ ~NewWord /\ Candidates = {}
    /\ pc' = "cleanup" /\ success' = FALSE
    /\ UNCHANGED <<line, cmd, at, first, bad_option, arguments, heap>>

IsOption == (Dash \/ ~NewWord) /\ Candidates # {}

DuplicateOption ==
    /\ pc = "options" /\ IsOption /\ arguments[Match].present
    /\ pc' = "cleanup" /\ success' = FALSE
    /\ UNCHANGED <<line, cmd, at, first, bad_option, arguments, heap>>

(* The value is in the next word when nothing is left of this one. *)
ValueAt(i) ==
    LET p == Take(OptionAt, Len(Specs[i].option))
    IN IF AtEnd(p) /\ Specs[i].type # "NONE" THEN advance(p) ELSE p

OptionValue(i, r) ==
    /\ r.result = "ok"
    /\ at' = r.p
    /\ arguments' = [arguments EXCEPT ![i].present = TRUE, ![i].type = r.type, ![i].text = r.text]
    /\ heap' = heap \cup (IF r.type \in OnHeap THEN {i} ELSE {})
    /\ UNCHANGED <<pc, success>>

(* What follows is not the value of the unnamed option: back to before it. *)
NotTheUnnamedOption(i, r) ==
    /\ r.result = "usage" /\ ~r.keep_error /\ Specs[i].option = <<>>
    /\ at' = OptionAt
    /\ arguments' = [arguments EXCEPT ![i].type = r.type]
    /\ UNCHANGED <<pc, heap, success>>

BadOption(i, r) ==
    /\ r.result = "usage" /\ (r.keep_error \/ Specs[i].option # <<>>)
    /\ arguments' = [arguments EXCEPT ![i].present = TRUE, ![i].type = r.type]
    /\ pc' = "cleanup" /\ success' = FALSE
    /\ UNCHANGED <<at, heap>>

(* An unnamed option is not tried twice. *)
ParseOption ==
    /\ pc = "options" /\ IsOption
    /\ \E i \in {Match} :
          /\ ~arguments[i].present
          /\ first' = IF Specs[i].option = <<>> THEN first + 1 ELSE first
          /\ \E p \in {ValueAt(i)} : \E r \in {Parse(Specs[i].type, p, TRUE, TRUE)} :
                OptionValue(i, r) \/ NotTheUnnamedOption(i, r) \/ BadOption(i, r)
    /\ UNCHANGED <<line, cmd, bad_option>>

-----------------------------------------------------------------------------
(* parse_arguments, one argument at a time; first is its index.             *)
Left(p) == ~ArgIsNull(p)

ArgumentValue(r) ==
    /\ r.result = "ok"
    /\ at' = advance(r.p)
    /\ arguments' = [arguments EXCEPT ![first].present = TRUE, ![first].type = r.type,
                                      ![first].text = r.text]
    /\ heap' = heap \cup (IF r.type \in OnHeap THEN {first} ELSE {})
    /\ bad_option' = FALSE /\ first' = first + 1
    /\ UNCHANGED <<pc, success>>

(* No word is left for an optional argument. *)
NoOptionalArgument(r) ==
    /\ r.result = "usage" /\ ~bad_option /\ ArgIsNull(at) /\ Specs[first].option = OPTIONAL
    /\ first' = Len(Specs) + 1
    /\ UNCHANGED <<pc, at, bad_option, arguments, heap, success>>

BadArgument(r) ==
    /\ r.result \in {"usage", "error"}
    /\ r.result = "usage" => bad_option \/ ~ArgIsNull(at) \/ Specs[first].option # OPTIONAL
    /\ arguments' = [arguments EXCEPT ![first].type = r.type]
    /\ heap' = heap \cup (IF r.lost THEN {0} ELSE {})
    /\ pc' = "cleanup" /\ success' = FALSE
    /\ UNCHANGED <<at, first, bad_option>>

(* assert *)
Abort(r) ==
    /\ r.result = "abort"
    /\ pc' = "aborted"
    /\ UNCHANGED <<at, first, bad_option, arguments, heap, success>>

ParseArgument ==
    /\ pc = "arguments" /\ first <= Len(Specs)
    /\ \E found, memory \in BOOLEAN :
          \E r \in {Parse(Specs[first].type, at, found, memory)} :
             \/ ArgumentValue(r)
             \/ NoOptionalArgument(r)
             \/ BadArgument(r)
             \/ Abort(r)
    /\ UNCHANGED <<line, cmd>>

UnexpectedArgument ==
    /\ pc = "arguments" /\ first > Len(Specs) /\ Left(at)
    /\ pc' = "cleanup" /\ success' = FALSE
    /\ UNCHANGED <<line, cmd, at, first, bad_option, arguments, heap>>

AllParsed ==
    /\ pc = "arguments" /\ first > Len(Specs) /\ ~Left(at)
    /\ pc' = "handler"
    /\ UNCHANGED <<line, cmd, at, first, bad_option, arguments, heap, success>>

(* cleanup_arguments frees what the type of an argument says it owns. *)
CleanupArguments ==
    /\ pc = "cleanup"
    /\ heap' = heap \ {i \in DOMAIN arguments : arguments[i].type \in OnHeap}
    /\ pc' = "done"
    /\ UNCHANGED <<line, cmd, at, first, bad_option, arguments, success>>

ParserNext ==
    \/ DefaultAction \/ Help \/ UnknownCommand \/ FindCommand
    \/ NoMoreOptions \/ DashButNoOption \/ UnrecognizedOption \/ DuplicateOption
    \/ ParseOption \/ ParseArgument \/ UnexpectedArgument \/ AllParsed
    \/ CleanupArguments

===============================================================================

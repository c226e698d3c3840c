---------------------------- MODULE CommandsProofs ----------------------------
(***************************************************************************)
(* What holds of a command line from its first character to the end of the *)
(* handler, for any words that were typed and any width of the integers:   *)
(* the parser leaves what the handler reads, and the handler calls only    *)
(* what it has loaded and looked for, touches memory only as it was asked  *)
(* to, and gives everything back.                                          *)
(*                                                                         *)
(* The table of the commands and the programs of the handlers are first    *)
(* shown to be well made, row by row and piece by piece; the inductive     *)
(* invariant then says that the parser keeps to the table and the handler  *)
(* to its program.                                                         *)
(***************************************************************************)
EXTENDS Commands, FiniteSetTheorems, SequenceTheorems, WellFoundedInduction, TLAPS

IsSeq(s) == Len(s) \in Nat /\ DOMAIN s = 1 .. Len(s)

LEMMA Concatenation ==
    ASSUME NEW a, NEW b, IsSeq(a), IsSeq(b)
    PROVE  /\ IsSeq(a \o b) /\ Len(a \o b) = Len(a) + Len(b)
           /\ \A i \in DOMAIN a : (a \o b)[i] = a[i]
           /\ \A i \in DOMAIN b : (a \o b)[Len(a) + i] = b[i]
           /\ \A i \in DOMAIN (a \o b) : i \in DOMAIN a \/ i - Len(a) \in DOMAIN b
BY DEF IsSeq

-----------------------------------------------------------------------------
(* The table of the commands: every row has its options first, then the    *)
(* arguments it needs, then at most one that may be left out, and in each  *)
(* place the type that the handler of the row reads there.                 *)

ArgTypes == {"NONE", "INT", "UINT", "WIDTH", "DATA", "STRING", "SYMBOL", "ADDRESS", "RANGE",
             "WORDS"}

(* The macro with which a handler reads an argument fits its entry.        *)
UseFits(use, spec) ==
    CASE use.get = "OPT_PRESENT" -> spec.option = use.option
      [] use.get = "OPT_GET_OR" -> /\ spec.option = use.option /\ spec.argument = use.argument
                                   /\ spec.type = use.type
      [] use.get = "ARG_GET" -> /\ spec.option = ARGUMENT
                                /\ spec.argument = use.argument /\ spec.type = use.type
      [] use.get = "ARG_GET_OR" -> /\ spec.option \in {ARGUMENT, OPTIONAL}
                                   /\ spec.argument = use.argument /\ spec.type = use.type
      [] use.get = "ARG_PRESENT" -> /\ spec.option = OPTIONAL
                                    /\ spec.argument = use.argument /\ spec.type = use.type

Macros == {"OPT_PRESENT", "OPT_GET_OR", "ARG_GET", "ARG_GET_OR", "ARG_PRESENT"}

OptionEntry(spec, use) ==
    /\ SpecIsOption(spec)
    /\ use.get \in Macros /\ UseFits(use, spec)
    /\ spec.type \in ArgTypes \ {"WORDS"}
    /\ IF spec.option = <<>> THEN spec.type = "WIDTH" ELSE Len(spec.option) = 1
ArgumentEntry(spec, use) ==
    /\ spec.option = ARGUMENT
    /\ use.get \in Macros /\ UseFits(use, spec)
    /\ spec.type \in ArgTypes \ {"WORDS"}
WordsEntry(spec, use) ==
    /\ spec.option = ARGUMENT
    /\ use.get \in Macros /\ UseFits(use, spec)
    /\ spec.type = "WORDS"
OptionalEntry(spec, use) ==
    /\ spec.option = OPTIONAL
    /\ use.get \in Macros /\ UseFits(use, spec)
    /\ spec.type \in ArgTypes \ {"WORDS"}

(* n entries, of which the first k are options; functions are called with  *)
(* words, and with nothing after them.                                     *)
RowFits(specs, uses, h, n, k) ==
    /\ DOMAIN specs = 1 .. n /\ Len(specs) = n
    /\ DOMAIN uses = 1 .. n
    /\ \A i \in 1 .. k : OptionEntry(specs[i], uses[i])
    /\ \A i \in k + 1 .. n :
          \/ ArgumentEntry(specs[i], uses[i])
          \/ i = n /\ OptionalEntry(specs[i], uses[i])
          \/ i = n /\ WordsEntry(specs[i], uses[i]) /\ h \in {"kc", "kcv"}

StraightHandlers ==
    {"i", "r", "rb", "ri", "rs", "w", "wd", "ws", "rif", "f", "fc", "cm", "cz", "vt", "fpr", "kc",
     "kcv", "kp", "kpm", "zs", "pca", "vm", "vmm", "vma", "vmd", "vmp", "ks", "a", "ap", "root",
     "quit"}
Handlers == StraightHandlers \cup {"vtl", "lc", "s", "kcd"}

RowOK(c) ==
    /\ \E n \in 0 .. 7, k \in 0 .. 7 : k <= n /\ RowFits(c.specs, Uses(c.handler), c.handler, n, k)
    /\ Len(c.command) \in 0 .. 4
    /\ c.handler \in Handlers

LEMMA MakeRow ==
    ASSUME NEW name, Len(name) \in 0 .. 4,
           NEW h \in Handlers, NEW specs,
           NEW n \in 0 .. 7, NEW k \in 0 .. 7, k <= n,
           RowFits(specs, Uses(h), h, n, k)
    PROVE  RowOK(Command(name, h, specs))
BY DEF RowOK, Command

LEMMA OptionEntries ==
    /\ OptionEntry(Width, UseWidth) /\ OptionEntry(Access, UseAccess)
    /\ OptionEntry(Kext, UseKext) /\ OptionEntry(Depth, UseDepth)
    /\ OptionEntry(Flag("d"), OptPresent("d")) /\ OptionEntry(Flag("f"), OptPresent("f"))
    /\ OptionEntry(Flag("p"), OptPresent("p")) /\ OptionEntry(Flag("h"), OptPresent("h"))
    /\ OptionEntry(Flag("k"), OptPresent("k")) /\ OptionEntry(Flag("v"), OptPresent("v"))
    /\ OptionEntry(Flag("u"), OptPresent("u"))
    /\ OptionEntry(Opt(<<"a">>, "align", "WIDTH"), OptGetOr(<<"a">>, "align", "WIDTH"))
    /\ OptionEntry(Opt(<<"o">>, "output", "STRING"), OptGetOr(<<"o">>, "output", "STRING"))
BY DEF OptionEntry, SpecIsOption, UseFits, Macros, ArgTypes, Flag, OptPresent, Opt, OptGetOr,
    ARGUMENT, OPTIONAL, Width, UseWidth, Access, UseAccess, Kext, UseKext, Depth, UseDepth

LEMMA ArgumentEntriesOf ==
    \A name : \A type \in ArgTypes :
        /\ type # "WORDS" => /\ ArgumentEntry(Arg(name, type), ArgGet(name, type))
                             /\ OptionalEntry(Optional(name, type), ArgGetOr(name, type))
                             /\ OptionalEntry(Optional(name, type), ArgIfPresent(name, type))
        /\ type = "WORDS" => WordsEntry(Arg(name, type), ArgGet(name, type))
BY DEF ArgumentEntry, OptionalEntry, WordsEntry, UseFits, Macros, Arg, Optional, Opt, ArgGet,
    ArgGetOr, ArgIfPresent

LEMMA ArgumentEntries ==
    \A name :
        /\ ArgumentEntry(Arg(name, "UINT"), ArgGet(name, "UINT"))
        /\ ArgumentEntry(Arg(name, "INT"), ArgGet(name, "INT"))
        /\ ArgumentEntry(Arg(name, "DATA"), ArgGet(name, "DATA"))
        /\ ArgumentEntry(Arg(name, "STRING"), ArgGet(name, "STRING"))
        /\ ArgumentEntry(Arg(name, "SYMBOL"), ArgGet(name, "SYMBOL"))
        /\ ArgumentEntry(Arg(name, "ADDRESS"), ArgGet(name, "ADDRESS"))
        /\ ArgumentEntry(Arg(name, "RANGE"), ArgGet(name, "RANGE"))
        /\ WordsEntry(Arg(name, "WORDS"), ArgGet(name, "WORDS"))
        /\ OptionalEntry(Optional(name, "UINT"), ArgIfPresent(name, "UINT"))
        /\ OptionalEntry(Optional(name, "UINT"), ArgGetOr(name, "UINT"))
        /\ OptionalEntry(Optional(name, "RANGE"), ArgGetOr(name, "RANGE"))
        /\ OptionalEntry(Optional(name, "ADDRESS"), ArgGetOr(name, "ADDRESS"))
<1>1. {"UINT", "INT", "DATA", "STRING", "SYMBOL", "ADDRESS", "RANGE", "WORDS"} \subseteq ArgTypes
    BY DEF ArgTypes
<1> QED
    BY <1>1, ArgumentEntriesOf

LEMMA AddressEntry == ArgumentEntry(Address, UseAddress)
BY ArgumentEntries, Zenon DEF Address, UseAddress

LEMMA MemoryRows ==
    IsSeq(MemoryCommands) /\ \A i \in DOMAIN MemoryCommands : RowOK(MemoryCommands[i])
<1> USE OptionEntries, ArgumentEntries, AddressEntry
<1>1. RowFits(<<>>, Uses("i"), "i", 0, 0)
    BY DEF RowFits, Uses, MemoryHandlers
<1>2. RowFits(<<Width, Flag("d"), Flag("f"), Flag("p"), Access, Address, Optional("length",
             "UINT")>>, Uses("r"), "r", 7, 5)
    BY DEF RowFits, Uses, MemoryHandlers
<1>3. RowFits(<<Flag("f"), Flag("p"), Access, Address, Arg("length", "UINT")>>, Uses("rb"), "rb",
             5, 3)
    BY DEF RowFits, Uses, MemoryHandlers
<1>4. RowFits(<<Flag("f"), Flag("p"), Access, Address, Arg("length", "UINT")>>, Uses("ri"), "ri",
             5, 3)
    BY DEF RowFits, Uses, MemoryHandlers
<1>5. RowFits(<<Flag("f"), Access, Arg("function", "SYMBOL")>>, Uses("rif"), "rif", 3, 2)
    BY DEF RowFits, Uses, MemoryHandlers
<1>6. RowFits(<<Flag("f"), Flag("p"), Access, Address, Optional("length", "UINT")>>, Uses("rs"),
             "rs", 5, 3)
    BY DEF RowFits, Uses, MemoryHandlers
<1>7. RowFits(<<Width, Flag("f"), Flag("p"), Access, Address, Arg("value", "UINT")>>, Uses("w"),
             "w", 6, 4)
    BY DEF RowFits, Uses, MemoryHandlers
<1>8. RowFits(<<Flag("f"), Flag("p"), Access, Address, Arg("data", "DATA")>>, Uses("wd"), "wd", 5,
             3)
    BY DEF RowFits, Uses, MemoryHandlers
<1>9. RowFits(<<Flag("f"), Flag("p"), Access, Address, Arg("string", "STRING")>>, Uses("ws"), "ws",
             5, 3)
    BY DEF RowFits, Uses, MemoryHandlers
<1>10. RowFits(<<Width, Flag("p"), Flag("h"), Opt(<<"a">>, "align", "WIDTH"), Access, Arg("value",
             "UINT"), Optional("range", "RANGE")>>, Uses("f"), "f", 7, 5)
    BY DEF RowFits, Uses, MemoryHandlers
<1>11. RowOK(MemoryCommands[1])
    BY <1>1, MakeRow DEF MemoryCommands, Handlers, StraightHandlers
<1>12. RowOK(MemoryCommands[2])
    BY <1>2, MakeRow DEF MemoryCommands, Handlers, StraightHandlers
<1>13. RowOK(MemoryCommands[3])
    BY <1>3, MakeRow DEF MemoryCommands, Handlers, StraightHandlers
<1>14. RowOK(MemoryCommands[4])
    BY <1>4, MakeRow DEF MemoryCommands, Handlers, StraightHandlers
<1>15. RowOK(MemoryCommands[5])
    BY <1>5, MakeRow DEF MemoryCommands, Handlers, StraightHandlers
<1>16. RowOK(MemoryCommands[6])
    BY <1>6, MakeRow DEF MemoryCommands, Handlers, StraightHandlers
<1>17. RowOK(MemoryCommands[7])
    BY <1>7, MakeRow DEF MemoryCommands, Handlers, StraightHandlers
<1>18. RowOK(MemoryCommands[8])
    BY <1>8, MakeRow DEF MemoryCommands, Handlers, StraightHandlers
<1>19. RowOK(MemoryCommands[9])
    BY <1>9, MakeRow DEF MemoryCommands, Handlers, StraightHandlers
<1>20. RowOK(MemoryCommands[10])
    BY <1>10, MakeRow DEF MemoryCommands, Handlers, StraightHandlers
<1>21. IsSeq(MemoryCommands) /\ Len(MemoryCommands) = 10
    BY DEF MemoryCommands, IsSeq
<1> QED
    BY <1>21, <1>11, <1>12, <1>13, <1>14, <1>15, <1>16, <1>17, <1>18, <1>19, <1>20 DEF IsSeq

LEMMA KernelRows ==
    IsSeq(KernelCommands) /\ \A i \in DOMAIN KernelCommands : RowOK(KernelCommands[i])
<1> USE OptionEntries, ArgumentEntries, AddressEntry
<1>1. RowFits(<<Arg("pid", "INT")>>, Uses("fpr"), "fpr", 1, 0)
    BY DEF RowFits, Uses, MemoryHandlers, KernelHandlers
<1>2. RowFits(<<Kext, Flag("k"), Access, Arg("class", "STRING"), Optional("range", "RANGE")>>,
             Uses("fc"), "fc", 5, 3)
    BY DEF RowFits, Uses, MemoryHandlers, KernelHandlers
<1>3. RowFits(<<Width, Arg("function", "ADDRESS"), Arg("args...", "WORDS")>>, Uses("kc"), "kc", 3,
             1)
    BY DEF RowFits, Uses, MemoryHandlers, KernelHandlers
<1>4. RowFits(<<Width, Arg("vindex", "UINT"), Arg("object", "ADDRESS"), Arg("args...", "WORDS")>>,
             Uses("kcv"), "kcv", 4, 1)
    BY DEF RowFits, Uses, MemoryHandlers, KernelHandlers
<1>5. RowFits(<<Address>>, Uses("lc"), "lc", 1, 0)
    BY DEF RowFits, Uses, MemoryHandlers, KernelHandlers
<1>6. RowFits(<<Kext, Flag("k"), Arg("class", "STRING")>>, Uses("cm"), "cm", 3, 2)
    BY DEF RowFits, Uses, MemoryHandlers, KernelHandlers
<1>7. RowFits(<<Kext, Flag("k"), Arg("class", "STRING")>>, Uses("cz"), "cz", 3, 2)
    BY DEF RowFits, Uses, MemoryHandlers, KernelHandlers
<1>8. RowFits(<<Address>>, Uses("kp"), "kp", 1, 0)
    BY DEF RowFits, Uses, MemoryHandlers, KernelHandlers
<1>9. RowFits(<<Arg("range", "RANGE")>>, Uses("kpm"), "kpm", 1, 0)
    BY DEF RowFits, Uses, MemoryHandlers, KernelHandlers
<1>10. RowFits(<<Address>>, Uses("zs"), "zs", 1, 0)
    BY DEF RowFits, Uses, MemoryHandlers, KernelHandlers
<1>11. RowFits(<<Flag("v"), Address>>, Uses("pca"), "pca", 2, 1)
    BY DEF RowFits, Uses, MemoryHandlers, KernelHandlers
<1>12. RowFits(<<Kext, Flag("k"), Arg("class", "STRING")>>, Uses("vt"), "vt", 3, 2)
    BY DEF RowFits, Uses, MemoryHandlers, KernelHandlers
<1>13. RowFits(<<Address>>, Uses("vtl"), "vtl", 1, 0)
    BY DEF RowFits, Uses, MemoryHandlers, KernelHandlers
<1>14. RowOK(KernelCommands[1])
    BY <1>1, MakeRow DEF KernelCommands, Handlers, StraightHandlers
<1>15. RowOK(KernelCommands[2])
    BY <1>2, MakeRow DEF KernelCommands, Handlers, StraightHandlers
<1>16. RowOK(KernelCommands[3])
    BY <1>3, MakeRow DEF KernelCommands, Handlers, StraightHandlers
<1>17. RowOK(KernelCommands[4])
    BY <1>4, MakeRow DEF KernelCommands, Handlers, StraightHandlers
<1>18. RowOK(KernelCommands[5])
    BY <1>5, MakeRow DEF KernelCommands, Handlers, StraightHandlers
<1>19. RowOK(KernelCommands[6])
    BY <1>6, MakeRow DEF KernelCommands, Handlers, StraightHandlers
<1>20. RowOK(KernelCommands[7])
    BY <1>7, MakeRow DEF KernelCommands, Handlers, StraightHandlers
<1>21. RowOK(KernelCommands[8])
    BY <1>8, MakeRow DEF KernelCommands, Handlers, StraightHandlers
<1>22. RowOK(KernelCommands[9])
    BY <1>9, MakeRow DEF KernelCommands, Handlers, StraightHandlers
<1>23. RowOK(KernelCommands[10])
    BY <1>10, MakeRow DEF KernelCommands, Handlers, StraightHandlers
<1>24. RowOK(KernelCommands[11])
    BY <1>11, MakeRow DEF KernelCommands, Handlers, StraightHandlers
<1>25. RowOK(KernelCommands[12])
    BY <1>12, MakeRow DEF KernelCommands, Handlers, StraightHandlers
<1>26. RowOK(KernelCommands[13])
    BY <1>13, MakeRow DEF KernelCommands, Handlers, StraightHandlers
<1>27. IsSeq(KernelCommands) /\ Len(KernelCommands) = 13
    BY DEF KernelCommands, IsSeq
<1> QED
    BY <1>27, <1>14, <1>15, <1>16, <1>17, <1>18, <1>19, <1>20, <1>21, <1>22, <1>23, <1>24,
       <1>25, <1>26 DEF IsSeq

LEMMA VirtualMemoryRows ==
    /\ IsSeq(VirtualMemoryCommands)
    /\ \A i \in DOMAIN VirtualMemoryCommands : RowOK(VirtualMemoryCommands[i])
<1> USE OptionEntries, ArgumentEntries, AddressEntry
<1>1. RowFits(<<Depth, Address>>, Uses("vm"), "vm", 2, 1)
    BY DEF RowFits, Uses, MemoryHandlers, KernelHandlers, OtherHandlers
<1>2. RowFits(<<Depth, Optional("range", "RANGE")>>, Uses("vmm"), "vmm", 2, 1)
    BY DEF RowFits, Uses, MemoryHandlers, KernelHandlers, OtherHandlers
<1>3. RowFits(<<Arg("size", "UINT")>>, Uses("vma"), "vma", 1, 0)
    BY DEF RowFits, Uses, MemoryHandlers, KernelHandlers, OtherHandlers
<1>4. RowFits(<<Address, Optional("size", "UINT")>>, Uses("vmd"), "vmd", 2, 0)
    BY DEF RowFits, Uses, MemoryHandlers, KernelHandlers, OtherHandlers
<1>5. RowFits(<<Arg("prot", "STRING"), Address, Optional("length", "UINT")>>, Uses("vmp"), "vmp",
             3, 0)
    BY DEF RowFits, Uses, MemoryHandlers, KernelHandlers, OtherHandlers
<1>6. RowOK(VirtualMemoryCommands[1])
    BY <1>1, MakeRow DEF VirtualMemoryCommands, Handlers, StraightHandlers
<1>7. RowOK(VirtualMemoryCommands[2])
    BY <1>2, MakeRow DEF VirtualMemoryCommands, Handlers, StraightHandlers
<1>8. RowOK(VirtualMemoryCommands[3])
    BY <1>3, MakeRow DEF VirtualMemoryCommands, Handlers, StraightHandlers
<1>9. RowOK(VirtualMemoryCommands[4])
    BY <1>4, MakeRow DEF VirtualMemoryCommands, Handlers, StraightHandlers
<1>10. RowOK(VirtualMemoryCommands[5])
    BY <1>5, MakeRow DEF VirtualMemoryCommands, Handlers, StraightHandlers
<1>11. IsSeq(VirtualMemoryCommands) /\ Len(VirtualMemoryCommands) = 5
    BY DEF VirtualMemoryCommands, IsSeq
<1> QED
    BY <1>11, <1>6, <1>7, <1>8, <1>9, <1>10 DEF IsSeq

LEMMA SymbolRows ==
    IsSeq(SymbolCommands) /\ \A i \in DOMAIN SymbolCommands : RowOK(SymbolCommands[i])
<1> USE OptionEntries, ArgumentEntries, AddressEntry
<1>1. RowFits(<<Flag("u"), Optional("address", "ADDRESS")>>, Uses("ks"), "ks", 2, 1)
    BY DEF RowFits, Uses, MemoryHandlers, KernelHandlers, OtherHandlers
<1>2. RowFits(<<Arg("symbol", "SYMBOL")>>, Uses("a"), "a", 1, 0)
    BY DEF RowFits, Uses, MemoryHandlers, KernelHandlers, OtherHandlers
<1>3. RowFits(<<Flag("u"), Optional("address", "ADDRESS")>>, Uses("ap"), "ap", 2, 1)
    BY DEF RowFits, Uses, MemoryHandlers, KernelHandlers, OtherHandlers
<1>4. RowFits(<<Address>>, Uses("s"), "s", 1, 0)
    BY DEF RowFits, Uses, MemoryHandlers, KernelHandlers, OtherHandlers
<1>5. RowFits(<<Opt(<<"o">>, "output", "STRING"), Arg("file", "STRING")>>, Uses("kcd"), "kcd", 2,
             1)
    BY DEF RowFits, Uses, MemoryHandlers, KernelHandlers, OtherHandlers
<1>6. RowFits(<<>>, Uses("root"), "root", 0, 0)
    BY DEF RowFits, Uses, MemoryHandlers, KernelHandlers, OtherHandlers
<1>7. RowFits(<<>>, Uses("quit"), "quit", 0, 0)
    BY DEF RowFits, Uses, MemoryHandlers, KernelHandlers, OtherHandlers
<1>8. RowOK(SymbolCommands[1])
    BY <1>1, MakeRow DEF SymbolCommands, Handlers, StraightHandlers
<1>9. RowOK(SymbolCommands[2])
    BY <1>2, MakeRow DEF SymbolCommands, Handlers, StraightHandlers
<1>10. RowOK(SymbolCommands[3])
    BY <1>3, MakeRow DEF SymbolCommands, Handlers, StraightHandlers
<1>11. RowOK(SymbolCommands[4])
    BY <1>4, MakeRow DEF SymbolCommands, Handlers, StraightHandlers
<1>12. RowOK(SymbolCommands[5])
    BY <1>5, MakeRow DEF SymbolCommands, Handlers, StraightHandlers
<1>13. RowOK(SymbolCommands[6])
    BY <1>6, MakeRow DEF SymbolCommands, Handlers, StraightHandlers
<1>14. RowOK(SymbolCommands[7])
    BY <1>7, MakeRow DEF SymbolCommands, Handlers, StraightHandlers
<1>15. IsSeq(SymbolCommands) /\ Len(SymbolCommands) = 7
    BY DEF SymbolCommands, IsSeq
<1> QED
    BY <1>15, <1>8, <1>9, <1>10, <1>11, <1>12, <1>13, <1>14 DEF IsSeq

LEMMA Table ==
    /\ IsSeq(commands)
    /\ \A c \in DOMAIN commands : RowOK(commands[c])
<1> DEFINE Good(T) == IsSeq(T) /\ \A i \in DOMAIN T : RowOK(T[i])
<1>1. ASSUME NEW a, NEW b, Good(a), Good(b) PROVE Good(a \o b)
    <2>1. IsSeq(a) /\ IsSeq(b) /\ Len(a) \in Nat /\ Len(b) \in Nat
        BY <1>1 DEF IsSeq
    <2>2. ASSUME NEW i \in DOMAIN (a \o b) PROVE RowOK((a \o b)[i])
        <3>1. CASE i \in DOMAIN a
            BY <1>1, <2>1, <3>1, Concatenation
        <3>2. CASE i - Len(a) \in DOMAIN b
            <4>1. i \in Int
                BY <2>1, <2>2, Concatenation DEF IsSeq
            <4>2. Len(a) + (i - Len(a)) = i
                BY <2>1, <4>1
            <4> QED
                BY <1>1, <2>1, <3>2, <4>2, Concatenation
        <3> QED
            BY <2>1, <2>2, <3>1, <3>2, Concatenation
    <2> QED
        BY <2>1, <2>2, Concatenation
<1>2. Good(MemoryCommands) /\ Good(KernelCommands) /\ Good(VirtualMemoryCommands)
      /\ Good(SymbolCommands)
    BY MemoryRows, KernelRows, VirtualMemoryRows, SymbolRows
<1> HIDE DEF Good
<1>3. Good(commands)
    BY <1>1, <1>2, Zenon DEF commands
<1> QED
    BY <1>3 DEF Good

(* The options of a command come first, and its arguments after them.      *)
Row(c, n, k) ==
    /\ n \in 0 .. 7 /\ k \in 0 .. n
    /\ RowFits(commands[c].specs, Uses(commands[c].handler), commands[c].handler, n, k)

LEMMA RowOf ==
    ASSUME NEW c \in DOMAIN commands
    PROVE  \E n, k : Row(c, n, k)
BY Table DEF RowOK, Row

LEMMA OptionsFirst ==
    ASSUME NEW c \in DOMAIN commands
    PROVE  \E n, k :
               /\ Row(c, n, k)
               /\ DOMAIN commands[c].specs = 1 .. n /\ Len(commands[c].specs) = n
               /\ Cardinality({i \in DOMAIN commands[c].specs :
                                 SpecIsOption(commands[c].specs[i])}) = k
<1>1. PICK n, k : Row(c, n, k)
    BY RowOf
<1>2. {i \in DOMAIN commands[c].specs : SpecIsOption(commands[c].specs[i])} = 1 .. k
    BY <1>1 DEF Row, RowFits, OptionEntry, ArgumentEntry, OptionalEntry, WordsEntry, SpecIsOption
<1>3. Cardinality(1 .. k) = k
    BY <1>1, FS_Interval DEF Row
<1> QED
    BY <1>1, <1>2, <1>3 DEF Row, RowFits

LEMMA CountOptions ==
    ASSUME cmd \in DOMAIN commands
    PROVE  \E n, k :
               /\ Row(cmd, n, k)
               /\ option_count = k /\ DOMAIN Specs = 1 .. n /\ Len(Specs) = n
               /\ cmd' = cmd =>
                     option_count' = k /\ DOMAIN Specs' = 1 .. n /\ Len(Specs') = n
<1>1. cmd' = cmd => option_count' = option_count /\ Specs' = Specs
    BY DEF option_count, Specs
<1> QED
    BY <1>1, OptionsFirst DEF option_count, Specs

-----------------------------------------------------------------------------
(* What the parse functions return.                                        *)

LEMMA ParseInt ==
    ASSUME NEW p, NEW type, NEW len
    PROVE  LET r == parse_int_internal(p, type, len)
           IN  /\ r.result \in {"ok", "usage"} /\ ~r.lost /\ ~r.keep_error
               /\ r.result = "ok" => r.type = type
               /\ r.result = "usage" => r.type = "NONE"
               /\ r = [result |-> r.result, p |-> r.p, type |-> r.type, text |-> r.text,
                       keep_error |-> r.keep_error, lost |-> r.lost]
BY DEF parse_int_internal, Parsed, Failed

LEMMA ParseWidth ==
    ASSUME NEW p
    PROVE  LET r == parse_width(p)
           IN  /\ r.result \in {"ok", "usage"} /\ ~r.lost
               /\ r.result = "ok" => r.type = "WIDTH"
               /\ ~r.keep_error /\ r.result = "usage" => r.type = "NONE"
<1> DEFINE q == parse_int_internal(p, "UINT", Len(p.arg))
<1>1. /\ q.result \in {"ok", "usage"} /\ ~q.lost /\ ~q.keep_error
      /\ q.result = "usage" => q.type = "NONE"
      /\ q = [result |-> q.result, p |-> q.p, type |-> q.type, text |-> q.text,
              keep_error |-> q.keep_error, lost |-> q.lost]
    BY ParseInt
<1>2. parse_width(p) =
          IF q.result # "ok" THEN q
          ELSE IF verify_width(q.text) THEN [q EXCEPT !.type = "WIDTH"]
          ELSE [Failed(q.p, "UINT") EXCEPT !.keep_error = TRUE]
    BY DEF parse_width
<1> HIDE DEF q
<1>3. CASE q.result # "ok"
    BY <1>1, <1>2, <1>3
<1>4. CASE q.result = "ok" /\ verify_width(q.text)
    <2>1. parse_width(p) = [result |-> q.result, p |-> q.p, type |-> "WIDTH", text |-> q.text,
                            keep_error |-> q.keep_error, lost |-> q.lost]
        BY <1>1, <1>2, <1>4
    <2> QED
        BY <1>1, <1>4, <2>1
<1>5. CASE q.result = "ok" /\ ~verify_width(q.text)
    BY <1>2, <1>5 DEF Failed
<1> QED
    BY <1>3, <1>4, <1>5

LEMMA ParseAddress ==
    ASSUME NEW p, NEW len, NEW found
    PROVE  LET r == parse_address_internal(p, len, found)
           IN  /\ ~r.lost
               /\ r.result = "ok" => r.type = "ADDRESS"
BY ParseInt DEF parse_address_internal, Parsed, Failed

LEMMA ParseRange ==
    ASSUME NEW p, NEW found
    PROVE  LET r == parse_range(p, found)
           IN  /\ ~r.lost
               /\ r.result = "ok" => r.type = "RANGE"
<1>1. \/ parse_range(p, found) = Failed(p, "NONE")
      \/ parse_range(p, found) = Parsed(Take(p, Len(p.arg)), "RANGE", p.arg)
    BY Zenon DEF parse_range
<1> QED
    BY <1>1 DEF Parsed, Failed

LEMMA ParseData ==
    ASSUME NEW p
    PROVE  LET r == parse_data(p)
           IN  /\ ~r.lost
               /\ r.result = "ok" => r.type = "DATA"
<1> DEFINE result == strtodata(p.arg, 16).result
<1>1. parse_data(p) \in {Parsed(Take(p, Len(p.arg)), "DATA", p.arg),
                         [Failed(p, "NONE") EXCEPT !.result = "abort"], Failed(p, "NONE")}
    <2> HIDE DEF result
    <2>1. parse_data(p) =
              CASE result = "OK" -> Parsed(Take(p, Len(p.arg)), "DATA", p.arg)
                [] result = "NODIGITS" -> [Failed(p, "NONE") EXCEPT !.result = "abort"]
                [] result \notin {"OK", "NODIGITS"} -> Failed(p, "NONE")
        BY Zenon DEF parse_data, result
    <2> QED
        BY <2>1
<1> QED
    BY <1>1 DEF Parsed, Failed

LEMMA ParseWords ==
    ASSUME NEW p, NEW memory
    PROVE  LET r == parse_words(p, memory)
           IN  r.result = "ok" => r.type = "WORDS"
<1> DEFINE bad == {i \in DOMAIN p.argv : ~IsWord(p.argv[i])}
<1>1. parse_words(p, memory) \in {[Failed(p, "WORD") EXCEPT !.result = "error"],
                                  Parsed(NoWords, "WORDS", FlattenSeq(p.argv)),
                                  [Failed(p, "UINT") EXCEPT !.lost = (1 \notin bad)]}
    <2> HIDE DEF bad
    <2>1. parse_words(p, memory) =
              IF p.argv # <<>> /\ 1 \notin bad /\ ~memory
              THEN [Failed(p, "WORD") EXCEPT !.result = "error"]
              ELSE IF bad = {} THEN Parsed(NoWords, "WORDS", FlattenSeq(p.argv))
              ELSE [Failed(p, "UINT") EXCEPT !.lost = (1 \notin bad)]
        BY Zenon DEF parse_words, bad
    <2> QED
        BY <2>1
<1> HIDE DEF bad
<1> QED
    BY <1>1 DEF Parsed, Failed

(* A value has the type that was asked for; the value of an unnamed option  *)
(* leaves no type when it is none; only words are lost.                     *)
LEMMA ParseResult ==
    ASSUME NEW type \in ArgTypes, NEW p, NEW found, NEW memory
    PROVE  LET r == Parse(type, p, found, memory)
           IN  /\ r.result = "ok" => r.type = type
               /\ type = "WIDTH" /\ r.result = "usage" /\ ~r.keep_error => r.type = "NONE"
               /\ r.lost => type = "WORDS"
<1> DEFINE r == Parse(type, p, found, memory)
<1>1. CASE type = "NONE"
    <2>1. r = Parsed(p, "NONE", <<>>)
        BY <1>1 DEF Parse
    <2> QED
        BY <1>1, <2>1 DEF Parsed
<1>2. CASE type = "WORDS"
    <2>1. r = parse_words(p, memory)
        BY <1>2 DEF Parse
    <2> QED
        BY <1>2, <2>1, ParseWords
<1>3. CASE type \notin {"NONE", "WORDS"} /\ ArgIsNull(p)
    <2>1. r = Failed(p, "NONE")
        BY <1>3 DEF Parse, ArgTypes
    <2> QED
        BY <1>3, <2>1 DEF Failed
<1>4. CASE type \in {"INT", "UINT"} /\ ~ArgIsNull(p)
    <2>1. r = parse_int_internal(p, type, Len(p.arg))
        BY <1>4 DEF Parse
    <2> QED
        BY <1>4, <2>1, ParseInt
<1>5. CASE type = "WIDTH" /\ ~ArgIsNull(p)
    <2>1. r = parse_width(p)
        BY <1>5 DEF Parse
    <2> QED
        BY <1>5, <2>1, ParseWidth
<1>6. CASE type = "DATA" /\ ~ArgIsNull(p)
    <2>1. r = parse_data(p)
        BY <1>6 DEF Parse
    <2> QED
        BY <1>6, <2>1, ParseData
<1>7. CASE type \in {"STRING", "SYMBOL"} /\ ~ArgIsNull(p)
    <2>1. r = Parsed(Take(p, Len(p.arg)), type, p.arg)
        BY <1>7 DEF Parse, parse_rest
    <2> QED
        BY <1>7, <2>1 DEF Parsed
<1>8. CASE type = "ADDRESS" /\ ~ArgIsNull(p)
    <2>1. r = parse_address_internal(p, Len(p.arg), found)
        BY <1>8 DEF Parse
    <2> QED
        BY <1>8, <2>1, ParseAddress
<1>9. CASE type = "RANGE" /\ ~ArgIsNull(p)
    <2>1. r = parse_range(p, found)
        BY <1>9 DEF Parse
    <2> QED
        BY <1>9, <2>1, ParseRange
<1> QED
    BY <1>1, <1>2, <1>3, <1>4, <1>5, <1>6, <1>7, <1>8, <1>9 DEF ArgTypes

(* The command that is chosen matches, and so does the option.             *)
LEMMA BestMatches ==
    ASSUME NEW name, Matching(name) # {}
    PROVE  Best(name) \in DOMAIN commands
<1> DEFINE L(c) == Len(commands[c].command)
           Longest == \E c \in Matching(name) : \A d \in Matching(name) : L(d) <= L(c)
<1>1. \A c \in Matching(name) : c \in DOMAIN commands /\ L(c) \in 0 .. 4
    BY Table DEF Matching, RowOK
<1> HIDE DEF L
<1>2. ASSUME NEW m \in 0 .. 4, \E c \in Matching(name) : L(c) = m,
             \A c \in Matching(name) : L(c) <= m
      PROVE  Longest
    BY <1>1, <1>2
<1>3. Longest
    <2>1. CASE \E c \in Matching(name) : L(c) = 4
        BY <2>1, <1>1, <1>2
    <2>2. CASE /\ \E c \in Matching(name) : L(c) = 3
               /\ \A c \in Matching(name) : L(c) <= 3
        BY <2>2, <1>2
    <2>3. CASE /\ \E c \in Matching(name) : L(c) = 2
               /\ \A c \in Matching(name) : L(c) <= 2
        BY <2>3, <1>2
    <2>4. CASE /\ \E c \in Matching(name) : L(c) = 1
               /\ \A c \in Matching(name) : L(c) <= 1
        BY <2>4, <1>2
    <2>5. CASE \A c \in Matching(name) : L(c) = 0
        BY <2>5, <1>2
    <2> QED
        BY <1>1, <2>1, <2>2, <2>3, <2>4, <2>5
<1> QED
    BY <1>1, <1>3 DEF Best, L

LEMMA LeastOf ==
    ASSUME NEW S \in SUBSET Nat, S # {}
    PROVE  \E i \in S : \A j \in S : i <= j
<1>1. PICK x \in S : \A y \in S : ~ (<<y, x>> \in OpToRel(<, Nat))
    BY WFMin, NatLessThanWellFounded, Zenon
<1>2. ASSUME NEW y \in S, y < x PROVE <<y, x>> \in OpToRel(<, Nat)
    <2>1. <<y, x>> \in Nat \X Nat /\ <<y, x>>[1] < <<y, x>>[2]
        BY <1>2
    <2> QED
        BY <2>1, Zenon DEF OpToRel
<1>3. \A y \in S : ~ (y < x)
    BY <1>1, <1>2, Zenon
<1> QED
    BY <1>3

LEMMA MatchMatches ==
    ASSUME cmd \in DOMAIN commands, first \in Nat \ {0}, Candidates # {}
    PROVE  Match \in Candidates /\ Match \in first .. option_count
<1> DEFINE k == option_count
<1>1. k \in Nat
    BY CountOptions DEF Row
<1>2. Candidates \subseteq first .. k
    BY DEF Candidates
<1>3. Match \in Candidates
    <2>1. Candidates \in SUBSET Nat
        BY <1>1, <1>2
    <2>2. \E i \in Candidates : \A j \in Candidates : i <= j
        BY <2>1, LeastOf
    <2> QED
        BY <2>2, Zenon DEF Match
<1> QED
    BY <1>2, <1>3

-----------------------------------------------------------------------------
(***************************************************************************)
(* The parser keeps to the table.  The vector of the arguments has the     *)
(* entries of the command's specs; what is present has the type of its     *)
(* spec, and the arguments are filled from the front.                      *)
(***************************************************************************)
IsArgument(a) ==
    a = [option |-> a.option, argument |-> a.argument, present |-> a.present,
         type |-> a.type, text |-> a.text]

Shaped(f, specs) ==
    /\ f = [i \in DOMAIN specs |-> f[i]]
    /\ \A i \in DOMAIN specs :
          /\ IsArgument(f[i])
          /\ f[i].option = specs[i].option
          /\ f[i].argument = specs[i].argument
          /\ f[i].present \in BOOLEAN

Vector == cmd \in DOMAIN commands /\ Shaped(arguments, Specs)

Typed_ ==
    \A i \in DOMAIN Specs :
        /\ arguments[i].type \in {"NONE", Specs[i].type}
        /\ arguments[i].present => arguments[i].type = Specs[i].type

Supplied(i) == arguments[i].present \/ Specs[i].option = OPTIONAL

(* What is on the heap belongs to an argument, but for lost words.         *)
Owners ==
    /\ heap \subseteq {0} \cup {i \in DOMAIN Specs :
                                   arguments[i].present /\ arguments[i].type \in OnHeap}
    /\ 0 \in heap => commands[cmd].handler \in {"kc", "kcv"}

Arguments(from) ==
    \A i \in option_count + 1 .. Len(Specs) :
        /\ i < from => Supplied(i)
        /\ i >= from => ~arguments[i].present

Finding == cmd = 0 /\ first = 1 /\ heap = {}
Options == first \in Nat \ {0} /\ Arguments(option_count + 1)
Arguing == first \in option_count + 1 .. Len(Specs) + 1 /\ Arguments(first)
AllThere == \A i \in option_count + 1 .. Len(Specs) : Supplied(i)
Freed ==
    /\ heap \subseteq {0}
    /\ heap # {} => commands[cmd].handler \in {"kc", "kcv"}

Parsing == {"options", "arguments", "handler", "run"}

ParserInv ==
    /\ pc \in {"find", "cleanup", "done", "aborted", "left"} \cup Parsing
    /\ pc = "find" => Finding
    /\ pc \in Parsing \cup {"cleanup"} => Vector /\ Owners
    /\ pc \in Parsing => Typed_
    /\ pc = "options" => Options
    /\ pc = "arguments" => Arguing
    /\ pc \in {"handler", "run"} => AllThere
    /\ pc \in {"done", "left"} => Freed

-----------------------------------------------------------------------------
(* Writing a field of one entry of the vector. *)
SetPresent(f, i) == [f EXCEPT ![i].present = TRUE]
SetType(f, i, type) == [f EXCEPT ![i].type = type]
SetText(f, i, text) == [f EXCEPT ![i].text = text]

LEMMA SetPresentShape ==
    ASSUME NEW f, NEW specs, Shaped(f, specs), NEW i \in DOMAIN specs
    PROVE  LET g == SetPresent(f, i)
           IN  /\ Shaped(g, specs)
               /\ g[i].type = f[i].type /\ g[i].present = TRUE
               /\ \A j \in DOMAIN specs \ {i} : g[j] = f[j]
<1> DEFINE g == SetPresent(f, i)
<1> USE DEF SetPresent
<1>1. i \in DOMAIN f /\ DOMAIN f = DOMAIN specs /\ f[i].present \in BOOLEAN
    BY DEF Shaped
<1>2. f[i] = [option |-> f[i].option, argument |-> f[i].argument, present |-> f[i].present,
              type |-> f[i].type, text |-> f[i].text]
    BY DEF Shaped, IsArgument
<1>3. g[i] = [option |-> f[i].option, argument |-> f[i].argument, present |-> TRUE,
              type |-> f[i].type, text |-> f[i].text]
    BY <1>1, <1>2
<1>4. /\ DOMAIN g = DOMAIN specs
      /\ \A j \in DOMAIN specs \ {i} : g[j] = f[j]
      /\ g = [j \in DOMAIN g |-> g[j]]
    BY <1>1
<1> HIDE DEF g
<1>5. IsArgument(g[i])
    BY <1>3 DEF IsArgument
<1>6. /\ g[i].option = f[i].option /\ g[i].argument = f[i].argument
      /\ g[i].type = f[i].type /\ g[i].present = TRUE
    BY <1>3
<1>7. Shaped(g, specs)
    BY <1>1, <1>4, <1>5, <1>6 DEF Shaped
<1> QED
    BY <1>4, <1>6, <1>7 DEF g

LEMMA SetTypeShape ==
    ASSUME NEW f, NEW specs, Shaped(f, specs), NEW i \in DOMAIN specs, NEW type
    PROVE  LET g == SetType(f, i, type)
           IN  /\ Shaped(g, specs)
               /\ g[i].present = f[i].present /\ g[i].type = type
               /\ \A j \in DOMAIN specs \ {i} : g[j] = f[j]
<1> DEFINE g == SetType(f, i, type)
<1> USE DEF SetType
<1>1. i \in DOMAIN f /\ DOMAIN f = DOMAIN specs /\ f[i].present \in BOOLEAN
    BY DEF Shaped
<1>2. f[i] = [option |-> f[i].option, argument |-> f[i].argument, present |-> f[i].present,
              type |-> f[i].type, text |-> f[i].text]
    BY DEF Shaped, IsArgument
<1>3. g[i] = [option |-> f[i].option, argument |-> f[i].argument, present |-> f[i].present,
              type |-> type, text |-> f[i].text]
    BY <1>1, <1>2
<1>4. /\ DOMAIN g = DOMAIN specs
      /\ \A j \in DOMAIN specs \ {i} : g[j] = f[j]
      /\ g = [j \in DOMAIN g |-> g[j]]
    BY <1>1
<1> HIDE DEF g
<1>5. IsArgument(g[i])
    BY <1>3 DEF IsArgument
<1>6. /\ g[i].option = f[i].option /\ g[i].argument = f[i].argument
      /\ g[i].present = f[i].present /\ g[i].type = type
    BY <1>3
<1>7. Shaped(g, specs)
    BY <1>1, <1>4, <1>5, <1>6 DEF Shaped
<1> QED
    BY <1>4, <1>6, <1>7 DEF g

LEMMA SetTextShape ==
    ASSUME NEW f, NEW specs, Shaped(f, specs), NEW i \in DOMAIN specs, NEW text
    PROVE  LET g == SetText(f, i, text)
           IN  /\ Shaped(g, specs)
               /\ g[i].present = f[i].present /\ g[i].type = f[i].type /\ g[i].text = text
               /\ \A j \in DOMAIN specs \ {i} : g[j] = f[j]
<1> DEFINE g == SetText(f, i, text)
<1> USE DEF SetText
<1>1. i \in DOMAIN f /\ DOMAIN f = DOMAIN specs /\ f[i].present \in BOOLEAN
    BY DEF Shaped
<1>2. f[i] = [option |-> f[i].option, argument |-> f[i].argument, present |-> f[i].present,
              type |-> f[i].type, text |-> f[i].text]
    BY DEF Shaped, IsArgument
<1>3. g[i] = [option |-> f[i].option, argument |-> f[i].argument, present |-> f[i].present,
              type |-> f[i].type, text |-> text]
    BY <1>1, <1>2
<1>4. /\ DOMAIN g = DOMAIN specs
      /\ \A j \in DOMAIN specs \ {i} : g[j] = f[j]
      /\ g = [j \in DOMAIN g |-> g[j]]
    BY <1>1
<1> HIDE DEF g
<1>5. IsArgument(g[i])
    BY <1>3 DEF IsArgument
<1>6. /\ g[i].option = f[i].option /\ g[i].argument = f[i].argument
      /\ g[i].present = f[i].present /\ g[i].type = f[i].type /\ g[i].text = text
    BY <1>3
<1>7. Shaped(g, specs)
    BY <1>1, <1>4, <1>5, <1>6 DEF Shaped
<1> QED
    BY <1>4, <1>6, <1>7 DEF g

-----------------------------------------------------------------------------
(* Looking for the command.  Nothing is present in the vector it starts     *)
(* with.                                                                    *)
LEMMA FindPreserves ==
    ASSUME ParserInv, DefaultAction \/ Help \/ UnknownCommand \/ FindCommand
    PROVE  ParserInv'
<1>0. pc = "find" /\ heap = {} /\ first = 1 /\ heap' = heap
    BY DEF ParserInv, Finding, DefaultAction, Help, UnknownCommand, FindCommand
<1>1. CASE DefaultAction \/ Help \/ UnknownCommand
    <2>1. pc' = "done"
        BY <1>1 DEF DefaultAction, Help, UnknownCommand, Finish
    <2> QED
        BY <1>0, <2>1 DEF ParserInv, Freed, Parsing
<1>2. CASE FindCommand
    <2> DEFINE specs == commands[Best(Head(line))].specs
    <2>1. Matching(Head(line)) # {} /\ pc' = "options" /\ first' = first
          /\ cmd' = Best(Head(line))
          /\ arguments' = [i \in DOMAIN specs |->
                 [option |-> specs[i].option, argument |-> specs[i].argument,
                  present |-> FALSE, type |-> "NONE", text |-> <<>>]]
        BY <1>2, Zenon DEF FindCommand
    <2>2. cmd' \in DOMAIN commands /\ specs = Specs'
        BY <2>1, BestMatches DEF Specs
    <2>3. PICK n, k : /\ Row(cmd', n, k) /\ DOMAIN specs = 1 .. n /\ Len(specs) = n
                      /\ Cardinality({i \in DOMAIN specs : SpecIsOption(specs[i])}) = k
        BY <2>1, <2>2, OptionsFirst
    <2>4. option_count' = k
        BY <2>2, <2>3 DEF option_count
    <2> HIDE DEF specs
    <2>5. Shaped(arguments', specs)
        BY <2>1 DEF Shaped, IsArgument
    <2>6. \A i \in DOMAIN specs : arguments'[i].type = "NONE" /\ arguments'[i].present = FALSE
        BY <2>1
    <2>7. n \in Nat /\ k \in 0 .. n
        BY <2>3 DEF Row
    <2>8. Vector' /\ Typed_' /\ Owners'
        BY <1>0, <2>1, <2>2, <2>5, <2>6 DEF Vector, Typed_, Owners
    <2>9. \A i \in k + 1 .. n : (i < k + 1 => Supplied(i)') /\ ~arguments'[i].present
        BY <2>3, <2>6, <2>7
    <2>10. Options'
        BY <1>0, <2>1, <2>2, <2>3, <2>4, <2>7, <2>9 DEF Options, Arguments
    <2> QED
        BY <1>0, <2>1, <2>8, <2>10 DEF ParserInv, Parsing
<1> QED
    BY <1>1, <1>2

(* What changes neither the vector nor the heap. *)
LEMMA SameVector ==
    ASSUME UNCHANGED <<cmd, arguments, heap>>
    PROVE  /\ Vector => Vector'
           /\ Typed_ => Typed_'
           /\ Owners => Owners'
           /\ AllThere => AllThere'
           /\ Freed => Freed'
<1>1. Specs' = Specs /\ option_count' = option_count
    BY DEF Specs, option_count
<1> QED
    BY <1>1 DEF Vector, Typed_, Owners, AllThere, Supplied, Freed

(* The options have all been tried, and no argument has been. *)
LEMMA EndOfOptions ==
    ASSUME ParserInv, pc = "options",
           pc' = "arguments", first' = option_count + 1,
           UNCHANGED <<cmd, arguments, heap>>
    PROVE  ParserInv'
<1>1. Vector /\ Typed_ /\ Owners /\ Options
    BY DEF ParserInv, Parsing
<1>2. PICK n, k : /\ Row(cmd, n, k) /\ option_count = k /\ Len(Specs) = n
                  /\ option_count' = k /\ Len(Specs') = n
    BY <1>1, CountOptions DEF Vector
<1>3. Specs' = Specs /\ n \in Nat /\ k \in 0 .. n
    BY <1>2 DEF Row, Specs
<1>4. Arguing'
    BY <1>1, <1>2, <1>3 DEF Arguing, Options, Arguments, Supplied
<1> QED
    BY <1>1, <1>4, SameVector DEF ParserInv, Parsing

(* Something was wrong, and the vector is as it was. *)
LEMMA GivesUp ==
    ASSUME ParserInv, pc \in Parsing, pc' = "cleanup", UNCHANGED <<cmd, arguments, heap>>
    PROVE  ParserInv'
BY SameVector DEF ParserInv, Parsing

(* What a row says of an option and of an argument.                        *)
LEMMA OptionSpec ==
    ASSUME cmd \in DOMAIN commands, NEW i \in 1 .. option_count
    PROVE  /\ i \in DOMAIN Specs
           /\ Specs[i].type \in ArgTypes \ {"WORDS"}
           /\ IF Specs[i].option = <<>> THEN Specs[i].type = "WIDTH" ELSE Len(Specs[i].option) = 1
<1>1. PICK n, k : Row(cmd, n, k) /\ option_count = k /\ DOMAIN Specs = 1 .. n /\ Len(Specs) = n
    BY CountOptions
<1> QED
    BY <1>1 DEF Row, RowFits, Specs, OptionEntry

LEMMA ArgumentSpec ==
    ASSUME cmd \in DOMAIN commands, NEW i \in option_count + 1 .. Len(Specs)
    PROVE  /\ i \in DOMAIN Specs
           /\ Specs[i].type \in ArgTypes
           /\ Specs[i].type = "WORDS" => commands[cmd].handler \in {"kc", "kcv"}
           /\ Specs[i].option = OPTIONAL => i = Len(Specs)
<1>1. PICK n, k : Row(cmd, n, k) /\ option_count = k /\ DOMAIN Specs = 1 .. n /\ Len(Specs) = n
    BY CountOptions
<1>2. ARGUMENT # OPTIONAL
    BY DEF ARGUMENT, OPTIONAL
<1> QED
    BY <1>1, <1>2 DEF Row, RowFits, Specs, ArgumentEntry, OptionalEntry, WordsEntry, ArgTypes

LEMMA ParseOptionPreserves ==
    ASSUME ParserInv, ParseOption
    PROVE  ParserInv'
<1>1. pc = "options" /\ Vector /\ Typed_ /\ Owners /\ Options /\ UNCHANGED cmd
    BY DEF ParseOption, ParserInv, Parsing
<1> DEFINE i == Match
           p == ValueAt(i)
           r == Parse(Specs[i].type, p, TRUE, TRUE)
<1>2. /\ ~arguments[i].present
      /\ first' = IF Specs[i].option = <<>> THEN first + 1 ELSE first
      /\ OptionValue(i, r) \/ NotTheUnnamedOption(i, r) \/ BadOption(i, r)
    BY Zenon DEF ParseOption
<1> HIDE DEF p
<1>3. i \in first .. option_count /\ option_count \in Nat /\ first \in Nat \ {0}
    <2>1. Candidates # {}
        BY DEF ParseOption, IsOption
    <2> QED
        BY <1>1, <2>1, MatchMatches, CountOptions DEF Options, Vector, Row
<1>4. i \in 1 .. option_count /\ i \in DOMAIN Specs
    BY <1>1, <1>3, OptionSpec DEF Vector
<1>5. /\ Specs[i].type \in ArgTypes
      /\ Specs[i].option = <<>> => Specs[i].type = "WIDTH"
      /\ Specs' = Specs /\ option_count' = option_count
    BY <1>1, <1>4, OptionSpec DEF Vector, Specs, option_count
<1>6. /\ r.result = "ok" => r.type = Specs[i].type
      /\ Specs[i].type = "WIDTH" /\ r.result = "usage" /\ ~r.keep_error => r.type = "NONE"
    <2>1. \E found, memory : r = Parse(Specs[i].type, p, found, memory)
        BY Zenon
    <2> HIDE DEF r
    <2> QED
        BY <1>5, <2>1, ParseResult
<1> HIDE DEF r, i
<1>7. Shaped(arguments, Specs)
    BY <1>1 DEF Vector
<1>8. ASSUME \A j \in DOMAIN Specs \ {i} : arguments'[j] = arguments[j],
             pc' = "options"
      PROVE  Options'
    <2>1. \A j \in option_count + 1 .. Len(Specs) : j \in DOMAIN Specs \ {i}
        BY <1>1, <1>3, ArgumentSpec DEF Vector
    <2> QED
        BY <1>1, <1>2, <1>3, <1>5, <1>8, <2>1 DEF Options, Arguments, Supplied
<1>9. CASE OptionValue(i, r)
    <2> DEFINE f == SetPresent(arguments, i)
               g == SetType(f, i, r.type)
    <2>1. arguments' = SetText(g, i, r.text) /\ r.type = Specs[i].type
          /\ heap' = heap \cup (IF r.type \in OnHeap THEN {i} ELSE {}) /\ pc' = pc
        BY <1>6, <1>9 DEF OptionValue, SetPresent, SetType, SetText
    <2>2. /\ Shaped(f, Specs) /\ f[i].present = TRUE
          /\ \A j \in DOMAIN Specs \ {i} : f[j] = arguments[j]
        BY <1>4, <1>7, SetPresentShape
    <2> HIDE DEF f
    <2>3. /\ Shaped(g, Specs) /\ g[i].present = TRUE /\ g[i].type = r.type
          /\ \A j \in DOMAIN Specs \ {i} : g[j] = arguments[j]
        BY <1>4, <2>2, SetTypeShape
    <2> HIDE DEF g
    <2>4. /\ Shaped(arguments', Specs)
          /\ arguments'[i].present = TRUE /\ arguments'[i].type = r.type
          /\ \A j \in DOMAIN Specs \ {i} : arguments'[j] = arguments[j]
        BY <1>4, <2>1, <2>3, SetTextShape
    <2>5. Vector' /\ Typed_'
        BY <1>1, <1>5, <2>1, <2>4 DEF Vector, Typed_
    <2>6. Owners'
        <3>1. ASSUME NEW j \in heap', j # 0, j # i
              PROVE  j \in DOMAIN Specs /\ arguments'[j].present /\ arguments'[j].type \in OnHeap
            BY <1>1, <2>1, <2>4, <3>1 DEF Owners
        <3>2. i \in heap' => r.type \in OnHeap
            BY <1>1, <1>2, <1>3, <2>1 DEF Owners
        <3>3. 0 \in heap' => 0 \in heap
            BY <1>3, <2>1
        <3> QED
            BY <1>1, <1>4, <1>5, <2>4, <3>1, <3>2, <3>3 DEF Owners
    <2> QED
        BY <1>1, <1>8, <2>1, <2>4, <2>5, <2>6 DEF ParserInv, Parsing
<1>10. CASE NotTheUnnamedOption(i, r)
    <2>1. arguments' = SetType(arguments, i, r.type) /\ r.type = "NONE"
          /\ heap' = heap /\ pc' = pc
        BY <1>5, <1>6, <1>10 DEF NotTheUnnamedOption, SetPresent, SetType, SetText
    <2>2. /\ Shaped(arguments', Specs)
          /\ arguments'[i].present = arguments[i].present /\ arguments'[i].type = r.type
          /\ \A j \in DOMAIN Specs \ {i} : arguments'[j] = arguments[j]
        BY <1>4, <1>7, <2>1, SetTypeShape
    <2>3. Vector' /\ Typed_' /\ Owners'
        BY <1>1, <1>2, <1>4, <1>5, <2>1, <2>2 DEF Vector, Typed_, Owners
    <2> QED
        BY <1>1, <1>8, <2>1, <2>2, <2>3 DEF ParserInv, Parsing
<1>11. CASE BadOption(i, r)
    <2> DEFINE f == SetPresent(arguments, i)
    <2>1. arguments' = SetType(f, i, r.type) /\ heap' = heap /\ pc' = "cleanup"
        BY <1>11 DEF BadOption, SetPresent, SetType, SetText
    <2>2. /\ Shaped(f, Specs)
          /\ \A j \in DOMAIN Specs \ {i} : f[j] = arguments[j]
        BY <1>4, <1>7, SetPresentShape
    <2> HIDE DEF f
    <2>3. /\ Shaped(arguments', Specs)
          /\ \A j \in DOMAIN Specs \ {i} : arguments'[j] = arguments[j]
        BY <1>4, <2>1, <2>2, SetTypeShape
    <2>4. Vector' /\ Owners'
        BY <1>1, <1>2, <1>4, <1>5, <2>1, <2>3 DEF Vector, Owners
    <2> QED
        BY <2>1, <2>4 DEF ParserInv, Parsing
<1> QED
    BY <1>2, <1>9, <1>10, <1>11

LEMMA ParseArgumentPreserves ==
    ASSUME ParserInv, ParseArgument
    PROVE  ParserInv'
<1>1. pc = "arguments" /\ Vector /\ Typed_ /\ Owners /\ Arguing /\ first <= Len(Specs)
      /\ UNCHANGED cmd
    BY DEF ParseArgument, ParserInv, Parsing
<1>a. PICK found \in BOOLEAN, memory \in BOOLEAN :
          \E r \in {Parse(Specs[first].type, at, found, memory)} :
              ArgumentValue(r) \/ NoOptionalArgument(r) \/ BadArgument(r) \/ Abort(r)
    BY Zenon DEF ParseArgument
<1>2. PICK r \in {Parse(Specs[first].type, at, found, memory)} :
          ArgumentValue(r) \/ NoOptionalArgument(r) \/ BadArgument(r) \/ Abort(r)
    BY <1>a
<1>3. /\ option_count \in Nat /\ Len(Specs) \in Nat /\ DOMAIN Specs = 1 .. Len(Specs)
      /\ Specs' = Specs /\ option_count' = option_count
    BY <1>1, CountOptions DEF Vector, Row, Specs, option_count
<1>4. first \in option_count + 1 .. Len(Specs) /\ first \in DOMAIN Specs
    BY <1>1, <1>3 DEF Arguing
<1>5. /\ Specs[first].type \in ArgTypes
      /\ Specs[first].type = "WORDS" => commands[cmd].handler \in {"kc", "kcv"}
      /\ Specs[first].option = OPTIONAL => first = Len(Specs)
      /\ ~arguments[first].present
    BY <1>1, <1>4, ArgumentSpec DEF Vector, Arguing, Arguments
<1>6. /\ r.result = "ok" => r.type = Specs[first].type
      /\ r.lost => Specs[first].type = "WORDS"
    BY <1>2, <1>5, ParseResult
<1>7. Shaped(arguments, Specs)
    BY <1>1 DEF Vector
<1>8. CASE ArgumentValue(r)
    <2> DEFINE f == SetPresent(arguments, first)
               g == SetType(f, first, r.type)
    <2>1. arguments' = SetText(g, first, r.text) /\ r.type = Specs[first].type
          /\ heap' = heap \cup (IF r.type \in OnHeap THEN {first} ELSE {})
          /\ first' = first + 1 /\ pc' = pc
        BY <1>6, <1>8 DEF ArgumentValue, SetPresent, SetType, SetText
    <2>2. /\ Shaped(f, Specs) /\ f[first].present = TRUE
          /\ \A j \in DOMAIN Specs \ {first} : f[j] = arguments[j]
        BY <1>4, <1>7, SetPresentShape
    <2> HIDE DEF f
    <2>3. /\ Shaped(g, Specs) /\ g[first].present = TRUE /\ g[first].type = r.type
          /\ \A j \in DOMAIN Specs \ {first} : g[j] = arguments[j]
        BY <1>4, <2>2, SetTypeShape
    <2> HIDE DEF g
    <2>4. /\ Shaped(arguments', Specs)
          /\ arguments'[first].present = TRUE /\ arguments'[first].type = r.type
          /\ \A j \in DOMAIN Specs \ {first} : arguments'[j] = arguments[j]
        BY <1>4, <2>1, <2>3, SetTextShape
    <2>5. Vector' /\ Typed_'
        BY <1>1, <1>3, <2>1, <2>4 DEF Vector, Typed_
    <2>6. Owners'
        <3>1. ASSUME NEW j \in heap', j # 0, j # first
              PROVE  j \in DOMAIN Specs /\ arguments'[j].present /\ arguments'[j].type \in OnHeap
            BY <1>1, <2>1, <2>4, <3>1 DEF Owners
        <3>2. first \in heap' => r.type \in OnHeap
            BY <1>1, <1>3, <1>4, <1>5, <2>1 DEF Owners
        <3>3. 0 \in heap' => 0 \in heap
            BY <1>3, <1>4, <2>1
        <3> QED
            BY <1>1, <1>3, <1>4, <2>4, <3>1, <3>2, <3>3 DEF Owners
    <2>7. Arguing'
        <3>1. ASSUME NEW j \in option_count + 1 .. Len(Specs)
              PROVE  /\ j < first + 1 => arguments'[j].present \/ Specs[j].option = OPTIONAL
                     /\ j >= first + 1 => ~arguments'[j].present
            <4>1. j \in DOMAIN Specs
                BY <1>3, <3>1
            <4>2. CASE j = first
                BY <1>4, <2>4, <4>2
            <4>3. CASE j # first
                <5>1. arguments'[j] = arguments[j]
                    BY <2>4, <4>1, <4>3
                <5>2. (j < first => Supplied(j)) /\ (j >= first => ~arguments[j].present)
                    BY <1>1, <3>1 DEF Arguing, Arguments
                <5> QED
                    BY <1>3, <1>4, <4>3, <5>1, <5>2 DEF Supplied
            <4> QED
                BY <4>2, <4>3
        <3>2. first' \in option_count' + 1 .. Len(Specs') + 1
            BY <1>3, <1>4, <2>1
        <3> QED
            BY <1>3, <2>1, <3>1, <3>2 DEF Arguing, Arguments, Supplied
    <2> QED
        BY <1>1, <2>1, <2>5, <2>6, <2>7 DEF ParserInv, Parsing
<1>9. CASE NoOptionalArgument(r)
    <2>1. first' = Len(Specs) + 1 /\ first = Len(Specs) /\ Specs[first].option = OPTIONAL
          /\ UNCHANGED <<cmd, arguments, heap, pc>>
        BY <1>1, <1>5, <1>9 DEF NoOptionalArgument
    <2>2. Arguing'
        BY <1>1, <1>3, <1>4, <2>1 DEF Arguing, Arguments, Supplied
    <2> QED
        BY <1>1, <2>1, <2>2, SameVector DEF ParserInv, Parsing
<1>10. CASE BadArgument(r)
    <2>1. arguments' = SetType(arguments, first, r.type) /\ pc' = "cleanup"
          /\ heap' = heap \cup (IF r.lost THEN {0} ELSE {})
        BY <1>10 DEF BadArgument, SetPresent, SetType, SetText
    <2>2. /\ Shaped(arguments', Specs)
          /\ arguments'[first].present = arguments[first].present
          /\ \A j \in DOMAIN Specs \ {first} : arguments'[j] = arguments[j]
        BY <1>4, <1>7, <2>1, SetTypeShape
    <2>3. Vector' /\ Owners'
        BY <1>1, <1>3, <1>4, <1>5, <1>6, <2>1, <2>2 DEF Vector, Owners
    <2> QED
        BY <2>1, <2>3 DEF ParserInv, Parsing
<1>11. CASE Abort(r)
    BY <1>11 DEF Abort, ParserInv, Parsing
<1> QED
    BY <1>2, <1>8, <1>9, <1>10, <1>11

LEMMA CleanupPreserves ==
    ASSUME ParserInv, CleanupArguments
    PROVE  ParserInv'
<1>1. Vector /\ Owners /\ pc' = "done" /\ UNCHANGED <<cmd, arguments>>
      /\ heap' = heap \ {i \in DOMAIN arguments : arguments[i].type \in OnHeap}
    BY DEF CleanupArguments, ParserInv
<1>2. DOMAIN arguments = DOMAIN Specs
    BY <1>1 DEF Vector, Shaped
<1>3. Freed'
    BY <1>1, <1>2 DEF Owners, Freed
<1> QED
    BY <1>1, <1>3 DEF ParserInv, Parsing

(* Every step of the parser keeps its invariant. *)
LEMMA ParserPreserves ==
    ASSUME ParserInv, ParserNext
    PROVE  ParserInv'
<1>1. CASE DefaultAction \/ Help \/ UnknownCommand \/ FindCommand
    BY <1>1, FindPreserves
<1>2. CASE NoMoreOptions \/ DashButNoOption
    BY <1>2, EndOfOptions DEF NoMoreOptions, DashButNoOption
<1>3. CASE UnrecognizedOption \/ DuplicateOption \/ UnexpectedArgument
    BY <1>3, GivesUp DEF UnrecognizedOption, DuplicateOption, UnexpectedArgument, Parsing
<1>4. CASE AllParsed
    <2>1. Vector /\ Typed_ /\ Owners /\ Arguing /\ first > Len(Specs)
        BY <1>4 DEF AllParsed, ParserInv, Parsing
    <2>2. option_count \in Nat /\ Len(Specs) \in Nat
        BY <2>1, CountOptions DEF Vector, Row
    <2>3. AllThere
        BY <2>1, <2>2 DEF Arguing, Arguments, AllThere
    <2> QED
        BY <1>4, <2>1, <2>3, SameVector DEF AllParsed, ParserInv, Parsing
<1> QED
    BY <1>1, <1>2, <1>3, <1>4, ParseOptionPreserves, ParseArgumentPreserves, CleanupPreserves
       DEF ParserNext

(* The entries of the vector are what the macros of the handler assert.    *)
LEMMA ArgumentsReady ==
    ASSUME ParserInv
    PROVE  HandlerReady
<1> SUFFICES ASSUME pc = "handler"
             PROVE  LET uses == Uses(commands[cmd].handler) IN
                    /\ DOMAIN uses \subseteq DOMAIN arguments
                    /\ \A i \in DOMAIN uses : Asserts(uses[i], arguments[i])
    BY DEF HandlerReady
<1>1. Vector /\ Typed_ /\ AllThere
    BY DEF ParserInv, Parsing
<1>2. PICK n, k : Row(cmd, n, k) /\ option_count = k /\ DOMAIN Specs = 1 .. n /\ Len(Specs) = n
    BY <1>1, CountOptions DEF Vector
<1> DEFINE uses == Uses(commands[cmd].handler)
<1>3. DOMAIN uses = 1 .. n /\ DOMAIN arguments = 1 .. n /\ n \in Nat /\ k \in 0 .. n
    BY <1>1, <1>2 DEF Row, RowFits, Vector, Shaped
<1>4. ASSUME NEW i \in 1 .. n
      PROVE  Asserts(uses[i], arguments[i])
    <2> DEFINE use == uses[i]
               spec == Specs[i]
               a == arguments[i]
    <2>1. /\ a.option = spec.option /\ a.argument = spec.argument
          /\ a.type \in {"NONE", spec.type}
          /\ a.present => a.type = spec.type
        BY <1>1, <1>2 DEF Vector, Shaped, Typed_
    <2>2. i \in k + 1 .. n => a.present \/ spec.option = OPTIONAL
        BY <1>1, <1>2 DEF AllThere, Supplied
    <2>3. \/ i \in 1 .. k /\ OptionEntry(spec, use)
          \/ /\ i \in k + 1 .. n
             /\ ArgumentEntry(spec, use) \/ OptionalEntry(spec, use) \/ WordsEntry(spec, use)
        BY <1>2, <1>3 DEF Row, RowFits, Specs
    <2>4. ARGUMENT # OPTIONAL
        BY DEF ARGUMENT, OPTIONAL
    <2> HIDE DEF use, spec, a
    <2>5. use.get \in Macros /\ UseFits(use, spec)
        BY <2>3 DEF OptionEntry, ArgumentEntry, OptionalEntry, WordsEntry
    <2>6. spec.option = ARGUMENT => a.present
        BY <2>2, <2>3, <2>4 DEF OptionEntry, SpecIsOption
    <2>7. Asserts(use, a)
        BY <2>1, <2>4, <2>5, <2>6 DEF Asserts, UseFits, Macros
    <2> QED
        BY <2>7 DEF use, a
<1> QED
    BY <1>3, <1>4

-----------------------------------------------------------------------------
(***************************************************************************)
(* The programs of the handlers, made of pieces.  In a piece every call    *)
(* that needs a feature follows its loading, every pointer that may be     *)
(* NULL has been looked at, and memory is accessed as it was asked; c is 1 *)
(* if the address has been checked before.  A piece that is straight holds *)
(* nothing and returns when a step fails.                                  *)
(***************************************************************************)
Allowed(fn, h, is_checked) ==
    /\ fn \in Unsafe => Typed("f") \/ h = "ap"
    /\ fn \in Physical => Typed("p")
    /\ fn \in Writes /\ ~Typed("f") => is_checked
    /\ h \in {"r", "rb", "ri", "rs"} /\ ~Typed("f") => is_checked

Looked(s, j, fn) == \E i \in DOMAIN s : i < j /\ s[i].do = "there" /\ s[i].what = fn
Loaded(s, j, fn) ==
    \E i \in DOMAIN s : i < j /\ s[i].do = "load" /\ FeatureOf[fn] \subseteq s[i].what
CheckedBy(s, j) == \E i \in DOMAIN s : i < j /\ s[i].do = "check"

Prepared(s, j) ==
    s[j].do \in {"call", "loop"} =>
        /\ s[j].what \in DOMAIN FeatureOf => Loaded(s, j, s[j].what)
        /\ s[j].what \in MayBeNull => Looked(s, j, s[j].what)

AsAsked(s, h, c, j) ==
    s[j].do = "call" /\ s[j].what \in MemoryFunctions =>
        Allowed(s[j].what, h, c = 1 \/ CheckedBy(s, j))

StraightSteps == {"load", "there", "call", "loop", "check", "refuse", "may_refuse"}
Straight(s, h, c) ==
    /\ IsSeq(s)
    /\ \A j \in DOMAIN s :
          /\ s[j].fail = 0
          /\ s[j].do \in StraightSteps \/ (s[j].do = "leave" /\ h = "root")
          /\ Prepared(s, j)
          /\ AsAsked(s, h, c, j)

LEMMA Both ==
    ASSUME NEW a, NEW b, NEW h, NEW c, NEW d,
           Straight(a, h, c), Straight(b, h, d),
           d = 1 => c = 1 \/ \E i \in DOMAIN a : a[i].do = "check"
    PROVE  Straight(a \o b, h, c)
<1> DEFINE s == a \o b
<1>1. IsSeq(a) /\ IsSeq(b)
    BY DEF Straight
<1>2. /\ IsSeq(s) /\ Len(a) \in Nat /\ Len(b) \in Nat
      /\ DOMAIN a = 1 .. Len(a) /\ DOMAIN b = 1 .. Len(b) /\ DOMAIN s = 1 .. Len(a) + Len(b)
      /\ \A i \in DOMAIN a : s[i] = a[i]
      /\ \A i \in DOMAIN b : s[Len(a) + i] = b[i]
    BY <1>1, Concatenation DEF IsSeq
<1> HIDE DEF s
<1>3. ASSUME NEW j \in DOMAIN a
      PROVE  /\ j \in DOMAIN s /\ s[j] = a[j]
             /\ Prepared(s, j) /\ AsAsked(s, h, c, j)
    <2>1. \A i \in DOMAIN a : i \in DOMAIN s /\ s[i] = a[i]
        BY <1>2
    <2>2. Prepared(a, j) /\ AsAsked(a, h, c, j)
        BY DEF Straight
    <2>3. \A fn : Loaded(a, j, fn) => Loaded(s, j, fn)
        BY <2>1 DEF Loaded
    <2>4. \A fn : Looked(a, j, fn) => Looked(s, j, fn)
        BY <2>1 DEF Looked
    <2>5. CheckedBy(a, j) => CheckedBy(s, j)
        BY <2>1 DEF CheckedBy
    <2> QED
        BY <2>1, <2>2, <2>3, <2>4, <2>5 DEF Prepared, AsAsked, Allowed
<1>4. ASSUME NEW j \in DOMAIN b
      PROVE  /\ Len(a) + j \in DOMAIN s /\ s[Len(a) + j] = b[j]
             /\ Prepared(s, Len(a) + j) /\ AsAsked(s, h, c, Len(a) + j)
    <2>1. \A i \in DOMAIN b : /\ Len(a) + i \in DOMAIN s /\ s[Len(a) + i] = b[i]
                              /\ i < j => Len(a) + i < Len(a) + j
        BY <1>2
    <2>2. Prepared(b, j) /\ AsAsked(b, h, d, j)
        BY DEF Straight
    <2>3. \A fn : Loaded(b, j, fn) => Loaded(s, Len(a) + j, fn)
        BY <2>1 DEF Loaded
    <2>4. \A fn : Looked(b, j, fn) => Looked(s, Len(a) + j, fn)
        BY <2>1 DEF Looked
    <2>5. d = 1 \/ CheckedBy(b, j) => c = 1 \/ CheckedBy(s, Len(a) + j)
        <3>1. \A i \in DOMAIN a : i \in DOMAIN s /\ s[i] = a[i] /\ i < Len(a) + j
            BY <1>2
        <3> QED
            BY <2>1, <3>1 DEF CheckedBy
    <2> QED
        BY <2>1, <2>2, <2>3, <2>4, <2>5 DEF Prepared, AsAsked, Allowed
<1>5. ASSUME NEW j \in DOMAIN s
      PROVE  /\ s[j].fail = 0
             /\ s[j].do \in StraightSteps \/ (s[j].do = "leave" /\ h = "root")
             /\ Prepared(s, j) /\ AsAsked(s, h, c, j)
    <2>1. CASE j \in DOMAIN a
        BY <1>3, <2>1 DEF Straight
    <2>2. CASE j \notin DOMAIN a
        <3>1. j - Len(a) \in DOMAIN b /\ Len(a) + (j - Len(a)) = j
            BY <1>2, <2>2
        <3> QED
            BY <1>4, <3>1 DEF Straight
    <2> QED
        BY <2>1, <2>2
<1> QED
    BY <1>2, <1>5 DEF Straight, s


(* Pieces of one step, and of a few. *)
LEMMA OneStep ==
    ASSUME NEW h, NEW c, NEW f
    PROVE  /\ Straight(<<>>, h, c) /\ Straight(<<Load(f)>>, h, c)
           /\ Straight(<<Refuse>>, h, c) /\ Straight(<<MayRefuse>>, h, c)
           /\ Straight(<<Do("check", "address")>>, h, c)
BY DEF Straight, IsSeq, StraightSteps, Prepared, AsAsked, Load, Refuse, MayRefuse, Do

LEMMA LoadAndCall ==
    ASSUME NEW h, NEW c, NEW f, NEW fn,
           fn \in DOMAIN FeatureOf => FeatureOf[fn] \subseteq f,
           fn \notin MayBeNull,
           fn \in MemoryFunctions => Allowed(fn, h, c = 1)
    PROVE  Straight(<<Load(f), Call(fn)>>, h, c)
<1> DEFINE s == <<Load(f), Call(fn)>>
<1>1. /\ IsSeq(s) /\ DOMAIN s = 1 .. 2
      /\ s[1] = [do |-> "load", what |-> f, fail |-> 0]
      /\ s[2] = [do |-> "call", what |-> fn, fail |-> 0]
    BY DEF IsSeq, Load, Call, Do
<1> HIDE DEF s
<1>2. Prepared(s, 2) /\ AsAsked(s, h, c, 2)
    BY <1>1 DEF Prepared, AsAsked, Loaded, Allowed
<1>3. Prepared(s, 1) /\ AsAsked(s, h, c, 1)
    BY <1>1 DEF Prepared, AsAsked
<1>4. Straight(s, h, c)
    BY <1>1, <1>2, <1>3 DEF Straight, StraightSteps
<1> QED
    BY <1>4 DEF s

LEMMA LoadAndRepeat ==
    ASSUME NEW h, NEW c, NEW f, NEW fn,
           fn \in DOMAIN FeatureOf => FeatureOf[fn] \subseteq f,
           fn \notin MayBeNull
    PROVE  Straight(<<Load(f), Do("loop", fn)>>, h, c)
<1> DEFINE s == <<Load(f), Do("loop", fn)>>
<1>1. /\ IsSeq(s) /\ DOMAIN s = 1 .. 2
      /\ s[1] = [do |-> "load", what |-> f, fail |-> 0]
      /\ s[2] = [do |-> "loop", what |-> fn, fail |-> 0]
    BY DEF IsSeq, Load, Do
<1> HIDE DEF s
<1>2. Prepared(s, 2) /\ AsAsked(s, h, c, 2)
    BY <1>1 DEF Prepared, AsAsked, Loaded
<1>3. Prepared(s, 1) /\ AsAsked(s, h, c, 1)
    BY <1>1 DEF Prepared, AsAsked
<1>4. Straight(s, h, c)
    BY <1>1, <1>2, <1>3 DEF Straight, StraightSteps
<1> QED
    BY <1>4 DEF s

LEMMA LoadLookAndCall ==
    ASSUME NEW h, NEW c, NEW f, NEW fn,
           fn \in DOMAIN FeatureOf => FeatureOf[fn] \subseteq f,
           fn \in MemoryFunctions => Allowed(fn, h, c = 1)
    PROVE  Straight(<<Load(f)>> \o CallIfThere(fn), h, c)
<1> DEFINE s == <<Load(f)>> \o CallIfThere(fn)
<1>1. /\ IsSeq(s) /\ DOMAIN s = 1 .. 3
      /\ s[1] = [do |-> "load", what |-> f, fail |-> 0]
      /\ s[2] = [do |-> "there", what |-> fn, fail |-> 0]
      /\ s[3] = [do |-> "call", what |-> fn, fail |-> 0]
    BY DEF IsSeq, Load, Call, Do, CallIfThere
<1> HIDE DEF s
<1>2. Prepared(s, 3) /\ AsAsked(s, h, c, 3)
    BY <1>1 DEF Prepared, AsAsked, Loaded, Looked, Allowed
<1>3. /\ Prepared(s, 1) /\ AsAsked(s, h, c, 1)
      /\ Prepared(s, 2) /\ AsAsked(s, h, c, 2)
    BY <1>1 DEF Prepared, AsAsked
<1>4. Straight(s, h, c)
    BY <1>1, <1>2, <1>3 DEF Straight, StraightSteps
<1> QED
    BY <1>4 DEF s

(* What has to be loaded is in what is loaded. *)
LEMMA FeatureTable ==
    /\ FeatureOf["kernel_read_unsafe"] = KERNEL_MEMORY_BASIC
    /\ FeatureOf["kernel_write_unsafe"] = KERNEL_MEMORY_BASIC
    /\ FeatureOf["kernel_read_safe"] = KERNEL_MEMORY
    /\ FeatureOf["kernel_write_safe"] = KERNEL_MEMORY
    /\ FeatureOf["physical_read_unsafe"] = KERNEL_MEMORY
    /\ FeatureOf["physical_write_unsafe"] = KERNEL_MEMORY
    /\ FeatureOf["physical_read_safe"] = KERNEL_MEMORY
    /\ FeatureOf["physical_write_safe"] = KERNEL_MEMORY
    /\ FeatureOf["kernel_virtual_to_physical"] = KERNEL_MEMORY
    /\ FeatureOf["zone_element_size"] = KERNEL_MEMORY
    /\ FeatureOf["pmap_cache_attributes"] = KERNEL_MEMORY
    /\ FeatureOf["kernel_call"] = KERNEL_CALL
    /\ FeatureOf["proc_find"] = PROCESS
    /\ FeatureOf["class_size"] = CLASS
    /\ FeatureOf["kernel_allocate"] = KERNEL_TASK
    /\ FeatureOf["kernel_deallocate"] = KERNEL_TASK
    /\ FeatureOf["mach_vm_region"] = KERNEL_TASK
    /\ FeatureOf["mach_vm_protect"] = KERNEL_TASK
    /\ FeatureOf["resolve_symbol"] = KERNEL_SYMBOLS
    /\ FeatureOf["class_vtable"] = KERNEL_SYMBOLS
    /\ FeatureOf["class_metaclass"] = KERNEL_SYMBOLS
    /\ FeatureOf["kext_resolve_address"] = KERNEL_SYMBOLS
    /\ "setuid_root" \notin DOMAIN FeatureOf
    /\ "write" \notin DOMAIN FeatureOf
BY DEF FeatureOf

(* The calls of memctl.c that need nothing of what was typed. *)
LEMMA LibraryPieces ==
    ASSUME NEW h, NEW c
    PROVE  /\ Straight(ResolveSymbol, h, c) /\ Straight(VmRegion, h, c)
           /\ Straight(VmMap, h, c) /\ Straight(VmProtect, h, c)
           /\ Straight(FindVtable, h, c) /\ Straight(FindMetaclass, h, c)
           /\ Straight(<<Load(KERNEL_CALL), Call("kernel_call")>>, h, c)
           /\ Straight(<<Load(KERNEL_MEMORY), Call("kernel_virtual_to_physical")>>, h, c)
           /\ Straight(<<Load(KERNEL_MEMORY), Do("loop", "kernel_virtual_to_physical")>>, h, c)
           /\ Straight(<<Load(KERNEL_TASK), Call("kernel_allocate")>>, h, c)
           /\ Straight(<<Load(KERNEL_TASK), Call("kernel_deallocate")>>, h, c)
<1> USE FeatureTable DEF MayBeNull, MemoryFunctions, Unsafe, Physical
<1>1. Straight(ResolveSymbol, h, c)
    BY LoadAndCall DEF ResolveSymbol
<1>2. Straight(VmRegion, h, c)
    BY LoadAndCall DEF VmRegion
<1>3. Straight(VmMap, h, c)
    BY LoadAndRepeat DEF VmMap
<1>4. Straight(VmProtect, h, c)
    BY LoadAndCall DEF VmProtect
<1>5. Straight(FindVtable, h, c)
    BY LoadAndCall DEF FindVtable
<1>6. Straight(FindMetaclass, h, c)
    BY LoadAndCall DEF FindMetaclass
<1>7. Straight(<<Load(KERNEL_CALL), Call("kernel_call")>>, h, c)
    BY LoadAndCall
<1>8. Straight(<<Load(KERNEL_MEMORY), Call("kernel_virtual_to_physical")>>, h, c)
    BY LoadAndCall
<1>9. Straight(<<Load(KERNEL_MEMORY), Do("loop", "kernel_virtual_to_physical")>>, h, c)
    BY LoadAndRepeat
<1>10. Straight(<<Load(KERNEL_TASK), Call("kernel_allocate")>>, h, c)
    BY LoadAndCall
<1>11. Straight(<<Load(KERNEL_TASK), Call("kernel_deallocate")>>, h, c)
    BY LoadAndCall
<1> QED
    BY <1>1, <1>2, <1>3, <1>4, <1>5, <1>6, <1>7, <1>8, <1>9, <1>10, <1>11

LEMMA LookingPieces ==
    ASSUME NEW h, NEW c
    PROVE  /\ Straight(<<Load(PROCESS)>> \o CallIfThere("proc_find"), h, c)
           /\ Straight(<<Load(CLASS)>> \o CallIfThere("class_size"), h, c)
           /\ Straight(<<Load(KERNEL_MEMORY)>> \o CallIfThere("zone_element_size"), h, c)
BY FeatureTable, LoadLookAndCall DEF MemoryFunctions, Unsafe, Physical

(* default_virtual_range *)
LEMMA DefaultRangePiece ==
    ASSUME NEW h, NEW c
    PROVE  Straight(DefaultRange, h, c)
<1>1. /\ IsSeq(DefaultRange) /\ DOMAIN DefaultRange = 1 .. 3
      /\ DefaultRange[1] = [do |-> "load", what |-> KERNEL_TASK, fail |-> 0]
      /\ DefaultRange[2] = [do |-> "call", what |-> "mach_vm_region", fail |-> 0]
      /\ DefaultRange[3] = [do |-> "loop", what |-> "mach_vm_region", fail |-> 0]
    BY DEF DefaultRange, VmRegion, IsSeq, Load, Call, Do
<1>2. \A fn : FeatureOf[fn] = KERNEL_TASK =>
          Loaded(DefaultRange, 2, fn) /\ Loaded(DefaultRange, 3, fn)
    BY <1>1 DEF Loaded
<1>3. \A j \in 1 .. 3 : Prepared(DefaultRange, j) /\ AsAsked(DefaultRange, h, c, j)
    BY <1>1, <1>2, FeatureTable
       DEF Prepared, AsAsked, MayBeNull, MemoryFunctions, Unsafe, Physical
<1> QED
    BY <1>1, <1>3 DEF Straight, StraightSteps

(* read_kernel and write_kernel call the function that what was typed asks *)
(* for.                                                                    *)
ReadsAsked(h, c) == h \in {"r", "rb", "ri", "rs"} /\ ~Typed("f") => c = 1

LEMMA ReadPieces ==
    ASSUME NEW h, NEW c, ReadsAsked(h, c)
    PROVE  /\ Typed("f") =>
                Straight(<<Load(KERNEL_MEMORY_BASIC)>> \o CallIfThere("kernel_read_unsafe"), h, c)
           /\ Straight(<<Load(KERNEL_MEMORY)>> \o CallIfThere("kernel_read_safe"), h, c)
           /\ Typed("p") =>
                Straight(<<Load(KERNEL_MEMORY)>> \o CallIfThere("physical_read_safe"), h, c)
           /\ Typed("p") /\ Typed("f") =>
                Straight(<<Load(KERNEL_MEMORY)>> \o CallIfThere("physical_read_unsafe"), h, c)
<1>1. /\ Typed("f") => Allowed("kernel_read_unsafe", h, c = 1)
      /\ Allowed("kernel_read_safe", h, c = 1)
      /\ Typed("p") => Allowed("physical_read_safe", h, c = 1)
      /\ Typed("p") /\ Typed("f") => Allowed("physical_read_unsafe", h, c = 1)
    BY DEF Allowed, ReadsAsked, Unsafe, Physical, Writes
<1> QED
    BY <1>1, FeatureTable, LoadLookAndCall

LEMMA WritePieces ==
    ASSUME NEW h, NEW c, ReadsAsked(h, c), ~Typed("f") => c = 1
    PROVE  /\ Typed("f") =>
                Straight(<<Load(KERNEL_MEMORY_BASIC)>> \o CallIfThere("kernel_write_unsafe"), h, c)
           /\ Straight(<<Load(KERNEL_MEMORY)>> \o CallIfThere("kernel_write_safe"), h, c)
           /\ Typed("p") =>
                Straight(<<Load(KERNEL_MEMORY)>> \o CallIfThere("physical_write_safe"), h, c)
           /\ Typed("p") /\ Typed("f") =>
                Straight(<<Load(KERNEL_MEMORY)>> \o CallIfThere("physical_write_unsafe"), h, c)
<1>1. /\ Typed("f") => Allowed("kernel_write_unsafe", h, c = 1)
      /\ Allowed("kernel_write_safe", h, c = 1)
      /\ Typed("p") => Allowed("physical_write_safe", h, c = 1)
      /\ Typed("p") /\ Typed("f") => Allowed("physical_write_unsafe", h, c = 1)
    BY DEF Allowed, ReadsAsked, Unsafe, Physical, Writes
<1> QED
    BY <1>1, FeatureTable, LoadLookAndCall

LEMMA ReadKernelPiece ==
    ASSUME NEW h, NEW c, ReadsAsked(h, c)
    PROVE  /\ Straight(ReadKernel(Typed("f"), Typed("p")), h, c)
           /\ Straight(ReadKernel(Typed("f"), FALSE), h, c)
           /\ Straight(ReadKernel(FALSE, FALSE), h, c)
<1> DEFINE basic == <<Load(KERNEL_MEMORY_BASIC)>> \o CallIfThere("kernel_read_unsafe")
           safe == <<Load(KERNEL_MEMORY)>> \o CallIfThere("kernel_read_safe")
           physical == <<Load(KERNEL_MEMORY)>> \o CallIfThere("physical_read_safe")
           unsafe == <<Load(KERNEL_MEMORY)>> \o CallIfThere("physical_read_unsafe")
<1>1. /\ Typed("f") => Straight(basic, h, c)
      /\ Straight(safe, h, c)
      /\ Typed("p") => Straight(physical, h, c)
      /\ Typed("p") /\ Typed("f") => Straight(unsafe, h, c)
    BY ReadPieces
<1>2. /\ Typed("p") /\ Typed("f") => ReadKernel(Typed("f"), Typed("p")) = unsafe
      /\ Typed("p") /\ ~Typed("f") => ReadKernel(Typed("f"), Typed("p")) = physical
      /\ ~Typed("p") /\ Typed("f") => ReadKernel(Typed("f"), Typed("p")) = basic
      /\ ~Typed("p") /\ ~Typed("f") => ReadKernel(Typed("f"), Typed("p")) = safe
    BY DEF ReadKernel
<1>3. /\ Typed("f") => ReadKernel(Typed("f"), FALSE) = basic
      /\ ~Typed("f") => ReadKernel(Typed("f"), FALSE) = safe
    BY DEF ReadKernel
<1>4. ReadKernel(FALSE, FALSE) = safe
    BY DEF ReadKernel
<1> HIDE DEF basic, safe, physical, unsafe
<1> QED
    BY <1>1, <1>2, <1>3, <1>4

LEMMA WriteKernelPiece ==
    ASSUME NEW h, NEW c, ReadsAsked(h, c), ~Typed("f") => c = 1
    PROVE  Straight(WriteKernel(Typed("f"), Typed("p")), h, c)
<1> DEFINE basic == <<Load(KERNEL_MEMORY_BASIC)>> \o CallIfThere("kernel_write_unsafe")
           safe == <<Load(KERNEL_MEMORY)>> \o CallIfThere("kernel_write_safe")
           physical == <<Load(KERNEL_MEMORY)>> \o CallIfThere("physical_write_safe")
           unsafe == <<Load(KERNEL_MEMORY)>> \o CallIfThere("physical_write_unsafe")
<1>1. /\ Typed("f") => Straight(basic, h, c)
      /\ Straight(safe, h, c)
      /\ Typed("p") => Straight(physical, h, c)
      /\ Typed("p") /\ Typed("f") => Straight(unsafe, h, c)
    BY WritePieces
<1>2. /\ Typed("p") /\ Typed("f") => WriteKernel(Typed("f"), Typed("p")) = unsafe
      /\ Typed("p") /\ ~Typed("f") => WriteKernel(Typed("f"), Typed("p")) = physical
      /\ ~Typed("p") /\ Typed("f") => WriteKernel(Typed("f"), Typed("p")) = basic
      /\ ~Typed("p") /\ ~Typed("f") => WriteKernel(Typed("f"), Typed("p")) = safe
    BY DEF WriteKernel
<1> HIDE DEF basic, safe, physical, unsafe
<1> QED
    BY <1>1, <1>2

(* Two pieces, neither of which needs the address to be checked. *)
LEMMA InTurn ==
    ASSUME NEW a, NEW b, NEW h, Straight(a, h, 0), Straight(b, h, 0)
    PROVE  Straight(a \o b, h, 0)
BY Both

(* The address is checked, then memory is accessed; or -f was given. *)
LEMMA CheckedPiece ==
    ASSUME NEW h, NEW access,
           ~Typed("f") => Straight(access, h, 1),
           Typed("f") => Straight(access, h, 0)
    PROVE  Straight(Checked(access), h, 0)
<1>1. CASE Typed("f")
    <2> DEFINE none == <<>>
    <2>1. Checked(access) = none \o access
        BY <1>1, Zenon DEF Checked, When
    <2>2. Straight(none, h, 0)
        BY OneStep
    <2> HIDE DEF none
    <2> QED
        BY <1>1, <2>1, <2>2, InTurn
<1>2. CASE ~Typed("f")
    <2> DEFINE check == <<Do("check", "address")>>
    <2>1. Checked(access) = check \o access
        BY <1>2 DEF Checked, When
    <2>2. Straight(check, h, 0)
        BY OneStep
    <2>3. \E i \in DOMAIN check : check[i].do = "check"
        BY DEF Do
    <2> HIDE DEF check
    <2> QED
        BY <1>2, <2>1, <2>2, <2>3, Both
<1> QED
    BY <1>1, <1>2

LEMMA AccessPieces ==
    ASSUME NEW h
    PROVE  Straight(Reading, h, 0) /\ Straight(Writing, h, 0)
<1>1. /\ ~Typed("f") => ReadsAsked(h, 1)
      /\ Typed("f") => ReadsAsked(h, 0)
    BY DEF ReadsAsked
<1>2. Straight(Reading, h, 0)
    <2> DEFINE access == ReadKernel(Typed("f"), Typed("p"))
    <2>1. /\ ~Typed("f") => Straight(access, h, 1)
          /\ Typed("f") => Straight(access, h, 0)
        BY <1>1, ReadKernelPiece
    <2>2. Reading = Checked(access)
        BY DEF Reading
    <2> HIDE DEF access
    <2> QED
        BY <2>1, <2>2, CheckedPiece
<1>3. Straight(Writing, h, 0)
    <2> DEFINE access == WriteKernel(Typed("f"), Typed("p"))
    <2>1. /\ ~Typed("f") => Straight(access, h, 1)
          /\ Typed("f") => Straight(access, h, 0)
        BY <1>1, WriteKernelPiece
    <2>2. Writing = Checked(access)
        BY DEF Writing
    <2> HIDE DEF access
    <2> QED
        BY <2>1, <2>2, CheckedPiece
<1> QED
    BY <1>2, <1>3

LEMMA FindPiece ==
    ASSUME NEW h, ReadsAsked(h, 0)
    PROVE  Straight(Find(Typed("p")), h, 0) /\ Straight(Find(FALSE), h, 0)
<1> DEFINE safe == <<Load(KERNEL_MEMORY)>> \o CallIfThere("kernel_read_safe")
           physical == <<Load(KERNEL_MEMORY)>> \o CallIfThere("physical_read_safe")
<1>1. Straight(safe, h, 0) /\ (Typed("p") => Straight(physical, h, 0))
    BY ReadPieces
<1>2. /\ Typed("p") => Find(Typed("p")) = physical
      /\ ~Typed("p") => Find(Typed("p")) = safe
      /\ Find(FALSE) = safe
    BY DEF Find
<1> HIDE DEF safe, physical
<1> QED
    BY <1>1, <1>2

LEMMA BundlePiece ==
    ASSUME NEW h
    PROVE  Straight(BundleOptions, h, 0)
BY OneStep DEF BundleOptions, When

LEMMA MemoryPrograms ==
    ASSUME NEW h \in {"r", "rb", "ri", "rs", "w", "wd", "ws", "rif", "f"}
    PROVE  Straight(MemoryProgram(h), h, 0)
<1>1. CASE h \in {"r", "rb", "ri", "rs"}
    BY <1>1, AccessPieces DEF MemoryProgram
<1>2. CASE h \in {"w", "wd", "ws"}
    BY <1>2, AccessPieces DEF MemoryProgram
<1>3. CASE h = "rif"
    <2>1. MemoryProgram(h) = ResolveSymbol \o ReadKernel(Typed("f"), FALSE)
        BY <1>3 DEF MemoryProgram
    <2>2. ReadsAsked(h, 0)
        BY <1>3 DEF ReadsAsked
    <2> QED
        BY <2>1, <2>2, InTurn, LibraryPieces, ReadKernelPiece
<1>4. CASE h = "f"
    <2> DEFINE both == When(Typed("p") /\ Typed("h"), <<Refuse>>)
               range == When(~Typed("p") /\ ~Typed("h"), DefaultRange)
    <2>1. MemoryProgram(h) = both \o range \o Find(Typed("p"))
        BY <1>4 DEF MemoryProgram
    <2>2. Straight(both, h, 0)
        BY OneStep DEF When
    <2>3. Straight(range, h, 0)
        BY OneStep, DefaultRangePiece DEF When
    <2>4. ReadsAsked(h, 0)
        BY <1>4 DEF ReadsAsked
    <2> HIDE DEF both, range
    <2>5. Straight(both \o range, h, 0)
        BY <2>2, <2>3, InTurn
    <2> QED
        BY <2>1, <2>4, <2>5, InTurn, FindPiece
<1> QED
    BY <1>1, <1>2, <1>3, <1>4

LEMMA ClassPrograms ==
    ASSUME NEW h \in {"fc", "cm", "cz", "vt"}
    PROVE  Straight(ClassProgram(h), h, 0)
<1>0. /\ Straight(BundleOptions, h, 0)
      /\ Straight(FindVtable, h, 0) /\ Straight(FindMetaclass, h, 0)
      /\ Straight(Find(FALSE), h, 0)
      /\ Straight(<<Load(CLASS)>> \o CallIfThere("class_size"), h, 0)
    BY BundlePiece, LibraryPieces, FindPiece, LookingPieces DEF ReadsAsked
<1>1. CASE h = "fc"
    <2>1. ClassProgram(h) = BundleOptions \o FindVtable \o Find(FALSE)
        BY <1>1 DEF ClassProgram
    <2>2. Straight(BundleOptions \o FindVtable, h, 0)
        BY <1>0, InTurn
    <2> QED
        BY <1>0, <2>1, <2>2, InTurn
<1>2. CASE h = "cm"
    BY <1>0, <1>2, InTurn DEF ClassProgram
<1>3. CASE h = "cz"
    <2> DEFINE load == <<Load(CLASS)>>
               size == CallIfThere("class_size")
    <2>1. ClassProgram(h) = BundleOptions \o FindMetaclass \o load \o size
        BY <1>3 DEF ClassProgram
    <2>2. /\ Straight(BundleOptions \o FindMetaclass, h, 0)
          /\ IsSeq(BundleOptions \o FindMetaclass)
        BY <1>0, InTurn DEF Straight
    <2>3. IsSeq(load) /\ IsSeq(size)
        BY DEF IsSeq, CallIfThere
    <2>4. (BundleOptions \o FindMetaclass) \o load \o size
            = (BundleOptions \o FindMetaclass) \o (load \o size)
        BY <2>2, <2>3 DEF IsSeq
    <2> HIDE DEF load, size
    <2> QED
        BY <1>0, <2>1, <2>2, <2>4, InTurn DEF load, size
<1>4. CASE h = "vt"
    BY <1>0, <1>4, InTurn DEF ClassProgram
<1> QED
    BY <1>1, <1>2, <1>3, <1>4

LEMMA CallPrograms ==
    ASSUME NEW h \in {"fpr", "kc", "kcv"}
    PROVE  Straight(CallProgram(h), h, 0)
<1> DEFINE call == <<Load(KERNEL_CALL), Call("kernel_call")>>
           may == <<MayRefuse>>
           read == ReadKernel(FALSE, FALSE)
           find == <<Load(PROCESS)>> \o CallIfThere("proc_find")
<1>1. /\ Straight(call, h, 0) /\ Straight(may, h, 0)
      /\ Straight(read, h, 0) /\ Straight(find, h, 0)
    BY OneStep, LibraryPieces, LookingPieces, ReadKernelPiece DEF ReadsAsked
<1>2. CASE h = "fpr"
    <2>1. CallProgram(h) = may \o find
        BY <1>2 DEF CallProgram, CallIfThere
    <2> HIDE DEF may, find
    <2> QED
        BY <1>1, <2>1, InTurn
<1>3. CASE h = "kc"
    <2>1. CallProgram(h) = may \o call
        BY <1>3 DEF CallProgram
    <2> HIDE DEF may, call
    <2> QED
        BY <1>1, <2>1, InTurn
<1>4. CASE h = "kcv"
    <2>1. CallProgram(h) = may \o read \o read \o call
        BY <1>4 DEF CallProgram
    <2> HIDE DEF may, read, call
    <2>2. Straight(may \o read \o read, h, 0)
        BY <1>1, InTurn
    <2> QED
        BY <1>1, <2>1, <2>2, InTurn
<1> QED
    BY <1>2, <1>3, <1>4

(* pca looks at its pointer and calls another function before its own. *)
LEMMA CacheAttributesProgram ==
    Straight(KernelProgram("pca"), "pca", 0)
<1> DEFINE s == KernelProgram("pca")
<1>1. s = <<Load(KERNEL_MEMORY), Do("there", "pmap_cache_attributes")>> \o
          When(Typed("v"), <<Call("kernel_virtual_to_physical")>>) \o
          <<Call("pmap_cache_attributes")>>
    BY DEF KernelProgram
<1>2. CASE Typed("v")
    <2>1. s = <<Load(KERNEL_MEMORY), Do("there", "pmap_cache_attributes")>> \o
              <<Call("kernel_virtual_to_physical")>> \o <<Call("pmap_cache_attributes")>>
        BY <1>1, <1>2 DEF When
    <2>2. /\ IsSeq(s) /\ DOMAIN s = 1 .. 4
          /\ s[1] = [do |-> "load", what |-> KERNEL_MEMORY, fail |-> 0]
          /\ s[2] = [do |-> "there", what |-> "pmap_cache_attributes", fail |-> 0]
          /\ s[3] = [do |-> "call", what |-> "kernel_virtual_to_physical", fail |-> 0]
          /\ s[4] = [do |-> "call", what |-> "pmap_cache_attributes", fail |-> 0]
        BY <2>1 DEF IsSeq, Load, Call, Do
    <2> HIDE DEF s
    <2>3. /\ Loaded(s, 3, "kernel_virtual_to_physical")
          /\ Loaded(s, 4, "pmap_cache_attributes") /\ Looked(s, 4, "pmap_cache_attributes")
        BY <2>2, FeatureTable DEF Loaded, Looked
    <2>4. \A j \in 1 .. 4 : Prepared(s, j) /\ AsAsked(s, "pca", 0, j)
        BY <2>2, <2>3 DEF Prepared, AsAsked, MayBeNull, MemoryFunctions, Unsafe, Physical
    <2>5. Straight(s, "pca", 0)
        BY <2>2, <2>4 DEF Straight, StraightSteps
    <2> QED
        BY <2>5 DEF s
<1>3. CASE ~Typed("v")
    <2>1. s = <<Load(KERNEL_MEMORY), Do("there", "pmap_cache_attributes")>> \o
              <<>> \o <<Call("pmap_cache_attributes")>>
        BY <1>1, <1>3 DEF When
    <2>2. /\ IsSeq(s) /\ DOMAIN s = 1 .. 3
          /\ s[1] = [do |-> "load", what |-> KERNEL_MEMORY, fail |-> 0]
          /\ s[2] = [do |-> "there", what |-> "pmap_cache_attributes", fail |-> 0]
          /\ s[3] = [do |-> "call", what |-> "pmap_cache_attributes", fail |-> 0]
        BY <2>1 DEF IsSeq, Load, Call, Do
    <2> HIDE DEF s
    <2>3. Loaded(s, 3, "pmap_cache_attributes") /\ Looked(s, 3, "pmap_cache_attributes")
        BY <2>2, FeatureTable DEF Loaded, Looked
    <2>4. \A j \in 1 .. 3 : Prepared(s, j) /\ AsAsked(s, "pca", 0, j)
        BY <2>2, <2>3 DEF Prepared, AsAsked, MayBeNull, MemoryFunctions, Unsafe, Physical
    <2>5. Straight(s, "pca", 0)
        BY <2>2, <2>4 DEF Straight, StraightSteps
    <2> QED
        BY <2>5 DEF s
<1> QED
    BY <1>2, <1>3

LEMMA KernelPrograms ==
    ASSUME NEW h \in {"kp", "kpm", "zs", "pca"}
    PROVE  Straight(KernelProgram(h), h, 0)
<1>1. CASE h = "kp"
    BY <1>1, LibraryPieces DEF KernelProgram
<1>2. CASE h = "kpm"
    BY <1>2, DefaultRangePiece, LibraryPieces, InTurn DEF KernelProgram
<1>3. CASE h = "zs"
    BY <1>3, LookingPieces DEF KernelProgram
<1>4. CASE h = "pca"
    BY <1>4, CacheAttributesProgram
<1> QED
    BY <1>1, <1>2, <1>3, <1>4

LEMMA VirtualMemoryPrograms ==
    ASSUME NEW h \in {"vm", "vmm", "vma", "vmd", "vmp"}
    PROVE  Straight(VirtualMemoryProgram(h), h, 0)
<1> DEFINE free == <<Load(KERNEL_TASK), Call("kernel_deallocate")>>
           check == <<Do("check", "address")>>
<1>1. Straight(VmMap, h, 0) /\ Straight(VmRegion, h, 0) /\ Straight(VmProtect, h, 0)
    BY LibraryPieces
<1>2. Straight(free, h, 0) /\ Straight(check, h, 0) /\ Straight(<<Refuse>>, h, 0)
      /\ Straight(<<>>, h, 0)
    BY LibraryPieces, OneStep
<1>3. CASE h \in {"vm", "vmm"}
    BY <1>1, <1>3 DEF VirtualMemoryProgram
<1>4. CASE h = "vma"
    BY <1>4, LibraryPieces DEF VirtualMemoryProgram
<1>5. CASE h = "vmd"
    <2> DEFINE region == When(~Given("size"), VmRegion)
    <2>1. VirtualMemoryProgram(h) = region \o free
        BY <1>5 DEF VirtualMemoryProgram
    <2>2. Straight(region, h, 0)
        BY <1>1, <1>2 DEF When
    <2> HIDE DEF region, free
    <2> QED
        BY <1>2, <2>1, <2>2, InTurn
<1>6. CASE h = "vmp"
    <2> DEFINE bad == When("invalid" \in parse_protection(arguments[1].text), <<Refuse>>)
    <2>1. VirtualMemoryProgram(h) = bad \o check \o VmProtect
        BY <1>6 DEF VirtualMemoryProgram
    <2>2. Straight(bad, h, 0)
        BY <1>2 DEF When
    <2> HIDE DEF bad, check
    <2>3. Straight(bad \o check, h, 0)
        BY <1>2, <2>2, InTurn
    <2> QED
        BY <1>1, <2>1, <2>3, InTurn
<1> QED
    BY <1>3, <1>4, <1>5, <1>6

LEMMA SymbolPrograms ==
    ASSUME NEW h \in {"ks", "a", "ap"}
    PROVE  Straight(SymbolProgram(h), h, 0)
<1>1. CASE h \in {"ks", "a"}
    BY <1>1, OneStep, LibraryPieces DEF SymbolProgram
<1>2. CASE h = "ap"
    <2> DEFINE s == SymbolProgram(h)
    <2>1. /\ IsSeq(s) /\ DOMAIN s = 1 .. 3
          /\ s[1] = [do |-> "load", what |-> KERNEL_SYMBOLS \cup KERNEL_MEMORY_BASIC, fail |-> 0]
          /\ s[2] = [do |-> "call", what |-> "resolve_symbol", fail |-> 0]
          /\ s[3] = [do |-> "call", what |-> "kernel_read_unsafe", fail |-> 0]
        BY <1>2 DEF SymbolProgram, IsSeq, Load, Call, Do
    <2> HIDE DEF s
    <2>2. Loaded(s, 2, "resolve_symbol") /\ Loaded(s, 3, "kernel_read_unsafe")
        BY <2>1, FeatureTable DEF Loaded
    <2>3. Allowed("kernel_read_unsafe", h, 0 = 1 \/ CheckedBy(s, 3))
        BY <1>2 DEF Allowed, Physical, Writes
    <2>4. AsAsked(s, h, 0, 1) /\ AsAsked(s, h, 0, 2) /\ AsAsked(s, h, 0, 3)
        BY <2>1, <2>3 DEF AsAsked, MemoryFunctions, Unsafe, Physical
    <2>5. Prepared(s, 1) /\ Prepared(s, 2) /\ Prepared(s, 3)
        BY <2>1, <2>2 DEF Prepared, MayBeNull
    <2>6. Straight(s, h, 0)
        BY <2>1, <2>4, <2>5 DEF Straight, StraightSteps
    <2> QED
        BY <2>6 DEF s
<1> QED
    BY <1>1, <1>2

(* root leaves at its last step. *)
LEMMA RootIsStraight ==
    Straight(RootProgram, "root", 0)
<1> DEFINE s == RootProgram
<1>1. /\ IsSeq(s) /\ DOMAIN s = 1 .. 3
      /\ s[1] = [do |-> "load", what |-> PRIVESC, fail |-> 0]
      /\ s[2] = [do |-> "call", what |-> "setuid_root", fail |-> 0]
      /\ s[3] = [do |-> "leave", what |-> "execve", fail |-> 0]
    BY DEF RootProgram, IsSeq, Load, Call, Do
<1> HIDE DEF s
<1>2. \A j \in 1 .. 3 : Prepared(s, j) /\ AsAsked(s, "root", 0, j)
    BY <1>1, FeatureTable DEF Prepared, AsAsked, MayBeNull, MemoryFunctions, Unsafe, Physical
<1>3. Straight(s, "root", 0)
    BY <1>1, <1>2 DEF Straight, StraightSteps
<1> QED
    BY <1>3 DEF s

LEMMA MemoryHandlersAre ==
    DOMAIN MemoryHandlers = {"i", "r", "rb", "ri", "rif", "rs", "w", "wd", "ws", "f"}
BY DEF MemoryHandlers

LEMMA StraightPrograms ==
    ASSUME NEW h \in StraightHandlers
    PROVE  Straight(Program(h), h, 0)
<1> DEFINE memory == {"r", "rb", "ri", "rs", "w", "wd", "ws", "rif", "f"}
<1>0. DOMAIN MemoryHandlers \ {"i"} = memory /\ "i" \notin memory
    BY MemoryHandlersAre
<1>1. CASE h \in memory
    BY <1>0, <1>1, MemoryPrograms DEF Program
<1>2. CASE h \in {"fc", "cm", "cz", "vt"}
    BY <1>0, <1>2, ClassPrograms DEF Program
<1>3. CASE h \in {"fpr", "kc", "kcv"}
    BY <1>0, <1>3, CallPrograms DEF Program
<1>4. CASE h \in {"kp", "kpm", "zs", "pca"}
    BY <1>0, <1>4, KernelPrograms DEF Program
<1>5. CASE h \in {"vm", "vmm", "vma", "vmd", "vmp"}
    BY <1>0, <1>5, VirtualMemoryPrograms DEF Program
<1>6. CASE h \in {"ks", "a", "ap"}
    BY <1>0, <1>6, SymbolPrograms DEF Program
<1>7. CASE h \in {"i", "quit"}
    BY <1>0, <1>7, OneStep DEF Program
<1>8. CASE h = "root"
    BY <1>0, <1>8, RootIsStraight DEF Program
<1> QED
    BY <1>1, <1>2, <1>3, <1>4, <1>5, <1>6, <1>7, <1>8 DEF StraightHandlers

-----------------------------------------------------------------------------
(***************************************************************************)
(* Any program.  A step that fails goes back to no step before it and      *)
(* never past a loading, a look or a check.  An account of what the        *)
(* command holds lists, for every step and either value of success, what   *)
(* may be held there; it starts and ends with nothing.                     *)
(***************************************************************************)
Guards == {"load", "there", "check"}

WellMade(s, h) ==
    /\ IsSeq(s)
    /\ \A j \in DOMAIN s :
          /\ \/ s[j].fail = 0
             \/ /\ s[j].fail \in j + 1 .. Len(s) + 1
                /\ \A i \in j .. s[j].fail - 1 : s[i].do \notin Guards
          /\ s[j].do = "leave" => h = "root"
          /\ Prepared(s, j)
          /\ AsAsked(s, h, 0, j)

FailsTo(s, i) == IF s[i].fail = 0 THEN Len(s) + 1 ELSE s[i].fail

(* A step that goes on to the next one with the same success. *)
Accounted(s, i, H, next, bad) ==
    /\ s[i].do \in {"load", "there", "check", "call", "loop", "may_refuse"} =>
          H \in next[i + 1] /\ H \in bad[FailsTo(s, i)]
    /\ s[i].do = "refuse" => H \in bad[FailsTo(s, i)]
    /\ s[i].do = "acquire" => H \cup {s[i].what} \in next[i + 1] /\ H \in bad[FailsTo(s, i)]
    /\ s[i].do = "release" => H \ {s[i].what} \in next[i + 1]
    /\ s[i].do = "leave" => H = {}

Account(s, good, bad) ==
    /\ {} \in good[1]
    /\ \A i \in DOMAIN s :
          /\ \A H \in good[i] :
                /\ Accounted(s, i, H, good, bad)
                /\ s[i].do = "return_if_failed" => H \in good[i + 1]
          /\ \A H \in bad[i] :
                /\ Accounted(s, i, H, bad, bad)
                /\ s[i].do = "return_if_failed" => H \in bad[Len(s) + 1]
    /\ good[Len(s) + 1] \cup bad[Len(s) + 1] \subseteq {{}}

LEMMA StraightIsWellMade ==
    ASSUME NEW s, NEW h, Straight(s, h, 0)
    PROVE  WellMade(s, h) /\ \E good, bad : Account(s, good, bad)
<1>1. WellMade(s, h)
    BY DEF Straight, WellMade, StraightSteps
<1> DEFINE none == [i \in 1 .. Len(s) + 1 |-> {{}}]
<1>2. Len(s) \in Nat /\ DOMAIN s = 1 .. Len(s)
    BY DEF Straight, IsSeq
<1>3. \A i \in 1 .. Len(s) + 1 : none[i] = {{}}
    OBVIOUS
<1> HIDE DEF none
<1>4. ASSUME NEW i \in DOMAIN s, NEW H \in {{}}
      PROVE  Accounted(s, i, H, none, none)
    <2>1. /\ s[i].do \notin {"acquire", "release", "return_if_failed"}
          /\ FailsTo(s, i) = Len(s) + 1
        BY DEF Straight, StraightSteps, FailsTo
    <2>2. H \in none[i + 1] /\ H \in none[Len(s) + 1]
        BY <1>2, <1>3
    <2> QED
        BY <2>1, <2>2 DEF Accounted
<1>5. \A i \in DOMAIN s : s[i].do # "return_if_failed"
    BY DEF Straight, StraightSteps
<1>6. none[1] = {{}} /\ none[Len(s) + 1] = {{}} /\ \A i \in DOMAIN s : none[i] = {{}}
    BY <1>2, <1>3
<1>7. Account(s, none, none)
    BY <1>4, <1>5, <1>6 DEF Account
<1> QED
    BY <1>1, <1>7

(* s, four steps. *)
LEMMA KextSearchProgram ==
    LET s == SymbolProgram("s")
    IN  WellMade(s, "s") /\ \E good, bad : Account(s, good, bad)
<1> DEFINE s == SymbolProgram("s")
           z == {}
           k == {"kext"}
           good == <<{z}, {z}, {k}, {k}, {z}>>
           bad == <<{}, {}, {}, {k}, {z}>>
<1>1. /\ IsSeq(s) /\ Len(s) = 4 /\ DOMAIN s = 1 .. 4
      /\ s[1] = [do |-> "load", what |-> KERNEL_SYMBOLS, fail |-> 0]
      /\ s[2] = [do |-> "acquire", what |-> "kext", fail |-> 0]
      /\ s[3] = [do |-> "call", what |-> "kext_resolve_address", fail |-> 4]
      /\ s[4] = [do |-> "release", what |-> "kext", fail |-> 0]
    BY DEF SymbolProgram, IsSeq, Load, Call, Do, Take_, Give, Else
<1> HIDE DEF s
<1>2. WellMade(s, "s")
    <2>1. Loaded(s, 3, "kext_resolve_address")
        BY <1>1, FeatureTable DEF Loaded
    <2>2. \A j \in 1 .. 4 : Prepared(s, j) /\ AsAsked(s, "s", 0, j)
        BY <1>1, <2>1 DEF Prepared, AsAsked, MayBeNull, MemoryFunctions, Unsafe, Physical
    <2> QED
        BY <1>1, <2>2 DEF WellMade, Guards
<1>3. /\ good[1] = {z} /\ good[2] = {z} /\ good[3] = {k} /\ good[4] = {k} /\ good[5] = {z}
      /\ bad[1] = {} /\ bad[2] = {} /\ bad[3] = {} /\ bad[4] = {k} /\ bad[5] = {z}
    OBVIOUS
<1>4. z \cup {s[2].what} = k /\ k \ {s[4].what} = z
    BY <1>1
<1>5. FailsTo(s, 1) = 5 /\ FailsTo(s, 2) = 5 /\ FailsTo(s, 3) = 4 /\ FailsTo(s, 4) = 5
    BY <1>1 DEF FailsTo
<1> HIDE DEF good, bad, k, z
<1>6. /\ Accounted(s, 1, z, good, bad) /\ Accounted(s, 2, z, good, bad)
      /\ Accounted(s, 3, k, good, bad) /\ Accounted(s, 4, k, good, bad)
      /\ Accounted(s, 4, k, bad, bad)
    <2>1. Accounted(s, 1, z, good, bad)
        BY <1>1, <1>3, <1>5 DEF Accounted
    <2>2. Accounted(s, 2, z, good, bad)
        BY <1>1, <1>3, <1>4, <1>5 DEF Accounted
    <2>3. Accounted(s, 3, k, good, bad)
        BY <1>1, <1>3, <1>5 DEF Accounted
    <2>4. Accounted(s, 4, k, good, bad) /\ Accounted(s, 4, k, bad, bad)
        BY <1>1, <1>3, <1>4, <1>5 DEF Accounted
    <2> QED
        BY <2>1, <2>2, <2>3, <2>4
<1>7. \A i \in 1 .. 4 : s[i].do # "return_if_failed"
    BY <1>1
<1>8. Account(s, good, bad)
    <2>1. \A i \in 1 .. 4 : /\ \A H \in good[i] : Accounted(s, i, H, good, bad)
                            /\ \A H \in bad[i] : Accounted(s, i, H, bad, bad)
        BY <1>3, <1>6
    <2>2. {} \in good[1] /\ good[5] \cup bad[5] \subseteq {{}}
        BY <1>3 DEF z
    <2> QED
        BY <1>1, <1>7, <2>1, <2>2 DEF Account
<1> QED
    BY <1>2, <1>8 DEF s

(* Two pieces in a row, and three. *)
InTwo(s, a, b) ==
    /\ IsSeq(s) /\ Len(s) = Len(a) + Len(b)
    /\ \A i \in DOMAIN a : i \in DOMAIN s /\ s[i] = a[i]
    /\ \A i \in DOMAIN b : Len(a) + i \in DOMAIN s /\ s[Len(a) + i] = b[i]
LEMMA Twos ==
    ASSUME NEW a, NEW b, IsSeq(a), IsSeq(b)
    PROVE  InTwo(a \o b, a, b)
BY Concatenation DEF InTwo, IsSeq

InThree(s, a, b, c) ==
    /\ IsSeq(s) /\ Len(s) = Len(a) + Len(b) + Len(c)
    /\ \A i \in DOMAIN a : s[i] = a[i]
    /\ \A i \in DOMAIN b : s[Len(a) + i] = b[i]
    /\ \A i \in DOMAIN c : s[Len(a) + Len(b) + i] = c[i]

LEMMA Threes ==
    ASSUME NEW a, NEW b, NEW c, IsSeq(a), IsSeq(b), IsSeq(c)
    PROVE  InThree(a \o b \o c, a, b, c)
<1> DEFINE ab == a \o b
           s == ab \o c
<1>1. InTwo(ab, a, b)
    BY Twos
<1>2. IsSeq(ab)
    BY <1>1 DEF InTwo
<1> HIDE DEF ab
<1>3. InTwo(s, ab, c)
    BY <1>2, Twos
<1> HIDE DEF s
<1>4. InThree(s, a, b, c)
    <2>1. /\ IsSeq(s) /\ Len(s) = Len(a) + Len(b) + Len(c)
          /\ \A i \in DOMAIN a : s[i] = a[i]
        BY <1>1, <1>3 DEF InTwo, IsSeq
    <2>2. \A i \in DOMAIN b : s[Len(a) + i] = b[i]
        BY <1>1, <1>3 DEF InTwo, IsSeq
    <2>3. \A i \in DOMAIN c : s[Len(a) + Len(b) + i] = c[i]
        BY <1>1, <1>3 DEF InTwo, IsSeq
    <2> QED
        BY <2>1, <2>2, <2>3 DEF InThree
<1> QED
    BY <1>4 DEF ab, s

(* The steps of class_vtable_lookup. *)
LEMMA LookupSteps ==
    ASSUME NEW n \in Nat
    PROVE  LET s == ClassVtableLookup(n)
           IN  /\ IsSeq(s) /\ Len(s) = 6 /\ DOMAIN s = 1 .. 6
               /\ s[1] = [do |-> "acquire", what |-> "kext", fail |-> 0]
               /\ s[2] = [do |-> "call", what |-> "kext_resolve_address", fail |-> n + 5]
               /\ s[3] = [do |-> "may_refuse", what |-> "usage", fail |-> n + 5]
               /\ s[4] = [do |-> "acquire", what |-> "class_name", fail |-> n + 5]
               /\ s[5] = [do |-> "release", what |-> "kext", fail |-> 0]
               /\ s[6] = [do |-> "return_if_failed", what |-> "success", fail |-> 0]
BY DEF ClassVtableLookup, Take_, Else, Call, MayRefuse, Give, Do, IsSeq

(* vtl, eight steps. *)
LEMMA VtableLookupProgram ==
    LET s == ClassProgram("vtl")
    IN  WellMade(s, "vtl") /\ \E good, bad : Account(s, good, bad)
<1> DEFINE s == ClassProgram("vtl")
           load == <<Load(KERNEL_SYMBOLS)>>
           give == <<Give("class_name")>>
           z == {}
           k == {"kext"}
           c == {"class_name"}
           both == {"kext", "class_name"}
           good == <<{z}, {z}, {k}, {k}, {k}, {both}, {c}, {c}, {z}>>
           bad == <<{}, {}, {}, {}, {}, {k}, {z}, {}, {z}>>
<1>1. /\ IsSeq(s) /\ Len(s) = 8 /\ DOMAIN s = 1 .. 8
      /\ s[1] = [do |-> "load", what |-> KERNEL_SYMBOLS, fail |-> 0]
      /\ s[2] = [do |-> "acquire", what |-> "kext", fail |-> 0]
      /\ s[3] = [do |-> "call", what |-> "kext_resolve_address", fail |-> 6]
      /\ s[4] = [do |-> "may_refuse", what |-> "usage", fail |-> 6]
      /\ s[5] = [do |-> "acquire", what |-> "class_name", fail |-> 6]
      /\ s[6] = [do |-> "release", what |-> "kext", fail |-> 0]
      /\ s[7] = [do |-> "return_if_failed", what |-> "success", fail |-> 0]
      /\ s[8] = [do |-> "release", what |-> "class_name", fail |-> 0]
    <2> DEFINE lookup == ClassVtableLookup(1)
    <2>1. s = LookupVtable(0, TRUE)
        BY DEF ClassProgram
    <2>2. s = load \o lookup \o <<>> \o give
        BY <2>1 DEF LookupVtable, When
    <2>3. /\ IsSeq(lookup) /\ Len(lookup) = 6 /\ DOMAIN lookup = 1 .. 6
          /\ lookup[1] = [do |-> "acquire", what |-> "kext", fail |-> 0]
          /\ lookup[2] = [do |-> "call", what |-> "kext_resolve_address", fail |-> 6]
          /\ lookup[3] = [do |-> "may_refuse", what |-> "usage", fail |-> 6]
          /\ lookup[4] = [do |-> "acquire", what |-> "class_name", fail |-> 6]
          /\ lookup[5] = [do |-> "release", what |-> "kext", fail |-> 0]
          /\ lookup[6] = [do |-> "return_if_failed", what |-> "success", fail |-> 0]
        BY LookupSteps
    <2>4. /\ IsSeq(load) /\ Len(load) = 1 /\ DOMAIN load = 1 .. 1
          /\ IsSeq(give) /\ Len(give) = 1 /\ DOMAIN give = 1 .. 1
          /\ load[1] = [do |-> "load", what |-> KERNEL_SYMBOLS, fail |-> 0]
          /\ give[1] = [do |-> "release", what |-> "class_name", fail |-> 0]
        BY DEF IsSeq, Load, Give, Do
    <2> HIDE DEF lookup, load, give, s
    <2>5. IsSeq(load \o lookup) /\ (load \o lookup) \o <<>> = load \o lookup
        BY <2>3, <2>4, Concatenation DEF IsSeq
    <2>6. s = load \o lookup \o give
        BY <2>2, <2>5
    <2>7. InThree(s, load, lookup, give)
        <3>1. InThree(load \o lookup \o give, load, lookup, give)
            BY <2>3, <2>4, Threes
        <3> QED
            BY <2>6, <3>1
    <2>8. IsSeq(s) /\ Len(s) = 8 /\ s[1] = load[1] /\ s[8] = give[1]
        BY <2>3, <2>4, <2>7 DEF InThree
    <2>9. \A i \in 1 .. 6 : s[1 + i] = lookup[i]
        BY <2>3, <2>4, <2>7 DEF InThree
    <2>10. /\ s[2] = lookup[1] /\ s[3] = lookup[2] /\ s[4] = lookup[3] /\ s[5] = lookup[4]
           /\ s[6] = lookup[5] /\ s[7] = lookup[6]
        BY <2>9
    <2> QED
        BY <2>3, <2>4, <2>8, <2>10 DEF IsSeq
<1> HIDE DEF s
<1>2. WellMade(s, "vtl")
    <2>1. /\ Loaded(s, 3, "kext_resolve_address")
        BY <1>1, FeatureTable DEF Loaded, Looked
    <2>2. \A j \in 1 .. 8 : Prepared(s, j)
        BY <1>1, <2>1 DEF Prepared, MayBeNull
    <2>3. \A j \in 1 .. 8 : AsAsked(s, "vtl", 0, j)
        BY <1>1 DEF AsAsked, MemoryFunctions, Unsafe, Physical
    <2> QED
        BY <1>1, <2>2, <2>3 DEF WellMade, Guards
<1>3. /\ good[1] = {z} /\ good[2] = {z} /\ good[3] = {k} /\ good[4] = {k}
      /\ good[5] = {k} /\ good[6] = {both} /\ good[7] = {c} /\ good[8] = {c}
      /\ good[9] = {z}
      /\ bad[1] = {} /\ bad[2] = {} /\ bad[3] = {} /\ bad[4] = {}
      /\ bad[5] = {} /\ bad[6] = {k} /\ bad[7] = {z} /\ bad[8] = {}
      /\ bad[9] = {z}
    OBVIOUS
<1>4. /\ z \cup {s[2].what} = k
      /\ k \cup {s[5].what} = both
      /\ both \ {s[6].what} = c
      /\ k \ {s[6].what} = z
      /\ c \ {s[8].what} = z
    BY <1>1
<1>5. /\ FailsTo(s, 1) = 9
      /\ FailsTo(s, 2) = 9
      /\ FailsTo(s, 3) = 6
      /\ FailsTo(s, 4) = 6
      /\ FailsTo(s, 5) = 6
    BY <1>1 DEF FailsTo
<1> HIDE DEF good, bad, z, k, c, both
<1>6. /\ Accounted(s, 1, z, good, bad)
      /\ Accounted(s, 2, z, good, bad)
      /\ Accounted(s, 3, k, good, bad)
      /\ Accounted(s, 4, k, good, bad)
      /\ Accounted(s, 5, k, good, bad)
      /\ Accounted(s, 6, both, good, bad)
      /\ Accounted(s, 6, k, bad, bad)
      /\ Accounted(s, 7, c, good, bad)
      /\ Accounted(s, 7, z, bad, bad)
      /\ Accounted(s, 8, c, good, bad)
    <2>1. Accounted(s, 1, z, good, bad)
        <3>1. s[1].do = "load" /\ z \in good[1 + 1]
              /\ z \in bad[FailsTo(s, 1)]
            BY <1>1, <1>3, <1>5
        <3> QED
            BY <3>1 DEF Accounted
    <2>2. Accounted(s, 2, z, good, bad)
        <3>1. s[2].do = "acquire" /\ k \in good[2 + 1]
              /\ z \in bad[FailsTo(s, 2)]
            BY <1>1, <1>3, <1>5
        <3>2. z \cup {s[2].what} = k
            BY <1>4
        <3> QED
            BY <3>1, <3>2 DEF Accounted
    <2>3. Accounted(s, 3, k, good, bad)
        <3>1. s[3].do = "call" /\ k \in good[3 + 1]
              /\ k \in bad[FailsTo(s, 3)]
            BY <1>1, <1>3, <1>5
        <3> QED
            BY <3>1 DEF Accounted
    <2>4. Accounted(s, 4, k, good, bad)
        <3>1. s[4].do = "may_refuse" /\ k \in good[4 + 1]
              /\ k \in bad[FailsTo(s, 4)]
            BY <1>1, <1>3, <1>5
        <3> QED
            BY <3>1 DEF Accounted
    <2>5. Accounted(s, 5, k, good, bad)
        <3>1. s[5].do = "acquire" /\ both \in good[5 + 1]
              /\ k \in bad[FailsTo(s, 5)]
            BY <1>1, <1>3, <1>5
        <3>2. k \cup {s[5].what} = both
            BY <1>4
        <3> QED
            BY <3>1, <3>2 DEF Accounted
    <2>6. Accounted(s, 6, both, good, bad)
        <3>1. s[6].do = "release" /\ c \in good[6 + 1]
            BY <1>1, <1>3
        <3>2. both \ {s[6].what} = c
            BY <1>4
        <3> QED
            BY <3>1, <3>2 DEF Accounted
    <2>7. Accounted(s, 6, k, bad, bad)
        <3>1. s[6].do = "release" /\ z \in bad[6 + 1]
            BY <1>1, <1>3
        <3>2. k \ {s[6].what} = z
            BY <1>4
        <3> QED
            BY <3>1, <3>2 DEF Accounted
    <2>8. Accounted(s, 7, c, good, bad)
        BY <1>1 DEF Accounted
    <2>9. Accounted(s, 7, z, bad, bad)
        BY <1>1 DEF Accounted
    <2>10. Accounted(s, 8, c, good, bad)
        <3>1. s[8].do = "release" /\ z \in good[8 + 1]
            BY <1>1, <1>3
        <3>2. c \ {s[8].what} = z
            BY <1>4
        <3> QED
            BY <3>1, <3>2 DEF Accounted
    <2> QED
        BY <2>1, <2>2, <2>3, <2>4, <2>5, <2>6, <2>7, <2>8, <2>9, <2>10
<1>7. \A i \in 1 .. 8 : s[i].do = "return_if_failed" => i = 7
    BY <1>1
<1>8. Account(s, good, bad)
    <2>1. \A i \in 1 .. 8 : /\ \A H \in good[i] : Accounted(s, i, H, good, bad)
                            /\ \A H \in bad[i] : Accounted(s, i, H, bad, bad)
        BY <1>3, <1>6
    <2>2. {} \in good[1] /\ good[9] \cup bad[9] \subseteq {{}}
        BY <1>3 DEF z
    <2>3. /\ \A H \in good[7] : H \in good[7 + 1]
          /\ \A H \in bad[7] : H \in bad[8 + 1]
        BY <1>3
    <2> QED
        BY <1>1, <1>7, <2>1, <2>2, <2>3 DEF Account
<1> QED
    BY <1>2, <1>8 DEF s

(* lc, twelve steps. *)
LEMMA LookupClassProgram ==
    LET s == ClassProgram("lc")
    IN  WellMade(s, "lc") /\ \E good, bad : Account(s, good, bad)
<1> DEFINE s == ClassProgram("lc")
           read == <<Load(KERNEL_MEMORY)>> \o CallIfThere("kernel_read_safe")
           load == <<Load(KERNEL_SYMBOLS)>>
           may == <<Else(MayRefuse, 12)>>
           give == <<Give("class_name")>>
           z == {}
           k == {"kext"}
           c == {"class_name"}
           both == {"kext", "class_name"}
           good == <<{z}, {z}, {z}, {z}, {z}, {k}, {k}, {k}, {both}, {c}, {c}, {c}, {z}>>
           bad == <<{}, {}, {}, {}, {}, {}, {}, {}, {k}, {z}, {}, {c}, {z}>>
<1>1. /\ IsSeq(s) /\ Len(s) = 12 /\ DOMAIN s = 1 .. 12
      /\ s[1] = [do |-> "load", what |-> KERNEL_MEMORY, fail |-> 0]
      /\ s[2] = [do |-> "there", what |-> "kernel_read_safe", fail |-> 0]
      /\ s[3] = [do |-> "call", what |-> "kernel_read_safe", fail |-> 0]
      /\ s[4] = [do |-> "load", what |-> KERNEL_SYMBOLS, fail |-> 0]
      /\ s[5] = [do |-> "acquire", what |-> "kext", fail |-> 0]
      /\ s[6] = [do |-> "call", what |-> "kext_resolve_address", fail |-> 9]
      /\ s[7] = [do |-> "may_refuse", what |-> "usage", fail |-> 9]
      /\ s[8] = [do |-> "acquire", what |-> "class_name", fail |-> 9]
      /\ s[9] = [do |-> "release", what |-> "kext", fail |-> 0]
      /\ s[10] = [do |-> "return_if_failed", what |-> "success", fail |-> 0]
      /\ s[11] = [do |-> "may_refuse", what |-> "usage", fail |-> 12]
      /\ s[12] = [do |-> "release", what |-> "class_name", fail |-> 0]
    <2> DEFINE lookup == ClassVtableLookup(4)
               rest == load \o lookup \o may
    <2>1. s = ReadKernel(FALSE, FALSE) \o LookupVtable(3, FALSE)
        BY DEF ClassProgram
    <2>2. ReadKernel(FALSE, FALSE) = read
        BY DEF ReadKernel
    <2>3. LookupVtable(3, FALSE) = rest \o give
        BY DEF LookupVtable, When
    <2>4. /\ IsSeq(lookup) /\ Len(lookup) = 6 /\ DOMAIN lookup = 1 .. 6
          /\ lookup[1] = [do |-> "acquire", what |-> "kext", fail |-> 0]
          /\ lookup[2] = [do |-> "call", what |-> "kext_resolve_address", fail |-> 9]
          /\ lookup[3] = [do |-> "may_refuse", what |-> "usage", fail |-> 9]
          /\ lookup[4] = [do |-> "acquire", what |-> "class_name", fail |-> 9]
          /\ lookup[5] = [do |-> "release", what |-> "kext", fail |-> 0]
          /\ lookup[6] = [do |-> "return_if_failed", what |-> "success", fail |-> 0]
        BY LookupSteps
    <2>5. /\ IsSeq(read) /\ Len(read) = 3 /\ DOMAIN read = 1 .. 3
          /\ read[1] = [do |-> "load", what |-> KERNEL_MEMORY, fail |-> 0]
          /\ read[2] = [do |-> "there", what |-> "kernel_read_safe", fail |-> 0]
          /\ read[3] = [do |-> "call", what |-> "kernel_read_safe", fail |-> 0]
        BY DEF IsSeq, Load, Call, CallIfThere, Do
    <2>6. /\ IsSeq(load) /\ Len(load) = 1 /\ DOMAIN load = 1 .. 1
          /\ IsSeq(may) /\ Len(may) = 1 /\ DOMAIN may = 1 .. 1
          /\ IsSeq(give) /\ Len(give) = 1 /\ DOMAIN give = 1 .. 1
          /\ load[1] = [do |-> "load", what |-> KERNEL_SYMBOLS, fail |-> 0]
          /\ may[1] = [do |-> "may_refuse", what |-> "usage", fail |-> 12]
          /\ give[1] = [do |-> "release", what |-> "class_name", fail |-> 0]
        BY DEF IsSeq, Load, Give, MayRefuse, Else, Do
    <2> HIDE DEF lookup, read, load, may, give, s, rest
    <2>7. InThree(rest, load, lookup, may)
        <3>1. InThree(load \o lookup \o may, load, lookup, may)
            BY <2>4, <2>6, Threes
        <3> QED
            BY <3>1 DEF rest
    <2>8. /\ IsSeq(rest) /\ Len(rest) = 8 /\ DOMAIN rest = 1 .. 8
          /\ rest[1] = load[1] /\ rest[8] = may[1]
        BY <2>4, <2>6, <2>7 DEF InThree, IsSeq
    <2>9. \A i \in 1 .. 6 : rest[1 + i] = lookup[i]
        BY <2>4, <2>6, <2>7 DEF InThree
    <2>10. /\ rest[2] = lookup[1] /\ rest[3] = lookup[2] /\ rest[4] = lookup[3]
           /\ rest[5] = lookup[4] /\ rest[6] = lookup[5] /\ rest[7] = lookup[6]
        BY <2>9
    <2>11. s = read \o (rest \o give)
        BY <2>1, <2>2, <2>3
    <2>12. s = read \o rest \o give
        BY <2>11
    <2>13. InThree(s, read, rest, give)
        <3>1. InThree(read \o rest \o give, read, rest, give)
            BY <2>5, <2>6, <2>8, Threes
        <3> QED
            BY <2>12, <3>1
    <2>14. IsSeq(s) /\ Len(s) = 12 /\ s[12] = give[1] /\ \A i \in 1 .. 3 : s[i] = read[i]
        BY <2>5, <2>6, <2>8, <2>13 DEF InThree
    <2>15. \A i \in 1 .. 8 : s[3 + i] = rest[i]
        BY <2>5, <2>8, <2>13 DEF InThree
    <2>16. /\ s[1] = read[1] /\ s[2] = read[2] /\ s[3] = read[3]
           /\ s[4] = rest[1] /\ s[5] = rest[2] /\ s[6] = rest[3] /\ s[7] = rest[4]
           /\ s[8] = rest[5] /\ s[9] = rest[6] /\ s[10] = rest[7] /\ s[11] = rest[8]
        BY <2>14, <2>15
    <2> QED
        BY <2>4, <2>5, <2>6, <2>8, <2>10, <2>14, <2>16 DEF IsSeq
<1> HIDE DEF s
<1>2. WellMade(s, "lc")
    <2>1. /\ Loaded(s, 3, "kernel_read_safe") /\ Looked(s, 3, "kernel_read_safe")
          /\ Loaded(s, 6, "kext_resolve_address")
        BY <1>1, FeatureTable DEF Loaded, Looked
    <2>2. \A j \in 1 .. 12 : Prepared(s, j)
        BY <1>1, <2>1 DEF Prepared, MayBeNull
    <2>3. \A j \in 1 .. 12 : AsAsked(s, "lc", 0, j)
        BY <1>1 DEF AsAsked, MemoryFunctions, Unsafe, Physical, Allowed, Writes
    <2> QED
        BY <1>1, <2>2, <2>3 DEF WellMade, Guards
<1>3. /\ good[1] = {z} /\ good[2] = {z} /\ good[3] = {z} /\ good[4] = {z}
      /\ good[5] = {z} /\ good[6] = {k} /\ good[7] = {k} /\ good[8] = {k}
      /\ good[9] = {both} /\ good[10] = {c} /\ good[11] = {c} /\ good[12] = {c}
      /\ good[13] = {z}
      /\ bad[1] = {} /\ bad[2] = {} /\ bad[3] = {} /\ bad[4] = {}
      /\ bad[5] = {} /\ bad[6] = {} /\ bad[7] = {} /\ bad[8] = {}
      /\ bad[9] = {k} /\ bad[10] = {z} /\ bad[11] = {} /\ bad[12] = {c}
      /\ bad[13] = {z}
    OBVIOUS
<1>4. /\ z \cup {s[5].what} = k
      /\ k \cup {s[8].what} = both
      /\ both \ {s[9].what} = c
      /\ k \ {s[9].what} = z
      /\ c \ {s[12].what} = z
    BY <1>1
<1>5. /\ FailsTo(s, 1) = 13
      /\ FailsTo(s, 2) = 13
      /\ FailsTo(s, 3) = 13
      /\ FailsTo(s, 4) = 13
      /\ FailsTo(s, 5) = 13
      /\ FailsTo(s, 6) = 9
      /\ FailsTo(s, 7) = 9
      /\ FailsTo(s, 8) = 9
      /\ FailsTo(s, 11) = 12
    BY <1>1 DEF FailsTo
<1> HIDE DEF good, bad, z, k, c, both
<1>6. /\ Accounted(s, 1, z, good, bad)
      /\ Accounted(s, 2, z, good, bad)
      /\ Accounted(s, 3, z, good, bad)
      /\ Accounted(s, 4, z, good, bad)
      /\ Accounted(s, 5, z, good, bad)
      /\ Accounted(s, 6, k, good, bad)
      /\ Accounted(s, 7, k, good, bad)
      /\ Accounted(s, 8, k, good, bad)
      /\ Accounted(s, 9, both, good, bad)
      /\ Accounted(s, 9, k, bad, bad)
      /\ Accounted(s, 10, c, good, bad)
      /\ Accounted(s, 10, z, bad, bad)
      /\ Accounted(s, 11, c, good, bad)
      /\ Accounted(s, 12, c, good, bad)
      /\ Accounted(s, 12, c, bad, bad)
    <2>1. Accounted(s, 1, z, good, bad)
        <3>1. s[1].do = "load" /\ z \in good[1 + 1]
              /\ z \in bad[FailsTo(s, 1)]
            BY <1>1, <1>3, <1>5
        <3> QED
            BY <3>1 DEF Accounted
    <2>2. Accounted(s, 2, z, good, bad)
        <3>1. s[2].do = "there" /\ z \in good[2 + 1]
              /\ z \in bad[FailsTo(s, 2)]
            BY <1>1, <1>3, <1>5
        <3> QED
            BY <3>1 DEF Accounted
    <2>3. Accounted(s, 3, z, good, bad)
        <3>1. s[3].do = "call" /\ z \in good[3 + 1]
              /\ z \in bad[FailsTo(s, 3)]
            BY <1>1, <1>3, <1>5
        <3> QED
            BY <3>1 DEF Accounted
    <2>4. Accounted(s, 4, z, good, bad)
        <3>1. s[4].do = "load" /\ z \in good[4 + 1]
              /\ z \in bad[FailsTo(s, 4)]
            BY <1>1, <1>3, <1>5
        <3> QED
            BY <3>1 DEF Accounted
    <2>5. Accounted(s, 5, z, good, bad)
        <3>1. s[5].do = "acquire" /\ k \in good[5 + 1]
              /\ z \in bad[FailsTo(s, 5)]
            BY <1>1, <1>3, <1>5
        <3>2. z \cup {s[5].what} = k
            BY <1>4
        <3> QED
            BY <3>1, <3>2 DEF Accounted
    <2>6. Accounted(s, 6, k, good, bad)
        <3>1. s[6].do = "call" /\ k \in good[6 + 1]
              /\ k \in bad[FailsTo(s, 6)]
            BY <1>1, <1>3, <1>5
        <3> QED
            BY <3>1 DEF Accounted
    <2>7. Accounted(s, 7, k, good, bad)
        <3>1. s[7].do = "may_refuse" /\ k \in good[7 + 1]
              /\ k \in bad[FailsTo(s, 7)]
            BY <1>1, <1>3, <1>5
        <3> QED
            BY <3>1 DEF Accounted
    <2>8. Accounted(s, 8, k, good, bad)
        <3>1. s[8].do = "acquire" /\ both \in good[8 + 1]
              /\ k \in bad[FailsTo(s, 8)]
            BY <1>1, <1>3, <1>5
        <3>2. k \cup {s[8].what} = both
            BY <1>4
        <3> QED
            BY <3>1, <3>2 DEF Accounted
    <2>9. Accounted(s, 9, both, good, bad)
        <3>1. s[9].do = "release" /\ c \in good[9 + 1]
            BY <1>1, <1>3
        <3>2. both \ {s[9].what} = c
            BY <1>4
        <3> QED
            BY <3>1, <3>2 DEF Accounted
    <2>10. Accounted(s, 9, k, bad, bad)
        <3>1. s[9].do = "release" /\ z \in bad[9 + 1]
            BY <1>1, <1>3
        <3>2. k \ {s[9].what} = z
            BY <1>4
        <3> QED
            BY <3>1, <3>2 DEF Accounted
    <2>11. Accounted(s, 10, c, good, bad)
        BY <1>1 DEF Accounted
    <2>12. Accounted(s, 10, z, bad, bad)
        BY <1>1 DEF Accounted
    <2>13. Accounted(s, 11, c, good, bad)
        <3>1. s[11].do = "may_refuse" /\ c \in good[11 + 1]
              /\ c \in bad[FailsTo(s, 11)]
            BY <1>1, <1>3, <1>5
        <3> QED
            BY <3>1 DEF Accounted
    <2>14. Accounted(s, 12, c, good, bad)
        <3>1. s[12].do = "release" /\ z \in good[12 + 1]
            BY <1>1, <1>3
        <3>2. c \ {s[12].what} = z
            BY <1>4
        <3> QED
            BY <3>1, <3>2 DEF Accounted
    <2>15. Accounted(s, 12, c, bad, bad)
        <3>1. s[12].do = "release" /\ z \in bad[12 + 1]
            BY <1>1, <1>3
        <3>2. c \ {s[12].what} = z
            BY <1>4
        <3> QED
            BY <3>1, <3>2 DEF Accounted
    <2> QED
        BY <2>1, <2>2, <2>3, <2>4, <2>5, <2>6, <2>7, <2>8, <2>9, <2>10, <2>11, <2>12,
           <2>13, <2>14, <2>15
<1>7. \A i \in 1 .. 12 : s[i].do = "return_if_failed" => i = 10
    BY <1>1
<1>8. Account(s, good, bad)
    <2>1. \A i \in 1 .. 12 : /\ \A H \in good[i] : Accounted(s, i, H, good, bad)
                            /\ \A H \in bad[i] : Accounted(s, i, H, bad, bad)
        BY <1>3, <1>6
    <2>2. {} \in good[1] /\ good[13] \cup bad[13] \subseteq {{}}
        BY <1>3 DEF z
    <2>3. /\ \A H \in good[10] : H \in good[10 + 1]
          /\ \A H \in bad[10] : H \in bad[12 + 1]
        BY <1>3
    <2> QED
        BY <1>1, <1>7, <2>1, <2>2, <2>3 DEF Account
<1> QED
    BY <1>2, <1>8 DEF s

(* kcd, without -o and with it. *)
LEMMA DecompressProgram ==
    ASSUME ~Given("output")
    PROVE  LET s == Decompress
           IN  WellMade(s, "kcd") /\ \E good, bad : Account(s, good, bad)
<1> DEFINE s == Decompress
           z == {}
           n == {"kernelcache"}
           good == <<{z}, {n}, {n}, {z}>>
           bad == <<{}, {}, {n}, {z}>>
<1>1. /\ IsSeq(s) /\ Len(s) = 3 /\ DOMAIN s = 1 .. 3
      /\ s[1] = [do |-> "acquire", what |-> "kernelcache", fail |-> 4]
      /\ s[2] = [do |-> "loop", what |-> "write", fail |-> 3]
      /\ s[3] = [do |-> "release", what |-> "kernelcache", fail |-> 0]
    BY DEF Decompress, When, IsSeq, Take_, Give, Else, Do
<1> HIDE DEF s
<1>2. WellMade(s, "kcd")
    <2>2. \A j \in 1 .. 3 : Prepared(s, j)
        BY <1>1, FeatureTable DEF Prepared, MayBeNull
    <2>3. \A j \in 1 .. 3 : AsAsked(s, "kcd", 0, j)
        BY <1>1 DEF AsAsked, MemoryFunctions, Unsafe, Physical
    <2> QED
        BY <1>1, <2>2, <2>3 DEF WellMade, Guards
<1>3. /\ good[1] = {z} /\ good[2] = {n} /\ good[3] = {n} /\ good[4] = {z}
      /\ bad[1] = {} /\ bad[2] = {} /\ bad[3] = {n} /\ bad[4] = {z}
    OBVIOUS
<1>4. /\ z \cup {s[1].what} = n
      /\ n \ {s[3].what} = z
    BY <1>1
<1>5. /\ FailsTo(s, 1) = 4
      /\ FailsTo(s, 2) = 3
    BY <1>1 DEF FailsTo
<1> HIDE DEF good, bad, z, n
<1>6. /\ Accounted(s, 1, z, good, bad)
      /\ Accounted(s, 2, n, good, bad)
      /\ Accounted(s, 3, n, good, bad)
      /\ Accounted(s, 3, n, bad, bad)
    <2>1. Accounted(s, 1, z, good, bad)
        <3>1. s[1].do = "acquire" /\ n \in good[1 + 1]
              /\ z \in bad[FailsTo(s, 1)]
            BY <1>1, <1>3, <1>5
        <3>2. z \cup {s[1].what} = n
            BY <1>4
        <3> QED
            BY <3>1, <3>2 DEF Accounted
    <2>2. Accounted(s, 2, n, good, bad)
        <3>1. s[2].do = "loop" /\ n \in good[2 + 1]
              /\ n \in bad[FailsTo(s, 2)]
            BY <1>1, <1>3, <1>5
        <3> QED
            BY <3>1 DEF Accounted
    <2>3. Accounted(s, 3, n, good, bad)
        <3>1. s[3].do = "release" /\ z \in good[3 + 1]
            BY <1>1, <1>3
        <3>2. n \ {s[3].what} = z
            BY <1>4
        <3> QED
            BY <3>1, <3>2 DEF Accounted
    <2>4. Accounted(s, 3, n, bad, bad)
        <3>1. s[3].do = "release" /\ z \in bad[3 + 1]
            BY <1>1, <1>3
        <3>2. n \ {s[3].what} = z
            BY <1>4
        <3> QED
            BY <3>1, <3>2 DEF Accounted
    <2> QED
        BY <2>1, <2>2, <2>3, <2>4
<1>7. \A i \in 1 .. 3 : s[i].do # "return_if_failed"
    BY <1>1
<1>8. Account(s, good, bad)
    <2>1. \A i \in 1 .. 3 : /\ \A H \in good[i] : Accounted(s, i, H, good, bad)
                            /\ \A H \in bad[i] : Accounted(s, i, H, bad, bad)
        BY <1>3, <1>6
    <2>2. {} \in good[1] /\ good[4] \cup bad[4] \subseteq {{}}
        BY <1>3 DEF z
    <2> QED
        BY <1>1, <1>7, <2>1, <2>2 DEF Account
<1> QED
    BY <1>2, <1>8 DEF s

LEMMA DecompressToFileProgram ==
    ASSUME Given("output")
    PROVE  LET s == Decompress
           IN  WellMade(s, "kcd") /\ \E good, bad : Account(s, good, bad)
<1> DEFINE s == Decompress
           z == {}
           o == {"output"}
           on == {"output", "kernelcache"}
           good == <<{z}, {o}, {on}, {on}, {o}, {z}>>
           bad == <<{}, {}, {}, {on}, {o}, {z}>>
<1>1. /\ IsSeq(s) /\ Len(s) = 5 /\ DOMAIN s = 1 .. 5
      /\ s[1] = [do |-> "acquire", what |-> "output", fail |-> 0]
      /\ s[2] = [do |-> "acquire", what |-> "kernelcache", fail |-> 5]
      /\ s[3] = [do |-> "loop", what |-> "write", fail |-> 4]
      /\ s[4] = [do |-> "release", what |-> "kernelcache", fail |-> 0]
      /\ s[5] = [do |-> "release", what |-> "output", fail |-> 0]
    BY DEF Decompress, When, IsSeq, Take_, Give, Else, Do
<1> HIDE DEF s
<1>2. WellMade(s, "kcd")
    <2>2. \A j \in 1 .. 5 : Prepared(s, j)
        BY <1>1, FeatureTable DEF Prepared, MayBeNull
    <2>3. \A j \in 1 .. 5 : AsAsked(s, "kcd", 0, j)
        BY <1>1 DEF AsAsked, MemoryFunctions, Unsafe, Physical
    <2> QED
        BY <1>1, <2>2, <2>3 DEF WellMade, Guards
<1>3. /\ good[1] = {z} /\ good[2] = {o} /\ good[3] = {on} /\ good[4] = {on}
      /\ good[5] = {o} /\ good[6] = {z}
      /\ bad[1] = {} /\ bad[2] = {} /\ bad[3] = {} /\ bad[4] = {on}
      /\ bad[5] = {o} /\ bad[6] = {z}
    OBVIOUS
<1>4. /\ z \cup {s[1].what} = o
      /\ o \cup {s[2].what} = on
      /\ on \ {s[4].what} = o
      /\ o \ {s[5].what} = z
    BY <1>1
<1>5. /\ FailsTo(s, 1) = 6
      /\ FailsTo(s, 2) = 5
      /\ FailsTo(s, 3) = 4
    BY <1>1 DEF FailsTo
<1> HIDE DEF good, bad, z, o, on
<1>6. /\ Accounted(s, 1, z, good, bad)
      /\ Accounted(s, 2, o, good, bad)
      /\ Accounted(s, 3, on, good, bad)
      /\ Accounted(s, 4, on, good, bad)
      /\ Accounted(s, 4, on, bad, bad)
      /\ Accounted(s, 5, o, good, bad)
      /\ Accounted(s, 5, o, bad, bad)
    <2>1. Accounted(s, 1, z, good, bad)
        <3>1. s[1].do = "acquire" /\ o \in good[1 + 1]
              /\ z \in bad[FailsTo(s, 1)]
            BY <1>1, <1>3, <1>5
        <3>2. z \cup {s[1].what} = o
            BY <1>4
        <3> QED
            BY <3>1, <3>2 DEF Accounted
    <2>2. Accounted(s, 2, o, good, bad)
        <3>1. s[2].do = "acquire" /\ on \in good[2 + 1]
              /\ o \in bad[FailsTo(s, 2)]
            BY <1>1, <1>3, <1>5
        <3>2. o \cup {s[2].what} = on
            BY <1>4
        <3> QED
            BY <3>1, <3>2 DEF Accounted
    <2>3. Accounted(s, 3, on, good, bad)
        <3>1. s[3].do = "loop" /\ on \in good[3 + 1]
              /\ on \in bad[FailsTo(s, 3)]
            BY <1>1, <1>3, <1>5
        <3> QED
            BY <3>1 DEF Accounted
    <2>4. Accounted(s, 4, on, good, bad)
        <3>1. s[4].do = "release" /\ o \in good[4 + 1]
            BY <1>1, <1>3
        <3>2. on \ {s[4].what} = o
            BY <1>4
        <3> QED
            BY <3>1, <3>2 DEF Accounted
    <2>5. Accounted(s, 4, on, bad, bad)
        <3>1. s[4].do = "release" /\ o \in bad[4 + 1]
            BY <1>1, <1>3
        <3>2. on \ {s[4].what} = o
            BY <1>4
        <3> QED
            BY <3>1, <3>2 DEF Accounted
    <2>6. Accounted(s, 5, o, good, bad)
        <3>1. s[5].do = "release" /\ z \in good[5 + 1]
            BY <1>1, <1>3
        <3>2. o \ {s[5].what} = z
            BY <1>4
        <3> QED
            BY <3>1, <3>2 DEF Accounted
    <2>7. Accounted(s, 5, o, bad, bad)
        <3>1. s[5].do = "release" /\ z \in bad[5 + 1]
            BY <1>1, <1>3
        <3>2. o \ {s[5].what} = z
            BY <1>4
        <3> QED
            BY <3>1, <3>2 DEF Accounted
    <2> QED
        BY <2>1, <2>2, <2>3, <2>4, <2>5, <2>6, <2>7
<1>7. \A i \in 1 .. 5 : s[i].do # "return_if_failed"
    BY <1>1
<1>8. Account(s, good, bad)
    <2>1. \A i \in 1 .. 5 : /\ \A H \in good[i] : Accounted(s, i, H, good, bad)
                            /\ \A H \in bad[i] : Accounted(s, i, H, bad, bad)
        BY <1>3, <1>6
    <2>2. {} \in good[1] /\ good[6] \cup bad[6] \subseteq {{}}
        BY <1>3 DEF z
    <2> QED
        BY <1>1, <1>7, <2>1, <2>2 DEF Account
<1> QED
    BY <1>2, <1>8 DEF s

(* Every handler's program is well made, and has an account. *)
LEMMA Programs ==
    ASSUME NEW h \in Handlers
    PROVE  WellMade(Program(h), h) /\ \E good, bad : Account(Program(h), good, bad)
<1>1. CASE h \in StraightHandlers
    BY <1>1, StraightPrograms, StraightIsWellMade
<1>2. CASE h = "vtl"
    <2>1. Program("vtl") = ClassProgram("vtl")
        BY MemoryHandlersAre DEF Program
    <2> QED
        BY <1>2, <2>1, VtableLookupProgram
<1>3. CASE h = "lc"
    <2>1. Program("lc") = ClassProgram("lc")
        BY MemoryHandlersAre DEF Program
    <2> QED
        BY <1>3, <2>1, LookupClassProgram
<1>4. CASE h = "s"
    <2>1. Program("s") = SymbolProgram("s")
        BY MemoryHandlersAre DEF Program
    <2> QED
        BY <1>4, <2>1, KextSearchProgram
<1>5. CASE h = "kcd"
    <2>1. Program("kcd") = Decompress
        BY MemoryHandlersAre DEF Program, SymbolProgram
    <2> QED
        BY <1>5, <2>1, DecompressProgram, DecompressToFileProgram
<1> QED
    BY <1>1, <1>2, <1>3, <1>4, <1>5 DEF Handlers

-----------------------------------------------------------------------------
(***************************************************************************)
(* The handler keeps to its program: the features before the next step are *)
(* loaded, the pointers looked at and the address checked, and what is     *)
(* held is in the account.                                                 *)
(***************************************************************************)
Done(s) ==
    /\ s.do = "load" => s.what \subseteq loaded
    /\ s.do = "there" => s.what \in present_fn
    /\ s.do = "check" => checked = TRUE
Passed(j) == \A i \in DOMAIN program : i < j => Done(program[i])

Holding(good, bad) ==
    /\ Account(program, good, bad)
    /\ success => held \in good[step]
    /\ ~success => held \in bad[step]

Running ==
    /\ WellMade(program, commands[cmd].handler)
    /\ step \in 1 .. Len(program) + 1
    /\ success \in BOOLEAN
    /\ step \in DOMAIN program => Passed(step)
    /\ \E good, bad : Holding(good, bad)

HandlerInv ==
    /\ pc \in {"find", "options", "arguments", "handler"} => touched = {}
    /\ pc # "run" => held = {}
    /\ pc = "run" => Running
    /\ OnlyAsAsked

CInv == ParserInv /\ HandlerInv

LEMMA CInvInit == InitCommands => CInv
BY DEF InitCommands, Init, CInv, ParserInv, Finding, HandlerInv, OnlyAsAsked, Parsing

(* What the steps do to pc. *)
LEMMA ParserSteps ==
    ASSUME ParserNext
    PROVE  \/ pc \in {"find", "options", "arguments"} /\ pc' \notin {"run", "left"}
           \/ pc = "cleanup" /\ pc' = "done" /\ UNCHANGED <<cmd, arguments>>
<1>1. CASE DefaultAction \/ Help \/ UnknownCommand
    BY <1>1 DEF DefaultAction, Help, UnknownCommand, Finish
<1>2. CASE FindCommand
    <2>1. pc = "find" /\ pc' = "options"
        BY <1>2, Zenon DEF FindCommand
    <2> QED
        BY <2>1
<1>3. CASE NoMoreOptions \/ DashButNoOption \/ UnrecognizedOption \/ DuplicateOption
    BY <1>3 DEF NoMoreOptions, DashButNoOption, UnrecognizedOption, DuplicateOption
<1>4. CASE ParseOption
    <2>1. /\ pc = "options"
          /\ \E i, r : OptionValue(i, r) \/ NotTheUnnamedOption(i, r) \/ BadOption(i, r)
        BY <1>4, Zenon DEF ParseOption
    <2>2. \A i, r : /\ OptionValue(i, r) => pc' = pc
                    /\ NotTheUnnamedOption(i, r) => pc' = pc
                    /\ BadOption(i, r) => pc' = "cleanup"
        BY Zenon DEF OptionValue, NotTheUnnamedOption, BadOption
    <2> QED
        BY <2>1, <2>2
<1>5. CASE ParseArgument
    <2>1. /\ pc = "arguments"
          /\ \E r : ArgumentValue(r) \/ NoOptionalArgument(r) \/ BadArgument(r) \/ Abort(r)
        BY <1>5, Zenon DEF ParseArgument
    <2>2. \A r : /\ ArgumentValue(r) => pc' = pc
                 /\ NoOptionalArgument(r) => pc' = pc
                 /\ BadArgument(r) => pc' = "cleanup"
                 /\ Abort(r) => pc' = "aborted"
        BY Zenon DEF ArgumentValue, NoOptionalArgument, BadArgument, Abort
    <2> QED
        BY <2>1, <2>2
<1>6. CASE UnexpectedArgument \/ AllParsed \/ CleanupArguments
    BY <1>6 DEF UnexpectedArgument, AllParsed, CleanupArguments
<1> QED
    BY <1>1, <1>2, <1>3, <1>4, <1>5, <1>6 DEF ParserNext

LEMMA ParserKeeps ==
    ASSUME CInv, Parse_
    PROVE  CInv'
<1>1. ParserInv'
    BY ParserPreserves DEF CInv, Parse_
<1>2. UNCHANGED <<held, touched>>
    BY DEF Parse_, handler
<1>3. CASE pc \in {"find", "options", "arguments"} /\ pc' \notin {"run", "left"}
    BY <1>1, <1>2, <1>3 DEF CInv, HandlerInv, OnlyAsAsked
<1>4. CASE pc = "cleanup" /\ pc' = "done" /\ UNCHANGED <<cmd, arguments>>
    <2>1. OnlyAsAsked'
        BY <1>2, <1>4 DEF CInv, HandlerInv, OnlyAsAsked, Typed
    <2> QED
        BY <1>1, <1>2, <1>4, <2>1 DEF CInv, HandlerInv
<1> QED
    BY <1>3, <1>4, ParserSteps DEF Parse_

LEMMA WellMadeStays ==
    ASSUME UNCHANGED arguments
    PROVE  \A s, h : WellMade(s, h) => WellMade(s, h)'
BY DEF WellMade, Prepared, AsAsked, Allowed, Typed

LEMMA EnterKeeps ==
    ASSUME CInv, EnterHandler
    PROVE  CInv'
<1>1. /\ pc = "handler" /\ pc' = "run" /\ success' = TRUE
      /\ program' = Program(commands[cmd].handler) /\ step' = 1
      /\ UNCHANGED <<cmd, arguments, heap, held, touched>>
    BY DEF EnterHandler
<1>2. ParserInv'
    BY <1>1, SameVector DEF CInv, ParserInv, Parsing
<1>3. PICK h : h = commands[cmd].handler
    OBVIOUS
<1>4. h \in Handlers
    BY <1>1, <1>3, Table DEF CInv, ParserInv, Parsing, Vector, RowOK
<1>5. PICK s : s = Program(h)
    OBVIOUS
<1>6. WellMade(s, h) /\ \E good, bad : Account(s, good, bad)
    BY <1>4, <1>5, Programs
<1>7. touched = {} /\ held = {}
    BY <1>1 DEF CInv, HandlerInv
<1>8. program' = s /\ commands[cmd'].handler = h
    BY <1>1, <1>3, <1>5
<1>9. Len(s) \in Nat /\ DOMAIN s = 1 .. Len(s)
    BY <1>6 DEF WellMade, IsSeq
<1>10. WellMade(s, h)'
    BY <1>1, <1>6, WellMadeStays
<1>11. WellMade(program, commands[cmd].handler)'
    BY <1>8, <1>10
<1>12. \E good, bad : Holding(good, bad)'
    <2>1. PICK good, bad : Account(s, good, bad)
        BY <1>6
    <2>2. {} \in good[1]
        BY <2>1 DEF Account
    <2>3. Holding(good, bad)'
        BY <1>1, <1>7, <1>8, <2>1, <2>2 DEF Holding
    <2> QED
        BY <2>3
<1>13. Passed(1)'
    BY <1>8, <1>9 DEF Passed
<1>14. step' \in 1 .. Len(program') + 1 /\ success' \in BOOLEAN
    BY <1>1, <1>8, <1>9
<1>15. Running'
    BY <1>1, <1>11, <1>12, <1>13, <1>14 DEF Running, Passed
<1> QED
    BY <1>1, <1>2, <1>7, <1>15 DEF CInv, HandlerInv, OnlyAsAsked

(* A step of the handler that stays in its program. *)
Grows ==
    /\ loaded \subseteq loaded'
    /\ present_fn \subseteq present_fn'
    /\ checked = TRUE => checked' = TRUE

LEMMA PassedGrows ==
    ASSUME Grows, UNCHANGED program, NEW j, Passed(j)
    PROVE  Passed(j)'
BY DEF Grows, Passed, Done

LEMMA FailGoesOn ==
    ASSUME Running, step \in DOMAIN program, Fail, Grows, UNCHANGED program
    PROVE  /\ step' = FailsTo(program, step) /\ success' = FALSE
           /\ step' \in 1 .. Len(program') + 1
           /\ step' \in DOMAIN program' => Passed(step)'
<1>1. step' = FailsTo(program, step) /\ success' = FALSE
    BY DEF Fail, FailsTo
<1>2. /\ Len(program) \in Nat /\ DOMAIN program = 1 .. Len(program)
      /\ program' = program /\ Passed(step)
    BY DEF Running, WellMade, IsSeq
<1>3. CASE program[step].fail = 0
    BY <1>1, <1>2, <1>3 DEF FailsTo
<1>4. CASE program[step].fail # 0
    <2>0. PICK f : f = program[step].fail
        OBVIOUS
    <2>1. /\ f \in step + 1 .. Len(program) + 1
          /\ \A i \in step .. f - 1 : program[i].do \notin Guards
        BY <1>4, <2>0 DEF Running, WellMade
    <2>2. step' = f
        BY <1>1, <1>4, <2>0 DEF FailsTo
    <2>3. Passed(f)
        <3> SUFFICES ASSUME NEW i \in DOMAIN program, i < f
                     PROVE  Done(program[i])
            BY DEF Passed
        <3>1. CASE i < step
            BY <1>2, <3>1 DEF Passed
        <3>2. CASE ~(i < step)
            <4>1. program[i].do \notin Guards
                BY <1>2, <2>1, <3>2
            <4> QED
                BY <4>1 DEF Guards, Done
        <3> QED
            BY <3>1, <3>2
    <2>4. Passed(f)'
        BY <2>3, PassedGrows
    <2> QED
        BY <1>1, <1>2, <2>1, <2>2, <2>4 DEF Passed
<1> QED
    BY <1>3, <1>4

LEMMA NextGoesOn ==
    ASSUME Running, step \in DOMAIN program, step' = step + 1, Grows, UNCHANGED program,
           NEW s, s = program[step], Done(s)'
    PROVE  /\ step' \in 1 .. Len(program') + 1
           /\ step' \in DOMAIN program' => Passed(step)'
<1>1. /\ Len(program) \in Nat /\ DOMAIN program = 1 .. Len(program)
      /\ program' = program /\ Passed(step)
    BY DEF Running, WellMade, IsSeq
<1>2. PICK j : j = step
    OBVIOUS
<1>3. Passed(j)'
    BY <1>1, <1>2, PassedGrows
<1>4. \A i \in DOMAIN program : i < j + 1 => i < j \/ i = j
    BY <1>1, <1>2
<1>5. Passed(j + 1)'
    <2> SUFFICES ASSUME NEW i \in DOMAIN program', i < j + 1
                 PROVE  Done(program[i])'
        BY DEF Passed
    <2>1. CASE i < j
        BY <1>3, <2>1 DEF Passed
    <2>2. CASE i = j
        BY <1>1, <1>2, <2>2
    <2> QED
        BY <1>1, <1>4, <2>1, <2>2
<1>6. step' = j + 1
    BY <1>2
<1>7. Passed(step)'
    BY <1>5, <1>6 DEF Passed
<1> QED
    BY <1>1, <1>7

-----------------------------------------------------------------------------
(* What a step of the handler leaves as it is. *)
LEMMA Elsewhere_ ==
    ASSUME CInv, pc = "run", Elsewhere
    PROVE  /\ ParserInv' /\ Running /\ pc' = "run" /\ program' = program
           /\ WellMade(program, commands[cmd].handler)'
           /\ touched' = touched => OnlyAsAsked'
<1>1. UNCHANGED <<pc, cmd, arguments, heap, program, first>>
    BY DEF Elsewhere
<1>2. ParserInv'
    BY <1>1, SameVector DEF CInv, ParserInv, Parsing
<1>3. Running
    BY DEF CInv, HandlerInv
<1>4. WellMade(program, commands[cmd].handler)'
    <2>1. PICK s, h : s = program /\ h = commands[cmd].handler
        OBVIOUS
    <2>2. WellMade(s, h)'
        BY <1>1, <1>3, <2>1, WellMadeStays DEF Running
    <2> QED
        BY <1>1, <2>1, <2>2
<1>5. touched' = touched => OnlyAsAsked'
    BY <1>1 DEF CInv, HandlerInv, OnlyAsAsked, Typed
<1> QED
    BY <1>1, <1>2, <1>3, <1>4, <1>5

LEMMA GoesOn ==
    ASSUME CInv, pc = "run", Elsewhere,
           step' \in 1 .. Len(program') + 1,
           step' \in DOMAIN program' => Passed(step)',
           success' \in BOOLEAN,
           \E good, bad : Holding(good, bad)',
           OnlyAsAsked'
    PROVE  CInv'
<1>1. ParserInv' /\ pc' = "run" /\ WellMade(program, commands[cmd].handler)'
    BY Elsewhere_
<1>2. Running'
    BY <1>1 DEF Running
<1> QED
    BY <1>1, <1>2 DEF CInv, HandlerInv

(* Most steps hold afterwards what they held before. *)
Plain == {"load", "there", "check", "call", "loop", "may_refuse"}

LEMMA PlainHolds ==
    ASSUME Running, step \in DOMAIN program, program[step].do \in Plain, Succeed \/ Fail,
           UNCHANGED <<program, held>>
    PROVE  success' \in BOOLEAN /\ \E good, bad : Holding(good, bad)'
<1>1. PICK good, bad : Holding(good, bad)
    BY DEF Running
<1>2. success \in BOOLEAN
    BY DEF Running
<1>3. CASE Succeed
    <2>1. step' = step + 1 /\ success' = success
        BY <1>3 DEF Succeed
    <2>2. /\ success => held \in good[step + 1]
          /\ ~success => held \in bad[step + 1]
        BY <1>1 DEF Holding, Account, Accounted, Plain
    <2>3. Holding(good, bad)'
        BY <1>1, <2>1, <2>2 DEF Holding
    <2> QED
        BY <1>2, <2>1, <2>3
<1>4. CASE Fail
    <2>1. step' = FailsTo(program, step) /\ success' = FALSE
        BY <1>4 DEF Fail, FailsTo
    <2>2. held \in bad[FailsTo(program, step)]
        BY <1>1, <1>2 DEF Holding, Account, Accounted, Plain
    <2>3. Holding(good, bad)'
        BY <1>1, <2>1, <2>2 DEF Holding
    <2> QED
        BY <2>1, <2>3
<1> QED
    BY <1>3, <1>4

(* A step that goes on, or fails, with what it makes sure of. *)
LEMMA PlainStep ==
    ASSUME CInv, pc = "run", step \in DOMAIN program, program[step].do \in Plain,
           Elsewhere, Grows, UNCHANGED held, OnlyAsAsked',
           NEW s, s = program[step],
           (Succeed /\ Done(s)') \/ Fail
    PROVE  CInv'
<1>1. Running /\ program' = program
    BY Elsewhere_
<1>2. success' \in BOOLEAN /\ \E good, bad : Holding(good, bad)'
    BY <1>1, PlainHolds
<1>3. /\ step' \in 1 .. Len(program') + 1
      /\ step' \in DOMAIN program' => Passed(step)'
    <2>1. CASE Fail
        BY <1>1, <2>1, FailGoesOn
    <2>2. CASE Succeed /\ Done(s)'
        <3>1. step' = step + 1
            BY <2>2 DEF Succeed
        <3> QED
            BY <1>1, <2>2, <3>1, NextGoesOn
    <2> QED
        BY <2>1, <2>2
<1> QED
    BY <1>2, <1>3, GoesOn

LEMMA LoadKeeps ==
    ASSUME CInv, LoadFeatures
    PROVE  CInv'
<1>1. /\ pc = "run" /\ step \in DOMAIN program /\ program[step].do = "load"
      /\ Elsewhere /\ UNCHANGED <<held, touched, present_fn, checked>>
    BY DEF LoadFeatures, Doing
<1>2. OnlyAsAsked'
    BY <1>1, Elsewhere_
<1>3. PICK s : s = program[step]
    OBVIOUS
<1>4. \/ loaded \subseteq loaded' /\ Succeed /\ What \subseteq loaded'
      \/ loaded \subseteq loaded' /\ Fail
    BY DEF LoadFeatures
<1>5. Grows
    BY <1>1, <1>4 DEF Grows
<1>6. (Succeed /\ Done(s)') \/ Fail
    BY <1>1, <1>3, <1>4 DEF Done, What
<1> QED
    BY <1>1, <1>2, <1>3, <1>5, <1>6, PlainStep DEF Plain

LEMMA LookKeeps ==
    ASSUME CInv, LookAtPointer
    PROVE  CInv'
<1>1. /\ pc = "run" /\ step \in DOMAIN program /\ program[step].do = "there"
      /\ Elsewhere /\ UNCHANGED <<held, touched, loaded, checked>>
    BY DEF LookAtPointer, Doing
<1>2. OnlyAsAsked'
    BY <1>1, Elsewhere_
<1>3. PICK s : s = program[step]
    OBVIOUS
<1>4. present_fn \subseteq present_fn' /\ ((Succeed /\ What \in present_fn') \/ Fail)
    BY DEF LookAtPointer
<1>5. Grows
    BY <1>1, <1>4 DEF Grows
<1>6. (Succeed /\ Done(s)') \/ Fail
    BY <1>1, <1>3, <1>4 DEF Done, What
<1> QED
    BY <1>1, <1>2, <1>3, <1>5, <1>6, PlainStep DEF Plain

LEMMA CheckKeeps ==
    ASSUME CInv, CheckAddress
    PROVE  CInv'
<1>1. /\ pc = "run" /\ step \in DOMAIN program /\ program[step].do = "check"
      /\ Elsewhere /\ UNCHANGED <<held, touched, loaded, present_fn>>
    BY DEF CheckAddress, Doing
<1>2. OnlyAsAsked'
    BY <1>1, Elsewhere_
<1>3. PICK s : s = program[step]
    OBVIOUS
<1>4. (Succeed /\ checked' = TRUE) \/ (Fail /\ checked' = checked)
    BY DEF CheckAddress
<1>5. Grows
    BY <1>1, <1>4 DEF Grows
<1>6. (Succeed /\ Done(s)') \/ Fail
    BY <1>1, <1>3, <1>4 DEF Done
<1> QED
    BY <1>1, <1>2, <1>3, <1>5, <1>6, PlainStep DEF Plain

(* The call was asked for: the program says so, and what it says has been  *)
(* checked has been.                                                       *)
LEMMA CallKeeps ==
    ASSUME CInv, CallFunction
    PROVE  CInv'
<1>1. /\ pc = "run" /\ step \in DOMAIN program /\ program[step].do = "call"
      /\ Elsewhere /\ UNCHANGED <<held, loaded, present_fn, checked>>
      /\ UNCHANGED <<cmd, arguments>>
    BY DEF CallFunction, Doing, Elsewhere
<1>2. PICK s : s = program[step]
    OBVIOUS
<1>3. Succeed \/ Fail
    BY DEF CallFunction
<1>4. Running
    BY <1>1, Elsewhere_
<1> DEFINE call == [fn |-> What, checked |-> checked]
           h == commands[cmd].handler
<1>5. What \in MemoryFunctions =>
          /\ call.fn \in Unsafe => Typed("f") \/ h = "ap"
          /\ call.fn \in Physical => Typed("p")
          /\ call.fn \in Writes /\ ~Typed("f") => call.checked
          /\ h \in {"r", "rb", "ri", "rs"} /\ ~Typed("f") => call.checked
    <2> SUFFICES ASSUME What \in MemoryFunctions
                 PROVE  /\ call.fn \in Unsafe => Typed("f") \/ h = "ap"
                        /\ call.fn \in Physical => Typed("p")
                        /\ call.fn \in Writes /\ ~Typed("f") => call.checked
                        /\ h \in {"r", "rb", "ri", "rs"} /\ ~Typed("f") => call.checked
        OBVIOUS
    <2>1. AsAsked(program, h, 0, step)
        BY <1>1, <1>4 DEF Running, WellMade
    <2>2. /\ What \in Unsafe => Typed("f") \/ h = "ap"
          /\ What \in Physical => Typed("p")
          /\ What \in Writes /\ ~Typed("f") => CheckedBy(program, step)
          /\ h \in {"r", "rb", "ri", "rs"} /\ ~Typed("f") => CheckedBy(program, step)
        BY <1>1, <2>1 DEF AsAsked, Allowed, What
    <2>3. CheckedBy(program, step) => checked = TRUE
        BY <1>1, <1>4 DEF CheckedBy, Running, Passed, Done
    <2>4. call.fn = What /\ call.checked = checked
        OBVIOUS
    <2> HIDE DEF call, h
    <2>5. CheckedBy(program, step) => call.checked
        BY <2>3, <2>4
    <2> QED
        BY <2>2, <2>4, <2>5
<1>6. OnlyAsAsked'
    <2>1. touched' = touched \/ (What \in MemoryFunctions /\ touched' = touched \cup {call})
        BY DEF CallFunction
    <2>2. /\ h' = h /\ (Typed("f") <=> Typed("f")') /\ (Typed("p") <=> Typed("p")')
        BY <1>1 DEF Typed
    <2> HIDE DEF call, h
    <2>3. \A t \in touched : /\ t.fn \in Unsafe => Typed("f") \/ h = "ap"
                             /\ t.fn \in Physical => Typed("p")
                             /\ t.fn \in Writes /\ ~Typed("f") => t.checked
                             /\ h \in {"r", "rb", "ri", "rs"} /\ ~Typed("f") => t.checked
        BY DEF CInv, HandlerInv, OnlyAsAsked, h
    <2>4. \A t \in touched' : /\ t.fn \in Unsafe => Typed("f") \/ h = "ap"
                              /\ t.fn \in Physical => Typed("p")
                              /\ t.fn \in Writes /\ ~Typed("f") => t.checked
                              /\ h \in {"r", "rb", "ri", "rs"} /\ ~Typed("f") => t.checked
        BY <1>5, <2>1, <2>3
    <2> QED
        BY <2>2, <2>4 DEF OnlyAsAsked, h
<1>7. Grows /\ Done(s)'
    BY <1>1, <1>2 DEF Grows, Done
<1> QED
    BY <1>1, <1>2, <1>3, <1>6, <1>7, PlainStep DEF Plain

LEMMA LoopKeeps ==
    ASSUME CInv, CallInLoop
    PROVE  CInv'
<1>1. /\ pc = "run" /\ step \in DOMAIN program /\ program[step].do = "loop"
      /\ Elsewhere /\ UNCHANGED <<held, loaded, present_fn, checked, touched>>
    BY DEF CallInLoop, Doing
<1>2. OnlyAsAsked'
    BY <1>1, Elsewhere_
<1>3. PICK s : s = program[step]
    OBVIOUS
<1>4. Grows /\ Done(s)'
    BY <1>1, <1>3 DEF Grows, Done
<1>5. CASE Succeed \/ Fail
    BY <1>1, <1>2, <1>3, <1>4, <1>5, PlainStep DEF Plain
<1>6. CASE UNCHANGED <<step, success>>
    <2>1. Running /\ program' = program
        BY <1>1, Elsewhere_
    <2>2. step' \in 1 .. Len(program') + 1 /\ success' \in BOOLEAN
        BY <1>6, <2>1 DEF Running
    <2>3. Passed(step)'
        BY <1>1, <1>6, <2>1 DEF Running, Passed, Done
    <2>4. \E good, bad : Holding(good, bad)'
        BY <1>1, <1>6, <2>1 DEF Running, Holding
    <2> QED
        BY <1>1, <1>2, <2>2, <2>3, <2>4, GoesOn
<1> QED
    BY <1>5, <1>6 DEF CallInLoop

LEMMA AcquireKeeps ==
    ASSUME CInv, Acquire
    PROVE  CInv'
<1>1. /\ pc = "run" /\ step \in DOMAIN program /\ program[step].do = "acquire"
      /\ Elsewhere /\ UNCHANGED <<loaded, present_fn, checked, touched>>
    BY DEF Acquire, Doing
<1>2. OnlyAsAsked' /\ Running /\ program' = program
    BY <1>1, Elsewhere_
<1>3. PICK s : s = program[step]
    OBVIOUS
<1>4. Grows /\ Done(s)'
    BY <1>1, <1>3 DEF Grows, Done
<1>5. PICK good, bad : Holding(good, bad)
    BY <1>2 DEF Running
<1>6. success \in BOOLEAN
    BY <1>2 DEF Running
<1>7. CASE Succeed /\ held' = held \cup {What}
    <2>1. step' = step + 1 /\ success' = success
        BY <1>7 DEF Succeed
    <2>2. /\ success => held' \in good[step + 1]
          /\ ~success => held' \in bad[step + 1]
        BY <1>1, <1>5, <1>7 DEF Holding, Account, Accounted, What
    <2>3. Holding(good, bad)'
        BY <1>2, <1>5, <2>1, <2>2 DEF Holding
    <2>4. /\ step' \in 1 .. Len(program') + 1
          /\ step' \in DOMAIN program' => Passed(step)'
        BY <1>1, <1>2, <1>3, <1>4, <2>1, NextGoesOn
    <2> QED
        BY <1>1, <1>2, <1>6, <2>1, <2>3, <2>4, GoesOn
<1>8. CASE Fail /\ UNCHANGED held
    <2>1. /\ step' = FailsTo(program, step) /\ success' = FALSE
          /\ step' \in 1 .. Len(program') + 1
          /\ step' \in DOMAIN program' => Passed(step)'
        BY <1>1, <1>2, <1>4, <1>8, FailGoesOn
    <2>2. held \in bad[FailsTo(program, step)]
        BY <1>1, <1>5, <1>6 DEF Holding, Account, Accounted
    <2>3. Holding(good, bad)'
        BY <1>2, <1>5, <1>8, <2>1, <2>2 DEF Holding
    <2> QED
        BY <1>1, <1>2, <2>1, <2>3, GoesOn
<1> QED
    BY <1>7, <1>8 DEF Acquire

LEMMA ReleaseKeeps ==
    ASSUME CInv, Release
    PROVE  CInv'
<1>1. /\ pc = "run" /\ step \in DOMAIN program /\ program[step].do = "release"
      /\ Elsewhere /\ UNCHANGED <<success, loaded, present_fn, checked, touched>>
      /\ step' = step + 1 /\ held' = held \ {What}
    BY DEF Release, Doing
<1>2. OnlyAsAsked' /\ Running /\ program' = program
    BY <1>1, Elsewhere_
<1>3. PICK s : s = program[step]
    OBVIOUS
<1>4. Grows /\ Done(s)'
    BY <1>1, <1>3 DEF Grows, Done
<1>5. PICK good, bad : Holding(good, bad)
    BY <1>2 DEF Running
<1>6. success' \in BOOLEAN
    BY <1>1, <1>2 DEF Running
<1>7. /\ success => held' \in good[step + 1]
      /\ ~success => held' \in bad[step + 1]
    BY <1>1, <1>5 DEF Holding, Account, Accounted, What
<1>8. Holding(good, bad)'
    BY <1>1, <1>2, <1>5, <1>7 DEF Holding
<1>9. /\ step' \in 1 .. Len(program') + 1
      /\ step' \in DOMAIN program' => Passed(step)'
    BY <1>1, <1>2, <1>3, <1>4, NextGoesOn
<1> QED
    BY <1>1, <1>2, <1>6, <1>8, <1>9, GoesOn

LEMMA InputKeeps ==
    ASSUME CInv, CheckInput
    PROVE  CInv'
<1>1. /\ pc = "run" /\ step \in DOMAIN program
      /\ program[step].do = "refuse" \/ program[step].do = "may_refuse"
      /\ Elsewhere /\ UNCHANGED <<held, loaded, present_fn, checked, touched>>
    BY DEF CheckInput, Doing
<1>2. OnlyAsAsked' /\ Running /\ program' = program
    BY <1>1, Elsewhere_
<1>3. PICK s : s = program[step]
    OBVIOUS
<1>4. Grows /\ Done(s)'
    BY <1>1, <1>3 DEF Grows, Done
<1>5. CASE program[step].do = "may_refuse"
    <2>1. Succeed \/ Fail
        BY DEF CheckInput
    <2> QED
        BY <1>1, <1>2, <1>3, <1>4, <1>5, <2>1, PlainStep DEF Plain
<1>6. CASE program[step].do = "refuse"
    <2>1. Fail
        BY <1>6 DEF CheckInput, Doing
    <2>2. PICK good, bad : Holding(good, bad)
        BY <1>2 DEF Running
    <2>3. /\ step' = FailsTo(program, step) /\ success' = FALSE
          /\ step' \in 1 .. Len(program') + 1
          /\ step' \in DOMAIN program' => Passed(step)'
        BY <1>1, <1>2, <1>4, <2>1, FailGoesOn
    <2>4. success \in BOOLEAN
        BY <1>2 DEF Running
    <2>5. held \in bad[FailsTo(program, step)]
        BY <1>1, <1>6, <2>2, <2>4 DEF Holding, Account, Accounted
    <2>6. Holding(good, bad)'
        BY <1>1, <1>2, <2>2, <2>3, <2>5 DEF Holding
    <2> QED
        BY <1>1, <1>2, <2>3, <2>6, GoesOn
<1> QED
    BY <1>1, <1>5, <1>6

LEMMA ReturnIfFailedKeeps ==
    ASSUME CInv, ReturnIfFailed
    PROVE  CInv'
<1>1. /\ pc = "run" /\ step \in DOMAIN program /\ program[step].do = "return_if_failed"
      /\ Elsewhere /\ UNCHANGED <<success, held, loaded, present_fn, checked, touched>>
      /\ step' = IF success THEN step + 1 ELSE Len(program) + 1
    BY DEF ReturnIfFailed, Doing
<1>2. OnlyAsAsked' /\ Running /\ program' = program
    BY <1>1, Elsewhere_
<1>3. PICK s : s = program[step]
    OBVIOUS
<1>4. Grows /\ Done(s)'
    BY <1>1, <1>3 DEF Grows, Done
<1>5. PICK good, bad : Holding(good, bad)
    BY <1>2 DEF Running
<1>6. success' \in BOOLEAN
    BY <1>1, <1>2 DEF Running
<1>7. Len(program) \in Nat /\ DOMAIN program = 1 .. Len(program)
    BY <1>2 DEF Running, WellMade, IsSeq
<1>8. CASE success
    <2>1. step' = step + 1
        BY <1>1, <1>8
    <2>2. held \in good[step + 1]
        BY <1>1, <1>5, <1>8 DEF Holding, Account
    <2>3. Holding(good, bad)'
        BY <1>1, <1>2, <1>5, <1>8, <2>1, <2>2 DEF Holding
    <2>4. /\ step' \in 1 .. Len(program') + 1
          /\ step' \in DOMAIN program' => Passed(step)'
        BY <1>1, <1>2, <1>3, <1>4, <2>1, NextGoesOn
    <2> QED
        BY <1>1, <1>2, <1>6, <2>3, <2>4, GoesOn
<1>9. CASE ~success
    <2>1. step' = Len(program) + 1
        BY <1>1, <1>9
    <2>2. held \in bad[Len(program) + 1]
        BY <1>1, <1>5, <1>9 DEF Holding, Account
    <2>3. Holding(good, bad)'
        BY <1>1, <1>2, <1>5, <1>9, <2>1, <2>2 DEF Holding
    <2>4. step' \in 1 .. Len(program') + 1 /\ step' \notin DOMAIN program'
        BY <1>2, <1>7, <2>1
    <2> QED
        BY <1>1, <1>2, <1>6, <2>3, <2>4, GoesOn
<1> QED
    BY <1>8, <1>9

LEMMA ReturnKeeps ==
    ASSUME CInv, HandlerReturns
    PROVE  CInv'
<1>1. /\ pc = "run" /\ step > Len(program) /\ pc' = "cleanup"
      /\ UNCHANGED <<cmd, arguments, heap, held, touched>>
    BY DEF HandlerReturns, handler
<1>2. Running
    BY <1>1 DEF CInv, HandlerInv
<1>3. step = Len(program) + 1
    BY <1>1, <1>2 DEF Running, WellMade, IsSeq
<1>4. held = {}
    <2>1. PICK good, bad : Holding(good, bad)
        BY <1>2 DEF Running
    <2>2. held \in good[Len(program) + 1] \cup bad[Len(program) + 1]
        BY <1>2, <1>3, <2>1 DEF Holding, Running
    <2>3. good[Len(program) + 1] \cup bad[Len(program) + 1] \subseteq {{}}
        BY <2>1 DEF Holding, Account
    <2> QED
        BY <2>2, <2>3
<1>5. ParserInv'
    BY <1>1, SameVector DEF CInv, ParserInv, Parsing
<1>6. OnlyAsAsked'
    BY <1>1 DEF CInv, HandlerInv, OnlyAsAsked, Typed
<1> QED
    BY <1>1, <1>4, <1>5, <1>6 DEF CInv, HandlerInv

(* Only root leaves, and it has no arguments that memory could belong to.  *)
LEMMA LeaveKeeps ==
    ASSUME CInv, HandlerLeaves
    PROVE  CInv'
<1>1. /\ pc = "run" /\ step \in DOMAIN program /\ program[step].do = "leave" /\ pc' = "left"
      /\ UNCHANGED <<cmd, arguments, heap, held, touched>>
    BY DEF HandlerLeaves, Doing
<1>2. Running
    BY <1>1 DEF CInv, HandlerInv
<1>3. commands[cmd].handler = "root"
    BY <1>1, <1>2 DEF Running, WellMade
<1>4. held = {}
    <2>1. PICK good, bad : Holding(good, bad)
        BY <1>2 DEF Running
    <2>2. held \in good[step] \/ held \in bad[step]
        BY <1>2, <2>1 DEF Holding, Running
    <2> QED
        BY <1>1, <2>1, <2>2 DEF Holding, Account, Accounted
<1>5. DOMAIN Specs = {}
    <2>1. PICK n, k : Row(cmd, n, k) /\ DOMAIN Specs = 1 .. n
        BY <1>1, CountOptions DEF CInv, ParserInv, Parsing, Vector
    <2>2. DOMAIN Uses("root") = {}
        BY DEF Uses, MemoryHandlers, KernelHandlers, OtherHandlers
    <2> QED
        BY <1>3, <2>1, <2>2 DEF Row, RowFits
<1>6. Owners
    BY <1>1 DEF CInv, ParserInv, Parsing
<1>7. Freed'
    BY <1>1, <1>5, <1>6 DEF Owners, Freed
<1>8. ParserInv'
    BY <1>1, <1>7 DEF ParserInv, Parsing
<1>9. OnlyAsAsked'
    BY <1>1 DEF CInv, HandlerInv, OnlyAsAsked, Typed
<1> QED
    BY <1>1, <1>4, <1>8, <1>9 DEF CInv, HandlerInv

LEMMA CInvNext == CInv /\ [Next]_allVars => CInv'
<1> SUFFICES ASSUME CInv, [Next]_allVars PROVE CInv'
    OBVIOUS
<1>1. CASE Parse_
    BY <1>1, ParserKeeps
<1>2. CASE EnterHandler
    BY <1>2, EnterKeeps
<1>3. CASE LoadFeatures
    BY <1>3, LoadKeeps
<1>4. CASE LookAtPointer
    BY <1>4, LookKeeps
<1>5. CASE CheckAddress
    BY <1>5, CheckKeeps
<1>6. CASE CallFunction
    BY <1>6, CallKeeps
<1>7. CASE CallInLoop
    BY <1>7, LoopKeeps
<1>8. CASE Acquire
    BY <1>8, AcquireKeeps
<1>9. CASE Release
    BY <1>9, ReleaseKeeps
<1>10. CASE CheckInput
    BY <1>10, InputKeeps
<1>11. CASE ReturnIfFailed
    BY <1>11, ReturnIfFailedKeeps
<1>12. CASE HandlerReturns
    BY <1>12, ReturnKeeps
<1>13. CASE HandlerLeaves
    BY <1>13, LeaveKeeps
<1>14. CASE UNCHANGED allVars
    <2>1. UNCHANGED <<line, at, bad_option, pc, cmd, first, arguments, heap, success, program, step,
                      loaded, present_fn, held, checked, touched>>
        BY <1>14 DEF allVars, vars, handler
    <2>2. ParserInv' /\ OnlyAsAsked'
        BY <2>1 DEF CInv, ParserInv, Parsing, Finding, Vector, Owners, Typed_, Options, Arguing,
            Arguments, AllThere, Supplied, Freed, Specs, option_count, HandlerInv, OnlyAsAsked,
            Typed
    <2>3. CASE pc = "run"
        <3>1. Elsewhere /\ Running
            BY <2>1, <2>3 DEF Elsewhere, CInv, HandlerInv
        <3>2. /\ step' \in 1 .. Len(program') + 1 /\ success' \in BOOLEAN
              /\ step' \in DOMAIN program' => Passed(step)'
            BY <2>1, <3>1 DEF Running, Passed, Done
        <3>3. \E good, bad : Holding(good, bad)'
            BY <2>1, <3>1 DEF Running, Holding
        <3> QED
            BY <2>2, <2>3, <3>1, <3>2, <3>3, GoesOn
    <2>4. CASE pc # "run"
        BY <2>1, <2>2, <2>4 DEF CInv, HandlerInv
    <2> QED
        BY <2>3, <2>4
<1> QED
    BY <1>1, <1>2, <1>3, <1>4, <1>5, <1>6, <1>7, <1>8, <1>9, <1>10, <1>11, <1>12, <1>13, <1>14
       DEF Next, HandlerNext, Ended

LEMMA AlwaysCInv == Spec => []CInv
BY CInvInit, CInvNext, PTL DEF Spec

-----------------------------------------------------------------------------
(* When a handler runs, the arguments it asserts to be there are there,    *)
(* with the type it reads, whatever words were typed (command.c, and the   *)
(* macros of cli.c).                                                       *)
THEOREM HandlersAreReady == Spec => []HandlerReady
<1>1. CInv => HandlerReady
    BY ArgumentsReady DEF CInv
<1> QED
    BY <1>1, AlwaysCInv, PTL

(* A command that has ended holds no reference, memory or descriptor, on   *)
(* any path of its handler, and the parser has freed its arguments but for *)
(* words before one that is none.                                          *)
THEOREM EverythingGivenBack == Spec => []NothingHeld
<1>1. CInv => NothingHeld
    BY DEF CInv, ParserInv, HandlerInv, NothingHeld, Freed
<1> QED
    BY <1>1, AlwaysCInv, PTL

(* Memory is accessed unsafely only with -f, physical memory is touched    *)
(* only with -p, and without -f the address is checked before.             *)
THEOREM AccessIsAsAsked == Spec => []OnlyAsAsked
<1>1. CInv => OnlyAsAsked
    BY DEF CInv, HandlerInv
<1> QED
    BY <1>1, AlwaysCInv, PTL

(* No function of the library is called before its feature is loaded, nor  *)
(* through a pointer that may be NULL and was not looked at.               *)
THEOREM CallsAreReady == Spec => []CallsReady
<1>1. CInv => CallsReady
    <2> SUFFICES ASSUME CInv, Doing("call") \/ Doing("loop")
                 PROVE  /\ What \in DOMAIN FeatureOf => FeatureOf[What] \subseteq loaded
                        /\ What \in MayBeNull => What \in present_fn
        BY DEF CallsReady
    <2>1. /\ pc = "run" /\ step \in DOMAIN program
          /\ program[step].do \in {"call", "loop"}
        BY DEF Doing
    <2>2. Running
        BY <2>1 DEF CInv, HandlerInv
    <2>3. Prepared(program, step) /\ Passed(step)
        BY <2>1, <2>2 DEF Running, WellMade
    <2>4. What \in DOMAIN FeatureOf => FeatureOf[What] \subseteq loaded
        BY <2>1, <2>3 DEF Prepared, Loaded, Passed, Done, What
    <2>5. What \in MayBeNull => What \in present_fn
        BY <2>1, <2>3 DEF Prepared, Looked, Passed, Done, What
    <2> QED
        BY <2>4, <2>5
<1> QED
    BY <1>1, AlwaysCInv, PTL

-----------------------------------------------------------------------------
(* Where the parser is, and whether it goes on.                             *)
Position == [arg : Seq(Characters), argv : Seq(Seq(Characters)), argidx : Nat]

(* From p the parser gets to q: to a later word, or further in this one. *)
Beyond(p, q) ==
    \/ Len(q.argv) < Len(p.argv)
    \/ Len(q.argv) = Len(p.argv) /\ Len(q.arg) < Len(p.arg)
Further(p, q) ==
    Beyond(p, q) \/ (Len(q.argv) = Len(p.argv) /\ Len(q.arg) = Len(p.arg))

LEMMA FurtherAndFurther ==
    ASSUME NEW p \in Position, NEW q \in Position, NEW r \in Position,
           Further(p, q), Further(q, r)
    PROVE  /\ Further(p, r)
           /\ Beyond(p, q) \/ Beyond(q, r) => Beyond(p, r)
<1>1. /\ Len(p.argv) \in Nat /\ Len(q.argv) \in Nat /\ Len(r.argv) \in Nat
      /\ Len(p.arg) \in Nat /\ Len(q.arg) \in Nat /\ Len(r.arg) \in Nat
    BY LenProperties DEF Position
<1> QED
    BY <1>1 DEF Further, Beyond

LEMMA TakeGoesOn ==
    ASSUME NEW p \in Position, NEW n \in Nat
    PROVE  LET q == Take(p, n)
           IN  /\ q \in Position /\ Further(p, q) /\ q.argv = p.argv
               /\ n <= Len(p.arg) => Len(q.arg) = Len(p.arg) - n
<1> DEFINE q == Take(p, n)
           rest == SubSeq(p.arg, n + 1, Len(p.arg))
<1>1. /\ p.arg \in Seq(Characters) /\ p.argv \in Seq(Seq(Characters)) /\ p.argidx \in Nat
      /\ q = [arg |-> rest, argv |-> p.argv, argidx |-> p.argidx]
    <2>1. p = [arg |-> p.arg, argv |-> p.argv, argidx |-> p.argidx]
        BY DEF Position
    <2>2. q = [p EXCEPT !.arg = rest]
        BY DEF Take
    <2> HIDE DEF q, rest
    <2> QED
        BY <2>1, <2>2 DEF Position
<1>2. Len(p.arg) \in Nat /\ Len(p.argv) \in Nat
    BY <1>1, LenProperties
<1>3. /\ rest \in Seq(Characters)
      /\ Len(rest) = IF n + 1 <= Len(p.arg) THEN Len(p.arg) - (n + 1) + 1 ELSE 0
    <2>1. \A i \in n + 1 .. Len(p.arg) : p.arg[i] \in Characters
        <3>1. p.arg \in [1 .. Len(p.arg) -> Characters]
            BY <1>1, LenProperties
        <3> QED
            BY <1>2, <3>1
    <2> QED
        BY <1>2, <2>1, SubSeqProperties
<1>4. Len(rest) = IF n + 1 <= Len(p.arg) THEN Len(p.arg) - n ELSE 0
    BY <1>2, <1>3
<1> QED
    BY <1>1, <1>2, <1>3, <1>4 DEF Position, Further, Beyond

LEMMA AdvanceGoesOn ==
    ASSUME NEW p \in Position
    PROVE  /\ advance(p) \in Position /\ Further(p, advance(p))
           /\ ArgIsNull(p) => advance(p) = p
           /\ ~ ArgIsNull(p) /\ AtEnd(p) => Len(advance(p).argv) < Len(p.argv)
<1>1. p.arg \in Seq(Characters) /\ p.argv \in Seq(Seq(Characters)) /\ p.argidx \in Nat
    BY DEF Position
<1>2. Len(p.arg) \in Nat /\ Len(p.argv) \in Nat
    BY <1>1, LenProperties
<1>3. CASE ArgIsNull(p) \/ ~ AtEnd(p)
    BY <1>2, <1>3 DEF advance, Further, Beyond
<1>4. CASE ~ ArgIsNull(p) /\ AtEnd(p)
    <2> DEFINE word == IF Len(p.argv) > 1 THEN p.argv[2] ELSE <<>>
    <2>1. advance(p) = [argv |-> Tail(p.argv), argidx |-> p.argidx + 1, arg |-> word]
        BY <1>4 DEF advance
    <2>2. Len(p.argv) > 0 /\ Tail(p.argv) \in Seq(Seq(Characters))
          /\ Len(Tail(p.argv)) = Len(p.argv) - 1
        BY <1>1, <1>4 DEF ArgIsNull
    <2>3. word \in Seq(Characters)
        BY <1>1, <1>2
    <2> HIDE DEF word
    <2>4. advance(p) \in Position
        BY <1>1, <2>1, <2>2, <2>3 DEF Position
    <2>5. Len(advance(p).argv) < Len(p.argv)
        BY <1>2, <2>1, <2>2
    <2> QED
        BY <1>4, <2>4, <2>5 DEF Further, Beyond
<1> QED
    BY <1>3, <1>4

(* What has been parsed is a number of characters from the front. *)
LEMMA DigitsAreThere ==
    ASSUME NEW s \in Seq(Characters), NEW base
    PROVE  LeadingDigits(s, base) \in 0 .. Len(s)
<1> DEFINE Ends(n) == n < Len(s) => ~ IsDigit(s[n + 1], base)
           S == {n \in 0 .. Len(s) : Ends(n)}
<1>1. Len(s) \in Nat
    BY LenProperties
<1>2. S \in SUBSET Nat /\ Len(s) \in S
    BY <1>1
<1>3. PICK k \in S : \A j \in S : k <= j
    <2> HIDE DEF S
    <2> QED
        BY <1>2, LeastOf
<1>4. k \in Nat /\ k <= Len(s) /\ Ends(k)
    BY <1>1, <1>3
<1>5. \A i \in 1 .. k : IsDigit(s[i], base)
    <2> SUFFICES ASSUME NEW i \in 1 .. k, ~ IsDigit(s[i], base)
                 PROVE  FALSE
        OBVIOUS
    <2>1. /\ i - 1 \in Nat /\ i - 1 <= Len(s) /\ (i - 1) + 1 = i /\ i \in Nat
          /\ ~ (k <= i - 1)
        BY <1>1, <1>4
    <2>2. ~ Ends(i - 1)
        BY <1>3, <2>1
    <2> QED
        BY <2>1, <2>2
<1>6. k \in 0 .. Len(s) /\ Ends(k)
    BY <1>1, <1>4
<1>7. \E n \in 0 .. Len(s) : /\ \A i \in 1 .. n : IsDigit(s[i], base)
                             /\ n < Len(s) => ~ IsDigit(s[n + 1], base)
    BY <1>5, <1>6
<1> QED
    BY <1>7, Zenon DEF LeadingDigits

LEMMA IntegerTakes ==
    ASSUME NEW s \in Seq(Characters), NEW is_signed, NEW base0,
           strtoint(s, is_signed, base0).result \notin {"OVERFLOW", "NODIGITS"}
    PROVE  strtoint(s, is_signed, base0).n \in Nat
<1> DEFINE sign == IF Signed(s) THEN 1 ELSE 0
           negate == Signed(s) /\ s[1] = "-"
           prefix == handle_base_prefix(SubSeq(s, sign + 1, Len(s)), base0)
           skip == sign + prefix.n
           rest == SubSeq(s, skip + 1, Len(s))
           digits == LeadingDigits(rest, prefix.base)
           r == strtoint(s, is_signed, base0)
<1>1. \E over, v : r = [n |-> skip + (IF over = {} THEN digits ELSE Min(over) - 1), value |-> v,
                        result |-> IF digits = 0 THEN "NODIGITS"
                                   ELSE IF over # {} THEN "OVERFLOW"
                                   ELSE IF digits < Len(rest) THEN "BADDIGIT" ELSE "OK"]
    BY Zenon DEF strtoint
<1>2. sign \in Nat /\ prefix.n \in Nat
    BY DEF handle_base_prefix
<1>3. skip \in Nat /\ Len(s) \in Nat
    BY <1>2, LenProperties
<1>4. rest \in Seq(Characters)
    BY <1>3
<1>5. digits \in 0 .. Len(rest) /\ Len(rest) \in Nat
    BY <1>4, DigitsAreThere, LenProperties
<1> HIDE DEF sign, negate, prefix, skip, rest, digits, r
<1>6. PICK over, v : r = [n |-> skip + (IF over = {} THEN digits ELSE Min(over) - 1), value |-> v,
                          result |-> IF digits = 0 THEN "NODIGITS"
                                     ELSE IF over # {} THEN "OVERFLOW"
                                     ELSE IF digits < Len(rest) THEN "BADDIGIT" ELSE "OK"]
    BY <1>1
<1>7. digits # 0 /\ over = {}
    BY <1>6 DEF r
<1>8. r.n = skip + digits
    BY <1>6, <1>7
<1> QED
    BY <1>3, <1>5, <1>8 DEF r

LEMMA ParseIntGoesOn ==
    ASSUME NEW p \in Position, NEW type, NEW len \in Int, len <= Len(p.arg),
           parse_int_internal(p, type, len).result = "ok"
    PROVE  /\ parse_int_internal(p, type, len).p \in Position
           /\ Further(p, parse_int_internal(p, type, len).p)
<1> DEFINE base == IF type = "ADDRESS" THEN 16 ELSE 10
           s == SubSeq(p.arg, 1, len)
           sr == strtoint(s, type = "INT", base)
<1>1. s \in Seq(Characters)
    <2>1. p.arg \in Seq(Characters) /\ Len(p.arg) \in Nat
        BY LenProperties DEF Position
    <2>2. \A i \in 1 .. len : p.arg[i] \in Characters
        BY <2>1, ElementOfSeq
    <2> QED
        BY <2>2, SubSeqProperties
<1>2. \E b : parse_int_internal(p, type, len) =
          IF sr.result \in {"OVERFLOW", "NODIGITS"} \/ b THEN Failed(p, "NONE")
          ELSE Parsed(Take(p, sr.n), type, SubSeq(s, 1, sr.n))
    BY Zenon DEF parse_int_internal
<1> HIDE DEF s, sr
<1>3. Failed(p, "NONE").result # "ok"
    BY DEF Failed
<1>4. sr.result \notin {"OVERFLOW", "NODIGITS"}
    BY <1>2, <1>3
<1>5. sr.n \in Nat
    BY <1>1, <1>4, IntegerTakes DEF sr
<1>6. parse_int_internal(p, type, len) = Parsed(Take(p, sr.n), type, SubSeq(s, 1, sr.n))
    BY <1>2, <1>3
<1>7. parse_int_internal(p, type, len).p = Take(p, sr.n)
    BY <1>6 DEF Parsed
<1> QED
    BY <1>5, <1>7, TakeGoesOn

LEMMA ParseWidthGoesOn ==
    ASSUME NEW p \in Position, parse_width(p).result = "ok"
    PROVE  parse_width(p).p \in Position /\ Further(p, parse_width(p).p)
<1> DEFINE q == parse_int_internal(p, "UINT", Len(p.arg))
<1>1. q = [result |-> q.result, p |-> q.p, type |-> q.type, text |-> q.text,
           keep_error |-> q.keep_error, lost |-> q.lost]
    BY ParseInt
<1>2. parse_width(p) =
          IF q.result # "ok" THEN q
          ELSE IF verify_width(q.text) THEN [q EXCEPT !.type = "WIDTH"]
          ELSE [Failed(q.p, "UINT") EXCEPT !.keep_error = TRUE]
    BY DEF parse_width
<1> HIDE DEF q
<1>3. q.result = "ok" /\ verify_width(q.text)
    BY <1>2 DEF Failed
<1>4. parse_width(p).p = q.p
    BY <1>1, <1>2, <1>3
<1>5. Len(p.arg) \in Int /\ Len(p.arg) <= Len(p.arg)
    BY LenProperties DEF Position
<1> QED
    BY <1>3, <1>4, <1>5, ParseIntGoesOn DEF q

(* A value is taken from the rest of the word, or from all words there are. *)
LEMMA ParseGoesOn ==
    ASSUME NEW type \in ArgTypes, NEW p \in Position, NEW found, NEW memory,
           Parse(type, p, found, memory).result = "ok"
    PROVE  /\ Parse(type, p, found, memory).p \in Position
           /\ Further(p, Parse(type, p, found, memory).p)
<1> DEFINE r == Parse(type, p, found, memory)
           n == Len(p.arg)
<1>1. n \in Nat /\ n <= n /\ Len(p.argv) \in Nat
    BY LenProperties DEF Position
<1>2. Take(p, n) \in Position /\ Further(p, Take(p, n))
    BY <1>1, TakeGoesOn
<1>3. \A k : Failed(p, k).result # "ok"
    BY DEF Failed
<1>4. CASE type = "NONE"
    <2>1. r = Parsed(p, "NONE", <<>>)
        BY <1>4 DEF Parse
    <2>2. r.p = p
        BY <2>1 DEF Parsed
    <2> QED
        BY <1>1, <2>2 DEF Further, Beyond
<1>5. CASE type = "WORDS"
    <2>1. r = parse_words(p, memory)
        BY <1>5 DEF Parse
    <2>2. r.p = NoWords
        <3> DEFINE bad == {i \in DOMAIN p.argv : ~IsWord(p.argv[i])}
        <3>1. parse_words(p, memory) =
                  IF p.argv # <<>> /\ 1 \notin bad /\ ~memory
                  THEN [Failed(p, "WORD") EXCEPT !.result = "error"]
                  ELSE IF bad = {} THEN Parsed(NoWords, "WORDS", FlattenSeq(p.argv))
                  ELSE [Failed(p, "UINT") EXCEPT !.lost = (1 \notin bad)]
            BY Zenon DEF parse_words
        <3> HIDE DEF bad
        <3>2. parse_words(p, memory).result = "ok"
            BY <2>1
        <3>3. /\ [Failed(p, "WORD") EXCEPT !.result = "error"].result # "ok"
              /\ [Failed(p, "UINT") EXCEPT !.lost = (1 \notin bad)].result # "ok"
            BY DEF Failed
        <3>4. parse_words(p, memory) = Parsed(NoWords, "WORDS", FlattenSeq(p.argv))
            BY <3>1, <3>2, <3>3
        <3> QED
            BY <2>1, <3>4 DEF Parsed
    <2>3. NoWords \in Position /\ Len(NoWords.argv) = 0 /\ Len(NoWords.arg) = 0
        BY EmptySeq DEF NoWords, Position
    <2> QED
        BY <1>1, <2>2, <2>3 DEF Further, Beyond
<1>6. ASSUME type \notin {"NONE", "WORDS"} PROVE ~ ArgIsNull(p)
    <2>1. ArgIsNull(p) => r = Failed(p, "NONE")
        BY <1>6 DEF Parse, ArgTypes
    <2> QED
        BY <1>3, <2>1
<1>7. CASE type \in {"INT", "UINT"}
    <2>1. r = parse_int_internal(p, type, n)
        BY <1>6, <1>7 DEF Parse
    <2> QED
        BY <1>1, <2>1, ParseIntGoesOn
<1>8. CASE type = "WIDTH"
    <2>1. r = parse_width(p)
        BY <1>6, <1>8 DEF Parse
    <2> QED
        BY <2>1, ParseWidthGoesOn
<1>9. CASE type = "DATA"
    <2> DEFINE result == strtodata(p.arg, 16).result
    <2>1. r = parse_data(p)
        BY <1>6, <1>9 DEF Parse
    <2>2. parse_data(p) =
              CASE result = "OK" -> Parsed(Take(p, n), "DATA", p.arg)
                [] result = "NODIGITS" -> [Failed(p, "NONE") EXCEPT !.result = "abort"]
                [] result \notin {"OK", "NODIGITS"} -> Failed(p, "NONE")
        BY Zenon DEF parse_data
    <2> HIDE DEF result, n
    <2>3. [Failed(p, "NONE") EXCEPT !.result = "abort"].result # "ok"
        BY DEF Failed
    <2>4. parse_data(p) = Parsed(Take(p, n), "DATA", p.arg)
        BY <1>3, <2>1, <2>2, <2>3
    <2>5. r.p = Take(p, n)
        BY <2>1, <2>4 DEF Parsed
    <2> QED
        BY <1>2, <2>5
<1>10. CASE type \in {"STRING", "SYMBOL"}
    <2>1. r = Parsed(Take(p, n), type, p.arg)
        BY <1>6, <1>10 DEF Parse, parse_rest
    <2>2. r.p = Take(p, n)
        BY <2>1 DEF Parsed
    <2> QED
        BY <1>2, <2>2
<1>11. CASE type = "ADDRESS"
    <2>1. r = parse_address_internal(p, n, found)
        BY <1>6, <1>11 DEF Parse
    <2>2. CASE IsSymbol(SubSeq(p.arg, 1, n))
        <3>1. r = Parsed(Take(p, n), "ADDRESS", SubSeq(p.arg, 1, n))
            BY <1>3, <2>1, <2>2 DEF parse_address_internal
        <3>2. r.p = Take(p, n)
            BY <3>1 DEF Parsed
        <3> QED
            BY <1>2, <3>2
    <2>3. CASE ~ IsSymbol(SubSeq(p.arg, 1, n))
        <3>1. r = parse_int_internal(p, "ADDRESS", n)
            BY <2>1, <2>3 DEF parse_address_internal
        <3> QED
            BY <1>1, <3>1, ParseIntGoesOn
    <2> QED
        BY <2>2, <2>3
<1>12. CASE type = "RANGE"
    <2>1. r = parse_range(p, found)
        BY <1>6, <1>12 DEF Parse
    <2>2. \/ parse_range(p, found) = Failed(p, "NONE")
          \/ parse_range(p, found) = Parsed(Take(p, n), "RANGE", p.arg)
        BY Zenon DEF parse_range
    <2>3. r = Parsed(Take(p, n), "RANGE", p.arg)
        BY <1>3, <2>1, <2>2
    <2>4. r.p = Take(p, n)
        BY <2>3 DEF Parsed
    <2> QED
        BY <1>2, <2>4
<1> QED
    BY <1>4, <1>5, <1>7, <1>8, <1>9, <1>10, <1>11, <1>12 DEF ArgTypes

-----------------------------------------------------------------------------
(* The line is one of Lines and the parser is at a place of it. *)
PlaceInv == line \in Lines /\ at \in Position

LEMMA LettersAreThere ==
    ASSUME NEW name, NEW p \in Position, IsPrefix(name, p.arg), Len(name) \in Nat
    PROVE  LET q == Take(p, Len(name))
           IN  q \in Position /\ Further(p, q) /\ q.argv = p.argv
               /\ Len(q.arg) = Len(p.arg) - Len(name)
BY TakeGoesOn DEF IsPrefix

(* Where the parser looks for an option. *)
LEMMA OptionAtGoesOn ==
    ASSUME at \in Position
    PROVE  /\ Here \in Position /\ Further(at, Here)
           /\ OptionAt \in Position /\ Further(at, OptionAt)
           /\ Dash => Beyond(at, OptionAt)
           /\ ~ NewWord => OptionAt = at
<1>1. /\ Here \in Position /\ Further(at, Here)
      /\ ArgIsNull(at) => Here = at
      /\ ~ ArgIsNull(at) /\ AtEnd(at) => Len(Here.argv) < Len(at.argv)
    BY AdvanceGoesOn DEF Here
<1>2. Take(Here, 1) \in Position /\ Further(Here, Take(Here, 1)) /\ Take(Here, 1).argv = Here.argv
    BY <1>1, TakeGoesOn
<1>3. OptionAt \in Position /\ Further(at, OptionAt)
    BY <1>1, <1>2, FurtherAndFurther DEF OptionAt
<1>4. ASSUME Dash PROVE Beyond(at, OptionAt)
    <2>1. Len(Here.arg) > 1 /\ OptionAt = Take(Here, 1)
        BY <1>4 DEF Dash, OptionAt
    <2>2. Len(Here.arg) \in Nat
        BY <1>1, LenProperties DEF Position
    <2>3. Len(OptionAt.arg) = Len(Here.arg) - 1 /\ OptionAt.argv = Here.argv
        <3>1. 1 \in Nat /\ 1 <= Len(Here.arg)
            BY <2>1, <2>2
        <3>2. Len(Take(Here, 1).arg) = Len(Here.arg) - 1
            BY <1>1, <3>1, TakeGoesOn
        <3> QED
            BY <1>2, <2>1, <3>2
    <2>4. Beyond(Here, OptionAt)
        BY <2>2, <2>3 DEF Beyond
    <2> QED
        BY <1>1, <1>3, <2>4, FurtherAndFurther DEF Further
<1>5. ~ NewWord => OptionAt = at
    BY DEF NewWord, OptionAt, Dash, Here, advance
<1> QED
    BY <1>1, <1>3, <1>4, <1>5

(* A turn of a loop of the parser. *)
Turn ==
    pc' = pc /\ pc \in {"options", "arguments"} =>
        \/ WordsLeft' < WordsLeft
        \/ WordsLeft' = WordsLeft /\ CharactersLeft' < CharactersLeft
        \/ /\ WordsLeft' = WordsLeft /\ CharactersLeft' = CharactersLeft
           /\ SpecsLeft' < SpecsLeft

LEMMA TurnIs ==
    ASSUME Further(at, at'), Beyond(at, at') \/ SpecsLeft' < SpecsLeft
    PROVE  Turn
BY DEF Further, Beyond, Turn, WordsLeft, CharactersLeft

LEMMA ParseOptionGoesOn ==
    ASSUME ParserInv, at \in Position, ParseOption
    PROVE  at' \in Position /\ Turn
<1>1. pc = "options" /\ Vector /\ Options /\ UNCHANGED cmd /\ IsOption
    BY DEF ParseOption, ParserInv, Parsing
<1> DEFINE i == Match
           q == Take(OptionAt, Len(Specs[i].option))
           p == ValueAt(i)
           r == Parse(Specs[i].type, p, TRUE, TRUE)
<1>2. /\ first' = IF Specs[i].option = <<>> THEN first + 1 ELSE first
      /\ OptionValue(i, r) \/ NotTheUnnamedOption(i, r) \/ BadOption(i, r)
    BY Zenon DEF ParseOption
<1>3. /\ i \in Candidates /\ i \in 1 .. option_count
      /\ first \in Nat /\ Len(Specs) \in Nat /\ Specs' = Specs
    <2>1. Candidates # {} /\ first \in Nat \ {0}
        BY <1>1 DEF IsOption, Options
    <2>2. option_count \in Nat /\ Len(Specs) \in Nat
        BY <1>1, CountOptions DEF Vector, Row
    <2>3. i \in Candidates /\ i \in first .. option_count
        BY <1>1, <2>1, MatchMatches DEF Vector
    <2> QED
        BY <1>1, <2>1, <2>2, <2>3 DEF Specs
<1>4. /\ Specs[i].type \in ArgTypes
      /\ IF Specs[i].option = <<>> THEN Specs[i].type = "WIDTH" ELSE Len(Specs[i].option) = 1
    BY <1>1, <1>3, OptionSpec DEF Vector
<1>5. IsPrefix(Specs[i].option, OptionAt.arg)
    BY <1>3 DEF Candidates
<1>6. OptionAt \in Position /\ Further(at, OptionAt)
    BY OptionAtGoesOn
<1> HIDE DEF i
<1>7. Len(Specs[i].option) \in Nat /\ (Specs[i].option # <<>> => Len(Specs[i].option) = 1)
    BY <1>4, EmptySeq
<1>8. /\ q \in Position /\ Further(OptionAt, q)
      /\ Specs[i].option # <<>> => Beyond(OptionAt, q)
    <2>1. /\ q \in Position /\ Further(OptionAt, q) /\ q.argv = OptionAt.argv
          /\ Len(q.arg) = Len(OptionAt.arg) - Len(Specs[i].option)
        BY <1>5, <1>6, <1>7, LettersAreThere
    <2>2. Len(OptionAt.arg) \in Nat
        BY <1>6, LenProperties DEF Position
    <2> HIDE DEF q
    <2>3. ASSUME Specs[i].option # <<>>
          PROVE  Beyond(OptionAt, q)
        <3>1. Len(Specs[i].option) = 1
            BY <1>7, <2>3
        <3>2. Len(q.arg) = Len(OptionAt.arg) - 1
            BY <2>1, <3>1
        <3>3. Len(q.arg) < Len(OptionAt.arg)
            BY <2>2, <3>2
        <3> QED
            BY <2>1, <3>3 DEF Beyond
    <2> QED
        BY <2>1, <2>3
<1>9. p \in Position /\ Further(q, p)
    <2>1. p = IF AtEnd(q) /\ Specs[i].type # "NONE" THEN advance(q) ELSE q
        BY DEF ValueAt
    <2>2. Further(q, q)
        BY DEF Further
    <2> HIDE DEF q, p
    <2> QED
        BY <1>8, <2>1, <2>2, AdvanceGoesOn
<1> HIDE DEF q, p
<1>10. r.result = "ok" => r.p \in Position /\ Further(p, r.p)
    BY <1>4, <1>9, ParseGoesOn
<1> HIDE DEF r
<1>11. Specs[i].option = <<>> => SpecsLeft' < SpecsLeft
    BY <1>2, <1>3 DEF SpecsLeft
<1>12. CASE OptionValue(i, r)
    <2>1. r.result = "ok" /\ at' = r.p
        BY <1>12 DEF OptionValue
    <2>2. Further(at, q) /\ (Specs[i].option # <<>> => Beyond(at, q))
        BY <1>6, <1>8, FurtherAndFurther
    <2>3. Further(at, p) /\ (Specs[i].option # <<>> => Beyond(at, p))
        BY <1>8, <1>9, <2>2, FurtherAndFurther
    <2>4. Further(at, r.p) /\ (Specs[i].option # <<>> => Beyond(at, r.p))
        BY <1>9, <1>10, <2>1, <2>3, FurtherAndFurther
    <2> QED
        BY <1>10, <1>11, <2>1, <2>4, TurnIs
<1>13. CASE NotTheUnnamedOption(i, r)
    BY <1>6, <1>11, <1>13, TurnIs DEF NotTheUnnamedOption
<1>14. CASE BadOption(i, r)
    BY <1>1, <1>14 DEF BadOption, Turn
<1> QED
    BY <1>2, <1>12, <1>13, <1>14

LEMMA ParseArgumentGoesOn ==
    ASSUME ParserInv, at \in Position, ParseArgument
    PROVE  at' \in Position /\ Turn
<1>1. pc = "arguments" /\ Vector /\ Arguing /\ first <= Len(Specs) /\ UNCHANGED cmd
    BY DEF ParseArgument, ParserInv, Parsing
<1>2. PICK found \in BOOLEAN, memory \in BOOLEAN :
          \E r \in {Parse(Specs[first].type, at, found, memory)} :
              ArgumentValue(r) \/ NoOptionalArgument(r) \/ BadArgument(r) \/ Abort(r)
    BY Zenon DEF ParseArgument
<1>3. PICK r \in {Parse(Specs[first].type, at, found, memory)} :
          ArgumentValue(r) \/ NoOptionalArgument(r) \/ BadArgument(r) \/ Abort(r)
    BY <1>2
<1>4. first \in option_count + 1 .. Len(Specs) /\ first \in Nat /\ Len(Specs) \in Nat
      /\ Specs' = Specs
    <2>1. option_count \in Nat /\ Len(Specs) \in Nat
        BY <1>1, CountOptions DEF Vector, Row
    <2> QED
        BY <1>1, <2>1 DEF Arguing, Specs
<1>5. Specs[first].type \in ArgTypes
    BY <1>1, <1>4, ArgumentSpec DEF Vector
<1>6. Further(at, at)
    BY DEF Further
<1>7. CASE ArgumentValue(r)
    <2>1. r.p \in Position /\ Further(at, r.p)
        BY <1>3, <1>5, <1>7, ParseGoesOn DEF ArgumentValue
    <2>2. at' = advance(r.p) /\ first' = first + 1
        BY <1>7 DEF ArgumentValue
    <2>3. at' \in Position /\ Further(at, at')
        BY <2>1, <2>2, AdvanceGoesOn, FurtherAndFurther
    <2>4. SpecsLeft' < SpecsLeft
        BY <1>4, <2>2 DEF SpecsLeft
    <2> QED
        BY <2>3, <2>4, TurnIs
<1>8. CASE NoOptionalArgument(r)
    <2>1. at' = at /\ first' = Len(Specs) + 1
        BY <1>8 DEF NoOptionalArgument
    <2>2. SpecsLeft' < SpecsLeft
        BY <1>1, <1>4, <2>1 DEF SpecsLeft
    <2> QED
        BY <1>6, <2>1, <2>2, TurnIs
<1>9. CASE BadArgument(r) \/ Abort(r)
    BY <1>1, <1>9 DEF BadArgument, Abort, Turn
<1> QED
    BY <1>3, <1>7, <1>8, <1>9

LEMMA PlaceInit == InitCommands => PlaceInv
<1>1. NoWords \in Position
    BY EmptySeq DEF NoWords, Position
<1> QED
    BY <1>1 DEF InitCommands, Init, PlaceInv

LEMMA FindCommandStarts ==
    ASSUME PlaceInv, FindCommand
    PROVE  at' \in Position
<1>1. line \in Seq(Seq(Characters)) /\ line # <<>>
    BY LinesAssumption DEF PlaceInv, FindCommand
<1>2. Head(line) \in Seq(Characters)
    BY <1>1, HeadTailProperties
<1> DEFINE name == Head(line)
           n == Len(commands[Best(name)].command)
<1>3. at' = [arg |-> SubSeq(name, n + 1, Len(name)), argv |-> line, argidx |-> 0]
    BY Zenon DEF FindCommand
<1>4. n \in Nat /\ Len(name) \in Nat
    <2>1. Best(name) \in DOMAIN commands
        BY BestMatches DEF FindCommand
    <2> QED
        BY <1>2, <2>1, Table, LenProperties DEF RowOK
<1>5. SubSeq(name, n + 1, Len(name)) \in Seq(Characters)
    <2>1. \A i \in n + 1 .. Len(name) : name[i] \in Characters
        <3>1. name \in [1 .. Len(name) -> Characters]
            BY <1>2, LenProperties
        <3> QED
            BY <1>4, <3>1
    <2> QED
        BY <1>4, <2>1, SubSeqProperties
<1> HIDE DEF name, n
<1> QED
    BY <1>1, <1>3, <1>5 DEF Position

LEMMA PlaceNext ==
    ASSUME CInv, PlaceInv, [Next]_allVars
    PROVE  PlaceInv' /\ (Turn \/ UNCHANGED allVars)
<1>1. ParserInv /\ line \in Lines /\ at \in Position
    BY DEF CInv, PlaceInv
<1>2. CASE FindCommand
    BY <1>1, <1>2, FindCommandStarts DEF FindCommand, PlaceInv, Turn
<1>3. CASE NoMoreOptions \/ DashButNoOption
    <2>1. pc = "options" /\ pc' = "arguments" /\ line' = line /\ at' = Here
        BY <1>3 DEF NoMoreOptions, DashButNoOption
    <2> QED
        BY <1>1, <2>1, OptionAtGoesOn DEF PlaceInv, Turn
<1>4. CASE ParseOption
    BY <1>1, <1>4, ParseOptionGoesOn DEF PlaceInv, ParseOption
<1>5. CASE ParseArgument
    BY <1>1, <1>5, ParseArgumentGoesOn DEF PlaceInv, ParseArgument
<1>6. CASE \/ DefaultAction \/ Help \/ UnknownCommand \/ UnrecognizedOption \/ DuplicateOption
           \/ UnexpectedArgument \/ AllParsed \/ CleanupArguments
    <2>1. line' = line /\ at' = at /\ (pc' # pc \/ pc \notin {"options", "arguments"})
        BY <1>6 DEF DefaultAction, Help, UnknownCommand, UnrecognizedOption, DuplicateOption,
                    UnexpectedArgument, AllParsed, CleanupArguments, Finish
    <2> QED
        BY <2>1 DEF PlaceInv, Turn
<1>7. CASE HandlerNext
    <2>1. line' = line /\ at' = at /\ pc \notin {"options", "arguments"}
        BY <1>7 DEF HandlerNext, EnterHandler, LoadFeatures, LookAtPointer, CheckAddress,
                    CallFunction, CallInLoop, Acquire, Release, CheckInput, ReturnIfFailed,
                    HandlerReturns, HandlerLeaves, Elsewhere, Doing
    <2> QED
        BY <2>1 DEF PlaceInv, Turn
<1>8. CASE UNCHANGED allVars
    BY <1>8 DEF allVars, vars, PlaceInv
<1> QED
    BY <1>2, <1>3, <1>4, <1>5, <1>6, <1>7, <1>8 DEF Next, Parse_, ParserNext, Ended

(* The two loops of the parser end: a turn never goes back in the line, and *)
(* one that takes nothing from it has fewer options or arguments to try     *)
(* (command.c, parse_option and parse_arguments).                           *)
THEOREM ParserEnds == Spec => ParserProgresses
<1>1. CInv /\ PlaceInv /\ [Next]_allVars => [Turn]_allVars
    BY PlaceNext
<1>2. CInv /\ PlaceInv /\ [Next]_allVars => PlaceInv'
    BY PlaceNext
<1>3. ParserProgresses <=> [][Turn]_allVars
    BY DEF ParserProgresses, Turn
<1> QED
    BY <1>1, <1>2, <1>3, PlaceInit, AlwaysCInv, PTL DEF Spec
===============================================================================

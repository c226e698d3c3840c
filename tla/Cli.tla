---------------------------------- MODULE Cli ----------------------------------
(***************************************************************************)
(* The command line interface of memctl/cli.c: the table of the commands   *)
(* with the options and arguments they take, and what the handler of each  *)
(* command reads from the vector of arguments the parser filled.  The      *)
(* handler names an argument by its index in the vector and asserts that   *)
(* it is the one the table puts there.                                     *)
(*                                                                         *)
(* A name is the sequence of its characters, for the parser looks at them. *)
(* A disassembler is built in and the REPL, as in the default build for    *)
(* macOS; a kernelcache file has to be named.                              *)
(***************************************************************************)
EXTENDS Naturals, Sequences

(* Two pointers that are no strings: names no letters spell. *)
ARGUMENT == <<"ARGUMENT">>
OPTIONAL == <<"OPTIONAL">>

(* An option that is known by its letters; one that takes no value. *)
Opt(option, argument, type) == [option |-> option, argument |-> argument, type |-> type]
Flag(letter) == Opt(<<letter>>, "", "NONE")
Arg(argument, type) == Opt(ARGUMENT, argument, type)
Optional(argument, type) == Opt(OPTIONAL, argument, type)

(* spec_is_option *)
SpecIsOption(spec) == spec.option \notin {ARGUMENT, OPTIONAL}

Width == Opt(<<>>, "width", "WIDTH")
Access == Opt(<<"x">>, "access", "WIDTH")
Kext == Opt(<<"b">>, "kext", "STRING")
Depth == Opt(<<"d">>, "depth", "UINT")
Address == Arg("address", "ADDRESS")

Command(name, handler, specs) == [command |-> name, handler |-> handler, specs |-> specs]

MemoryCommands == <<
    Command(<<"i">>, "i", <<>>),
    Command(<<"r">>, "r", <<Width, Flag("d"), Flag("f"), Flag("p"), Access,
                            Address, Optional("length", "UINT")>>),
    Command(<<"r", "b">>, "rb", <<Flag("f"), Flag("p"), Access, Address, Arg("length", "UINT")>>),
    Command(<<"r", "i">>, "ri", <<Flag("f"), Flag("p"), Access, Address, Arg("length", "UINT")>>),
    Command(<<"r", "i", "f">>, "rif", <<Flag("f"), Access, Arg("function", "SYMBOL")>>),
    Command(<<"r", "s">>, "rs", <<Flag("f"), Flag("p"), Access, Address,
                                  Optional("length", "UINT")>>),
    Command(<<"w">>, "w", <<Width, Flag("f"), Flag("p"), Access, Address, Arg("value", "UINT")>>),
    Command(<<"w", "d">>, "wd", <<Flag("f"), Flag("p"), Access, Address, Arg("data", "DATA")>>),
    Command(<<"w", "s">>, "ws", <<Flag("f"), Flag("p"), Access, Address,
                                  Arg("string", "STRING")>>),
    Command(<<"f">>, "f", <<Width, Flag("p"), Flag("h"), Opt(<<"a">>, "align", "WIDTH"), Access,
                            Arg("value", "UINT"), Optional("range", "RANGE")>>)>>

KernelCommands == <<
    Command(<<"f", "p", "r">>, "fpr", <<Arg("pid", "INT")>>),
    Command(<<"f", "c">>, "fc", <<Kext, Flag("k"), Access, Arg("class", "STRING"),
                                  Optional("range", "RANGE")>>),
    Command(<<"k", "c">>, "kc", <<Width, Arg("function", "ADDRESS"), Arg("args...", "WORDS")>>),
    Command(<<"k", "c", "v">>, "kcv", <<Width, Arg("vindex", "UINT"), Arg("object", "ADDRESS"),
                                        Arg("args...", "WORDS")>>),
    Command(<<"l", "c">>, "lc", <<Address>>),
    Command(<<"c", "m">>, "cm", <<Kext, Flag("k"), Arg("class", "STRING")>>),
    Command(<<"c", "z">>, "cz", <<Kext, Flag("k"), Arg("class", "STRING")>>),
    Command(<<"k", "p">>, "kp", <<Address>>),
    Command(<<"k", "p", "m">>, "kpm", <<Arg("range", "RANGE")>>),
    Command(<<"z", "s">>, "zs", <<Address>>),
    Command(<<"p", "c", "a">>, "pca", <<Flag("v"), Address>>),
    Command(<<"v", "t">>, "vt", <<Kext, Flag("k"), Arg("class", "STRING")>>),
    Command(<<"v", "t", "l">>, "vtl", <<Address>>)>>

VirtualMemoryCommands == <<
    Command(<<"v", "m">>, "vm", <<Depth, Address>>),
    Command(<<"v", "m", "m">>, "vmm", <<Depth, Optional("range", "RANGE")>>),
    Command(<<"v", "m", "a">>, "vma", <<Arg("size", "UINT")>>),
    Command(<<"v", "m", "d">>, "vmd", <<Address, Optional("size", "UINT")>>),
    Command(<<"v", "m", "p">>, "vmp", <<Arg("prot", "STRING"), Address,
                                        Optional("length", "UINT")>>)>>

SymbolCommands == <<
    Command(<<"k", "s">>, "ks", <<Flag("u"), Optional("address", "ADDRESS")>>),
    Command(<<"a">>, "a", <<Arg("symbol", "SYMBOL")>>),
    Command(<<"a", "p">>, "ap", <<Flag("u"), Optional("address", "ADDRESS")>>),
    Command(<<"s">>, "s", <<Address>>),
    Command(<<"k", "c", "d">>, "kcd", <<Opt(<<"o">>, "output", "STRING"), Arg("file", "STRING")>>),
    Command(<<"r", "o", "o", "t">>, "root", <<>>),
    Command(<<"q", "u", "i", "t">>, "quit", <<>>)>>

commands == MemoryCommands \o KernelCommands \o VirtualMemoryCommands \o SymbolCommands

-----------------------------------------------------------------------------
(* What the handlers read, by index, and what they assert of it.            *)
OptGetOr(option, argument, type) ==
    [get |-> "OPT_GET_OR", option |-> option, argument |-> argument, type |-> type]
OptPresent(letter) ==
    [get |-> "OPT_PRESENT", option |-> <<letter>>, argument |-> "", type |-> "NONE"]
ArgGet(argument, type) ==
    [get |-> "ARG_GET", option |-> ARGUMENT, argument |-> argument, type |-> type]
ArgGetOr(argument, type) ==
    [get |-> "ARG_GET_OR", option |-> ARGUMENT, argument |-> argument, type |-> type]
(* ARG_PRESENT and, when it is, ARG_GET *)
ArgIfPresent(argument, type) ==
    [get |-> "ARG_PRESENT", option |-> OPTIONAL, argument |-> argument, type |-> type]

(* The assertions of the macros for what the parser left of an argument. *)
Asserts(use, a) ==
    CASE use.get = "OPT_PRESENT" -> a.option = use.option
      [] use.get = "OPT_GET_OR" ->
            /\ a.option = use.option /\ a.argument = use.argument
            /\ a.type \in {use.type, "NONE"}
      [] use.get = "ARG_GET" ->
            /\ a.present /\ a.option \in {ARGUMENT, OPTIONAL}
            /\ a.argument = use.argument /\ a.type = use.type
      [] use.get = "ARG_GET_OR" ->
            /\ a.option \in {ARGUMENT, OPTIONAL}
            /\ a.argument = use.argument /\ a.type \in {use.type, "NONE"}
      [] use.get = "ARG_PRESENT" ->
            /\ a.option = OPTIONAL /\ a.argument = use.argument
            /\ a.present => a.type = use.type

UseWidth == OptGetOr(<<>>, "width", "WIDTH")
UseAccess == OptGetOr(<<"x">>, "access", "WIDTH")
UseKext == OptGetOr(<<"b">>, "kext", "STRING")
UseDepth == OptGetOr(<<"d">>, "depth", "UINT")
UseAddress == ArgGet("address", "ADDRESS")

MemoryHandlers == [
    i |-> <<>>,
    r |-> <<UseWidth, OptPresent("d"), OptPresent("f"), OptPresent("p"), UseAccess, UseAddress,
            ArgIfPresent("length", "UINT")>>,
    rb |-> <<OptPresent("f"), OptPresent("p"), UseAccess, UseAddress, ArgGet("length", "UINT")>>,
    ri |-> <<OptPresent("f"), OptPresent("p"), UseAccess, UseAddress, ArgGet("length", "UINT")>>,
    rif |-> <<OptPresent("f"), UseAccess, ArgGet("function", "SYMBOL")>>,
    rs |-> <<OptPresent("f"), OptPresent("p"), UseAccess, UseAddress, ArgGetOr("length", "UINT")>>,
    w |-> <<UseWidth, OptPresent("f"), OptPresent("p"), UseAccess, UseAddress,
            ArgGet("value", "UINT")>>,
    wd |-> <<OptPresent("f"), OptPresent("p"), UseAccess, UseAddress, ArgGet("data", "DATA")>>,
    ws |-> <<OptPresent("f"), OptPresent("p"), UseAccess, UseAddress, ArgGet("string", "STRING")>>,
    f |-> <<UseWidth, OptPresent("p"), OptPresent("h"), OptGetOr(<<"a">>, "align", "WIDTH"),
            UseAccess, ArgGet("value", "UINT"), ArgGetOr("range", "RANGE")>>]

KernelHandlers == [
    fpr |-> <<ArgGet("pid", "INT")>>,
    fc |-> <<UseKext, OptPresent("k"), UseAccess, ArgGet("class", "STRING"),
             ArgGetOr("range", "RANGE")>>,
    kc |-> <<UseWidth, ArgGet("function", "ADDRESS"), ArgGet("args...", "WORDS")>>,
    kcv |-> <<UseWidth, ArgGet("vindex", "UINT"), ArgGet("object", "ADDRESS"),
              ArgGet("args...", "WORDS")>>,
    lc |-> <<UseAddress>>,
    cm |-> <<UseKext, OptPresent("k"), ArgGet("class", "STRING")>>,
    cz |-> <<UseKext, OptPresent("k"), ArgGet("class", "STRING")>>,
    kp |-> <<UseAddress>>,
    kpm |-> <<ArgGet("range", "RANGE")>>,
    zs |-> <<UseAddress>>,
    pca |-> <<OptPresent("v"), UseAddress>>,
    vt |-> <<UseKext, OptPresent("k"), ArgGet("class", "STRING")>>,
    vtl |-> <<UseAddress>>]

OtherHandlers == [
    vm |-> <<UseDepth, UseAddress>>,
    vmm |-> <<UseDepth, ArgGetOr("range", "RANGE")>>,
    vma |-> <<ArgGet("size", "UINT")>>,
    vmd |-> <<UseAddress, ArgIfPresent("size", "UINT")>>,
    vmp |-> <<ArgGet("prot", "STRING"), UseAddress, ArgGetOr("length", "UINT")>>,
    ks |-> <<OptPresent("u"), ArgGetOr("address", "ADDRESS")>>,
    a |-> <<ArgGet("symbol", "SYMBOL")>>,
    ap |-> <<OptPresent("u"), ArgGetOr("address", "ADDRESS")>>,
    s |-> <<UseAddress>>,
    kcd |-> <<OptGetOr(<<"o">>, "output", "STRING"), ArgGet("file", "STRING")>>,
    root |-> <<>>,
    quit |-> <<>>]

Uses(handler) ==
    IF handler \in DOMAIN MemoryHandlers THEN MemoryHandlers[handler]
    ELSE IF handler \in DOMAIN KernelHandlers THEN KernelHandlers[handler]
    ELSE OtherHandlers[handler]

===============================================================================

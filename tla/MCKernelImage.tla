----------------------------- MODULE MCKernelImage -----------------------------
(***************************************************************************)
(* An instance of KernelSlide for TLC.  Two kinds of kernels:              *)
(*  - some whose slide is told and whose symbols are the difficult ones:   *)
(*    two at an address, two with a name, one at the end of its segment,   *)
(*    one outside all segments, entries that are no symbols, none at all;  *)
(*  - some with hardly a symbol whose slide has to be found: on macOS with *)
(*    and without the symbol and the region, with a kernelcache for each   *)
(*    of the three searches and for what each one may run into.            *)
(* Addresses below ten stand in for all: pages have 2, slides are 0, 4, 8. *)
(***************************************************************************)
EXTENDS KernelSlide, TLC

SortedArrays == {<<>>, <<1, 1, 3>>}
SearchedKeys == {0, 1, 2}

Sect(strx, value) == Nlist(strx, "SECT", 1, value)

Text == Segment("__TEXT", 24, 4, 0, 4, {"r", "x"}, <<Section("__text", 24, 4)>>)
Data == Segment("__DATA", 28, 4, 4, 4, {"r", "w"}, <<Section("__data", 28, 2)>>)
Bare == <<Text, Data>>

Difficult ==
    {<<Text, Data, Symtab(<<Sect(3, 29), Nlist(1, "UNDF", 0, 0), Sect(2, 25), Sect(0, 26),
                            Sect(4, 25), Nlist(2, "STAB_SECT", 1, 30)>>, <<1, 2, 3, 4>>)>>,
     <<Text, OtherCommand, Data,
       Symtab(<<Sect(1, 24), Sect(1, 28), Sect(2, 32)>>, <<1, 2>>)>>,
     Append(Bare, Symtab(<<>>, <<>>))}

Asked ==
    {[what |-> "symbol", symbol |-> s, size |-> w] : s \in {1, 2}, w \in BOOLEAN}
    \cup {[what |-> "address", address |-> a] : a \in {24, 25, 28, 32}}
    \cup {[what |-> "add", symbol |-> 5, address |-> a] : a \in {25, 30}}
    \cup {[what |-> "add", symbol |-> 2, address |-> 30], LastSymbolRequest}

-----------------------------------------------------------------------------
(* The running kernels.                                                     *)
NoMemory == [a \in {} |-> 0]
Told ==
    [image |-> Bare, slide |-> 4, dyld_info |-> 4, kernelcache |-> FALSE, regions |-> <<>>,
     heap |-> <<>>, memory |-> NoMemory, before_16_3 |-> FALSE, pointers_good |-> TRUE]

Region(start, end, is_kernel) == [start |-> start, end |-> end, kernel |-> is_kernel]
MacImage == Append(Bare, Symtab(<<Sect(1, 31)>>, <<9>>))
Macos ==
    UNION {{[Told EXCEPT !.image = MacImage, !.dyld_info = d, !.slide = s, !.regions = r] :
               d \in {0, 3},
               r \in {<<>>, <<Region(0, 10, FALSE), Region(24 + s, 32 + s, TRUE)>>,
                      <<Region(20, 30, FALSE)>>}} : s \in {0, 8}}
    \cup {[Told EXCEPT !.dyld_info = 0, !.regions = <<Region(24, 36, TRUE)>>]}

Prelink == Segment("__PRELINK_TEXT", 16, 6, 8, 6, {"r"}, <<>>)
Zone(start, depth, resident) ==
    [start |-> start, end |-> start + 4, zone |-> TRUE, depth |-> depth, writable |-> TRUE,
     resident |-> resident]
Heap == <<[Zone(100, 0, 1) EXCEPT !.zone = FALSE], Zone(110, 0, 0), Zone(120, 0, 2),
          Zone(130, 1, 2), Zone(140, 1, 1)>>

(* The header, a pointer to the zone array and back, pointers on two pages. *)
Memory(slide, header, pointer, back, page1, page2) ==
    (24 + slide :> header) @@ (120 :> pointer) @@ (30 + slide :> back)
    @@ (130 :> page1) @@ (132 :> page2) @@ (140 :> 14 + slide)

Cases(s) ==
    LET with(m, good, old) ==
            [Told EXCEPT !.image = <<Prelink>> \o Bare, !.dyld_info = 0, !.slide = s,
                         !.kernelcache = TRUE, !.before_16_3 = old, !.pointers_good = good,
                         !.regions = <<Region(0, 6, FALSE), Region(14, 60, TRUE)>>,
                         !.heap = Heap, !.memory = m]
    IN {with(Memory(s, KernelHeader, 30 + s, 120, 0, 0), TRUE, FALSE),
        with(Memory(s, KernelHeader, 30 + s, 7, 17 + s, 27 + s), TRUE, FALSE),
        with(Memory(s, KernelHeader, 70, 120, 27 + s, 17 + s), TRUE, TRUE),
        with(Memory(s, KernelHeader, 0, 0, 27 + s, 0), FALSE, TRUE),
        with(Memory(s, KernelHeader, 0, 0, 50, 27 + s), FALSE, FALSE),
        with(Memory(s, KernelHeader, 0, 0, 0, 0), TRUE, TRUE),
        with(Memory(s, Unmapped, 30 + s, 120, 0, 0), TRUE, FALSE),
        with(Memory(s, Unmapped, 0, 0, 17 + s, 0), TRUE, FALSE),
        with(Memory(s, Unmapped, 0, 0, 17 + s, 0), FALSE, TRUE)}

KernelcacheCases ==
    Cases(0) \cup Cases(8)
    \cup {[e EXCEPT !.image = Bare] : e \in {e \in Cases(4) : e.before_16_3}}
    \cup {[e EXCEPT !.regions = <<Region(14, 20, FALSE)>>] :
             e \in {e \in Cases(4) : e.before_16_3}}

RunningKernels == {[Told EXCEPT !.image = i] : i \in Difficult} \cup Macos \cup KernelcacheCases
KernelImages == {e.image : e \in RunningKernels}

-----------------------------------------------------------------------------
(***************************************************************************)
(* The functions of macho.c on images with all pairs of these symbols,     *)
(* with a gap after the text and no section for the end of the data.       *)
(***************************************************************************)
SymbolSets ==
    LET one == {Sect(n, v) : n \in {0, 1, 2}, v \in {24, 26, 29, 31, 33}}
               \cup {Nlist(1, "UNDF", 0, 0), Nlist(2, "ABS", 0, 25)}
    IN {<<a, b>> : a \in one, b \in one}
TestImages ==
    {<<Text, OtherCommand, Prelink, Data, Symtab(nlist, <<3, 4>>)>> : nlist \in SymbolSets}
SymtabOf(m) == m[macho_find_load_command(m, NULL, "SYMTAB")]

(* Sections are found by the number that iterating over all of them gives.  *)
SequencesExtra == INSTANCE SequencesExt
ASSUME SectionsNumbered ==
    \A m \in {Bare, <<Data, OtherCommand, Prelink, Text>>, <<>>} :
        LET segments == SelectSeq(m, LAMBDA lc : lc.cmd = "SEGMENT")
            numbered == SequencesExtra!FlattenSeq([i \in DOMAIN segments |-> segments[i].sections])
        IN \A n \in 0 .. 4 :
              LET at == macho_section_by_index(m, n) IN
                 IF n \in DOMAIN numbered THEN m[at[1]].sections[at[2]] = numbered[n]
                 ELSE at = NULL

(* A section's data lies in the part of the file that its segment maps.     *)
ASSUME DataInSegment ==
    \A lc \in DOMAIN Bare : \A i \in DOMAIN Bare[lc].sections :
        macho_section_data(Bare, lc, i)
            \in Bare[lc].fileoff .. Bare[lc].fileoff + Bare[lc].filesize

(***************************************************************************)
(* What macho_resolve_symbol finds, macho_resolve_address finds there: the *)
(* symbol or one at the same address, at offset 0, and of the same size.   *)
(* No size reaches beyond the next symbol.                                 *)
(***************************************************************************)
ASSUME ResolvedBack ==
    \A m \in TestImages : \A name \in {3, 4} :
        LET st == SymtabOf(m)
            found_symbol == macho_resolve_symbol(m, st, name)
        IN found_symbol.result = "SUCCESS" =>
              LET found_name == macho_resolve_address(m, st, found_symbol.addr) IN
                 /\ found_name.result = "SUCCESS"
                 /\ found_name.offset = 0 /\ found_name.size = found_symbol.size
                 /\ \A i \in DOMAIN st.nlist :
                       st.nlist[i].n_value \notin
                           found_symbol.addr + 1 .. found_symbol.addr + found_symbol.size - 1

(***************************************************************************)
(* The table of symbol_table.c has every name that macho_resolve_symbol     *)
(* finds, at the address at which it finds it.                              *)
(***************************************************************************)
ASSUME TableAgrees ==
    \A m \in TestImages : \A name \in {3, 4} :
        LET st == SymtabOf(m)
            found_symbol == macho_resolve_symbol(m, st, name)
            contents == ImageContents(m)
        IN found_symbol.result = "SUCCESS" =>
              [symbol |-> name, address |-> found_symbol.addr] \in contents.entries

(* The first segment that may be read and has the data is where it is.      *)
ASSUME DataFound ==
    \A m \in {Bare, <<Prelink>> \o Bare} : \A where \in SUBSET {0, 1} : \A sc \in Segments(m) :
        LET occurs == [i \in Segments(m) |-> IF i = sc THEN where ELSE {}]
            address == macho_search_data(m, {"r", "w"}, occurs)
        IN IF where = {} \/ "w" \notin m[sc].initprot THEN address = NO_ADDRESS
           ELSE address = m[sc].vmaddr + Min(where)

(* Only a file that holds its header and its load commands is an image.     *)
ASSUME ValidHolds ==
    \A size, header_size, sizeofcmds \in 0 .. 3 :
        macho_validate("MH_MAGIC_64", size, header_size, sizeofcmds) = "SUCCESS"
            => header_size <= size /\ sizeofcmds <= size

===============================================================================

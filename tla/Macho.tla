--------------------------------- MODULE Macho ---------------------------------
(***************************************************************************)
(* Mach-O images, as macho.c reads them.  An image is a sequence of load   *)
(* commands; a segment command carries its sections, and the symbol table  *)
(* command the symbols and their names.  Pointers to load commands and     *)
(* sections are indices from 1 here, and NULL is 0.                        *)
(*                                                                         *)
(* Names are numbers: strcmp orders them.  A symbol names its string by    *)
(* the index in the string table, which may hold a string twice; the index *)
(* 0 is that of no string.  32-bit and 64-bit images look alike.           *)
(***************************************************************************)
EXTENDS Integers, Sequences, FiniteSetsExt

NULL == 0
NO_ADDRESS == -1   \* the address (uint64_t) -1, above all others

Segment(name, vmaddr, vmsize, fileoff, filesize, initprot, sections) ==
    [cmd |-> "SEGMENT", segname |-> name, vmaddr |-> vmaddr, vmsize |-> vmsize,
     fileoff |-> fileoff, filesize |-> filesize, initprot |-> initprot, sections |-> sections]
Section(name, addr, size) == [sectname |-> name, addr |-> addr, size |-> size]
Symtab(nlist, strings) == [cmd |-> "SYMTAB", nlist |-> nlist, strings |-> strings]
Nlist(strx, type, sect, value) ==
    [n_strx |-> strx, n_type |-> type, n_sect |-> sect, n_value |-> value]
OtherCommand == [cmd |-> "OTHER"]

First(S) == IF S = {} THEN NULL ELSE Min(S)

(* macho_validate: the magic number, then the sizes of the header and of    *)
(* the load commands against that of the file.                              *)
macho_validate(magic, size, header_size, sizeofcmds) ==
    IF magic \in {"MH_MAGIC", "MH_MAGIC_64"} /\ size >= header_size /\ sizeofcmds <= size
    THEN "SUCCESS" ELSE "ERROR"

-----------------------------------------------------------------------------
(* Iteration over load commands, segments and sections.                     *)
macho_find_load_command(macho, lc, cmd) ==
    First({i \in DOMAIN macho : i > lc /\ macho[i].cmd = cmd})

macho_next_segment(macho, sc) == macho_find_load_command(macho, sc, "SEGMENT")

Segments(macho) == {i \in DOMAIN macho : macho[i].cmd = "SEGMENT"}

macho_find_segment(macho, segname) == First({i \in Segments(macho) : macho[i].segname = segname})

macho_find_section(macho, segment, sectname) ==
    First({i \in DOMAIN macho[segment].sections :
              macho[segment].sections[i].sectname = sectname})

(* The base is the address of the segment with the header.                  *)
macho_find_base(macho) ==
    LET sc == First({i \in Segments(macho) : macho[i].fileoff = 0 /\ macho[i].filesize # 0})
    IN IF sc = NULL THEN NO_ADDRESS ELSE macho[sc].vmaddr

macho_segment_containing_address(macho, addr) ==
    First({i \in Segments(macho) :
              macho[i].vmaddr <= addr /\ addr < macho[i].vmaddr + macho[i].vmsize})

macho_section_containing_address(macho, lc, addr) ==
    LET sects == macho[lc].sections
    IN First({i \in DOMAIN sects :
                 sects[i].addr <= addr /\ addr < sects[i].addr + sects[i].size})

(* Sections are numbered from 1 through all segments.                       *)
macho_section_by_index(macho, sect) ==
    LET before(lc) == MapThenSumSet(LAMBDA i : Len(macho[i].sections),
                                    {i \in Segments(macho) : i < lc})
        lc == First({i \in Segments(macho) :
                        /\ before(i) < sect
                        /\ sect <= before(i) + Len(macho[i].sections)})
    IN IF sect < 1 \/ lc = NULL THEN NULL ELSE <<lc, sect - before(lc)>>

(* Where in the file the data of a section is.                              *)
macho_section_data(macho, lc, sect) ==
    macho[lc].fileoff + (macho[lc].sections[sect].addr - macho[lc].vmaddr)

(* The first segment with the protection in which data is found; occurs[sc] *)
(* are the offsets in its part of the file.                                 *)
macho_search_data(macho, minprot, occurs) ==
    LET sc == First({i \in Segments(macho) :
                        minprot \subseteq macho[i].initprot /\ occurs[i] # {}})
    IN IF sc = NULL THEN NO_ADDRESS ELSE macho[sc].vmaddr + Min(occurs[sc])

-----------------------------------------------------------------------------
(* Symbols.                                                                 *)
macho_symtab_string(symtab, strx) ==
    IF strx \in DOMAIN symtab.strings THEN symtab.strings[strx] ELSE NULL

(* The first string of the table that is the name. *)
macho_symtab_string_index(symtab, name) ==
    First({i \in DOMAIN symtab.strings : symtab.strings[i] = name})

(* The symbols macho_for_each_symbol calls back for, by their indices: those *)
(* in a section that have a name and are no debugging entries.              *)
ForEachSymbol(symtab) ==
    {i \in DOMAIN symtab.nlist :
        /\ symtab.nlist[i].n_type = "SECT"
        /\ macho_symtab_string(symtab, symtab.nlist[i].n_strx) # NULL}

(* A debugging entry for something in a section passes for a section symbol *)
(* where only the type bits are looked at.                                  *)
InSection(nl) == nl.n_type \in {"SECT", "STAB_SECT"}

macho_next_symbol(symtab, addr) ==
    LET next == {symtab.nlist[i].n_value : i \in DOMAIN symtab.nlist}
        above == {v \in next : v > addr}
    IN IF above = {} THEN NO_ADDRESS ELSE Min(above)

(* The size is limited by the next symbol, the section and the segment. *)
guess_symbol_size(macho, addr, next) ==
    LET sc == macho_segment_containing_address(macho, addr)
        sect == IF sc = NULL THEN NULL ELSE macho_section_containing_address(macho, sc, addr)
        limits ==
            (IF next = NO_ADDRESS THEN {} ELSE {next})
            \cup (IF sc = NULL THEN {} ELSE {macho[sc].vmaddr + macho[sc].vmsize})
            \cup (IF sect = NULL THEN {}
                  ELSE {macho[sc].sections[sect].addr + macho[sc].sections[sect].size})
    IN IF limits = {} THEN 0 ELSE Min(limits) - addr

macho_guess_symbol_size(macho, symtab, addr) ==
    guess_symbol_size(macho, addr, macho_next_symbol(symtab, addr))

macho_resolve_symbol(macho, symtab, name) ==
    LET strx == macho_symtab_string_index(symtab, name)
        sym == First({i \in DOMAIN symtab.nlist : symtab.nlist[i].n_strx = strx})
    IN CASE strx = NULL \/ sym = NULL -> [result |-> "NOT_FOUND"]
         [] strx # NULL /\ sym # NULL ->
            CASE symtab.nlist[sym].n_type = "UNDF" -> [result |-> "NOT_FOUND"]
              [] InSection(symtab.nlist[sym]) ->
                    [result |-> "SUCCESS", addr |-> symtab.nlist[sym].n_value,
                     size |-> macho_guess_symbol_size(macho, symtab, symtab.nlist[sym].n_value)]
              [] OTHER -> [result |-> "ERROR"]

(* The first of those that are the last at or before the address. *)
macho_resolve_address(macho, symtab, addr) ==
    LET nlist == symtab.nlist
        before == {i \in DOMAIN nlist : InSection(nlist[i]) /\ nlist[i].n_value <= addr}
        sym == First({i \in before : \A j \in before : nlist[j].n_value <= nlist[i].n_value})
    IN CASE sym = NULL -> [result |-> "NOT_FOUND"]
         [] sym # NULL /\ nlist[sym].n_sect = 0 -> [result |-> "ERROR"]
         [] sym # NULL /\ nlist[sym].n_sect # 0 ->
            [result |-> "SUCCESS", name |-> macho_symtab_string(symtab, nlist[sym].n_strx),
             size |-> macho_guess_symbol_size(macho, symtab, nlist[sym].n_value),
             offset |-> addr - nlist[sym].n_value]

===============================================================================

------------------------------ MODULE SymbolTable ------------------------------
(***************************************************************************)
(* symbol_table.c: the symbols of an image in arrays, each with a          *)
(* permutation that sorts it, kept sorted as symbols are added, and        *)
(* searched with binary_search, one turn of its loop at a time.  Any       *)
(* allocation may fail.                                                    *)
(*                                                                         *)
(* The permutations hold indices from 0, as in the code.                   *)
(***************************************************************************)
EXTENDS BinarySearch, Macho, Functions

CONSTANTS
    Images,      \* the Mach-O images
    Requests,    \* bound: what clients ask for
    MaxSymbols   \* bound: the symbols in a table

(* What is read of an image: it has segments, and numbers where they belong. *)
ASSUME ImagesAssumption ==
    \A m \in Images :
        /\ m \in Seq(Range(m)) /\ Segments(m) # {}
        /\ \A i \in Segments(m) : m[i].vmaddr \in Int /\ m[i].vmsize \in Nat
        /\ \A i \in DOMAIN m : m[i].cmd = "SYMTAB" =>
              /\ m[i].nlist \in Seq(Range(m[i].nlist))
              /\ \A k \in DOMAIN m[i].nlist : m[i].nlist[k].n_value \in Int
              /\ \A k \in DOMAIN m[i].strings : m[i].strings[k] \in Int
ASSUME RequestsAssumption ==
    \A r \in Requests :
        \/ r.what = "symbol" /\ r.symbol \in Int /\ r.size \in BOOLEAN
        \/ r.what = "address" /\ r.address \in Int
        \/ r.what = "add" /\ r.symbol \in Int /\ r.address \in Int

VARIABLES
    image,       \* the image of this table
    table,       \* struct symbol_table
    allocated,   \* the arrays that are not NULL
    strings,     \* how many copies of names are allocated
    pc,
    request,
    answer,
    noted        \* locals: the symbol found or collected last, the segment's end

searchVars == <<array, key, left, right, found, index>>
tableVars == <<image, table, allocated, strings, pc, request, answer, noted>>

NotFound == [result |-> "not_found"]
Failure == [result |-> "failed"]
Success == [result |-> "ok"]
Aborted == [result |-> "aborted"]
NoRequest == [what |-> "none"]
NoAnswer == [result |-> "none"]

EmptyTable ==
    [count |-> 0, symbol |-> <<>>, address |-> <<>>, sort_symbol |-> <<>>, sort_address |-> <<>>,
     segment |-> <<>>]
Nothing == [symbol |-> 0, end |-> 0]
Arrays_ == {"symbol", "address", "sort_symbol", "sort_address"}

TableInit ==
    /\ image \in Images
    /\ table = EmptyTable /\ allocated = {} /\ strings = 0
    /\ pc = "none" /\ request = NoRequest /\ answer = NoAnswer /\ noted = Nothing
    /\ array = <<>> /\ key = 0 /\ left = 0 /\ right = -1 /\ found = "no" /\ index = 0

-----------------------------------------------------------------------------
(* symbol_table_init_with_macho                                             *)
symtab == macho_find_load_command(image, NULL, "SYMTAB")
Wanted == ForEachSymbol(image[symtab])
Uncollected == {i \in Wanted : i > noted.symbol}

(* The start and the end of each segment, by its load command.              *)
SegmentBounds ==
    [i \in Segments(image) |-> <<image[i].vmaddr, image[i].vmaddr + image[i].vmsize>>]

CollectSegments ==
    /\ pc = "none"
    /\ \/ /\ table' = [EmptyTable EXCEPT !.segment = SegmentBounds]
          /\ allocated' = {"segment"}
          /\ pc' = IF symtab = NULL THEN "ready" ELSE "allocate"
          /\ answer' = IF symtab = NULL THEN Success ELSE answer
       \/ /\ pc' = "out_of_memory"
          /\ UNCHANGED <<table, allocated, answer>>
    /\ UNCHANGED <<image, strings, request, noted>> /\ UNCHANGED searchVars

AllocateArrays ==
    /\ pc = "allocate"
    /\ \E new \in SUBSET {"symbol", "address"} :
          /\ allocated' = allocated \cup new
          /\ pc' = IF new = {"symbol", "address"} THEN "collect" ELSE "out_of_memory"
    /\ UNCHANGED <<image, table, strings, request, answer, noted>> /\ UNCHANGED searchVars

Name(i) == macho_symtab_string(image[symtab], image[symtab].nlist[i].n_strx)
Value(i) == image[symtab].nlist[i].n_value

collect_symbol ==
    /\ pc = "collect" /\ Uncollected # {}
    /\ \/ /\ table' = [table EXCEPT !.symbol = Append(@, Name(Min(Uncollected))),
                                    !.address = Append(@, Value(Min(Uncollected))),
                                    !.count = @ + 1]
          /\ noted' = [noted EXCEPT !.symbol = Min(Uncollected)]
          /\ strings' = strings + 1
          /\ UNCHANGED pc
       \/ pc' = "out_of_memory" /\ UNCHANGED <<table, strings, noted>>
    /\ UNCHANGED <<image, allocated, request, answer>> /\ UNCHANGED searchVars

(* sort_order: qsort_r leaves equal elements in any order.                  *)
SortOrders(values) ==
    LET n == Len(values)
    IN {order \in [1 .. n -> 0 .. n - 1] :
          IsInjective(order) /\ Sorted([i \in 1 .. n |-> values[order[i] + 1]])}

SortSymbols ==
    /\ pc = "collect" /\ Uncollected = {}
    /\ \E new \in SUBSET {"sort_symbol", "sort_address"} :
          /\ allocated' = allocated \cup new
          /\ \/ /\ new = {"sort_symbol", "sort_address"}
                /\ \E by_name \in SortOrders(table.symbol), by_address \in SortOrders(table.address) :
                      table' = [table EXCEPT !.sort_symbol = by_name, !.sort_address = by_address]
                /\ pc' = "ready" /\ answer' = Success /\ noted' = Nothing
             \/ /\ new # {"sort_symbol", "sort_address"}
                /\ pc' = "out_of_memory"
                /\ UNCHANGED <<table, answer, noted>>
    /\ UNCHANGED <<image, strings, request>> /\ UNCHANGED searchVars

(* A faulty deinit, which forgets the count before it frees the names. *)
DeinitializedCountFirst ==
    /\ table' = EmptyTable /\ allocated' = {} /\ UNCHANGED strings

(* symbol_table_deinit frees the names only if there is an array of them.   *)
Deinitialized ==
    /\ strings' = IF "symbol" \in allocated THEN strings - table.count ELSE strings
    /\ table' = EmptyTable /\ allocated' = {}

OutOfMemory ==
    /\ pc = "out_of_memory"
    /\ Deinitialized
    /\ pc' = "none" /\ answer' = Failure /\ noted' = Nothing
    /\ UNCHANGED <<image, request>> /\ UNCHANGED searchVars

symbol_table_deinit ==
    /\ pc = "ready" /\ answer # Aborted
    /\ Deinitialized
    /\ pc' = "none" /\ answer' = NoAnswer
    /\ UNCHANGED <<image, request, noted>> /\ UNCHANGED searchVars

-----------------------------------------------------------------------------
(* The calls.                                                               *)
Names == [i \in DOMAIN table.sort_symbol |-> table.symbol[table.sort_symbol[i] + 1]]
Addresses == [i \in DOMAIN table.sort_address |-> table.address[table.sort_address[i] + 1]]

StartSearch(values, k, next) ==
    /\ array' = values /\ key' = k
    /\ left' = 0 /\ right' = Len(values) - 1
    /\ found' = "searching" /\ index' = 0
    /\ pc' = next

Return(a) == pc' = "ready" /\ request' = NoRequest /\ answer' = a /\ noted' = Nothing

Ask ==
    /\ pc = "ready" /\ request = NoRequest /\ answer # Aborted
    /\ \E r \in Requests :
          /\ r.what = "add" => table.count < MaxSymbols
          /\ request' = r
          /\ pc' = r.what
    /\ answer' = NoAnswer
    /\ UNCHANGED <<image, table, allocated, strings, noted>> /\ UNCHANGED searchVars

(* find_index_of_symbol *)
FindSymbol ==
    /\ pc \in {"symbol", "add"}
    /\ StartSearch(Names, request.symbol, IF pc = "add" THEN "add_name" ELSE "by_name")
    /\ UNCHANGED <<image, table, allocated, strings, request, answer, noted>>

(* One turn of binary_search *)
SearchStep ==
    /\ pc \in {"by_name", "add_name", "by_address", "add_address", "end"}
    /\ Next
    /\ UNCHANGED tableVars

SegmentOf(address) ==
    First({i \in DOMAIN table.segment :
              table.segment[i][1] <= address /\ address < table.segment[i][2]})
AddressFound == table.address[noted.symbol + 1]

(* symbol_table_resolve_symbol *)
SymbolFound ==
    /\ pc = "by_name" /\ found = "yes"
    /\ noted' = [noted EXCEPT !.symbol = table.sort_symbol[index + 1]]
    /\ pc' = "size"
    /\ UNCHANGED <<image, table, allocated, strings, request, answer>> /\ UNCHANGED searchVars

SymbolNotFound ==
    /\ pc = "by_name" /\ found = "no"
    /\ Return(NotFound)
    /\ UNCHANGED <<image, table, allocated, strings>> /\ UNCHANGED searchVars

NoSizeWanted ==
    /\ pc = "size" /\ ~request.size
    /\ Return([result |-> "ok", address |-> AddressFound, size |-> 0])
    /\ UNCHANGED <<image, table, allocated, strings>> /\ UNCHANGED searchVars

(* assert(found) *)
SizeAborts ==
    /\ pc = "size" /\ request.size /\ SegmentOf(AddressFound) = NULL
    /\ Return(Aborted)
    /\ UNCHANGED <<image, table, allocated, strings>> /\ UNCHANGED searchVars

(* find_symbol_end_address searches for address + 1. *)
FindSymbolEnd ==
    /\ pc = "size" /\ request.size /\ SegmentOf(AddressFound) # NULL
    /\ noted' = [noted EXCEPT !.end = table.segment[SegmentOf(AddressFound)][2]]
    /\ StartSearch(Addresses, AddressFound + 1, "end")
    /\ UNCHANGED <<image, table, allocated, strings, request, answer>>

(* symbol_table_resolve_address *)
NotInSegment ==
    /\ pc = "address" /\ SegmentOf(request.address) = NULL
    /\ Return(NotFound)
    /\ UNCHANGED <<image, table, allocated, strings>> /\ UNCHANGED searchVars

FindAddress ==
    /\ pc = "address" /\ SegmentOf(request.address) # NULL
    /\ noted' = [noted EXCEPT !.end = table.segment[SegmentOf(request.address)][2]]
    /\ StartSearch(Addresses, request.address, "by_address")
    /\ UNCHANGED <<image, table, allocated, strings, request, answer>>

BeforeAllSymbols ==
    /\ pc = "by_address" /\ found = "no" /\ index = 0
    /\ Return(NotFound)
    /\ UNCHANGED <<image, table, allocated, strings>> /\ UNCHANGED searchVars

(* The symbol at the address, or the one before its place. *)
FindEnd ==
    /\ pc = "by_address" /\ found \in {"yes", "no"}
    /\ found = "no" => index > 0
    /\ noted' = [noted EXCEPT !.symbol =
                    table.sort_address[IF found = "yes" THEN index + 1 ELSE index]]
    /\ StartSearch(Addresses, request.address + 1, "end")
    /\ UNCHANGED <<image, table, allocated, strings, request, answer>>

(* A faulty end, that of the last of the symbols at an address. *)
EndWithin ==
    IF found = "yes" THEN Addresses[index + 1]
    ELSE IF index = table.count THEN noted.end ELSE Addresses[index + 1]

(* find_symbol_end_address *)
EndAddress ==
    IF index = table.count THEN noted.end
    ELSE Min({Addresses[index + 1], noted.end})

EndFound ==
    /\ pc = "end" /\ found \in {"yes", "no"}
    /\ Return(IF request.what = "symbol"
              THEN [result |-> "ok", address |-> AddressFound, size |-> EndAddress - AddressFound]
              ELSE [result |-> "ok", symbol |-> table.symbol[noted.symbol + 1],
                    offset |-> request.address - AddressFound, size |-> EndAddress - AddressFound])
    /\ UNCHANGED <<image, table, allocated, strings>> /\ UNCHANGED searchVars

(* symbol_table_add_symbol *)
AlreadyPresent ==
    /\ pc = "add_name" /\ found = "yes"
    /\ Return(Failure)
    /\ UNCHANGED <<image, table, allocated, strings>> /\ UNCHANGED searchVars

(* grow_arrays and strdup; an array that has grown keeps its new size.      *)
AddOutOfMemory ==
    /\ pc = "add_name" /\ found = "no"
    /\ \E new \in {{}, {"symbol"}, {"symbol", "address"}, {"symbol", "address", "sort_symbol"},
                   Arrays_} :
          allocated' = allocated \cup new
    /\ Return(Failure)
    /\ UNCHANGED <<image, table, strings>> /\ UNCHANGED searchVars

(* array_insert *)
InsertedAt(s, i, x) == SubSeq(s, 1, i) \o <<x>> \o SubSeq(s, i + 1, Len(s))

InsertName ==
    /\ pc = "add_name" /\ found = "no"
    /\ allocated' = allocated \cup Arrays_
    /\ strings' = strings + 1
    /\ table' = [table EXCEPT
           !.symbol = Append(@, request.symbol), !.address = Append(@, request.address),
           !.sort_symbol = InsertedAt(@, index, table.count)]
    /\ StartSearch(Addresses, request.address, "add_address")
    /\ UNCHANGED <<image, request, answer, noted>>

(* The count grows last. *)
InsertAddress ==
    /\ pc = "add_address" /\ found \in {"yes", "no"}
    /\ table' = [table EXCEPT !.sort_address = InsertedAt(@, index, table.count),
                              !.count = @ + 1]
    /\ Return(Success)
    /\ UNCHANGED <<image, allocated, strings>> /\ UNCHANGED searchVars

TableNext ==
    \/ AllocateArrays \/ collect_symbol \/ SortSymbols \/ OutOfMemory
    \/ symbol_table_deinit \/ Ask \/ FindSymbol \/ SearchStep
    \/ SymbolFound \/ SymbolNotFound \/ NoSizeWanted \/ SizeAborts \/ FindSymbolEnd
    \/ NotInSegment \/ FindAddress \/ BeforeAllSymbols \/ FindEnd \/ EndFound
    \/ AlreadyPresent \/ AddOutOfMemory \/ InsertName \/ InsertAddress

-----------------------------------------------------------------------------
(* What a table is to its clients.  While an image is read there is none.   *)
Built == pc \notin {"none", "allocate", "collect", "out_of_memory"}
Entries(t) == {[symbol |-> t.symbol[i], address |-> t.address[i]] : i \in 1 .. t.count}
Bounds(t) == {[start |-> t.segment[i][1], end |-> t.segment[i][2]] : i \in DOMAIN t.segment}

ImageContents(macho) ==
    LET st == macho_find_load_command(macho, NULL, "SYMTAB")
        symbols == IF st = NULL THEN {} ELSE ForEachSymbol(macho[st])
    IN [entries |-> {[symbol |-> macho_symtab_string(macho[st], macho[st].nlist[i].n_strx),
                      address |-> macho[st].nlist[i].n_value] : i \in symbols},
        segments |-> {[start |-> macho[i].vmaddr, end |-> macho[i].vmaddr + macho[i].vmsize] :
                         i \in Segments(macho)}]

Map == INSTANCE SymbolMap WITH
    Images <- {ImageContents(m) : m \in Images},
    Requests <- Requests,
    entries <- IF Built THEN Entries(table) ELSE {},
    segments <- IF Built THEN Bounds(table) ELSE {},
    request <- request,
    answer <- answer

(***************************************************************************)
(* The table does what its header promises: the arrays, the permutations   *)
(* and the searches implement a set of names and addresses that is asked   *)
(* and extended in single steps.                                           *)
(***************************************************************************)
Implements == Map!Spec

(***************************************************************************)
(* The table owns one copy of each name that it counts, and no array or    *)
(* name is left when it is given up, whichever allocation failed: only     *)
(* while a symbol is inserted is there one name more.                      *)
(***************************************************************************)
NamesOwned ==
    /\ strings = table.count + (IF pc = "add_address" THEN 1 ELSE 0)
    /\ table.count > 0 => {"symbol", "address"} \subseteq allocated
    /\ pc = "none" => allocated = {}

===============================================================================

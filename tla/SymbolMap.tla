------------------------------- MODULE SymbolMap -------------------------------
(***************************************************************************)
(* What symbol_table.h promises of a symbol table: a set of entries, each  *)
(* a name and an address, that can be asked for a name or for an address   *)
(* and extended by an entry with a new name.  SymbolTable implements it.   *)
(*                                                                         *)
(* A name that the image defines twice may be found at either address.     *)
(***************************************************************************)
EXTENDS Integers, FiniteSetsExt

CONSTANTS
    Images,     \* the images: sets of entries and of segments
    Requests    \* bound: what may be asked

VARIABLES entries, segments, request, answer

vars == <<entries, segments, request, answer>>

NotFound == [result |-> "not_found"]
Failure == [result |-> "failed"]
Success == [result |-> "ok"]
Aborted == [result |-> "aborted"]
NoRequest == [what |-> "none"]
NoAnswer == [result |-> "none"]

Containing(address) == {s \in segments : s.start <= address /\ address < s.end}

(* A symbol ends where the next one starts, or with its segment.            *)
Ends(address) ==
    {Min({s.end} \cup {e.address : e \in {f \in entries : f.address > address}}) :
        s \in Containing(address)}

SymbolAnswers(r) ==
    LET named == {e \in entries : e.symbol = r.symbol}
    IN IF named = {} THEN {NotFound}
       ELSE UNION {CASE ~r.size -> {[result |-> "ok", address |-> e.address, size |-> 0]}
                     [] r.size /\ Containing(e.address) = {} -> {Aborted}
                     [] r.size /\ Containing(e.address) # {} ->
                           {[result |-> "ok", address |-> e.address, size |-> end - e.address] :
                               end \in Ends(e.address)} : e \in named}

(* The symbol at or before the address, wherever its segment ends.          *)
AddressAnswers(r) ==
    LET before == {e \in entries : e.address <= r.address}
        last == {e \in before : \A f \in before : f.address <= e.address}
    IN IF Containing(r.address) = {} \/ before = {} THEN {NotFound}
       ELSE {[result |-> "ok", symbol |-> e.symbol, offset |-> r.address - e.address,
              size |-> end - e.address] : e \in last, end \in Ends(r.address)}

-----------------------------------------------------------------------------
Init ==
    /\ entries = {} /\ segments = {}
    /\ request = NoRequest /\ answer = NoAnswer

(* symbol_table_init_with_macho and symbol_table_deinit *)
Load ==
    /\ request = NoRequest /\ segments = {}
    /\ \E image \in Images :
          entries' = image.entries /\ segments' = image.segments /\ image.segments # {}
    /\ answer' = Success
    /\ UNCHANGED request

LoadFails ==
    /\ request = NoRequest /\ segments = {}
    /\ answer' = Failure
    /\ UNCHANGED <<entries, segments, request>>

Unload ==
    /\ request = NoRequest /\ segments # {}
    /\ entries' = {} /\ segments' = {} /\ answer' = NoAnswer
    /\ UNCHANGED request

Ask ==
    /\ request = NoRequest /\ segments # {} /\ answer # Aborted
    /\ request' \in Requests /\ answer' = NoAnswer
    /\ UNCHANGED <<entries, segments>>

AnswerQuestion ==
    /\ \/ request.what = "symbol" /\ answer' \in SymbolAnswers(request)
       \/ request.what = "address" /\ answer' \in AddressAnswers(request)
    /\ request' = NoRequest
    /\ UNCHANGED <<entries, segments>>

(* symbol_table_add_symbol, which may run out of memory *)
AddSymbol ==
    /\ request.what = "add"
    /\ \E new \in {e \in {[symbol |-> request.symbol, address |-> request.address]} :
                      \A f \in entries : f.symbol # e.symbol} :
          entries' = entries \cup {new}
    /\ answer' = Success /\ request' = NoRequest
    /\ UNCHANGED segments

RefuseSymbol ==
    /\ request.what = "add"
    /\ answer' = Failure /\ request' = NoRequest
    /\ UNCHANGED <<entries, segments>>

Next ==
    \/ Load \/ LoadFails \/ Unload \/ Ask \/ AnswerQuestion \/ AddSymbol \/ RefuseSymbol

Spec == Init /\ [][Next]_vars

===============================================================================

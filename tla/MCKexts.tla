------------------------------- MODULE MCKexts -------------------------------
(***************************************************************************)
(* Two bundle IDs and two bases, one slide apart from each other, so that  *)
(* the address belongs to one kext without the slide and to another with it*)
(***************************************************************************)
EXTENDS Kexts, TLC

MCBuilds == {"macos", "kernelcache"}
MCIds == {1, 2}
MCLoads == {2, 4}
MCSlides == {0, 2}
MCAddresses == {5}
MCSymmetry == Permutations(Slots)

-----------------------------------------------------------------------------
(***************************************************************************)
(* The kernelcache that kexts are read from, for every kind of file and    *)
(* for a layout with a kext that has a segment outside its executable, one *)
(* with nothing but its executable and one with no executable at all.      *)
(***************************************************************************)
KCache == INSTANCE Kernelcache

(* Initialization owns the data if and only if it succeeds; a failed one    *)
(* leaves nothing but prelink information that is not a dictionary.         *)
ASSUME FilesOwned ==
    \A file \in KCache!Files, memory \in BOOLEAN :
       /\ LET result == KCache!kernelcache_init_file(file, memory)
          IN result.allocated = IF result.kr = "SUCCESS" THEN {"data"} ELSE {}
       /\ LET result == KCache!kernel_init_kernelcache(file, memory)
          IN IF result.kr = "SUCCESS" THEN result.allocated = {"data", "info"}
             ELSE result.allocated \subseteq {"lost info"}

OneSegment(vmaddr, vmsize) == KCache!Segment(1, vmaddr, vmsize, 0, vmsize, 5, <<>>)
Cache == [text |-> KCache!Range64(10, 4), prelinkText |-> KCache!Range64(20, 8),
          kernel |-> <<OneSegment(10, 4), OneSegment(20, 8), OneSegment(30, 4)>>,
          kexts |-> <<[id |-> 1, base |-> 0, size |-> 0], [id |-> 2, base |-> 20, size |-> 3],
                      [id |-> 3, base |-> 24, size |-> 2]>>,
          images |-> [a \in 20 .. 27 |->
              IF a = 20 THEN <<OneSegment(20, 3), OneSegment(31, 2)>>
              ELSE IF a = 24 THEN <<OneSegment(24, 2)>> ELSE <<>>]]
Owner(address) == KCache!kernelcache_find_containing_address(Cache, address)

(* The kext that an address is found in has it, and the kernel is found for *)
(* an address of its own only; every kext that is found can be opened.      *)
ASSUME OwnersFound ==
    \A address \in 0 .. 40 :
       /\ Owner(address).kr = "SUCCESS" <=>
             address \in (10 .. 13) \cup (20 .. 27) \cup (30 .. 33)
       /\ Owner(address).kr = "SUCCESS" => Owner(address).id =
             IF address \in (20 .. 22) \cup (31 .. 32) THEN 2
             ELSE IF address \in 24 .. 25 THEN 3 ELSE KCache!KERNEL_ID
ASSUME OwnersOpen ==
    \A id0 \in 0 .. 4 : KCache!kernelcache_kext_init_macho(Cache, id0).kr =
        IF id0 \in {1, 4} THEN "NO_KEXT" ELSE "SUCCESS"

=============================================================================

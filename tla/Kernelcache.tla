----------------------------- MODULE Kernelcache -----------------------------
(***************************************************************************)
(* The kernelcache of libmemctl/kernelcache.c: how a file becomes a        *)
(* kernelcache, what memory that takes and gives back, and how kexts are   *)
(* found in it by their ID and by an address.                              *)
(*                                                                         *)
(* A file is a record of what the code tells files apart by; its contents, *)
(* the compression schemes and the XML of the prelink information are left *)
(* out.  A result says what the function returns and what is allocated     *)
(* when it does: the data, the parsed info.                                *)
(***************************************************************************)
EXTENDS Macho, SequencesExt

Files == [mapped : BOOLEAN, small : BOOLEAN, im4p : BOOLEAN,
          complzss : {"absent", "no data", "corrupt", "intact"},
          lzfse : BOOLEAN, unpackedSmall : BOOLEAN,
          image : {"macho", "fat", "fat of many", "other"},
          info : {"no segment", "no section", "unparsable", "no dictionary", "dictionary"},
          text : {"missing", "no header", "found"}, prelinkText : BOOLEAN]

Result(kr, allocated) == [kr |-> kr, allocated |-> allocated]

-----------------------------------------------------------------------------
(* Each scheme answers whether the file is of its kind; the data is NULL if *)
(* it could not be decompressed.                                            *)

kernelcache_decompress_complzss(file, memory) ==
    [compressed |-> file.complzss # "absent",
     data |-> IF file.complzss = "intact" /\ memory THEN {"data"} ELSE {}]

(* The buffer grows until the data fits.                                    *)
kernelcache_init_decompress_lzfse(file, memory) ==
    [compressed |-> file.lzfse, data |-> IF file.lzfse /\ memory THEN {"data"} ELSE {}]

kernelcache_decompress(file, memory) ==
    CASE file.small \/ ~file.im4p -> [compressed |-> FALSE, data |-> {}]
      [] kernelcache_decompress_complzss(file, memory).compressed ->
            kernelcache_decompress_complzss(file, memory)
      [] OTHER -> kernelcache_init_decompress_lzfse(file, memory)

(* A FAT file with one architecture is taken as it is, another Mach-O is    *)
(* validated.                                                               *)
kernelcache_get_kernel(file) ==
    file.image = "fat" \/ file.image = "macho"

(* On failure kernelcache_deinit frees the data.                            *)
kernelcache_init_uncompressed(file, data) ==
    IF kernelcache_get_kernel(file) THEN Result("SUCCESS", data) ELSE Result("ERROR", {})

kernelcache_init(file, memory) ==
    LET unpacked == kernelcache_decompress(file, memory)
        data == IF unpacked.compressed THEN unpacked.data
                ELSE IF memory THEN {"data"} ELSE {}
        small == IF unpacked.compressed THEN file.unpackedSmall ELSE file.small
    IN IF data = {} \/ small THEN Result("ERROR", {})
       ELSE kernelcache_init_uncompressed(file, data)

(* The mapping of the file is taken back whatever happens.                  *)
kernelcache_init_file(file, memory) ==
    IF file.mapped THEN kernelcache_init(file, memory) ELSE Result("ERROR", {})

(* Information that is no dictionary is neither kept nor released.          *)
kernelcache_parse_prelink_info(file) ==
    Result(IF file.info = "dictionary" THEN "SUCCESS" ELSE "ERROR",
           IF file.info = "dictionary" THEN {"info"}
           ELSE IF file.info = "no dictionary" THEN {"lost info"} ELSE {})

kernelcache_find_text(file) == IF file.text = "found" THEN "SUCCESS" ELSE "ERROR"
kernelcache_find_prelink_text(file) == IF file.prelinkText THEN "SUCCESS" ELSE "ERROR"

kernelcache_process(file) ==
    LET info == kernelcache_parse_prelink_info(file)
        found == {kernelcache_find_text(file), kernelcache_find_prelink_text(file)}
    IN Result(IF info.kr = "SUCCESS" /\ found = {"SUCCESS"} THEN "SUCCESS" ELSE "ERROR",
              info.allocated)

(* What kernelcache_deinit frees.                                           *)
kernelcache_deinit(allocated) == allocated \ {"data", "info"}

kernel_init_kernelcache(file, memory) ==
    LET opened == kernelcache_init_file(file, memory)
        processed == kernelcache_process(file)
        allocated == opened.allocated \cup processed.allocated
    IN IF opened.kr # "SUCCESS" THEN opened
       ELSE IF processed.kr = "SUCCESS" THEN Result("SUCCESS", allocated)
       ELSE Result("ERROR", kernelcache_deinit(allocated))

-----------------------------------------------------------------------------
(***************************************************************************)
(* A kernelcache that was initialized: the kernel with its text and the    *)
(* prelinked text as ranges, the kexts in their order, and the Mach-O      *)
(* image at an address of the prelinked text, <<>> where there is none.    *)
(* A kext without an executable has the base 0.                            *)
(***************************************************************************)
Range64(vmaddr, vmsize) == [vmaddr |-> vmaddr, vmsize |-> vmsize]
InRange(address, range) ==
    range.vmaddr <= address /\ address < range.vmaddr + range.vmsize

KERNEL_ID == 0
KernelInfo(kc) == [id |-> KERNEL_ID, base |-> kc.text.vmaddr, size |-> kc.text.vmsize]

kernelcache_kext_init_macho_at_address(kc, base) ==
    CASE base = kc.text.vmaddr -> [kr |-> "SUCCESS", macho |-> kc.kernel]
      [] base # kc.text.vmaddr /\ InRange(base, kc.prelinkText) /\ kc.images[base] # <<>> ->
            [kr |-> "SUCCESS", macho |-> kc.images[base]]
      [] OTHER -> [kr |-> "NO_KEXT", macho |-> <<>>]

(* kernelcache_for_each: the kernel, then its kexts. *)
ForEach(kc) == <<KernelInfo(kc)>> \o kc.kexts

kernelcache_get_address(kc, bundle_id) ==
    LET hits == {i \in DOMAIN ForEach(kc) : ForEach(kc)[i].id = bundle_id}
        base == IF hits = {} THEN 0 ELSE ForEach(kc)[Min(hits)].base
    IN [kr |-> IF base = 0 THEN "NO_KEXT" ELSE "SUCCESS", base |-> base]

(* The executable, or else the segments that its Mach-O image names.        *)
kernelcache_find_containing_address_callback(kc, address, info) ==
    \/ InRange(address, Range64(info.base, info.size))
    \/ LET init == kernelcache_kext_init_macho_at_address(kc, info.base)
       IN init.kr = "SUCCESS" /\ macho_segment_containing_address(init.macho, address) # NULL

(* The kernel last: its segments contain those of all prelinked kexts.      *)
kernelcache_find_containing_address(kc, address) ==
    LET order == Append(kc.kexts, KernelInfo(kc))
        hits == {i \in DOMAIN order :
                    kernelcache_find_containing_address_callback(kc, address, order[i])}
    IN IF hits = {} THEN [kr |-> "NO_KEXT", id |-> KERNEL_ID]
       ELSE [kr |-> "SUCCESS", id |-> order[Min(hits)].id]

kernelcache_kext_init_macho(kc, bundle_id) ==
    LET found == kernelcache_get_address(kc, bundle_id)
    IN IF found.kr = "SUCCESS" THEN kernelcache_kext_init_macho_at_address(kc, found.base)
       ELSE [kr |-> "NO_KEXT", macho |-> <<>>]

=============================================================================

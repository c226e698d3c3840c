----------------------------- MODULE Disassembler -----------------------------
(***************************************************************************)
(* The instruction decoders of arm64/disasm.c.  An instruction word is the *)
(* record of its fields, named as in the diagrams of that file; which bits *)
(* they occupy is left out.  A decoder returns the struct of disasm.h, or  *)
(* Undecoded where it returns false.                                       *)
(*                                                                         *)
(* The processor is scaled: X registers have XBITS bits, W registers half  *)
(* of them, and there are GPREGS general-purpose registers and SP.         *)
(***************************************************************************)
EXTENDS Integers, FiniteSetsExt

CONSTANTS XBITS, GPREGS

ASSUME ScaleAssumption == XBITS \in {16, 32, 64} /\ GPREGS \in Nat \ {0}

AARCH64_INSTRUCTION_SIZE == 4

Modulus == 2 ^ XBITS
WBITS == XBITS \div 2
Byte == XBITS \div 8
Undecoded == [type |-> "undecoded"]

SP == GPREGS      \* the number that is SP or ZR
USE_ZR == TRUE
USE_SP == FALSE

(* The size of a register, and whether it is ZR rather than SP.             *)
gpreg(reg, sf, zrsp) ==
    [id |-> reg, size |-> IF sf THEN XBITS ELSE WBITS, zr |-> zrsp /\ reg = SP]

gpreg_is_zrsp(reg) == reg.id = SP

(* The extension types are numbers, as in disasm.h; LSL is a flag of them.  *)
EXTEND_UXTW == 2
EXTEND_UXTX == 3
EXTEND_LSL == 8

-----------------------------------------------------------------------------
(* Data processing.                                                         *)
aarch64_decode_adc(f) ==
    [type |-> "adc", adc |-> ~f.op, setflags |-> f.S,
     Rd |-> gpreg(f.Rd, f.sf, USE_ZR), Rn |-> gpreg(f.Rn, f.sf, USE_ZR),
     Rm |-> gpreg(f.Rm, f.sf, USE_ZR)]

aarch64_decode_add_xr(f) ==
    LET Rd == gpreg(f.Rd, f.sf, IF f.S THEN USE_ZR ELSE USE_SP)
        Rn == gpreg(f.Rn, f.sf, USE_SP)
        plain == /\ (~f.S /\ gpreg_is_zrsp(Rd)) \/ gpreg_is_zrsp(Rn)
                 /\ f.option = IF f.sf THEN EXTEND_UXTX ELSE EXTEND_UXTW
    IN IF f.imm3 > 4 THEN Undecoded
       ELSE [type |-> "add_xr", add |-> ~f.op, setflags |-> f.S, Rd |-> Rd, Rn |-> Rn,
             Rm |-> gpreg(f.Rm, f.option % 4 = 3, USE_ZR),
             extend |-> f.option + IF plain THEN EXTEND_LSL ELSE 0, amount |-> f.imm3]

aarch64_decode_add_im(f) ==
    IF f.shift > 1 THEN Undecoded
    ELSE [type |-> "add_im", add |-> ~f.op, setflags |-> f.S,
          Rd |-> gpreg(f.Rd, f.sf, IF f.S THEN USE_ZR ELSE USE_SP),
          Rn |-> gpreg(f.Rn, f.sf, USE_SP), imm |-> f.imm, shift |-> 12 * f.shift]

aarch64_decode_add_sr(f) ==
    IF f.shift = "ROR" \/ (~f.sf /\ f.amount >= WBITS) THEN Undecoded
    ELSE [type |-> "add_sr", add |-> ~f.op, setflags |-> f.S,
          Rd |-> gpreg(f.Rd, f.sf, USE_ZR), Rn |-> gpreg(f.Rn, f.sf, USE_ZR),
          Rm |-> gpreg(f.Rm, f.sf, USE_ZR), shift |-> f.shift, amount |-> f.amount]

(* opc is 0 for AND, 1 for ORR, 2 for EOR, 3 for ANDS. *)
Logical(opc) == [and |-> opc \in {0, 3}, or |-> opc = 1, xor |-> opc = 2, setflags |-> opc = 3]

(* The immediates are sets of bits here, of a processor that is not scaled: *)
(* a run of S + 1 ones, rotated right by R, in elements of 2^len bits.       *)
replicate(x, m, n) == {b + m * c : b \in x, c \in 0 .. (n \div m) - 1}

hibit_pos(bits) == IF bits = {} THEN -1 ELSE Max(bits)

decode_bit_masks(sf, N, imms, immr) ==
    LET ones == {b \in 0 .. 5 : (imms \div 2^b) % 2 = 0}
        len == hibit_pos(ones \cup IF N THEN {6} ELSE {})
        esize == 2 ^ len
        S == imms % esize
        R == immr % esize
    IN IF len < 1 \/ S = esize - 1 THEN {}
       ELSE replicate({(b - R) % esize : b \in 0 .. S}, esize, IF sf THEN 64 ELSE 32)

(* The value of the immediate is given; the masks are what it may be.       *)
aarch64_decode_and_im(f) ==
    IF ~f.sf /\ f.imm >= 2 ^ WBITS THEN Undecoded
    ELSE [type |-> "and_im", Rd |-> gpreg(f.Rd, f.sf, IF f.opc = 3 THEN USE_ZR ELSE USE_SP),
          Rn |-> gpreg(f.Rn, f.sf, USE_ZR), imm |-> f.imm, logical |-> Logical(f.opc)]

aarch64_decode_and_sr(f) ==
    IF ~f.sf /\ f.amount >= WBITS THEN Undecoded
    ELSE [type |-> "and_sr", not |-> f.N, Rd |-> gpreg(f.Rd, f.sf, USE_ZR),
          Rn |-> gpreg(f.Rn, f.sf, USE_ZR), Rm |-> gpreg(f.Rm, f.sf, USE_ZR),
          shift |-> f.shift, amount |-> f.amount, logical |-> Logical(f.opc)]

(* opc is 0 for MOVN, 2 for MOVZ, 3 for MOVK; hw counts quarters of X.      *)
aarch64_decode_mov(f) ==
    IF f.opc = 1 \/ (~f.sf /\ f.hw > 1) THEN Undecoded
    ELSE [type |-> "mov", k |-> f.opc = 3, n |-> f.opc = 0, z |-> f.opc = 2,
          Rd |-> gpreg(f.Rd, f.sf, USE_ZR), imm |-> f.imm, shift |-> (XBITS \div 4) * f.hw]

(* ADRP counts pages; imm is what is added in either case.                  *)
PageShift == XBITS \div 4
aarch64_decode_adr(f, pc) ==
    LET page == IF f.op THEN 2 ^ PageShift ELSE 1
    IN [type |-> "adr", adrp |-> f.op, Xd |-> gpreg(f.Rd, TRUE, USE_ZR),
        label |-> (pc - (pc % page) + f.imm * page) % Modulus]

-----------------------------------------------------------------------------
(* Branches.  Offsets count instructions.                                   *)
Offset(pc, imm) == (pc + imm * AARCH64_INSTRUCTION_SIZE) % Modulus

aarch64_decode_b(f, pc) ==
    [type |-> "b", link |-> f.op, label |-> Offset(pc, f.imm)]

aarch64_decode_br(f) ==
    IF f.op = 3 THEN Undecoded
    ELSE [type |-> "br", ret |-> f.op = 2, link |-> f.op = 1, Xn |-> gpreg(f.Rn, TRUE, USE_ZR)]

aarch64_decode_cbz(f, pc) ==
    [type |-> "cbz", n |-> f.op, Rt |-> gpreg(f.Rt, f.sf, USE_ZR), label |-> Offset(pc, f.imm)]

-----------------------------------------------------------------------------
(* Loads and stores.  ix is 0 for the non-temporal form, 1 for post-index,  *)
(* 2 for an offset, 3 for pre-index.                                        *)
aarch64_decode_ldp(f) ==
    LET size == IF f.sf THEN 3 ELSE 2
    IN IF f.sw /\ (f.sf \/ f.ix = 0 \/ ~f.L) THEN Undecoded
       ELSE [type |-> "ldp", load |-> f.L, size |-> size, wb |-> f.ix % 2 = 1,
             post |-> f.ix = 1, sign |-> f.sw, nt |-> f.ix = 0,
             Rt1 |-> gpreg(f.Rt1, f.sf \/ f.sw, USE_ZR), Rt2 |-> gpreg(f.Rt2, f.sf \/ f.sw, USE_ZR),
             Xn |-> gpreg(f.Rn, TRUE, USE_SP), imm |-> f.imm * 2 ^ size]

(* What the single loads and stores share; opc is 0 for a store, 1 for a    *)
(* load, 2 and 3 for a load with sign extension.                            *)
decode_ldr_common(f) ==
    [ok |-> ~((f.opc >= 2 /\ f.size = 3) \/ (f.opc = 3 /\ f.size = 2)),
     size |-> f.size, sign |-> f.opc >= 2, load |-> f.opc # 0,
     Rt |-> gpreg(f.Rt, f.size = 3 \/ f.opc = 2, USE_ZR), Xn |-> gpreg(f.Rn, TRUE, USE_SP)]

(* A struct aarch64_ins_ldr_im. *)
LdrIm(c, wb, post, imm) ==
    IF ~c.ok THEN Undecoded
    ELSE [type |-> "ldr_im", load |-> c.load, size |-> c.size, wb |-> wb, post |-> post,
          sign |-> c.sign, Rt |-> c.Rt, Xn |-> c.Xn, imm |-> imm]

aarch64_decode_ldr_ix(f) == LdrIm(decode_ldr_common(f), TRUE, f.post, f.imm)

aarch64_decode_ldr_ui(f) == LdrIm(decode_ldr_common(f), FALSE, FALSE, f.imm * 2 ^ f.size)

aarch64_decode_ldr_r(f) ==
    LET c == decode_ldr_common(f)
    IN IF ~c.ok \/ (f.option \div 2) % 2 = 0 THEN Undecoded
       ELSE [type |-> "ldr_r", load |-> c.load, size |-> c.size, sign |-> c.sign, Rt |-> c.Rt,
             Xn |-> c.Xn, Rm |-> gpreg(f.Rm, f.option % 2 = 1, USE_ZR),
             extend |-> f.option + IF f.option = EXTEND_UXTX THEN EXTEND_LSL ELSE 0,
             amount |-> IF f.S THEN f.size ELSE 0]

aarch64_decode_ldr_lit(f, pc) ==
    LET sf == f.opc % 2 = 1
    IN IF f.opc = 3 THEN Undecoded
       ELSE [type |-> "ldr_lit", load |-> TRUE, size |-> IF sf THEN 3 ELSE 2, sign |-> f.opc = 2,
             Rt |-> gpreg(f.Rt, sf \/ f.opc = 2, USE_ZR), label |-> Offset(pc, f.imm)]

(* The instruction at an address, by the decoder that accepts its class.    *)
Decode(f, pc) ==
    CASE f.class = "adc"     -> aarch64_decode_adc(f)
      [] f.class = "add_xr"  -> aarch64_decode_add_xr(f)
      [] f.class = "add_im"  -> aarch64_decode_add_im(f)
      [] f.class = "add_sr"  -> aarch64_decode_add_sr(f)
      [] f.class = "adr"     -> aarch64_decode_adr(f, pc)
      [] f.class = "and_im"  -> aarch64_decode_and_im(f)
      [] f.class = "and_sr"  -> aarch64_decode_and_sr(f)
      [] f.class = "b"       -> aarch64_decode_b(f, pc)
      [] f.class = "br"      -> aarch64_decode_br(f)
      [] f.class = "cbz"     -> aarch64_decode_cbz(f, pc)
      [] f.class = "ldp"     -> aarch64_decode_ldp(f)
      [] f.class = "ldr_ix"  -> aarch64_decode_ldr_ix(f)
      [] f.class = "ldr_ui"  -> aarch64_decode_ldr_ui(f)
      [] f.class = "ldr_lit" -> aarch64_decode_ldr_lit(f, pc)
      [] f.class = "ldr_r"   -> aarch64_decode_ldr_r(f)
      [] f.class = "mov"     -> aarch64_decode_mov(f)
      [] f.class = "nop"     -> [type |-> "nop"]
      [] OTHER               -> Undecoded
===============================================================================

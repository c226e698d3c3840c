------------------------------- MODULE Simulator -------------------------------
(***************************************************************************)
(* The arm64 simulator of arm64/sim.c: registers whose values carry taints *)
(* that say where they come from, and what each decoded instruction does   *)
(* to them.  The client's callbacks are the client's: what memory_load     *)
(* returns is passed in, and the branch an instruction asks for comes out. *)
(*                                                                         *)
(* Values are modulo 2 ^ XBITS and X registers have XBITS bits, so that    *)
(* what the code does to the upper half of a W register is seen.           *)
(***************************************************************************)
EXTENDS Disassembler
LOCAL INSTANCE Bitwise

CONSTANTS Weak, taint_default   \* the weak taints; the client's table

Zeros == [n \in {"N", "Z", "C", "V"} |-> 0]

-----------------------------------------------------------------------------
(* Bits.                                                                    *)
Inverted(x) == Modulus - 1 - x
ones(n) == 2 ^ n - 1

(* The low hi + 1 bits, extended and shifted.                               *)
bext(x, sign, hi, shift) ==
    LET low == x % 2 ^ (hi + 1)
        value == IF sign /\ low >= 2 ^ hi THEN low - 2 ^ (hi + 1) ELSE low
    IN (value * 2 ^ shift) % Modulus

sign_extend(x, len) == bext(x, TRUE, len, 0)

lsl(x, shift, width) ==
    IF shift >= width THEN 0 ELSE (x % 2 ^ (width - shift)) * 2 ^ shift
lsr(x, shift) == x \div 2 ^ shift

(* The macro shifts what it is given, which is unsigned here: no sign comes *)
(* in at the top.                                                           *)
asr(x, shift, width) == (x % 2 ^ width) \div 2 ^ shift

ror(x, shift, width) ==
    LET s == shift % width
    IN lsl(x, width - s, width) | lsr(x, s)

-----------------------------------------------------------------------------
(* Taints: the meet keeps the weak ones of both and the strong ones of any. *)
AARCH64_SIM_TAINT_TOP == [t_and |-> Weak, t_or |-> {}]

aarch64_sim_taint_meet_with(a, b) ==
    [t_and |-> a.t_and \cap b.t_and, t_or |-> a.t_or \cup b.t_or]

Meet(taints) ==
    [t_and |-> {w \in Weak : \A t \in taints : w \in t.t_and},
     t_or |-> UNION {t.t_or : t \in taints}]

Word(value, taint) == [value |-> value, taint |-> taint]

aarch64_sim_word_clear == Word(0, taint_default["UNKNOWN"])
aarch64_sim_pstate_clear == [pstate |-> Zeros, taint_nzcv |-> taint_default["UNKNOWN"]]

aarch64_sim_clear(sim) ==
    [sim EXCEPT !.instruction = aarch64_sim_word_clear.taint, !.PC = aarch64_sim_word_clear,
                !.X = [r \in 0 .. GPREGS - 1 |-> aarch64_sim_word_clear],
                !.SP = aarch64_sim_word_clear, !.PSTATE = aarch64_sim_pstate_clear]

-----------------------------------------------------------------------------
(* Registers.                                                               *)
gpreg_word_(sim, reg) == IF reg.id = SP THEN sim.SP ELSE sim.X[reg.id]

(* 2 << 31 and 2 << 63 leave nothing in an int: less one, all bits are set, *)
(* for a W register as for an X register, and the mask takes nothing away.  *)
gpreg_masked(value) == value % Modulus

gpreg_get_(sim, reg) ==
    IF reg.zr THEN Word(0, taint_default["CONSTANT"])
    ELSE LET word == gpreg_word_(sim, reg) IN Word(gpreg_masked(word.value), word.taint)

gpreg_set_(sim, reg, value, taint) ==
    LET word == Word(gpreg_masked(value), taint)
    IN IF reg.zr THEN sim
       ELSE IF reg.id = SP THEN [sim EXCEPT !.SP = word]
       ELSE [sim EXCEPT !.X[reg.id] = word]

(* The length of the extension, in bytes, is used as one in bits.           *)
gpreg_get_extend_(sim, reg, extend, shift) ==
    LET word == gpreg_get_(sim, reg)
        length == 2 ^ (extend % 4)
    IN Word(bext(word.value, (extend \div 4) % 2 = 1, length - 1, shift),
            word.taint)

gpreg_get_shift_(sim, reg, shift, amount) ==
    LET word == gpreg_get_(sim, reg)
        value == CASE shift = "LSL" -> lsl(word.value, amount, reg.size)
                   [] shift = "LSR" -> lsr(word.value, amount)
                   [] shift = "ASR" -> asr(word.value, amount, reg.size)
                   [] shift = "ROR" -> ror(word.value, amount, reg.size)
    IN Word(value, word.taint)

(* The flags take a taint that meets the one they had. *)
pstate_set_(sim, nzcv, taint) ==
    [sim EXCEPT !.PSTATE = [pstate |-> nzcv,
                            taint_nzcv |-> aarch64_sim_taint_meet_with(@.taint_nzcv, taint)]]

-----------------------------------------------------------------------------
(* Arithmetic and logic.                                                    *)
Bit(condition) == IF condition THEN 1 ELSE 0
Negative(x) == x >= Modulus \div 2

add_with_carry(x, y, c) ==
    LET sum == x + y + c
        r == sum % Modulus
        r_hi == Bit(sum >= Modulus) - Bit(Negative(x)) - Bit(Negative(y))
    IN [result |-> r,
        nzcv |-> [N |-> Bit(Negative(r)), Z |-> Bit(r = 0), C |-> Bit(sum >= Modulus),
                  V |-> Bit(r_hi # -Bit(Negative(r)))]]

make_nzcv(result) ==
    [Zeros EXCEPT !["N"] = Bit(Negative(result)), !["Z"] = Bit(result = 0)]

(* The taint of a result: that of the instruction and of all its sources.   *)
TaintOf(sim, sources) == Meet({sim.instruction} \cup {s.taint : s \in sources})

(* The second operand is inverted to subtract; then the carry is 1, or the  *)
(* C flag for ADC and SBC, which is a source.                               *)
AddTo(sim, d, op1, op2, subtract, carry) ==
    LET taint == TaintOf(sim, {op1, op2, carry})
        sum == add_with_carry(op1.value, IF subtract THEN Inverted(op2.value) ELSE op2.value,
                              carry.value)
        flagged == IF d.setflags THEN pstate_set_(sim, sum.nzcv, taint) ELSE sim
    IN gpreg_set_(flagged, d.Rd, sum.result, taint)

(* A carry that comes from no register has the instruction's taint. *)
Constant(sim, value) == Word(value, sim.instruction)

Adc(sim, d) ==
    AddTo(sim, d, gpreg_get_(sim, d.Rn), gpreg_get_(sim, d.Rm), ~d.adc,
          Word(sim.PSTATE.pstate["C"], sim.PSTATE.taint_nzcv))

(* The register that is extended is Rn again. *)
AddExtended(sim, d) ==
    AddTo(sim, d, gpreg_get_(sim, d.Rn), gpreg_get_extend_(sim, d.Rn, d.extend, d.amount),
          ~d.add, Constant(sim, Bit(~d.add)))

AddImmediate(sim, d) ==
    AddTo(sim, d, gpreg_get_(sim, d.Rn), Constant(sim, (d.imm * 2 ^ d.shift) % Modulus),
          ~d.add, Constant(sim, Bit(~d.add)))

AddShifted(sim, d) ==
    AddTo(sim, d, gpreg_get_(sim, d.Rn), gpreg_get_shift_(sim, d.Rm, d.shift, d.amount),
          ~d.add, Constant(sim, Bit(~d.add)))

Combine(sim, d, op1, op2) ==
    LET taint == TaintOf(sim, {op1, op2})
        result == IF d.logical.and THEN op1.value & op2.value
                  ELSE IF d.logical.or THEN op1.value | op2.value
                  ELSE op1.value ^^ op2.value
        flagged == IF d.logical.setflags THEN pstate_set_(sim, make_nzcv(result), taint) ELSE sim
    IN gpreg_set_(flagged, d.Rd, result, taint)

AndImmediate(sim, d) == Combine(sim, d, gpreg_get_(sim, d.Rn), Constant(sim, d.imm))

AndShifted(sim, d) ==
    LET op2 == gpreg_get_shift_(sim, d.Rm, d.shift, d.amount)
    IN Combine(sim, d, gpreg_get_(sim, d.Rn),
               IF d.not THEN Word(Inverted(op2.value), op2.taint) ELSE op2)

Adr(sim, d) == gpreg_set_(sim, d.Xd, d.label, Meet({sim.instruction, sim.PC.taint}))

Mov(sim, d) ==
    LET old == gpreg_get_(sim, d.Rd)
        kept == IF d.k THEN old.value & Inverted(ones(XBITS \div 4) * 2 ^ d.shift) ELSE 0
        moved == kept | (d.imm * 2 ^ d.shift)
    IN gpreg_set_(sim, d.Rd, IF d.n THEN Inverted(moved) ELSE moved,
                  TaintOf(sim, IF d.k THEN {old} ELSE {}))

-----------------------------------------------------------------------------
(* Loads and stores; mem are the words that memory_load returns.            *)
Loaded(d, word) ==
    IF d.sign THEN sign_extend(word.value, Byte * 2 ^ d.size - 1) ELSE word.value

WriteBack(sim, d, address, taint) ==
    IF d.wb THEN gpreg_set_(sim, d.Xn, (address + IF d.post THEN d.imm ELSE 0) % Modulus, taint)
    ELSE sim

Based(sim, d) == (gpreg_get_(sim, d.Xn).value + IF d.post THEN 0 ELSE d.imm) % Modulus

Ldp(sim, d, mem) ==
    LET first == gpreg_set_(sim, d.Rt1, Loaded(d, mem[1]), mem[1].taint)
        both == gpreg_set_(first, d.Rt2, Loaded(d, mem[2]), mem[2].taint)
    IN WriteBack(IF d.load THEN both ELSE sim, d, Based(sim, d),
                 TaintOf(sim, {gpreg_get_(sim, d.Xn)}))

LdrImmediate(sim, d, mem) ==
    WriteBack(IF d.load THEN gpreg_set_(sim, d.Rt, Loaded(d, mem[1]), mem[1].taint) ELSE sim,
              d, Based(sim, d), TaintOf(sim, {gpreg_get_(sim, d.Xn)}))

(* The register named by a struct that no decoder filled in is set: any.    *)
LdrLiteral(sim, d, mem) ==
    {gpreg_set_(sim, gpreg(n, TRUE, zr), Loaded(d, mem[1]), mem[1].taint) :
        n \in 0 .. GPREGS, zr \in BOOLEAN}

LdrRegister(sim, d, mem) ==
    IF d.load THEN gpreg_set_(sim, d.Rt, Loaded(d, mem[1]), mem[1].taint) ELSE sim

(* The simulators an instruction may leave, before the PC advances.         *)
Execute(sim, d, mem) ==
    CASE d.type = "adc"     -> {Adc(sim, d)}
      [] d.type = "add_xr"  -> {AddExtended(sim, d)}
      [] d.type = "add_im"  -> {AddImmediate(sim, d)}
      [] d.type = "add_sr"  -> {AddShifted(sim, d)}
      [] d.type = "adr"     -> {Adr(sim, d)}
      [] d.type = "and_im"  -> {AndImmediate(sim, d)}
      [] d.type = "and_sr"  -> {AndShifted(sim, d)}
      [] d.type = "ldp"     -> {Ldp(sim, d, mem)}
      [] d.type = "ldr_im"  -> {LdrImmediate(sim, d, mem)}
      [] d.type = "ldr_lit" -> LdrLiteral(sim, d, mem)
      [] d.type = "ldr_r"   -> {LdrRegister(sim, d, mem)}
      [] d.type = "mov"     -> {Mov(sim, d)}
      [] OTHER              -> {sim}

-----------------------------------------------------------------------------
(* Branches.                                                                *)
IsBranch(d) == d.type \in {"b", "br", "cbz"}

(* What branch_hit is told.  The label of CBZ, which the decoder has made   *)
(* from the PC, is added to the PC.                                         *)
BranchHit(sim, d) ==
    LET here == Meet({sim.instruction, sim.PC.taint})
        plain == IF d.link THEN "BRANCH_AND_LINK" ELSE "BRANCH"
    IN CASE d.type = "b"   -> [type |-> plain, address |-> Word(d.label, here)]
         [] d.type = "br"  -> LET target == gpreg_get_(sim, d.Xn)
                              IN [type |-> IF d.ret THEN "RETURN" ELSE plain,
                                  address |-> Word(target.value, TaintOf(sim, {target}))]
         [] d.type = "cbz" -> [type |-> "CONDITIONAL",
                               address |-> Word((sim.PC.value + d.label) % Modulus, here)]

aarch64_sim_pc_advance(sim) ==
    [sim EXCEPT !.PC = Word((@.value + AARCH64_INSTRUCTION_SIZE) % Modulus,
                            aarch64_sim_taint_meet_with(@.taint, taint_default["CONSTANT"]))]

(* The end of aarch64_sim_step for a branch: it is taken or not, and leaves *)
(* its return address in the link register.                                 *)
Branch(sim, branch, take) ==
    LET next == aarch64_sim_pc_advance(sim)
        linked == IF branch.type = "BRANCH_AND_LINK"
                  THEN gpreg_set_(next, gpreg(GPREGS - 1, TRUE, USE_ZR), next.PC.value,
                                  Meet({sim.instruction, next.PC.taint}))
                  ELSE next
    IN IF take THEN [linked EXCEPT !.PC = branch.address] ELSE next
===============================================================================

---------------------------------- MODULE Arm ----------------------------------
(***************************************************************************)
(* What the processor does, the reference for Simulator: the architecture  *)
(* gives each instruction its result, on registers that all have a value.  *)
(* A machine is the values of the registers (SP is the last one), of the   *)
(* flags and of the PC.  It is written from the instructions' meaning in   *)
(* integers, not from sim.c.                                               *)
(***************************************************************************)
EXTENDS Disassembler
LOCAL INSTANCE Bitwise

Signed(x, width) == IF x >= 2 ^ (width - 1) THEN x - 2 ^ width ELSE x

Read(m, reg) == IF reg.zr THEN 0 ELSE m.X[reg.id] % 2 ^ reg.size

(* Writing a W register clears the rest of the X register. *)
Written(m, reg, value) ==
    IF reg.zr THEN m ELSE [m EXCEPT !.X[reg.id] = value % 2 ^ reg.size]

Truth(condition) == IF condition THEN 1 ELSE 0

Flagged(m, result, carry, overflow, width) ==
    [m EXCEPT !.nzcv = [N |-> Truth(Signed(result, width) < 0), Z |-> Truth(result = 0),
                        C |-> Truth(carry), V |-> Truth(overflow)]]

(* x + y + c, or x - y - (1 - c): the carry of a difference is that there   *)
(* is no borrow.                                                            *)
Sum(m, d, x, y, add, c) ==
    LET width == d.Rd.size
        exact == IF add THEN x + y + c ELSE x - y - 1 + c
        signed == IF add THEN Signed(x, width) + Signed(y, width) + c
                  ELSE Signed(x, width) - Signed(y, width) - 1 + c
        result == exact % 2 ^ width
        carry == IF add THEN exact >= 2 ^ width ELSE exact >= 0
    IN Written(IF d.setflags THEN Flagged(m, result, carry, signed # Signed(result, width), width)
               ELSE m, d.Rd, result)

Shifted(x, shift, amount, width) ==
    CASE shift = "LSL" -> (x * 2 ^ amount) % 2 ^ width
      [] shift = "LSR" -> x \div 2 ^ amount
      [] shift = "ASR" -> (Signed(x, width) \div 2 ^ amount) % 2 ^ width
      [] shift = "ROR" -> (x \div 2 ^ amount) + (x % 2 ^ amount) * 2 ^ (width - amount)

(* Extension types are a length, as a power of two of bytes, and a sign.    *)
Extended(x, extend, amount, width) ==
    LET length == Min({width, Byte * 2 ^ (extend % 4)})
        low == x % 2 ^ length
        value == IF extend % 8 >= 4 THEN Signed(low, length) ELSE low
    IN (value * 2 ^ amount) % 2 ^ width

Logic(m, d, x, y) ==
    LET result == CASE d.logical.and -> x & y [] d.logical.or -> x | y [] OTHER -> x ^^ y
    IN Written(IF d.logical.setflags THEN Flagged(m, result, FALSE, FALSE, d.Rd.size) ELSE m,
               d.Rd, result)

Complement(x, width) == 2 ^ width - 1 - x

Operand(m, d) == Shifted(Read(m, d.Rm), d.shift, d.amount, d.Rm.size)

Moved(m, d) ==
    LET width == d.Rd.size
        field == 2 ^ d.shift
        old == Read(m, d.Rd)
        quarter == 2 ^ (XBITS \div 4)
        kept == old - ((old \div field) % quarter) * field
    IN Written(m, d.Rd, IF d.k THEN kept + d.imm * field
                        ELSE IF d.n THEN Complement(d.imm * field, width) ELSE d.imm * field)

(* A load finds what is in memory, of its size.                             *)
Fetched(m, reg, d, word) ==
    LET width == Byte * 2 ^ d.size
        value == word % 2 ^ width
    IN Written(m, reg, IF d.sign THEN Signed(value, width) ELSE value)

Based(m, d) == IF d.wb THEN Written(m, d.Xn, Read(m, d.Xn) + d.imm) ELSE m

Advanced(m) == [m EXCEPT !.pc = (@ + AARCH64_INSTRUCTION_SIZE) % Modulus]
Jumped(m, address) == [m EXCEPT !.pc = address]
Linked(m) == [m EXCEPT !.X[GPREGS - 1] = (m.pc + AARCH64_INSTRUCTION_SIZE) % Modulus]

(* What an instruction does to the registers; mem are the words in memory. *)
Effect(m, d, mem) ==
    CASE d.type = "adc" -> Sum(m, d, Read(m, d.Rn), Read(m, d.Rm), d.adc, m.nzcv["C"])
      [] d.type = "add_xr" ->
            Sum(m, d, Read(m, d.Rn), Extended(Read(m, d.Rm), d.extend, d.amount, d.Rd.size),
                d.add, Truth(~d.add))
      [] d.type = "add_im" -> Sum(m, d, Read(m, d.Rn), (d.imm * 2 ^ d.shift) % 2 ^ d.Rd.size,
                                  d.add, Truth(~d.add))
      [] d.type = "add_sr" -> Sum(m, d, Read(m, d.Rn), Operand(m, d), d.add, Truth(~d.add))
      [] d.type = "and_im" -> Logic(m, d, Read(m, d.Rn), d.imm)
      [] d.type = "and_sr" ->
            Logic(m, d, Read(m, d.Rn),
                  IF d.not THEN Complement(Operand(m, d), d.Rm.size) ELSE Operand(m, d))
      [] d.type = "adr" -> Written(m, d.Xd, d.label)
      [] d.type = "mov" -> Moved(m, d)
      [] d.type = "ldp" /\ d.load ->
            Based(Fetched(Fetched(m, d.Rt1, d, mem[1]), d.Rt2, d, mem[2]), d)
      [] d.type = "ldr_im" /\ d.load -> Based(Fetched(m, d.Rt, d, mem[1]), d)
      [] d.type \in {"ldr_lit", "ldr_r"} /\ d.load -> Fetched(m, d.Rt, d, mem[1])
      [] d.type \in {"ldp", "ldr_im"} /\ ~d.load -> Based(m, d)
      [] OTHER -> m

Target(m, d) == IF d.type = "br" THEN Read(m, d.Xn) ELSE d.label
===============================================================================

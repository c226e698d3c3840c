---------------------------- MODULE MCKernelFinders ----------------------------
(***************************************************************************)
(* An instance of KernelFinders for TLC, and a comparison of Simulator     *)
(* with the processor, instruction by instruction.                         *)
(*                                                                         *)
(* X registers have 16 bits; 0 to 2 are temporaries and arguments, 3 is    *)
(* saved, 4 is the link register.  Code is 24 bytes from address 16, and   *)
(* at each address there is one of a few instructions: a method that       *)
(* returns a metaclass, an initializer, a store through an argument, and   *)
(* what gets in the way of each.                                           *)
(***************************************************************************)
EXTENDS KernelFinders, TLC

NoTaints == {}

AddressesOfCode == {16, 20, 24, 28, 32, 36}

Adrp(rd) == [class |-> "adr", op |-> TRUE, Rd |-> rd, imm |-> 5]
AddIm(rd, rn, imm) ==
    [class |-> "add_im", sf |-> TRUE, op |-> FALSE, S |-> FALSE, shift |-> 0, imm |-> imm,
     Rd |-> rd, Rn |-> rn]
SubSp == [AddIm(5, 5, 8) EXCEPT !.op = TRUE]
Movz(rd) == [class |-> "mov", sf |-> TRUE, opc |-> 2, hw |-> 0, imm |-> 8, Rd |-> rd]
MovReg(rd, rm) ==
    [class |-> "and_sr", sf |-> TRUE, opc |-> 1, N |-> FALSE, shift |-> "LSL", amount |-> 0,
     Rd |-> rd, Rn |-> 5, Rm |-> rm]
B(link, imm) == [class |-> "b", op |-> link, imm |-> imm]
Ret == [class |-> "br", op |-> 2, Rn |-> 4]
Br(rn) == [class |-> "br", op |-> 0, Rn |-> rn]
Cbz == [class |-> "cbz", op |-> FALSE, sf |-> TRUE, Rt |-> 0, imm |-> 2]
StrX(rt, rn) == [class |-> "ldr_ui", size |-> 3, opc |-> 0, imm |-> 0, Rt |-> rt, Rn |-> rn]
LdrX(rt, rn) == [StrX(rt, rn) EXCEPT !.opc = 1]
StpSp ==
    [class |-> "ldp", sf |-> TRUE, sw |-> FALSE, ix |-> 3, L |-> FALSE, Rt1 |-> 3, Rt2 |-> 4,
     Rn |-> 5, imm |-> -2]
Other == [class |-> "other"]

InstructionsAt ==
    (16 :> {Adrp(0), Movz(0), StpSp, LdrX(0, 1)})
    @@ (20 :> {Ret, B(TRUE, 4), Cbz, SubSp, AddIm(0, 0, 4), Br(0)})
    @@ (24 :> {Adrp(0), Ret, B(FALSE, 2), B(FALSE, 60), Other, B(TRUE, 60)})
    @@ (28 :> {AddIm(1, 0, 4), StrX(0, 1), B(TRUE, -1), MovReg(3, 0), Other})
    @@ (32 :> {Movz(2), MovReg(0, 3), StrX(0, 1), B(TRUE, 0), AddIm(2, 0, 4)})
    @@ (36 :> {B(TRUE, -4), B(FALSE, -3), Ret, StrX(0, 1), Adrp(2)})

FunctionsAt == {0, 16, 24}
StringsAt == {0, 96}
Initializers == <<24, 20>>
VtablesFound == <<[vtable |-> 200, getMetaClass |-> 16], [vtable |-> 216, getMetaClass |-> 36],
                  [vtable |-> 232, getMetaClass |-> 20]>>
DataAt == {96}
TextAt == {100}
CallbacksAt == 96 :> [version |-> 1, functions |-> {<<"_proc_lock", 20>>}]
               @@ 8 :> [version |-> 2, functions |-> {}]
-----------------------------------------------------------------------------
(* One instruction of each form, executed by sim.c with all registers known *)
(* and by the processor, on values at the edges.                            *)
Values == {0, 1, 129, 32768, 65535}
SomeImm == {0, 1, 257}

Forms ==
    {[class |-> "adc", sf |-> TRUE, op |-> o, S |-> s, Rd |-> 2, Rn |-> 0, Rm |-> 1] :
        o \in BOOLEAN, s \in BOOLEAN}
    \cup {[class |-> "add_im", sf |-> TRUE, op |-> o, S |-> s, shift |-> h, imm |-> i, Rd |-> 2,
           Rn |-> n] : o \in BOOLEAN, s \in BOOLEAN, h \in {0, 1}, i \in SomeImm, n \in {0, 5}}
    \cup {[class |-> c, sf |-> TRUE, op |-> o, S |-> s, opc |-> 3, N |-> o, shift |-> h,
           amount |-> a, Rd |-> 2, Rn |-> 0, Rm |-> m] :
              c \in {"add_sr", "and_sr"}, o \in BOOLEAN, s \in BOOLEAN,
              h \in {"LSL", "LSR", "ASR", "ROR"}, a \in {0, 1, 15}, m \in {1, 5}}
    \cup {[class |-> "and_im", sf |-> TRUE, opc |-> o, imm |-> 511, Rd |-> 2, Rn |-> 0] :
              o \in 0 .. 3}
    \cup {[class |-> "adr", op |-> o, Rd |-> 2, imm |-> i] : o \in BOOLEAN, i \in {0, 3, -1}}
    \cup {[class |-> "mov", sf |-> TRUE, opc |-> o, hw |-> h, imm |-> 9, Rd |-> 0] :
              o \in {0, 2, 3}, h \in 0 .. 3}
    \cup {[class |-> "ldp", sf |-> TRUE, sw |-> FALSE, ix |-> x, L |-> l, Rt1 |-> 1, Rt2 |-> 2,
           Rn |-> n, imm |-> -2] : x \in 0 .. 3, l \in BOOLEAN, n \in {0, 5}}
    \cup {[class |-> c, size |-> z, opc |-> o, post |-> p, imm |-> 2, Rt |-> 2, Rn |-> 0] :
              c \in {"ldr_ix", "ldr_ui"}, z \in 0 .. 3, o \in 0 .. 3, p \in BOOLEAN}
    \cup {[class |-> "ldr_r", size |-> z, opc |-> o, option |-> x, S |-> TRUE, Rt |-> 2, Rn |-> 0,
           Rm |-> 1] : z \in 0 .. 3, o \in 0 .. 3, x \in 0 .. 7}

AddExtendedForms ==
    {[class |-> "add_xr", sf |-> TRUE, op |-> o, S |-> FALSE, option |-> x, imm3 |-> 1, Rd |-> 2,
      Rn |-> 0, Rm |-> 1] : o \in BOOLEAN, x \in 0 .. 7}

KnownSim(x, y) ==
    LET known == [sim_set_pc(NoSim, 20) EXCEPT
                  !.X = [r \in Registers |-> Word(CASE r = 0 -> x [] r = 1 -> y [] OTHER -> 7,
                                                 AARCH64_SIM_TAINT_TOP)],
                  !.SP = Word(y, AARCH64_SIM_TAINT_TOP)]
    IN [known EXCEPT !.PSTATE.taint_nzcv = AARCH64_SIM_TAINT_TOP]

KnownMachine(x, y) ==
    [JunkMachine(20) EXCEPT
        !.X = [r \in 0 .. GPREGS |-> CASE r = 0 -> x [] r \in {1, SP} -> y [] OTHER -> 7]]

(* What memory_load returns is of the size that it was asked for.           *)
Agrees(f, x, y) ==
    LET d == Decode(f, 20)
        width == IF d.type \in {"ldp", "ldr_im", "ldr_r"} THEN Byte * 2 ^ d.size ELSE XBITS
        mem == <<y % 2 ^ width, 7>>
        machine_ == Arm_!Effect(KnownMachine(x, y), d, mem)
    IN d = Undecoded \/
       \A s \in Execute(KnownSim(x, y), d, [i \in 1 .. 2 |-> Word(mem[i], AARCH64_SIM_TAINT_TOP)]) :
          /\ \A r \in Registers : s.X[r].value = machine_.X[r]
          /\ s.SP.value = machine_.X[SP]
          /\ s.PSTATE.pstate = machine_.nzcv

Right(f) == \A x, y \in Values : Agrees(f, x, y)

(* A shift to the right of a negative number, and a load into a W register  *)
(* that extends the sign.                                                   *)
KnownWrong(f) ==
    \/ f.class \in {"add_sr", "and_sr"} /\ f.shift = "ASR" /\ f.amount > 0 /\ f.Rm # SP
    \/ f.class \in {"ldr_ix", "ldr_ui", "ldr_r"} /\ f.opc = 3

(* sim.c is right in every form but these, and it is wrong in these.        *)
ASSUME FormsRight == \A f \in Forms : Right(f) <=> ~KnownWrong(f) \/ Decode(f, 20) = Undecoded
ASSUME ExtendedWrong == \E f \in AddExtendedForms : ~Right(f)

(* A 32-bit register keeps its upper half where the processor clears it.    *)
ASSUME UpperHalfKept ==
    \A f \in {[AddIm(2, 0, 1) EXCEPT !.sf = FALSE], [MovReg(2, 1) EXCEPT !.sf = FALSE, !.Rn = 0]} : ~Right(f)

(* A bit mask is not all ones, and turns with immr: one more rotates the    *)
(* register right by one bit.  Unrotated it starts at bit 0.                *)
ASSUME BitMasks ==
    \A sf, N \in BOOLEAN, imms \in {0, 1, 7, 31, 40, 48, 58, 60, 61, 62, 63}, immr \in {0, 1, 31, 63} :
       LET width == IF sf THEN 64 ELSE 32
           Mask(r) == decode_bit_masks(sf, N, imms, r)
       IN (sf \/ ~N) /\ Mask(immr) # {} =>
             /\ Mask(immr) # 0 .. width - 1
             /\ Mask((immr + 1) % 64) = {(b - 1) % width : b \in Mask(immr)}
             /\ 0 \in Mask(0) /\ width - 1 \notin Mask(0)
===============================================================================

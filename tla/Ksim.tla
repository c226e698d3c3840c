--------------------------------- MODULE Ksim ---------------------------------
(***************************************************************************)
(* The kernel simulator of arm64/ksim.c: it runs Simulator over the code   *)
(* of the kernelcache until a client's condition holds, knowing nothing of *)
(* memory, of the functions that are called or of instructions that it     *)
(* cannot decode.  A register is known or unknown.                         *)
(*                                                                         *)
(* Each turn of aarch64_sim_step is a step.  Beside the simulator runs a   *)
(* processor, machine, on the path that the simulator takes: it finds Junk *)
(* wherever the simulator has no way to know.  The code is chosen as it is *)
(* first read, which makes every code of Instructions possible.            *)
(***************************************************************************)
EXTENDS Simulator, Sequences

CONSTANTS Code,            \* the addresses of instructions in the code segment
          Instructions,    \* what may be there, at each of them
          TEMPREGS_END,    \* the last register that a call may change
          Junk             \* a value nobody can know

ASSUME CodeAssumption == TEMPREGS_END < GPREGS /\ \A a \in Code : a % AARCH64_INSTRUCTION_SIZE = 0

VARIABLES code, sim, clear_temporaries, did_stop, exec, pc, machine

Arm_ == INSTANCE Arm

structKsim == <<sim, clear_temporaries, did_stop>>
ksimVars == <<code, structKsim, exec, pc, machine>>

Unread == [class |-> "unread"]
Registers == 0 .. GPREGS - 1

-----------------------------------------------------------------------------
(* Taints, and the registers a client reads and writes.                     *)
ksim_taints == [CONSTANT |-> [t_and |-> {}, t_or |-> {}],
                UNKNOWN |-> [t_and |-> {}, t_or |-> {"UNKNOWN"}]]

taint_unknown(taint) == "UNKNOWN" \in taint.t_or

(* ZR is read as SP, whose number it has.                                   *)
gpreg_word(s, reg) == IF reg.id = SP THEN s.SP ELSE s.X[reg.id]

KnownValue(word, size) ==
    [known |-> ~taint_unknown(word.taint), value |-> word.value % 2 ^ size]

ksim_getreg(s, reg) == KnownValue(gpreg_word(s, reg), reg.size)

ksim_reg(s, n) ==
    LET r == ksim_getreg(s, gpreg(n, TRUE, USE_ZR)) IN IF r.known THEN r.value ELSE 0

ksim_setreg(s, n, value) == [s EXCEPT !.X[n] = Word(value, AARCH64_SIM_TAINT_TOP)]

(* ksim_clearregs too. *)
sim_clear_regs(s) ==
    [s EXCEPT !.X = [r \in Registers |-> aarch64_sim_word_clear],
              !.SP = aarch64_sim_word_clear, !.PSTATE = aarch64_sim_pstate_clear]

(* A faulty variant: the flags only. *)
sim_clear_flags(s) == [s EXCEPT !.PSTATE = aarch64_sim_pstate_clear]

sim_clear_temps(s) ==
    [s EXCEPT !.X = [r \in Registers |-> IF r <= TEMPREGS_END THEN aarch64_sim_word_clear
                                         ELSE s.X[r]],
              !.PSTATE = aarch64_sim_pstate_clear]

sim_set_pc(s, address) ==
    [s EXCEPT !.PC = Word(address, AARCH64_SIM_TAINT_TOP), !.instruction = AARCH64_SIM_TAINT_TOP]

NoSim == [instruction |-> AARCH64_SIM_TAINT_TOP, PC |-> aarch64_sim_word_clear,
          X |-> [r \in Registers |-> aarch64_sim_word_clear], SP |-> aarch64_sim_word_clear,
          PSTATE |-> aarch64_sim_pstate_clear]

(* What the processor's registers hold when nothing is known of them.       *)
JunkRegisters == [r \in 0 .. GPREGS |-> Junk]
JunkMachine(address) ==
    [pc |-> address, X |-> JunkRegisters, nzcv |-> Zeros, told |-> FALSE, skipped |-> FALSE]

-----------------------------------------------------------------------------
(* Fetching.                                                                *)
Fetchable(s) == ~taint_unknown(s.PC.taint) /\ s.PC.value \in Code
Here == sim.PC.value
Instruction == Decode(code[Here], Here)

(* The code is found to be what it is. *)
Reading(address) ==
    /\ address \in Code
    /\ code[address] = Unread
    /\ \E i \in Instructions[address] : code' = [code EXCEPT ![address] = i]
    /\ UNCHANGED <<structKsim, exec, pc, machine>>

sim_get_instruction ==
    /\ pc \in {"exec", "reference"}
    /\ exec.instructions_left > 0
    /\ ~taint_unknown(sim.PC.taint)
    /\ Reading(Here)

(* memory_load clears the words it is asked for. *)
ksim_memory_load == <<aarch64_sim_word_clear, aarch64_sim_word_clear>>
JunkWords == <<Junk, Junk>>

-----------------------------------------------------------------------------
(* The conditions of the ksim_exec_until functions, at an instruction that  *)
(* is about to be executed.                                                 *)
IsCall(d) == d.type = "b" /\ d.link

ksim_exec_until_call_callback(s, d) == IsCall(d)
ksim_exec_until_return_callback(s, d) == d.type = "br" /\ d.ret

(* The offset of the store is not looked at.                                *)
ksim_exec_until_store_callback(s, d, address) ==
    /\ d.type \in {"ldr_im", "ldr_r"}
    /\ ~d.load
    /\ LET base == ksim_getreg(s, d.Xn) IN base.known /\ base.value = address

(* The value stored, 0 as the caller left it if it is not known.            *)
StoredValue(s, d) ==
    LET value == ksim_getreg(s, d.Rt)
    IN IF value.known THEN value.value % 2 ^ (Byte * 2 ^ d.size) ELSE 0

Until(s, d) ==
    CASE exec.until = "call" -> ksim_exec_until_call_callback(s, d)
      [] exec.until = "return" -> ksim_exec_until_return_callback(s, d)
      [] exec.until = "store" -> ksim_exec_until_store_callback(s, d, exec.address)

-----------------------------------------------------------------------------
(* The processor.  A call it returns from has changed the temporaries.      *)
AfterCall(m) ==
    [Arm_!Advanced(Arm_!Linked(m)) EXCEPT
        !.X = [r \in 0 .. GPREGS |-> IF r <= TEMPREGS_END THEN Junk ELSE @[r]], !.nzcv = Zeros]

Processor(m, d, take) ==
    CASE d.type = "undecoded" -> Arm_!Advanced([m EXCEPT !.X = JunkRegisters])
      [] IsBranch(d) /\ d.type # "cbz" /\ d.link -> AfterCall(m)
      [] IsBranch(d) /\ take -> Arm_!Jumped(m, Arm_!Target(m, d))
      [] OTHER -> Arm_!Advanced(Arm_!Effect(m, d, JunkWords))

-----------------------------------------------------------------------------
(* ksim_exec_until.                                                         *)
NoExec == [until |-> "none", address |-> 0, branches |-> <<"all_false">>,
           instructions_left |-> 0, found |-> FALSE, value |-> 0]

ksim_exec_until(until, address, branches, count) ==
    [until |-> until, address |-> address, branches |-> branches, instructions_left |-> count,
     found |-> FALSE, value |-> 0]

Return(found, value) ==
    /\ pc' = "client"
    /\ exec' = [exec EXCEPT !.found = found, !.value = value, !.instructions_left = 0]

(* The fetch callback stops: the instructions are used up, or the PC is not *)
(* known or not in the code.                                                *)
NothingFetched ==
    /\ pc = "exec"
    /\ exec.instructions_left = 0 \/ ~Fetchable(sim)
    /\ Return(FALSE, 0)
    /\ UNCHANGED <<code, structKsim, machine>>

Fetched == pc = "exec" /\ exec.instructions_left > 0 /\ Fetchable(sim) /\ code[Here] # Unread

(* What a call has changed is forgotten when the code after it is reached.  *)
Resumed == IF clear_temporaries THEN sim_clear_temps(sim) ELSE sim

Stops == Until(Resumed, Instruction) /\ ~did_stop

Stop ==
    /\ Fetched
    /\ Stops
    /\ sim' = Resumed
    /\ clear_temporaries' = FALSE
    /\ did_stop' = TRUE
    /\ Return(TRUE, IF exec.until = "store" THEN StoredValue(Resumed, Instruction) ELSE 0)
    /\ machine' = [machine EXCEPT !.told = TRUE]
    /\ UNCHANGED code

(* An instruction is executed.  The processor passes one at which the      *)
(* client wanted to stop if it was not told of it just now.                 *)
Wanted(d) == (exec.until = "call" /\ IsCall(d)) \/ (exec.until = "return" /\ d.type = "br" /\ d.ret)

Executed(take, branches) ==
    /\ did_stop' = FALSE
    /\ exec' = [exec EXCEPT !.instructions_left = @ - 1, !.branches = branches]
    /\ machine' = [Processor(machine, Instruction, take) EXCEPT
                      !.skipped = @ \/ (Wanted(Instruction) /\ ~machine.told), !.told = FALSE]
    /\ UNCHANGED <<code, pc>>

(* The callback for an instruction that cannot be decoded clears registers. *)
ksim_illegal_instruction(s) == sim_clear_regs(s)

After(s, d) ==
    IF d.type = "undecoded" THEN {ksim_illegal_instruction(s)}
    ELSE Execute(s, d, ksim_memory_load)

ExecutePlain ==
    /\ Fetched
    /\ ~Stops
    /\ ~IsBranch(Instruction)
    /\ \E s \in After(Resumed, Instruction) : sim' = aarch64_sim_pc_advance(s)
    /\ clear_temporaries' = FALSE
    /\ Executed(FALSE, exec.branches)

(* ksim_exec_branch_hit: whether to take it, and whether it is a call.      *)
TakeBranch(branch) ==
    CASE branch.type = "CONDITIONAL" -> Head(exec.branches) = "true"
      [] branch.type = "BRANCH_AND_LINK" -> FALSE
      [] OTHER -> TRUE

BranchesLeft(branch) ==
    IF branch.type = "CONDITIONAL" /\ Head(exec.branches) # "all_false"
    THEN Tail(exec.branches) ELSE exec.branches

ksim_exec_branch_hit ==
    /\ Fetched
    /\ ~Stops
    /\ IsBranch(Instruction)
    /\ LET branch == BranchHit(Resumed, Instruction)
           take == TakeBranch(branch)
       IN /\ ~(take /\ taint_unknown(branch.address.taint))
          /\ sim' = Branch(Resumed, branch, take)
          /\ clear_temporaries' = (branch.type = "BRANCH_AND_LINK")
          /\ Executed(take, BranchesLeft(branch))

(* The target is not known: the branch is not executed.                     *)
BranchAborts ==
    /\ Fetched
    /\ ~Stops
    /\ IsBranch(Instruction)
    /\ LET branch == BranchHit(Resumed, Instruction)
       IN TakeBranch(branch) /\ taint_unknown(branch.address.taint)
    /\ sim' = Resumed
    /\ clear_temporaries' = FALSE
    /\ did_stop' = FALSE
    /\ Return(FALSE, 0)
    /\ UNCHANGED <<code, machine>>

-----------------------------------------------------------------------------
(* ksim_exec_find_reference goes through the code from its first address to *)
(* its last, taking no branch, until a register is found to hold the value. *)
References(s, value) ==
    \E r \in Registers : ~taint_unknown(s.X[r].taint) /\ s.X[r].value = value

(* What comes after a branch is reached from elsewhere.                     *)
find_reference_branch_hit(s, type) ==
    CASE type \in {"BRANCH", "RETURN"} -> sim_clear_regs(s)
      [] type = "BRANCH_AND_LINK" -> sim_clear_temps(s)
      [] OTHER -> s

ReachedFromElsewhere(m) == Arm_!Advanced([m EXCEPT !.X = JunkRegisters])

SweepMachine(d) ==
    IF IsBranch(d) /\ d.type # "cbz" /\ ~d.link THEN ReachedFromElsewhere(machine)
    ELSE Processor(machine, d, FALSE)

ksim_exec_find_reference ==
    /\ pc = "reference"
    /\ IF ~Fetchable(sim)
       THEN Return(FALSE, 0) /\ UNCHANGED <<code, structKsim, machine>>
       ELSE /\ code[Here] # Unread
            /\ \E s \in IF IsBranch(Instruction)
                        THEN LET branch == BranchHit(sim, Instruction)
                             IN {Branch(find_reference_branch_hit(sim, branch.type), branch, FALSE)}
                        ELSE {aarch64_sim_pc_advance(t) : t \in After(sim, Instruction)} :
                  /\ sim' = s
                  /\ IF References(s, exec.address)
                     THEN Return(TRUE, s.PC.value - AARCH64_INSTRUCTION_SIZE)
                     ELSE UNCHANGED <<exec, pc>>
            /\ machine' = SweepMachine(Instruction)
            /\ UNCHANGED <<code, clear_temporaries, did_stop>>

-----------------------------------------------------------------------------
(* ksim_scan_for looks at the instructions on either side, one a turn.      *)
(* The masks that clients give: a jump, a call, and what starts a function  *)
(* on iOS 10 and on iOS 11.                                                 *)
Matches(d) ==
    CASE exec.until = "jump" -> d.type = "b" /\ ~d.link
      [] exec.until = "bl" -> IsCall(d)
      [] exec.until = "stp_sp" ->
            d.type = "ldp" /\ ~d.load /\ d.size = 3 /\ d.wb /\ ~d.post /\ d.Xn.id = SP
      [] exec.until = "sub_sp" ->
            d.type = "add_im" /\ ~d.add /\ ~d.setflags /\ d.Rd = d.Rn /\ d.Rd.id = SP
            /\ d.Rd.size = XBITS

Stepped == (Here + exec.address) % Modulus      \* address is the step here
ScanOver == exec.instructions_left = 0 \/ Stepped \notin Code

ScanReads == pc = "scan" /\ ~ScanOver /\ Reading(Stepped)

(* The index of the clients is 0: the first match.                          *)
ksim_scan_for ==
    /\ pc = "scan"
    /\ IF ScanOver THEN Return(FALSE, 0) /\ UNCHANGED sim
       ELSE /\ code[Stepped] # Unread
            /\ sim' = [sim EXCEPT !.PC.value = Stepped]
            /\ LET d == Decode(code[Stepped], Stepped)
               IN IF Matches(d)
                  THEN Return(TRUE, IF exec.until \in {"jump", "bl"} THEN d.label ELSE Stepped)
                  ELSE exec' = [exec EXCEPT !.instructions_left = @ - 1] /\ UNCHANGED pc
    /\ UNCHANGED <<code, clear_temporaries, did_stop, machine>>

KsimNext ==
    \/ ScanReads
    \/ ksim_scan_for
    \/ sim_get_instruction
    \/ NothingFetched
    \/ Stop
    \/ ExecutePlain
    \/ ksim_exec_branch_hit
    \/ BranchAborts
    \/ ksim_exec_find_reference

KsimInit ==
    /\ code = [a \in Code |-> Unread]
    /\ sim = NoSim
    /\ clear_temporaries = FALSE
    /\ did_stop = FALSE
    /\ exec = NoExec
    /\ pc = "client"
    /\ machine = JunkMachine(0)

(* ksim_init_sim; the machine is put at the same place.                     *)
ksim_init_sim(address) == sim_set_pc(aarch64_sim_clear(sim), address)

StartAt(s, address, mode, context) ==
    /\ sim' = s
    /\ machine' = JunkMachine(address)
    /\ clear_temporaries' = FALSE
    /\ did_stop' = FALSE
    /\ exec' = context
    /\ pc' = mode
    /\ UNCHANGED code

(* A client goes on from where it was told to stop.                         *)
Continue(context) ==
    /\ exec' = context
    /\ pc' = "exec"
    /\ UNCHANGED <<code, structKsim, machine>>

-----------------------------------------------------------------------------
(***************************************************************************)
(* What a client of the simulator is told is so.  When it has stopped      *)
(* where the client asked, an execution of that path stands at the same    *)
(* instruction, has passed none at which the client wanted to stop and was *)
(* not told, and holds in every register that is said to be known the      *)
(* value that is said -- but for the link register, which a call changes   *)
(* and ksim.c does not clear.  A value reported as stored is the one.      *)
(***************************************************************************)
TrueOf(word, value) == taint_unknown(word.taint) \/ word.value = value

Simulated == pc = "client" /\ exec.found /\ exec.until \in {"call", "return", "store", "reference"}

SimulationTrue ==
    Simulated =>
       /\ sim.PC.value = machine.pc
       /\ ~machine.skipped
       /\ \A r \in Registers \ {GPREGS - 1} : TrueOf(sim.X[r], machine.X[r])
       /\ TrueOf(sim.SP, machine.X[SP])
       /\ exec.until = "store" /\ exec.value # 0 =>
             exec.value = Arm_!Read(machine, Instruction.Rt) % 2 ^ (Byte * 2 ^ Instruction.size)
===============================================================================

-------------------------------- MODULE Core --------------------------------
(***************************************************************************)
(* The multi-cycle core RV32I_ARCH1 of src/rv32.cpp, a clock cycle a step: *)
(* the four phases of an instruction, the multiplier, memory and IO, the   *)
(* interrupt controller's request bits, and the step modes of the debug    *)
(* interface.                                                              *)
(*                                                                         *)
(* RV32I_ARCH1::step computes wires from registers and then, unless the    *)
(* core is stalled, updates the registers.  A wire is an operator here; a  *)
(* register is a variable.  The bus is abstracted to what AxiBus shows of  *)
(* it: an access that leaves the core stalls it for at least a cycle, has  *)
(* its effect once, and ends.  The counters, and the division of the clock *)
(* that drives mtime, are left out; mtip is an input of every cycle, as    *)
(* the edges of the interrupt lines are.                                   *)
(***************************************************************************)
EXTENDS Csr, Decoder

CONSTANTS NRegs, MemWords, IOBase, Sysctrl, DevValues,    \* see Isa
          DataWords,   \* words of memory that hold data
          MaxLatency,  \* the longest the bus stalls an access, in cycles
          Programs     \* what may be in memory at reset, see Init

(* Interrupt lines, by bit number: one of the UARTs and one of the buttons. *)
UART   == 0
BUTTON == 1
Lines  == {UART, BUTTON}

(* dbg_com, the action the user has set the switches to.  Bit 3 of the     *)
(* source's number, ignore_wfi, is an action of its own.                   *)
Actions == {"run", "step_cycle", "step_in", "step_over", "step_out", "ignore_wfi"}
Steps   == Actions \ {"run", "ignore_wfi"}

(* An instruction of a program: the decoder knows it, and the registers it *)
(* names are there.  Another one would end the run with dc.error.          *)
Proper(d) == /\ ~d.error /\ d.I_rd < NRegs /\ d.I_rs2 < NRegs
             /\ d.I_rs1 < NRegs \/ (d.opcode = I_SYS /\ d.opID \in ZicsrImm)

ASSUME CoreAssumption ==
  /\ NRegs \in 2 .. 32 /\ DevValues \in 1 .. 2^XLEN
  /\ MemWords \in Nat /\ 4 * MemWords <= IOBase /\ DataWords \subseteq 0 .. MemWords - 1
  /\ IOBase <= Sysctrl /\ Sysctrl \in Word
  /\ MaxLatency \in Nat \ {0}
  /\ \A p \in Programs : /\ DOMAIN p.code \subseteq (0 .. MemWords - 1) \ DataWords
                         /\ \A a \in DOMAIN p.code :
                              p.code[a] \in Instruction /\ Proper(decode(p.code[a]))
                         /\ p.actions \subseteq Actions
                         /\ p.sources \subseteq Lines \union {Timer}

VARIABLES
  sc,                     \* T.sc, the phase: T[sc] is set
  pc, tr, ir, flg,
  xreg, csr, mip,
  m, dout, byte_pos, ld_type,      \* the members of mem
  md,                              \* the multiplier
  axi,                    \* pending_op: how long an access has been on the bus
  IO_LD_completed, latched_data,
  ext_irq_pending, ext_irq_enable, \* sysctrl
  d_intr,                 \* sysctrl: the level of the lines a cycle ago
  dev, out,               \* the device, see Isa
  dbg_com,                \* how the switches are set
  sources,                \* the interrupt sources that are in use
  dbg,                    \* the registers of dbg_state
  steps                   \* history: instructions completed since a release

cpuVars == <<sc, pc, tr, ir, flg, xreg, csr>>
memVars == <<m, dout, byte_pos, ld_type>>
ioVars  == <<axi, IO_LD_completed, latched_data, ext_irq_pending, ext_irq_enable, d_intr,
             dev, out>>
vars    == <<cpuVars, mip, memVars, md, ioVars, dbg_com, sources, dbg, steps>>

Regs == 1 .. NRegs - 1

(* Number of the instructions completed since a release that are told apart. *)
MaxSteps == 2

(* The register ir is all zeros at reset, which is no instruction. *)
Reset == decode([opcode |-> 0, rd |-> 0, f3 |-> 0, rs1 |-> 0, rs2 |-> 0, f7 |-> 0])

(* The memory holds a program, and zeros where it has no instruction.  An  *)
(* instruction is kept as what the decoder makes of its word, a data word  *)
(* as [data |-> ...].                                                      *)
image(code) == [a \in 0 .. MemWords - 1 |-> IF a \in DOMAIN code THEN decode(code[a])
                                              ELSE [data |-> 0]]

(* A program in memory, the switches set, and the registers at reset. *)
Init == /\ \E p \in Programs : m = image(p.code) /\ dbg_com \in p.actions /\ sources = p.sources
        /\ sc = 0 /\ pc = 0 /\ tr = 0 /\ ir = Reset /\ flg = 0
        /\ xreg = [r \in Regs |-> 0] /\ csr = csrInit /\ mip = {}
        /\ dout = [data |-> 0] /\ byte_pos = 0 /\ ld_type = "lw"
        /\ md = mdInit
        /\ axi = 0 /\ IO_LD_completed = FALSE /\ latched_data = 0
        /\ ext_irq_pending = {} /\ ext_irq_enable = {} /\ d_intr = {}
        /\ dev = 0 /\ out = [addr |-> 0, wdata |-> 0, count |-> 0]
        /\ dbg = [step_pending |-> 0, step_halt_condition |-> "run", step_target_pc |-> 0]
        /\ steps = 0

T(i) == sc = i
even(addr) == addr - (addr % 2)
word(addr) == addr \div 4

-----------------------------------------------------------------------------
(* Wires: ctrl_decode and the busses.  In T[0] and T[1] ir is still the     *)
(* instruction before.                                                     *)

dc   == ir
I(S) == dc.opcode \in S

getOperand(id) == IF id = 0 THEN 0 ELSE xreg[id]

csr_op == IF T(2) /\ I({I_SYS}) THEN dc.opID ELSE "none"
wfi    == csr_op = "wfi"
mret   == csr_op = "mret"
csrrx  == csr_op \in Zicsr

mul_op == T(2) /\ dc.isMD

(* The operation of the ALU, none in the cycles that do not use it. *)
op == IF T(0) \/ (T(2) /\ I({I_LUI, I_AUIPC, I_LD, I_ST, I_JAL, I_JALR})) \/ (T(3) /\ I({I_BR}))
        THEN "add"
      ELSE IF T(2) /\ I({I_COMP, I_COMPI, I_BR}) /\ ~dc.isMD THEN dc.opID
      ELSE "none"

rs1 == IF ~T(2) THEN 0
       ELSE IF csr_op \in ZicsrImm THEN dc.I_rs1 ELSE getOperand(dc.I_rs1)
rs2 == IF T(2) THEN getOperand(dc.I_rs2) ELSE 0
imm == IF T(0) THEN 4 ELSE Wrap(dc.imm)

bus1 == IF T(2) /\ (I({I_COMP, I_COMPI, I_LUI, I_LD, I_ST, I_JALR, I_BR}) \/ csrrx) THEN rs1
        ELSE IF T(0) THEN pc ELSE tr
bus2 == IF T(2) /\ I({I_COMP, I_BR}) THEN rs2 ELSE imm

(* A faulty form, without the choice between the memory and IO. *)
formatReadData_latched == formatRead(byte_pos, ld_type, latched_data)

(* Data of the memory or, for a load that has just come from IO, the       *)
(* latched word, which is shifted as the last access of the memory was.    *)
formatReadData == formatRead(byte_pos, ld_type, IF IO_LD_completed THEN latched_data ELSE dout.data)

irq == interrupt_detected(csr, mip)

-----------------------------------------------------------------------------
(* updateDebugInterface.  Halting runs through step_pending: 3, halted;    *)
(* 1, a button has been pressed, wait until its request is withdrawn;      *)
(* 2, run until the halt condition; 0, never halted.                       *)

button_irq == BUTTON \in ext_irq_enable \intersect ext_irq_pending
ignore_wfi == dbg_com = "ignore_wfi"
step_mode  == dbg_com \in Steps /\ (button_irq \/ dbg.step_pending # 0)

(* While the core waits, the request of the button is cleared for it; a    *)
(* faulty form leaves that to the program.                                 *)
irq_clear_never == {}
irq_clear == IF step_mode /\ dbg.step_pending = 1 THEN {BUTTON} ELSE {}

call_inst   == I({I_JAL, I_JALR}) /\ dc.I_rd = 1
return_inst == I({I_JALR}) /\ dc.I_rd = 0 /\ dc.I_rs1 = 1 /\ dc.imm = 0

dbg_mode == IF dbg_com \in Steps THEN dbg_com ELSE "run"

released == wfi /\ irq /\ button_irq /\ step_mode
resumed  == dbg.step_pending = 3 /\ irq /\ button_irq

overAsIn(isOver) == IF dbg_mode = "step_over" /\ ~isOver THEN "step_in" ELSE dbg_mode

(* The three ways to arrive at the halt condition, at an instruction's T[0]. *)
halt_cond == \/ dbg.step_halt_condition = "step_in"
             \/ dbg.step_halt_condition = "step_over" /\ dbg.step_target_pc = pc
             \/ dbg.step_halt_condition = "step_out" /\ dbg.step_target_pc = 0 /\ return_inst

(* The next instruction is about to start; a faulty form takes any phase   *)
(* for that.                                                               *)
atInstruction_any == dbg.step_pending = 2 /\ ~T(2)
atInstruction == dbg.step_pending = 2 /\ T(0)

nextDbg ==
  CASE released -> [step_pending |-> 1, step_halt_condition |-> overAsIn(FALSE),
                    step_target_pc |-> 0]
    [] ~released /\ resumed ->
         [step_pending |-> IF step_mode THEN 1 ELSE 0,
          step_halt_condition |-> overAsIn(call_inst),
          step_target_pc |-> IF overAsIn(call_inst) = "step_over" THEN Wrap(pc + 4) ELSE 0]
    [] ~released /\ dbg.step_pending = 1 /\ ~irq ->
         [dbg EXCEPT !.step_pending = IF dbg.step_halt_condition = "step_cycle" THEN 3 ELSE 2]
    [] ~released /\ atInstruction ->
         IF halt_cond THEN [dbg EXCEPT !.step_pending = 3]
         ELSE IF dbg.step_halt_condition = "step_out" /\ dbg.step_target_pc = pc
              THEN [dbg EXCEPT !.step_target_pc = 0] ELSE dbg
    [] ~released /\ dbg.step_pending = 2 /\ T(2) ->
         IF dbg.step_halt_condition = "step_out" /\ dbg.step_target_pc = 0 /\ call_inst
         THEN [dbg EXCEPT !.step_target_pc = pc] ELSE dbg
    [] OTHER -> dbg

step_wait_irq_clear == ~released /\ dbg.step_pending = 1
step_wfi == \/ ~released /\ dbg.step_pending = 3
            \/ step_wait_irq_clear /\ nextDbg.step_pending = 3
            \/ ~released /\ dbg.step_pending = 2 /\ nextDbg.step_pending = 3

(* A faulty dbg_stall, which holds the core only while it waits. *)
dbg_stall_waits_only == step_wait_irq_clear

dbg_stall == step_wait_irq_clear \/ (step_wfi /\ ~irq)

-----------------------------------------------------------------------------
(* updateMemIO, every cycle and stalled or not. *)

mem_addr == IF T(0) THEN bus1 ELSE ALUcompute(bus1, bus2, op)

(* A faulty test, which takes the first word of IO for memory. *)
MEM_ADDR_OUT_OF_BOUNDS_late(addr) == addr > IOBase
MEM_ADDR_OUT_OF_BOUNDS(addr) == addr >= IOBase
isSysctrl(addr) == addr \div 32 = Sysctrl \div 32

accesses == T(2) /\ I({I_LD, I_ST})
io_op == accesses /\ MEM_ADDR_OUT_OF_BOUNDS(mem_addr)

mem_din == shiftedData(mem_addr, rs2)
wrote(addr, wdata) == [addr |-> addr, wdata |-> wdata, count |-> (out.count + 1) % 3]

(* A load or a store of a register of SYSCTRL is over in its own cycle. *)
sys_op == io_op /\ isSysctrl(mem_addr)
axi_op == io_op /\ ~isSysctrl(mem_addr)

(* SYSCTRL::fsm, with the rising edges of the lines in this cycle.  A write   *)
(* to register 0 withdraws requests, a write to register 8 enables lines.  *)
Sysctrl_fsm(edges, mtip) ==
  LET asked == ext_irq_pending \union edges
      writes(reg) == sys_op /\ I({I_ST}) /\ mem_addr % 32 = reg
  IN  /\ ext_irq_pending' = (asked \ (IF writes(0) THEN Bits(mem_din) ELSE {})) \ irq_clear
      /\ ext_irq_enable' = IF writes(8) THEN Bits(mem_din) \intersect Lines ELSE ext_irq_enable
      /\ mip' = (IF asked \intersect ext_irq_enable # {} THEN {External} ELSE {})
                   \union mtip

sys_data(edges) ==
  IF mem_addr % 32 = 0 THEN Num((ext_irq_pending \union edges) \intersect ext_irq_enable)
                       ELSE Num(ext_irq_enable)

(* The access is over in this cycle, with its effect at the device. *)
IODone(edges) ==
  /\ axi' = 0
  /\ IO_LD_completed' = I({I_LD})
  /\ latched_data' = IF I({I_ST}) THEN latched_data
                     ELSE IF sys_op THEN sys_data(edges) ELSE dev
  /\ dev' = IF axi_op /\ I({I_LD}) THEN (dev + 1) % DevValues ELSE dev
  /\ out' = IF I({I_ST}) THEN wrote(mem_addr, mem_din) ELSE out

(* The core asks for the access, or goes on asking. *)
IOPending == /\ axi < MaxLatency /\ axi' = axi + 1
             /\ IO_LD_completed' = FALSE
             /\ UNCHANGED <<latched_data, dev, out>>

NoIO == IO_LD_completed' = FALSE /\ UNCHANGED <<axi, latched_data, dev, out>>

(* `stalled' is io.stalled, which the bus decides. *)
IO_fsm(edges, stalled) ==
  \/ ~io_op /\ ~stalled /\ NoIO
  \/ sys_op /\ ~stalled /\ IODone(edges)
  \/ axi_op /\ stalled /\ IOPending
  \/ axi_op /\ ~stalled /\ axi > 0 /\ IODone(edges)

(* MEMORY: a word is read for a fetch or a load and stays in dout; stores  *)
(* write their lanes.                                                      *)
Memory ==
  \/ /\ T(0) \/ (accesses /\ ~io_op /\ I({I_LD}))
     /\ dout' = m[word(mem_addr)]
     /\ byte_pos' = mem_addr % 4
     /\ ld_type' = IF T(0) THEN "lw" ELSE dc.opID
     /\ UNCHANGED m
  \/ /\ accesses /\ ~io_op /\ I({I_ST})
     /\ m' = [m EXCEPT ![word(mem_addr)].data =
                storeMemByteEnable(@, mem_din, byteEnable(mem_addr, dc.opID))]
     /\ UNCHANGED <<dout, byte_pos, ld_type>>
  \/ /\ ~T(0) /\ (~accesses \/ io_op)
     /\ UNCHANGED memVars

(* The multiplier advances in every cycle the instruction stays in T[2]. *)
nextMd == IF mul_op /\ dc.opID = "mul" THEN mdStep(md, bus1, bus2) ELSE md
md_out == IF mul_op /\ dc.opID = "mul" THEN mdOut(md, nextMd) ELSE 0

-----------------------------------------------------------------------------
(* The registers of the core, in a cycle without a stall.  The operators   *)
(* of a phase say what is written; writeBack and advance are shared.       *)

writeBack(rd) == xreg' = IF dc.I_rd = 0 THEN xreg ELSE [xreg EXCEPT ![dc.I_rd] = rd]

(* T.update_counter, or clear when the instruction is complete. *)
advance  == sc' = (sc + 1) % 4
complete == sc' = 0

trap_occurred == T(0) /\ irq /\ ~step_mode

T0_Trap == /\ trap_occurred
           /\ pc' = even(csr.mtvec) /\ tr' = pc
           /\ csr' = do_trap(csr, mip, pc)
           /\ complete
           /\ UNCHANGED <<ir, flg, xreg>>

T0_Fetch == /\ T(0) /\ ~trap_occurred
            /\ pc' = even(ALUcompute(bus1, bus2, op)) /\ tr' = pc
            /\ advance
            /\ UNCHANGED <<ir, flg, xreg, csr>>

T1_Decode == /\ T(1)
             /\ ir' = dout
             /\ advance
             /\ UNCHANGED <<pc, tr, flg, xreg, csr>>

T2_Compute == /\ T(2) /\ I({I_COMP, I_COMPI, I_LUI, I_AUIPC})
              /\ writeBack(IF mul_op THEN md_out ELSE ALUcompute(bus1, bus2, op))
              /\ complete
              /\ UNCHANGED <<pc, tr, ir, flg, csr>>

T2_Load == /\ T(2) /\ I({I_LD})
           /\ Aligned(mem_addr, ld_size(dc.opID))
           /\ advance
           /\ UNCHANGED <<pc, tr, ir, flg, xreg, csr>>

T2_Store == /\ T(2) /\ I({I_ST})
            /\ Aligned(mem_addr, st_size(dc.opID))
            /\ complete
            /\ UNCHANGED <<pc, tr, ir, flg, xreg, csr>>

T2_Jump == /\ T(2) /\ I({I_JAL, I_JALR})
           /\ writeBack(pc)
           /\ pc' = even(ALUcompute(bus1, bus2, op))
           /\ complete
           /\ UNCHANGED <<tr, ir, flg, csr>>

T2_Branch == /\ T(2) /\ I({I_BR})
             /\ flg' = ALUcompute(bus1, bus2, op) % 2
             /\ advance
             /\ UNCHANGED <<pc, tr, ir, xreg, csr>>

T2_Csr == /\ T(2) /\ csrrx
          /\ LET old == csr_val(csr, mip, dc.imm, dc.I_rd)
             IN  /\ writeBack(old)
                 /\ csr' = writeback(csr, old, bus1, dc.imm, csr_op, dc.I_rs1)
          /\ complete
          /\ UNCHANGED <<pc, tr, ir, flg>>

T2_Mret == /\ T(2) /\ mret
           /\ pc' = even(csr.mepc)
           /\ csr' = do_mret(csr)
           /\ complete
           /\ UNCHANGED <<tr, ir, flg, xreg>>

(* wfi stays in T[2] until an enabled interrupt is pending. *)
T2_Wfi == /\ T(2) /\ wfi
          /\ sc' = IF irq \/ ignore_wfi THEN 0 ELSE sc
          /\ UNCHANGED <<pc, tr, ir, flg, xreg, csr>>

T3_Load == /\ T(3) /\ I({I_LD})
           /\ writeBack(formatReadData)
           /\ complete
           /\ UNCHANGED <<pc, tr, ir, flg, csr>>

T3_Branch == /\ T(3) /\ I({I_BR})
             /\ pc' = IF flg = 1 THEN even(ALUcompute(bus1, bus2, op)) ELSE pc
             /\ complete
             /\ UNCHANGED <<tr, ir, flg, xreg, csr>>

Phase == \/ T0_Trap \/ T0_Fetch \/ T1_Decode
         \/ T2_Compute \/ T2_Load \/ T2_Store \/ T2_Jump \/ T2_Branch
         \/ T2_Csr \/ T2_Mret \/ T2_Wfi
         \/ T3_Load \/ T3_Branch

inst_completed == ~T(0) /\ sc' = 0

Count == steps' = IF released THEN 1
                  ELSE IF resumed THEN 0
                  ELSE IF dbg.step_pending # 0 /\ inst_completed /\ steps < MaxSteps
                       THEN steps + 1 ELSE steps

(* In a step mode the user presses a button when the core waits for it, at *)
(* wfi or halted: a second press within a few cycles is not considered.    *)
awaited(edges) == dbg_com \in Steps /\ BUTTON \in edges => wfi \/ dbg.step_pending = 3

(* The part of the clock cycle that a stall does not hold up. *)
Clock(stalled) ==
  /\ Memory
  /\ md' = nextMd
  /\ dbg' = nextDbg
  /\ UNCHANGED <<dbg_com, sources>>
  /\ \E intr \in SUBSET (Lines \intersect sources), mtip \in SUBSET ({Timer} \intersect sources) :
       /\ awaited(intr \ d_intr)
       /\ Sysctrl_fsm(intr \ d_intr, mtip) /\ IO_fsm(intr \ d_intr, stalled)
       /\ d_intr' = intr

Run == /\ ~dbg_stall /\ ~mdPending(nextMd)
       /\ Phase
       /\ Count
       /\ Clock(FALSE)

Stall == \E stalled \in BOOLEAN :
           /\ dbg_stall \/ mdPending(nextMd) \/ stalled
           /\ UNCHANGED cpuVars
           /\ Count
           /\ Clock(stalled)

Next == Run \/ Stall
Spec == Init /\ [][Next]_vars

(* The clock ticks. *)
FairSpec == Spec /\ WF_vars(Next)

-----------------------------------------------------------------------------
TypeOK ==
  /\ sc \in 0 .. 3 /\ {pc, tr, latched_data} \subseteq Word /\ flg \in 0 .. 1
  /\ xreg \in [Regs -> Word]
  /\ csr \in [CSR_RW -> Word] /\ mip \in SUBSET Causes
  /\ \A a \in DataWords : m[a] \in [data : Word]
  /\ byte_pos \in 0 .. 3 /\ ld_type \in LoadOps
  /\ md \in [a : Word, b : Word, c : Word, stt : 0 .. 1]
  /\ axi \in 0 .. MaxLatency /\ IO_LD_completed \in BOOLEAN
  /\ ext_irq_pending \subseteq Lines /\ ext_irq_enable \subseteq Lines
  /\ d_intr \subseteq Lines
  /\ dev \in 0 .. DevValues - 1
  /\ out \in [addr : Word, wdata : Word, count : 0 .. 2]
  /\ dbg_com \in Actions
  /\ dbg \in [step_pending : 0 .. 3, step_halt_condition : Steps \union {"run"},
              step_target_pc : Word]
  /\ steps \in 0 .. MaxSteps

(* The instructions of the programs. *)
Instructions == UNION {{decode(p.code[a]) : a \in DOMAIN p.code} : p \in Programs}

(* Through traps, returns, wfi and debug halts the core fetches nothing    *)
(* but instructions and accesses nothing but data or IO.  And no load in   *)
(* T[3] is held whose data IO has latched: the latched word is offered for *)
(* one cycle, stalled or not, and a load that step_cycle holds there would *)
(* take the word of its own fetch.                                         *)
InBounds ==
  /\ T(0) => word(pc) \in DOMAIN m /\ m[word(pc)] \in Instructions
  /\ accesses /\ ~io_op => word(mem_addr) \in DataWords
  /\ T(3) /\ I({I_LD}) /\ IO_LD_completed => ~dbg_stall

(* The ways in which the core does what its instruction set says:          *)
(* instructions are aligned, a device is read by words, a csrrw names a    *)
(* source and a csrrs or csrrc with a source a destination, and the        *)
(* debugger never holds an access with an effect, which is made in every   *)
(* cycle it is held.                                                       *)
Regular ==
  /\ T(0) => pc % 4 = 0
  /\ io_op /\ I({I_LD}) => dc.opID = "lw"
  /\ csrrx => IF csr_op \in Writes THEN dc.I_rs1 # 0 ELSE dc.I_rd # 0 \/ dc.I_rs1 = 0
  /\ io_op \/ (accesses /\ I({I_ST})) => ~dbg_stall

(* Every cycle of the core is a step of the instruction set or no step at  *)
(* all: phases, stalls, the serial multiplier, bus latency and debug halts *)
(* change nothing a program can see.  In particular an IO access is made   *)
(* once, an interrupt that is due comes before the next instruction, and   *)
(* mepc is the instruction that has not run.                               *)
loadAddr == Wrap(getOperand(dc.I_rs1) + dc.imm)

Arch_None == [opcode |-> 0]

Arch == INSTANCE Isa WITH
          pc   <- IF T(0) THEN pc ELSE tr,
          ir   <- IF T(0) THEN Arch_None ELSE IF T(1) THEN dout ELSE ir,
          mem  <- m,
          hold <- (IF step_mode THEN {"trap"} ELSE {})
                    \union (IF ignore_wfi THEN {"wfi"} ELSE {}),
          dev  <- IF T(3) /\ IO_LD_completed /\ ~isSysctrl(loadAddr)
                  THEN (dev + DevValues - 1) % DevValues ELSE dev

ImplementsIsa == (\E p \in Programs : Arch!Init(image(p.code))) /\ Arch!Behaviour

(* A core halted by step_in has completed exactly one instruction since    *)
(* the button let it go (DBG_step_in: "advance 1 instruction").            *)
StepsOneInstruction ==
  (dbg_com = "step_in" /\ dbg.step_pending = 3) => steps = 1

(* In run mode a pending interrupt that is enabled does not stay: the core *)
(* leaves wfi, multiplier and IO access behind and takes the trap.         *)
InterruptTaken == (irq /\ dbg_com = "run") ~> ~irq

(* A button that releases a halted core halts it again: at the end of the  *)
(* cycle or of the instruction or, when it runs to the end of a function,  *)
(* there or at the next wfi.                                               *)
Waiting(actions) == dbg_com \in actions /\ dbg.step_pending = 1

StepCompletes ==
  /\ Waiting({"step_cycle", "step_in"}) ~> (dbg.step_pending = 3)
  /\ Waiting({"step_over", "step_out"}) ~> (dbg.step_pending = 3 \/ wfi)

(* A csrrs or csrrc sets or clears bits of the register it names, with any *)
(* rd ("rd <- csr, csr <- csr | rs1").                                     *)
CsrUpdated ==
  [][csrrx /\ inst_completed =>
       csr' = do_csrrx(csr, mip, bus1, dc.imm, csr_op, dc.I_rd).csr]_vars
=============================================================================

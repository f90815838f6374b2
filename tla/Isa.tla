-------------------------------- MODULE Isa --------------------------------
(***************************************************************************)
(* What one instruction does: RV32ISim, the instruction set simulator of   *)
(* src/rv32.cpp.  It is the specification that Core is shown to implement. *)
(*                                                                         *)
(* RV32ISim::step is two actions here, Fetch and Execute, with interrupts  *)
(* coming in between.  A step of the simulator that finds the device not   *)
(* ready (io.stalled) changes nothing and is left out.  Four things are    *)
(* those of the hardware core where the simulator differs: an interrupt is *)
(* also taken before an IO instruction, where the simulator always makes   *)
(* the access first; mul multiplies, where compute falls to the xor that   *)
(* shares its code; wfi waits, where the simulator stops; and mret clears  *)
(* bit 0 of pc.                                                            *)
(***************************************************************************)
EXTENDS Csr, Decoder

CONSTANTS NRegs,       \* general registers: 32 in the source
          MemWords,    \* words of memory, from address 0: MEM_SIZE
          IOBase,      \* first address outside the memory
          Sysctrl,     \* address of the interrupt controller
          DevValues    \* a device register counts its reads, modulo DevValues

VARIABLES
  pc,     \* address of the instruction to fetch, or of the one fetched
  ir,     \* the instruction fetched, decoded, or None
  xreg,   \* registers x1, ...
  mem,    \* decoded instructions, and data words [data |-> ...]
  csr,
  mip,    \* interrupts pending: set by the world
  hold,   \* what the debugger switches off: "trap", "wfi"; set by the world
  dev,    \* a device register whose value changes when it is read
  out     \* the last IO write, and the number of IO writes

cpuVars == <<pc, ir, xreg, mem, csr>>
ioVars  == <<dev, out>>
vars    == <<cpuVars, mip, hold, ioVars>>

None == [opcode |-> 0]
Regs == 1 .. NRegs - 1

getOperand(x, id) == IF id = 0 THEN 0 ELSE x[id]
writeReg(x, id, rd) == IF id = 0 THEN x ELSE [x EXCEPT ![id] = rd]

MEM_ADDR_OUT_OF_BOUNDS(addr) == addr >= IOBase
isSysctrl(addr) == addr \div 32 = Sysctrl \div 32

(* What the core's data memory and the bus answer to a load.  The          *)
(* interrupt controller's registers belong to the world.                   *)
ioData(addr) == IF isSysctrl(addr) THEN 0 .. 3 ELSE {dev}

wrote(addr, wdata) == [addr |-> addr, wdata |-> wdata, count |-> (out.count + 1) % 3]

-----------------------------------------------------------------------------
dc     == ir
rs1    == getOperand(xreg, dc.I_rs1)
rs2    == getOperand(xreg, dc.I_rs2)
nxt_pc == Wrap(pc + 4)

pc_imm  == Wrap(pc + dc.imm)
rs1_imm == Wrap(rs1 + dc.imm)

even(addr) == addr - (addr % 2)
word(addr) == addr \div 4

(* The end of every instruction: rd is written, pc moves on. *)
Retire(rd, next_pc) == /\ xreg' = writeReg(xreg, dc.I_rd, rd)
                       /\ pc' = next_pc
                       /\ ir' = None

Compute == /\ dc.opcode \in {I_COMP, I_COMPI}
           /\ LET op2 == IF dc.opcode = I_COMPI THEN Wrap(dc.imm) ELSE rs2
              IN  Retire(IF dc.opID = "mul" THEN Wrap(rs1 * rs2)
                                            ELSE compute(rs1, op2, dc.opID), nxt_pc)
           /\ UNCHANGED <<mem, csr, ioVars>>

Branch == /\ dc.opcode = I_BR
          /\ Retire(0, IF compute(rs1, rs2, dc.opID) % 2 = 1 THEN pc_imm ELSE nxt_pc)
          /\ UNCHANGED <<mem, csr, ioVars>>

Upper == /\ dc.opcode \in {I_LUI, I_AUIPC}
         /\ Retire(IF dc.opcode = I_LUI THEN Wrap(dc.imm) ELSE pc_imm, nxt_pc)
         /\ UNCHANGED <<mem, csr, ioVars>>

Jump == /\ dc.opcode \in {I_JAL, I_JALR}
        /\ Retire(nxt_pc, IF dc.opcode = I_JAL THEN pc_imm ELSE even(rs1_imm))
        /\ UNCHANGED <<mem, csr, ioVars>>

Load == /\ dc.opcode = I_LD
        /\ ~MEM_ADDR_OUT_OF_BOUNDS(rs1_imm)
        /\ Aligned(rs1_imm, ld_size(dc.opID))
        /\ Retire(formatRead(rs1_imm, dc.opID, mem[word(rs1_imm)].data), nxt_pc)
        /\ UNCHANGED <<mem, csr, ioVars>>

Store == /\ dc.opcode = I_ST
         /\ ~MEM_ADDR_OUT_OF_BOUNDS(rs1_imm)
         /\ Aligned(rs1_imm, st_size(dc.opID))
         /\ mem' = [mem EXCEPT ![word(rs1_imm)].data =
                      storeMemByteEnable(@, shiftedData(rs1_imm, rs2),
                                         byteEnable(rs1_imm, dc.opID))]
         /\ Retire(0, nxt_pc)
         /\ UNCHANGED <<csr, ioVars>>

(* An access outside the memory.  Reading the device's register has the    *)
(* effect that its value changes.                                          *)
LoadIO == /\ dc.opcode = I_LD
          /\ MEM_ADDR_OUT_OF_BOUNDS(rs1_imm)
          /\ Aligned(rs1_imm, ld_size(dc.opID))
          /\ \E data \in ioData(rs1_imm) :
               Retire(formatRead(rs1_imm, dc.opID, data), nxt_pc)
          /\ dev' = IF isSysctrl(rs1_imm) THEN dev ELSE (dev + 1) % DevValues
          /\ UNCHANGED <<mem, csr, out>>

StoreIO == /\ dc.opcode = I_ST
           /\ MEM_ADDR_OUT_OF_BOUNDS(rs1_imm)
           /\ Aligned(rs1_imm, st_size(dc.opID))
           /\ out' = wrote(rs1_imm, shiftedData(rs1_imm, rs2))
           /\ Retire(0, nxt_pc)
           /\ UNCHANGED <<mem, csr, dev>>

AccessCsr == /\ dc.opcode = I_SYS /\ dc.opID \in Zicsr
             /\ LET val == IF dc.opID \in ZicsrImm THEN dc.I_rs1 ELSE rs1
                    res == do_csrrx(csr, mip, val, dc.imm, dc.opID, dc.I_rd)
                IN  Retire(res.rd, nxt_pc) /\ csr' = res.csr
             /\ UNCHANGED <<mem, ioVars>>

Mret == /\ dc.opcode = I_SYS /\ dc.opID = "mret"
        /\ csr' = do_mret(csr)
        /\ Retire(0, even(csr.mepc))
        /\ UNCHANGED <<mem, ioVars>>

Wfi == /\ dc.opcode = I_SYS /\ dc.opID = "wfi"
       /\ interrupt_detected(csr, mip) \/ "wfi" \in hold
       /\ Retire(0, nxt_pc)
       /\ UNCHANGED <<mem, csr, ioVars>>

Execute == /\ ir # None
           /\ \/ Compute \/ Branch \/ Upper \/ Jump \/ Load \/ Store
              \/ LoadIO \/ StoreIO \/ AccessCsr \/ Mret \/ Wfi

(* The next instruction starts: never past an interrupt that is due. *)
Fetch == /\ ir = None
         /\ ~interrupt_detected(csr, mip) \/ "trap" \in hold
         /\ ir' = mem[word(pc)]
         /\ UNCHANGED <<pc, xreg, mem, csr, ioVars>>

Trap == /\ ir = None
        /\ interrupt_detected(csr, mip) /\ "trap" \notin hold
        /\ csr' = do_trap(csr, mip, pc)
        /\ pc' = even(csr.mtvec)
        /\ UNCHANGED <<ir, xreg, mem, ioVars>>

(* Interrupts come and go, and the debugger takes over, at any time. *)
World == /\ mip' \in SUBSET Causes
         /\ hold' \in SUBSET {"trap", "wfi"}

Next == World /\ (Fetch \/ Trap \/ Execute \/ UNCHANGED <<cpuVars, ioVars>>)

(* A program in memory, and everything else at rest. *)
Init(program) == /\ pc = 0 /\ ir = None
                 /\ xreg = [r \in Regs |-> 0]
                 /\ mem = program
                 /\ csr = csrInit
                 /\ mip = {} /\ hold \in SUBSET {"trap", "wfi"}
                 /\ dev = 0
                 /\ out = [addr |-> 0, wdata |-> 0, count |-> 0]

Behaviour == [][Next]_vars
=============================================================================

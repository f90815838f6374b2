-------------------------------- MODULE Csr --------------------------------
(***************************************************************************)
(* The control and status registers of src/rv32.h, rv32csr_inc.h and       *)
(* rv32.cpp, as functions on the register file c: what an instruction      *)
(* reads and writes, what a trap and mret do.                              *)
(*                                                                         *)
(* mip is not a member of c.  It is overwritten from the interrupt         *)
(* controller at the end of every cycle, so a write to it is lost, and it  *)
(* is passed as the set of its pending causes.  The counters, which only   *)
(* the profiler of src/rv_test/io.c reads, are left out.                   *)
(***************************************************************************)
EXTENDS Words

(* A word holds the bits of mstatus. *)
ASSUME WidthAssumption == XLEN > 12

(* Bit numbers of mstatus. *)
MIE  == 3
MPIE == 7
MPP  == {11, 12}

(* Causes of interrupts, which are also their bits in mie and mip. *)
Timer    == 7
External == 11
Causes   == {Timer, External}

CSR_RW == {"mstatus", "mie", "mtvec", "mscratch", "mepc", "mcause", "mtval"}

(* WARL: the bits a write may change. *)
WriteMask(name) == CASE name = "mstatus"      -> {MIE, MPIE} \union MPP
                     [] name = "mie"          -> {3, Timer, External}
                     [] name = "mtvec"        -> 2 .. XLEN - 1
                     [] OTHER                 -> 0 .. XLEN - 1

csrName(addr) == CASE addr = 768 -> "mstatus"    \* 0x300
                   [] addr = 772 -> "mie"
                   [] addr = 773 -> "mtvec"
                   [] addr = 832 -> "mscratch"
                   [] addr = 833 -> "mepc"
                   [] addr = 834 -> "mcause"
                   [] addr = 835 -> "mtval"
                   [] addr = 836 -> "mip"
                   [] addr = 769 -> "misa"
                   [] addr \in 3857 .. 3860 -> "mvendorid"   \* and its like
                   [] OTHER      -> "none"

(* The registers a program can name; those with bits [11:10] set may not   *)
(* be written.  An access that is refused has no other effect.             *)
checkAccess(addr, write) ==
  /\ write => addr \div 1024 # 3
  /\ csrName(addr) # "none"

read(c, mip, addr) ==
  CASE csrName(addr) \in CSR_RW -> c[csrName(addr)]
    [] csrName(addr) = "mip"    -> Num(mip)
    [] csrName(addr) = "misa"   -> 2^(XLEN - 2) + 2^8
    [] OTHER                    -> 0

write(c, addr, wdata) ==
  IF csrName(addr) \notin CSR_RW THEN c
  ELSE [c EXCEPT ![csrName(addr)] = Num(Bits(wdata) \intersect WriteMask(csrName(addr)))]

csrInit == [name \in CSR_RW |-> 0]

-----------------------------------------------------------------------------
(* Interrupts that are pending and enabled, one by one and all together. *)
irq_vec(c, mip) == {i \in mip : isSet(c.mie, i)}
interrupt_detected(c, mip) == irq_vec(c, mip) # {} /\ isSet(c.mstatus, MIE)

(* The top bit of mcause tells an interrupt from an exception. *)
interruptCause(n) == 2^(XLEN - 1) + n

(* A faulty do_trap, which leaves interrupts on. *)
do_trap_keeps_mie(c, mip, pc) ==
  [c EXCEPT !.mcause = IF External \in irq_vec(c, mip) THEN interruptCause(External)
                       ELSE IF Timer \in irq_vec(c, mip) THEN interruptCause(Timer) ELSE @,
            !.mtval = 0,
            !.mstatus = 3 * 2^11 + 2^MIE + (IF isSet(@, MIE) THEN 2^MPIE ELSE 0),
            !.mepc = pc]

(* mpie takes the value of mie, mie goes off, and mpp becomes 3.  The new  *)
(* pc is mtvec.                                                            *)
do_trap(c, mip, pc) ==
  [c EXCEPT !.mcause = IF External \in irq_vec(c, mip) THEN interruptCause(External)
                       ELSE IF Timer \in irq_vec(c, mip) THEN interruptCause(Timer) ELSE @,
            !.mtval = 0,
            !.mstatus = 3 * 2^11 + (IF isSet(@, MIE) THEN 2^MPIE ELSE 0),
            !.mepc = pc]

(* A faulty do_mret, which leaves interrupts off. *)
do_mret_masked(c) == [c EXCEPT !.mstatus = Num({MPIE})]

(* mie takes the value of mpie, and mpie goes on.  The new pc is mepc. *)
do_mret(c) ==
  [c EXCEPT !.mstatus = Num({MPIE} \union (IF isSet(@, MPIE) THEN {MIE} ELSE {}))]

-----------------------------------------------------------------------------
(* The Zicsr instructions. *)
Writes == {"csrrw", "csrrwi"}
Sets   == {"csrrs", "csrrsi"}
Clears == {"csrrc", "csrrci"}

Zicsr      == Writes \union Sets \union Clears
ZicsrImm   == {"csrrwi", "csrrsi", "csrrci"}

csr_wdata(old, rs1, csr_op) == CASE csr_op \in Writes -> rs1
                                 [] csr_op \in Sets   -> Or(old, rs1)
                                 [] OTHER              -> And(old, Not(rs1))

(* RV32ISim: the value of rd and the register file afterwards.  rd = x0    *)
(* skips the read of a csrrw, rs1 = 0 the write of the others.             *)
do_csrrx(c, mip, rs1, addr, csr_op, rdID) ==
  LET skipRead  == csr_op \in Writes /\ rdID = 0
      skipWrite == csr_op \notin Writes /\ rs1 = 0
      old == IF skipRead THEN 0 ELSE read(c, mip, addr)
  IN  IF ~checkAccess(addr, ~skipWrite) THEN [rd |-> 0, csr |-> c]
      ELSE [rd |-> old,
            csr |-> IF skipWrite THEN c ELSE write(c, addr, csr_wdata(old, rs1, csr_op))]

(* RV32I_ARCH1: rd = x0 skips the read and rs1 = x0 the write, for every   *)
(* instruction.  A refused access only sets a flag.                        *)
csr_val(c, mip, addr, rdID) == IF rdID # 0 THEN read(c, mip, addr) ELSE 0

writeback(c, old, rs1, addr, csr_op, rs1ID) ==
  IF rs1ID # 0 THEN write(c, addr, csr_wdata(old, rs1, csr_op)) ELSE c
=============================================================================

------------------------------ MODULE Decoder ------------------------------
(***************************************************************************)
(* The instruction decoder DC of src/rv32.cpp.  An instruction word is the *)
(* record of its fields: the bits [6:0] opcode, [11:7] rd, [14:12] f3,     *)
(* [19:15] rs1, [24:20] rs2 and [31:25] f7.  Immediates are split over the *)
(* fields and are put together, with their sign, as numbers.               *)
(***************************************************************************)
EXTENDS Integers

I_COMP  == 51   I_COMPI == 19   I_LUI  == 55   I_AUIPC == 23
I_LD    == 3    I_ST    == 35   I_JAL  == 111  I_JALR  == 103
I_BR    == 99   I_SYS   == 115

Opcodes == {I_COMP, I_COMPI, I_LUI, I_AUIPC, I_LD, I_ST, I_JAL, I_JALR, I_BR, I_SYS}

Instruction == [opcode : 0 .. 127, rd : 0 .. 31, f3 : 0 .. 7,
                rs1 : 0 .. 31, rs2 : 0 .. 31, f7 : 0 .. 127]

(* What the decoder answers when no case of a switch applies: opID = 0. *)
Illegal == "illegal"

-----------------------------------------------------------------------------
(* funct3 and funct7 *)

validateComp(f3, f7, isCOMPI) ==
  CASE f3 = 0 -> isCOMPI \/ f7 \in {0, 32}
    [] f3 = 5 -> f7 \in {0, 32}
    [] f3 = 1 -> f7 = 0
    [] OTHER  -> isCOMPI \/ f7 = 0

decComp(f3, f7, isCOMPI) ==
  IF ~validateComp(f3, f7, isCOMPI) THEN Illegal
  ELSE CASE f3 = 0 -> IF isCOMPI \/ f7 = 0 THEN "add" ELSE "sub"
         [] f3 = 2 -> "lt"
         [] f3 = 3 -> "ltu"
         [] f3 = 7 -> "and"
         [] f3 = 6 -> "or"
         [] f3 = 4 -> "xor"
         [] f3 = 1 -> "sll"
         [] f3 = 5 -> IF f7 = 0 THEN "srl" ELSE "sra"

(* Tables by funct3, from 0 on. *)
decMD(f3) == <<"mul", "mulh", "mulhsu", "mulhu", "div", "divu", "rem", "remu">>[f3 + 1]

decBranch(f3) == <<"eq", "ne", Illegal, Illegal, "lt", "ge", "ltu", "geu">>[f3 + 1]
decLD(f3) == <<"lb", "lh", "lw", Illegal, "lbu", "lhu", Illegal, Illegal>>[f3 + 1]
decST(f3) == <<"sb", "sh", "sw", Illegal, Illegal, Illegal, Illegal, Illegal>>[f3 + 1]

(* csrrw and its kin are selected by f3; mret and wfi by the immediate. *)
decSYS(imm12, f3, zero_19_7) ==
  IF f3 # 0
    THEN <<"csrrw", "csrrs", "csrrc", Illegal, "csrrwi", "csrrsi", "csrrci">>[f3]
    ELSE CASE zero_19_7 /\ imm12 = 770 -> "mret"
           [] zero_19_7 /\ imm12 = 261 -> "wfi"
           [] OTHER -> Illegal

-----------------------------------------------------------------------------
(* Immediates *)

imm12(ir) == ir.f7 * 32 + ir.rs2

(* IR_SEXT(b): the sign bit, spread from bit 31 - b upwards. *)
IR_SEXT(ir, b) == IF ir.f7 >= 64 THEN -(2^(31 - b)) ELSE 0

(* x | y, when one may be negative, of bits that do not overlap except     *)
(* that y may set bits the sign has set already.                           *)
orSign(sext, y, width) == IF sext = 0 THEN y ELSE sext + (y % 2^width)

imm_Itype(ir) == IF ir.f7 >= 64 THEN imm12(ir) - 4096 ELSE imm12(ir)
imm_Stype(ir) == orSign(IR_SEXT(ir, 20), ir.f7 * 32 + ir.rd, 11)

imm_Btype(ir) ==
  orSign(IR_SEXT(ir, 20), (ir.rd % 2) * 2048 + (ir.f7 % 64) * 32 + (ir.rd \div 2) * 2, 11)

(* The upper twenty bits, a signed number as the others are. *)
imm_Utype(ir) ==
  LET high == ((ir.f7 * 32 + ir.rs2) * 32 + ir.rs1) * 8 + ir.f3
  IN (IF ir.f7 >= 64 THEN high - 2^20 ELSE high) * 4096

imm_Jtype(ir) ==
  orSign(IR_SEXT(ir, 12),
         (ir.rs1 * 8 + ir.f3) * 4096 + (ir.rs2 % 2) * 2048 + (imm12(ir) \div 2 % 1024) * 2, 19)

immOf(ir) ==
  CASE ir.opcode \in {I_COMPI, I_LD, I_JALR} -> imm_Itype(ir)
    [] ir.opcode = I_ST  -> imm_Stype(ir)
    [] ir.opcode = I_JAL -> imm_Jtype(ir)
    [] ir.opcode = I_BR  -> imm_Btype(ir)
    [] ir.opcode = I_SYS -> imm12(ir)
    [] ir.opcode \in {I_LUI, I_AUIPC} -> imm_Utype(ir)
    [] OTHER             -> 0

-----------------------------------------------------------------------------
isMD(ir) == ir.opcode = I_COMP /\ ir.f7 = 1

opIDOf(ir) ==
  CASE ir.opcode = I_COMP  -> IF isMD(ir) THEN decMD(ir.f3) ELSE decComp(ir.f3, ir.f7, FALSE)
    [] ir.opcode = I_COMPI -> decComp(ir.f3, ir.f7, TRUE)
    [] ir.opcode = I_LD    -> decLD(ir.f3)
    [] ir.opcode = I_ST    -> decST(ir.f3)
    [] ir.opcode = I_BR    -> decBranch(ir.f3)
    [] ir.opcode = I_SYS   -> decSYS(imm12(ir), ir.f3, ir.rd = 0 /\ ir.f3 = 0 /\ ir.rs1 = 0)
    [] OTHER               -> "none"

(* setRegID: a register an instruction format does not have is x0. *)
decode(ir) ==
  [opcode |-> ir.opcode,
   opID   |-> opIDOf(ir),
   I_rd   |-> IF ir.opcode \in {I_ST, I_BR} THEN 0 ELSE ir.rd,
   I_rs1  |-> IF ir.opcode \in {I_LUI, I_AUIPC, I_JAL} THEN 0 ELSE ir.rs1,
   I_rs2  |-> IF ir.opcode \in {I_COMP, I_ST, I_BR} THEN ir.rs2 ELSE 0,
   imm    |-> immOf(ir),
   isMD   |-> isMD(ir),
   error  |-> ir.opcode \notin Opcodes \/ opIDOf(ir) = Illegal]
=============================================================================

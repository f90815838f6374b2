------------------------------- MODULE MCCore -------------------------------
(* Programs for the core, assembled by hand. *)
EXTENDS Core, Sequences

R(f7, s2, s1, f3, rd, o) == [opcode |-> o, rd |-> rd, f3 |-> f3, rs1 |-> s1, rs2 |-> s2, f7 |-> f7]
Itype(i, s1, f3, rd, o)  == R((i % 4096) \div 32, i % 32, s1, f3, rd, o)
Stype(i, s2, s1, f3, o)  == R((i % 4096) \div 32, s2, s1, f3, i % 32, o)

(* Offsets of branches and jumps are even; only short ones are assembled. *)
branch(i, s1, s2, f3) ==
  LET n == i % 8192
  IN  R((n \div 4096) * 64 + ((n \div 32) % 64), s2, s1, f3,
        ((n \div 2) % 16) * 2 + ((n \div 2048) % 2), I_BR)
jal(rd, i) ==
  LET n == i % 2^21
  IN  R((n \div 2^20) * 64 + ((n \div 32) % 64), (n % 32) + ((n \div 2048) % 2),
        (n \div 2^15) % 32, (n \div 4096) % 8, rd, I_JAL)

lui(rd, i)         == R((i \div 2^13) % 128, (i \div 2^8) % 32, (i \div 2^3) % 32, i % 8, rd, I_LUI)
auipc(rd, i)       == [lui(rd, i) EXCEPT !.opcode = I_AUIPC]
addi(rd, s1, i)    == Itype(i, s1, 0, rd, I_COMPI)
srai(rd, s1, i)    == Itype(i + 1024, s1, 5, rd, I_COMPI)
add(rd, s1, s2)    == R(0, s2, s1, 0, rd, I_COMP)
sub(rd, s1, s2)    == R(32, s2, s1, 0, rd, I_COMP)
mul(rd, s1, s2)    == R(1, s2, s1, 0, rd, I_COMP)
lw(rd, i, s1)      == Itype(i, s1, 2, rd, I_LD)
lb(rd, i, s1)      == Itype(i, s1, 0, rd, I_LD)
sw(s2, i, s1)      == Stype(i, s2, s1, 2, I_ST)
sb(s2, i, s1)      == Stype(i, s2, s1, 0, I_ST)
beq(s1, s2, i)     == branch(i, s1, s2, 0)
jalr(rd, s1, i)    == Itype(i, s1, 0, rd, I_JALR)
ret                == jalr(0, 1, 0)
csrrw(rd, c, s1)   == Itype(c, s1, 1, rd, I_SYS)
csrrs(rd, c, s1)   == Itype(c, s1, 2, rd, I_SYS)
csrrsi(rd, c, z)   == Itype(c, z, 6, rd, I_SYS)
mret_inst          == Itype(770, 0, 0, 0, I_SYS)
wfi_inst           == Itype(261, 0, 0, 0, I_SYS)

mstatus == 768
mie     == 772
mtvec   == 773

(* A program, by word address. *)
Code(s) == [a \in 0 .. Len(s) - 1 |-> s[a + 1]]

(* Interrupts of both lines and of the timer, a handler that withdraws     *)
(* what it has read, and accesses to a device in between.                  *)
IOProgram == Code(<<
  lui(3, 1),             \* 0: the interrupt controller
  lui(4, 2),             \*    the device
  addi(2, 0, 48),        \* the handler
  csrrw(0, mtvec, 2),
  addi(2, 0, 3),
  sw(2, 8, 3),           \* ext_irq_enable
  addi(2, 0, -1),
  csrrw(0, mie, 2),
  csrrsi(2, mstatus, 8),
  lw(5, 0, 4),           \* 36: the loop
  sw(5, 4, 4),
  jal(0, -8),
  lw(2, 0, 3),           \* 48: the handler
  sw(2, 0, 3),
  mret_inst >>)

(* A loop that waits for a button and calls a function. *)
StepProgram == Code(<<
  lui(3, 1),
  addi(2, 0, 2),
  sw(2, 8, 3),           \* ext_irq_enable
  lui(2, 1),
  srai(2, 2, 1),
  csrrw(0, mie, 2),      \* mie.meie
  csrrsi(2, mstatus, 8),
  addi(5, 0, -3),
  wfi_inst,              \* 32: the loop
  jal(1, 12),            \*     call 48
  beq(0, 0, -8),
  ret,
  addi(2, 0, 3),         \* 48: the function
  mul(2, 2, 5),
  sb(2, 85, 0),
  lb(2, 85, 0),
  auipc(4, 0),
  ret >>)

(* Without stores, which a core halted in T[2] goes on making. *)
CycleProgram == [StepProgram EXCEPT ![14] = sub(2, 2, 5)]

(* Enables the external and then the timer interrupt, each on its own, as  *)
(* enable_timer_interrupt of io.c does.                                    *)
CsrProgram == Code(<<
  addi(2, 0, 1024),
  add(2, 2, 2),
  csrrs(3, mie, 2),
  addi(2, 0, 128),
  csrrs(0, mie, 2),
  jal(0, 0) >>)

IOScenario    == [code |-> IOProgram, actions |-> {"run"}, sources |-> {UART, Timer}]
StepScenario  == [code |-> StepProgram, actions |-> Actions \ {"step_cycle"},
                  sources |-> {BUTTON}]
CycleScenario == [code |-> CycleProgram, actions |-> {"step_cycle"}, sources |-> {BUTTON}]
CsrScenario   == [code |-> CsrProgram, actions |-> {"run"}, sources |-> {}]

MCPrograms    == {IOScenario, StepScenario, CycleScenario}
MCCsrPrograms == {CsrScenario}
MCDataWords   == 20 .. MemWords - 1

(* The ALU, the shifters and the comparisons of the core compute what those *)
(* of the simulator do, on words where carries, signs and shift amounts     *)
(* meet.  (ALUsAreEqual of Datapath_proofs has it for all words.)           *)
Corners == {0, 1, 2, 3, XLEN - 1, XLEN, XLEN + 1, 2^(XLEN - 1) - 1, 2^(XLEN - 1),
            2^(XLEN - 1) + 1, 2^XLEN - 2, 2^XLEN - 1}
             \union {Num({1, 4, 6, XLEN - 2}), Num({0, 2, 3, XLEN - 1})}

ASSUME ALUsAgree ==
  \A x, y \in Corners, op1 \in CompOps : ALUcompute(x, y, op1) = compute(x, y, op1)

(* What a store has written, the load of the same size reads back, and the *)
(* other bytes of the word stay: shiftedData, byteEnable and formatRead    *)
(* agree about the lanes.  (LoadReadsBack and StoreWritesItsLanes of       *)
(* Datapath_proofs have it for all words.)                                 *)
sizes == {<<"lb", "sb">>, <<"lbu", "sb">>, <<"lh", "sh">>, <<"lhu", "sh">>, <<"lw", "sw">>}

cutTo(t, x) == LET n == 2^(ByteBits * ld_size(t))
               IN  IF ld_sext(t) /\ x % n >= n \div 2 THEN Wrap((x % n) - n) ELSE x % n

ASSUME LanesAgree ==
  \A w, x \in Corners, p \in sizes :
    \A a \in {b \in 0 .. 3 : Aligned(b, ld_size(p[1]))} :
      LET to == storeMemByteEnable(w, shiftedData(a, x), byteEnable(a, p[2]))
      IN  /\ formatRead(a, p[1], to) = cutTo(p[1], x)
          /\ \A k \in (0 .. 3) \ (a .. a + ld_size(p[1]) - 1) : lane(to, k) = lane(w, k)
=============================================================================

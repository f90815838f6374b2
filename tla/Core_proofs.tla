----------------------------- MODULE Core_proofs -----------------------------
(***************************************************************************)
(* The multi-cycle core, for every program, memory size and bus latency:   *)
(* a core that single-steps executes one instruction at a time, its        *)
(* registers keep their types, and it implements the instruction set Isa.  *)
(***************************************************************************)
EXTENDS Core, Datapath_proofs

(* Single steps, with the button as the only source of interrupts. *)
Stepping == dbg_com = "step_in" /\ sources \subseteq {BUTTON}

(* The multiplier is at work only while its instruction is in T[2]. *)
MdIdle == md.stt # 0 => mul_op /\ dc.opID = "mul"

(* The registers of the debug interface, and a phase. *)
DebugShape == /\ sc \in 0 .. 3
              /\ dbg = [step_pending |-> dbg.step_pending,
                        step_halt_condition |-> dbg.step_halt_condition,
                        step_target_pc |-> dbg.step_target_pc]

(* Nothing but the button asks, and a core that is told to go is told to   *)
(* halt at the next instruction.                                           *)
OnlyButton == /\ mip \subseteq {External} /\ ext_irq_pending \subseteq {BUTTON}
              /\ dbg.step_pending # 0 => dbg.step_halt_condition = "step_in"

(* The button has been pressed and its request is about to be withdrawn:   *)
(* the core stays where it is, at the end of wfi or behind the fetch.      *)
Waits == dbg.step_pending = 1 =>
  /\ (sc = 0 /\ steps = 1) \/ (sc = 1 /\ steps = 0)
  /\ BUTTON \in ext_irq_enable /\ isSet(csr.mie, External) /\ isSet(csr.mstatus, MIE)
  /\ BUTTON \in ext_irq_pending => External \in mip

(* The core runs, and no request is left to wake it but in the next wfi. *)
Runs == dbg.step_pending = 2 =>
  /\ steps = IF sc = 0 THEN 1 ELSE 0
  /\ External \in mip => wfi /\ button_irq
  /\ BUTTON \in ext_irq_pending => wfi

(* What interrupts a halted core is the button. *)
Halted == dbg.step_pending = 3 => sc = 0 /\ steps = 1 /\ (External \in mip => button_irq)

StepInv == /\ MdIdle /\ DebugShape
           /\ Stepping => dbg.step_pending \in 0 .. 3 /\ OnlyButton /\ Waits /\ Runs /\ Halted

-----------------------------------------------------------------------------
(* What a cycle may do, whatever the instruction is. *)

(* Every phase goes on to the next one, ends the instruction or waits. *)
LEMMA PhaseMoves ==
  ASSUME sc \in 0 .. 3, Phase
  PROVE  /\ sc' \in 0 .. 3
         /\ T(0) => T0_Trap \/ T0_Fetch
         /\ T(1) => sc' = 2
         /\ wfi => T2_Wfi
         /\ T(2) /\ ~wfi => sc' \in {0, 3}
         /\ T(3) => sc' = 0
<1> USE DEF T, advance, complete
<1>1. T(0) => (T0_Trap \/ T0_Fetch) /\ sc' \in 0 .. 3
  BY SMT DEF Phase, T0_Trap, T0_Fetch, T1_Decode, T2_Compute, T2_Load, T2_Store, T2_Jump,
             T2_Branch, T2_Csr, T2_Mret, T2_Wfi, T3_Load, T3_Branch, wfi, csr_op, csrrx, mret
<1>2. T(1) => sc' = 2
  BY SMT DEF Phase, T0_Trap, T0_Fetch, T1_Decode, T2_Compute, T2_Load, T2_Store, T2_Jump,
             T2_Branch, T2_Csr, T2_Mret, T2_Wfi, T3_Load, T3_Branch, trap_occurred
<1>3. T(3) => sc' = 0
  BY SMT DEF Phase, T0_Trap, T0_Fetch, T1_Decode, T2_Compute, T2_Load, T2_Store, T2_Jump,
             T2_Branch, T2_Csr, T2_Mret, T2_Wfi, T3_Load, T3_Branch, trap_occurred
<1>4. T(2) /\ ~wfi => sc' \in {0, 3}
  BY SMT DEF Phase, T0_Trap, T0_Fetch, T1_Decode, T2_Compute, T2_Load, T2_Store, T2_Jump,
             T2_Branch, T2_Csr, T2_Mret, T2_Wfi, T3_Load, T3_Branch, trap_occurred
<1>5. wfi => T2_Wfi /\ sc' \in 0 .. 3
  <2> SUFFICES ASSUME wfi PROVE T2_Wfi /\ sc' \in 0 .. 3
    OBVIOUS
  <2>1. T(2) /\ ir.opcode = I_SYS /\ ir.opID = "wfi"
    BY SMT DEF wfi, csr_op, I, dc
  <2>2. ~mret /\ ~csrrx
    BY <2>1, SMT DEF mret, csrrx, csr_op, wfi, Zicsr, Writes, Sets, Clears
  <2>3. T2_Wfi
    BY <2>1, <2>2, SMT DEF Phase, T0_Trap, T0_Fetch, T1_Decode, T2_Compute, T2_Load, T2_Store,
       T2_Jump, T2_Branch, T2_Csr, T2_Mret, T3_Load, T3_Branch, trap_occurred, I, dc,
       I_COMP, I_COMPI, I_LUI, I_AUIPC, I_LD, I_ST, I_JAL, I_JALR, I_BR, I_SYS
  <2> QED
    BY <2>3, SMT DEF T2_Wfi
<1> QED
  BY <1>1, <1>2, <1>3, <1>4, <1>5, SMT

(* Outside T[2], and in wfi, the core accesses nothing. *)
LEMMA NoAccess ==
  ASSUME ~T(2) \/ wfi
  PROVE  ~accesses /\ ~io_op /\ ~sys_op /\ ~axi_op
  BY SMT DEF accesses, io_op, sys_op, axi_op, wfi, csr_op, I, dc, I_LD, I_ST, I_SYS

(* Only the bus and the multiplier hold up a core that runs freely. *)
LEMMA Unstalled ==
  ASSUME MdIdle, Next, ~dbg_stall, ~T(2) \/ wfi
  PROVE  Run
<1>1. ~mdPending(nextMd)
  <2>1. ~mul_op \/ dc.opID # "mul"
    BY SMT DEF mul_op, wfi, csr_op
  <2> QED
    BY <2>1, SMT DEF MdIdle, nextMd, mdPending
<1>2. ~Clock(TRUE)
  BY NoAccess, Zenon DEF Clock, IO_fsm
<1> QED
  BY <1>1, <1>2, Zenon DEF Next, Stall

(* What the interrupt controller makes of its requests in a cycle in which *)
(* only the button may ask.                                                *)
Asked(edges) == ext_irq_pending \union edges
Kept(edges)  == /\ ext_irq_pending' = Asked(edges) \ irq_clear
                /\ ext_irq_enable' = ext_irq_enable
Lowered(edges) == ext_irq_pending' \subseteq Asked(edges) \ irq_clear

LEMMA ButtonClock ==
  ASSUME sources \subseteq {BUTTON}, ext_irq_pending \subseteq {BUTTON},
         NEW stalled \in BOOLEAN, Clock(stalled)
  PROVE  \E edges \in SUBSET {BUTTON} :
           /\ awaited(edges)
           /\ mip' = IF Asked(edges) \intersect ext_irq_enable # {} THEN {External} ELSE {}
           /\ Lowered(edges)
           /\ ~sys_op => Kept(edges)
<1>1. PICK intr \in SUBSET (Lines \intersect sources),
           mtip \in SUBSET ({Timer} \intersect sources) :
        awaited(intr \ d_intr) /\ Sysctrl_fsm(intr \ d_intr, mtip)
  BY Zenon DEF Clock
<1> DEFINE edges == intr \ d_intr
<1>2. edges \in SUBSET {BUTTON} /\ mtip = {}
  <2>1. Timer # BUTTON
    BY SMT DEF Timer, BUTTON
  <2> HIDE DEF Timer, BUTTON
  <2>2. mtip = {}
    BY <2>1, Zenon
  <2> QED
    BY <2>2, SMT
<1>3. mip' = IF Asked(edges) \intersect ext_irq_enable # {} THEN {External} ELSE {}
  BY <1>1, <1>2, SMT DEF Sysctrl_fsm, Asked
<1>4. Lowered(edges)
  BY <1>1, SMT DEF Sysctrl_fsm, Asked, Lowered
<1>5. ~sys_op => Kept(edges)
  BY <1>1, SMT DEF Sysctrl_fsm, Asked, Kept
<1> QED
  BY <1>1, <1>2, <1>3, <1>4, <1>5, Zenon

-----------------------------------------------------------------------------
(* One cycle of single stepping. *)

(* What is the same in every cycle of a run. *)
LEMMA SteppingStays ==
  ASSUME Next
  PROVE  dbg_com' = dbg_com /\ sources' = sources /\ (Stepping' <=> Stepping)
<1>1. dbg_com' = dbg_com /\ sources' = sources
  BY Zenon DEF Next, Run, Stall, Clock
<1> QED
  BY <1>1, Zenon DEF Stepping

LEMMA NextClock ==
  ASSUME Next
  PROVE  /\ \E stalled \in BOOLEAN : Clock(stalled)
         /\ dbg' = nextDbg /\ md' = nextMd /\ Count
  BY Zenon DEF Next, Run, Stall, Clock

(* A core that does not run stays in its phase. *)
LEMMA Held ==
  ASSUME Next, dbg_stall
  PROVE  sc' = sc /\ ir' = ir /\ csr' = csr
  BY Zenon DEF Next, Run, Stall, cpuVars

(* updateDebugInterface, case by case. *)
LEMMA NextDebug ==
  /\ released => nextDbg = [step_pending |-> 1, step_halt_condition |-> overAsIn(FALSE),
                            step_target_pc |-> 0]
  /\ ~released /\ resumed =>
       nextDbg = [step_pending |-> IF step_mode THEN 1 ELSE 0,
                  step_halt_condition |-> overAsIn(call_inst),
                  step_target_pc |-> IF overAsIn(call_inst) = "step_over"
                                     THEN Wrap(pc + 4) ELSE 0]
  /\ ~released /\ dbg.step_pending = 1 /\ ~irq =>
       nextDbg = [dbg EXCEPT !.step_pending =
                    IF dbg.step_halt_condition = "step_cycle" THEN 3 ELSE 2]
  /\ ~released /\ dbg.step_pending = 1 /\ irq => nextDbg = dbg
  /\ ~released /\ dbg.step_pending = 2 /\ T(0) /\ halt_cond =>
       nextDbg = [dbg EXCEPT !.step_pending = 3]
  /\ ~released /\ dbg.step_pending = 2 /\ ~T(0) /\ dbg.step_halt_condition # "step_out" =>
       nextDbg = dbg
  /\ ~released /\ dbg.step_pending = 3 /\ ~resumed => nextDbg = dbg
  /\ ~released /\ dbg.step_pending = 0 => nextDbg = dbg
<1> DEFINE a1 == [step_pending |-> 1, step_halt_condition |-> overAsIn(FALSE),
                   step_target_pc |-> 0]
           a2 == [step_pending |-> IF step_mode THEN 1 ELSE 0,
                  step_halt_condition |-> overAsIn(call_inst),
                  step_target_pc |-> IF overAsIn(call_inst) = "step_over"
                                     THEN Wrap(pc + 4) ELSE 0]
           a3 == [dbg EXCEPT !.step_pending =
                    IF dbg.step_halt_condition = "step_cycle" THEN 3 ELSE 2]
           a4 == IF halt_cond THEN [dbg EXCEPT !.step_pending = 3]
                 ELSE IF dbg.step_halt_condition = "step_out" /\ dbg.step_target_pc = pc
                      THEN [dbg EXCEPT !.step_target_pc = 0] ELSE dbg
           a5 == IF dbg.step_halt_condition = "step_out" /\ dbg.step_target_pc = 0 /\ call_inst
                 THEN [dbg EXCEPT !.step_target_pc = pc] ELSE dbg
<1>0. nextDbg = CASE released -> a1
                  [] ~released /\ resumed -> a2
                  [] ~released /\ dbg.step_pending = 1 /\ ~irq -> a3
                  [] ~released /\ dbg.step_pending = 2 /\ T(0) -> a4
                  [] ~released /\ dbg.step_pending = 2 /\ T(2) -> a5
                  [] OTHER -> dbg
  BY Zenon DEF nextDbg, atInstruction
<1>p. ~(0 = 1) /\ ~(0 = 2) /\ ~(0 = 3) /\ ~(1 = 2) /\ ~(1 = 3) /\ ~(2 = 3)
  OBVIOUS
<1>t. ~(T(0) /\ T(2))
  BY <1>p, Zenon DEF T
<1> HIDE DEF a1, a2, a3, a4, a5
<1>1. released => nextDbg = a1
  BY <1>0, Zenon
<1>2. ~released /\ resumed => nextDbg = a2
  BY <1>0, <1>p, Zenon DEF resumed
<1>3. ~released /\ dbg.step_pending = 1 /\ ~irq => nextDbg = a3
  BY <1>0, <1>p, Zenon DEF resumed
<1>4. ~released /\ dbg.step_pending = 2 /\ T(0) => nextDbg = a4
  BY <1>0, <1>p, <1>t, Zenon DEF resumed
<1>5. ~released /\ dbg.step_pending = 2 /\ T(2) => nextDbg = a5
  BY <1>0, <1>p, <1>t, Zenon DEF resumed
<1>6. ~released /\ dbg.step_pending = 2 /\ ~T(0) /\ ~T(2) => nextDbg = dbg
  BY <1>0, <1>p, Zenon DEF resumed
<1>7. ~released /\ dbg.step_pending = 1 /\ irq => nextDbg = dbg
  BY <1>0, <1>p, Zenon DEF resumed
<1>8. ~released /\ dbg.step_pending = 3 /\ ~resumed => nextDbg = dbg
  BY <1>0, <1>p, Zenon
<1>9. ~released /\ dbg.step_pending = 0 => nextDbg = dbg
  BY <1>0, <1>p, Zenon DEF resumed
<1>10. ~released /\ dbg.step_pending = 2 /\ T(0) /\ halt_cond =>
         nextDbg = [dbg EXCEPT !.step_pending = 3]
  BY <1>4, Zenon DEF a4
<1>11. ~released /\ dbg.step_pending = 2 /\ ~T(0) /\ dbg.step_halt_condition # "step_out" =>
         nextDbg = dbg
  BY <1>5, <1>6, Zenon DEF a5
<1> QED
  BY <1>1, <1>2, <1>3, <1>7, <1>8, <1>9, <1>10, <1>11, Zenon DEF a1, a2, a3

LEMMA DebugShapeStep ==
  ASSUME DebugShape, [Next]_vars
  PROVE  DebugShape'
<1>1. CASE UNCHANGED vars
  BY <1>1, Zenon DEF DebugShape, vars, cpuVars
<1>2. CASE Next
  <2>1. sc' \in 0 .. 3
    BY <1>2, PhaseMoves, Zenon DEF DebugShape, Next, Run, Stall, cpuVars
  <2>2. dbg' = nextDbg
    BY <1>2, NextClock, Zenon
  <2>3. nextDbg = [step_pending |-> nextDbg.step_pending,
                   step_halt_condition |-> nextDbg.step_halt_condition,
                   step_target_pc |-> nextDbg.step_target_pc]
    <3> DEFINE shaped(d) == d = [step_pending |-> d.step_pending,
                                 step_halt_condition |-> d.step_halt_condition,
                                 step_target_pc |-> d.step_target_pc]
    <3>1. \A x, y, z : shaped([step_pending |-> x, step_halt_condition |-> y,
                                step_target_pc |-> z])
      BY SMT
    <3>2. \A x : /\ shaped([dbg EXCEPT !.step_pending = x])
               /\ shaped([dbg EXCEPT !.step_target_pc = x])
      BY SMT DEF DebugShape
    <3>3. shaped(dbg)
      BY Zenon DEF DebugShape
    <3> HIDE DEF shaped
    <3>4. shaped(nextDbg)
      BY <3>1, <3>2, <3>3, Zenon DEF nextDbg, atInstruction
    <3> QED
      BY <3>4, Zenon DEF shaped
  <2> QED
    BY <2>1, <2>2, <2>3, Zenon DEF DebugShape
<1> QED
  BY <1>1, <1>2, Zenon

LEMMA MdIdleStep ==
  ASSUME MdIdle, [Next]_vars
  PROVE  MdIdle'
<1>1. CASE UNCHANGED vars
  BY <1>1, Zenon DEF MdIdle, vars, cpuVars, mul_op, T, dc
<1>2. CASE Run
  BY <1>2, SMT DEF Run, Clock, mdPending, MdIdle
<1>3. CASE Stall
  BY <1>3, SMT DEF Stall, Clock, MdIdle, cpuVars, nextMd, mul_op, T, dc
<1> QED
  BY <1>1, <1>2, <1>3, Zenon DEF Next

(* The interrupt of the button, which is the only one there is. *)
LEMMA ButtonInterrupts ==
  ASSUME mip \subseteq {External}
  PROVE  irq <=> External \in mip /\ isSet(csr.mie, External) /\ isSet(csr.mstatus, MIE)
  BY Zenon DEF irq, interrupt_detected, irq_vec

(* The four states of the debug interface, one by one. *)

LEMMA Never ==
  ASSUME MdIdle, DebugShape, Stepping, OnlyButton, Next, ~released, dbg.step_pending = 0
  PROVE  dbg'.step_pending = 0
<1>1. nextDbg = dbg
  BY NextDebug, Zenon
<1> QED
  BY <1>1, NextClock, Zenon

(* The button lets the core go from wfi, and the wfi is the instruction. *)
LEMMA Release ==
  ASSUME MdIdle, DebugShape, Stepping, OnlyButton, Next, released
  PROVE  /\ dbg'.step_pending = 1 /\ dbg'.step_halt_condition = "step_in"
         /\ sc' = 0 /\ steps' = 1
         /\ BUTTON \in ext_irq_enable' /\ External \in mip'
         /\ isSet(csr.mie, External)' /\ isSet(csr.mstatus, MIE)'
<1>1. wfi /\ irq /\ button_irq
  BY Zenon DEF released
<1>2. dbg' = [step_pending |-> 1, step_halt_condition |-> overAsIn(FALSE), step_target_pc |-> 0]
  BY NextClock, NextDebug, Zenon
<1>3. overAsIn(FALSE) = "step_in"
  BY SMT DEF overAsIn, dbg_mode, Stepping, Steps, Actions
<1>4. ~dbg_stall
  BY SMT DEF dbg_stall, step_wait_irq_clear, step_wfi
<1>5. Run
  BY <1>1, <1>4, Unstalled, Zenon
<1>6. sc' = 0 /\ csr' = csr
  <2>1. T2_Wfi
    BY <1>1, <1>5, PhaseMoves, Zenon DEF Run, DebugShape
  <2> QED
    BY <1>1, <2>1, Zenon DEF T2_Wfi
<1>7. steps' = 1
  BY NextClock, Zenon DEF Count
<1>8. PICK edges \in SUBSET {BUTTON} :
        /\ mip' = IF Asked(edges) \intersect ext_irq_enable # {} THEN {External} ELSE {}
        /\ Kept(edges)
  BY <1>1, NoAccess, NextClock, ButtonClock, Zenon DEF Stepping, OnlyButton
<1>9. BUTTON \in ext_irq_enable' /\ External \in mip'
  BY <1>1, <1>8, Zenon DEF button_irq, Asked, Kept
<1>10. isSet(csr.mie, External) /\ isSet(csr.mstatus, MIE)
  BY <1>1, ButtonInterrupts, Zenon DEF OnlyButton
<1>11. isSet(csr.mie, External)' /\ isSet(csr.mstatus, MIE)'
  BY <1>6, <1>10, Zenon DEF isSet
<1>12. dbg'.step_pending = 1 /\ dbg'.step_halt_condition = "step_in"
  <2>1. dbg' = [step_pending |-> 1, step_halt_condition |-> "step_in", step_target_pc |-> 0]
    BY <1>2, <1>3, Zenon
  <2> QED
    BY <2>1, SMT
<1> QED
  BY <1>6, <1>7, <1>9, <1>11, <1>12, Zenon

(* Until the request is withdrawn the core is held where it is. *)
LEMMA Wait ==
  ASSUME DebugShape, Stepping, OnlyButton, Waits, Next, dbg.step_pending = 1
  PROVE  /\ ~released
         /\ dbg'.step_pending \in {1, 2} /\ dbg'.step_halt_condition = "step_in"
         /\ sc' = sc /\ steps' = steps /\ csr' = csr
         /\ ext_irq_enable' = ext_irq_enable /\ ext_irq_pending' = {}
         /\ dbg'.step_pending = 2 => mip' = {}
<1>1. ~T(2)
  BY SMT DEF Waits, T
<1>2. ~wfi /\ ~released
  BY <1>1, SMT DEF wfi, csr_op, released
<1>3. dbg_stall
  BY <1>2, Zenon DEF dbg_stall, step_wait_irq_clear
<1>4. sc' = sc /\ csr' = csr
  BY <1>3, Held, Zenon
<1>5. steps' = steps
  <2>1. ~resumed /\ ~inst_completed
    BY <1>4, SMT DEF resumed, inst_completed, T
  <2> QED
    BY <1>2, <2>1, NextClock, Zenon DEF Count
<1>6. PICK edges \in SUBSET {BUTTON} :
        /\ awaited(edges)
        /\ mip' = IF Asked(edges) \intersect ext_irq_enable # {} THEN {External} ELSE {}
        /\ Kept(edges)
  BY <1>1, NoAccess, NextClock, ButtonClock, Zenon DEF Stepping, OnlyButton
<1>7. edges = {}
  <2>1. "step_in" \in Steps /\ ~(1 = 3)
    BY SMT DEF Steps, Actions
  <2> QED
    BY <1>2, <1>6, <2>1, Zenon DEF awaited, Stepping
<1>8. irq_clear = {BUTTON}
  <2>1. "step_in" \in Steps /\ ~(1 = 0)
    BY SMT DEF Steps, Actions
  <2> QED
    BY <2>1, Zenon DEF irq_clear, step_mode, Stepping
<1>9. ext_irq_enable' = ext_irq_enable /\ ext_irq_pending' = {}
  BY <1>6, <1>7, <1>8, Zenon DEF Kept, Asked, OnlyButton
<1>10. CASE irq
  <2>1. dbg' = dbg
    BY <1>2, <1>10, NextClock, NextDebug, Zenon
  <2>2. dbg'.step_pending = 1 /\ dbg'.step_halt_condition = "step_in" /\ ~(1 = 0) /\ ~(1 = 2)
    BY <2>1, SMT DEF OnlyButton
  <2> QED
    BY <1>2, <1>4, <1>5, <1>9, <2>2, Zenon
<1>11. CASE ~irq
  <2>1. dbg.step_halt_condition = "step_in"
    BY SMT DEF OnlyButton
  <2>2. dbg' = [dbg EXCEPT !.step_pending =
                  IF dbg.step_halt_condition = "step_cycle" THEN 3 ELSE 2]
    BY <1>2, <1>11, NextClock, NextDebug, Zenon
  <2>3. dbg'.step_pending = 2 /\ dbg'.step_halt_condition = "step_in"
    BY <2>1, <2>2, SMT DEF DebugShape
  <2>4. ext_irq_pending = {}
    <3>1. External \notin mip
      BY <1>11, ButtonInterrupts, Zenon DEF Waits, OnlyButton
    <3> QED
      BY <3>1, Zenon DEF Waits, OnlyButton
  <2>5. mip' = {}
    BY <1>6, <1>7, <2>4, Zenon DEF Asked
  <2> QED
    BY <1>2, <1>4, <1>5, <1>9, <2>3, <2>5, Zenon
<1> QED
  BY <1>10, <1>11, Zenon

(* The core runs to the end of the instruction and is halted there, or it  *)
(* waits in wfi.  No request is pending outside wfi.                       *)
LEMMA RunOn ==
  ASSUME MdIdle, DebugShape, Stepping, OnlyButton, Runs, Next,
         dbg.step_pending = 2, ~released
  PROVE  OnlyButton' /\ Waits' /\ Runs' /\ Halted' /\ dbg'.step_pending \in 0 .. 3
<1>1. PICK edges \in SUBSET {BUTTON} :
        /\ awaited(edges)
        /\ mip' = IF Asked(edges) \intersect ext_irq_enable # {} THEN {External} ELSE {}
        /\ Lowered(edges)
        /\ ~sys_op => Kept(edges)
  BY NextClock, ButtonClock, Zenon DEF Stepping, OnlyButton
<1>2. mip' \subseteq {External} /\ ext_irq_pending' \subseteq {BUTTON}
  BY <1>1, Zenon DEF Lowered, Asked, OnlyButton
<1>3. dbg.step_halt_condition = "step_in" /\ ~resumed
  BY SMT DEF OnlyButton, resumed
<1>4. ASSUME ~wfi
      PROVE  ext_irq_pending' = {} /\ mip' = {}
  <2>1. "step_in" \in Steps /\ ~(2 = 3)
    BY SMT DEF Steps, Actions
  <2>2. edges = {}
    BY <1>1, <1>4, <2>1, Zenon DEF awaited, Stepping
  <2>3. Asked(edges) = {}
    BY <1>4, <2>2, Zenon DEF Asked, Runs, OnlyButton
  <2> QED
    BY <1>1, <2>3, Zenon DEF Lowered
<1>5. CASE T(0)
  <2>1. ~wfi
    BY <1>5, SMT DEF wfi, csr_op, T
  <2>2. mip' = {} /\ ext_irq_pending' = {}
    BY <1>4, <2>1, Zenon
  <2>3. dbg' = [dbg EXCEPT !.step_pending = 3]
    BY <1>3, <1>5, NextClock, NextDebug, Zenon DEF halt_cond
  <2>4. dbg'.step_pending = 3 /\ dbg'.step_halt_condition = "step_in"
    BY <1>3, <2>3, SMT DEF DebugShape
  <2>5. ~irq
    BY <2>1, ButtonInterrupts, Zenon DEF Runs, OnlyButton
  <2>6. dbg_stall
    BY <2>4, <2>5, NextClock, Zenon DEF dbg_stall, step_wfi
  <2>7. sc' = 0 /\ ~inst_completed
    BY <1>5, <2>6, Held, Zenon DEF T, inst_completed
  <2>8. steps' = 1
    BY <1>3, <1>5, <2>7, NextClock, SMT DEF Count, Runs, T
  <2> QED
    BY <1>2, <2>2, <2>4, <2>7, <2>8, SMT DEF OnlyButton, Waits, Runs, Halted
<1>6. CASE ~T(0)
  <2>1. dbg' = dbg
    BY <1>3, <1>6, NextClock, NextDebug, Zenon
  <2>2. dbg'.step_pending = 2 /\ dbg'.step_halt_condition = "step_in"
    BY <1>3, <2>1, Zenon
  <2>3. steps' = IF sc' = 0 THEN 1 ELSE 0
    <3>1. steps = 0 /\ dbg.step_pending # 0 /\ steps < MaxSteps
      BY <1>6, SMT DEF Runs, T, MaxSteps
    <3>2. steps' = IF inst_completed THEN steps + 1 ELSE steps
      BY <1>3, <3>1, NextClock, Zenon DEF Count
    <3>3. inst_completed <=> sc' = 0
      BY <1>6, Zenon DEF inst_completed
    <3> QED
      BY <3>1, <3>2, <3>3, SMT
  <2>4. ASSUME wfi
        PROVE  /\ wfi'
               /\ External \in mip' => button_irq'
    <3>1. ~irq
      <4>1. "step_in" \in Steps /\ ~(2 = 0)
        BY SMT DEF Steps, Actions
      <4>2. step_mode
        BY <4>1, Zenon DEF step_mode, Stepping
      <4> QED
        BY <2>4, <4>2, ButtonInterrupts, Zenon DEF released, Runs, OnlyButton
    <3>2. sc' = sc /\ ir' = ir
      <4>1. CASE Run
        <5>1. T2_Wfi
          BY <2>4, <4>1, PhaseMoves, Zenon DEF Run, DebugShape
        <5>2. ~ignore_wfi
          BY SMT DEF ignore_wfi, Stepping
        <5> QED
          BY <3>1, <5>1, <5>2, Zenon DEF T2_Wfi
      <4>2. CASE Stall
        BY <4>2, Zenon DEF Stall, cpuVars
      <4> QED
        BY <4>1, <4>2, Zenon DEF Next
    <3>3. wfi'
      BY <2>4, <3>2, Zenon DEF wfi, csr_op, T, I, dc
    <3>4. irq_clear = {}
      BY SMT DEF irq_clear
    <3>5. Kept(edges)
      BY <1>1, <2>4, NoAccess, Zenon
    <3> QED
      BY <1>1, <3>3, <3>4, <3>5, Zenon DEF Kept, Asked, button_irq, OnlyButton
  <2>5. External \in mip' => wfi' /\ button_irq'
    BY <1>4, <2>4, Zenon
  <2>6. BUTTON \in ext_irq_pending' => wfi'
    BY <1>4, <2>4, Zenon
  <2> QED
    BY <1>2, <2>2, <2>3, <2>5, <2>6, SMT DEF OnlyButton, Waits, Runs, Halted
<1> QED
  BY <1>5, <1>6, Zenon

(* A halted core fetches the next instruction when the button is pressed,  *)
(* and does nothing before.                                                *)
LEMMA StayHalted ==
  ASSUME MdIdle, DebugShape, Stepping, OnlyButton, Halted, Next, dbg.step_pending = 3
  PROVE  /\ OnlyButton' /\ dbg'.step_pending \in {1, 3}
         /\ dbg'.step_pending = 1 =>
              /\ sc' = 1 /\ steps' = 0
              /\ BUTTON \in ext_irq_enable' /\ External \in mip'
              /\ isSet(csr.mie, External)' /\ isSet(csr.mstatus, MIE)'
         /\ dbg'.step_pending = 3 => Halted'
<1>1. T(0) /\ ~T(2) /\ ~wfi /\ ~released
  BY SMT DEF Halted, T, wfi, csr_op, released
<1>2. step_mode /\ irq_clear = {} /\ dbg_mode = "step_in"
  BY SMT DEF step_mode, irq_clear, dbg_mode, Stepping, Steps, Actions
<1>3. PICK edges \in SUBSET {BUTTON} :
        /\ mip' = IF Asked(edges) \intersect ext_irq_enable # {} THEN {External} ELSE {}
        /\ Kept(edges)
  BY <1>1, NoAccess, NextClock, ButtonClock, Zenon DEF Stepping, OnlyButton
<1>4. mip' \subseteq {External} /\ ext_irq_pending' \subseteq {BUTTON}
  BY <1>3, Zenon DEF Kept, Asked, OnlyButton
<1>5. irq => button_irq /\ resumed
  BY ButtonInterrupts, Zenon DEF Halted, OnlyButton, resumed
<1>6. CASE irq
  <2>1. dbg' = [step_pending |-> 1, step_halt_condition |-> "step_in", step_target_pc |-> 0]
    <3>1. overAsIn(call_inst) = "step_in" /\ "step_in" # "step_over"
      BY <1>2, SMT DEF overAsIn
    <3> QED
      BY <1>1, <1>2, <1>5, <1>6, <3>1, NextClock, NextDebug, Zenon
  <2>2. dbg'.step_pending = 1 /\ dbg'.step_halt_condition = "step_in"
    BY <2>1, SMT
  <2>3. Run
    <3>1. ~step_wait_irq_clear
      BY SMT DEF step_wait_irq_clear
    <3> QED
      BY <1>1, <1>6, <3>1, Unstalled, Zenon DEF dbg_stall
  <2>4. T0_Fetch
    BY <1>1, <1>2, <2>3, PhaseMoves, Zenon DEF Run, DebugShape, T0_Trap, trap_occurred
  <2>5. sc' = 1 /\ csr' = csr
    BY <1>1, <2>4, SMT DEF T0_Fetch, advance, T
  <2>6. steps' = 0
    BY <1>1, <1>5, <1>6, NextClock, Zenon DEF Count
  <2>7. BUTTON \in ext_irq_enable' /\ External \in mip'
    BY <1>3, <1>5, <1>6, Zenon DEF button_irq, Asked, Kept
  <2>8. isSet(csr.mie, External)' /\ isSet(csr.mstatus, MIE)'
    BY <1>6, <2>5, ButtonInterrupts, Zenon DEF OnlyButton, isSet
  <2> QED
    BY <1>4, <2>2, <2>5, <2>6, <2>7, <2>8, SMT DEF OnlyButton
<1>7. CASE ~irq
  <2>1. ~resumed /\ dbg' = dbg
    BY <1>1, <1>7, NextClock, NextDebug, Zenon DEF resumed
  <2>2. dbg'.step_pending = 3 /\ dbg'.step_halt_condition = "step_in"
    BY <2>1, SMT DEF OnlyButton
  <2>3. dbg_stall
    BY <1>1, <1>7, Zenon DEF dbg_stall, step_wfi
  <2>4. sc' = 0 /\ steps' = 1
    <3>1. sc' = 0 /\ ~inst_completed
      BY <1>1, <2>3, Held, Zenon DEF T, inst_completed
    <3> QED
      BY <1>1, <2>1, <3>1, NextClock, Zenon DEF Count, Halted
  <2>5. External \in mip' => button_irq'
    BY <1>2, <1>3, Zenon DEF Kept, Asked, button_irq, OnlyButton
  <2> QED
    BY <1>4, <2>2, <2>4, <2>5, SMT DEF OnlyButton, Halted
<1> QED
  BY <1>6, <1>7, Zenon

LEMMA StepInvInit ==
  ASSUME Init
  PROVE  StepInv
<1>1. /\ sc = 0 /\ md = mdInit /\ mip = {} /\ ext_irq_pending = {}
      /\ dbg = [step_pending |-> 0, step_halt_condition |-> "run", step_target_pc |-> 0]
  BY Zenon DEF Init
<1>2. MdIdle /\ DebugShape /\ dbg.step_pending = 0
  BY <1>1, SMT DEF MdIdle, mdInit, DebugShape
<1> QED
  BY <1>1, <1>2, SMT DEF StepInv, OnlyButton, Waits, Runs, Halted

LEMMA StepInvStep ==
  ASSUME StepInv, [Next]_vars
  PROVE  StepInv'
<1>1. CASE UNCHANGED vars
  BY <1>1, Zenon DEF StepInv, MdIdle, DebugShape, Stepping, OnlyButton, Waits, Runs, Halted,
     vars, cpuVars, ioVars, mul_op, wfi, csr_op, T, I, dc, button_irq, isSet
<1>2. ASSUME Next PROVE StepInv'
  <2>1. MdIdle' /\ DebugShape'
    BY <1>2, MdIdleStep, DebugShapeStep, Zenon DEF StepInv
  <2>2. SUFFICES ASSUME Stepping
                 PROVE  dbg'.step_pending \in 0 .. 3 /\ OnlyButton' /\ Waits' /\ Runs' /\ Halted'
    BY <1>2, <2>1, SteppingStays, Zenon DEF StepInv
  <2> USE <1>2 DEF StepInv
  <2>3. dbg.step_pending \in {0, 1, 2, 3}
    BY <2>2, SMT
  <2>4. ext_irq_pending' \subseteq {BUTTON} /\ mip' \subseteq {External}
    BY <2>2, NextClock, ButtonClock, Zenon DEF Stepping, OnlyButton, Lowered, Asked
  <2>5. CASE released
    BY <2>2, <2>4, <2>5, Release, SMT DEF OnlyButton, Waits, Runs, Halted
  <2>6. CASE ~released /\ dbg.step_pending = 0
    BY <2>2, <2>4, <2>6, Never, SMT DEF OnlyButton, Waits, Runs, Halted
  <2>7. CASE dbg.step_pending = 1
    <3>1. (sc = 0 /\ steps = 1) \/ (sc = 1 /\ steps = 0)
      BY <2>2, <2>7, Zenon DEF Waits
    <3>2. /\ BUTTON \in ext_irq_enable
          /\ isSet(csr.mie, External) /\ isSet(csr.mstatus, MIE)
      BY <2>2, <2>7, Zenon DEF Waits
    <3>3. isSet(csr.mie, External)' /\ isSet(csr.mstatus, MIE)'
      BY <2>2, <2>7, <3>2, Wait, Zenon DEF isSet
    <3> QED
      BY <2>2, <2>4, <2>7, <3>1, <3>2, <3>3, Wait, SMT DEF OnlyButton, Waits, Runs, Halted
  <2>8. CASE ~released /\ dbg.step_pending = 2
    BY <2>2, <2>8, RunOn, Zenon
  <2>9. CASE dbg.step_pending = 3
    BY <2>2, <2>9, StayHalted, SMT DEF Waits, Runs, Halted
  <2> QED
    BY <2>3, <2>5, <2>6, <2>7, <2>8, <2>9, Zenon
<1> QED
  BY <1>1, <1>2, Zenon

(* A core that single-steps and whose only interrupt is the button has     *)
(* completed exactly one instruction when it halts, for every program,     *)
(* interrupt enables and timing of the presses it waits for included.      *)
THEOREM OneInstructionAStep ==
  Spec => [](sources \subseteq {BUTTON} => StepsOneInstruction)
<1>1. StepInv => (sources \subseteq {BUTTON} => StepsOneInstruction)
  BY Zenon DEF StepInv, Stepping, Halted, StepsOneInstruction
<1> QED
  BY <1>1, StepInvInit, StepInvStep, PTL DEF Spec

-----------------------------------------------------------------------------
(* The types.  What the core relies on in a decoded instruction. *)
WellFormed(d) ==
  /\ d.imm \in Int
  /\ d.I_rd \in 0 .. NRegs - 1 /\ d.I_rs2 \in 0 .. NRegs - 1 /\ d.I_rs1 \in 0 .. 31
  /\ d.I_rs1 \in 0 .. NRegs - 1 \/ (d.opcode = I_SYS /\ d.opID \in ZicsrImm)
  /\ d.opcode = I_LD => d.opID \in LoadOps

LEMMA Immediates ==
  ASSUME NEW i \in Instruction
  PROVE  immOf(i) \in Int
<1>1. /\ i.f7 \in Int /\ i.rs2 \in Int /\ i.rs1 \in Int /\ i.f3 \in Int /\ i.rd \in Int
  BY FieldTypes, SMT
<1>2. IR_SEXT(i, 20) \in Int /\ IR_SEXT(i, 12) \in Int
  BY SignBit, SMT DEF IR_SEXT
<1>3. \A s, y \in Int : orSign(s, y, 11) \in Int /\ orSign(s, y, 19) \in Int
  BY SMT DEF orSign
<1>4. imm_Itype(i) \in Int /\ imm12(i) \in Int
  BY <1>1, SMT DEF imm_Itype, imm12
<1>5. imm_Stype(i) \in Int
  <2>1. i.f7 * 32 + i.rd \in Int
    BY <1>1, SMT
  <2> QED
    BY <1>2, <1>3, <2>1, Zenon DEF imm_Stype
<1>6. imm_Btype(i) \in Int
  <2> DEFINE y == (i.rd % 2) * 2048 + (i.f7 % 64) * 32 + (i.rd \div 2) * 2
  <2>1. y \in Int
    BY <1>1, SMT
  <2>2. imm_Btype(i) = orSign(IR_SEXT(i, 20), y, 11)
    BY Zenon DEF imm_Btype
  <2> HIDE DEF y
  <2> QED
    BY <1>2, <1>3, <2>1, <2>2, Zenon
<1>7. imm_Utype(i) \in Int
  BY <1>1, SMT DEF imm_Utype
<1>8. imm_Jtype(i) \in Int
  <2> DEFINE y == (i.rs1 * 8 + i.f3) * 4096 + (i.rs2 % 2) * 2048 + (imm12(i) \div 2 % 1024) * 2
  <2>1. y \in Int
    BY <1>1, <1>4, SMT
  <2>2. imm_Jtype(i) = orSign(IR_SEXT(i, 12), y, 19)
    BY Zenon DEF imm_Jtype
  <2> HIDE DEF y
  <2> QED
    BY <1>2, <1>3, <2>1, <2>2, Zenon
<1>9. 0 \in Int
  OBVIOUS
<1> QED
  BY <1>4, <1>5, <1>6, <1>7, <1>8, <1>9, Zenon DEF immOf

LEMMA LoadNames ==
  ASSUME NEW f3 \in 0 .. 7
  PROVE  decLD(f3) = Illegal \/ decLD(f3) \in LoadOps
<1>1. f3 \in {0, 1, 2, 3, 4, 5, 6, 7}
  BY SMT
<1> QED
  BY <1>1, SMT DEF decLD, LoadOps

LEMMA DecodedParts ==
  ASSUME NEW i \in Instruction, NEW d, d = decode(i)
  PROVE  /\ d.imm = immOf(i) /\ d.opcode = i.opcode /\ d.opID = opIDOf(i)
         /\ d.I_rd \in 0 .. 31 /\ d.I_rs1 \in 0 .. 31 /\ d.I_rs2 \in 0 .. 31
         /\ ~d.error => opIDOf(i) # Illegal
<1>1. d = [opcode |-> i.opcode, opID |-> opIDOf(i),
           I_rd   |-> IF i.opcode \in {I_ST, I_BR} THEN 0 ELSE i.rd,
           I_rs1  |-> IF i.opcode \in {I_LUI, I_AUIPC, I_JAL} THEN 0 ELSE i.rs1,
           I_rs2  |-> IF i.opcode \in {I_COMP, I_ST, I_BR} THEN i.rs2 ELSE 0,
           imm    |-> immOf(i), isMD |-> isMD(i),
           error  |-> i.opcode \notin Opcodes \/ opIDOf(i) = Illegal]
  BY Zenon DEF decode
<1>2. i.rd \in 0 .. 31 /\ i.rs1 \in 0 .. 31 /\ i.rs2 \in 0 .. 31
  BY FieldTypes
<1>3. d.imm = immOf(i) /\ d.opcode = i.opcode /\ d.opID = opIDOf(i)
  BY <1>1, SMT
<1>4. d.error = (i.opcode \notin Opcodes \/ opIDOf(i) = Illegal)
  BY <1>1, SMT
<1>5. /\ d.I_rd = IF i.opcode \in {I_ST, I_BR} THEN 0 ELSE i.rd
      /\ d.I_rs1 = IF i.opcode \in {I_LUI, I_AUIPC, I_JAL} THEN 0 ELSE i.rs1
      /\ d.I_rs2 = IF i.opcode \in {I_COMP, I_ST, I_BR} THEN i.rs2 ELSE 0
  BY <1>1, SMT
<1>6. 0 \in 0 .. 31
  OBVIOUS
<1>7. d.I_rd \in 0 .. 31 /\ d.I_rs1 \in 0 .. 31 /\ d.I_rs2 \in 0 .. 31
  BY <1>2, <1>5, <1>6, Zenon
<1>8. ~d.error => opIDOf(i) # Illegal
  BY <1>4, Zenon
<1> QED
  BY <1>3, <1>7, <1>8, Zenon

LEMMA DecodedIsWellFormed ==
  ASSUME NEW i \in Instruction, NEW d, d = decode(i), Proper(d)
  PROVE  WellFormed(d)
<1>1. /\ d.imm \in Int /\ d.opcode = i.opcode /\ d.opID = opIDOf(i)
      /\ d.I_rd \in 0 .. 31 /\ d.I_rs1 \in 0 .. 31 /\ d.I_rs2 \in 0 .. 31
      /\ opIDOf(i) # Illegal
  BY DecodedParts, Immediates, Zenon DEF Proper
<1>2. /\ d.I_rd \in 0 .. NRegs - 1 /\ d.I_rs2 \in 0 .. NRegs - 1
      /\ d.I_rs1 \in 0 .. NRegs - 1 \/ (d.opcode = I_SYS /\ d.opID \in ZicsrImm)
  <2>1. \A r \in 0 .. 31 : r < NRegs => r \in 0 .. NRegs - 1
    BY CoreAssumption, SMT
  <2> QED
    BY <1>1, <2>1, Zenon DEF Proper
<1>3. d.opcode = I_LD => d.opID \in LoadOps
  <2>1. SUFFICES ASSUME i.opcode = I_LD PROVE opIDOf(i) \in LoadOps
    BY <1>1
  <2>2. opIDOf(i) = decLD(i.f3)
    <3>1. I_LD # I_COMP /\ I_LD # I_COMPI
      BY SMT DEF I_LD, I_COMP, I_COMPI
    <3> QED
      BY <2>1, <3>1, SMT DEF opIDOf, I_LD, I_COMP, I_COMPI, I_ST, I_BR, I_SYS
  <2>3. i.f3 \in 0 .. 7
    BY FieldTypes
  <2> QED
    BY <1>1, <2>2, <2>3, LoadNames
<1> QED
  BY <1>1, <1>2, <1>3, Zenon DEF WellFormed

LEMMA ResetIsWellFormed == WellFormed(Reset)
<1> DEFINE z == [opcode |-> 0, rd |-> 0, f3 |-> 0, rs1 |-> 0, rs2 |-> 0, f7 |-> 0]
<1>1. /\ z \in Instruction /\ z.opcode = 0 /\ z.rd = 0 /\ z.rs1 = 0 /\ z.rs2 = 0
  BY SMT DEF Instruction
<1>2. Reset = decode(z)
  BY Zenon DEF Reset
<1> HIDE DEF z
<1>3. Reset.imm \in Int /\ Reset.opcode = 0
  BY <1>1, <1>2, DecodedParts, Immediates, Zenon
<1>4. /\ Reset.I_rd = IF z.opcode \in {I_ST, I_BR} THEN 0 ELSE z.rd
      /\ Reset.I_rs1 = IF z.opcode \in {I_LUI, I_AUIPC, I_JAL} THEN 0 ELSE z.rs1
      /\ Reset.I_rs2 = IF z.opcode \in {I_COMP, I_ST, I_BR} THEN z.rs2 ELSE 0
  BY <1>2, SMT DEF decode
<1>5. Reset.I_rd = 0 /\ Reset.I_rs1 = 0 /\ Reset.I_rs2 = 0
  BY <1>1, <1>4, Zenon
<1>6. 0 \in 0 .. NRegs - 1 /\ 0 \in 0 .. 31 /\ 0 # I_LD
  BY CoreAssumption, SMT DEF I_LD
<1> QED
  BY <1>3, <1>5, <1>6, Zenon DEF WellFormed

LEMMA InstructionsAreWellFormed ==
  ASSUME NEW d \in Instructions
  PROVE  WellFormed(d)
<1>1. PICK p \in Programs : \E a \in DOMAIN p.code : d = decode(p.code[a])
  BY Zenon DEF Instructions
<1>2. PICK a \in DOMAIN p.code : d = decode(p.code[a])
  BY <1>1
<1>3. p.code[a] \in Instruction /\ Proper(decode(p.code[a]))
  BY CoreAssumption, Zenon
<1> QED
  BY <1>2, <1>3, DecodedIsWellFormed, Zenon

(* The multiplier holds words and returns one. *)
LEMMA MultiplierTyped ==
  ASSUME NEW r \in MD, NEW i1 \in Word, NEW i2 \in Word
  PROVE  mdStep(r, i1, i2) \in MD /\ mdOut(r, mdStep(r, i1, i2)) \in Word
<1>1. 0 \in Word
  BY BitIsWord
<1>2. r.stt \in {0, 1}
  BY SMT DEF MD
<1>3. mdStep(r, i1, i2) \in MD
  <2>1. CASE r.stt = 0
    <3>1. mdStep(r, i1, i2) = [a |-> i1, b |-> i2, c |-> 0, stt |-> 1]
      BY <2>1, Zenon DEF mdStep
    <3> HIDE DEF Word
    <3> QED
      BY <1>1, <3>1, SMT DEF MD
  <2>2. CASE r.stt = 1
    BY <2>2, MultiplierExact, Zenon
  <2> QED
    BY <1>2, <2>1, <2>2, Zenon
<1>4. \A s \in MD : s.c \in Word
  BY SMT DEF MD
<1> QED
  BY <1>1, <1>3, <1>4, Zenon DEF mdOut

-----------------------------------------------------------------------------
(* TypeOK, and what goes through dout and ir. *)
Typed ==
  /\ TypeOK /\ MdIdle
  /\ WellFormed(ir) /\ (T(1) => WellFormed(dout))
  /\ T(3) /\ I({I_LD}) /\ ~IO_LD_completed => dout \in [data : Word]
  /\ DataWords \subseteq DOMAIN m

LEMMA SmallWords == 0 .. 31 \subseteq Word /\ 0 \in Word /\ 4 \in Word /\ Word \subseteq Nat
<1> DEFINE M == 2^XLEN  A == 2^11
<1>1. 3 * A \in 0 .. M - 1
  BY CsrBits, Zenon DEF Word
<1>2. M \in Nat
  BY PowersOfWord, Zenon
<1>3. A = 2048
  BY SMT
<1> HIDE DEF M, A
<1>4. /\ 0 .. 31 \subseteq 0 .. M - 1 /\ 0 \in 0 .. M - 1 /\ 4 \in 0 .. M - 1
      /\ 0 .. M - 1 \subseteq Nat
  BY <1>1, <1>2, <1>3, SMT
<1> QED
  BY <1>4, Zenon DEF M, Word

(* The conjuncts of TypeOK by groups. *)
CpuTyped == /\ sc \in 0 .. 3 /\ pc \in Word /\ tr \in Word /\ flg \in 0 .. 1
            /\ xreg \in [Regs -> Word] /\ csr \in CSRs
MemTyped == /\ \A a \in DataWords : m[a] \in [data : Word]
            /\ byte_pos \in 0 .. 3 /\ ld_type \in LoadOps /\ DataWords \subseteq DOMAIN m
IOTyped  == /\ axi \in 0 .. MaxLatency /\ IO_LD_completed \in BOOLEAN /\ latched_data \in Word
            /\ dev \in 0 .. DevValues - 1
            /\ out \in [addr : Word, wdata : Word, count : 0 .. 2]
IrqTyped == /\ mip \in SUBSET Causes /\ d_intr \subseteq Lines
            /\ ext_irq_pending \subseteq Lines /\ ext_irq_enable \subseteq Lines
DbgTyped == /\ dbg_com \in Actions /\ steps \in 0 .. MaxSteps
            /\ dbg \in [step_pending : 0 .. 3, step_halt_condition : Steps \union {"run"},
                       step_target_pc : Word]

LEMMA Groups ==
  TypeOK /\ DataWords \subseteq DOMAIN m
    <=> CpuTyped /\ MemTyped /\ IOTyped /\ IrqTyped /\ DbgTyped /\ md \in MD
<1>1. 0 .. 1 = {0, 1}
  BY SMT
<1>2. {pc, tr, latched_data} \subseteq Word <=> pc \in Word /\ tr \in Word /\ latched_data \in Word
  BY Zenon
<1> QED
  BY <1>1, <1>2, Zenon DEF TypeOK, CpuTyped, MemTyped, IOTyped, IrqTyped, DbgTyped, MD, CSRs

(* The busses, and what the ALU makes of them, are words. *)
LEMMA Wires ==
  ASSUME CpuTyped, WellFormed(ir)
  PROVE  /\ rs1 \in Word /\ rs2 \in Word /\ bus1 \in Word /\ bus2 \in Word
         /\ ALUcompute(bus1, bus2, op) \in Word /\ mem_addr \in Word /\ mem_din \in Word
<1>1. \A id \in 0 .. NRegs - 1 : getOperand(id) \in Word
  <2>1. \A id \in 0 .. NRegs - 1 : id = 0 \/ id \in Regs
    BY CoreAssumption, SMT DEF Regs
  <2> QED
    BY <2>1, SmallWords, Zenon DEF getOperand, CpuTyped
<1>2. rs2 \in Word
  BY <1>1, SmallWords, Zenon DEF rs2, WellFormed, dc
<1>3. rs1 \in Word
  <2>1. CASE ~T(2)
    BY <2>1, SmallWords, Zenon DEF rs1
  <2>2. CASE T(2) /\ csr_op \in ZicsrImm
    BY <2>2, SmallWords, Zenon DEF rs1, WellFormed, dc
  <2>3. CASE T(2) /\ csr_op \notin ZicsrImm
    <3>1. dc.I_rs1 \in 0 .. NRegs - 1
      BY <2>3, SMT DEF WellFormed, dc, csr_op, I
    <3> QED
      BY <1>1, <2>3, <3>1, Zenon DEF rs1
  <2> QED
    BY <2>1, <2>2, <2>3, Zenon
<1>4. imm \in Word
  BY SmallWords, WrapIsWord, Zenon DEF imm, WellFormed, dc
<1>5. bus1 \in Word /\ bus2 \in Word
  BY <1>2, <1>3, <1>4, Zenon DEF bus1, bus2, CpuTyped
<1>6. ALUcompute(bus1, bus2, op) \in Word
  BY <1>5, ALUIsWord, Zenon
<1>7. mem_addr \in Word
  BY <1>5, <1>6, Zenon DEF mem_addr
<1>8. mem_din \in Word
  BY <1>2, <1>7, ShiftedLanes, SmallWords, SMT DEF mem_din
<1> QED
  BY <1>2, <1>3, <1>5, <1>6, <1>7, <1>8

LEMMA EvenIsWord ==
  ASSUME NEW a \in Word
  PROVE  even(a) \in Word
<1> DEFINE M == 2^XLEN
<1>1. a \in 0 .. M - 1 /\ M \in Nat
  BY PowersOfWord, Zenon DEF Word
<1> HIDE DEF M
<1>2. a - (a % 2) \in 0 .. M - 1
  BY <1>1, SMT
<1> QED
  BY <1>2, Zenon DEF even, Word, M

(* The memory keeps data where there is data. *)
LEMMA MemoryStep ==
  ASSUME Typed, InBounds, Memory
  PROVE  /\ MemTyped'
         /\ T(0) => WellFormed(dout')
         /\ T(1) \/ T(3) => dout' = dout
         /\ accesses /\ ~io_op /\ I({I_LD}) => dout' \in [data : Word]
<1>1. CpuTyped /\ MemTyped /\ WellFormed(ir)
  BY Groups, Zenon DEF Typed
<1>2. mem_addr \in Nat /\ mem_addr \in Word /\ mem_din \in Word
  BY <1>1, Wires, SmallWords, Zenon
<1>3. accesses => T(2) /\ ~T(0)
  BY SMT DEF accesses, T
<1>4. CASE T(0)
  <2>1. ~accesses
    BY <1>3, <1>4, Zenon
  <2>2. /\ dout' = m[word(mem_addr)] /\ byte_pos' = mem_addr % 4 /\ ld_type' = "lw" /\ m' = m
    BY <1>4, <2>1, Zenon DEF Memory
  <2>3. word(mem_addr) = word(pc)
    <3>1. ~T(2)
      BY <1>4, SMT DEF T
    <3> QED
      BY <1>4, <3>1, Zenon DEF mem_addr, bus1
  <2>4. WellFormed(dout')
    BY <1>4, <2>2, <2>3, InstructionsAreWellFormed, Zenon DEF InBounds
  <2>5. mem_addr % 4 \in 0 .. 3 /\ "lw" \in LoadOps
    BY <1>2, SMT DEF LoadOps
  <2>6. ~T(1) /\ ~T(3)
    BY <1>4, SMT DEF T
  <2> QED
    BY <1>1, <2>1, <2>2, <2>4, <2>5, <2>6, Zenon DEF MemTyped
<1>5. CASE accesses /\ ~io_op /\ I({I_LD})
  <2>1. ~I({I_ST})
    BY <1>5, SMT DEF I, I_LD, I_ST
  <2>2. /\ dout' = m[word(mem_addr)] /\ byte_pos' = mem_addr % 4 /\ ld_type' = dc.opID /\ m' = m
    BY <1>3, <1>5, <2>1, Zenon DEF Memory
  <2>3. dout' \in [data : Word]
    BY <1>1, <1>5, <2>2, Zenon DEF InBounds, MemTyped
  <2>4. mem_addr % 4 \in 0 .. 3 /\ dc.opID \in LoadOps
    BY <1>1, <1>2, <1>5, SMT DEF WellFormed, I, dc
  <2>5. ~T(0) /\ ~T(1) /\ ~T(3)
    BY <1>3, <1>5, SMT DEF T
  <2> QED
    BY <1>1, <2>2, <2>3, <2>4, <2>5, Zenon DEF MemTyped
<1>6. CASE accesses /\ ~io_op /\ ~I({I_LD})
  <2> DEFINE w == word(mem_addr)
             v == storeMemByteEnable(m[w].data, mem_din, byteEnable(mem_addr, dc.opID))
  <2>1. /\ m' = [m EXCEPT ![w].data = v] /\ dout' = dout /\ byte_pos' = byte_pos
        /\ ld_type' = ld_type
    BY <1>3, <1>6, Zenon DEF Memory
  <2>2. w \in DataWords
    BY <1>6, Zenon DEF InBounds
  <2>3. m[w] \in [data : Word]
    BY <1>1, <2>2, Zenon DEF MemTyped
  <2>4. m[w].data \in Word
    <3> HIDE DEF w
    <3>1. \A r \in [data : Word] : r.data \in Word
      BY SMT
    <3> QED
      BY <2>3, <3>1, Zenon
  <2>5. v \in Word
    BY <1>2, <2>4, StoreIsWord, Zenon
  <2>6. [m[w] EXCEPT !.data = v] \in [data : Word]
    <3> HIDE DEF w, v
    <3> QED
      BY <2>3, <2>5, SMT
  <2> HIDE DEF w, v
  <2>7. DOMAIN m' = DOMAIN m /\ \A a \in DataWords : m'[a] \in [data : Word]
    <3> DEFINE V == [m[w] EXCEPT !.data = v]
    <3>1. m' = [m EXCEPT ![w] = V]
      BY <2>1, Zenon
    <3> HIDE DEF V
    <3> QED
      BY <1>1, <2>6, <3>1, Zenon DEF MemTyped, V
  <2>8. ~T(0) /\ ~T(1) /\ ~T(3)
    BY <1>3, <1>6, SMT DEF T
  <2> QED
    BY <1>1, <1>6, <2>1, <2>7, <2>8, Zenon DEF MemTyped
<1>7. CASE ~T(0) /\ (~accesses \/ io_op)
  <2>1. m' = m /\ dout' = dout /\ byte_pos' = byte_pos /\ ld_type' = ld_type
    BY <1>7, Zenon DEF Memory, memVars
  <2> QED
    BY <1>1, <1>7, <2>1, Zenon DEF MemTyped
<1> QED
  BY <1>4, <1>5, <1>6, <1>7, Zenon

-----------------------------------------------------------------------------
(* IO, the interrupt controller and the debug interface. *)

LEMMA IrqStep ==
  ASSUME IrqTyped, NEW intr \in SUBSET Lines, NEW mtip \in SUBSET {Timer},
         Sysctrl_fsm(intr \ d_intr, mtip), d_intr' = intr
  PROVE  IrqTyped'
<1> DEFINE asked == ext_irq_pending \union (intr \ d_intr)
<1>1. asked \subseteq Lines
  BY Zenon DEF IrqTyped
<1>2. /\ ext_irq_pending' \subseteq asked
      /\ ext_irq_enable' \subseteq Lines
      /\ mip' \subseteq {External} \union mtip
  BY Zenon DEF Sysctrl_fsm, IrqTyped
<1>3. {External} \union mtip \subseteq Causes
  BY Zenon DEF Causes
<1> HIDE DEF asked
<1> QED
  BY <1>1, <1>2, <1>3, Zenon DEF IrqTyped

(* What the controller and the device answer are words. *)
LEMMA Answers ==
  ASSUME IOTyped, IrqTyped, NEW edges \in SUBSET Lines
  PROVE  dev \in Word /\ sys_data(edges) \in Word
<1>1. dev \in Word
  <2> DEFINE M == 2^XLEN
  <2>1. M \in Nat /\ DevValues \in 1 .. M
    BY PowersOfWord, CoreAssumption, Zenon
  <2> HIDE DEF M
  <2>2. dev \in 0 .. M - 1
    BY <2>1, SMT DEF IOTyped
  <2> QED
    BY <2>2, Zenon DEF M, Word
<1>2. Lines \subseteq 0 .. XLEN - 1
  BY Width, SMT DEF Lines, UART, BUTTON
<1>3. \A S \in SUBSET Lines : Num(S) \in Word
  <2> SUFFICES ASSUME NEW S \in SUBSET Lines PROVE Num(S) \in Word
    OBVIOUS
  <2>1. S \subseteq 0 .. XLEN - 1
    BY <1>2, Zenon
  <2> QED
    BY <2>1, NumIsWord, Zenon
<1>4. /\ (ext_irq_pending \union edges) \intersect ext_irq_enable \in SUBSET Lines
      /\ ext_irq_enable \in SUBSET Lines
  BY Zenon DEF IrqTyped
<1> QED
  BY <1>1, <1>3, <1>4, Zenon DEF sys_data

(* An access of IO ends in T[2] with its data latched, or it stalls. *)
LEMMA IOStep ==
  ASSUME IOTyped, IrqTyped, mem_addr \in Word, mem_din \in Word,
         NEW edges \in SUBSET Lines, NEW stalled \in BOOLEAN, IO_fsm(edges, stalled)
  PROVE  /\ IOTyped'
         /\ io_op /\ ~stalled => IO_LD_completed' = I({I_LD})
<1>1. CASE NoIO /\ ~io_op
  BY <1>1, Zenon DEF NoIO, IOTyped
<1>2. CASE IOPending /\ stalled
  <2>1. axi' \in 0 .. MaxLatency
    BY <1>2, CoreAssumption, SMT DEF IOPending, IOTyped
  <2> QED
    BY <1>2, <2>1, Zenon DEF IOPending, IOTyped
<1>3. CASE IODone(edges)
  <2>1. axi' \in 0 .. MaxLatency
    BY <1>3, CoreAssumption, SMT DEF IODone
  <2>2. IO_LD_completed' = I({I_LD}) /\ I({I_LD}) \in BOOLEAN
    <3>1. I({I_LD}) \in BOOLEAN
      BY SMT DEF I
    <3> QED
      BY <1>3, <3>1, Zenon DEF IODone
  <2>3. latched_data' \in Word
    BY <1>3, Answers, Zenon DEF IODone, IOTyped
  <2>4. dev' \in 0 .. DevValues - 1
    <3>1. DevValues \in Nat \ {0} /\ dev \in 0 .. DevValues - 1
      <4> DEFINE M == 2^XLEN
      <4>1. M \in Nat /\ DevValues \in 1 .. M
        BY PowersOfWord, CoreAssumption, Zenon
      <4> HIDE DEF M
      <4> QED
        BY <4>1, SMT DEF IOTyped
    <3>2. (dev + 1) % DevValues \in 0 .. DevValues - 1
      BY <3>1, SMT
    <3> QED
      BY <1>3, <3>1, <3>2, Zenon DEF IODone
  <2>5. out' \in [addr : Word, wdata : Word, count : 0 .. 2]
    <3>1. out.count \in 0 .. 2
      BY SMT DEF IOTyped
    <3>2. (out.count + 1) % 3 \in 0 .. 2
      BY <3>1, SMT
    <3>3. wrote(mem_addr, mem_din) \in [addr : Word, wdata : Word, count : 0 .. 2]
      <4> HIDE DEF Word, mem_addr, mem_din
      <4> QED
        BY <3>2, SMT DEF wrote
    <3> QED
      BY <1>3, <3>3, Zenon DEF IODone, IOTyped
  <2> QED
    BY <2>1, <2>2, <2>3, <2>4, <2>5, Zenon DEF IOTyped
<1> QED
  BY <1>1, <1>2, <1>3, Zenon DEF IO_fsm

LEMMA DbgStep ==
  ASSUME DbgTyped, pc \in Word, dbg' = nextDbg, dbg_com' = dbg_com, Count
  PROVE  DbgTyped'
<1> DEFINE D == [step_pending : 0 .. 3, step_halt_condition : Steps \union {"run"},
                 step_target_pc : Word]
<1>1. {0, 1, 2, 3} \subseteq 0 .. 3
  BY SMT
<1>2. 0 \in Word /\ Wrap(pc + 4) \in Word
  <2>1. pc + 4 \in Int
    BY SmallWords, SMT
  <2> QED
    BY <2>1, SmallWords, WrapIsWord, Zenon
<1>3. \A b \in BOOLEAN : overAsIn(b) \in Steps \union {"run"}
  <2>1. "step_in" \in Steps
    BY SMT DEF Steps, Actions
  <2> QED
    BY <2>1, Zenon DEF overAsIn, dbg_mode
<1>4. call_inst \in BOOLEAN
  BY Zenon DEF call_inst, I
<1>5. \A n \in 0 .. 3, h \in Steps \union {"run"}, a \in Word :
        [step_pending |-> n, step_halt_condition |-> h, step_target_pc |-> a] \in D
  <2> HIDE DEF Word
  <2> QED
    BY SMT
<1>6. \A d \in D : /\ \A n \in 0 .. 3 : [d EXCEPT !.step_pending = n] \in D
                   /\ \A a \in Word : [d EXCEPT !.step_target_pc = a] \in D
  <2> HIDE DEF Word
  <2> QED
    BY SMT
<1>7. dbg \in D
  BY Zenon DEF DbgTyped
<1> HIDE DEF D
<1>8. [step_pending |-> 1, step_halt_condition |-> overAsIn(FALSE), step_target_pc |-> 0] \in D
  BY <1>1, <1>2, <1>3, <1>5, Zenon
<1>9. [step_pending |-> IF step_mode THEN 1 ELSE 0,
       step_halt_condition |-> overAsIn(call_inst),
       step_target_pc |-> IF overAsIn(call_inst) = "step_over"
                          THEN Wrap(pc + 4) ELSE 0] \in D
  <2>1. (IF step_mode THEN 1 ELSE 0) \in 0 .. 3
    BY <1>1, Zenon
  <2>2. (IF overAsIn(call_inst) = "step_over" THEN Wrap(pc + 4) ELSE 0) \in Word
    BY <1>2, Zenon
  <2> QED
    BY <1>3, <1>4, <1>5, <2>1, <2>2, Zenon
<1>10. [dbg EXCEPT !.step_pending = IF dbg.step_halt_condition = "step_cycle" THEN 3 ELSE 2] \in D
  <2>1. (IF dbg.step_halt_condition = "step_cycle" THEN 3 ELSE 2) \in 0 .. 3
    BY <1>1, Zenon
  <2> QED
    BY <1>6, <1>7, <2>1, Zenon
<1>11. /\ [dbg EXCEPT !.step_pending = 3] \in D
       /\ [dbg EXCEPT !.step_target_pc = 0] \in D /\ [dbg EXCEPT !.step_target_pc = pc] \in D
  BY <1>1, <1>2, <1>6, <1>7, Zenon
<1>12. nextDbg \in D
  BY <1>7, <1>8, <1>9, <1>10, <1>11, Zenon DEF nextDbg, atInstruction
<1>13. steps' \in 0 .. MaxSteps
  BY SMT DEF Count, DbgTyped, MaxSteps
<1> QED
  BY <1>12, <1>13, Zenon DEF DbgTyped, D

-----------------------------------------------------------------------------
(* The registers of the core. *)

LEMMA WrittenBack ==
  ASSUME CpuTyped, WellFormed(ir), NEW rd \in Word, writeBack(rd)
  PROVE  xreg' \in [Regs -> Word]
  BY Zenon DEF writeBack, CpuTyped

LEMMA CpuStep ==
  ASSUME Typed, Phase
  PROVE  CpuTyped'
<1>1. CpuTyped /\ MemTyped /\ IOTyped /\ IrqTyped /\ md \in MD /\ WellFormed(ir)
  BY Groups, Zenon DEF Typed
<1>2. sc' \in 0 .. 3
  BY <1>1, PhaseMoves, Zenon DEF CpuTyped
<1>3. bus1 \in Word /\ bus2 \in Word /\ ALUcompute(bus1, bus2, op) \in Word
  BY <1>1, Wires, Zenon
<1>4. even(ALUcompute(bus1, bus2, op)) \in Word
  BY <1>3, EvenIsWord, Zenon
<1>5. /\ pc \in Word /\ tr \in Word /\ flg \in 0 .. 1 /\ xreg \in [Regs -> Word] /\ csr \in CSRs
      /\ mip \in SUBSET Causes
  BY <1>1, Zenon DEF CpuTyped, IrqTyped
<1>6. even(csr.mtvec) \in Word /\ even(csr.mepc) \in Word
  <2>1. "mtvec" \in CSR_RW /\ "mepc" \in CSR_RW
    BY SMT DEF CSR_RW
  <2>2. csr["mtvec"] \in Word /\ csr["mepc"] \in Word
    BY <1>5, <2>1, Zenon DEF CSRs
  <2> QED
    BY <2>2, EvenIsWord, Zenon
<1> SUFFICES /\ pc' \in Word /\ tr' \in Word /\ flg' \in 0 .. 1
             /\ xreg' \in [Regs -> Word] /\ csr' \in CSRs
  BY <1>2, Zenon DEF CpuTyped
<1>7. CASE T0_Trap
  BY <1>5, <1>6, <1>7, TrapTyped, Zenon DEF T0_Trap
<1>8. CASE T0_Fetch
  BY <1>4, <1>5, <1>8, Zenon DEF T0_Fetch
<1>9. CASE T1_Decode \/ T2_Load \/ T2_Store \/ T2_Wfi
  BY <1>5, <1>9, Zenon DEF T1_Decode, T2_Load, T2_Store, T2_Wfi
<1>10. CASE T2_Compute
  <2>1. md_out \in Word
    BY <1>1, <1>3, MultiplierTyped, SmallWords, Zenon DEF md_out, nextMd
  <2>2. (IF mul_op THEN md_out ELSE ALUcompute(bus1, bus2, op)) \in Word
    BY <1>3, <2>1, Zenon
  <2> QED
    BY <1>1, <1>5, <1>10, <2>2, WrittenBack, Zenon DEF T2_Compute
<1>11. CASE T2_Jump
  BY <1>1, <1>4, <1>5, <1>11, WrittenBack, Zenon DEF T2_Jump
<1>12. CASE T2_Branch
  <2>1. flg' \in 0 .. 1
    <3> DEFINE r == ALUcompute(bus1, bus2, op)
    <3>1. r \in Nat /\ flg' = r % 2
      BY <1>3, <1>12, SmallWords, Zenon DEF T2_Branch
    <3> HIDE DEF r
    <3> QED
      BY <3>1, SMT
  <2> QED
    BY <1>5, <1>12, <2>1, Zenon DEF T2_Branch
<1>13. CASE T2_Csr
  <2> DEFINE old == csr_val(csr, mip, dc.imm, dc.I_rd)
  <2>1. old \in Word
    BY <1>5, ReadTyped, SmallWords, Zenon DEF csr_val
  <2>2. /\ writeBack(old) /\ csr' = writeback(csr, old, bus1, dc.imm, csr_op, dc.I_rs1)
        /\ pc' = pc /\ tr' = tr /\ flg' = flg
    BY <1>13, Zenon DEF T2_Csr
  <2> HIDE DEF old
  <2>3. csr' \in CSRs
    BY <1>3, <1>5, <2>1, <2>2, CsrWritten, Zenon
  <2> QED
    BY <1>1, <1>5, <2>1, <2>2, <2>3, WrittenBack, Zenon
<1>14. CASE T2_Mret
  BY <1>5, <1>6, <1>14, MretTyped, Zenon DEF T2_Mret
<1>15. CASE T3_Load
  <2>1. (IF IO_LD_completed THEN latched_data ELSE dout.data) \in Word
    <3>1. ~IO_LD_completed => dout \in [data : Word]
      BY <1>15, Zenon DEF Typed, T3_Load
    <3>2. \A r \in [data : Word] : r.data \in Word
      BY SMT
    <3> QED
      BY <1>1, <3>1, <3>2, Zenon DEF IOTyped
  <2>2. byte_pos \in Int
    BY <1>1, SMT DEF MemTyped
  <2>3. formatReadData \in Word
    BY <2>1, <2>2, LoadIsWord, Zenon DEF formatReadData
  <2> QED
    BY <1>1, <1>5, <1>15, <2>3, WrittenBack, Zenon DEF T3_Load
<1>16. CASE T3_Branch
  BY <1>4, <1>5, <1>16, Zenon DEF T3_Branch
<1> QED
  BY <1>7, <1>8, <1>9, <1>10, <1>11, <1>12, <1>13, <1>14, <1>15, <1>16, Zenon DEF Phase

-----------------------------------------------------------------------------
LEMMA TypedInit ==
  ASSUME Init
  PROVE  Typed
<1>1. PICK p \in Programs : m = image(p.code) /\ dbg_com \in p.actions
  BY Zenon DEF Init
<1>2. /\ sc = 0 /\ pc = 0 /\ tr = 0 /\ ir = Reset /\ flg = 0
      /\ xreg = [r \in Regs |-> 0] /\ csr = csrInit /\ mip = {}
      /\ dout = [data |-> 0] /\ byte_pos = 0 /\ ld_type = "lw" /\ md = mdInit
      /\ axi = 0 /\ IO_LD_completed = FALSE /\ latched_data = 0
      /\ ext_irq_pending = {} /\ ext_irq_enable = {} /\ d_intr = {}
      /\ dev = 0 /\ out = [addr |-> 0, wdata |-> 0, count |-> 0]
      /\ dbg = [step_pending |-> 0, step_halt_condition |-> "run", step_target_pc |-> 0]
      /\ steps = 0
  BY Zenon DEF Init
<1>3. CpuTyped
  <2>1. 0 \in 0 .. 3 /\ 0 \in 0 .. 1
    BY SMT
  <2> QED
    BY <1>2, <2>1, SmallWords, InitTyped, Zenon DEF CpuTyped
<1>4. MemTyped
  <2>1. DataWords \subseteq 0 .. MemWords - 1 /\ DOMAIN p.code \intersect DataWords = {}
    BY CoreAssumption, Zenon
  <2>2. \A a \in DataWords : m[a] = [data |-> 0]
    BY <1>1, <2>1, Zenon DEF image
  <2>3. [data |-> 0] \in [data : Word]
    <3> HIDE DEF Word
    <3> QED
      BY SmallWords, SMT
  <2>4. DataWords \subseteq DOMAIN m
    BY <1>1, <2>1, Zenon DEF image
  <2>5. byte_pos \in 0 .. 3 /\ ld_type \in LoadOps
    BY <1>2, SMT DEF LoadOps
  <2> QED
    BY <2>2, <2>3, <2>4, <2>5, Zenon DEF MemTyped
<1>5. IOTyped
  <2>1. 0 \in 0 .. MaxLatency /\ 0 \in 0 .. 2
    BY CoreAssumption, SMT
  <2>2. 0 \in 0 .. DevValues - 1
    <3> DEFINE M == 2^XLEN
    <3>1. M \in Nat /\ DevValues \in 1 .. M
      BY PowersOfWord, CoreAssumption, Zenon
    <3> HIDE DEF M
    <3> QED
      BY <3>1, SMT
  <2>3. [addr |-> 0, wdata |-> 0, count |-> 0] \in [addr : Word, wdata : Word, count : 0 .. 2]
    <3> HIDE DEF Word
    <3> QED
      BY SmallWords, SMT
  <2> QED
    BY <1>2, <2>1, <2>2, <2>3, SmallWords, Zenon DEF IOTyped
<1>6. IrqTyped
  BY <1>2, Zenon DEF IrqTyped
<1>7. DbgTyped
  <2>1. dbg_com \in Actions
    BY <1>1, CoreAssumption, Zenon
  <2>2. dbg \in [step_pending : 0 .. 3, step_halt_condition : Steps \union {"run"},
                 step_target_pc : Word]
    <3> HIDE DEF Word
    <3> QED
      BY <1>2, SmallWords, SMT
  <2>3. steps \in 0 .. MaxSteps
    BY <1>2, SMT DEF MaxSteps
  <2> QED
    BY <2>1, <2>2, <2>3, Zenon DEF DbgTyped
<1>8. md \in MD /\ md.stt = 0
  <2> HIDE DEF Word
  <2> QED
    BY <1>2, SmallWords, SMT DEF mdInit, MD
<1>9. WellFormed(ir)
  BY <1>2, ResetIsWellFormed, Zenon
<1>10. ~T(1) /\ ~T(3)
  BY <1>2, SMT DEF T
<1>11. MdIdle
  BY <1>8, Zenon DEF MdIdle
<1> QED
  BY <1>3, <1>4, <1>5, <1>6, <1>7, <1>8, <1>9, <1>10, <1>11, Groups, Zenon DEF Typed, MemTyped

(* The groups after a cycle. *)
LEMMA GroupsStep ==
  ASSUME Typed, InBounds, Next
  PROVE  (TypeOK /\ DataWords \subseteq DOMAIN m)'
<1>1. /\ CpuTyped /\ MemTyped /\ IOTyped /\ IrqTyped /\ DbgTyped /\ md \in MD
      /\ WellFormed(ir)
  BY Groups, Zenon DEF Typed
<1>2. /\ pc \in Word /\ bus1 \in Word /\ bus2 \in Word /\ mem_addr \in Word /\ mem_din \in Word
  BY <1>1, Wires, Zenon DEF CpuTyped
<1>3. PICK stalled \in BOOLEAN : Clock(stalled)
  BY NextClock
<1>4. PICK intr \in SUBSET (Lines \intersect sources),
           mtip \in SUBSET ({Timer} \intersect sources) :
        /\ Sysctrl_fsm(intr \ d_intr, mtip) /\ IO_fsm(intr \ d_intr, stalled)
        /\ d_intr' = intr
  BY <1>3, Zenon DEF Clock
<1>5. MemTyped'
  BY <1>3, MemoryStep, Zenon DEF Clock
<1>6. IrqTyped'
  BY <1>1, <1>4, IrqStep, Zenon
<1>7. IOTyped'
  <2>1. intr \ d_intr \in SUBSET Lines
    BY <1>4, Zenon
  <2> QED
    BY <1>1, <1>2, <1>4, <2>1, IOStep, Zenon
<1>8. DbgTyped'
  <2>1. dbg' = nextDbg /\ Count /\ dbg_com' = dbg_com
    BY NextClock, SteppingStays, Zenon
  <2> QED
    BY <1>1, <1>2, <2>1, DbgStep, Zenon
<1>9. md' \in MD
  <2>1. md' = nextMd
    BY NextClock, Zenon
  <2> QED
    BY <1>1, <1>2, <2>1, MultiplierTyped, Zenon DEF nextMd
<1>10. CpuTyped'
  <2>1. CASE Run
    BY <2>1, CpuStep, Zenon DEF Run
  <2>2. CASE Stall
    BY <1>1, <2>2, Zenon DEF Stall, cpuVars, CpuTyped
  <2> QED
    BY <2>1, <2>2, Zenon DEF Next
<1>11. (CpuTyped /\ MemTyped /\ IOTyped /\ IrqTyped /\ DbgTyped /\ md \in MD)'
  BY <1>5, <1>6, <1>7, <1>8, <1>9, <1>10, Zenon
<1>12. (TypeOK /\ DataWords \subseteq DOMAIN m
         <=> CpuTyped /\ MemTyped /\ IOTyped /\ IrqTyped /\ DbgTyped /\ md \in MD)'
  BY Groups, PTL
<1> QED
  BY <1>11, <1>12, Zenon

(* What has been fetched is in dout in T[1], and what has been loaded, from *)
(* the memory or from IO, is there in T[3].                                 *)
LEMMA FetchedStep ==
  ASSUME Typed, InBounds, Next
  PROVE  /\ WellFormed(ir') /\ (T(1)' => WellFormed(dout'))
         /\ (T(3) /\ I({I_LD}) /\ ~IO_LD_completed)' => dout' \in [data : Word]
<1>1. CpuTyped /\ IOTyped /\ IrqTyped /\ WellFormed(ir)
  BY Groups, Zenon DEF Typed
<1>2. mem_addr \in Word /\ mem_din \in Word
  BY <1>1, Wires, Zenon
<1>3. /\ T(0) => WellFormed(dout')
      /\ T(1) \/ T(3) => dout' = dout
      /\ accesses /\ ~io_op /\ I({I_LD}) => dout' \in [data : Word]
  BY NextClock, MemoryStep, Zenon DEF Clock
<1>4. T(0) \/ T(1) \/ T(2) \/ T(3)
  BY <1>1, SMT DEF CpuTyped, T
<1>5. ~(0 = 1) /\ ~(0 = 3) /\ ~(1 = 2) /\ ~(1 = 3) /\ ~(2 = 1) /\ ~(2 = 3)
  OBVIOUS
<1>6. CASE Run
  <2>1. /\ Phase /\ sc \in 0 .. 3 /\ Clock(FALSE)
        /\ T(1) => sc' = 2
        /\ wfi => T2_Wfi
        /\ T(2) /\ ~wfi => sc' \in {0, 3}
        /\ T(3) => sc' = 0
    BY <1>1, <1>6, PhaseMoves, Zenon DEF Run, CpuTyped
  <2>2. WellFormed(ir')
    <3>1. ir' = ir \/ (T(1) /\ ir' = dout)
      BY <2>1, Zenon DEF Phase, T0_Trap, T0_Fetch, T1_Decode, T2_Compute, T2_Load, T2_Store,
         T2_Jump, T2_Branch, T2_Csr, T2_Mret, T2_Wfi, T3_Load, T3_Branch
    <3> QED
      BY <1>1, <3>1, Zenon DEF Typed
  <2>3. T(1)' => WellFormed(dout')
    <3> SUFFICES ASSUME sc' = 1 PROVE T(0)
      BY <1>3, Zenon DEF T
    <3>1. ~T(1) /\ ~T(3)
      BY <1>5, <2>1, Zenon
    <3>2. ~T(2)
      <4>1. wfi => sc' \in {0, 2}
        BY <2>1, Zenon DEF T2_Wfi, T
      <4> QED
        BY <1>5, <2>1, <4>1, Zenon
    <3> QED
      BY <1>4, <3>1, <3>2
  <2>4. ASSUME T(3)', I({I_LD})', ~IO_LD_completed'
        PROVE  dout' \in [data : Word]
    <3>1. sc' = 3
      BY <2>4, Zenon DEF T
    <3>2. ir'.opcode = I_LD
      BY <2>4, Zenon DEF I, dc
    <3>3. ~T(0)
      BY <1>5, <2>1, <3>1, SMT DEF PhaseMoves, T0_Trap, T0_Fetch, advance, complete, T, Phase,
         T1_Decode, T2_Compute, T2_Load, T2_Store, T2_Jump, T2_Branch, T2_Csr, T2_Mret, T2_Wfi,
         T3_Load, T3_Branch
    <3>4. T(2)
      BY <1>4, <1>5, <2>1, <3>1, <3>3, Zenon
    <3>5. T2_Load
      BY <2>1, <3>1, <3>2, <3>4, SMT DEF Phase, T0_Trap, T0_Fetch, T1_Decode, T2_Compute,
         T2_Store, T2_Jump, T2_Branch, T2_Csr, T2_Mret, T2_Wfi, T3_Load, T3_Branch,
         complete, T, I, dc, I_LD, I_BR
    <3>6. I({I_LD}) /\ accesses
      BY <3>5, Zenon DEF T2_Load, accesses, I
    <3>7. ~io_op
      <4>1. PICK edges \in SUBSET Lines : IO_fsm(edges, FALSE)
        BY <2>1, Zenon DEF Clock
      <4>2. io_op => IO_LD_completed' = I({I_LD})
        BY <1>1, <1>2, <4>1, IOStep, Zenon
      <4> QED
        BY <2>4, <3>6, <4>2, Zenon
    <3> QED
      BY <1>3, <3>6, <3>7, Zenon
  <2> QED
    BY <2>2, <2>3, <2>4, Zenon
<1>7. CASE Stall
  <2>1. sc' = sc /\ ir' = ir
    BY <1>7, Zenon DEF Stall, cpuVars
  <2>2. T(1)' => WellFormed(dout')
    BY <1>3, <2>1, Zenon DEF T, Typed
  <2>3. ASSUME T(3)', I({I_LD})'
        PROVE  dout' \in [data : Word]
    <3>1. T(3) /\ I({I_LD}) /\ ~T(2)
      BY <1>5, <2>1, <2>3, Zenon DEF T, I, dc
    <3>2. dbg_stall
      <4> SUFFICES ASSUME ~dbg_stall PROVE FALSE
        OBVIOUS
      <4>1. ~mdPending(nextMd)
        BY <3>1, SMT DEF Typed, MdIdle, nextMd, mdPending, mul_op
      <4>2. ~Clock(TRUE)
        BY <3>1, NoAccess, Zenon DEF Clock, IO_fsm
      <4> QED
        BY <1>7, <4>1, <4>2, Zenon DEF Stall
    <3>3. ~IO_LD_completed
      BY <3>1, <3>2, Zenon DEF InBounds
    <3> QED
      BY <1>3, <3>1, <3>3, Zenon DEF Typed
  <2> QED
    BY <1>1, <2>1, <2>2, <2>3, Zenon
<1> QED
  BY <1>6, <1>7, Zenon DEF Next

LEMMA TypedStep ==
  ASSUME Typed, InBounds, [Next]_vars
  PROVE  Typed'
<1>1. CASE UNCHANGED vars
  <2>1. (TypeOK /\ MdIdle /\ WellFormed(ir) /\ (T(1) => WellFormed(dout)))'
    BY <1>1, Zenon DEF Typed, TypeOK, MdIdle, mul_op, dc, T,
       vars, cpuVars, memVars, ioVars
  <2>2. (T(3) /\ I({I_LD}) /\ ~IO_LD_completed)' => dout' \in [data : Word]
    BY <1>1, Zenon DEF Typed, T, I, dc, vars, cpuVars, memVars, ioVars
  <2>3. DataWords \subseteq DOMAIN m'
    BY <1>1, Zenon DEF Typed, vars, memVars
  <2> QED
    BY <2>1, <2>2, <2>3, Zenon DEF Typed
<1>2. CASE Next
  <2>1. MdIdle'
    BY MdIdleStep, Zenon DEF Typed
  <2> QED
    BY <1>2, <2>1, GroupsStep, FetchedStep, Zenon DEF Typed
<1> QED
  BY <1>1, <1>2, Zenon

(* The registers keep their types, and words stay words, for every program *)
(* that stays within its code and its data.                                *)
THEOREM TypeCorrect == Spec /\ []InBounds => []TypeOK
<1>1. Typed => TypeOK
  BY DEF Typed
<1> QED
  BY <1>1, TypedInit, TypedStep, PTL DEF Spec

-----------------------------------------------------------------------------
(* The operators of Isa are those of Core. *)
LEMMA SameCodes ==
  /\ Arch!I_COMP = I_COMP /\ Arch!I_COMPI = I_COMPI /\ Arch!I_LUI = I_LUI
  /\ Arch!I_AUIPC = I_AUIPC /\ Arch!I_LD = I_LD /\ Arch!I_ST = I_ST /\ Arch!I_JAL = I_JAL
  /\ Arch!I_JALR = I_JALR /\ Arch!I_BR = I_BR /\ Arch!I_SYS = I_SYS
<1>1. /\ Arch!I_COMP = 51 /\ Arch!I_COMPI = 19 /\ Arch!I_LUI = 55 /\ Arch!I_AUIPC = 23
      /\ Arch!I_LD = 3 /\ Arch!I_ST = 35 /\ Arch!I_JAL = 111 /\ Arch!I_JALR = 103
      /\ Arch!I_BR = 99 /\ Arch!I_SYS = 115
  BY Zenon DEF Arch!I_COMP, Arch!I_COMPI, Arch!I_LUI, Arch!I_AUIPC, Arch!I_LD, Arch!I_ST,
               Arch!I_JAL, Arch!I_JALR, Arch!I_BR, Arch!I_SYS
<1> QED
  BY <1>1, Zenon DEF I_COMP, I_COMPI, I_LUI, I_AUIPC, I_LD, I_ST, I_JAL, I_JALR, I_BR, I_SYS

(* Words, their bits, and numbers made of bits. *)
LEMMA SameWords ==
  /\ Arch!XLEN = XLEN /\ Arch!Word = Word
  /\ \A n : Arch!Wrap(n) = Wrap(n)
  /\ \A x, i : Arch!isSet(x, i) <=> isSet(x, i)
  /\ \A x : Arch!Bits(x) = Bits(x)
  /\ \A S : Arch!Num(S) = Num(S)
  /\ \A x : Arch!SignOf(x) <=> SignOf(x)
<1>1. Arch!XLEN = XLEN /\ Arch!Word = Word
  BY DEF Arch!XLEN, XLEN, Arch!Word, Word
<1>2. ASSUME NEW n PROVE Arch!Wrap(n) = Wrap(n) /\ (Arch!SignOf(n) <=> SignOf(n))
  BY <1>1, Zenon DEF Arch!Wrap, Wrap, Arch!SignOf, SignOf
<1>3. ASSUME NEW x, NEW i PROVE Arch!isSet(x, i) <=> isSet(x, i)
  BY <1>1, Zenon DEF Arch!isSet, isSet
<1>4. ASSUME NEW x PROVE Arch!Bits(x) = Bits(x)
  BY <1>1, <1>3 DEF Arch!Bits, Bits
<1>5. ASSUME NEW S PROVE Arch!Num(S) = Num(S)
  BY DEF Arch!Num, Num, Arch!MapThenSumSet, Arch!MapThenFoldSet, MapThenSumSet, MapThenFoldSet
<1> QED
  BY <1>1, <1>2, <1>3, <1>4, <1>5, Zenon

(* The arithmetic of the simulator. *)
LEMMA SameCompute ==
  ASSUME NEW x, NEW y, NEW o
  PROVE  Arch!compute(x, y, o) = compute(x, y, o)
  BY Zenon DEF Arch!compute, compute, Arch!And, And, Arch!Or, Or, Arch!Xor, Xor, Arch!Bit, Bit,
     Arch!Num, Num, Arch!Bits, Bits, Arch!isSet, isSet, Arch!Wrap, Wrap, Arch!SignOf, SignOf,
     Arch!XLEN, XLEN, Arch!MapThenSumSet, Arch!MapThenFoldSet, MapThenSumSet, MapThenFoldSet

(* Loads and stores. *)
LEMMA SameLanes ==
  /\ \A t : Arch!ld_size(t) = ld_size(t) /\ Arch!st_size(t) = st_size(t)
  /\ \A a, s : Arch!Aligned(a, s) <=> Aligned(a, s)
  /\ \A a, t, d : Arch!formatRead(a, t, d) = formatRead(a, t, d)
  /\ \A a, d : Arch!shiftedData(a, d) = shiftedData(a, d)
  /\ \A a, t : Arch!byteEnable(a, t) = byteEnable(a, t)
  /\ \A w, d, l : Arch!storeMemByteEnable(w, d, l) = storeMemByteEnable(w, d, l)
<1>1. ASSUME NEW t
      PROVE  /\ Arch!ld_size(t) = ld_size(t) /\ Arch!st_size(t) = st_size(t)
             /\ Arch!ld_sext(t) <=> ld_sext(t)
  BY Zenon DEF Arch!ld_size, ld_size, Arch!st_size, st_size, Arch!ld_sext, ld_sext
<1>2. \A a, s : Arch!Aligned(a, s) <=> Aligned(a, s)
  BY Zenon DEF Arch!Aligned, Aligned
<1>3. ASSUME NEW a, NEW t, NEW d PROVE Arch!formatRead(a, t, d) = formatRead(a, t, d)
  BY Zenon DEF Arch!formatRead, formatRead, Arch!ld_size, ld_size, Arch!ld_sext, ld_sext,
     Arch!Wrap, Wrap, Arch!XLEN, XLEN
<1>4. \A a, d : Arch!shiftedData(a, d) = shiftedData(a, d)
  BY SameWords, Zenon DEF Arch!shiftedData, shiftedData
<1>5. \A a, t : Arch!byteEnable(a, t) = byteEnable(a, t)
  BY <1>1, Zenon DEF Arch!byteEnable, byteEnable
<1>6. ASSUME NEW w, NEW d, NEW l
      PROVE  Arch!storeMemByteEnable(w, d, l) = storeMemByteEnable(w, d, l)
  BY DEF Arch!storeMemByteEnable, storeMemByteEnable, Arch!lane, lane,
         Arch!MapThenSumSet, Arch!MapThenFoldSet, MapThenSumSet, MapThenFoldSet
<1> QED
  BY <1>1, <1>2, <1>3, <1>4, <1>5, <1>6, Zenon

(* The control and status registers. *)
LEMMA SameCsr ==
  /\ Arch!csrInit = csrInit /\ Arch!Causes = Causes
  /\ Arch!Zicsr = Zicsr /\ Arch!ZicsrImm = ZicsrImm
  /\ \A c, i : Arch!interrupt_detected(c, i) <=> interrupt_detected(c, i)
  /\ \A c, i, p : Arch!do_trap(c, i, p) = do_trap(c, i, p)
  /\ \A c : Arch!do_mret(c) = do_mret(c)
  /\ \A c, i, x, a, o, r : Arch!do_csrrx(c, i, x, a, o, r) = do_csrrx(c, i, x, a, o, r)
<1>1. /\ Arch!Timer = Timer /\ Arch!External = External /\ Arch!MIE = MIE /\ Arch!MPIE = MPIE
      /\ Arch!MPP = MPP
  BY Zenon DEF Arch!Timer, Timer, Arch!External, External, Arch!MIE, MIE, Arch!MPIE, MPIE,
               Arch!MPP, MPP
<1>2. Arch!CSR_RW = CSR_RW /\ Arch!Causes = Causes
  BY <1>1, Zenon DEF Arch!CSR_RW, CSR_RW, Arch!Causes, Causes
<1>3. /\ Arch!Writes = Writes /\ Arch!Sets = Sets /\ Arch!Clears = Clears
      /\ Arch!ZicsrImm = ZicsrImm /\ Arch!Zicsr = Zicsr
  BY Zenon DEF Arch!Writes, Writes, Arch!Sets, Sets, Arch!Clears, Clears, Arch!ZicsrImm, ZicsrImm,
               Arch!Zicsr, Zicsr
<1>4. Arch!csrInit = csrInit
  BY <1>2, Zenon DEF Arch!csrInit, csrInit
<1>5. ASSUME NEW c, NEW i
      PROVE  /\ Arch!irq_vec(c, i) = irq_vec(c, i)
             /\ Arch!interrupt_detected(c, i) <=> interrupt_detected(c, i)
  <2>1. Arch!irq_vec(c, i) = irq_vec(c, i)
    BY SameWords DEF Arch!irq_vec, irq_vec
  <2> QED
    BY <1>1, <2>1, SameWords, Zenon DEF Arch!interrupt_detected, interrupt_detected
<1>6. ASSUME NEW c, NEW i, NEW p PROVE Arch!do_trap(c, i, p) = do_trap(c, i, p)
  <2>1. \A n : Arch!interruptCause(n) = interruptCause(n)
    BY SameWords, Zenon DEF Arch!interruptCause, interruptCause
  <2> QED
    BY <1>1, <1>5, <2>1, SameWords, Zenon DEF Arch!do_trap, do_trap
<1>7. ASSUME NEW c PROVE Arch!do_mret(c) = do_mret(c)
  BY <1>1, SameWords, Zenon DEF Arch!do_mret, do_mret
<1>8. ASSUME NEW c, NEW i, NEW x, NEW a, NEW o, NEW r
      PROVE  Arch!do_csrrx(c, i, x, a, o, r) = do_csrrx(c, i, x, a, o, r)
  <2>1. \A n : Arch!csrName(n) = csrName(n)
    BY Zenon DEF Arch!csrName, csrName
  <2>2. \A n : Arch!WriteMask(n) = WriteMask(n)
    BY <1>1, SameWords, Zenon DEF Arch!WriteMask, WriteMask
  <2>3. Arch!read(c, i, a) = read(c, i, a)
    BY <1>2, <2>1, SameWords, Zenon DEF Arch!read, read
  <2>4. \A w : Arch!write(c, a, w) = write(c, a, w)
    BY <1>2, <2>1, <2>2, SameWords, Zenon DEF Arch!write, write
  <2>5. \A w : Arch!checkAccess(a, w) <=> checkAccess(a, w)
    BY <2>1, Zenon DEF Arch!checkAccess, checkAccess
  <2>6. \A w : Arch!csr_wdata(w, x, o) = csr_wdata(w, x, o)
    BY <1>3, SameWords, Zenon DEF Arch!csr_wdata, csr_wdata, Arch!Or, Or, Arch!And, And,
       Arch!Not, Not
  <2> QED
    BY <1>3, <2>3, <2>4, <2>5, <2>6, Zenon DEF Arch!do_csrrx, do_csrrx
<1> QED
  BY <1>2, <1>3, <1>4, <1>5, <1>6, <1>7, <1>8, Zenon

-----------------------------------------------------------------------------
(* What the decoder makes of a proper instruction. *)
MDOps == {"mulh", "mulhsu", "mulhu", "div", "divu", "rem", "remu"}

Formed(d) ==
  /\ d.opcode # 0
  /\ d.isMD <=> d.opcode = I_COMP /\ d.opID \in MDOps \union {"mul"}
  /\ d.opcode = I_COMP => d.opID \in CompOps \union MDOps \union {"mul"}
  /\ d.opcode = I_COMPI => d.opID \in CompOps
  /\ d.opcode \in {I_BR, I_ST} \/ (d.opcode = I_SYS /\ d.opID \in {"mret", "wfi"}) => d.I_rd = 0
  /\ d.opcode = I_BR => d.opID \in OrderOps
  /\ d.opcode \in {I_BR, I_JAL} => d.imm % 2 = 0
  /\ d.opcode = I_LUI => d.I_rs1 = 0

(* The offset of a branch or a jump is even, bit fields and sign alike. *)
LEMMA EvenImmediates ==
  ASSUME NEW i \in Instruction
  PROVE  imm_Btype(i) % 2 = 0 /\ imm_Jtype(i) % 2 = 0
<1>1. /\ i.f7 \in Int /\ i.rs2 \in Int /\ i.rs1 \in Int /\ i.f3 \in Int /\ i.rd \in Int
  BY FieldTypes, SMT
<1>2. \A s, y \in Int : s % 2 = 0 /\ y % 2 = 0 =>
        orSign(s, y, 11) % 2 = 0 /\ orSign(s, y, 19) % 2 = 0
  <2>1. 2^11 = 2048 /\ 2^19 = 524288
    BY SMT
  <2> QED
    BY <2>1, SMT DEF orSign
<1>3. /\ IR_SEXT(i, 20) \in Int /\ IR_SEXT(i, 12) \in Int
      /\ IR_SEXT(i, 20) % 2 = 0 /\ IR_SEXT(i, 12) % 2 = 0
  <2>1. /\ -(2^11) \in Int /\ -(2^11) % 2 = 0
        /\ -(2^19) \in Int /\ -(2^19) % 2 = 0
    BY SMT
  <2>2. IR_SEXT(i, 20) \in {0, -(2^11)} /\ IR_SEXT(i, 12) \in {0, -(2^19)}
    BY SignBit, Zenon DEF IR_SEXT
  <2>3. 0 \in Int /\ 0 % 2 = 0
    BY SMT
  <2> QED
    BY <2>1, <2>2, <2>3, Zenon
<1>4. imm_Btype(i) % 2 = 0
  <2> DEFINE y == (i.rd % 2) * 2048 + (i.f7 % 64) * 32 + (i.rd \div 2) * 2
  <2>1. y \in Int /\ y % 2 = 0
    BY <1>1, SMT
  <2>2. imm_Btype(i) = orSign(IR_SEXT(i, 20), y, 11)
    BY Zenon DEF imm_Btype
  <2> HIDE DEF y
  <2> QED
    BY <1>2, <1>3, <2>1, <2>2, Zenon
<1>5. imm_Jtype(i) % 2 = 0
  <2> DEFINE y == (i.rs1 * 8 + i.f3) * 4096 + (i.rs2 % 2) * 2048 + (imm12(i) \div 2 % 1024) * 2
  <2>1. y \in Int /\ y % 2 = 0
    BY <1>1, SMT DEF imm12
  <2>2. imm_Jtype(i) = orSign(IR_SEXT(i, 12), y, 19)
    BY Zenon DEF imm_Jtype
  <2> HIDE DEF y
  <2> QED
    BY <1>2, <1>3, <2>1, <2>2, Zenon
<1> QED
  BY <1>4, <1>5

(* The decoder gives an instruction of the ALU an operation it has. *)
LEMMA ComputeNames ==
  ASSUME NEW f3 \in 0 .. 7, NEW f7
  PROVE  /\ decComp(f3, f7, FALSE) \in CompOps \union {Illegal}
         /\ decComp(f3, f7, TRUE) \in CompOps \union {Illegal}
<1>1. f3 \in {0, 1, 2, 3, 4, 5, 6, 7}
  BY SMT
<1>2. /\ 0 # 1 /\ 0 # 2 /\ 0 # 3 /\ 0 # 4 /\ 0 # 5 /\ 0 # 6 /\ 0 # 7
      /\ 1 # 2 /\ 1 # 3 /\ 1 # 4 /\ 1 # 5 /\ 1 # 6 /\ 1 # 7
      /\ 2 # 3 /\ 2 # 4 /\ 2 # 5 /\ 2 # 6 /\ 2 # 7
      /\ 3 # 4 /\ 3 # 5 /\ 3 # 6 /\ 3 # 7
      /\ 4 # 5 /\ 4 # 6 /\ 4 # 7
      /\ 5 # 6 /\ 5 # 7
      /\ 6 # 7
  BY SMT
<1>3. {"add", "sub", "lt", "ltu", "and", "or", "xor", "sll", "srl", "sra"} \subseteq CompOps
  BY Zenon DEF CompOps, ArithOps, ShiftOps, OrderOps
<1>4. decComp(f3, f7, FALSE) \in CompOps \union {Illegal}
  BY <1>1, <1>2, <1>3, Zenon DEF decComp
<1>5. decComp(f3, f7, TRUE) \in CompOps \union {Illegal}
  BY <1>1, <1>2, <1>3, Zenon DEF decComp
<1> QED
  BY <1>4, <1>5

(* The operations of branches, loads and stores. *)
LEMMA OperationNames ==
  ASSUME NEW f3 \in 0 .. 7
  PROVE  decMD(f3) \in MDOps \union {"mul"} /\ decBranch(f3) \in OrderOps \union {Illegal}
<1>1. f3 \in {0, 1, 2, 3, 4, 5, 6, 7}
  BY SMT
<1>2. decMD(f3) \in MDOps \union {"mul"}
  BY <1>1, SMT DEF decMD, MDOps
<1>3. decBranch(f3) \in OrderOps \union {Illegal}
  BY <1>1, SMT DEF decBranch, OrderOps
<1> QED
  BY <1>2, <1>3

(* What a program may hold is formed so. *)
LEMMA InstructionsAreFormed ==
  ASSUME NEW d \in Instructions
  PROVE  Formed(d)
<1>1. PICK i \in Instruction : d = decode(i) /\ Proper(d)
  <2>1. PICK p \in Programs : \E a \in DOMAIN p.code : d = decode(p.code[a])
    BY Zenon DEF Instructions
  <2>2. PICK a \in DOMAIN p.code : d = decode(p.code[a])
    BY <2>1
  <2> QED
    BY <2>2, CoreAssumption, Zenon
<1>2. d = [opcode |-> i.opcode, opID |-> opIDOf(i),
           I_rd   |-> IF i.opcode \in {I_ST, I_BR} THEN 0 ELSE i.rd,
           I_rs1  |-> IF i.opcode \in {I_LUI, I_AUIPC, I_JAL} THEN 0 ELSE i.rs1,
           I_rs2  |-> IF i.opcode \in {I_COMP, I_ST, I_BR} THEN i.rs2 ELSE 0,
           imm    |-> immOf(i), isMD |-> isMD(i),
           error  |-> i.opcode \notin Opcodes \/ opIDOf(i) = Illegal]
  BY <1>1, Zenon DEF decode
<1>3. /\ d.opcode = i.opcode /\ d.opID = opIDOf(i) /\ d.imm = immOf(i)
      /\ d.isMD = isMD(i) /\ d.error = (i.opcode \notin Opcodes \/ opIDOf(i) = Illegal)
      /\ d.I_rd = IF i.opcode \in {I_ST, I_BR} THEN 0 ELSE i.rd
      /\ d.I_rs1 = IF i.opcode \in {I_LUI, I_AUIPC, I_JAL} THEN 0 ELSE i.rs1
  BY <1>2, SMT
<1>4. i.opcode \in Opcodes /\ opIDOf(i) # Illegal
  BY <1>1, <1>3, Zenon DEF Proper
<1>5. i.f3 \in 0 .. 7
  BY FieldTypes
<1>6. d.opcode # 0
  BY <1>3, <1>4, SMT DEF Opcodes, I_COMP, I_COMPI, I_LUI, I_AUIPC, I_LD, I_ST, I_JAL, I_JALR,
                         I_BR, I_SYS
<1>20. /\ I_COMP = 51 /\ I_COMPI = 19 /\ I_LUI = 55 /\ I_AUIPC = 23 /\ I_LD = 3 /\ I_ST = 35
       /\ I_JAL = 111 /\ I_JALR = 103 /\ I_BR = 99 /\ I_SYS = 115
  BY Zenon DEF I_COMP, I_COMPI, I_LUI, I_AUIPC, I_LD, I_ST, I_JAL, I_JALR, I_BR, I_SYS
<1>7. /\ d.opcode = I_COMP =>
           d.opID \in IF isMD(i) THEN MDOps \union {"mul"} ELSE CompOps \union {Illegal}
      /\ d.opcode = I_COMPI => d.opID \in CompOps \union {Illegal}
      /\ d.opcode = I_BR => d.opID = decBranch(i.f3)
      /\ d.opcode = I_SYS => d.opID = decSYS(imm12(i), i.f3, i.rd = 0 /\ i.f3 = 0 /\ i.rs1 = 0)
  <2>1. /\ I_COMP # I_COMPI /\ I_COMP # I_LD /\ I_COMP # I_ST /\ I_COMP # I_BR /\ I_COMP # I_SYS
        /\ I_COMPI # I_LD /\ I_COMPI # I_ST /\ I_COMPI # I_BR /\ I_COMPI # I_SYS
        /\ I_BR # I_LD /\ I_BR # I_ST /\ I_SYS # I_LD /\ I_SYS # I_ST /\ I_SYS # I_BR
    BY <1>20, SMT
  <2>2. i.opcode = I_COMP =>
          opIDOf(i) \in IF isMD(i) THEN MDOps \union {"mul"} ELSE CompOps \union {Illegal}
    <3>1. i.opcode = I_COMP /\ isMD(i) => opIDOf(i) = decMD(i.f3)
      BY <2>1, Zenon DEF opIDOf
    <3>2. i.opcode = I_COMP /\ ~isMD(i) => opIDOf(i) = decComp(i.f3, i.f7, FALSE)
      BY <2>1, Zenon DEF opIDOf
    <3>3. /\ decComp(i.f3, i.f7, FALSE) \in CompOps \union {Illegal}
          /\ decMD(i.f3) \in MDOps \union {"mul"}
      BY <1>5, ComputeNames, OperationNames
    <3>4. i.opcode = I_COMP /\ ~isMD(i) => opIDOf(i) \in CompOps \union {Illegal}
      BY <3>2, <3>3, Zenon
    <3>5. i.opcode = I_COMP /\ isMD(i) => opIDOf(i) \in MDOps \union {"mul"}
      BY <3>1, <3>3, Zenon
    <3> QED
      BY <3>4, <3>5, Zenon
  <2>3. i.opcode = I_COMPI => opIDOf(i) \in CompOps \union {Illegal}
    <3>1. i.opcode = I_COMPI => opIDOf(i) = decComp(i.f3, i.f7, TRUE)
      BY <2>1, Zenon DEF opIDOf
    <3>2. decComp(i.f3, i.f7, TRUE) \in CompOps \union {Illegal}
      BY <1>5, ComputeNames
    <3> QED
      BY <3>1, <3>2, Zenon
  <2>4. i.opcode = I_BR => opIDOf(i) = decBranch(i.f3)
    BY <2>1, Zenon DEF opIDOf
  <2>5. i.opcode = I_SYS =>
          opIDOf(i) = decSYS(imm12(i), i.f3, i.rd = 0 /\ i.f3 = 0 /\ i.rs1 = 0)
    BY <2>1, Zenon DEF opIDOf
  <2> QED
    BY <1>3, <2>2, <2>3, <2>4, <2>5, Zenon
<1>8. MDOps \union {"mul"} # {} /\ (MDOps \union {"mul"}) \intersect CompOps = {}
  BY SMT DEF MDOps, CompOps, ArithOps, ShiftOps, OrderOps
<1>9. /\ d.opcode = I_COMP => d.opID \in CompOps \union MDOps \union {"mul"}
      /\ d.opcode = I_COMP => (d.isMD <=> d.opID \in MDOps \union {"mul"})
      /\ d.opcode = I_COMPI => d.opID \in CompOps
      /\ d.opcode = I_BR => d.opID \in OrderOps
  BY <1>3, <1>4, <1>5, <1>7, <1>8, OperationNames, Zenon
<1>10. d.opcode # I_COMP => ~d.isMD
  BY <1>3, Zenon DEF isMD
<1>11. d.opcode = I_SYS /\ d.opID \in {"mret", "wfi"} => d.I_rd = 0
  <2> SUFFICES ASSUME d.opcode = I_SYS, d.opID \in {"mret", "wfi"} PROVE i.rd = 0
    BY <1>3, SMT DEF I_SYS, I_ST, I_BR
  <2> DEFINE z == i.rd = 0 /\ i.f3 = 0 /\ i.rs1 = 0
  <2>1. decSYS(imm12(i), i.f3, z) \in {"mret", "wfi"}
    BY <1>7
  <2>2. i.f3 \in {0, 1, 2, 3, 4, 5, 6, 7}
    BY <1>5, SMT
  <2>3. CASE i.f3 # 0
    <3> HIDE DEF z
    <3>1. i.f3 \in {1, 2, 3, 4, 5, 6, 7}
      BY <2>2, <2>3
    <3> QED
      BY <2>1, <2>3, <3>1, SMT DEF decSYS, Illegal
  <2>4. CASE i.f3 = 0
    BY <2>1, <2>4, SMT DEF decSYS, Illegal
  <2> QED
    BY <2>3, <2>4
<1>12. d.opcode \in {I_BR, I_ST} => d.I_rd = 0
  BY <1>3, Zenon
<1>13. d.opcode = I_LUI => d.I_rs1 = 0
  BY <1>3, Zenon
<1>14. d.opcode \in {I_BR, I_JAL} => d.imm % 2 = 0
  <2>1. /\ d.opcode = I_BR => d.imm = imm_Btype(i)
        /\ d.opcode = I_JAL => d.imm = imm_Jtype(i)
    BY <1>3, <1>20, SMT DEF immOf
  <2> QED
    BY <2>1, EvenImmediates, Zenon
<1> QED
  BY <1>6, <1>9, <1>10, <1>11, <1>12, <1>13, <1>14, Zenon DEF Formed

-----------------------------------------------------------------------------
(* The operands of an instruction, as the busses carry them. *)

(* The opcodes are different numbers. *)
LEMMA Codes ==
  /\ I_COMP = 51 /\ I_COMPI = 19 /\ I_LUI = 55 /\ I_AUIPC = 23 /\ I_LD = 3 /\ I_ST = 35
  /\ I_JAL = 111 /\ I_JALR = 103 /\ I_BR = 99 /\ I_SYS = 115
  BY Zenon DEF I_COMP, I_COMPI, I_LUI, I_AUIPC, I_LD, I_ST, I_JAL, I_JALR, I_BR, I_SYS

(* The sum of the ALU does not tell an offset from the word it wraps to. *)
LEMMA AddsOffset ==
  ASSUME NEW x \in Word, NEW n \in Int
  PROVE  /\ ALUcompute(x, Wrap(n), "add") = Wrap(x + n)
         /\ x % 2 = 0 /\ n % 2 = 0 => even(Wrap(x + n)) = Wrap(x + n)
         /\ x % 4 = 0 => even(Wrap(x + 4)) = Wrap(x + 4)
<1> DEFINE M == 2^XLEN  H == 2^(XLEN - 1)
<1>1. M \in Nat \ {0} /\ H \in Nat \ {0} /\ M = 2 * H
  BY Halves, PowersOfWord, SMT
<1>2. x \in Int /\ Wrap(n) \in Int /\ Wrap(n) \in Word
  <2>1. Wrap(n) \in Word
    BY WrapIsWord
  <2> QED
    <3>1. \A w \in Nat : w \in Int
      OBVIOUS
    <3> QED
      BY <2>1, <3>1, SmallWords, Zenon
<1>3. ALUcompute(x, Wrap(n), "add") = Wrap(x + Wrap(n))
  <2>1. x + Wrap(n) + 0 = x + Wrap(n)
    BY <1>2, SMT
  <2> QED
    BY <2>1, Zenon DEF ALUcompute, Bit
<1>4. Wrap(x + Wrap(n)) = Wrap(x + n)
  <2> HIDE DEF M
  <2>1. n % M \in Int /\ n \div M \in Int /\ n = M * (n \div M) + (n % M)
    <3>1. n \div M \in Int /\ n % M \in 0 .. M - 1 /\ n = M * (n \div M) + (n % M)
      BY <1>1, DivMod, Zenon
    <3>2. \A r \in 0 .. M - 1 : r \in Int
      BY <1>1, SMT
    <3> QED
      BY <3>1, <3>2, Zenon
  <2> DEFINE q == n \div M  r == n % M
  <2>2. (x + r) + q * M = x + n
    <3> HIDE DEF q, r
    <3> QED
      BY <1>1, <1>2, <2>1, SMT DEF q, r
  <2>3. ((x + r) + q * M) % M = (x + r) % M
    <3>1. x + r \in Int /\ q \in Int
      BY <1>2, <2>1, SMT
    <3> HIDE DEF q, r
    <3> QED
      BY <1>1, <3>1, ModShift, Zenon
  <2>4. (x + (n % M)) % M = (x + n) % M
    BY <2>2, <2>3, Zenon DEF r
  <2> QED
    BY <2>4, Zenon DEF Wrap, M
<1>5. ASSUME NEW y \in Int, y % 2 = 0 PROVE even(Wrap(y)) = Wrap(y)
  <2> HIDE DEF M, H
  <2> DEFINE q == y \div M  r == y % M
  <2>1. q \in Int /\ r \in Int /\ y = M * q + r
    <3>1. q \in Int /\ r \in 0 .. M - 1 /\ y = M * q + r
      BY <1>1, DivMod, Zenon
    <3> HIDE DEF q, r
    <3> QED
      BY <1>1, <3>1, SMT
  <2> HIDE DEF q, r
  <2>2. M * q = 2 * (H * q) /\ H * q \in Int
    BY <1>1, <2>1, SMT
  <2> DEFINE h == H * q
  <2>3. h \in Int /\ y = 2 * h + r
    BY <2>1, <2>2, SMT
  <2> HIDE DEF h
  <2>4. r % 2 = 0 /\ r - (r % 2) = r
    BY <1>5, <2>1, <2>3, SMT
  <2>5. Wrap(y) = r
    BY Zenon DEF Wrap, M, r
  <2> QED
    BY <2>4, <2>5, Zenon DEF even
<1>6. x % 2 = 0 /\ n % 2 = 0 => x + n \in Int /\ (x + n) % 2 = 0
  BY <1>2, SMT
<1>7. x % 4 = 0 => x + 4 \in Int /\ (x + 4) % 2 = 0
  BY <1>2, SMT
<1> QED
  BY <1>3, <1>4, <1>5, <1>6, <1>7, Zenon

(* Nothing added. *)
LEMMA Zero == Wrap(0) = 0 /\ \A n \in Int : 0 + n = n
<1>1. 0 \in Word
  BY SmallWords
<1> QED
  BY <1>1, WrapOfWord, SMT

(* Registers. *)
LEMMA OperandIsWord ==
  ASSUME CpuTyped, NEW id \in 0 .. NRegs - 1
  PROVE  getOperand(id) \in Word
<1>1. id = 0 \/ id \in Regs
  BY CoreAssumption, SMT DEF Regs
<1> QED
  BY <1>1, SmallWords, Zenon DEF getOperand, CpuTyped

(* The wires of T[2], by instruction. *)
x1 == getOperand(ir.I_rs1)
x2 == getOperand(ir.I_rs2)

(* bus1, bus2 and the operation of the ALU in T[2]. *)
LEMMA Busses ==
  ASSUME T(2), Formed(ir)
  PROVE  /\ ir.opcode \in {I_COMP, I_COMPI, I_LUI, I_LD, I_ST, I_JALR, I_BR} => bus1 = x1
         /\ ir.opcode \in {I_AUIPC, I_JAL} => bus1 = tr
         /\ csrrx => ir.opcode = I_SYS /\ csr_op = ir.opID
                     /\ bus1 = IF ir.opID \in ZicsrImm THEN ir.I_rs1 ELSE x1
         /\ ir.opcode \in {I_COMP, I_BR} => bus2 = x2
         /\ ir.opcode \in {I_COMPI, I_LUI, I_AUIPC, I_LD, I_ST, I_JAL, I_JALR} =>
              bus2 = Wrap(ir.imm)
         /\ ir.opcode \in {I_LUI, I_AUIPC, I_LD, I_ST, I_JAL, I_JALR} => op = "add"
         /\ ir.opcode \in {I_COMPI, I_BR} => op = ir.opID
         /\ ir.opcode = I_COMP /\ ~ir.isMD => op = ir.opID
         /\ rs2 = x2 /\ (mul_op <=> ir.isMD)
<1>0. ~T(0) /\ ~T(3)
  BY SMT DEF T
<1>1. ir.opcode # I_SYS => csr_op = "none"
  BY SMT DEF csr_op, I, dc
<1>2. "none" \notin ZicsrImm /\ "none" \notin Zicsr
  BY SMT DEF ZicsrImm, Zicsr, Writes, Sets, Clears
<1>3. ir.opcode # I_SYS => rs1 = x1 /\ ~csrrx
  BY <1>1, <1>2, Zenon DEF rs1, x1, dc, csrrx
<1>4. csrrx => ir.opcode = I_SYS /\ csr_op = ir.opID
  BY <1>1, <1>3, Zenon DEF csr_op, I, dc
<1>5. ir.opcode \in {I_COMP, I_COMPI, I_LUI, I_LD, I_ST, I_JALR, I_BR} => ir.opcode # I_SYS
  BY Codes, SMT
<1>6. ir.opcode \in {I_AUIPC, I_JAL} =>
        ir.opcode # I_SYS /\ ir.opcode \notin {I_COMP, I_COMPI, I_LUI, I_LD, I_ST, I_JALR, I_BR}
  BY Codes, SMT
<1>7. ir.opcode \in {I_COMP, I_COMPI, I_LUI, I_LD, I_ST, I_JALR, I_BR} => bus1 = x1
  BY <1>3, <1>5, Zenon DEF bus1, I, dc
<1>8. ir.opcode \in {I_AUIPC, I_JAL} => bus1 = tr
  BY <1>0, <1>3, <1>6, Zenon DEF bus1, I, dc
<1>9. csrrx => bus1 = IF ir.opID \in ZicsrImm THEN ir.I_rs1 ELSE x1
  BY <1>4, Zenon DEF bus1, rs1, dc, x1
<1>10. ir.opcode \in {I_COMP, I_BR} => bus2 = x2
  BY Zenon DEF bus2, rs2, I, dc, x2
<1>11. imm = Wrap(ir.imm)
  BY <1>0, Zenon DEF imm, dc
<1>12. ir.opcode \in {I_COMPI, I_LUI, I_AUIPC, I_LD, I_ST, I_JAL, I_JALR} =>
         ir.opcode \notin {I_COMP, I_BR}
  BY Codes, SMT
<1>13. ir.opcode \in {I_COMPI, I_LUI, I_AUIPC, I_LD, I_ST, I_JAL, I_JALR} => bus2 = Wrap(ir.imm)
  BY <1>11, <1>12, Zenon DEF bus2, I, dc
<1>14. ir.opcode \in {I_LUI, I_AUIPC, I_LD, I_ST, I_JAL, I_JALR} => op = "add"
  BY Zenon DEF op, I, dc
<1>15. ir.opcode \in {I_COMP, I_COMPI, I_BR} =>
         ir.opcode \notin {I_LUI, I_AUIPC, I_LD, I_ST, I_JAL, I_JALR}
  BY Codes, SMT
<1>16. ir.opcode \in {I_COMP, I_COMPI, I_BR} /\ ~ir.isMD => op = ir.opID
  BY <1>0, <1>15, Zenon DEF op, I, dc
<1>17. ir.opcode \in {I_COMPI, I_BR} => ~ir.isMD
  BY Codes, SMT DEF Formed
<1>18. rs2 = x2 /\ (mul_op <=> ir.isMD)
  BY Zenon DEF rs2, x2, mul_op, dc
<1> QED
  BY <1>4, <1>7, <1>8, <1>9, <1>10, <1>13, <1>14, <1>16, <1>17, <1>18, Zenon

(* What the ALU answers in T[2] and T[3]. *)
LEMMA Answer ==
  ASSUME CpuTyped, WellFormed(ir), Formed(ir)
  PROVE  /\ T(2) /\ ir.opcode \in {I_LD, I_ST, I_JALR} => ALUcompute(bus1, bus2, op) = loadAddr
         /\ T(2) /\ ir.opcode \in {I_LD, I_ST} => mem_addr = loadAddr
         /\ T(2) /\ ir.opcode = I_LUI => ALUcompute(bus1, bus2, op) = Wrap(ir.imm)
         /\ T(2) /\ ir.opcode \in {I_AUIPC, I_JAL} =>
              ALUcompute(bus1, bus2, op) = Wrap(tr + ir.imm)
         /\ T(3) /\ ir.opcode = I_BR => ALUcompute(bus1, bus2, op) = Wrap(tr + ir.imm)
         /\ T(2) /\ ir.opcode = I_COMPI =>
              ALUcompute(bus1, bus2, op) = compute(x1, Wrap(ir.imm), ir.opID)
         /\ T(2) /\ (ir.opcode = I_BR \/ (ir.opcode = I_COMP /\ ~ir.isMD)) =>
              ALUcompute(bus1, bus2, op) = compute(x1, x2, ir.opID)
         /\ T(2) /\ ir.opcode # I_SYS => x1 \in Word
         /\ T(2) => x2 \in Word
<1>1. ir.imm \in Int /\ tr \in Word /\ Wrap(ir.imm) \in Word
  BY WrapIsWord, Zenon DEF WellFormed, CpuTyped
<1>2. ir.opcode # I_SYS => x1 \in Word
  BY OperandIsWord, Zenon DEF WellFormed, x1
<1>3. x2 \in Word
  BY OperandIsWord, Zenon DEF WellFormed, x2
<1>4. ASSUME T(2), ir.opcode \in {I_LD, I_ST, I_JALR}
      PROVE  ALUcompute(bus1, bus2, op) = loadAddr
  <2>1. ir.opcode # I_SYS
    BY <1>4, Codes, SMT
  <2>2. bus1 = x1 /\ bus2 = Wrap(ir.imm) /\ op = "add"
    BY <1>4, Busses, Zenon
  <2>3. ALUcompute(x1, Wrap(ir.imm), "add") = Wrap(x1 + ir.imm)
    BY <1>1, <1>2, <2>1, AddsOffset
  <2> QED
    BY <2>2, <2>3, Zenon DEF loadAddr, x1, dc
<1>5. T(2) /\ ir.opcode \in {I_LD, I_ST} => mem_addr = loadAddr
  <2>1. ~(T(2) /\ T(0))
    BY SMT DEF T
  <2> QED
    BY <1>4, <2>1, Zenon DEF mem_addr
<1>6. ASSUME T(2), ir.opcode = I_LUI PROVE ALUcompute(bus1, bus2, op) = Wrap(ir.imm)
  <2>1. bus1 = x1 /\ bus2 = Wrap(ir.imm) /\ op = "add"
    BY <1>6, Busses, Zenon
  <2>2. x1 = 0
    BY <1>6, Zenon DEF Formed, x1, getOperand
  <2>3. ALUcompute(0, Wrap(ir.imm), "add") = Wrap(0 + ir.imm)
    BY <1>1, AddsOffset, SmallWords
  <2> QED
    BY <1>1, <2>1, <2>2, <2>3, Zero, Zenon
<1>7. ASSUME T(2), ir.opcode \in {I_AUIPC, I_JAL}
      PROVE  ALUcompute(bus1, bus2, op) = Wrap(tr + ir.imm)
  <2>1. bus1 = tr /\ bus2 = Wrap(ir.imm) /\ op = "add"
    BY <1>7, Busses, Zenon
  <2> QED
    BY <1>1, <2>1, AddsOffset, Zenon
<1>8. ASSUME T(3), ir.opcode = I_BR
      PROVE  ALUcompute(bus1, bus2, op) = Wrap(tr + ir.imm)
  <2>1. ~T(2) /\ ~T(0)
    BY <1>8, SMT DEF T
  <2>2. ~csrrx
    BY <2>1, SMT DEF csrrx, csr_op, Zicsr, Writes, Sets, Clears
  <2>3. bus1 = tr /\ bus2 = Wrap(ir.imm) /\ op = "add"
    BY <1>8, <2>1, Zenon DEF bus1, bus2, op, I, dc, imm
  <2> QED
    BY <1>1, <2>3, AddsOffset, Zenon
<1>9. ASSUME T(2), ir.opcode = I_COMPI
      PROVE  ALUcompute(bus1, bus2, op) = compute(x1, Wrap(ir.imm), ir.opID)
  <2>1. bus1 = x1 /\ bus2 = Wrap(ir.imm) /\ op = ir.opID
    BY <1>9, Busses, Zenon
  <2>2. ir.opID \in CompOps
    BY <1>9, Zenon DEF Formed
  <2>3. x1 \in Word
    BY <1>2, <1>9, Codes, SMT
  <2> QED
    BY <1>1, <2>1, <2>2, <2>3, ALUsAreEqual, Zenon
<1>10. ASSUME T(2), ir.opcode = I_BR \/ (ir.opcode = I_COMP /\ ~ir.isMD)
       PROVE  ALUcompute(bus1, bus2, op) = compute(x1, x2, ir.opID)
  <2>1. bus1 = x1 /\ bus2 = x2 /\ op = ir.opID
    BY <1>10, Busses, Zenon
  <2>2. ir.opID \in CompOps
    BY <1>10, Zenon DEF Formed, CompOps
  <2>3. x1 \in Word
    BY <1>2, <1>10, Codes, SMT
  <2> QED
    BY <1>3, <2>1, <2>2, <2>3, ALUsAreEqual, Zenon
<1> QED
  BY <1>2, <1>3, <1>4, <1>5, <1>6, <1>7, <1>8, <1>9, <1>10, Zenon

-----------------------------------------------------------------------------
(* The CSR instructions of the core do what those of the simulator do.     *)

(* Every register holds bits a write may set. *)
Masked(c) == \A n \in CSR_RW : Bits(c[n]) \subseteq WriteMask(n)

(* The bits of the constants that traps and refused accesses write. *)
LEMMA SomeBits ==
  /\ Bits(0) = {} /\ Bits(Not(0)) = 0 .. XLEN - 1
  /\ Bits(3 * 2^11 + 0) = {11, 12} /\ Bits(3 * 2^11 + 2^7) = {7, 11, 12}
<1>1. XLEN = 16 \/ XLEN = 32
  BY ByteAssumption, WidthAssumption, SMT DEF XLEN
<1>2. \A i \in 0 .. 31 : ~isSet(0, i)
  <2> SUFFICES ASSUME NEW i \in 0 .. 31 PROVE ~isSet(0, i)
    OBVIOUS
  <2> DEFINE P == 2^i
  <2>1. P \in Nat \ {0}
    <3>1. i \in 0 .. 32
      BY SMT
    <3> QED
      BY <3>1, Powers, Zenon
  <2> HIDE DEF P
  <2>2. 0 \div P = 0
    BY <2>1, SMT
  <2>3. (0 \div P) % 2 # 1
    BY <2>2, SMT
  <2> QED
    BY <2>3, Zenon DEF isSet, P
<1>3. 0 .. XLEN - 1 \subseteq 0 .. 31 /\ 7 \in 0 .. XLEN - 1 /\ 11 \in 0 .. XLEN - 1
      /\ 12 \in 0 .. XLEN - 1
  BY <1>1, SMT
<1>4. Bits(0) = {}
  BY <1>2, <1>3, Zenon DEF Bits
<1>5. \A x \in Int, i \in 0 .. 31, j \in 0 .. 31 :
        ~isSet(x, i) => (isSet(x + 2^i, j) <=> IF j = i THEN TRUE ELSE isSet(x, j))
  <2> SUFFICES ASSUME NEW x \in Int, NEW i \in 0 .. 31, NEW j \in 0 .. 31, ~isSet(x, i)
               PROVE  isSet(x + 2^i, j) <=> IF j = i THEN TRUE ELSE isSet(x, j)
    OBVIOUS
  <2> DEFINE P == 2^i
  <2>1. P \in Nat
    <3>1. i \in 0 .. 32
      BY SMT
    <3> QED
      BY <3>1, Powers, Zenon
  <2>2. x + 1 * P = x + P /\ 1 # -1
    <3> HIDE DEF P
    <3> QED
      BY <2>1, SMT
  <2>3. isSet(x + 1 * P, j) <=> IF j = i THEN 1 = 1 ELSE isSet(x, j)
    <3>1. 1 \in {-1, 1}
      OBVIOUS
    <3> QED
      BY <2>2, <3>1, BitAdd, Zenon
  <2> QED
    BY <2>2, <2>3, Zenon
<1> DEFINE A == 2^11  B == 2^12  C == 2^7
<1>6. /\ A \in Int /\ A + B \in Int /\ 0 + A = A
      /\ 3 * A + 0 = A + B /\ 3 * A + C = (A + B) + C
  BY SMT
<1>7. /\ 7 \in 0 .. 31 /\ 11 \in 0 .. 31 /\ 12 \in 0 .. 31 /\ 0 \in Int
      /\ ~(12 = 11) /\ ~(7 = 11) /\ ~(7 = 12)
  OBVIOUS
<1>8. \A x \in Int, j \in 0 .. 31 :
        /\ ~isSet(x, 11) => (isSet(x + A, j) <=> IF j = 11 THEN TRUE ELSE isSet(x, j))
        /\ ~isSet(x, 12) => (isSet(x + B, j) <=> IF j = 12 THEN TRUE ELSE isSet(x, j))
        /\ ~isSet(x, 7) => (isSet(x + C, j) <=> IF j = 7 THEN TRUE ELSE isSet(x, j))
  BY <1>5, <1>7, Zenon
<1> HIDE DEF A, B, C
<1>9. \A j \in 0 .. 31 : isSet(A, j) <=> j = 11
  <2>1. \A j \in 0 .. 31 : isSet(0 + A, j) <=> j = 11
    BY <1>2, <1>7, <1>8, Zenon
  <2> QED
    BY <1>6, <2>1
<1>10. \A j \in 0 .. 31 : isSet(A + B, j) <=> j \in {11, 12}
  <2>1. ~isSet(A, 12)
    BY <1>7, <1>9, Zenon
  <2> QED
    BY <1>6, <1>8, <1>9, <2>1, Zenon
<1>13. \A j \in 0 .. 31 : isSet((A + B) + C, j) <=> j \in {7, 11, 12}
  <2>1. ~isSet(A + B, 7)
    BY <1>7, <1>10, Zenon
  <2> QED
    BY <1>6, <1>8, <1>10, <2>1, Zenon
<1>11. Bits(A + B) = {11, 12} /\ Bits((A + B) + C) = {7, 11, 12}
  <2>1. ASSUME NEW x, NEW S, S \subseteq 0 .. XLEN - 1, \A j \in 0 .. 31 : isSet(x, j) <=> j \in S
        PROVE  Bits(x) = S
    BY <1>3, <2>1, Zenon DEF Bits
  <2>2. {11, 12} \subseteq 0 .. XLEN - 1 /\ {7, 11, 12} \subseteq 0 .. XLEN - 1
    BY <1>3, Zenon
  <2> QED
    BY <1>10, <1>13, <2>1, <2>2, Zenon
<1>12. Bits(Not(0)) = 0 .. XLEN - 1
  <2> DEFINE M == 2^XLEN
  <2>1. Not(0) = M - 1
    <3>1. M \in Nat
      BY PowersOfWord, Zenon
    <3>2. M - 1 - 0 = M - 1
      <4> HIDE DEF M
      <4> QED
        BY <3>1, SMT
    <3> QED
      BY <3>2, Zenon DEF Not
  <2>2. ASSUME NEW i \in 0 .. XLEN - 1 PROVE isSet(M - 1, i)
    <3>1. /\ i \in 0 .. 32 /\ XLEN - i \in 0 .. 32 /\ i + (XLEN - i) = XLEN
          /\ i + (XLEN - i) <= 32 /\ XLEN - i - 1 \in 0 .. 31 /\ XLEN - i - 1 \in 0 .. 32
          /\ (XLEN - i - 1) + 1 = XLEN - i
      BY <1>1, SMT
    <3> DEFINE P == 2^i  Q == 2^(XLEN - i)  R == 2^(XLEN - i - 1)
    <3>2. M = P * Q
      BY <3>1, PowerSum, Zenon
    <3>3. Q = 2 * R /\ P \in Nat \ {0} /\ R \in Nat \ {0}
      BY <3>1, Powers, Zenon
    <3> HIDE DEF M, P, Q, R
    <3>4. M - 1 \in Int /\ Q - 1 \in Int /\ P - 1 \in Int /\ 0 <= P - 1 /\ P - 1 < P
          /\ M - 1 = (Q - 1) * P + (P - 1)
      BY <3>2, <3>3, SMT
    <3>5. (M - 1) \div P = Q - 1
      BY <3>3, <3>4, DivUnique, Zenon
    <3>6. (Q - 1) % 2 = 1
      BY <3>3, SMT
    <3> QED
      BY <3>5, <3>6, Zenon DEF isSet, P
  <2> QED
    BY <2>1, <2>2, Zenon DEF Bits
<1> QED
  BY <1>4, <1>6, <1>11, <1>12, Zenon DEF A, C

(* Writing back what was read changes nothing. *)
LEMMA Rewritten ==
  ASSUME NEW c \in CSRs, Masked(c), NEW addr
  PROVE  csrName(addr) \in CSR_RW => write(c, addr, c[csrName(addr)]) = c
<1> SUFFICES ASSUME csrName(addr) \in CSR_RW
             PROVE  write(c, addr, c[csrName(addr)]) = c
  OBVIOUS
<1> DEFINE n == csrName(addr)
<1>1. c[n] \in Word /\ Bits(c[n]) \subseteq WriteMask(n)
  BY Zenon DEF CSRs, Masked
<1>2. Num(Bits(c[n])) = c[n]
  BY <1>1, WordIsItsBits, Zenon
<1>3. Bits(c[n]) \intersect WriteMask(n) = Bits(c[n])
  BY <1>1
<1>4. [c EXCEPT ![n] = c[n]] = c
  BY Zenon DEF CSRs
<1> QED
  BY <1>2, <1>3, <1>4, Zenon DEF write

(* Setting or clearing no bit. *)
LEMMA NoBitGiven ==
  ASSUME NEW x \in Word
  PROVE  Or(x, 0) = x /\ And(x, Not(0)) = x
<1>1. Bits(x) \subseteq 0 .. XLEN - 1 /\ Num(Bits(x)) = x
  BY WordIsItsBits
<1>2. Bits(x) \union Bits(0) = Bits(x) /\ Bits(x) \intersect Bits(Not(0)) = Bits(x)
  BY <1>1, SomeBits, Zenon
<1> QED
  BY <1>1, <1>2, Zenon DEF Or, And

(* An access to a register that is not there, or may not be written. *)
LEMMA Refused ==
  ASSUME NEW addr, NEW c, NEW i, csrName(addr) = "none" \/ addr \div 1024 = 3
  PROVE  read(c, i, addr) = 0 /\ \A x : write(c, addr, x) = c
<1>1. csrName(addr) \in {"none", "mvendorid"}
  <2>1. CASE csrName(addr) = "none"
    BY <2>1
  <2>2. CASE addr \div 1024 = 3
    <3>1. /\ addr # 768 /\ addr # 772 /\ addr # 773 /\ addr # 832 /\ addr # 833 /\ addr # 834
          /\ addr # 835 /\ addr # 836 /\ addr # 769
      BY <2>2, SMT
    <3>2. CASE addr \in 3857 .. 3860
      BY <3>1, <3>2, SMT DEF csrName
    <3>3. CASE addr \notin 3857 .. 3860
      BY <3>1, <3>3, SMT DEF csrName
    <3> QED
      BY <3>2, <3>3
  <2> QED
    BY <2>1, <2>2
<1>2. csrName(addr) \notin CSR_RW /\ csrName(addr) # "mip" /\ csrName(addr) # "misa"
  BY <1>1, SMT DEF CSR_RW
<1> QED
  BY <1>2, Zenon DEF read, write

(* A write, a set and a clear. *)
LEMMA WhatIsWritten ==
  ASSUME NEW old, NEW x, NEW o
  PROVE  /\ o \in Writes => csr_wdata(old, x, o) = x
         /\ o \in Zicsr \ Writes => csr_wdata(old, x, o) \in {Or(old, x), And(old, Not(x))}
<1>1. o \in Writes => o \notin Sets
  BY SMT DEF Writes, Sets
<1>2. o \in Writes => csr_wdata(old, x, o) = x
  BY <1>1, Zenon DEF csr_wdata
<1>3. o \notin Writes /\ o \in Sets => csr_wdata(old, x, o) = Or(old, x)
  BY Zenon DEF csr_wdata
<1>4. o \notin Writes /\ o \notin Sets => csr_wdata(old, x, o) = And(old, Not(x))
  BY Zenon DEF csr_wdata
<1> QED
  BY <1>2, <1>3, <1>4, Zenon

(* The two ways to do a csrrw and its kin agree when the instruction names *)
(* both registers it needs.                                                *)
LEMMA CsrInstruction ==
  ASSUME NEW c \in CSRs, Masked(c), NEW i \in SUBSET Causes, NEW x \in Word, NEW addr,
         NEW o \in Zicsr, NEW rd, NEW r1, r1 = 0 => x = 0,
         IF o \in Writes THEN r1 # 0 ELSE rd # 0 \/ r1 = 0
  PROVE  LET old == csr_val(c, i, addr, rd)
             res == do_csrrx(c, i, x, addr, o, rd)
         IN  /\ rd # 0 => res.rd = old
             /\ res.csr = writeback(c, old, x, addr, o, r1)
<1> DEFINE old == csr_val(c, i, addr, rd)
           skipRead  == o \in Writes /\ rd = 0
           skipWrite == o \notin Writes /\ x = 0
           seen == IF skipRead THEN 0 ELSE read(c, i, addr)
           ok == checkAccess(addr, ~skipWrite)
           wdata == csr_wdata(seen, x, o)
           next == IF skipWrite THEN c ELSE write(c, addr, wdata)
           res == do_csrrx(c, i, x, addr, o, rd)
<1>1. res = IF ~ok THEN [rd |-> 0, csr |-> c] ELSE [rd |-> seen, csr |-> next]
  BY Zenon DEF do_csrrx
<1>2. /\ ~ok => res.rd = 0 /\ res.csr = c
      /\ ok => res.rd = seen /\ res.csr = next
  <2> HIDE DEF ok, seen, next, res
  <2> QED
    BY <1>1, SMT
<1>3. ~ok => read(c, i, addr) = 0 /\ \A w : write(c, addr, w) = c
  BY Refused, Zenon DEF checkAccess
<1>4. rd # 0 => old = read(c, i, addr) /\ seen = read(c, i, addr)
  BY Zenon DEF csr_val
<1>5. rd # 0 => res.rd = old
  BY <1>2, <1>3, <1>4, Zenon
<1>6. CASE ~ok
  BY <1>2, <1>3, <1>5, <1>6, Zenon DEF writeback
<1>7. CASE ok /\ o \in Writes
  <2>1. next = write(c, addr, x)
    BY <1>7, WhatIsWritten, Zenon
  <2>2. writeback(c, old, x, addr, o, r1) = write(c, addr, x)
    BY <1>7, WhatIsWritten, Zenon DEF writeback
  <2> QED
    BY <1>2, <1>5, <1>7, <2>1, <2>2, Zenon
<1>8. CASE ok /\ o \notin Writes /\ r1 = 0
  BY <1>2, <1>5, <1>8, Zenon DEF writeback
<1>9. CASE ok /\ o \notin Writes /\ r1 # 0 /\ x # 0
  <2>1. rd # 0
    BY <1>9
  <2> QED
    BY <1>2, <1>4, <1>5, <1>9, <2>1, Zenon DEF writeback
<1>10. CASE ok /\ o \notin Writes /\ r1 # 0 /\ x = 0
  <2>1. rd # 0
    BY <1>10
  <2>2. writeback(c, old, x, addr, o, r1) = write(c, addr, csr_wdata(old, 0, o))
    BY <1>10, Zenon DEF writeback
  <2>3. csrName(addr) \in CSR_RW => old = c[csrName(addr)] /\ old \in Word
    <3>1. csrName(addr) \in CSR_RW => csrName(addr) # "mip" /\ csrName(addr) # "misa"
      BY SMT DEF CSR_RW
    <3>2. csrName(addr) \in CSR_RW => read(c, i, addr) = c[csrName(addr)]
      BY <3>1, Zenon DEF read
    <3> QED
      BY <1>4, <2>1, <3>2, Zenon DEF CSRs
  <2>4. csrName(addr) \in CSR_RW => csr_wdata(old, 0, o) = old
    <3>1. csrName(addr) \in CSR_RW => Or(old, 0) = old /\ And(old, Not(0)) = old
      <4> HIDE DEF old
      <4> QED
        BY <2>3, NoBitGiven, Zenon
    <3>2. csr_wdata(old, 0, o) \in {Or(old, 0), And(old, Not(0))}
      <4> HIDE DEF old
      <4> QED
        BY <1>10, WhatIsWritten, Zenon
    <3> HIDE DEF old
    <3> QED
      BY <3>1, <3>2, Zenon
  <2>5. write(c, addr, csr_wdata(old, 0, o)) = c
    <3>1. CASE csrName(addr) \in CSR_RW
      BY <2>3, <2>4, <3>1, Rewritten, Zenon
    <3>2. CASE csrName(addr) \notin CSR_RW
      BY <3>2, Zenon DEF write
    <3> QED
      BY <3>1, <3>2
  <2> QED
    BY <1>2, <1>5, <1>10, <2>2, <2>5, Zenon
<1> QED
  BY <1>6, <1>7, <1>8, <1>9, <1>10, Zenon

(* The masks hold. *)
LEMMA AllOfWord ==
  ASSUME NEW x
  PROVE  Bits(x) \subseteq 0 .. XLEN - 1
  BY Zenon DEF Bits

(* WARL is kept by a write, *)
LEMMA MaskedWrite ==
  ASSUME NEW c \in CSRs, Masked(c), NEW addr, NEW w
  PROVE  Masked(write(c, addr, w))
<1> DEFINE n == csrName(addr)  S == Bits(w) \intersect WriteMask(n)
<1>1. S \in SUBSET (0 .. XLEN - 1)
  BY AllOfWord, Zenon
<1>2. Bits(Num(S)) = S
  BY <1>1, WordIsItsBits, Zenon
<1>3. S \subseteq WriteMask(n)
  BY Zenon
<1>4. write(c, addr, w) = IF n \notin CSR_RW THEN c ELSE [c EXCEPT ![n] = Num(S)]
  BY Zenon DEF write
<1>5. DOMAIN c = CSR_RW
  BY Zenon DEF CSRs
<1> HIDE DEF n, S
<1> QED
  BY <1>2, <1>3, <1>4, <1>5, Zenon DEF Masked

(* at reset, *)
LEMMA MaskedInit == Masked(csrInit)
  BY SomeBits, Zenon DEF Masked, csrInit

(* (the masks that matter) *)
LEMMA Masks ==
  /\ {7, 11, 12} \subseteq WriteMask("mstatus") /\ 3 \in WriteMask("mstatus")
  /\ \A n \in {"mcause", "mtval", "mepc"} : WriteMask(n) = 0 .. XLEN - 1
<1>1. {7, 11, 12} \subseteq {3, 7} \union {11, 12} /\ 3 \in {3, 7} \union {11, 12}
  OBVIOUS
<1>2. \A n \in {"mcause", "mtval", "mepc"} : n # "mstatus" /\ n # "mie" /\ n # "mtvec"
  OBVIOUS
<1>3. WriteMask("mstatus") = {MIE, MPIE} \union MPP
  BY Zenon DEF WriteMask
<1>4. \A n \in {"mcause", "mtval", "mepc"} : WriteMask(n) = 0 .. XLEN - 1
  BY <1>2, Zenon DEF WriteMask
<1> QED
  BY <1>1, <1>3, <1>4, Zenon DEF MIE, MPIE, MPP

(* by a trap, *)
LEMMA MaskedTrap ==
  ASSUME NEW c \in CSRs, Masked(c), NEW i, NEW p
  PROVE  Masked(do_trap(c, i, p))
<1> DEFINE cause  == IF External \in irq_vec(c, i) THEN interruptCause(External)
                     ELSE IF Timer \in irq_vec(c, i) THEN interruptCause(Timer)
                     ELSE c["mcause"]
           status == 3 * 2^11 + (IF isSet(c["mstatus"], MIE) THEN 2^MPIE ELSE 0)
<1>1. "mcause" \in CSR_RW /\ "mtval" \in CSR_RW /\ "mstatus" \in CSR_RW /\ "mepc" \in CSR_RW
  BY DEF CSR_RW
<1>2. Bits(status) \subseteq WriteMask("mstatus")
  <2>1. status = 3 * 2^11 + 2^7 \/ status = 3 * 2^11 + 0
    BY Zenon DEF MPIE
  <2>2. {11, 12} \subseteq {7, 11, 12}
    OBVIOUS
  <2> HIDE DEF status
  <2> QED
    BY <2>1, <2>2, SomeBits, Masks, Zenon
<1> HIDE DEF cause, status
<1>3. do_trap(c, i, p) = [c EXCEPT !["mcause"] = cause, !["mtval"] = 0,
                                   !["mstatus"] = status, !["mepc"] = p]
  BY Zenon DEF do_trap, cause, status
<1>4. /\ Bits(cause) \subseteq WriteMask("mcause") /\ Bits(0) \subseteq WriteMask("mtval")
      /\ Bits(p) \subseteq WriteMask("mepc")
  BY AllOfWord, Masks, Zenon
<1>5. DOMAIN c = CSR_RW
  BY Zenon DEF CSRs
<1> QED
  BY <1>1, <1>2, <1>3, <1>4, <1>5, Zenon DEF Masked

(* and by mret. *)
LEMMA MaskedMret ==
  ASSUME NEW c \in CSRs, Masked(c)
  PROVE  Masked(do_mret(c))
<1> DEFINE S == {MPIE} \union (IF isSet(c["mstatus"], MPIE) THEN {MIE} ELSE {})
<1>1. "mstatus" \in CSR_RW
  BY DEF CSR_RW
<1>2. S \subseteq {3, 7}
  BY Zenon DEF MIE, MPIE
<1>3. S \in SUBSET (0 .. XLEN - 1) /\ S \subseteq WriteMask("mstatus")
  <2>1. 3 \in 0 .. XLEN - 1 /\ 7 \in 0 .. XLEN - 1
    BY CsrBits
  <2> HIDE DEF S
  <2> QED
    BY <1>2, <2>1, Masks
<1>4. Bits(Num(S)) = S
  BY <1>3, WordIsItsBits, Zenon
<1>5. do_mret(c) = [c EXCEPT !["mstatus"] = Num(S)]
  BY Zenon DEF do_mret
<1>6. DOMAIN c = CSR_RW
  BY Zenon DEF CSRs
<1> HIDE DEF S
<1> QED
  BY <1>1, <1>3, <1>4, <1>5, <1>6, Zenon DEF Masked

-----------------------------------------------------------------------------
(* The two lines of the controller make a number below four. *)
LEMMA FewLines ==
  ASSUME NEW S \in SUBSET Lines
  PROVE  Num(S) \in 0 .. 3
<1>1. /\ 0 \in 0 .. XLEN - 1 /\ 1 \in 0 .. XLEN - 1 /\ 0 .. XLEN - 1 \subseteq 0 .. 31
      /\ 0 \in 0 .. 31 /\ 1 \in 0 .. 31 /\ 0 \in Int /\ 2 \in Int
  BY Width, SMT
<1>2. \A x \in Int, i \in 0 .. 31, j \in 0 .. 31 :
        ~isSet(x, i) => (isSet(x + 2^i, j) <=> IF j = i THEN TRUE ELSE isSet(x, j))
  <2> SUFFICES ASSUME NEW x \in Int, NEW i \in 0 .. 31, NEW j \in 0 .. 31, ~isSet(x, i)
               PROVE  isSet(x + 2^i, j) <=> IF j = i THEN TRUE ELSE isSet(x, j)
    OBVIOUS
  <2> DEFINE P == 2^i
  <2>1. P \in Nat
    <3>1. i \in 0 .. 32
      BY SMT
    <3> QED
      BY <3>1, Powers, Zenon
  <2>2. x + 1 * P = x + P /\ 1 # -1
    <3> HIDE DEF P
    <3> QED
      BY <2>1, SMT
  <2>3. isSet(x + 1 * P, j) <=> IF j = i THEN 1 = 1 ELSE isSet(x, j)
    <3>1. 1 \in {-1, 1}
      OBVIOUS
    <3> QED
      BY <2>2, <3>1, BitAdd, Zenon
  <2> QED
    BY <2>2, <2>3, Zenon
<1>3. \A j \in 0 .. 31 : j \in 0 .. XLEN - 1 => ~isSet(0, j)
  BY SomeBits, Zenon DEF Bits
<1>4. \A j \in 0 .. XLEN - 1 : isSet(1, j) <=> j = 0
  <2>1. \A j \in 0 .. XLEN - 1 : isSet(0 + 2^0, j) <=> j = 0
    BY <1>1, <1>2, <1>3, Zenon
  <2>2. 0 + 2^0 = 1
    BY SMT
  <2> QED
    BY <2>1, <2>2
<1>5. \A j \in 0 .. XLEN - 1 : isSet(2, j) <=> j = 1
  <2>1. \A j \in 0 .. XLEN - 1 : isSet(0 + 2^1, j) <=> j = 1
    BY <1>1, <1>2, <1>3, Zenon
  <2>2. 0 + 2^1 = 2
    BY SMT
  <2> QED
    BY <2>1, <2>2
<1>6. \A j \in 0 .. XLEN - 1 : isSet(3, j) <=> j \in {0, 1}
  <2>0. ~isSet(2, 0)
    BY <1>1, <1>5
  <2>1. \A j \in 0 .. XLEN - 1 : isSet(2 + 2^0, j) <=> j \in {0, 1}
    BY <1>1, <1>2, <1>5, <2>0, Zenon
  <2>2. 2 + 2^0 = 3
    BY SMT
  <2> QED
    BY <2>1, <2>2
<1>7. Bits(0) = {} /\ Bits(1) = {0} /\ Bits(2) = {1} /\ Bits(3) = {0, 1}
  <2>1. ASSUME NEW x, NEW R, R \subseteq 0 .. XLEN - 1,
               \A j \in 0 .. XLEN - 1 : isSet(x, j) <=> j \in R
        PROVE  Bits(x) = R
    BY <2>1, Zenon DEF Bits
  <2>2. {0} \subseteq 0 .. XLEN - 1 /\ {1} \subseteq 0 .. XLEN - 1 /\ {0, 1} \subseteq 0 .. XLEN - 1
    BY <1>1, Zenon
  <2> QED
    <3>1. /\ \A j \in 0 .. XLEN - 1 : isSet(1, j) <=> j \in {0}
          /\ \A j \in 0 .. XLEN - 1 : isSet(2, j) <=> j \in {1}
      BY <1>4, <1>5, Zenon
    <3>2. Bits(1) = {0}
      BY <2>1, <2>2, <3>1, Zenon
    <3>3. Bits(2) = {1}
      BY <2>1, <2>2, <3>1, Zenon
    <3>4. Bits(3) = {0, 1}
      BY <1>6, <2>1, <2>2, Zenon
    <3> QED
      BY <3>2, <3>3, <3>4, SomeBits, Zenon
<1>8. \A k \in 0 .. 3 : Num(Bits(k)) = k
  <2>1. \A k \in 0 .. 3 : k \in 0 .. 31
    BY SMT
  <2> QED
    BY <2>1, SmallWords, WordIsItsBits, Zenon
<1>9. S \in {{}, {0}, {1}, {0, 1}}
  BY Zenon DEF Lines, UART, BUTTON
<1>10. 0 \in 0 .. 3 /\ 1 \in 0 .. 3 /\ 2 \in 0 .. 3 /\ 3 \in 0 .. 3
  OBVIOUS
<1> QED
  BY <1>7, <1>8, <1>9, <1>10, Zenon

(* An access of the core, and what the cycle does to the memory and to IO. *)
LEMMA AccessKind ==
  /\ accesses => T(2) /\ ~T(0) /\ ~T(1) /\ ~T(3) /\ ir.opcode \in {I_LD, I_ST}
  /\ T(2) /\ ir.opcode \in {I_LD, I_ST} => accesses
  /\ io_op => accesses
  /\ io_op <=> accesses /\ MEM_ADDR_OUT_OF_BOUNDS(mem_addr)
  /\ io_op <=> sys_op \/ axi_op
  /\ ~(sys_op /\ axi_op)
  /\ I({I_LD}) <=> ir.opcode = I_LD
  /\ I({I_ST}) <=> ir.opcode = I_ST
  /\ ~(I({I_LD}) /\ I({I_ST}))
  /\ ~T(2) => ~io_op /\ ~accesses
<1>1. accesses => T(2) /\ ~T(0) /\ ~T(1) /\ ~T(3) /\ ir.opcode \in {I_LD, I_ST}
  BY SMT DEF accesses, T, I, dc
<1>2. ~(I({I_LD}) /\ I({I_ST}))
  BY Codes, SMT DEF I
<1> QED
  BY <1>1, <1>2, Zenon DEF accesses, io_op, sys_op, axi_op, I, dc

(* What a cycle does to the memory, access by access. *)
LEMMA FreeMemory ==
  ASSUME Memory
  PROVE  /\ T(0) => /\ dout' = m[word(mem_addr)] /\ byte_pos' = mem_addr % 4 /\ ld_type' = "lw"
                    /\ m' = m
         /\ accesses /\ ~io_op /\ I({I_LD}) =>
              /\ dout' = m[word(mem_addr)] /\ byte_pos' = mem_addr % 4 /\ ld_type' = ir.opID
              /\ m' = m
         /\ accesses /\ ~io_op /\ I({I_ST}) =>
              m' = [m EXCEPT ![word(mem_addr)].data =
                      storeMemByteEnable(@, mem_din, byteEnable(mem_addr, ir.opID))]
         /\ ~T(0) /\ (~accesses \/ io_op) =>
              m' = m /\ dout' = dout /\ byte_pos' = byte_pos /\ ld_type' = ld_type
<1>1. CASE T(0)
  <2>1. ~accesses
    BY <1>1, AccessKind, Zenon
  <2> QED
    BY <1>1, <2>1, Zenon DEF Memory
<1>2. CASE ~T(0) /\ (~accesses \/ io_op)
  BY <1>2, Zenon DEF Memory, memVars
<1>3. CASE accesses /\ ~io_op /\ I({I_LD})
  BY <1>3, AccessKind, Zenon DEF Memory, dc
<1>4. CASE accesses /\ ~io_op /\ I({I_ST})
  BY <1>4, AccessKind, Zenon DEF Memory, dc
<1> QED
  BY <1>1, <1>2, <1>3, <1>4, AccessKind, Zenon

(* What a cycle does to IO. *)
LEMMA FreeIO ==
  ASSUME NEW edges \in SUBSET Lines, NEW stalled \in BOOLEAN, IO_fsm(edges, stalled), IrqTyped
  PROVE  /\ ~io_op => NoIO /\ ~stalled
         /\ io_op /\ stalled => IOPending
         /\ io_op /\ ~stalled /\ I({I_ST}) =>
              /\ IO_LD_completed' = FALSE /\ dev' = dev /\ out' = wrote(mem_addr, mem_din)
         /\ io_op /\ ~stalled /\ I({I_LD}) =>
              /\ IO_LD_completed' = TRUE /\ out' = out
              /\ IF isSysctrl(mem_addr) THEN dev' = dev /\ latched_data' \in 0 .. 3
                 ELSE dev' = (dev + 1) % DevValues /\ latched_data' = dev
<1>1. ~io_op => NoIO /\ ~stalled
  BY AccessKind, Zenon DEF IO_fsm
<1>2. io_op /\ stalled => IOPending
  BY AccessKind, Zenon DEF IO_fsm
<1>3. io_op /\ ~stalled => IODone(edges)
  BY AccessKind, Zenon DEF IO_fsm
<1>4. io_op /\ ~stalled /\ I({I_ST}) =>
        IO_LD_completed' = FALSE /\ dev' = dev /\ out' = wrote(mem_addr, mem_din)
  <2> SUFFICES ASSUME io_op, ~stalled, I({I_ST})
               PROVE  IO_LD_completed' = FALSE /\ dev' = dev /\ out' = wrote(mem_addr, mem_din)
    OBVIOUS
  <2>1. ~I({I_LD})
    BY AccessKind, Zenon
  <2>2. I({I_LD}) = FALSE
    BY <2>1, SMT DEF I
  <2> QED
    BY <1>3, <2>1, <2>2, Zenon DEF IODone
<1>5. sys_data(edges) \in 0 .. 3
  <2>1. /\ (ext_irq_pending \union edges) \intersect ext_irq_enable \in SUBSET Lines
        /\ ext_irq_enable \in SUBSET Lines
    BY Zenon DEF IrqTyped
  <2> QED
    BY <2>1, FewLines, Zenon DEF sys_data
<1>6. io_op /\ ~stalled /\ I({I_LD}) =>
        /\ IO_LD_completed' = TRUE /\ out' = out
        /\ IF isSysctrl(mem_addr) THEN dev' = dev /\ latched_data' \in 0 .. 3
           ELSE dev' = (dev + 1) % DevValues /\ latched_data' = dev
  <2> SUFFICES ASSUME io_op, ~stalled, I({I_LD})
               PROVE  /\ IO_LD_completed' = TRUE /\ out' = out
                      /\ IF isSysctrl(mem_addr) THEN dev' = dev /\ latched_data' \in 0 .. 3
                         ELSE dev' = (dev + 1) % DevValues /\ latched_data' = dev
    OBVIOUS
  <2>1. ~I({I_ST}) /\ IODone(edges)
    BY <1>3, AccessKind, Zenon
  <2>2. sys_op <=> isSysctrl(mem_addr)
    BY Zenon DEF sys_op
  <2>3. axi_op <=> ~isSysctrl(mem_addr)
    BY Zenon DEF axi_op
  <2>4. IO_LD_completed' = TRUE /\ out' = out
    BY <2>1, Zenon DEF IODone
  <2>5. CASE isSysctrl(mem_addr)
    BY <1>5, <2>1, <2>2, <2>3, <2>4, <2>5, Zenon DEF IODone
  <2>6. CASE ~isSysctrl(mem_addr)
    BY <2>1, <2>2, <2>3, <2>4, <2>6, Zenon DEF IODone
  <2> QED
    BY <2>5, <2>6
<1> QED
  BY <1>1, <1>2, <1>4, <1>6, Zenon

(* The parts of a clock cycle that the instruction set sees. *)
LEMMA ClockParts ==
  ASSUME NEW stalled \in BOOLEAN, Clock(stalled)
  PROVE  /\ Memory /\ md' = nextMd
         /\ \E edges \in SUBSET Lines : IO_fsm(edges, stalled)
<1>1. PICK intr \in SUBSET (Lines \intersect sources) : IO_fsm(intr \ d_intr, stalled)
  BY Zenon DEF Clock
<1>2. intr \ d_intr \in SUBSET Lines
  BY Zenon
<1> QED
  BY <1>1, <1>2, Zenon DEF Clock

-----------------------------------------------------------------------------
(* What ties the registers of the core to the instruction it is working    *)
(* on.  The instruction in flight, and the address it came from.           *)
InFlight == /\ ~T(0) => tr % 4 = 0 /\ pc = Wrap(tr + 4)
            /\ T(1) => dout \in Instructions
            /\ T(2) \/ T(3) => ir \in Instructions

(* The multiplier still owes the product of the operands. *)
Multiplying == T(2) /\ ir.isMD /\ ir.opID = "mul" /\ md.stt = 1 => Due(md) = Wrap(x1 * x2)

(* The flag of a branch is its condition. *)
Branching == T(3) /\ ir.opcode = I_BR => flg = compute(x1, x2, ir.opID) % 2

(* The memory has fetched a word, and nothing since. *)
Asking == T(1) \/ (T(2) /\ io_op) => byte_pos = 0 /\ ld_type = "lw"

(* A load in T[3] has its data, and its lanes, from the memory or from IO. *)
Loaded == T(3) /\ ir.opcode = I_LD =>
  /\ Aligned(loadAddr, ld_size(ir.opID))
  /\ IF IO_LD_completed
       THEN /\ MEM_ADDR_OUT_OF_BOUNDS(loadAddr) /\ ir.opID = "lw"
            /\ byte_pos = 0 /\ ld_type = "lw"
            /\ IF isSysctrl(loadAddr) THEN latched_data \in 0 .. 3
               ELSE latched_data = (dev + DevValues - 1) % DevValues
       ELSE /\ ~MEM_ADDR_OUT_OF_BOUNDS(loadAddr) /\ dout = m[word(loadAddr)]
            /\ byte_pos = loadAddr % 4 /\ ld_type = ir.opID

Answered == IO_LD_completed => T(3) /\ ir.opcode = I_LD

Tied == InFlight /\ Multiplying /\ Branching /\ Asking /\ Loaded /\ Answered /\ Masked(csr)

(* It holds at reset. *)
LEMMA TiedInit ==
  ASSUME Init
  PROVE  Tied
<1>1. T(0) /\ ~T(1) /\ ~T(2) /\ ~T(3)
  BY SMT DEF Init, T
<1>2. ~IO_LD_completed /\ csr = csrInit
  BY Zenon DEF Init
<1> QED
  BY <1>1, <1>2, MaskedInit, Zenon DEF Tied, InFlight, Multiplying, Branching, Asking, Loaded,
     Answered

(* In T[2] and T[3] the core works on an instruction of the program. *)
LEMMA AtWork ==
  ASSUME InFlight, T(2) \/ T(3)
  PROVE  Formed(ir)
  BY InstructionsAreFormed, Zenon DEF InFlight

(* A cycle in which the core is held: an IO access has not ended, no store *)
(* is made, and no latched word is offered.                                *)
LEMMA WhenStalled ==
  ASSUME Typed, InBounds, Regular, InFlight, Answered, Stall
  PROVE  /\ sc' = sc /\ pc' = pc /\ tr' = tr /\ ir' = ir /\ flg' = flg /\ xreg' = xreg
         /\ csr' = csr /\ m' = m /\ dev' = dev /\ out' = out /\ md' = nextMd
         /\ ~IO_LD_completed /\ IO_LD_completed' = FALSE
         /\ ~T(0) /\ (~accesses \/ io_op) =>
              dout' = dout /\ byte_pos' = byte_pos /\ ld_type' = ld_type
<1>1. PICK stalled \in BOOLEAN : /\ dbg_stall \/ mdPending(nextMd) \/ stalled
                                 /\ UNCHANGED cpuVars /\ Clock(stalled)
  BY Zenon DEF Stall
<1>2. PICK edges \in SUBSET Lines : IO_fsm(edges, stalled)
  BY <1>1, ClockParts, Zenon
<1>3. /\ sc' = sc /\ pc' = pc /\ tr' = tr /\ ir' = ir /\ flg' = flg /\ xreg' = xreg /\ csr' = csr
      /\ Memory /\ md' = nextMd
  BY <1>1, ClockParts, Zenon DEF cpuVars
<1>4. IrqTyped
  BY Groups, Zenon DEF Typed
<1>5. /\ ~io_op => NoIO /\ ~stalled
      /\ io_op /\ stalled => IOPending
  BY <1>2, <1>4, FreeIO, Zenon
<1>6. ~(mul_op /\ ir.opID = "mul") => ~mdPending(nextMd)
  BY SMT DEF Typed, MdIdle, nextMd, mdPending, dc
<1>7. accesses => ~mul_op
  <2>1. accesses => T(2) /\ ir.opcode # I_COMP
    BY AccessKind, Codes, SMT
  <2> QED
    BY <2>1, AtWork, Zenon DEF Formed, mul_op, dc
<1>8. io_op \/ (accesses /\ I({I_ST})) => stalled
  BY <1>1, <1>6, <1>7, AccessKind, Zenon DEF Regular
<1>9. accesses /\ ~io_op => I({I_LD})
  BY <1>5, <1>8, AccessKind, Zenon
<1>10. m' = m /\ (~T(0) /\ (~accesses \/ io_op) =>
         dout' = dout /\ byte_pos' = byte_pos /\ ld_type' = ld_type)
  BY <1>3, <1>9, FreeMemory, Zenon
<1>11. dev' = dev /\ out' = out /\ IO_LD_completed' = FALSE
  BY <1>5, <1>8, Zenon DEF NoIO, IOPending
<1>12. ~IO_LD_completed
  <2> SUFFICES ASSUME IO_LD_completed PROVE FALSE
    OBVIOUS
  <2>1. T(3) /\ I({I_LD}) /\ ~T(2)
    <3>1. ~(T(3) /\ T(2))
      BY SMT DEF T
    <3> QED
      BY <3>1, AccessKind, Zenon DEF Answered
  <2>2. ~io_op /\ ~mul_op
    BY <2>1, AccessKind, Zenon DEF mul_op
  <2>3. dbg_stall
    BY <1>1, <1>5, <1>6, <2>2, Zenon
  <2> QED
    BY <2>1, <2>3, Zenon DEF InBounds
<1> QED
  BY <1>3, <1>10, <1>11, <1>12, Zenon

(* A cycle in which it runs. *)
LEMMA WhenRunning ==
  ASSUME Typed, Run
  PROVE  /\ Phase /\ ~mdPending(nextMd) /\ md' = nextMd
         /\ ~accesses => m' = m /\ dev' = dev /\ out' = out /\ IO_LD_completed' = FALSE
         /\ T(0) => dout' = m[word(pc)] /\ byte_pos' = pc % 4 /\ ld_type' = "lw"
         /\ ~T(0) /\ (~accesses \/ io_op) =>
              m' = m /\ dout' = dout /\ byte_pos' = byte_pos /\ ld_type' = ld_type
         /\ accesses /\ ~io_op => dev' = dev /\ out' = out /\ IO_LD_completed' = FALSE
         /\ accesses /\ ~io_op /\ I({I_LD}) =>
              /\ dout' = m[word(mem_addr)] /\ byte_pos' = mem_addr % 4 /\ ld_type' = ir.opID
              /\ m' = m
         /\ accesses /\ ~io_op /\ I({I_ST}) =>
              m' = [m EXCEPT ![word(mem_addr)].data =
                      storeMemByteEnable(@, mem_din, byteEnable(mem_addr, ir.opID))]
         /\ io_op /\ I({I_ST}) =>
              /\ IO_LD_completed' = FALSE /\ dev' = dev /\ out' = wrote(mem_addr, mem_din)
         /\ io_op /\ I({I_LD}) =>
              /\ IO_LD_completed' = TRUE /\ out' = out
              /\ IF isSysctrl(mem_addr) THEN dev' = dev /\ latched_data' \in 0 .. 3
                 ELSE dev' = (dev + 1) % DevValues /\ latched_data' = dev
<1>1. Phase /\ ~mdPending(nextMd) /\ Clock(FALSE)
  BY Zenon DEF Run
<1>2. PICK edges \in SUBSET Lines : IO_fsm(edges, FALSE)
  BY <1>1, ClockParts, Zenon
<1>3. Memory /\ md' = nextMd
  BY <1>1, ClockParts, Zenon
<1>4. IrqTyped
  BY Groups, Zenon DEF Typed
<1>5. /\ ~io_op => NoIO
      /\ io_op /\ I({I_ST}) =>
              /\ IO_LD_completed' = FALSE /\ dev' = dev /\ out' = wrote(mem_addr, mem_din)
      /\ io_op /\ I({I_LD}) =>
              /\ IO_LD_completed' = TRUE /\ out' = out
              /\ IF isSysctrl(mem_addr) THEN dev' = dev /\ latched_data' \in 0 .. 3
                 ELSE dev' = (dev + 1) % DevValues /\ latched_data' = dev
  BY <1>2, <1>4, FreeIO, Zenon
<1>6. ~io_op => dev' = dev /\ out' = out /\ IO_LD_completed' = FALSE
  BY <1>5, Zenon DEF NoIO
<1>7. T(0) => mem_addr = pc
  <2>1. ~(T(0) /\ T(2))
    BY SMT DEF T
  <2> QED
    BY <2>1, Zenon DEF mem_addr, bus1
<1>8. ~accesses => m' = m
  BY <1>3, FreeMemory, Zenon
<1> QED
  BY <1>1, <1>3, <1>5, <1>6, <1>7, <1>8, FreeMemory, AccessKind, Zenon

(* Where a phase leads. *)
LEMMA Leads ==
  ASSUME Typed, Phase
  PROVE  \/ sc' = 0
         \/ sc' = 1 /\ T0_Fetch /\ T(0)
         \/ sc' = 2 /\ T1_Decode /\ T(1)
         \/ sc' = 2 /\ T2_Wfi /\ T(2)
         \/ sc' = 3 /\ T2_Load /\ T(2)
         \/ sc' = 3 /\ T2_Branch /\ T(2)
<1>1. sc \in 0 .. 3
  BY Zenon DEF Typed, TypeOK
<1>2. sc' = 0 \/ T0_Fetch \/ T1_Decode \/ T2_Load \/ T2_Branch \/ T2_Wfi
  BY Zenon DEF Phase, T0_Trap, T2_Compute, T2_Store, T2_Jump, T2_Csr, T2_Mret,
     T3_Load, T3_Branch, complete
<1>3. T0_Fetch => T(0) /\ sc' = 1
  BY SMT DEF T0_Fetch, advance, T
<1>4. T1_Decode => T(1) /\ sc' = 2
  BY SMT DEF T1_Decode, advance, T
<1>5. (T2_Load \/ T2_Branch) => T(2) /\ sc' = 3
  BY SMT DEF T2_Load, T2_Branch, advance, T
<1>6. T2_Wfi => T(2) /\ (sc' = 0 \/ sc' = 2)
  BY SMT DEF T2_Wfi, T
<1> QED
  BY <1>2, <1>3, <1>4, <1>5, <1>6, Zenon

(* The operands and the address stay while registers and instruction do. *)
LEMMA Frames ==
  ASSUME xreg' = xreg, ir' = ir
  PROVE  x1' = x1 /\ x2' = x2 /\ loadAddr' = loadAddr
  BY Zenon DEF x1, x2, loadAddr, getOperand, dc

(* So does the choice between memory and IO. *)
LEMMA WiresStay ==
  ASSUME sc' = sc, pc' = pc, tr' = tr, ir' = ir, xreg' = xreg
  PROVE  io_op' <=> io_op
<1>1. csr_op' = csr_op
  BY Zenon DEF csr_op, T, I, dc
<1>2. rs1' = rs1 /\ rs2' = rs2
  BY <1>1, Zenon DEF rs1, rs2, T, dc, getOperand
<1>3. op' = op /\ imm' = imm /\ (csrrx' <=> csrrx)
  BY <1>1, Zenon DEF op, imm, csrrx, T, I, dc
<1>4. bus1' = bus1 /\ bus2' = bus2
  BY <1>2, <1>3, Zenon DEF bus1, bus2, T, I, dc
<1>5. mem_addr' = mem_addr
  BY <1>3, <1>4, Zenon DEF mem_addr, T
<1>6. accesses' <=> accesses
  BY Zenon DEF accesses, T, I, dc
<1> QED
  BY <1>5, <1>6, Zenon DEF io_op

(* One phase at a time. *)
LEMMA Phases ==
  /\ ~(T(0) /\ T(1)) /\ ~(T(0) /\ T(2)) /\ ~(T(0) /\ T(3)) /\ ~(T(1) /\ T(2))
  /\ ~(T(1) /\ T(3)) /\ ~(T(2) /\ T(3))
  BY SMT DEF T

(* The same of the next state. *)
LEMMA PhasesNext ==
  /\ sc' = 0 => T(0)' /\ ~T(1)' /\ ~T(2)' /\ ~T(3)'
  /\ sc' = 1 => ~T(0)' /\ T(1)' /\ ~T(2)' /\ ~T(3)'
  /\ sc' = 2 => ~T(0)' /\ ~T(1)' /\ T(2)' /\ ~T(3)'
  /\ sc' = 3 => ~T(0)' /\ ~T(1)' /\ ~T(2)' /\ T(3)'
  BY SMT DEF T

(* A device that has been read shows the value after the one it answered. *)
LEMMA ReadBefore ==
  ASSUME IOTyped
  PROVE  /\ (((dev + 1) % DevValues) + DevValues - 1) % DevValues = dev
         /\ (((dev + DevValues - 1) % DevValues) + 1) % DevValues = dev
<1>1. DevValues \in Nat \ {0} /\ dev \in 0 .. DevValues - 1
  <2> DEFINE M == 2^XLEN
  <2>1. M \in Nat /\ DevValues \in 1 .. M
    BY PowersOfWord, CoreAssumption, Zenon
  <2> HIDE DEF M
  <2> QED
    BY <2>1, SMT DEF IOTyped
<1>2. \A q \in Int, r \in 0 .. DevValues - 1 : (q * DevValues + r) % DevValues = r
  <2> SUFFICES ASSUME NEW q \in Int, NEW r \in 0 .. DevValues - 1
               PROVE  (q * DevValues + r) % DevValues = r
    OBVIOUS
  <2>1. q * DevValues + r \in Int /\ r \in Int /\ 0 <= r /\ r < DevValues
    BY <1>1, SMT
  <2> QED
    BY <1>1, <2>1, ModUnique, Zenon
<1>3. (((dev + 1) % DevValues) + DevValues - 1) % DevValues = dev
  <2>1. CASE dev = DevValues - 1
    <3>1. dev + 1 = 1 * DevValues + 0 /\ 0 \in 0 .. DevValues - 1 /\ 1 \in Int
      BY <1>1, <2>1, SMT
    <3>2. (dev + 1) % DevValues = 0
      BY <1>2, <3>1, Zenon
    <3>3. 0 + DevValues - 1 = 0 * DevValues + dev /\ 0 \in Int
      BY <1>1, <2>1, SMT
    <3>4. (0 + DevValues - 1) % DevValues = dev
      BY <1>1, <1>2, <3>3, Zenon
    <3> QED
      BY <3>2, <3>4, Zenon
  <2>2. CASE dev # DevValues - 1
    <3>1. dev + 1 = 0 * DevValues + (dev + 1) /\ dev + 1 \in 0 .. DevValues - 1 /\ 0 \in Int
      BY <1>1, <2>2, SMT
    <3>2. (dev + 1) % DevValues = dev + 1
      BY <1>2, <3>1, Zenon
    <3>3. (dev + 1) + DevValues - 1 = 1 * DevValues + dev /\ 1 \in Int
      BY <1>1, SMT
    <3>4. ((dev + 1) + DevValues - 1) % DevValues = dev
      BY <1>1, <1>2, <3>3, Zenon
    <3> QED
      BY <3>2, <3>4, Zenon
  <2> QED
    BY <2>1, <2>2
<1>4. (((dev + DevValues - 1) % DevValues) + 1) % DevValues = dev
  <2>1. CASE dev = 0
    <3>1. /\ dev + DevValues - 1 = 0 * DevValues + (DevValues - 1)
          /\ DevValues - 1 \in 0 .. DevValues - 1 /\ 0 \in Int
      BY <1>1, <2>1, SMT
    <3>2. (dev + DevValues - 1) % DevValues = DevValues - 1
      BY <1>2, <3>1, Zenon
    <3>3. (DevValues - 1) + 1 = 1 * DevValues + dev /\ 1 \in Int
      BY <1>1, <2>1, SMT
    <3>4. ((DevValues - 1) + 1) % DevValues = dev
      BY <1>1, <1>2, <3>3, Zenon
    <3> QED
      BY <3>2, <3>4, Zenon
  <2>2. CASE dev # 0
    <3>1. dev + DevValues - 1 = 1 * DevValues + (dev - 1) /\ dev - 1 \in 0 .. DevValues - 1
          /\ 1 \in Int
      BY <1>1, <2>2, SMT
    <3>2. (dev + DevValues - 1) % DevValues = dev - 1
      BY <1>2, <3>1, Zenon
    <3>3. (dev - 1) + 1 = 0 * DevValues + dev /\ 0 \in Int
      BY <1>1, SMT
    <3>4. ((dev - 1) + 1) % DevValues = dev
      BY <1>1, <1>2, <3>3, Zenon
    <3> QED
      BY <3>2, <3>4, Zenon
  <2> QED
    BY <2>1, <2>2
<1> QED
  BY <1>3, <1>4

(* The instruction in flight is one of the program, from the address in tr. *)
LEMMA InFlightStep ==
  ASSUME Typed, InBounds, Regular, Tied, Next
  PROVE  InFlight'
<1>0. CpuTyped /\ InFlight
  BY Groups, Zenon DEF Typed, Tied
<1>1. CASE Stall
  <2>1. /\ sc' = sc /\ pc' = pc /\ tr' = tr /\ ir' = ir
        /\ T(1) => dout' = dout
    BY <1>1, WhenStalled, AccessKind, Phases, Zenon DEF Tied
  <2> QED
    BY <1>0, <2>1, Zenon DEF InFlight, T
<1>2. CASE Run
  <2>1. Phase /\ (T(0) => dout' = m[word(pc)])
    BY <1>2, WhenRunning, Zenon
  <2>2. CASE sc' = 0
    BY <2>2, PhasesNext, Zenon DEF InFlight
  <2>3. CASE sc' = 1 /\ T0_Fetch /\ T(0)
    <3>0. 4 \in Int
      OBVIOUS
    <3>1. pc \in Word /\ pc % 4 = 0 /\ 4 \in Int
      BY <1>0, <2>3, <3>0, Zenon DEF CpuTyped, Regular
    <3>2. /\ ALUcompute(pc, Wrap(4), "add") = Wrap(pc + 4)
          /\ even(Wrap(pc + 4)) = Wrap(pc + 4)
      BY <3>1, AddsOffset
    <3>3. Wrap(4) = 4
      BY WrapOfWord, SmallWords
    <3>4. bus1 = pc /\ bus2 = 4 /\ op = "add"
      BY <2>3, Phases, SMT DEF bus1, bus2, op, imm, csrrx, csr_op, Zicsr, Writes, Sets, Clears
    <3>5. pc' = Wrap(pc + 4) /\ tr' = pc
      BY <2>3, <3>2, <3>3, <3>4, Zenon DEF T0_Fetch
    <3>6. dout' \in Instructions
      BY <2>1, <2>3, Zenon DEF InBounds
    <3> QED
      BY <2>3, <3>1, <3>5, <3>6, PhasesNext, Zenon DEF InFlight
  <2>4. CASE sc' = 2 /\ T1_Decode /\ T(1)
    <3>1. pc' = pc /\ tr' = tr /\ ir' = dout
      BY <2>4, Zenon DEF T1_Decode
    <3> QED
      BY <1>0, <2>4, <3>1, Phases, PhasesNext, Zenon DEF InFlight
  <2>5. CASE /\ T(2) /\ ((sc' = 2 /\ T2_Wfi) \/ (sc' = 3 /\ T2_Load) \/ (sc' = 3 /\ T2_Branch))
    <3>1. pc' = pc /\ tr' = tr /\ ir' = ir
      BY <2>5, Zenon DEF T2_Wfi, T2_Load, T2_Branch
    <3> QED
      BY <1>0, <2>5, <3>1, Phases, PhasesNext, Zenon DEF InFlight
  <2> QED
    BY <2>1, <2>2, <2>3, <2>4, <2>5, Leads, Zenon
<1> QED
  BY <1>1, <1>2, Zenon DEF Next

(* Stalled or not, the multiplier owes the same product. *)
LEMMA MultiplyingStep ==
  ASSUME Typed, InBounds, Regular, Tied, Next
  PROVE  Multiplying'
<1>0. /\ CpuTyped /\ md \in MD /\ MdIdle /\ WellFormed(ir) /\ InFlight /\ Multiplying
  BY Groups, Zenon DEF Typed, Tied
<1>1. CASE Stall
  <2>1. sc' = sc /\ ir' = ir /\ xreg' = xreg /\ md' = nextMd
    BY <1>1, WhenStalled, Zenon DEF Tied
  <2> SUFFICES ASSUME T(2), ir.isMD, ir.opID = "mul" PROVE Due(md') = Wrap(x1 * x2)
    BY <2>1, Frames, Zenon DEF Multiplying, T
  <2>2. Formed(ir)
    BY <1>0, AtWork, Zenon
  <2>3. ir.opcode = I_COMP
    BY <2>2, Zenon DEF Formed
  <2>4. bus1 = x1 /\ bus2 = x2 /\ mul_op
    BY <2>2, <2>3, Busses, Zenon
  <2>5. x1 \in Word /\ x2 \in Word
    <3>1. ir.opcode # I_SYS
      BY <2>3, Codes, SMT
    <3> QED
      BY <1>0, <2>2, <3>1, Answer, Zenon
  <2>6. md' = mdStep(md, x1, x2)
    BY <2>1, <2>4, Zenon DEF nextMd, dc
  <2>7. md.stt \in {0, 1}
    BY <1>0, SMT DEF MD
  <2>8. CASE md.stt = 0
    BY <1>0, <2>5, <2>6, <2>8, MultiplierStarts, Zenon
  <2>9. CASE md.stt = 1
    <3>1. Due(mdStep(md, x1, x2)) = Due(md)
      BY <1>0, <2>9, MultiplierExact, Zenon
    <3> QED
      BY <1>0, <2>6, <2>9, <3>1, Zenon DEF Multiplying
  <2> QED
    BY <2>7, <2>8, <2>9
<1>2. CASE Run
  <2>1. Phase /\ md' = nextMd
    BY <1>2, WhenRunning, Zenon
  <2> SUFFICES ASSUME T(2)', ir'.isMD, md'.stt = 1 PROVE FALSE
    BY Zenon DEF Multiplying
  <2>2. (T1_Decode /\ T(1)) \/ (T2_Wfi /\ T(2))
    <3>1. sc' # 0 /\ sc' # 1 /\ sc' # 3
      BY SMT DEF T
    <3> QED
      BY <2>1, <3>1, Leads, Zenon
  <2>3. CASE T1_Decode /\ T(1)
    <3>1. ~mul_op
      BY <2>3, Phases, Zenon DEF mul_op
    <3>2. md' = md
      BY <2>1, <3>1, Zenon DEF nextMd
    <3> QED
      BY <1>0, <3>1, <3>2, SMT DEF MdIdle
  <2>4. CASE T2_Wfi /\ T(2)
    <3>1. ir' = ir /\ ir.opcode = I_SYS
      BY <2>4, SMT DEF T2_Wfi, wfi, csr_op, I, dc
    <3>2. Formed(ir) /\ I_SYS # I_COMP
      BY <1>0, <2>4, AtWork, Codes, SMT
    <3> QED
      BY <3>1, <3>2, Zenon DEF Formed
  <2> QED
    BY <2>2, <2>3, <2>4
<1> QED
  BY <1>1, <1>2, Zenon DEF Next

(* flg keeps the condition from T[2] to T[3]. *)
LEMMA BranchingStep ==
  ASSUME Typed, InBounds, Regular, Tied, Next
  PROVE  Branching'
<1>0. CpuTyped /\ WellFormed(ir) /\ InFlight /\ Branching
  BY Groups, Zenon DEF Typed, Tied
<1>1. CASE Stall
  <2>1. sc' = sc /\ ir' = ir /\ xreg' = xreg /\ flg' = flg
    BY <1>1, WhenStalled, Zenon DEF Tied
  <2> QED
    BY <1>0, <2>1, Frames, Zenon DEF Branching, T
<1>2. CASE Run
  <2>1. Phase
    BY <1>2, WhenRunning, Zenon
  <2> SUFFICES ASSUME T(3)', ir'.opcode = I_BR PROVE flg' = compute(x1', x2', ir'.opID) % 2
    BY Zenon DEF Branching
  <2>2. (T2_Load \/ T2_Branch) /\ T(2)
    <3>1. sc' # 0 /\ sc' # 1 /\ sc' # 2
      BY SMT DEF T
    <3> QED
      BY <2>1, <3>1, Leads, Zenon
  <2>3. T2_Branch
    <3>1. T2_Load => ir' = ir /\ ir.opcode = I_LD
      BY Zenon DEF T2_Load, I, dc
    <3> QED
      BY <2>2, <3>1, Codes, SMT
  <2>4. ir' = ir /\ xreg' = xreg /\ ir.opcode = I_BR /\ flg' = ALUcompute(bus1, bus2, op) % 2
    BY <2>3, Zenon DEF T2_Branch, I, dc
  <2>5. Formed(ir)
    BY <1>0, <2>2, AtWork, Zenon
  <2>6. ALUcompute(bus1, bus2, op) = compute(x1, x2, ir.opID)
    BY <1>0, <2>2, <2>4, <2>5, Answer, Zenon
  <2> QED
    BY <2>4, <2>6, Frames, Zenon
<1> QED
  BY <1>1, <1>2, Zenon DEF Next

(* Nothing moves the lanes of the memory between the fetch and an IO load. *)
LEMMA AskingStep ==
  ASSUME Typed, InBounds, Regular, Tied, Next
  PROVE  Asking'
<1>0. Asking /\ Answered /\ InFlight
  BY Zenon DEF Tied
<1>1. CASE Stall
  <2>1. /\ sc' = sc /\ pc' = pc /\ tr' = tr /\ ir' = ir /\ xreg' = xreg
        /\ T(1) \/ (T(2) /\ io_op) => byte_pos' = byte_pos /\ ld_type' = ld_type
    BY <1>1, WhenStalled, AccessKind, Phases, Zenon DEF Tied
  <2>2. io_op' <=> io_op
    BY <2>1, WiresStay, Zenon
  <2> QED
    BY <1>0, <2>1, <2>2, Zenon DEF Asking, T
<1>2. CASE Run
  <2>1. /\ Phase
        /\ T(0) => byte_pos' = pc % 4 /\ ld_type' = "lw"
        /\ T(1) => byte_pos' = byte_pos /\ ld_type' = ld_type
    BY <1>2, WhenRunning, AccessKind, Phases, Zenon
  <2>2. CASE sc' = 0 \/ sc' = 3
    BY <2>2, PhasesNext, Zenon DEF Asking
  <2>3. CASE sc' = 1 /\ T(0)
    BY <2>1, <2>3, Zenon DEF Asking, Regular
  <2>4. CASE sc' = 2 /\ T(1)
    BY <1>0, <2>1, <2>4, Zenon DEF Asking
  <2>5. CASE sc' = 2 /\ T2_Wfi /\ T(2)
    <3>1. ir' = ir /\ ir.opcode = I_SYS
      BY <2>5, SMT DEF T2_Wfi, wfi, csr_op, I, dc
    <3>2. ir'.opcode \notin {I_LD, I_ST}
      BY <3>1, Codes, SMT
    <3>3. ~io_op'
      BY <3>2, Zenon DEF io_op, accesses, I, dc
    <3> QED
      BY <2>5, <3>3, PhasesNext, Zenon DEF Asking
  <2> QED
    BY <2>1, <2>2, <2>3, <2>4, <2>5, Leads, Zenon
<1> QED
  BY <1>1, <1>2, Zenon DEF Next

(* A load has one way through T[2]. *)
LEMMA LoadPhase ==
  ASSUME Phase, T(2), ir.opcode = I_LD
  PROVE  T2_Load
<1>1. ~csrrx /\ ~mret /\ ~wfi
  <2>1. csr_op = "none"
    BY Codes, SMT DEF csr_op, I, dc
  <2> QED
    BY <2>1, SMT DEF csrrx, mret, wfi, Zicsr, Writes, Sets, Clears
<1>2. ~I({I_COMP, I_COMPI, I_LUI, I_AUIPC}) /\ ~I({I_ST}) /\ ~I({I_JAL, I_JALR}) /\ ~I({I_BR})
  BY Codes, SMT DEF I, dc
<1> QED
  BY <1>1, <1>2, Phases, Zenon DEF Phase, T0_Trap, trap_occurred, T0_Fetch, T1_Decode, T2_Compute,
     T2_Store, T2_Jump, T2_Branch, T2_Csr, T2_Mret, T2_Wfi, T3_Load, T3_Branch

(* A latched word is there in T[3] of a load and at no other time. *)
LEMMA AnsweredStep ==
  ASSUME Typed, InBounds, Regular, Tied, Next
  PROVE  Answered'
<1>1. CASE Stall
  BY <1>1, WhenStalled, Zenon DEF Tied, Answered
<1>2. CASE Run
  <2> SUFFICES ASSUME IO_LD_completed' PROVE T(3)' /\ ir'.opcode = I_LD
    BY Zenon DEF Answered
  <2>1. Phase /\ accesses /\ io_op /\ ~I({I_ST})
    BY <1>2, WhenRunning, Zenon
  <2>2. T(2) /\ ir.opcode = I_LD
    BY <2>1, AccessKind, Zenon
  <2>3. T2_Load
    BY <2>1, <2>2, LoadPhase, Zenon
  <2>4. ir' = ir
    BY <2>3, Zenon DEF T2_Load
  <2>5. sc' = 3
    BY <2>3, SMT DEF T2_Load, advance, T
  <2> QED
    BY <2>2, <2>4, <2>5, PhasesNext, Zenon
<1> QED
  BY <1>1, <1>2, Zenon DEF Next

(* The data of a load, and their lanes, are right when it comes to T[3]. *)
LEMMA LoadedStep ==
  ASSUME Typed, InBounds, Regular, Tied, Next
  PROVE  Loaded'
<1>0. CpuTyped /\ IOTyped /\ WellFormed(ir) /\ InFlight /\ Asking /\ Answered /\ Loaded
  BY Groups, Zenon DEF Typed, Tied
<1>1. CASE Stall
  <2>1. /\ sc' = sc /\ ir' = ir /\ xreg' = xreg /\ m' = m
        /\ ~IO_LD_completed /\ IO_LD_completed' = FALSE
        /\ T(3) => dout' = dout /\ byte_pos' = byte_pos /\ ld_type' = ld_type
    BY <1>1, WhenStalled, AccessKind, Phases, Zenon DEF Tied
  <2>2. loadAddr' = loadAddr
    BY <2>1, Frames, Zenon
  <2> SUFFICES ASSUME T(3), ir.opcode = I_LD
               PROVE  /\ Aligned(loadAddr, ld_size(ir.opID))
                      /\ ~MEM_ADDR_OUT_OF_BOUNDS(loadAddr) /\ dout' = m'[word(loadAddr)]
                      /\ byte_pos' = loadAddr % 4 /\ ld_type' = ir.opID
    BY <2>1, <2>2, Zenon DEF Loaded, T, Aligned, MEM_ADDR_OUT_OF_BOUNDS, word
  <2> QED
    BY <1>0, <2>1, Zenon DEF Loaded
<1>2. CASE Run
  <2>1. Phase
    BY <1>2, WhenRunning, Zenon
  <2> SUFFICES ASSUME T(3)', ir'.opcode = I_LD
               PROVE  Loaded'
    BY Zenon DEF Loaded
  <2>2. T2_Load /\ T(2)
    <3>1. sc' # 0 /\ sc' # 1 /\ sc' # 2
      BY SMT DEF T
    <3>2. (T2_Load \/ T2_Branch) /\ T(2)
      BY <2>1, <3>1, Leads, Zenon
    <3>3. T2_Branch => ir' = ir /\ ir.opcode = I_BR
      BY Zenon DEF T2_Branch, I, dc
    <3> QED
      BY <3>2, <3>3, Codes, SMT
  <2>3. ir' = ir /\ xreg' = xreg /\ ir.opcode = I_LD /\ Aligned(mem_addr, ld_size(ir.opID))
    BY <2>2, Zenon DEF T2_Load, I, dc
  <2>4. mem_addr = loadAddr /\ loadAddr' = loadAddr
    <3>1. Formed(ir)
      BY <1>0, <2>2, AtWork, Zenon
    <3> QED
      BY <1>0, <2>2, <2>3, <3>1, Answer, Frames, Zenon
  <2>5. accesses /\ I({I_LD}) /\ ~T(0)
    BY <2>2, <2>3, AccessKind, Phases, Zenon
  <2>6. CASE io_op
    <3>1. /\ byte_pos' = byte_pos /\ ld_type' = ld_type /\ IO_LD_completed' = TRUE
          /\ IF isSysctrl(loadAddr) THEN latched_data' \in 0 .. 3
             ELSE dev' = (dev + 1) % DevValues /\ latched_data' = dev
      BY <1>2, <2>4, <2>5, <2>6, WhenRunning, Zenon
    <3>2. byte_pos = 0 /\ ld_type = "lw" /\ ir.opID = "lw" /\ MEM_ADDR_OUT_OF_BOUNDS(loadAddr)
      BY <1>0, <2>2, <2>4, <2>5, <2>6, AccessKind, Zenon DEF Asking, Regular, dc
    <3>3. IF isSysctrl(loadAddr) THEN latched_data' \in 0 .. 3
          ELSE latched_data' = (dev' + DevValues - 1) % DevValues
      BY <1>0, <3>1, ReadBefore, Zenon
    <3> QED
      BY <2>3, <2>4, <3>1, <3>2, <3>3, Zenon DEF Loaded, Aligned, MEM_ADDR_OUT_OF_BOUNDS, isSysctrl
  <2>7. CASE ~io_op
    <3>1. /\ dout' = m[word(loadAddr)] /\ byte_pos' = loadAddr % 4 /\ ld_type' = ir.opID
          /\ m' = m /\ IO_LD_completed' = FALSE
      BY <1>2, <2>4, <2>5, <2>7, WhenRunning, Zenon
    <3>2. ~MEM_ADDR_OUT_OF_BOUNDS(loadAddr)
      BY <2>4, <2>5, <2>7, AccessKind, Zenon
    <3> QED
      BY <2>3, <2>4, <3>1, <3>2, Zenon DEF Loaded, Aligned, MEM_ADDR_OUT_OF_BOUNDS, word
  <2> QED
    BY <2>6, <2>7
<1> QED
  BY <1>1, <1>2, Zenon DEF Next

(* Every instruction keeps to the WARL masks. *)
LEMMA MaskedStep ==
  ASSUME Typed, Masked(csr), InBounds, Regular, Tied, Next
  PROVE  Masked(csr')
<1>0. csr \in CSRs
  BY Groups, Zenon DEF Typed, CpuTyped
<1>1. CASE Stall
  BY <1>1, WhenStalled, Zenon DEF Tied
<1>2. CASE Run
  <2>1. Phase
    BY <1>2, WhenRunning, Zenon
  <2>2. CASE csr' = csr
    BY <2>2, Zenon
  <2>3. CASE T0_Trap
    BY <1>0, <2>3, MaskedTrap, Zenon DEF T0_Trap
  <2>4. CASE T2_Csr
    <3>1. PICK old : csr' = writeback(csr, old, bus1, dc.imm, csr_op, dc.I_rs1)
      BY <2>4, Zenon DEF T2_Csr
    <3> QED
      BY <1>0, <3>1, MaskedWrite, Zenon DEF writeback
  <2>5. CASE T2_Mret
    BY <1>0, <2>5, MaskedMret, Zenon DEF T2_Mret
  <2> QED
    BY <2>1, <2>2, <2>3, <2>4, <2>5, Zenon DEF Phase, T0_Fetch, T1_Decode, T2_Compute, T2_Load,
       T2_Store, T2_Jump, T2_Branch, T2_Wfi, T3_Load, T3_Branch
<1> QED
  BY <1>1, <1>2, Zenon DEF Next

(* A step of the core keeps all of it. *)
LEMMA TiedStep ==
  ASSUME Typed, InBounds, Regular, Tied, [Next]_vars
  PROVE  Tied'
<1>1. CASE Next
  <2>1. Masked(csr)'
    BY <1>1, MaskedStep, Zenon DEF Tied, Masked
  <2> QED
    BY <1>1, <2>1, InFlightStep, MultiplyingStep, BranchingStep, AskingStep, AnsweredStep,
       LoadedStep, Zenon DEF Tied
<1>2. CASE UNCHANGED vars
  <2>1. /\ sc' = sc /\ pc' = pc /\ tr' = tr /\ ir' = ir /\ flg' = flg /\ xreg' = xreg /\ csr' = csr
        /\ m' = m /\ dout' = dout /\ byte_pos' = byte_pos /\ ld_type' = ld_type /\ md' = md
        /\ IO_LD_completed' = IO_LD_completed /\ latched_data' = latched_data /\ dev' = dev
    BY <1>2, Zenon DEF vars, cpuVars, memVars, ioVars
  <2>2. x1' = x1 /\ x2' = x2 /\ loadAddr' = loadAddr /\ (io_op' <=> io_op)
    BY <2>1, Frames, WiresStay, Zenon
  <2>3. InFlight' /\ Multiplying' /\ Branching'
    BY <2>1, <2>2, Zenon DEF Tied, InFlight, Multiplying, Branching, T, Due
  <2>4. Asking' /\ Answered' /\ Masked(csr)'
    BY <2>1, <2>2, Zenon DEF Tied, Asking, Answered, Masked, T
  <2>5. Loaded'
    BY <2>1, <2>2, Zenon DEF Tied, Loaded, T, Aligned, MEM_ADDR_OUT_OF_BOUNDS, word, isSysctrl
  <2> QED
    BY <2>3, <2>4, <2>5, Zenon DEF Tied
<1> QED
  BY <1>1, <1>2, Zenon

-----------------------------------------------------------------------------
(* The state of the instruction set that a state of the core stands for. *)
apc   == IF T(0) THEN pc ELSE tr
air   == IF T(0) THEN Arch_None ELSE IF T(1) THEN dout ELSE ir
ahold == (IF step_mode THEN {"trap"} ELSE {}) \union (IF ignore_wfi THEN {"wfi"} ELSE {})
adev  == IF T(3) /\ IO_LD_completed /\ ~isSysctrl(loadAddr)
           THEN (dev + DevValues - 1) % DevValues ELSE dev

(* The operands of Isa are those of the core in T[2] and T[3]. *)
LEMMA AtExecute ==
  ASSUME T(2) \/ T(3)
  PROVE  /\ apc = tr /\ air = ir
         /\ Arch!dc = ir /\ Arch!rs1 = x1 /\ Arch!rs2 = x2 /\ Arch!nxt_pc = Wrap(tr + 4)
         /\ Arch!pc_imm = Wrap(tr + ir.imm) /\ Arch!rs1_imm = loadAddr
<1>1. ~T(0) /\ ~T(1)
  BY Phases, Zenon
<1>2. apc = tr /\ air = ir
  BY <1>1, Zenon DEF apc, air
<1>3. Arch!dc = ir
  BY <1>1, Zenon DEF Arch!dc
<1>4. Arch!rs1 = x1 /\ Arch!rs2 = x2
  BY <1>3, Zenon DEF Arch!rs1, Arch!rs2, Arch!getOperand, x1, x2, getOperand
<1>5. Arch!nxt_pc = Wrap(tr + 4) /\ Arch!pc_imm = Wrap(tr + ir.imm)
  BY <1>1, <1>3, SameWords, Zenon DEF Arch!nxt_pc, Arch!pc_imm
<1>6. Arch!rs1_imm = loadAddr
  BY <1>3, <1>4, SameWords, Zenon DEF Arch!rs1_imm, loadAddr, x1, dc
<1> QED
  BY <1>2, <1>3, <1>4, <1>5, <1>6, Zenon

(* Behind an instruction nothing is in flight. *)
LEMMA AfterCompletion ==
  ASSUME sc' = 0
  PROVE  apc' = pc' /\ air' = Arch_None /\ adev' = dev'
<1>1. T(0)' /\ ~T(3)'
  BY PhasesNext, Zenon
<1> QED
  BY <1>1, Zenon DEF apc, air, adev

(* The last cycle of an instruction is the end of one in Isa. *)
LEMMA Retires ==
  ASSUME T(2) \/ T(3), sc' = 0, NEW rd, writeBack(rd), NEW np, pc' = np
  PROVE  Arch!Retire(rd, np)
<1>1. Arch!dc = ir /\ T(0)'
  BY AtExecute, PhasesNext, Zenon
<1>2. xreg' = Arch!writeReg(xreg, ir.I_rd, rd)
  BY Zenon DEF writeBack, Arch!writeReg, dc
<1> QED
  BY <1>1, <1>2, Zenon DEF Arch!Retire, Arch!None, Arch_None

(* An instruction that names no destination. *)
LEMMA RetiresNothing ==
  ASSUME T(2) \/ T(3), sc' = 0, ir.I_rd = 0, xreg' = xreg, NEW np, pc' = np
  PROVE  Arch!Retire(0, np)
<1>1. writeBack(0)
  BY Zenon DEF writeBack, dc
<1> QED
  BY <1>1, Retires, Zenon

(* In T[2] and T[3] there is an instruction in Isa. *)
LEMMA NotNone ==
  ASSUME InFlight, T(2) \/ T(3)
  PROVE  air # Arch_None /\ air = ir /\ Formed(ir)
<1>1. Formed(ir)
  BY AtWork, Zenon
<1>2. Arch_None.opcode = 0
  BY SMT DEF Arch_None
<1> QED
  BY <1>1, <1>2, AtExecute, Zenon DEF Formed

(* An instruction that leaves memory, device and CSRs alone. *)
LEMMA Computing ==
  ASSUME Typed, Tied, Run, T2_Compute
  PROVE  Arch!Compute \/ Arch!Upper
<1>1. CpuTyped /\ WellFormed(ir) /\ md \in MD /\ InFlight /\ Multiplying
  BY Groups, Zenon DEF Typed, Tied
<1>2. /\ T(2) /\ ir.opcode \in {I_COMP, I_COMPI, I_LUI, I_AUIPC} /\ sc' = 0 /\ pc' = pc
      /\ csr' = csr
      /\ writeBack(IF mul_op THEN md_out ELSE ALUcompute(bus1, bus2, op))
  BY Zenon DEF T2_Compute, I, dc, complete
<1>3. Formed(ir) /\ pc = Wrap(tr + 4)
  BY <1>1, <1>2, NotNone, Phases, Zenon DEF InFlight
<1>4. ~accesses
  <2>1. ir.opcode \notin {I_LD, I_ST}
    BY <1>2, Codes, SMT
  <2> QED
    BY <2>1, AccessKind, Zenon
<1>5. m' = m /\ dev' = dev /\ out' = out
  BY <1>4, WhenRunning, Zenon
<1>6. /\ Arch!dc = ir /\ Arch!rs1 = x1 /\ Arch!rs2 = x2 /\ Arch!nxt_pc = pc
      /\ Arch!pc_imm = Wrap(tr + ir.imm)
  BY <1>2, <1>3, AtExecute, Zenon
<1>7. adev' = adev /\ adev = dev
  BY <1>2, <1>5, AfterCompletion, Phases, Zenon DEF adev
<1>8. ASSUME ir.opcode \in {I_COMP, I_COMPI}
      PROVE  (IF mul_op THEN md_out ELSE ALUcompute(bus1, bus2, op))
               = IF ir.opID = "mul" THEN Wrap(x1 * x2)
                 ELSE compute(x1, IF ir.opcode = I_COMPI THEN Wrap(ir.imm) ELSE x2, ir.opID)
  <2>1. mul_op <=> ir.isMD
    BY <1>2, <1>3, Busses, Zenon
  <2>2. "mul" \notin CompOps /\ "mul" \notin MDOps /\ MDOps \intersect CompOps = {}
    BY SMT DEF CompOps, ArithOps, ShiftOps, OrderOps, MDOps
  <2>3. CASE ir.opcode = I_COMPI
    <3>1. ~ir.isMD /\ ir.opID # "mul"
      BY <1>3, <2>2, <2>3, Codes, SMT DEF Formed
    <3> QED
      BY <1>1, <1>2, <1>3, <2>1, <2>3, <3>1, Answer, Zenon
  <2>4. CASE ir.opcode = I_COMP /\ ~ir.isMD
    <3>1. ir.opID # "mul" /\ ir.opcode # I_COMPI
      BY <1>3, <2>4, Codes, SMT DEF Formed
    <3> QED
      BY <1>1, <1>2, <1>3, <2>1, <2>4, <3>1, Answer, Zenon
  <2>5. CASE ir.opcode = I_COMP /\ ir.isMD /\ ir.opID # "mul"
    <3>1. ir.opID \in MDOps /\ ir.opcode # I_COMPI
      BY <1>3, <2>5, Codes, SMT DEF Formed
    <3>2. md_out = 0
      BY <2>5, Zenon DEF md_out, dc
    <3>3. compute(x1, x2, ir.opID) = 0
      BY <3>1, SMT DEF MDOps, compute
    <3> QED
      BY <2>1, <2>5, <3>1, <3>2, <3>3, Zenon
  <2>6. CASE ir.opcode = I_COMP /\ ir.isMD /\ ir.opID = "mul"
    <3>1. bus1 = x1 /\ bus2 = x2 /\ mul_op
      BY <1>2, <1>3, <2>6, Busses, Zenon
    <3>2. x1 \in Word /\ x2 \in Word
      <4>1. ir.opcode # I_SYS
        BY <2>6, Codes, SMT
      <4> QED
        BY <1>1, <1>2, <1>3, <4>1, Answer, Zenon
    <3>3. nextMd = mdStep(md, x1, x2) /\ md_out = mdOut(md, nextMd)
      BY <2>6, <3>1, Zenon DEF nextMd, md_out, dc
    <3>4. ~mdPending(nextMd)
      BY WhenRunning, Zenon
    <3>5. md.stt = 1
      <4>1. md.stt \in {0, 1}
        BY <1>1, SMT DEF MD
      <4>2. md.stt = 0 => mdPending(nextMd)
        BY <1>1, <3>2, <3>3, MultiplierStarts, Zenon
      <4> QED
        BY <3>4, <4>1, <4>2, Zenon
    <3>6. mdOut(md, mdStep(md, x1, x2)) = Due(md)
      BY <1>1, <3>3, <3>4, <3>5, MultiplierExact, Zenon
    <3>7. Due(md) = Wrap(x1 * x2)
      BY <1>1, <1>2, <2>6, <3>5, Zenon DEF Multiplying
    <3> QED
      BY <2>6, <3>1, <3>3, <3>6, <3>7, Zenon
  <2> QED
    BY <1>8, <2>3, <2>4, <2>5, <2>6
<1>9. CASE ir.opcode \in {I_COMP, I_COMPI}
  <2> DEFINE rd == IF mul_op THEN md_out ELSE ALUcompute(bus1, bus2, op)
  <2>1. Arch!Retire(rd, pc)
    BY <1>2, Retires, Zenon
  <2> HIDE DEF rd
  <2>2. rd = IF ir.opID = "mul" THEN Wrap(x1 * x2)
             ELSE compute(x1, IF ir.opcode = I_COMPI THEN Wrap(ir.imm) ELSE x2, ir.opID)
    BY <1>8, <1>9, Zenon DEF rd
  <2>3. rd = IF Arch!dc.opID = "mul" THEN Arch!Wrap(Arch!rs1 * Arch!rs2)
             ELSE Arch!compute(Arch!rs1,
                    IF Arch!dc.opcode = Arch!I_COMPI THEN Arch!Wrap(Arch!dc.imm) ELSE Arch!rs2,
                    Arch!dc.opID)
    BY <1>6, <2>2, SameCodes, SameWords, SameCompute, Zenon
  <2>4. Arch!dc.opcode \in {Arch!I_COMP, Arch!I_COMPI}
    BY <1>6, <1>9, SameCodes, Zenon
  <2> QED
    BY <1>2, <1>5, <1>6, <1>7, <2>1, <2>3, <2>4, Zenon DEF Arch!Compute, Arch!ioVars, adev
<1>10. CASE ir.opcode \in {I_LUI, I_AUIPC}
  <2>1. ~mul_op
    <3>1. ir.opcode # I_COMP
      BY <1>10, Codes, SMT
    <3> QED
      BY <1>3, <3>1, Zenon DEF Formed, mul_op, dc
  <2>2. I_LUI # I_AUIPC
    BY Codes, SMT
  <2> DEFINE rd == IF mul_op THEN md_out ELSE ALUcompute(bus1, bus2, op)
  <2>3. Arch!Retire(rd, pc)
    BY <1>2, Retires, Zenon
  <2>4. rd = IF ir.opcode = I_LUI THEN Wrap(ir.imm) ELSE Wrap(tr + ir.imm)
    BY <1>1, <1>2, <1>3, <1>10, <2>1, <2>2, Answer, Zenon
  <2> HIDE DEF rd
  <2>5. rd = IF Arch!dc.opcode = Arch!I_LUI THEN Arch!Wrap(Arch!dc.imm) ELSE Arch!pc_imm
    BY <1>6, <2>4, SameCodes, SameWords, Zenon
  <2>6. Arch!dc.opcode \in {Arch!I_LUI, Arch!I_AUIPC}
    BY <1>6, <1>10, SameCodes, Zenon
  <2> QED
    BY <1>2, <1>5, <1>6, <1>7, <2>3, <2>5, <2>6, Zenon DEF Arch!Upper, Arch!ioVars, adev
<1> QED
  BY <1>2, <1>9, <1>10, Zenon

(* Addresses, and the device. *)
LEMMA SameAccess ==
  /\ \A a : Arch!MEM_ADDR_OUT_OF_BOUNDS(a) <=> MEM_ADDR_OUT_OF_BOUNDS(a)
  /\ \A a : Arch!isSysctrl(a) <=> isSysctrl(a)
  /\ \A a, d : Arch!wrote(a, d) = wrote(a, d)
  /\ \A a : Arch!even(a) = even(a) /\ Arch!word(a) = word(a)
  BY Zenon DEF Arch!MEM_ADDR_OUT_OF_BOUNDS, MEM_ADDR_OUT_OF_BOUNDS, Arch!isSysctrl, isSysctrl,
     Arch!wrote, wrote, Arch!even, even, Arch!word, word

(* A store, to the memory or to IO. *)
LEMMA Storing ==
  ASSUME Typed, Tied, Run, T2_Store
  PROVE  Arch!Store \/ Arch!StoreIO
<1>1. CpuTyped /\ WellFormed(ir) /\ InFlight
  BY Groups, Zenon DEF Typed, Tied
<1>2. /\ T(2) /\ ir.opcode = I_ST /\ Aligned(mem_addr, st_size(ir.opID)) /\ sc' = 0
      /\ pc' = pc /\ csr' = csr /\ xreg' = xreg
  BY SMT DEF T2_Store, I, dc, complete
<1>3. Formed(ir) /\ pc = Wrap(tr + 4) /\ ir.I_rd = 0
  BY <1>1, <1>2, NotNone, Phases, Zenon DEF InFlight, Formed
<1>4. accesses /\ I({I_ST}) /\ mem_addr = loadAddr /\ mem_din = shiftedData(loadAddr, x2)
  BY <1>1, <1>2, <1>3, AccessKind, Answer, Busses, Zenon DEF mem_din
<1>5. /\ Arch!dc = ir /\ Arch!rs2 = x2 /\ Arch!nxt_pc = pc /\ Arch!rs1_imm = loadAddr
  BY <1>2, <1>3, AtExecute, Zenon
<1>6. adev' = dev' /\ adev = dev
  BY <1>2, AfterCompletion, Phases, Zenon DEF adev
<1>7. Arch!Retire(0, pc)
  BY <1>2, <1>3, RetiresNothing, Zenon
<1>8. Aligned(loadAddr, st_size(ir.opID))
  BY <1>2, <1>4, Zenon
<1>9. CASE io_op
  <2>1. /\ dev' = dev /\ out' = wrote(loadAddr, shiftedData(loadAddr, x2)) /\ m' = m
        /\ MEM_ADDR_OUT_OF_BOUNDS(loadAddr)
    BY <1>4, <1>9, Phases, AccessKind, WhenRunning, Zenon
  <2> QED
    BY <1>2, <1>5, <1>6, <1>7, <1>8, <2>1, SameAccess, SameCodes, SameLanes, Zenon
    DEF Arch!StoreIO, adev
<1>10. CASE ~io_op
  <2>1. /\ dev' = dev /\ out' = out
        /\ m' = [m EXCEPT ![word(loadAddr)].data =
                   storeMemByteEnable(@, shiftedData(loadAddr, x2), byteEnable(loadAddr, ir.opID))]
        /\ ~MEM_ADDR_OUT_OF_BOUNDS(loadAddr)
    BY <1>4, <1>10, AccessKind, WhenRunning, Zenon
  <2> QED
    BY <1>2, <1>5, <1>6, <1>7, <1>8, <2>1, SameAccess, SameCodes, SameLanes, Zenon
    DEF Arch!Store, Arch!ioVars, adev
<1> QED
  BY <1>9, <1>10

(* jal and jalr. *)
LEMMA Jumping ==
  ASSUME Typed, Tied, Run, T2_Jump
  PROVE  Arch!Jump
<1>1. CpuTyped /\ WellFormed(ir) /\ InFlight
  BY Groups, Zenon DEF Typed, Tied
<1>2. /\ T(2) /\ ir.opcode \in {I_JAL, I_JALR} /\ sc' = 0 /\ csr' = csr
      /\ writeBack(pc) /\ pc' = even(ALUcompute(bus1, bus2, op))
  BY Zenon DEF T2_Jump, I, dc, complete
<1>3. Formed(ir) /\ pc = Wrap(tr + 4) /\ tr % 4 = 0 /\ tr \in Word
  BY <1>1, <1>2, NotNone, Phases, Zenon DEF InFlight, CpuTyped
<1>4. ~accesses
  <2>1. ir.opcode \notin {I_LD, I_ST}
    BY <1>2, Codes, SMT
  <2> QED
    BY <2>1, AccessKind, Zenon
<1>5. m' = m /\ dev' = dev /\ out' = out
  BY <1>4, WhenRunning, Zenon
<1>6. /\ Arch!dc = ir /\ Arch!nxt_pc = pc /\ Arch!rs1_imm = loadAddr
      /\ Arch!pc_imm = Wrap(tr + ir.imm)
  BY <1>2, <1>3, AtExecute, Zenon
<1>7. adev' = adev
  BY <1>2, <1>5, AfterCompletion, Phases, Zenon DEF adev
<1>8. I_JAL # I_JALR
  BY Codes, SMT
<1>9. pc' = IF ir.opcode = I_JAL THEN Wrap(tr + ir.imm) ELSE even(loadAddr)
  <2>1. CASE ir.opcode = I_JAL
    <3>1. ir.imm \in Int /\ ir.imm % 2 = 0
      BY <1>1, <1>3, <2>1, Zenon DEF WellFormed, Formed
    <3>2. tr % 2 = 0
      <4>1. tr \in Nat
        BY <1>3, SmallWords, Zenon
      <4> QED
        BY <1>3, <4>1, SMT
    <3>3. even(Wrap(tr + ir.imm)) = Wrap(tr + ir.imm)
      BY <1>3, <3>1, <3>2, AddsOffset, Zenon
    <3> QED
      BY <1>1, <1>2, <1>3, <2>1, <3>3, Answer, Zenon
  <2>2. CASE ir.opcode = I_JALR
    BY <1>1, <1>2, <1>3, <1>8, <2>2, Answer, Zenon
  <2> QED
    BY <1>2, <2>1, <2>2, Zenon
<1> DEFINE np == IF ir.opcode = I_JAL THEN Wrap(tr + ir.imm) ELSE even(loadAddr)
<1>10. Arch!Retire(pc, np)
  BY <1>2, <1>9, Retires, Zenon
<1>11. np = IF Arch!dc.opcode = Arch!I_JAL THEN Arch!pc_imm ELSE Arch!even(Arch!rs1_imm)
  BY <1>6, SameCodes, SameAccess, Zenon
<1>12. Arch!dc.opcode \in {Arch!I_JAL, Arch!I_JALR}
  BY <1>2, <1>6, SameCodes, Zenon
<1> HIDE DEF np
<1> QED
  BY <1>2, <1>5, <1>6, <1>7, <1>10, <1>11, <1>12, Zenon DEF Arch!Jump, Arch!ioVars, adev

(* A Zicsr instruction, for which core and simulator skip by different rules. *)
LEMMA Accessing ==
  ASSUME Typed, Regular, Tied, Run, T2_Csr
  PROVE  Arch!AccessCsr
<1>1. CpuTyped /\ WellFormed(ir) /\ InFlight /\ IrqTyped /\ Masked(csr)
  BY Groups, Zenon DEF Typed, Tied
<1> DEFINE old == csr_val(csr, mip, ir.imm, ir.I_rd)
<1>2. /\ T(2) /\ csrrx /\ sc' = 0 /\ pc' = pc
      /\ writeBack(old)
      /\ csr' = writeback(csr, old, bus1, ir.imm, csr_op, ir.I_rs1)
  BY Zenon DEF T2_Csr, dc, complete
<1>3. Formed(ir) /\ pc = Wrap(tr + 4)
  BY <1>1, <1>2, NotNone, Phases, Zenon DEF InFlight
<1> DEFINE val == IF ir.opID \in ZicsrImm THEN ir.I_rs1 ELSE x1
<1>4. ir.opcode = I_SYS /\ csr_op = ir.opID /\ bus1 = val /\ ir.opID \in Zicsr
  BY <1>2, <1>3, Busses, Zenon DEF csrrx
<1>5. ~accesses
  <2>1. ir.opcode \notin {I_LD, I_ST}
    BY <1>4, Codes, SMT
  <2> QED
    BY <2>1, AccessKind, Zenon
<1>6. m' = m /\ dev' = dev /\ out' = out
  BY <1>5, WhenRunning, Zenon
<1>7. Arch!dc = ir /\ Arch!nxt_pc = pc /\ Arch!rs1 = x1
  BY <1>2, <1>3, AtExecute, Zenon
<1>8. adev' = adev
  BY <1>2, <1>6, AfterCompletion, Phases, Zenon DEF adev
<1>9. val \in Word /\ (ir.I_rs1 = 0 => val = 0)
  <2>1. CASE ir.opID \in ZicsrImm
    BY <1>1, <1>4, <2>1, SmallWords, Zenon DEF WellFormed
  <2>2. CASE ir.opID \notin ZicsrImm
    <3>1. ir.I_rs1 \in 0 .. NRegs - 1
      BY <1>1, <2>2, Zenon DEF WellFormed
    <3>2. x1 \in Word
      BY <1>1, <3>1, OperandIsWord, Zenon DEF x1
    <3>3. ir.I_rs1 = 0 => x1 = 0
      BY Zenon DEF x1, getOperand
    <3> QED
      BY <2>2, <3>2, <3>3, Zenon
  <2> QED
    BY <2>1, <2>2
<1>10. IF ir.opID \in Writes THEN ir.I_rs1 # 0 ELSE ir.I_rd # 0 \/ ir.I_rs1 = 0
  BY <1>2, <1>4, Zenon DEF Regular, dc
<1>11. csr \in CSRs /\ mip \in SUBSET Causes
  BY <1>1, Zenon DEF CpuTyped, IrqTyped, CSRs
<1> DEFINE res == do_csrrx(csr, mip, val, ir.imm, ir.opID, ir.I_rd)
<1>12. /\ ir.I_rd # 0 => res.rd = old
       /\ res.csr = writeback(csr, old, val, ir.imm, ir.opID, ir.I_rs1)
  <2> HIDE DEF val
  <2> QED
    BY <1>1, <1>4, <1>9, <1>10, <1>11, CsrInstruction
<1>13. writeBack(res.rd)
  BY <1>2, <1>12, Zenon DEF writeBack, dc
<1>14. csr' = res.csr
  BY <1>2, <1>4, <1>12, Zenon
<1>15. Arch!Retire(res.rd, pc)
  BY <1>2, <1>13, Retires, Zenon
<1>16. res = Arch!do_csrrx(csr, mip, IF Arch!dc.opID \in Arch!ZicsrImm THEN Arch!dc.I_rs1
                                     ELSE Arch!rs1, Arch!dc.imm, Arch!dc.opID, Arch!dc.I_rd)
  BY <1>7, SameCsr, Zenon
<1>17. Arch!dc.opcode = Arch!I_SYS /\ Arch!dc.opID \in Arch!Zicsr
  BY <1>4, <1>7, SameCodes, SameCsr, Zenon
<1> HIDE DEF res
<1> QED
  BY <1>6, <1>7, <1>8, <1>14, <1>15, <1>16, <1>17, Zenon DEF Arch!AccessCsr, Arch!ioVars, adev

(* mret. *)
LEMMA Returning ==
  ASSUME Typed, Tied, Run, T2_Mret
  PROVE  Arch!Mret
<1>1. CpuTyped /\ WellFormed(ir) /\ InFlight
  BY Groups, Zenon DEF Typed, Tied
<1>2. /\ T(2) /\ csr_op = "mret" /\ sc' = 0 /\ pc' = even(csr.mepc) /\ csr' = do_mret(csr)
      /\ xreg' = xreg
  BY Zenon DEF T2_Mret, mret, complete
<1>3. ir.opcode = I_SYS /\ ir.opID = "mret"
  BY <1>2, SMT DEF csr_op, I, dc
<1>4. Formed(ir) /\ ir.I_rd = 0
  <2>1. Formed(ir)
    BY <1>1, <1>2, NotNone, Zenon
  <2> QED
    BY <1>3, <2>1, SMT DEF Formed
<1>5. ~accesses
  <2>1. ir.opcode \notin {I_LD, I_ST}
    BY <1>3, Codes, SMT
  <2> QED
    BY <2>1, AccessKind, Zenon
<1>6. m' = m /\ dev' = dev /\ out' = out
  BY <1>5, WhenRunning, Zenon
<1>7. Arch!dc = ir
  BY <1>2, AtExecute, Zenon
<1>8. adev' = adev
  BY <1>2, <1>6, AfterCompletion, Phases, Zenon DEF adev
<1>9. Arch!Retire(0, even(csr.mepc))
  BY <1>2, <1>4, RetiresNothing, Zenon
<1> QED
  BY <1>2, <1>3, <1>6, <1>7, <1>8, <1>9, SameCodes, SameCsr, SameAccess, Zenon
  DEF Arch!Mret, Arch!ioVars, adev

(* A wfi that ends. *)
LEMMA Waking ==
  ASSUME Typed, Tied, Run, T2_Wfi, sc' = 0
  PROVE  Arch!Wfi
<1>1. CpuTyped /\ WellFormed(ir) /\ InFlight
  BY Groups, Zenon DEF Typed, Tied
<1>2. T(2) /\ csr_op = "wfi" /\ pc' = pc /\ csr' = csr /\ xreg' = xreg
  BY Zenon DEF T2_Wfi, wfi
<1>3. irq \/ ignore_wfi
  BY <1>2, SMT DEF T2_Wfi, T
<1>4. ir.opcode = I_SYS /\ ir.opID = "wfi"
  BY <1>2, SMT DEF csr_op, I, dc
<1>5. Formed(ir) /\ ir.I_rd = 0 /\ pc = Wrap(tr + 4)
  <2>1. Formed(ir) /\ pc = Wrap(tr + 4)
    BY <1>1, <1>2, NotNone, Phases, Zenon DEF InFlight
  <2> QED
    BY <1>4, <2>1, SMT DEF Formed
<1>6. ~accesses
  <2>1. ir.opcode \notin {I_LD, I_ST}
    BY <1>4, Codes, SMT
  <2> QED
    BY <2>1, AccessKind, Zenon
<1>7. m' = m /\ dev' = dev /\ out' = out
  BY <1>6, WhenRunning, Zenon
<1>8. Arch!dc = ir /\ Arch!nxt_pc = pc
  BY <1>2, <1>5, AtExecute, Zenon
<1>9. adev' = adev
  BY <1>2, <1>7, AfterCompletion, Phases, Zenon DEF adev
<1>10. Arch!Retire(0, pc)
  BY <1>2, <1>5, RetiresNothing, Zenon
<1>11. Arch!interrupt_detected(csr, mip) \/ "wfi" \in ahold
  BY <1>3, SameCsr, SMT DEF irq, ahold
<1> QED
  BY <1>2, <1>4, <1>7, <1>8, <1>9, <1>10, <1>11, SameCodes, Zenon
  DEF Arch!Wfi, Arch!ioVars, adev, ahold

(* The lanes of a word are those of the address within it. *)
LEMMA SameLane ==
  ASSUME NEW a \in Word, NEW t, NEW d
  PROVE  /\ formatRead(a % 4, t, d) = formatRead(a, t, d)
         /\ Aligned(a, ld_size("lw")) => formatRead(0, t, d) = formatRead(a, t, d)
<1>1. a \in Nat
  BY SmallWords, Zenon
<1>2. (a % 4) % 4 = a % 4 /\ 0 % 4 = 0
  BY <1>1, SMT
<1>3. ld_size("lw") = 4
  BY SMT DEF ld_size
<1> QED
  BY <1>2, <1>3, Zenon DEF formatRead, Aligned

(* The last cycle of a load.  A device was read in T[2] and is read in Isa now. *)
LEMMA Loading ==
  ASSUME Typed, Tied, Run, T3_Load
  PROVE  Arch!Load \/ Arch!LoadIO
<1>1. CpuTyped /\ IOTyped /\ WellFormed(ir) /\ InFlight /\ Loaded
  BY Groups, Zenon DEF Typed, Tied
<1>2. T(3) /\ ir.opcode = I_LD /\ sc' = 0 /\ pc' = pc /\ csr' = csr /\ writeBack(formatReadData)
  BY SMT DEF T3_Load, I, dc, complete
<1>3. pc = Wrap(tr + 4)
  BY <1>1, <1>2, Phases, Zenon DEF InFlight
<1>4. m' = m /\ dev' = dev /\ out' = out
  BY <1>2, AccessKind, Phases, WhenRunning, Zenon
<1>5. Arch!dc = ir /\ Arch!nxt_pc = pc /\ Arch!rs1_imm = loadAddr
  BY <1>2, <1>3, AtExecute, Zenon
<1>6. adev' = dev
  BY <1>2, <1>4, AfterCompletion, Zenon
<1>7. loadAddr \in Word
  <2>1. x1 \in Word /\ ir.imm \in Int
    <3>1. ir.opcode # I_SYS
      BY <1>2, Codes, SMT
    <3> QED
      BY <1>1, <3>1, OperandIsWord, Zenon DEF WellFormed, x1
  <2>2. x1 + ir.imm \in Int
    BY <2>1, SmallWords, SMT
  <2> QED
    BY <2>2, WrapIsWord, Zenon DEF loadAddr, x1, dc
<1>8. Aligned(loadAddr, ld_size(ir.opID))
  BY <1>1, <1>2, Zenon DEF Loaded
<1>9. CASE IO_LD_completed
  <2>1. /\ MEM_ADDR_OUT_OF_BOUNDS(loadAddr) /\ ir.opID = "lw"
        /\ byte_pos = 0 /\ ld_type = "lw"
        /\ IF isSysctrl(loadAddr) THEN latched_data \in 0 .. 3
           ELSE latched_data = (dev + DevValues - 1) % DevValues
    BY <1>1, <1>2, <1>9, Zenon DEF Loaded
  <2>2. formatReadData = formatRead(0, "lw", latched_data)
    BY <1>9, <2>1, Zenon DEF formatReadData
  <2>3. formatReadData = formatRead(loadAddr, ir.opID, latched_data)
    <3>1. Aligned(loadAddr, ld_size("lw"))
      BY <1>8, <2>1
    <3>2. formatRead(0, "lw", latched_data) = formatRead(loadAddr, "lw", latched_data)
      BY <1>7, <3>1, SameLane, Zenon
    <3> QED
      BY <2>1, <2>2, <3>2
  <2>4. Arch!Retire(formatRead(loadAddr, ir.opID, latched_data), pc)
    BY <1>2, <2>3, Retires, Zenon
  <2>5. /\ latched_data \in (IF isSysctrl(loadAddr) THEN 0 .. 3 ELSE {adev})
        /\ adev' = IF isSysctrl(loadAddr) THEN adev ELSE (adev + 1) % DevValues
    <3>1. CASE isSysctrl(loadAddr)
      BY <1>6, <2>1, <3>1, Zenon DEF adev
    <3>2. CASE ~isSysctrl(loadAddr)
      <4>1. adev = (dev + DevValues - 1) % DevValues
        BY <1>2, <1>9, <3>2, Zenon DEF adev
      <4> QED
        BY <1>1, <1>6, <2>1, <3>2, <4>1, ReadBefore, Zenon
    <3> QED
      BY <3>1, <3>2
  <2>6. latched_data \in Arch!ioData(Arch!rs1_imm)
    BY <1>5, <2>5, SameAccess, Zenon DEF Arch!ioData, adev
  <2> QED
    BY <1>2, <1>4, <1>5, <1>8, <2>1, <2>4, <2>5, <2>6, SameCodes, SameAccess, SameLanes, Zenon
    DEF Arch!LoadIO, adev
<1>10. CASE ~IO_LD_completed
  <2>1. /\ ~MEM_ADDR_OUT_OF_BOUNDS(loadAddr) /\ dout = m[word(loadAddr)]
        /\ byte_pos = loadAddr % 4 /\ ld_type = ir.opID
    BY <1>1, <1>2, <1>10, Zenon DEF Loaded
  <2>2. formatReadData = formatRead(loadAddr % 4, ir.opID, m[word(loadAddr)].data)
    BY <1>10, <2>1, Zenon DEF formatReadData
  <2>3. formatReadData = formatRead(loadAddr, ir.opID, m[word(loadAddr)].data)
    BY <1>7, <2>2, SameLane, Zenon
  <2>4. Arch!Retire(formatRead(loadAddr, ir.opID, m[word(loadAddr)].data), pc)
    BY <1>2, <2>3, Retires, Zenon
  <2>5. adev' = adev
    BY <1>6, <1>10, Zenon DEF adev
  <2> QED
    BY <1>2, <1>4, <1>5, <1>8, <2>1, <2>4, <2>5, SameCodes, SameAccess, SameLanes, Zenon
    DEF Arch!Load, Arch!ioVars, adev
<1> QED
  BY <1>9, <1>10

(* The last cycle of a branch. *)
LEMMA Deciding ==
  ASSUME Typed, Tied, Run, T3_Branch
  PROVE  Arch!Branch
<1>1. CpuTyped /\ WellFormed(ir) /\ InFlight /\ Branching
  BY Groups, Zenon DEF Typed, Tied
<1>2. /\ T(3) /\ ir.opcode = I_BR /\ sc' = 0 /\ csr' = csr /\ xreg' = xreg
      /\ pc' = IF flg = 1 THEN even(ALUcompute(bus1, bus2, op)) ELSE pc
  BY SMT DEF T3_Branch, I, dc, complete
<1>3. /\ Formed(ir) /\ ir.I_rd = 0 /\ ir.imm \in Int /\ ir.imm % 2 = 0
      /\ tr \in Word /\ tr % 4 = 0 /\ pc = Wrap(tr + 4)
  BY <1>1, <1>2, NotNone, Phases, Zenon DEF InFlight, Formed, WellFormed, CpuTyped
<1>4. m' = m /\ dev' = dev /\ out' = out
  BY <1>2, AccessKind, Phases, WhenRunning, Zenon
<1>5. /\ Arch!dc = ir /\ Arch!nxt_pc = pc /\ Arch!rs1 = x1 /\ Arch!rs2 = x2
      /\ Arch!pc_imm = Wrap(tr + ir.imm)
  BY <1>2, <1>3, AtExecute, Zenon
<1>6. ir.opcode # I_LD
  BY <1>2, Codes, SMT
<1>7. adev = dev /\ adev' = dev'
  <2>1. ~IO_LD_completed
    BY <1>6, Zenon DEF Tied, Answered
  <2> QED
    BY <1>2, <2>1, AfterCompletion, Zenon DEF adev
<1>8. even(Wrap(tr + ir.imm)) = Wrap(tr + ir.imm)
  <2>1. tr % 2 = 0
    <3>1. tr \in Nat
      BY <1>3, SmallWords, Zenon
    <3> QED
      BY <1>3, <3>1, SMT
  <2> QED
    BY <1>3, <2>1, AddsOffset, Zenon
<1> DEFINE np == IF compute(x1, x2, ir.opID) % 2 = 1 THEN Wrap(tr + ir.imm) ELSE pc
<1>9. pc' = np
  BY <1>1, <1>2, <1>3, <1>8, Answer, Zenon DEF Branching
<1>10. Arch!Retire(0, np)
  BY <1>2, <1>3, <1>9, RetiresNothing, Zenon
<1>11. np = IF Arch!compute(Arch!rs1, Arch!rs2, Arch!dc.opID) % 2 = 1
            THEN Arch!pc_imm ELSE Arch!nxt_pc
  BY <1>5, SameCompute, Zenon
<1> HIDE DEF np
<1> QED
  BY <1>2, <1>4, <1>5, <1>7, <1>10, <1>11, SameCodes, Zenon DEF Arch!Branch, Arch!ioVars, adev

(* A trap comes before the fetch. *)
LEMMA Trapping ==
  ASSUME Typed, Run, T0_Trap
  PROVE  Arch!Trap
<1>1. /\ T(0) /\ irq /\ ~step_mode /\ sc' = 0 /\ pc' = even(csr.mtvec)
      /\ csr' = do_trap(csr, mip, pc) /\ xreg' = xreg
  BY Zenon DEF T0_Trap, trap_occurred, complete
<1>2. ~accesses
  BY <1>1, AccessKind, Zenon
<1>3. m' = m /\ dev' = dev /\ out' = out
  BY <1>2, WhenRunning, Zenon
<1>4. apc = pc /\ air = Arch_None /\ adev = dev
  BY <1>1, Phases, Zenon DEF apc, air, adev
<1>5. apc' = pc' /\ air' = Arch_None /\ adev' = dev'
  BY <1>1, AfterCompletion, Zenon
<1>6. "trap" \notin ahold
  BY <1>1, SMT DEF ahold
<1>7. Arch!interrupt_detected(csr, mip)
  BY <1>1, SameCsr, Zenon DEF irq
<1>8. Arch!do_trap(csr, mip, pc) = do_trap(csr, mip, pc) /\ Arch!even(csr.mtvec) = even(csr.mtvec)
  BY SameCsr, SameAccess, Zenon
<1>9. Arch!None = Arch_None
  BY Zenon DEF Arch!None, Arch_None
<1> QED
  BY <1>1, <1>3, <1>4, <1>5, <1>6, <1>7, <1>8, <1>9, Zenon
  DEF Arch!Trap, Arch!ioVars, apc, air, adev, ahold

(* A fetch is never made past an interrupt that is due. *)
LEMMA Fetching ==
  ASSUME Typed, Run, T0_Fetch
  PROVE  Arch!Fetch
<1>1. /\ T(0) /\ ~(irq /\ ~step_mode) /\ tr' = pc /\ xreg' = xreg /\ csr' = csr
  BY Zenon DEF T0_Fetch, trap_occurred
<1>2. sc' = 1
  BY <1>1, SMT DEF T0_Fetch, advance, T
<1>3. ~accesses
  BY <1>1, AccessKind, Zenon
<1>4. m' = m /\ dev' = dev /\ out' = out /\ dout' = m[word(pc)]
  BY <1>1, <1>3, WhenRunning, Zenon
<1>5. apc = pc /\ air = Arch_None /\ adev = dev
  BY <1>1, Phases, Zenon DEF apc, air, adev
<1>6. apc' = tr' /\ air' = dout' /\ adev' = dev'
  BY <1>2, PhasesNext, Zenon DEF apc, air, adev
<1>7. ~Arch!interrupt_detected(csr, mip) \/ "trap" \in ahold
  BY <1>1, SameCsr, SMT DEF irq, ahold
<1>8. Arch!None = Arch_None
  BY Zenon DEF Arch!None, Arch_None
<1>9. Arch!word(pc) = word(pc)
  BY SameAccess, Zenon
<1> QED
  BY <1>1, <1>4, <1>5, <1>6, <1>7, <1>8, <1>9, Zenon
  DEF Arch!Fetch, Arch!ioVars, apc, air, adev, ahold

(* The cycles that show nothing. *)
Invisible == /\ apc' = apc /\ air' = air /\ xreg' = xreg /\ m' = m /\ csr' = csr
             /\ adev' = adev /\ out' = out

(* The second cycle. *)
LEMMA Decoding ==
  ASSUME Typed, Run, T1_Decode
  PROVE  Invisible
<1>1. T(1) /\ ir' = dout /\ tr' = tr /\ xreg' = xreg /\ csr' = csr
  BY Zenon DEF T1_Decode
<1>2. sc' = 2
  BY <1>1, SMT DEF T1_Decode, advance, T
<1>3. m' = m /\ dev' = dev /\ out' = out
  BY <1>1, AccessKind, Phases, WhenRunning, Zenon
<1>4. apc = tr /\ air = dout /\ adev = dev
  BY <1>1, Phases, Zenon DEF apc, air, adev
<1>5. apc' = tr' /\ air' = ir' /\ adev' = dev'
  BY <1>2, PhasesNext, Zenon DEF apc, air, adev
<1> QED
  BY <1>1, <1>3, <1>4, <1>5, Zenon DEF Invisible

(* The first cycle of a load or a branch, and a wfi that goes on. *)
LEMMA Halfway ==
  ASSUME Typed, Tied, Run, T2_Load \/ T2_Branch \/ (T2_Wfi /\ sc' # 0)
  PROVE  Invisible
<1>1. CpuTyped /\ IOTyped /\ WellFormed(ir) /\ InFlight
  BY Groups, Zenon DEF Typed, Tied
<1>2. T(2) /\ ir' = ir /\ tr' = tr /\ xreg' = xreg /\ csr' = csr
  BY Zenon DEF T2_Load, T2_Branch, T2_Wfi
<1>3. apc = tr /\ air = ir /\ adev = dev
  BY <1>2, Phases, Zenon DEF apc, air, adev
<1>4. sc' \in {2, 3}
  BY <1>2, SMT DEF T2_Load, T2_Branch, T2_Wfi, T, advance
<1>5. apc' = tr' /\ air' = ir'
  BY <1>4, PhasesNext, Zenon DEF apc, air
<1>6. CASE ~accesses
  <2>1. m' = m /\ dev' = dev /\ out' = out /\ IO_LD_completed' = FALSE
    BY <1>6, WhenRunning, Zenon
  <2> QED
    BY <1>2, <1>3, <1>5, <2>1, Zenon DEF Invisible, adev
<1>7. CASE accesses
  <2>1. T2_Load
    <3>1. T2_Branch => ir.opcode = I_BR
      BY SMT DEF T2_Branch, I, dc
    <3>2. T2_Wfi => ir.opcode = I_SYS
      BY SMT DEF T2_Wfi, wfi, csr_op, I, dc
    <3>3. ir.opcode \in {I_LD, I_ST}
      BY <1>7, AccessKind, Zenon
    <3> QED
      BY <3>1, <3>2, <3>3, Codes, SMT
  <2>2. I({I_LD}) /\ ir.opcode = I_LD
    BY <2>1, AccessKind, Zenon DEF T2_Load
  <2>3. Formed(ir)
    BY <1>1, <1>2, AtWork, Zenon
  <2>4. mem_addr = loadAddr /\ loadAddr' = loadAddr
    BY <1>1, <1>2, <2>2, <2>3, Answer, Frames, Zenon
  <2>5. T(3)'
    <3>1. sc' = 3
      BY <1>2, <2>1, SMT DEF T2_Load, advance, T
    <3> QED
      BY <3>1, PhasesNext, Zenon
  <2>6. CASE io_op
    <3>1. /\ m' = m /\ out' = out /\ IO_LD_completed' = TRUE
          /\ IF isSysctrl(loadAddr) THEN dev' = dev ELSE dev' = (dev + 1) % DevValues
      BY <1>2, <2>2, <2>4, <2>6, Phases, WhenRunning, Zenon
    <3>2. isSysctrl(loadAddr)' <=> isSysctrl(loadAddr)
      BY <2>4, Zenon DEF isSysctrl
    <3>3. adev' = dev
      <4>1. CASE isSysctrl(loadAddr)
        BY <3>1, <3>2, <4>1, Zenon DEF adev
      <4>2. CASE ~isSysctrl(loadAddr)
        <5>1. adev' = (dev' + DevValues - 1) % DevValues
          BY <2>5, <3>1, <3>2, <4>2, Zenon DEF adev
        <5> QED
          BY <1>1, <3>1, <4>2, <5>1, ReadBefore, Zenon
      <4> QED
        BY <4>1, <4>2
    <3> QED
      BY <1>2, <1>3, <1>5, <3>1, <3>3, Zenon DEF Invisible
  <2>7. CASE ~io_op
    <3>1. m' = m /\ dev' = dev /\ out' = out /\ IO_LD_completed' = FALSE
      BY <1>7, <2>2, <2>7, WhenRunning, Zenon
    <3> QED
      BY <1>2, <1>3, <1>5, <3>1, Zenon DEF Invisible, adev
  <2> QED
    BY <2>6, <2>7
<1> QED
  BY <1>6, <1>7

(* A cycle in which the core is held. *)
LEMMA Holding ==
  ASSUME Typed, InBounds, Regular, Tied, Stall
  PROVE  Invisible
<1>1. /\ sc' = sc /\ pc' = pc /\ tr' = tr /\ ir' = ir /\ xreg' = xreg
      /\ csr' = csr /\ m' = m /\ dev' = dev /\ out' = out
      /\ ~IO_LD_completed /\ IO_LD_completed' = FALSE
      /\ T(1) => dout' = dout
  BY WhenStalled, AccessKind, Phases, Zenon DEF Tied
<1>2. adev' = dev' /\ adev = dev
  BY <1>1, Zenon DEF adev
<1>3. apc' = apc
  BY <1>1, Zenon DEF apc, T
<1>4. air' = air
  BY <1>1, Zenon DEF air, T
<1> QED
  BY <1>1, <1>2, <1>3, <1>4, Zenon DEF Invisible
-----------------------------------------------------------------------------
(* A cycle in which it runs. *)
LEMMA RunShows ==
  ASSUME Typed, InBounds, Regular, Tied, Run
  PROVE  Arch!Fetch \/ Arch!Trap \/ Arch!Execute \/ Invisible
<1>1. Phase /\ InFlight
  BY WhenRunning, Zenon DEF Tied
<1>2. ASSUME T(2) \/ T(3), \/ Arch!Compute \/ Arch!Branch \/ Arch!Upper \/ Arch!Jump \/ Arch!Load
                           \/ Arch!Store \/ Arch!LoadIO \/ Arch!StoreIO \/ Arch!AccessCsr
                           \/ Arch!Mret \/ Arch!Wfi
      PROVE  Arch!Execute
  <2>1. air # Arch_None
    BY <1>1, <1>2, NotNone, Zenon
  <2>2. Arch!None = Arch_None
    BY Zenon DEF Arch!None, Arch_None
  <2> QED
    BY <1>2, <2>1, <2>2, Zenon DEF Arch!Execute, air
<1>3. CASE T0_Trap
  BY <1>3, Trapping, Zenon
<1>4. CASE T0_Fetch
  BY <1>4, Fetching, Zenon
<1>5. CASE T1_Decode
  BY <1>5, Decoding, Zenon
<1>6. CASE T2_Compute
  <2>1. T(2)
    BY <1>6, Zenon DEF T2_Compute
  <2> QED
    BY <1>2, <1>6, <2>1, Computing, Zenon
<1>7. CASE T2_Store
  <2>1. T(2)
    BY <1>7, Zenon DEF T2_Store
  <2> QED
    BY <1>2, <1>7, <2>1, Storing, Zenon
<1>8. CASE T2_Jump
  <2>1. T(2)
    BY <1>8, Zenon DEF T2_Jump
  <2> QED
    BY <1>2, <1>8, <2>1, Jumping, Zenon
<1>9. CASE T2_Csr
  <2>1. T(2)
    BY <1>9, Zenon DEF T2_Csr
  <2> QED
    BY <1>2, <1>9, <2>1, Accessing, Zenon
<1>10. CASE T2_Mret
  <2>1. T(2)
    BY <1>10, Zenon DEF T2_Mret
  <2> QED
    BY <1>2, <1>10, <2>1, Returning, Zenon
<1>11. CASE T2_Wfi /\ sc' = 0
  <2>1. T(2)
    BY <1>11, Zenon DEF T2_Wfi
  <2> QED
    BY <1>2, <1>11, <2>1, Waking, Zenon
<1>12. CASE T2_Load \/ T2_Branch \/ (T2_Wfi /\ sc' # 0)
  BY <1>12, Halfway, Zenon
<1>13. CASE T3_Load
  <2>1. T(3)
    BY <1>13, Zenon DEF T3_Load
  <2> QED
    BY <1>2, <1>13, <2>1, Loading, Zenon
<1>14. CASE T3_Branch
  <2>1. T(3)
    BY <1>14, Zenon DEF T3_Branch
  <2> QED
    BY <1>2, <1>14, <2>1, Deciding, Zenon
<1> QED
  BY <1>1, <1>3, <1>4, <1>5, <1>6, <1>7, <1>8, <1>9, <1>10, <1>11, <1>12, <1>13, <1>14, Zenon
  DEF Phase

(* What is pending is a cause. *)
LEMMA PendingCauses == Typed => mip \in SUBSET Causes
  BY Groups, Zenon DEF Typed, IrqTyped

(* Every step of the core is a step of the instruction set, or none. *)
LEMMA ArchStep ==
  ASSUME Typed, Typed', InBounds, Regular, Tied, [Next]_vars
  PROVE  [Arch!Next]_(Arch!vars)
<1>1. Arch!World
  <2>1. mip' \in SUBSET Causes
    <3>1. Typed' => (mip \in SUBSET Causes)'
      BY PendingCauses, PTL
    <3> QED
      BY <3>1
  <2>2. ahold' \in SUBSET {"trap", "wfi"}
    BY SMT DEF ahold
  <2> QED
    BY <2>1, <2>2, SameCsr, Zenon DEF Arch!World, ahold
<1>2. Invisible => UNCHANGED <<Arch!cpuVars, Arch!ioVars>>
  BY Zenon DEF Invisible, Arch!cpuVars, Arch!ioVars, apc, air, adev
<1>3. CASE UNCHANGED vars
  <2>1. /\ sc' = sc /\ pc' = pc /\ tr' = tr /\ ir' = ir /\ xreg' = xreg /\ csr' = csr
        /\ m' = m /\ dout' = dout /\ IO_LD_completed' = IO_LD_completed /\ dev' = dev /\ out' = out
    BY <1>3, Zenon DEF vars, cpuVars, memVars, ioVars
  <2>2. loadAddr' = loadAddr
    BY <2>1, Frames, Zenon
  <2>3. apc' = apc /\ air' = air /\ adev' = adev
    BY <2>1, <2>2, Zenon DEF apc, air, adev, T, isSysctrl
  <2>4. Invisible
    BY <2>1, <2>3, Zenon DEF Invisible
  <2> QED
    BY <1>1, <1>2, <2>4, Zenon DEF Arch!Next
<1>4. CASE Next
  <2>1. Stall => Invisible
    BY Holding, Zenon
  <2>2. Run => Arch!Fetch \/ Arch!Trap \/ Arch!Execute \/ Invisible
    BY RunShows, Zenon
  <2> QED
    BY <1>1, <1>2, <1>4, <2>1, <2>2, Zenon DEF Next, Arch!Next
<1> QED
  BY <1>3, <1>4, Zenon

(* The reset state is one of Isa. *)
LEMMA ArchInit ==
  ASSUME Init
  PROVE  \E p \in Programs : Arch!Init(image(p.code))
<1>1. PICK p \in Programs : m = image(p.code)
  BY Zenon DEF Init
<1>2. /\ sc = 0 /\ pc = 0 /\ xreg = [r \in Regs |-> 0] /\ csr = csrInit /\ mip = {} /\ dev = 0
      /\ out = [addr |-> 0, wdata |-> 0, count |-> 0] /\ ~IO_LD_completed
  BY Zenon DEF Init
<1>3. apc = 0 /\ air = Arch_None /\ adev = 0
  BY <1>2, Zenon DEF apc, air, adev, T
<1>4. ahold \in SUBSET {"trap", "wfi"}
  BY SMT DEF ahold
<1>5. Arch!None = Arch_None /\ Arch!Regs = Regs /\ Arch!csrInit = csrInit
  BY SameCsr, Zenon DEF Arch!None, Arch_None, Arch!Regs, Regs
<1>6. Arch!Init(image(p.code))
  BY <1>1, <1>2, <1>3, <1>4, <1>5, Zenon DEF Arch!Init, apc, air, adev, ahold
<1> QED
  BY <1>6

(* For every program, memory size and bus latency, as long as the core     *)
(* accesses what the program provides (InBounds) and the program keeps to  *)
(* what core and simulator agree on (Regular): whatever the phases, the    *)
(* serial multiplier, the bus, traps and debug halts make of it cycle by   *)
(* cycle, every step of RV32I_ARCH1 is a step of the instruction set or    *)
(* shows nothing.                                                          *)
THEOREM CoreImplementsIsa == Spec /\ []InBounds /\ []Regular => ImplementsIsa
<1>1. Init => Typed /\ Tied /\ \E p \in Programs : Arch!Init(image(p.code))
  BY TypedInit, TiedInit, ArchInit, Zenon
<1>2. Typed /\ InBounds /\ [Next]_vars => Typed'
  BY TypedStep, Zenon
<1>3. Typed /\ InBounds /\ Regular /\ Tied /\ [Next]_vars => Tied'
  BY TiedStep, Zenon
<1>4. Typed /\ Typed' /\ InBounds /\ Regular /\ Tied /\ [Next]_vars => [Arch!Next]_(Arch!vars)
  BY ArchStep, Zenon
<1> QED
  BY <1>1, <1>2, <1>3, <1>4, PTL DEF Spec, ImplementsIsa, Arch!Behaviour
=============================================================================

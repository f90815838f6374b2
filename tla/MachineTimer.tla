---------------------------- MODULE MachineTimer ----------------------------
(***************************************************************************)
(* The machine timer of SYSCTRL (src/rv32_io.cpp, src/rv32_io.h), the      *)
(* interrupt handler of src/rv_test/io.c that sets its next deadline, and  *)
(* a program that switches the timer interrupt on and off, as              *)
(* src/rv_test/test_rv32_5.c does.                                         *)
(*                                                                         *)
(* mtime and mtimecmp are two words each.  The timer counts while the      *)
(* handler loads one and stores the other word by word, with any number of *)
(* cycles in between; in which order is the compiler's choice.  A step is  *)
(* a clock cycle, in which the program takes a step or none.               *)
(***************************************************************************)
EXTENDS Csr

CONSTANTS W,         \* values of half a timer register: 2^32 in the source
          Divider,   \* cycles per count: 16
          Interval,  \* mtimer_interval
          MaxTime    \* the count at which the model's clock stops

ASSUME TimerAssumption == /\ {W, Divider, Interval} \subseteq Nat \ {0}
                          /\ MaxTime \in Nat /\ MaxTime + Interval < W * W

VARIABLES
  mtime_l, mtime_h, mtimecmp_l, mtimecmp_h, divider,
  csr, mip,          \* see Csr
  pc,                \* of the handler; "main" when it does not run
  mtime,             \* [l, h]: what the handler has loaded
  order,             \* [load, store]: which half the compiler takes first
  deadline,          \* history: the earliest time of the next tick
  torn               \* history: mtime_l wrapped between the last two loads

timer == <<mtime_l, mtime_h, divider>>
cmp   == <<mtimecmp_l, mtimecmp_h>>
vars  == <<timer, cmp, csr, mip, pc, mtime, order, deadline, torn>>

(* The registers as the numbers they stand for. *)
Wide(l, h) == h * W + l
Time == Wide(mtime_l, mtime_h)
Cmp  == Wide(mtimecmp_l, mtimecmp_h)

(* A faulty form, which compares the halves each on its own. *)
mtip_halves == mtime_h >= mtimecmp_h /\ mtime_l >= mtimecmp_l

mtip == \/ mtime_h > mtimecmp_h
        \/ mtime_h = mtimecmp_h /\ mtime_l >= mtimecmp_l

(* A faulty form, which carries one count too late. *)
incr_timer_late == IF mtime_l = W
                   THEN mtime_l' = 0 /\ mtime_h' = (mtime_h + 1) % W
                   ELSE mtime_l' = mtime_l + 1 /\ UNCHANGED mtime_h

incr_timer == IF mtime_l = W - 1
              THEN mtime_l' = 0 /\ mtime_h' = (mtime_h + 1) % W
              ELSE mtime_l' = mtime_l + 1 /\ UNCHANGED mtime_h

(* The clock: mip is what the compare says at the beginning of the cycle. *)
Clock == /\ mip' = IF mtip THEN {Timer} ELSE {}
         /\ divider' = (divider + 1) % Divider
         /\ IF divider = 0 /\ Time < MaxTime THEN incr_timer
                                             ELSE UNCHANGED <<mtime_l, mtime_h>>

(* After enable_timer_interrupt: the deadline is 0, which has passed. *)
Init == /\ mtime_l = 0 /\ mtime_h = 0 /\ mtimecmp_l = 0 /\ mtimecmp_h = 0
        /\ divider = 0
        /\ csr = [csrInit EXCEPT !.mie = 2^Timer, !.mstatus = 2^MIE]
        /\ mip = {}
        /\ pc = "main" /\ mtime = [l |-> 0, h |-> 0]
        /\ order \in [load : {"l", "h"}, store : {"l", "h"}]
        /\ deadline = 0 /\ torn = FALSE

-----------------------------------------------------------------------------
(* The program.  Interrupts are taken between two of its instructions.     *)

history == <<deadline, torn>>
irq == interrupt_detected(csr, mip)

Trap == /\ irq
        /\ csr' = do_trap(csr, mip, 0)
        /\ pc' = "load1"
        /\ UNCHANGED <<cmp, mtime, history>>

(* csrs and csrc of bit 7 of mie, with rd = x0. *)
Toggle == /\ ~irq /\ pc = "main"
          /\ \E csr_op \in {"csrrs", "csrrc"} :
               csr' = writeback(csr, csr_val(csr, mip, 772, 0), 2^Timer, 772, csr_op, 1)
          /\ UNCHANGED <<cmp, pc, mtime, history>>

half(first, n) == IF n = 1 THEN first ELSE IF first = "l" THEN "h" ELSE "l"

(* mtime, as the handler reads it. *)
Load(n) == /\ ~irq
           /\ LET i == half(order.load, n)
              IN  mtime' = [mtime EXCEPT ![i] = IF i = "l" THEN mtime_l ELSE mtime_h]
           /\ UNCHANGED <<cmp, csr>>

wraps == mtime_l = W - 1 /\ mtime_l' = 0

Load1 == /\ pc = "load1" /\ pc' = "load2" /\ Load(1)
         /\ deadline' = Time + Interval
         /\ torn' = wraps
Load2 == /\ pc = "load2" /\ pc' = "store1" /\ Load(2)
         /\ UNCHANGED history

(* A faulty sum, without the carry from the low word into the high one. *)
sum_no_carry == Wide((mtime.l + Interval) % W, mtime.h)

sum == Wide(mtime.l, mtime.h) + Interval

Store(n) == /\ ~irq
            /\ IF half(order.store, n) = "l"
                 THEN mtimecmp_l' = sum % W /\ UNCHANGED mtimecmp_h
                 ELSE mtimecmp_h' = (sum \div W) % W /\ UNCHANGED mtimecmp_l
            /\ UNCHANGED <<csr, mtime, history>>

Store1 == pc = "store1" /\ pc' = "store2" /\ Store(1)
Store2 == pc = "store2" /\ pc' = "hook" /\ Store(2)

(* timer_interrupt_hook, and the end of the handler. *)
Hook == pc = "hook" /\ pc' = "mret" /\ ~irq /\ UNCHANGED <<cmp, csr, mtime, history>>

Mret == /\ pc = "mret" /\ ~irq
        /\ csr' = do_mret(csr)
        /\ pc' = "main"
        /\ UNCHANGED <<cmp, mtime, history>>

Handler == Load1 \/ Load2 \/ Store1 \/ Store2 \/ Hook \/ Mret

(* A cycle within an instruction. *)
Wait == /\ UNCHANGED <<cmp, csr, pc, mtime, deadline>>
        /\ torn' = (torn \/ (pc = "load2" /\ wraps))

Next == Clock /\ UNCHANGED order /\ (Trap \/ Toggle \/ Handler \/ Wait)
Spec == Init /\ [][Next]_vars

(* The clock ticks, an interrupt that is due is taken when the instruction *)
(* before it is over, and the handler runs to its end.                     *)
Step(A)  == Clock /\ UNCHANGED order /\ A
FairSpec == /\ Spec
            /\ WF_vars(Next) /\ WF_vars(Step(Trap)) /\ WF_vars(Step(Handler))

-----------------------------------------------------------------------------
TypeOK == /\ {mtime_l, mtime_h, mtimecmp_l, mtimecmp_h, mtime.l, mtime.h} \subseteq 0 .. W - 1
          /\ divider \in 0 .. Divider - 1
          /\ csr \in [CSR_RW -> Word] /\ mip \subseteq {Timer}
          /\ pc \in {"main", "load1", "load2", "store1", "store2", "hook", "mret"}
          /\ deadline \in 0 .. MaxTime + Interval /\ torn \in BOOLEAN

(* The two words of each register behave as one: time moves by single      *)
(* counts and never back, and the interrupt is pending exactly when the    *)
(* time has reached the deadline.                                          *)
TwoWordsAreOne == [][/\ Time' - Time \in {0, 1}
                     /\ (Timer \in mip') <=> Time >= Cmp]_vars

(* The value between the two stores, which may be any mixture of the old   *)
(* deadline and the new, never ticks: the next interrupt is taken no       *)
(* earlier than Interval after the handler read the time.                  *)
TickNotEarly == [][pc' = "load1" /\ pc # "load1" => Time >= deadline \/ torn]_vars

(* The deadline is Interval after the time at which the handler read the   *)
(* time, or some time between its two loads.  Only a count that wraps the  *)
(* low word between the loads tears it apart.                              *)
DeadlineExact == (pc = "hook" /\ ~torn) => Cmp \in deadline .. Time + Interval

(* While the timer interrupt is on, a deadline that has passed runs the    *)
(* handler.                                                                *)
timerOn == isSet(csr.mie, Timer)

TickComes == (Time >= Cmp /\ timerOn) ~> (pc = "hook" \/ ~timerOn)
=============================================================================

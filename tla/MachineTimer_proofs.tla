------------------------- MODULE MachineTimer_proofs -------------------------
(***************************************************************************)
(* The two-word deadline of the machine timer is safe: for every word      *)
(* width, divider and interval, and whichever half the compiler takes      *)
(* first, no mixture of an old and a new deadline ticks; and its           *)
(* registers keep their ranges.                                            *)
(***************************************************************************)
EXTENDS MachineTimer, Datapath_proofs

(* Two words compare as the number they stand for. *)
LEMMA WordsCompare ==
  ASSUME NEW h1 \in 0 .. W - 1, NEW l1 \in 0 .. W - 1,
         NEW h2 \in 0 .. W - 1, NEW l2 \in 0 .. W - 1
  PROVE  Wide(l1, h1) >= Wide(l2, h2) <=> h1 > h2 \/ (h1 = h2 /\ l1 >= l2)
<1>0. W \in Nat \ {0}
  BY TimerAssumption
<1>1. ASSUME NEW a \in 0 .. W - 1, NEW b \in 0 .. W - 1, a > b
      PROVE  a * W >= b * W + W
  <2>1. PICK k \in Nat : a = b + 1 + k
    <3>1. a - b - 1 \in Nat /\ a = b + 1 + (a - b - 1)
      BY <1>0, <1>1
    <3> QED
      BY <3>1
  <2>2. a * W = b * W + W + k * W
    BY <1>0, <2>1, SMT
  <2>3. k * W >= 0 /\ k * W \in Int /\ b * W \in Int
    BY <1>0, <2>1, SMT
  <2> QED
    BY <1>0, <2>2, <2>3, SMT
<1>2. h1 * W \in Int /\ h2 * W \in Int
  BY <1>0, SMT
<1>3. CASE h1 > h2
  BY <1>0, <1>1, <1>2, <1>3, SMT DEF Wide
<1>4. CASE h2 > h1
  BY <1>0, <1>1, <1>2, <1>4, SMT DEF Wide
<1>5. CASE h1 = h2
  BY <1>0, <1>2, <1>5, SMT DEF Wide
<1> QED
  BY <1>0, <1>3, <1>4, <1>5, SMT

(* A number below W * W splits into two words, and they make it up again. *)
LEMMA Split ==
  ASSUME NEW n \in Nat, n < W * W
  PROVE  /\ n % W \in 0 .. W - 1 /\ (n \div W) % W \in 0 .. W - 1
         /\ Wide(n % W, (n \div W) % W) = n
<1>0. W \in Nat \ {0}
  BY TimerAssumption
<1> DEFINE q == n \div W  r == n % W
<1>1. q \in Int /\ r \in 0 .. W - 1 /\ n = W * q + r
  BY <1>0, SMT
<1> HIDE DEF q, r
<1>2. q >= 0
  <2>1. SUFFICES ASSUME q <= -1 PROVE FALSE
    BY <1>1, SMT
  <2>2. W * q <= W * (-1)
    BY <1>0, <1>1, <2>1, SMT
  <2> QED
    BY <1>0, <1>1, <2>2, SMT
<1>3. q < W
  <2>1. SUFFICES ASSUME q >= W PROVE FALSE
    BY <1>0, <1>1, SMT
  <2>2. W * q >= W * W
    BY <1>0, <1>1, <2>1, SMT
  <2> QED
    BY <1>0, <1>1, <2>2, SMT
<1>4. q % W = q
  BY <1>0, <1>1, <1>2, <1>3, SMT
<1>5. q * W = W * q
  BY <1>0, <1>1, SMT
<1>6. Wide(r, q) = n
  BY <1>0, <1>1, <1>5, SMT DEF Wide
<1> QED
  BY <1>0, <1>1, <1>2, <1>3, <1>4, <1>6, SMT DEF q, r

-----------------------------------------------------------------------------
(* The registers and the program counter have their types, and the timer   *)
(* stops at MaxTime.  Of the CSRs only mstatus.mie matters: it is off in   *)
(* the handler.                                                            *)
Typed ==
  /\ mtime_l \in 0 .. W - 1 /\ mtime_h \in 0 .. W - 1
  /\ mtimecmp_l \in 0 .. W - 1 /\ mtimecmp_h \in 0 .. W - 1
  /\ mtime \in [l : 0 .. W - 1, h : 0 .. W - 1]
  /\ order \in [load : {"l", "h"}, store : {"l", "h"}]
  /\ pc \in {"main", "load1", "load2", "store1", "store2", "hook", "mret"}
  /\ deadline \in Nat /\ torn \in BOOLEAN
  /\ Time <= MaxTime

Masked == /\ DOMAIN csr = CSR_RW
          /\ pc # "main" => ~isSet(csr.mstatus, MIE)

(* What the handler has loaded: while it waits for the second half, the    *)
(* other half of the register has not moved on from the first, and then    *)
(* the two are a time the timer has had since the first load.              *)
HalfLoaded ==
  pc = "load2" /\ ~torn =>
    IF order.load = "l"
    THEN mtime.l <= mtime_l /\ Wide(mtime.l, mtime_h) = deadline - Interval
    ELSE mtime.h = mtime_h /\ deadline - Interval <= Time

BothLoaded ==
  pc \in {"store1", "store2"} /\ ~torn =>
    Wide(mtime.l, mtime.h) \in deadline - Interval .. Time

HalfStored ==
  pc = "store2" =>
    IF order.store = "l" THEN mtimecmp_l = sum % W ELSE mtimecmp_h = (sum \div W) % W

(* The deadline that is stored, and the interrupt that it causes once no   *)
(* mixture can be in mip any more.                                         *)
BothStored ==
  pc \in {"hook", "mret", "main"} /\ ~torn => Cmp \in deadline .. Time + Interval

NotEarly == pc \in {"mret", "main"} /\ mip # {} /\ ~torn => Time >= deadline

IInv == Typed /\ Masked /\ HalfLoaded /\ BothLoaded /\ HalfStored /\ BothStored /\ NotEarly

-----------------------------------------------------------------------------
(* A clock cycle moves the time by at most one, and without a wrap of the  *)
(* low word it leaves the high word alone.                                 *)
LEMMA ClockCounts ==
  ASSUME Typed, Clock
  PROVE  /\ mtime_l' \in 0 .. W - 1 /\ mtime_h' \in 0 .. W - 1
         /\ Time \in Nat /\ Time' \in {Time, Time + 1} /\ Time' <= MaxTime
         /\ ~wraps => mtime_h' = mtime_h /\ mtime_l <= mtime_l'
<1>0. /\ W \in Nat \ {0} /\ MaxTime \in Nat /\ MaxTime < W * W /\ Interval \in Nat
      /\ mtime_h * W \in Nat
  BY TimerAssumption, SMT DEF Typed
<1>1. CASE UNCHANGED <<mtime_l, mtime_h>>
  BY <1>0, <1>1, SMT DEF Typed, Time, Wide, wraps
<1>2. CASE incr_timer /\ Time < MaxTime
  <2>1. CASE mtime_l = W - 1
    <3>1. mtime_h < W - 1
      <4>1. SUFFICES ASSUME mtime_h = W - 1 PROVE FALSE
        BY <1>0, SMT DEF Typed
      <4>2. mtime_h * W = W * W - W
        BY <1>0, <4>1, SMT
      <4>3. W * W \in Nat
        BY <1>0, SMT
      <4> QED
        BY <1>0, <1>2, <2>1, <4>2, <4>3, SMT DEF Time, Wide
    <3>2. (mtime_h + 1) % W = mtime_h + 1
      BY <1>0, <3>1, SMT DEF Typed
    <3>3. mtime_l' = 0 /\ mtime_h' = mtime_h + 1
      BY <1>2, <2>1, <3>2 DEF incr_timer
    <3>4. (mtime_h + 1) * W = mtime_h * W + W
      BY <1>0, SMT DEF Typed
    <3> QED
      BY <1>0, <1>2, <2>1, <3>1, <3>3, <3>4, SMT DEF Typed, Time, Wide, wraps
  <2>2. CASE mtime_l # W - 1
    <3>1. mtime_l' = mtime_l + 1 /\ mtime_h' = mtime_h
      BY <1>2, <2>2 DEF incr_timer
    <3> QED
      BY <1>0, <1>2, <2>2, <3>1, SMT DEF Typed, Time, Wide
  <2> QED
    BY <2>1, <2>2
<1> QED
  BY <1>1, <1>2 DEF Clock

(* The comparison of the halves is that of the numbers.                    *)
LEMMA MtipCompares ==
  ASSUME Typed, Clock
  PROVE  /\ Timer \in mip' <=> Time >= Cmp
         /\ mip' # {} <=> Time >= Cmp
<1>1. mtip <=> Time >= Cmp
  BY WordsCompare, SMT DEF Typed, Time, Cmp, mtip
<1>2. mip' = IF mtip THEN {Timer} ELSE {}
  BY DEF Clock
<1> QED
  BY <1>1, <1>2, Zenon

(* An interrupt is taken from the main program only, and turns off         *)
(* interrupts.                                                             *)
LEMMA TakenFromMain ==
  ASSUME Typed, Masked, irq
  PROVE  pc = "main" /\ mip # {}
  BY Zenon DEF Typed, Masked, irq, interrupt_detected, irq_vec

(* A trap leaves interrupts off. *)
LEMMA TrapMasks ==
  ASSUME Masked, Trap
  PROVE  DOMAIN csr' = CSR_RW /\ ~isSet(csr'.mstatus, MIE)
<1>1. DOMAIN csr' = CSR_RW /\ csr'.mstatus \in {3 * 2^11, 3 * 2^11 + 2^7}
  BY SMT DEF Masked, Trap, do_trap, CSR_RW, MPIE
<1>2. ~isSet(3 * 2^11, 3) /\ ~isSet(3 * 2^11 + 2^7, 3)
  BY SMT DEF isSet
<1> QED
  BY <1>1, <1>2 DEF MIE

-----------------------------------------------------------------------------
(* The invariant holds from the start, and then one part at a time: the    *)
(* types and the mask, what is loaded, and what is stored.                 *)
THEOREM InitInv == Init => IInv
<1> SUFFICES ASSUME Init PROVE IInv
  OBVIOUS
<1>0. W \in Nat \ {0} /\ MaxTime \in Nat /\ Interval \in Nat /\ 0 * W = 0
  BY TimerAssumption, SMT
<1>1. DOMAIN csr = CSR_RW
  BY DEF Init, csrInit
<1>2. /\ mtime_l = 0 /\ mtime_h = 0 /\ mtimecmp_l = 0 /\ mtimecmp_h = 0
      /\ pc = "main" /\ mip = {} /\ mtime = [l |-> 0, h |-> 0]
      /\ order \in [load : {"l", "h"}, store : {"l", "h"}]
      /\ deadline = 0 /\ torn = FALSE
  BY DEF Init
<1>3. Time = 0 /\ Cmp = 0
  BY <1>0, <1>2, SMT DEF Time, Cmp, Wide
<1>4. 0 \in 0 .. W - 1 /\ 0 <= MaxTime /\ 0 \in Nat
  BY <1>0, SMT
<1>5. Typed
  BY <1>2, <1>3, <1>4 DEF Typed
<1> QED
  BY <1>0, <1>1, <1>2, <1>3, <1>5, SMT
     DEF IInv, Masked, HalfLoaded, BothLoaded, HalfStored, BothStored, NotEarly

(* The new deadline fits in its two words. *)
LEMMA SumSplits ==
  ASSUME Typed, BothLoaded, pc \in {"store1", "store2"}, ~torn
  PROVE  /\ sum \in deadline .. Time + Interval
         /\ Wide(sum % W, (sum \div W) % W) = sum
<1>0. /\ W \in Nat \ {0} /\ MaxTime \in Nat /\ Interval \in Nat
      /\ W * W \in Int /\ MaxTime + Interval < W * W
  BY TimerAssumption, SMT
<1>1. Time \in Nat /\ Wide(mtime.l, mtime.h) \in Nat
  <2>1. mtime_h * W \in Nat /\ mtime.h * W \in Nat /\ mtime_l \in Nat /\ mtime.l \in Nat
    BY <1>0, SMT DEF Typed
  <2> QED
    BY <2>1, SMT DEF Time, Wide
<1>2. sum \in deadline .. Time + Interval /\ sum \in Nat /\ sum < W * W
  BY <1>0, <1>1, SMT DEF Typed, BothLoaded, sum
<1> QED
  BY <1>2, Split

(* What is stored are words. *)
LEMMA SumWords ==
  ASSUME Typed
  PROVE  sum % W \in 0 .. W - 1 /\ (sum \div W) % W \in 0 .. W - 1
<1>0. W \in Nat \ {0} /\ Interval \in Nat
  BY TimerAssumption
<1>1. mtime.h * W \in Int /\ mtime.l \in Int
  BY <1>0, SMT DEF Typed
<1>2. sum \in Int
  BY <1>0, <1>1, SMT DEF sum, Wide
<1>3. sum \div W \in Int
  BY <1>0, <1>2, SMT
<1> QED
  BY <1>0, <1>2, <1>3, SMT

(* Types and mask, over every step. *)
LEMMA TypedStep ==
  ASSUME Typed, Masked, Next
  PROVE  Typed' /\ Masked'
<1> USE DEF Masked
<1>0. /\ W \in Nat \ {0} /\ Interval \in Nat
      /\ mtime_l' \in 0 .. W - 1 /\ mtime_h' \in 0 .. W - 1 /\ Time' <= MaxTime
      /\ Time \in Nat /\ order' = order
  BY ClockCounts, TimerAssumption DEF Next
<1>1. CASE Trap
  BY <1>0, <1>1, TrapMasks DEF Typed, Trap, cmp, history
<1>2. CASE Toggle
  <2>1. DOMAIN csr' = CSR_RW
    BY <1>2 DEF Toggle, writeback, write
  <2> QED
    BY <1>0, <1>2, <2>1 DEF Typed, Toggle, cmp, history
<1>3. CASE Load1
  <2>1. mtime' \in [l : 0 .. W - 1, h : 0 .. W - 1]
    BY <1>3 DEF Load1, Load, half, Typed
  <2>2. deadline' \in Nat /\ torn' \in BOOLEAN
    BY <1>0, <1>3, SMT DEF Load1, wraps
  <2> QED
    BY <1>0, <1>3, <2>1, <2>2 DEF Typed, Load1, Load, cmp
<1>4. CASE Load2
  <2>1. mtime' \in [l : 0 .. W - 1, h : 0 .. W - 1]
    BY <1>4 DEF Load2, Load, half, Typed
  <2> QED
    BY <1>0, <1>4, <2>1 DEF Typed, Load2, Load, cmp, history
<1>5. CASE Store1
  BY <1>0, <1>5, SumWords DEF Typed, Store1, Store, history
<1>6. CASE Store2
  BY <1>0, <1>6, SumWords DEF Typed, Store2, Store, history
<1>7. CASE Hook
  BY <1>0, <1>7 DEF Typed, Hook, cmp, history
<1>8. CASE Mret
  <2>1. DOMAIN csr' = CSR_RW
    BY <1>8 DEF Mret, do_mret
  <2> QED
    BY <1>0, <1>8, <2>1 DEF Typed, Mret, cmp, history
<1>9. CASE Wait
  <2>1. torn' \in BOOLEAN
    BY <1>9 DEF Wait, Typed, wraps
  <2> QED
    BY <1>0, <1>9, <2>1 DEF Typed, Wait, cmp
<1> QED
  BY <1>1, <1>2, <1>3, <1>4, <1>5, <1>6, <1>7, <1>8, <1>9 DEF Next, Handler

(* What is loaded: only Load1, Load2 and the clock disturb it. *)
LEMMA LoadedStep ==
  ASSUME IInv, Next
  PROVE  HalfLoaded' /\ BothLoaded'
<1> USE DEF IInv
<1>0. /\ W \in Nat \ {0} /\ Interval \in Nat /\ order' = order
      /\ Time \in Nat /\ Time' \in {Time, Time + 1}
      /\ ~wraps => mtime_h' = mtime_h /\ mtime_l <= mtime_l'
      /\ mtime_l' \in 0 .. W - 1
  BY ClockCounts, TimerAssumption DEF Next
<1>1. CASE Load1
  <2> SUFFICES ASSUME ~wraps PROVE HalfLoaded' /\ BothLoaded'
    BY <1>1 DEF Load1, HalfLoaded, BothLoaded
  <2>1. pc' = "load2" /\ deadline' - Interval = Time
    BY <1>0, <1>1, SMT DEF Load1
  <2>2. CASE order.load = "l"
    <3>1. mtime'.l = mtime_l
      BY <1>1, <2>2 DEF Load1, Load, half, Typed
    <3> QED
      BY <1>0, <2>1, <2>2, <3>1, SMT DEF Typed, HalfLoaded, BothLoaded, Time
  <2>3. CASE order.load # "l"
    <3>1. mtime'.h = mtime_h
      BY <1>1, <2>3 DEF Load1, Load, half, Typed
    <3> QED
      BY <1>0, <2>1, <2>3, <3>1, SMT DEF Typed, HalfLoaded, BothLoaded
  <2> QED
    BY <2>2, <2>3
<1>2. CASE Load2
  <2> SUFFICES ASSUME ~torn PROVE BothLoaded'
    BY <1>2 DEF Load2, HalfLoaded, BothLoaded, history
  <2>1. /\ pc = "load2" /\ pc' = "store1"
        /\ deadline' = deadline
    BY <1>2 DEF Load2, history
  <2>2. CASE order.load = "l"
    <3>1. mtime'.l = mtime.l /\ mtime'.h = mtime_h
      BY <1>2, <2>2 DEF Load2, Load, half, Typed
    <3>2. mtime_h * W \in Int
      BY <1>0, SMT DEF Typed
    <3> QED
      BY <1>0, <2>1, <2>2, <3>1, <3>2, SMT DEF Typed, HalfLoaded, BothLoaded, Time, Wide
  <2>3. CASE order.load # "l"
    <3>1. mtime'.l = mtime_l /\ mtime'.h = mtime.h
      BY <1>2, <2>3 DEF Load2, Load, half, Typed
    <3> QED
      BY <1>0, <2>1, <2>3, <3>1, SMT DEF Typed, HalfLoaded, BothLoaded, Time
  <2> QED
    BY <2>2, <2>3
<1>3. CASE Wait
  <2> SUFFICES ASSUME ~torn' PROVE HalfLoaded' /\ BothLoaded'
    BY DEF HalfLoaded, BothLoaded
  <2>1. /\ pc' = pc /\ mtime' = mtime /\ deadline' = deadline
        /\ ~torn /\ ~(pc = "load2" /\ wraps)
    BY <1>3 DEF Wait
  <2> QED
    BY <1>0, <2>1, SMT DEF Typed, HalfLoaded, BothLoaded
<1>4. CASE Store1 \/ Store2
  <2>1. /\ pc \in {"store1", "store2"} /\ pc' \in {"store2", "hook"}
        /\ mtime' = mtime /\ deadline' = deadline /\ torn' = torn
    BY <1>4 DEF Store1, Store2, Store, history
  <2> QED
    BY <1>0, <2>1, SMT DEF Typed, HalfLoaded, BothLoaded
<1>5. CASE Trap \/ Toggle \/ Hook \/ Mret
  <2>1. pc' \notin {"load2", "store1", "store2"}
    BY <1>5 DEF Trap, Toggle, Hook, Mret
  <2> QED
    BY <2>1 DEF HalfLoaded, BothLoaded
<1> QED
  BY <1>1, <1>2, <1>3, <1>4, <1>5 DEF Next, Handler

(* What a clock cycle does to the bounds of a deadline. *)
LEMMA CycleLater ==
  ASSUME NEW t \in Nat, NEW u \in {t, t + 1}, NEW d \in Nat, NEW x \in d .. t + Interval
  PROVE  x \in d .. u + Interval /\ (t >= x => u >= d)
BY TimerAssumption

(* What is stored, and when it interrupts. *)
LEMMA StoredStep ==
  ASSUME IInv, Next
  PROVE  HalfStored' /\ BothStored' /\ NotEarly'
<1> USE DEF IInv
<1>0. /\ W \in Nat \ {0} /\ Interval \in Nat /\ order' = order
      /\ Time \in Nat /\ Time' \in {Time, Time + 1} /\ Clock
  BY ClockCounts, TimerAssumption DEF Next
<1>1. CASE Store1
  <2>1. /\ pc' = "store2" /\ mtime' = mtime
        /\ IF order.store = "l" THEN mtimecmp_l' = sum % W ELSE mtimecmp_h' = (sum \div W) % W
    BY <1>1 DEF Store1, Store, half
  <2>2. sum' = sum
    BY <2>1 DEF sum
  <2> QED
    BY <1>0, <2>1, <2>2 DEF HalfStored, BothStored, NotEarly
<1>2. CASE Store2
  <2>1. pc = "store2" /\ pc' = "hook" /\ deadline' = deadline /\ torn' = torn
    BY <1>2 DEF Store2, Store, history
  <2>2. mtimecmp_l' = sum % W /\ mtimecmp_h' = (sum \div W) % W
    BY <1>2, <2>1 DEF Store2, Store, half, HalfStored, Typed
  <2> SUFFICES ASSUME ~torn PROVE BothStored'
    BY <2>1 DEF HalfStored, BothStored, NotEarly
  <2>3. Cmp' = sum /\ sum \in deadline .. Time + Interval
    BY <2>1, <2>2, SumSplits DEF Cmp
  <2>4. sum \in deadline .. Time' + Interval
    BY <1>0, <2>3, CycleLater, Zenon DEF Typed
  <2> QED
    BY <2>1, <2>3, <2>4 DEF BothStored
<1>3. CASE Hook \/ Mret \/ Toggle \/ (Wait /\ pc \in {"hook", "mret", "main"})
  <2>1. /\ pc \in {"hook", "mret", "main"} /\ pc' \in {"hook", "mret", "main"}
        /\ UNCHANGED cmp /\ deadline' = deadline
    BY <1>3 DEF Hook, Mret, Toggle, Wait, history
  <2>2. ~torn' => ~torn
    BY <1>3, Zenon DEF Hook, Mret, Toggle, Wait, history
  <2>3. pc' \in {"mret", "main"} /\ mip' # {} => Time >= Cmp
    BY <1>0, MtipCompares
  <2> SUFFICES ASSUME ~torn' PROVE BothStored' /\ NotEarly'
    BY <2>1 DEF HalfStored, BothStored, NotEarly
  <2>4. Cmp' = Cmp /\ Cmp \in deadline .. Time + Interval
    BY <2>1, <2>2, Zenon DEF BothStored, Cmp, cmp
  <2>5. Cmp \in deadline .. Time' + Interval /\ (Time >= Cmp => Time' >= deadline)
    BY <1>0, <2>4, CycleLater, Zenon DEF Typed
  <2> QED
    BY <2>1, <2>3, <2>4, <2>5, Zenon DEF BothStored, NotEarly
<1>4. CASE Wait /\ pc = "store2"
  <2>1. pc' = "store2" /\ UNCHANGED cmp /\ sum' = sum
    BY <1>4 DEF Wait, sum
  <2> QED
    BY <1>0, <2>1, <1>4 DEF HalfStored, BothStored, NotEarly, cmp
<1>5. CASE Trap \/ Load1 \/ Load2 \/ (Wait /\ pc \in {"load1", "load2", "store1"})
  <2>1. pc' \in {"load1", "load2", "store1"}
    BY <1>5 DEF Trap, Load1, Load2, Wait
  <2> QED
    BY <2>1 DEF HalfStored, BothStored, NotEarly
<1> QED
  BY <1>1, <1>2, <1>3, <1>4, <1>5 DEF Next, Handler, Typed

(* Every cycle keeps the invariant. *)
THEOREM StepInv == IInv /\ [Next]_vars => IInv'
<1> SUFFICES ASSUME IInv, [Next]_vars PROVE IInv'
  OBVIOUS
<1>1. CASE Next
  BY <1>1, TypedStep, LoadedStep, StoredStep DEF IInv
<1>2. CASE UNCHANGED vars
  BY <1>2 DEF vars, timer, cmp, IInv, Typed, Masked, HalfLoaded, BothLoaded, HalfStored,
              BothStored, NotEarly, Time, Cmp, Wide, sum
<1> QED
  BY <1>1, <1>2

(* So it holds in every state of the timer and its handler. *)
THEOREM Invariant == Spec => []IInv
<1> QED
  BY InitInv, StepInv, PTL DEF Spec

-----------------------------------------------------------------------------
(* The deadline a handler leaves behind is Interval after a time that the  *)
(* timer had while it was being read, whatever the order of the halves.    *)
THEOREM DeadlinesExact == Spec => []DeadlineExact
<1>1. IInv => DeadlineExact
  BY DEF IInv, BothStored, DeadlineExact
<1> QED
  BY <1>1, Invariant, PTL

(* The two words of mtime and of mtimecmp act as one number each.          *)
THEOREM WordsAreOne == Spec => TwoWordsAreOne
<1>1. ASSUME IInv, Next
      PROVE  Time' - Time \in {0, 1} /\ (Timer \in mip' <=> Time >= Cmp)
  <2>1. Clock /\ Typed
    BY <1>1 DEF Next, IInv
  <2>2. Time \in Nat /\ Time' \in {Time, Time + 1}
    BY <2>1, ClockCounts
  <2>3. \A t \in Nat : \A u \in {t, t + 1} : u - t \in {0, 1}
    OBVIOUS
  <2>4. Time' - Time \in {0, 1}
    BY <2>2, <2>3, Zenon
  <2> QED
    BY <2>1, <2>4, MtipCompares
<1>2. IInv /\ [Next]_vars =>
        [/\ Time' - Time \in {0, 1}
         /\ (Timer \in mip') <=> Time >= Cmp]_vars
  BY <1>1
<1> QED
  BY <1>2, Invariant, PTL DEF Spec, TwoWordsAreOne

(* No mixture of two deadlines ticks: the handler starts again only when   *)
(* the time it asked for has come.                                         *)
THEOREM NoEarlyTick == Spec => TickNotEarly
<1>1. ASSUME IInv, Next, pc' = "load1", pc # "load1"
      PROVE  Time >= deadline \/ torn
  <2>1. Trap
    BY <1>1 DEF Next, Handler, Toggle, Load1, Load2, Store1, Store2, Hook, Mret, Wait
  <2>2. pc = "main" /\ mip # {}
    BY <1>1, <2>1, TakenFromMain DEF Trap, IInv
  <2> QED
    BY <1>1, <2>2 DEF IInv, NotEarly, Typed
<1>2. IInv /\ [Next]_vars =>
        [pc' = "load1" /\ pc # "load1" => Time >= deadline \/ torn]_vars
  BY <1>1
<1> QED
  BY <1>2, Invariant, PTL DEF Spec, TickNotEarly

-----------------------------------------------------------------------------
(* The rest of the types: the CSRs hold words whatever the program, a trap *)
(* and mret write to them, and a deadline lies at most an interval beyond  *)
(* the end of the clock.                                                   *)
RestTyped == /\ divider \in 0 .. Divider - 1
             /\ csr \in CSRs /\ mip \subseteq {Timer}
             /\ deadline <= MaxTime + Interval

LEMMA RestInit == Init => RestTyped
<1> SUFFICES ASSUME Init PROVE RestTyped
  OBVIOUS
<1>1. divider \in 0 .. Divider - 1 /\ deadline <= MaxTime + Interval
  BY TimerAssumption, SMT DEF Init
<1>2. 2^Timer \in Word /\ 2^MIE \in Word
  BY CsrBits, Zenon DEF Timer, MIE
<1>3. "mie" \in CSR_RW /\ "mstatus" \in CSR_RW
  BY DEF CSR_RW
<1>4. csr = [csrInit EXCEPT !["mie"] = 2^Timer, !["mstatus"] = 2^MIE]
  BY Zenon DEF Init
<1>5. csr \in CSRs
  BY <1>2, <1>3, <1>4, InitTyped, Zenon DEF CSRs
<1> QED
  BY <1>1, <1>5, Zenon DEF Init, RestTyped

LEMMA RestStep == IInv /\ RestTyped /\ [Next]_vars => RestTyped'
<1> SUFFICES ASSUME IInv, RestTyped, [Next]_vars PROVE RestTyped'
  OBVIOUS
<1>1. CASE UNCHANGED vars
  BY <1>1, Zenon DEF vars, timer, RestTyped
<1>2. CASE Next
  <2>1. Clock
    BY <1>2, Zenon DEF Next
  <2>2. divider' \in 0 .. Divider - 1
    BY <2>1, TimerAssumption, SMT DEF Clock, RestTyped
  <2>3. mip' \subseteq {Timer} /\ mip \in SUBSET Causes
    BY <2>1, Zenon DEF Clock, RestTyped, Causes
  <2>4. csr' \in CSRs
    <3>1. CASE Trap
      <4>1. 0 \in Word
        BY CsrBits, Zenon
      <4>2. csr' = do_trap(csr, mip, 0)
        BY <3>1, Zenon DEF Trap
      <4> QED
        BY <4>1, <4>2, TrapTyped, Zenon DEF RestTyped
    <3>2. CASE Toggle
      <4>1. PICK csr_op \in {"csrrs", "csrrc"} :
              csr' = writeback(csr, csr_val(csr, mip, 772, 0), 2^Timer, 772, csr_op, 1)
        BY <3>2, Zenon DEF Toggle
      <4>2. csr_val(csr, mip, 772, 0) = 0 /\ 0 \in Word /\ 2^Timer \in Word
        BY CsrBits, Zenon DEF csr_val, Timer
      <4>3. csr \in CSRs /\ csr' = writeback(csr, 0, 2^Timer, 772, csr_op, 1)
        BY <4>1, <4>2, Zenon DEF RestTyped
      <4>4. writeback(csr, 0, 2^Timer, 772, csr_op, 1) \in CSRs
        BY <4>2, <4>3, CsrWritten
      <4> QED
        BY <4>3, <4>4, Zenon
    <3>3. CASE Mret
      BY <3>3, MretTyped, Zenon DEF Mret, RestTyped
    <3>4. CASE Load1 \/ Load2 \/ Store1 \/ Store2 \/ Hook \/ Wait
      BY <3>4, Zenon DEF Load1, Load2, Load, Store1, Store2, Store, Hook, Wait, RestTyped
    <3> QED
      BY <1>2, <3>1, <3>2, <3>3, <3>4, Zenon DEF Next, Handler
  <2>5. deadline' <= MaxTime + Interval
    <3>1. CASE Load1
      <4>1. Time \in Nat /\ Time <= MaxTime
        BY <2>1, ClockCounts, Zenon DEF IInv, Typed
      <4> QED
        BY <3>1, <4>1, TimerAssumption, SMT DEF Load1
    <3>2. CASE ~Load1
      <4>1. deadline' = deadline
        BY <1>2, <3>2, Zenon DEF Next, Handler, Trap, Toggle, Load2, Store1, Store2, Store, Hook,
                                 Mret, Wait, history
      <4> QED
        BY <4>1, Zenon DEF RestTyped
    <3> QED
      BY <3>1, <3>2
  <2> QED
    BY <2>2, <2>3, <2>4, <2>5, Zenon DEF RestTyped
<1> QED
  BY <1>1, <1>2

(* Every register of the timer, of the CSRs and of the handler keeps its   *)
(* width; the state of the model is finite.                                *)
THEOREM TypeCorrect == Spec => []TypeOK
<1>1. Init => IInv /\ RestTyped
  BY InitInv, RestInit
<1>2. (IInv /\ RestTyped) /\ [Next]_vars => (IInv /\ RestTyped)'
  BY StepInv, RestStep
<1>3. IInv /\ RestTyped => TypeOK
  <2> SUFFICES ASSUME IInv, RestTyped PROVE TypeOK
    OBVIOUS
  <2>1. mtime.l \in 0 .. W - 1 /\ mtime.h \in 0 .. W - 1
    BY DEF IInv, Typed
  <2>2. deadline \in 0 .. MaxTime + Interval
    BY TimerAssumption, SMT DEF IInv, Typed, RestTyped
  <2> QED
    BY <2>1, <2>2, Zenon DEF IInv, Typed, RestTyped, TypeOK, CSRs
<1> QED
  BY <1>1, <1>2, <1>3, PTL DEF Spec
=============================================================================

-------------------------- MODULE UartDriver_proofs --------------------------
(***************************************************************************)
(* The driver, proved for any number of UARTs, any other sources of        *)
(* interrupts, any bytes and every size of the FIFOs and buffers: types    *)
(* and bounds, no access that hangs the core, the count of newlines, and   *)
(* which steps can cost a waiting byte its interrupt.                      *)
(*                                                                         *)
(* The argument is that a critical section and the handler exclude each    *)
(* other (Exclusive) although mstatus is saved and cleared in two steps,   *)
(* that in polling mode the handler has nothing to do with the UARTs       *)
(* (Polling), and that what a section has loaded stays what the buffer is  *)
(* (Loaded).  That the interrupt logic loses no wakeup rests on a second   *)
(* invariant, of the interrupt lines (WInv).  The last part shows that the *)
(* driver implements ByteChannel in both directions.                       *)
(***************************************************************************)
EXTENDS UartDriver, FiniteSetTheorems, SequenceTheorems, WellFoundedInduction, TLAPS

Sections == {"putch", "getch", "consume"}
Masked   == {"load", "store", "check", "take", "send", "leave", "restore"}
Counted  == {"save", "mask"} \cup (Masked \ {"restore"})

(* Which operation is at which point. *)
OpsAt(pc) == CASE pc = "idle" -> {"none"}
               [] pc = "wait" -> {"putch", "getch"}
               [] pc \in {"enter", "save", "mask", "load", "store", "leave", "restore"} -> Sections
               [] pc \in {"check", "take", "send"} -> {"putch"}
               [] pc \in {"poll", "poll_data"} -> {"poll_putch", "poll_getch"}
               [] pc \in {"bss", "busy", "disable", "mask_all", "activate"} -> {"start"}
               [] pc \in {"reset", "enable", "unmask"} -> {"start", "enable"}
               [] OTHER -> {"fini"}

(* A critical section runs with interrupts off and the handler asleep. *)
Exclusive == main.pc \in Masked => ~mstatus.mie /\ isr.pc = "asleep"

(* In polling mode nothing is buffered and no UART interrupts. *)
Polling ==
  /\ main.op \in Sections => io_mode = "buffered"
  /\ main.op \in {"poll_putch", "poll_getch"} => io_mode = "polling"
  /\ main.pc \in {"mask_all", "reset", "activate"} => io_mode = "polling"
  /\ main.op = "enable" /\ main.pc \in {"enable", "unmask"} => io_mode = "buffered"
  /\ io_mode = "polling" => ext_irq_enable \cap UARTs = {}
  /\ isr.pc \in {"tx", "tx_data", "rx", "rx_data"} => io_mode = "buffered"
  /\ io_mode = "polling" \/ main.pc \in {"busy", "disable"} =>
       /\ unconsumed = None
       /\ \A u \in UARTs : ub_tx[u] = << >>

Loaded ==
  /\ main.pc = "store" => main.loaded = CASE main.op = "putch"   -> ub_tx[main.u]
                                         [] main.op = "getch"   -> ub_rx[main.u]
                                         [] main.op = "consume" -> num_new_lines[main.u]
  /\ main.pc = "take" => main.loaded = ub_tx[main.u]
  /\ main.pc \in {"check", "take"} => ub_tx[main.u] # << >>
  /\ main.op = "getch" /\ main.pc \in {"enter", "save", "mask", "load", "store"} =>
       ub_rx[main.u] # << >> /\ unconsumed = None
  /\ main.op = "consume" /\ main.pc \notin {"leave", "restore"} => unconsumed = main.u
  /\ main.op = "getch" /\ main.pc = "wait" => unconsumed = None
  /\ main.op = "putch" /\ main.pc \in {"wait", "enter", "save", "mask", "load", "store", "send"}
       => main.ch \in TxBytes
  /\ main.op = "poll_putch" => main.ch \in TxBytes

Room ==
  /\ main.pc = "take" => ~TX_FULL(main.u)
  /\ isr.pc = "tx_data" => ub_tx[isr.u] # << >>
  /\ isr.pc = "rx_data" => ~full(ub_rx[isr.u])

Control ==
  /\ main.op \in OpsAt(main.pc)
  /\ critical_section_depth = IF main.pc \in Counted THEN 1 ELSE 0

(* What TypeOK leaves open: the records are records. *)
Records == /\ main = [op |-> main.op, pc |-> main.pc, u |-> main.u, ch |-> main.ch,
                      loaded |-> main.loaded]
           /\ isr = [pc |-> isr.pc, u |-> isr.u, irq |-> isr.irq]

IInv == /\ Records /\ TypeOK /\ NeverStalls /\ NewLinesCounted
        /\ Exclusive /\ Polling /\ Loaded /\ Room /\ Control
-----------------------------------------------------------------------------
(* Buffers as sequences. *)

LEMMA BufIsSeq ==
  ASSUME NEW B, NEW n \in Nat, NEW s
  PROVE  s \in BufOf(B, n) <=> s \in Seq(B) /\ Len(s) <= n
<1>1. ASSUME s \in BufOf(B, n) PROVE s \in Seq(B) /\ Len(s) <= n
  <2>1. PICK k \in 0 .. n : s \in [1 .. k -> B]
    BY <1>1, Zenon DEF BufOf
  <2>2. s \in Seq(B) /\ Len(s) = k
    BY <2>1, SMT
  <2> QED
    BY <2>2, SMT
<1>2. ASSUME s \in Seq(B), Len(s) <= n PROVE s \in BufOf(B, n)
  <2>1. Len(s) \in 0 .. n /\ s \in [1 .. Len(s) -> B]
    BY <1>2, LenProperties, SMT
  <2> QED
    BY <2>1, Zenon DEF BufOf
<1> QED
  BY <1>1, <1>2, Zenon

LEMMA BufEmpty ==
  ASSUME NEW B, NEW n \in Nat
  PROVE  << >> \in BufOf(B, n) /\ (n # 0 => Len(<< >>) # n)
<1>1. << >> \in Seq(B) /\ Len(<< >>) = 0
  BY SMT
<1>2. Len(<< >>) <= n
  BY <1>1, SMT
<1> QED
  BY <1>1, <1>2, BufIsSeq, Zenon

LEMMA BufAppend ==
  ASSUME NEW B, NEW n \in Nat, NEW s \in BufOf(B, n), Len(s) # n, NEW b \in B
  PROVE  Append(s, b) \in BufOf(B, n) /\ Append(s, b) # << >>
<1>1. s \in Seq(B) /\ Len(s) <= n
  BY BufIsSeq, Zenon
<1>2. Append(s, b) \in Seq(B) /\ Len(Append(s, b)) = Len(s) + 1
  BY <1>1, SMT
<1>3. Len(Append(s, b)) <= n /\ Append(s, b) # << >>
  BY <1>1, <1>2, SMT
<1> QED
  BY <1>2, <1>3, BufIsSeq, Zenon

LEMMA BufTail ==
  ASSUME NEW B, NEW n \in Nat, NEW s \in BufOf(B, n), s # << >>
  PROVE  Tail(s) \in BufOf(B, n) /\ Head(s) \in B /\ Len(Tail(s)) # n
<1>1. s \in Seq(B) /\ Len(s) <= n
  BY BufIsSeq, Zenon
<1>2. Tail(s) \in Seq(B) /\ Head(s) \in B /\ Len(Tail(s)) = Len(s) - 1
  BY <1>1, HeadTailProperties, Zenon
<1>3. Len(s) \in Nat
  BY <1>1, LenProperties, Zenon
<1>4. Len(Tail(s)) <= n /\ Len(Tail(s)) # n
  <2>1. \A l \in Nat : \A k : k = l - 1 /\ l <= n => k <= n /\ k # n
    BY SMT
  <2> QED
    BY <1>1, <1>2, <1>3, <2>1, Zenon
<1> QED
  BY <1>2, <1>4, BufIsSeq, Zenon

-----------------------------------------------------------------------------
(* Newlines in a buffer. *)
Count(s) == Cardinality(newlines(s))

LEMMA CountType ==
  ASSUME NEW B, NEW n \in Nat, NEW s \in BufOf(B, n)
  PROVE  IsFiniteSet(newlines(s)) /\ Count(s) \in 0 .. n
<1>1. s \in Seq(B) /\ Len(s) \in Nat /\ Len(s) <= n
  BY BufIsSeq, LenProperties, Zenon
<1>2. IsFiniteSet(1 .. Len(s)) /\ Cardinality(1 .. Len(s)) = Len(s)
  <2>1. 1 \in Int /\ Len(s) \in Int
    BY <1>1, SMT
  <2>2. /\ IsFiniteSet(1 .. Len(s))
        /\ Cardinality(1 .. Len(s)) = IF 1 > Len(s) THEN 0 ELSE Len(s) - 1 + 1
    BY <2>1, FS_Interval, Zenon
  <2>3. \A l \in Nat : (IF 1 > l THEN 0 ELSE l - 1 + 1) = l
    BY SMT
  <2> QED
    BY <1>1, <2>2, <2>3, Zenon
<1>3. newlines(s) \in SUBSET (1 .. Len(s))
  BY Zenon DEF newlines
<1>4. IsFiniteSet(newlines(s)) /\ Cardinality(newlines(s)) <= Cardinality(1 .. Len(s))
  BY <1>2, <1>3, FS_Subset, Zenon
<1>5. Cardinality(newlines(s)) \in Nat
  BY <1>4, FS_CardinalityType, Zenon
<1> QED
  BY <1>1, <1>2, <1>4, <1>5, SMT DEF Count

LEMMA CountEmpty == Count(<< >>) = 0
<1>1. newlines(<< >>) = {}
  BY SMT DEF newlines
<1> QED
  BY <1>1, FS_EmptySet, Zenon DEF Count

LEMMA CountAppend ==
  ASSUME NEW B, NEW n \in Nat, NEW s \in BufOf(B, n), NEW b \in B
  PROVE  Count(Append(s, b)) = IF b = Newline THEN Count(s) + 1 ELSE Count(s)
<1>1. s \in Seq(B) /\ Len(s) \in Nat
  BY BufIsSeq, LenProperties, Zenon
<1> DEFINE m == Len(s) + 1  t == Append(s, b)
<1>2. /\ Len(t) = m /\ t[m] = b
      /\ \A i \in 1 .. Len(s) : t[i] = s[i]
  BY <1>1, SMT
<1>3. IsFiniteSet(newlines(s)) /\ m \notin newlines(s)
  <2>1. m \notin newlines(s)
    BY <1>1, SMT DEF newlines
  <2> QED
    BY <2>1, CountType, Zenon
<1> HIDE DEF t
<1>4. CASE b = Newline
  <2>1. newlines(t) = newlines(s) \cup {m}
    BY <1>1, <1>2, <1>4, SMT DEF newlines
  <2>2. Cardinality(newlines(t)) = Cardinality(newlines(s)) + 1
    BY <2>1, <1>3, FS_AddElement, Zenon
  <2> QED
    BY <2>2, <1>4, Zenon DEF t, Count
<1>5. CASE b # Newline
  <2>1. newlines(t) = newlines(s)
    BY <1>1, <1>2, <1>5, SMT DEF newlines
  <2> QED
    BY <2>1, <1>5, Zenon DEF t, Count
<1> QED
  BY <1>4, <1>5, Zenon

(* The newlines of the rest of a buffer are those of the buffer, one index *)
(* lower, but for the one at its head.                                     *)
LEMMA CountTail ==
  ASSUME NEW B, NEW n \in Nat, NEW s \in BufOf(B, n), s # << >>
  PROVE  Count(s) = IF Head(s) = Newline THEN Count(Tail(s)) + 1 ELSE Count(Tail(s))
<1>1. s \in Seq(B) /\ Len(s) \in Nat
  BY BufIsSeq, LenProperties, Zenon
<1> DEFINE t == Tail(s)
           shifted == {k \in 2 .. Len(s) : s[k] = Newline}
           f == [k \in newlines(t) |-> k + 1]
<1>2. /\ Len(t) = Len(s) - 1 /\ Head(s) = s[1] /\ Len(s) >= 1
      /\ \A i \in 1 .. Len(t) : t[i] = s[i + 1]
  <2>1. /\ Len(t) = Len(s) - 1
        /\ \A i \in 1 .. Len(t) : t[i] = s[i + 1]
    BY <1>1, HeadTailProperties, Zenon
  <2>2. Head(s) = s[1] /\ Len(s) >= 1
    BY <1>1, EmptySeq, SMT
  <2> QED
    BY <2>1, <2>2, Zenon
<1> HIDE DEF t
<1>3. f \in Bijection(newlines(t), shifted)
  <2>1. \A k \in newlines(t) : k \in Int /\ k + 1 \in shifted
    BY <1>1, <1>2, SMT DEF newlines
  <2>2. \A k \in shifted : k \in Int /\ k - 1 \in newlines(t) /\ (k - 1) + 1 = k
    BY <1>1, <1>2, SMT DEF newlines
  <2> HIDE DEF shifted
  <2>3. f \in [newlines(t) -> shifted]
    BY <2>1, Zenon
  <2>4. \A k \in newlines(t), j \in newlines(t) : f[k] = f[j] => k = j
    BY <2>1, SMT
  <2>5. \A k \in shifted : \E j \in newlines(t) : f[j] = k
    BY <2>2, SMT
  <2> HIDE DEF f
  <2> QED
    BY <2>3, <2>4, <2>5, Zenon DEF Bijection, Injection, Surjection, IsInjective
<1>4. IsFiniteSet(newlines(t))
  BY CountType, BufTail, Zenon DEF t
<1>5. IsFiniteSet(shifted) /\ Cardinality(shifted) = Cardinality(newlines(t))
  BY <1>3, <1>4, FS_Bijection, Zenon DEF ExistsBijection
<1>6. CASE Head(s) = Newline
  <2>1. newlines(s) = shifted \cup {1} /\ 1 \notin shifted
    BY <1>1, <1>2, <1>6, SMT DEF newlines
  <2>2. Cardinality(newlines(s)) = Cardinality(shifted) + 1
    BY <2>1, <1>5, FS_AddElement, Zenon
  <2> QED
    BY <2>2, <1>5, <1>6, Zenon DEF t, Count
<1>7. CASE Head(s) # Newline
  <2>1. newlines(s) = shifted
    BY <1>1, <1>2, <1>7, SMT DEF newlines
  <2> QED
    BY <2>1, <1>5, <1>7, Zenon DEF t, Count
<1> QED
  BY <1>6, <1>7, Zenon

-----------------------------------------------------------------------------
(* The UARTs. *)

LEMMA UARTType == 0 \in UARTs /\ \A i \in UARTs : i \in Nat
  BY DriverAssumption, SMT DEF UARTs

LEMMA ButtonsApart == Buttons \cap UARTs = {}
  BY DriverAssumption, UARTType, SMT

(* A set of UARTs has a lowest one. *)
LEMMA Lowest ==
  ASSUME NEW L \in SUBSET UARTs, L # {}
  PROVE  \E u \in L : \A v \in L : u <= v
<1>1. L \in SUBSET Nat
  BY UARTType, Zenon
<1>2. PICK u \in L : \A v \in L : ~(<<v, u>> \in OpToRel(<, Nat))
  BY <1>1, NatLessThanWellFounded, WFMin, Zenon
<1>3. \A v \in L : u <= v
  <2> SUFFICES ASSUME NEW v \in L PROVE u <= v
    OBVIOUS
  <2>1. v \in Nat /\ u \in Nat
    BY <1>1, Zenon
  <2>2. v < u => <<v, u>> \in OpToRel(<, Nat)
    BY <2>1, SMT DEF OpToRel
  <2>3. ~(v < u)
    BY <1>2, <2>2, Zenon
  <2> QED
    BY <2>1, <2>3, SMT
<1> QED
  BY <1>3, Zenon

(* The handler goes to a UART whose bit it has read, or to clear. *)
LEMMA Service ==
  ASSUME NEW bits, NEW i \in Int
  PROVE  \E u \in UARTs, pc \in {"clear", "tx"} :
           /\ service(bits, i) = [pc |-> pc, u |-> u, irq |-> bits]
           /\ pc = "tx" => u \in bits
<1> DEFINE left == {u \in UARTs : u >= i /\ u \in bits}
           low == CHOOSE u \in left : \A v \in left : u <= v
<1>1. CASE left = {}
  <2>1. service(bits, i) = [pc |-> "clear", u |-> 0, irq |-> bits]
    BY <1>1, Zenon DEF service
  <2> QED
    BY <2>1, UARTType, Zenon
<1>2. CASE left # {}
  <2>1. service(bits, i) = [pc |-> "tx", u |-> low, irq |-> bits]
    BY <1>2, Zenon DEF service
  <2>2. left \in SUBSET UARTs /\ \A u \in left : u \in bits
    BY Zenon
  <2> HIDE DEF left
  <2>3. low \in left
    BY <1>2, <2>2, Lowest, Zenon
  <2> HIDE DEF low
  <2> QED
    BY <2>1, <2>2, <2>3, Zenon
<1> QED
  BY <1>1, <1>2, Zenon

(* What the record of the main program becomes. *)
MainAt(pc, u, ch, loaded) ==
  [op |-> main.op, pc |-> pc, u |-> u, ch |-> ch, loaded |-> loaded]

LEMMA MainUpdates ==
  ASSUME Records, NEW p, NEW x, NEW y
  PROVE  /\ [main EXCEPT !.u = x, !.pc = p] = MainAt(p, x, main.ch, main.loaded)
         /\ [main EXCEPT !.u = x] = MainAt(main.pc, x, main.ch, main.loaded)
         /\ [main EXCEPT !.pc = p] = MainAt(p, main.u, main.ch, main.loaded)
         /\ [main EXCEPT !.pc = p, !.ch = x] = MainAt(p, main.u, x, main.loaded)
         /\ [main EXCEPT !.pc = p, !.loaded = x] = MainAt(p, main.u, main.ch, x)
         /\ [main EXCEPT !.pc = p, !.ch = x, !.loaded = y] = MainAt(p, main.u, x, y)
         /\ [main EXCEPT !.pc = p, !.loaded = y, !.ch = x] = MainAt(p, main.u, x, y)
<1> DEFINE s == [main EXCEPT !.pc = p]
           v == [main EXCEPT !.u = x]
<1>1. s = MainAt(p, main.u, main.ch, main.loaded) /\ v = MainAt(main.pc, x, main.ch, main.loaded)
  BY SMT DEF Records, MainAt
<1>2. /\ [main EXCEPT !.u = x, !.pc = p] = [v EXCEPT !.pc = p]
      /\ [main EXCEPT !.pc = p, !.ch = x] = [s EXCEPT !.ch = x]
      /\ [main EXCEPT !.pc = p, !.loaded = x] = [s EXCEPT !.loaded = x]
      /\ [main EXCEPT !.pc = p, !.ch = x, !.loaded = y]
           = [[s EXCEPT !.ch = x] EXCEPT !.loaded = y]
      /\ [main EXCEPT !.pc = p, !.loaded = y, !.ch = x]
           = [[s EXCEPT !.loaded = y] EXCEPT !.ch = x]
  BY Zenon
<1> HIDE DEF s, v
<1> DEFINE c == [s EXCEPT !.ch = x]
           l == [s EXCEPT !.loaded = y]
<1>3. /\ [v EXCEPT !.pc = p] = MainAt(p, x, main.ch, main.loaded)
      /\ [s EXCEPT !.loaded = x] = MainAt(p, main.u, main.ch, x)
      /\ c = MainAt(p, main.u, x, main.loaded)
      /\ l = MainAt(p, main.u, main.ch, y)
  BY <1>1, SMT DEF MainAt
<1>4. /\ [main EXCEPT !.pc = p, !.ch = x] = c
      /\ [main EXCEPT !.pc = p, !.ch = x, !.loaded = y] = [c EXCEPT !.loaded = y]
      /\ [main EXCEPT !.pc = p, !.loaded = y, !.ch = x] = [l EXCEPT !.ch = x]
  BY <1>2, Zenon
<1> HIDE DEF c, l
<1>5. /\ [c EXCEPT !.loaded = y] = MainAt(p, main.u, x, y)
      /\ [l EXCEPT !.ch = x] = MainAt(p, main.u, x, y)
  BY <1>3, SMT DEF MainAt
<1> QED
  BY <1>1, <1>2, <1>3, <1>4, <1>5, Zenon DEF s, v

(* What is done for each UART leads to another one or to the next step. *)
LEMMA EachUART ==
  ASSUME Records, main.u \in UARTs, NEW next, eachUART(next)
  PROVE  \E u \in UARTs, pc \in {main.pc, next} : main' = MainAt(pc, u, main.ch, main.loaded)
<1>1. CASE main.u + 1 \in UARTs
  <2>1. main' = [main EXCEPT !.u = main.u + 1]
    BY <1>1, Zenon DEF eachUART
  <2>2. main' = MainAt(main.pc, main.u + 1, main.ch, main.loaded)
    BY <2>1, MainUpdates, Zenon
  <2> QED
    BY <1>1, <2>2, Zenon
<1>2. CASE main.u + 1 \notin UARTs
  <2>1. main' = [main EXCEPT !.u = 0, !.pc = next]
    BY <1>2, Zenon DEF eachUART
  <2>2. main' = MainAt(next, 0, main.ch, main.loaded)
    BY <2>1, MainUpdates, Zenon
  <2> QED
    BY <2>2, UARTType, Zenon
<1> QED
  BY <1>1, <1>2, Zenon

LEMMA SizeType == MAX_IO_BUF_SIZE \in Nat /\ MAX_UART_BUF_SIZE \in Nat /\ MAX_UART_BUF_SIZE # 0
  BY DriverAssumption, SMT

(* Cleared buffers are of the right type. *)
LEMMA Cleared ==
  ASSUME clear_bufs
  PROVE  /\ ub_rx' \in [UARTs -> BufOf(RxBytes, MAX_UART_BUF_SIZE)]
         /\ ub_tx' \in [UARTs -> BufOf(TxBytes, MAX_UART_BUF_SIZE)]
         /\ num_new_lines' \in [UARTs -> 0 .. MAX_UART_BUF_SIZE + 1]
         /\ terminate_code' \in [UARTs -> BOOLEAN]
<1>1. /\ << >> \in BufOf(RxBytes, MAX_UART_BUF_SIZE)
      /\ << >> \in BufOf(TxBytes, MAX_UART_BUF_SIZE)
  BY SizeType, BufEmpty, Zenon
<1>2. 0 \in 0 .. MAX_UART_BUF_SIZE + 1
  BY SizeType, SMT
<1> QED
  BY <1>1, <1>2, Zenon DEF clear_bufs

-----------------------------------------------------------------------------
(* Every action preserves the invariant: one lemma per action, with one    *)
(* step per part of the invariant.  Where an action stores a sequence, its *)
(* first step says what kind of sequence, and the others use only that.    *)
USE DEF MainAt, Step, At, Goto, begin, InISR, hw, ports, lines, config, bufs, crit, mstatusBits

LEMMA CallStep ==
  ASSUME IInv, Step(Call)
  PROVE  IInv'
<1>1. Records'
  BY SMT DEF IInv, Records, Call
<1>2. TypeOK'
  BY UARTType, SMT DEF IInv, Records, TypeOK, Call
<1>3. NeverStalls'
  BY SMT DEF IInv, Records, NeverStalls, TX_FULL, RX_EMPTY, Call
<1>4. NewLinesCounted'
  BY SMT DEF IInv, Records, NewLinesCounted, Call
<1>5. Exclusive'
  BY SMT DEF IInv, Records, Exclusive, Masked, Call
<1>6. Polling'
  BY SMT DEF IInv, Records, Polling, Sections, Call, TypeOK
<1>7. Loaded'
  BY SMT DEF IInv, Records, Loaded, Call
<1>8. Room'
  BY SMT DEF IInv, Records, Room, TX_FULL, full, Call
<1>9. Control'
  BY SMT DEF IInv, Records, Control, OpsAt, Sections, Masked, Counted, Call
<1> QED
  BY <1>1, <1>2, <1>3, <1>4, <1>5, <1>6, <1>7, <1>8, <1>9, Zenon DEF IInv

LEMMA PollTestStep ==
  ASSUME IInv, Step(PollTest)
  PROVE  IInv'
<1>1. Records'
  BY SMT DEF IInv, Records, PollTest
<1>2. TypeOK'
  BY UARTType, SMT DEF IInv, Records, TypeOK, PollTest
<1>3. NeverStalls'
  BY SMT DEF IInv, Records, NeverStalls, TX_FULL, RX_EMPTY, PollTest
<1>4. NewLinesCounted'
  BY SMT DEF IInv, Records, NewLinesCounted, PollTest
<1>5. Exclusive'
  BY SMT DEF IInv, Records, Exclusive, Masked, PollTest
<1>6. Polling'
  BY SMT DEF IInv, Records, Polling, Sections, PollTest
<1>7. Loaded'
  BY SMT DEF IInv, Records, Loaded, PollTest
<1>8. Room'
  BY SMT DEF IInv, Records, Room, TX_FULL, full, PollTest
<1>9. Control'
  BY SMT DEF IInv, Records, Control, OpsAt, Sections, Masked, Counted, PollTest
<1> QED
  BY <1>1, <1>2, <1>3, <1>4, <1>5, <1>6, <1>7, <1>8, <1>9, Zenon DEF IInv

LEMMA WaitStep ==
  ASSUME IInv, Step(Wait)
  PROVE  IInv'
<1>1. Records'
  BY SMT DEF IInv, Records, Wait
<1>2. TypeOK'
  BY UARTType, SMT DEF IInv, Records, TypeOK, Wait
<1>3. NeverStalls'
  BY SMT DEF IInv, Records, NeverStalls, TX_FULL, RX_EMPTY, Wait
<1>4. NewLinesCounted'
  BY SMT DEF IInv, Records, NewLinesCounted, Wait
<1>5. Exclusive'
  BY SMT DEF IInv, Records, Exclusive, Masked, Wait
<1>6. Polling'
  BY SMT DEF IInv, Records, Polling, Sections, Wait
<1>7. Loaded'
  BY SMT DEF IInv, Records, Loaded, Wait
<1>8. Room'
  BY SMT DEF IInv, Records, Room, TX_FULL, full, Wait
<1>9. Control'
  BY SMT DEF IInv, Records, Control, OpsAt, Sections, Masked, Counted, Wait
<1> QED
  BY <1>1, <1>2, <1>3, <1>4, <1>5, <1>6, <1>7, <1>8, <1>9, Zenon DEF IInv

LEMMA EnterStep ==
  ASSUME IInv, Step(Enter)
  PROVE  IInv'
<1>1. Records'
  BY SMT DEF IInv, Records, Enter
<1>2. TypeOK'
  BY UARTType, SMT DEF IInv, Records, TypeOK, Enter, Control, Counted, Masked
<1>3. NeverStalls'
  BY SMT DEF IInv, Records, NeverStalls, TX_FULL, RX_EMPTY, Enter
<1>4. NewLinesCounted'
  BY SMT DEF IInv, Records, NewLinesCounted, Enter
<1>5. Exclusive'
  BY SMT DEF IInv, Records, Exclusive, TypeOK, Masked, Control, OpsAt, Counted, Enter
<1>6. Polling'
  BY SMT DEF IInv, Records, Polling, Sections, Enter
<1>7. Loaded'
  BY SMT DEF IInv, Records, Loaded, Enter
<1>8. Room'
  BY SMT DEF IInv, Records, Room, TX_FULL, full, Enter
<1>9. Control'
  BY SMT DEF IInv, Records, Control, OpsAt, Sections, Masked, Counted, Enter
<1> QED
  BY <1>1, <1>2, <1>3, <1>4, <1>5, <1>6, <1>7, <1>8, <1>9, Zenon DEF IInv

LEMMA SaveStep ==
  ASSUME IInv, Step(Save)
  PROVE  IInv'
<1>1. Records'
  BY SMT DEF IInv, Records, Save
<1>2. TypeOK'
  BY UARTType, SMT DEF IInv, Records, TypeOK, Save
<1>3. NeverStalls'
  BY SMT DEF IInv, Records, NeverStalls, TX_FULL, RX_EMPTY, Save
<1>4. NewLinesCounted'
  BY SMT DEF IInv, Records, NewLinesCounted, Save
<1>5. Exclusive'
  BY SMT DEF IInv, Records, Exclusive, Masked, Save
<1>6. Polling'
  BY SMT DEF IInv, Records, Polling, Sections, Save
<1>7. Loaded'
  BY SMT DEF IInv, Records, Loaded, Save
<1>8. Room'
  BY SMT DEF IInv, Records, Room, TX_FULL, full, Save
<1>9. Control'
  BY SMT DEF IInv, Records, Control, OpsAt, Sections, Masked, Counted, Save
<1> QED
  BY <1>1, <1>2, <1>3, <1>4, <1>5, <1>6, <1>7, <1>8, <1>9, Zenon DEF IInv

LEMMA MaskStep ==
  ASSUME IInv, Step(Mask)
  PROVE  IInv'
<1>1. Records'
  BY SMT DEF IInv, Records, Mask, Off
<1>2. TypeOK'
  BY UARTType, SMT DEF IInv, Records, TypeOK, Mask, Off
<1>3. NeverStalls'
  BY SMT DEF IInv, Records, NeverStalls, TX_FULL, RX_EMPTY, Mask, Off
<1>4. NewLinesCounted'
  BY SMT DEF IInv, Records, NewLinesCounted, Mask, Off
<1>5. Exclusive'
  BY SMT DEF IInv, Records, Exclusive, Masked, Mask, Off
<1>6. Polling'
  BY SMT DEF IInv, Records, Polling, Sections, Mask, Off
<1>7. Loaded'
  BY SMT DEF IInv, Records, Loaded, Mask, Off
<1>8. Room'
  BY SMT DEF IInv, Records, Room, TX_FULL, full, Mask, Off
<1>9. Control'
  BY SMT DEF IInv, Records, Control, OpsAt, Sections, Masked, Counted, Mask, Off
<1> QED
  BY <1>1, <1>2, <1>3, <1>4, <1>5, <1>6, <1>7, <1>8, <1>9, Zenon DEF IInv

LEMMA LoadStep ==
  ASSUME IInv, Step(Load)
  PROVE  IInv'
<1>1. Records'
  <2>0. PICK l : main' = [main EXCEPT !.pc = "store", !.loaded = l]
    BY Zenon DEF Load
  <2>1. main' = MainAt("store", main.u, main.ch, l)
    BY <2>0, MainUpdates, Zenon DEF IInv
  <2>2. isr' = isr
    BY Zenon DEF Load
  <2> QED
    BY <2>1, <2>2, SMT DEF IInv, Records
<1>2. TypeOK'
  BY UARTType, SMT DEF IInv, Records, TypeOK, Load
<1>3. NeverStalls'
  BY SMT DEF IInv, Records, NeverStalls, TX_FULL, RX_EMPTY, Load
<1>4. NewLinesCounted'
  BY SMT DEF IInv, Records, NewLinesCounted, Load
<1>5. Exclusive'
  BY SMT DEF IInv, Records, Exclusive, Masked, Load
<1>6. Polling'
  BY SMT DEF IInv, Records, Polling, Sections, Load
<1>7. Loaded'
  BY SMT DEF IInv, Records, Loaded, Control, OpsAt, Sections, Load
<1>8. Room'
  BY SMT DEF IInv, Records, Room, TX_FULL, full, Load
<1>9. Control'
  BY SMT DEF IInv, Records, Control, OpsAt, Sections, Masked, Counted, Load
<1> QED
  BY <1>1, <1>2, <1>3, <1>4, <1>5, <1>6, <1>7, <1>8, <1>9, Zenon DEF IInv

LEMMA PutchCheckStep ==
  ASSUME IInv, Step(PutchCheck)
  PROVE  IInv'
<1>a. /\ isr.pc = "asleep" /\ main.pc = "check" /\ stepped' = TRUE
      /\ \/ main' = MainAt("leave", main.u, main.ch, main.loaded)
         \/ ~TX_FULL(main.u) /\ main' = MainAt("take", main.u, main.ch, ub_tx[main.u])
      /\ UNCHANGED <<hw, bufs, crit, mstatus, unconsumed, isr>>
  <2>0. Records
    BY Zenon DEF IInv
  <2> QED
    BY <2>0, MainUpdates, Zenon DEF PutchCheck
<1>1. Records'
  BY <1>a, SMT DEF IInv, Records
<1>2. TypeOK'
  BY UARTType, <1>a, SMT DEF IInv, Records, TypeOK
<1>3. NeverStalls'
  BY <1>a, SMT DEF IInv, Records, NeverStalls, TX_FULL, RX_EMPTY
<1>4. NewLinesCounted'
  BY <1>a, SMT DEF IInv, Records, NewLinesCounted
<1>5. Exclusive'
  BY <1>a, SMT DEF IInv, Records, Exclusive, Masked
<1>6. Polling'
  BY <1>a, SMT DEF IInv, Records, Polling, Sections
<1>7. Loaded'
  BY <1>a, SMT DEF IInv, Records, Loaded
<1>8. Room'
  BY <1>a, SMT DEF IInv, Records, Room, TX_FULL, full
<1>9. Control'
  BY <1>a, SMT DEF IInv, Records, Control, OpsAt, Sections, Masked, Counted
<1> QED
  BY <1>1, <1>2, <1>3, <1>4, <1>5, <1>6, <1>7, <1>8, <1>9, Zenon DEF IInv

LEMMA LeaveStep ==
  ASSUME IInv, Step(Leave)
  PROVE  IInv'
<1>1. Records'
  BY SMT DEF IInv, Records, Leave, Idle
<1>2. TypeOK'
  BY UARTType, SMT DEF IInv, Records, TypeOK, Leave, Idle, Control, Counted, Masked
<1>3. NeverStalls'
  BY SMT DEF IInv, Records, NeverStalls, TX_FULL, RX_EMPTY, Leave, Idle
<1>4. NewLinesCounted'
  BY SMT DEF IInv, Records, NewLinesCounted, Leave, Idle
<1>5. Exclusive'
  BY SMT DEF IInv, Records, Exclusive, Masked, Leave, Idle
<1>6. Polling'
  BY SMT DEF IInv, Records, Polling, Sections, Leave, Idle
<1>7. Loaded'
  BY SMT DEF IInv, Records, Loaded, Leave, Idle
<1>8. Room'
  BY SMT DEF IInv, Records, Room, TX_FULL, full, Leave, Idle
<1>9. Control'
  BY SMT DEF IInv, Records, Control, OpsAt, Sections, Masked, Counted, Leave, Idle
<1> QED
  BY <1>1, <1>2, <1>3, <1>4, <1>5, <1>6, <1>7, <1>8, <1>9, Zenon DEF IInv

LEMMA RestoreStep ==
  ASSUME IInv, Step(Restore)
  PROVE  IInv'
<1>1. Records'
  BY SMT DEF IInv, Records, Restore, Idle
<1>2. TypeOK'
  BY UARTType, SMT DEF IInv, Records, TypeOK, Restore, Idle
<1>3. NeverStalls'
  BY SMT DEF IInv, Records, NeverStalls, TX_FULL, RX_EMPTY, Restore, Idle
<1>4. NewLinesCounted'
  BY SMT DEF IInv, Records, NewLinesCounted, Restore, Idle
<1>5. Exclusive'
  BY SMT DEF IInv, Records, Exclusive, Masked, Restore, Idle
<1>6. Polling'
  BY SMT DEF IInv, Records, Polling, Sections, Restore, Idle
<1>7. Loaded'
  BY SMT DEF IInv, Records, Loaded, Restore, Idle
<1>8. Room'
  BY SMT DEF IInv, Records, Room, TX_FULL, full, Restore, Idle
<1>9. Control'
  BY SMT DEF IInv, Records, Control, OpsAt, Sections, Masked, Counted, Restore, Idle
<1> QED
  BY <1>1, <1>2, <1>3, <1>4, <1>5, <1>6, <1>7, <1>8, <1>9, Zenon DEF IInv

LEMMA BusyStep ==
  ASSUME IInv, Step(Busy)
  PROVE  IInv'
<1>a. PICK u \in UARTs, pc \in {"busy", "disable"} :
      /\ isr.pc = "asleep" /\ main.pc = "busy" /\ stepped' = TRUE
      /\ main' = MainAt(pc, u, main.ch, main.loaded)
      /\ UNCHANGED <<hw, bufs, crit, mstatus, unconsumed, isr>>
  <2>1. main.pc = "busy" /\ eachUART("disable") /\ Records /\ main.u \in UARTs
    BY Zenon DEF Busy, IInv, TypeOK
  <2>2. PICK u \in UARTs, pc \in {main.pc, "disable"} : main' = MainAt(pc, u, main.ch, main.loaded)
    BY <2>1, EachUART, Zenon
  <2>3. /\ isr.pc = "asleep" /\ stepped' = TRUE
        /\ UNCHANGED <<hw, bufs, crit, mstatus, unconsumed, isr>>
    BY Zenon DEF Busy
  <2> QED
    BY <2>1, <2>2, <2>3, Zenon
<1>1. Records'
  BY <1>a, SMT DEF IInv, Records
<1>2. TypeOK'
  BY UARTType, <1>a, SMT DEF IInv, Records, TypeOK
<1>3. NeverStalls'
  BY <1>a, SMT DEF IInv, Records, NeverStalls, TX_FULL, RX_EMPTY
<1>4. NewLinesCounted'
  BY <1>a, SMT DEF IInv, Records, NewLinesCounted
<1>5. Exclusive'
  BY <1>a, SMT DEF IInv, Records, Exclusive, Masked
<1>6. Polling'
  BY <1>a, SMT DEF IInv, Records, Polling, Sections
<1>7. Loaded'
  BY <1>a, SMT DEF IInv, Records, Loaded, Control, OpsAt, Sections
<1>8. Room'
  BY <1>a, SMT DEF IInv, Records, Room, TX_FULL, full
<1>9. Control'
  BY <1>a, SMT DEF IInv, Records, Control, OpsAt, Sections, Masked, Counted
<1> QED
  BY <1>1, <1>2, <1>3, <1>4, <1>5, <1>6, <1>7, <1>8, <1>9, Zenon DEF IInv

LEMMA DisableStep ==
  ASSUME IInv, Step(Disable)
  PROVE  IInv'
<1>1. Records'
  BY SMT DEF IInv, Records, Disable
<1>2. TypeOK'
  BY UARTType, SMT DEF IInv, Records, TypeOK, Disable
<1>3. NeverStalls'
  BY SMT DEF IInv, Records, NeverStalls, TX_FULL, RX_EMPTY, Disable
<1>4. NewLinesCounted'
  BY SMT DEF IInv, Records, NewLinesCounted, Disable
<1>5. Exclusive'
  BY SMT DEF IInv, Records, Exclusive, Masked, Disable
<1>6. Polling'
  BY SMT DEF IInv, Records, Polling, Sections, Control, OpsAt, Disable
<1>7. Loaded'
  BY SMT DEF IInv, Records, Loaded, Disable
<1>8. Room'
  BY SMT DEF IInv, Records, Room, TX_FULL, full, Disable
<1>9. Control'
  BY SMT DEF IInv, Records, Control, OpsAt, Sections, Masked, Counted, Disable
<1> QED
  BY <1>1, <1>2, <1>3, <1>4, <1>5, <1>6, <1>7, <1>8, <1>9, Zenon DEF IInv

LEMMA MaskAllStep ==
  ASSUME IInv, Step(MaskAll)
  PROVE  IInv'
<1>1. Records'
  BY SMT DEF IInv, Records, MaskAll, Off
<1>2. TypeOK'
  BY UARTType, SMT DEF IInv, Records, TypeOK, MaskAll, Off
<1>3. NeverStalls'
  BY SMT DEF IInv, Records, NeverStalls, TX_FULL, RX_EMPTY, MaskAll, Off
<1>4. NewLinesCounted'
  BY SMT DEF IInv, Records, NewLinesCounted, MaskAll, Off
<1>5. Exclusive'
  BY SMT DEF IInv, Records, Exclusive, Masked, MaskAll, Off
<1>6. Polling'
  BY SMT DEF IInv, Records, Polling, Sections, MaskAll, Off
<1>7. Loaded'
  BY SMT DEF IInv, Records, Loaded, MaskAll, Off
<1>8. Room'
  BY SMT DEF IInv, Records, Room, TX_FULL, full, MaskAll, Off
<1>9. Control'
  BY SMT DEF IInv, Records, Control, OpsAt, Sections, Masked, Counted, MaskAll, Off
<1> QED
  BY <1>1, <1>2, <1>3, <1>4, <1>5, <1>6, <1>7, <1>8, <1>9, Zenon DEF IInv

LEMMA EnableIrqStep ==
  ASSUME IInv, Step(EnableIrq)
  PROVE  IInv'
<1>1. Records'
  BY ButtonsApart, SMT DEF IInv, Records, EnableIrq
<1>2. TypeOK'
  BY UARTType, ButtonsApart, SMT DEF IInv, Records, TypeOK, EnableIrq, Sources
<1>3. NeverStalls'
  BY ButtonsApart, SMT DEF IInv, Records, NeverStalls, TX_FULL, RX_EMPTY, EnableIrq
<1>4. NewLinesCounted'
  BY ButtonsApart, SMT DEF IInv, Records, NewLinesCounted, EnableIrq
<1>5. Exclusive'
  BY ButtonsApart, SMT DEF IInv, Records, Exclusive, Masked, EnableIrq
<1>6. Polling'
  BY ButtonsApart, SMT DEF IInv, Records, Polling, Sections, Control, OpsAt,
         EnableIrq, TypeOK
<1>7. Loaded'
  BY ButtonsApart, SMT DEF IInv, Records, Loaded, EnableIrq
<1>8. Room'
  BY ButtonsApart, SMT DEF IInv, Records, Room, TX_FULL, full, EnableIrq
<1>9. Control'
  BY ButtonsApart, SMT DEF IInv, Records, Control, OpsAt, Sections, Masked, Counted,
         EnableIrq
<1> QED
  BY <1>1, <1>2, <1>3, <1>4, <1>5, <1>6, <1>7, <1>8, <1>9, Zenon DEF IInv

LEMMA UnmaskStep ==
  ASSUME IInv, Step(Unmask)
  PROVE  IInv'
<1>1. Records'
  BY SMT DEF IInv, Records, Unmask, On, Idle
<1>2. TypeOK'
  BY UARTType, SMT DEF IInv, Records, TypeOK, Unmask, On, Idle
<1>3. NeverStalls'
  BY SMT DEF IInv, Records, NeverStalls, TX_FULL, RX_EMPTY, Unmask, On, Idle
<1>4. NewLinesCounted'
  BY SMT DEF IInv, Records, NewLinesCounted, Unmask, On, Idle
<1>5. Exclusive'
  BY SMT DEF IInv, Records, Exclusive, Masked, Unmask, On, Idle
<1>6. Polling'
  BY SMT DEF IInv, Records, Polling, Sections, Unmask, On, Idle
<1>7. Loaded'
  BY SMT DEF IInv, Records, Loaded, Unmask, On, Idle
<1>8. Room'
  BY SMT DEF IInv, Records, Room, TX_FULL, full, Unmask, On, Idle
<1>9. Control'
  BY SMT DEF IInv, Records, Control, OpsAt, Sections, Masked, Counted, Unmask, On,
         Idle
<1> QED
  BY <1>1, <1>2, <1>3, <1>4, <1>5, <1>6, <1>7, <1>8, <1>9, Zenon DEF IInv

LEMMA CallEnableStep ==
  ASSUME IInv, Step(CallEnable)
  PROVE  IInv'
<1>1. Records'
  BY SMT DEF IInv, Records, CallEnable
<1>2. TypeOK'
  BY UARTType, SMT DEF IInv, Records, TypeOK, CallEnable
<1>3. NeverStalls'
  BY SMT DEF IInv, Records, NeverStalls, TX_FULL, RX_EMPTY, CallEnable
<1>4. NewLinesCounted'
  BY SMT DEF IInv, Records, NewLinesCounted, CallEnable
<1>5. Exclusive'
  BY SMT DEF IInv, Records, Exclusive, Masked, CallEnable
<1>6. Polling'
  BY SMT DEF IInv, Records, Polling, Sections, CallEnable
<1>7. Loaded'
  BY SMT DEF IInv, Records, Loaded, CallEnable
<1>8. Room'
  BY SMT DEF IInv, Records, Room, TX_FULL, full, CallEnable
<1>9. Control'
  BY SMT DEF IInv, Records, Control, OpsAt, Sections, Masked, Counted, CallEnable
<1> QED
  BY <1>1, <1>2, <1>3, <1>4, <1>5, <1>6, <1>7, <1>8, <1>9, Zenon DEF IInv

LEMMA ReturnStep ==
  ASSUME IInv, Step(Return)
  PROVE  IInv'
<1>1. Records'
  BY SMT DEF IInv, Records, Return
<1>2. TypeOK'
  BY UARTType, SMT DEF IInv, Records, TypeOK, Return
<1>3. NeverStalls'
  BY SMT DEF IInv, Records, NeverStalls, TX_FULL, RX_EMPTY, Return
<1>4. NewLinesCounted'
  BY SMT DEF IInv, Records, NewLinesCounted, Return
<1>5. Exclusive'
  BY SMT DEF IInv, Records, Exclusive, Masked, Return
<1>6. Polling'
  BY SMT DEF IInv, Records, Polling, Sections, Return
<1>7. Loaded'
  BY SMT DEF IInv, Records, Loaded, Return
<1>8. Room'
  BY SMT DEF IInv, Records, Room, TX_FULL, full, Return
<1>9. Control'
  BY SMT DEF IInv, Records, Control, OpsAt, Sections, Masked, Counted, Return
<1> QED
  BY <1>1, <1>2, <1>3, <1>4, <1>5, <1>6, <1>7, <1>8, <1>9, Zenon DEF IInv

LEMMA FlushBufStep ==
  ASSUME IInv, Step(FlushBuf)
  PROVE  IInv'
<1>1. Records'
  BY SMT DEF IInv, Records, FlushBuf
<1>2. TypeOK'
  BY UARTType, SMT DEF IInv, Records, TypeOK, FlushBuf
<1>3. NeverStalls'
  BY SMT DEF IInv, Records, NeverStalls, TX_FULL, RX_EMPTY, FlushBuf
<1>4. NewLinesCounted'
  BY SMT DEF IInv, Records, NewLinesCounted, FlushBuf
<1>5. Exclusive'
  BY SMT DEF IInv, Records, Exclusive, Masked, FlushBuf
<1>6. Polling'
  BY SMT DEF IInv, Records, Polling, Sections, FlushBuf
<1>7. Loaded'
  BY SMT DEF IInv, Records, Loaded, FlushBuf
<1>8. Room'
  BY SMT DEF IInv, Records, Room, TX_FULL, full, FlushBuf
<1>9. Control'
  BY SMT DEF IInv, Records, Control, OpsAt, Sections, Masked, Counted, FlushBuf
<1> QED
  BY <1>1, <1>2, <1>3, <1>4, <1>5, <1>6, <1>7, <1>8, <1>9, Zenon DEF IInv

LEMMA FlushFifoStep ==
  ASSUME IInv, Step(FlushFifo)
  PROVE  IInv'
<1>a. PICK u \in UARTs, pc \in {"flush", "wfi"} :
      /\ isr.pc = "asleep" /\ main.pc = "flush_fifo" /\ stepped' = TRUE
      /\ main' = MainAt(pc, u, main.ch, main.loaded)
      /\ UNCHANGED <<hw, bufs, crit, mstatus, unconsumed, isr>>
  <2>0. Records
    BY Zenon DEF IInv
  <2>1. CASE tx_buf[main.u] # << >>
    <3>1. main' = [main EXCEPT !.pc = "flush"] /\ main.u \in UARTs
      BY <2>1, Zenon DEF FlushFifo, IInv, TypeOK
    <3>2. main' = MainAt("flush", main.u, main.ch, main.loaded)
      BY <2>0, <3>1, MainUpdates, Zenon
    <3> QED
      BY <3>1, <3>2, Zenon DEF FlushFifo
  <2>2. CASE tx_buf[main.u] = << >>
    <3>1. \/ main.u + 1 \in UARTs /\ main' = [main EXCEPT !.u = main.u + 1, !.pc = "flush"]
          \/ main' = [main EXCEPT !.u = 0, !.pc = "wfi"]
      BY <2>2, Zenon DEF FlushFifo
    <3>2. PICK u \in UARTs, pc \in {"flush", "wfi"} : main' = MainAt(pc, u, main.ch, main.loaded)
      BY <2>0, <3>1, UARTType, MainUpdates, Zenon
    <3>3. /\ isr.pc = "asleep" /\ main.pc = "flush_fifo" /\ stepped' = TRUE
          /\ UNCHANGED <<hw, bufs, crit, mstatus, unconsumed, isr>>
      BY Zenon DEF FlushFifo
    <3> QED
      BY <3>2, <3>3, Zenon
  <2> QED
    BY <2>1, <2>2, Zenon
<1>1. Records'
  BY <1>a, SMT DEF IInv, Records
<1>2. TypeOK'
  BY UARTType, <1>a, SMT DEF IInv, Records, TypeOK
<1>3. NeverStalls'
  BY <1>a, SMT DEF IInv, Records, NeverStalls, TX_FULL, RX_EMPTY
<1>4. NewLinesCounted'
  BY <1>a, SMT DEF IInv, Records, NewLinesCounted
<1>5. Exclusive'
  BY <1>a, SMT DEF IInv, Records, Exclusive, Masked
<1>6. Polling'
  BY <1>a, SMT DEF IInv, Records, Polling, Sections
<1>7. Loaded'
  BY <1>a, SMT DEF IInv, Records, Loaded, Control, OpsAt, Sections
<1>8. Room'
  BY <1>a, SMT DEF IInv, Records, Room, TX_FULL, full
<1>9. Control'
  BY <1>a, SMT DEF IInv, Records, Control, OpsAt, Sections, Masked, Counted
<1> QED
  BY <1>1, <1>2, <1>3, <1>4, <1>5, <1>6, <1>7, <1>8, <1>9, Zenon DEF IInv

LEMMA WfiStep ==
  ASSUME IInv, Step(Wfi)
  PROVE  IInv'
<1>1. Records'
  BY SMT DEF IInv, Records, Wfi
<1>2. TypeOK'
  BY UARTType, SMT DEF IInv, Records, TypeOK, Wfi
<1>3. NeverStalls'
  BY SMT DEF IInv, Records, NeverStalls, TX_FULL, RX_EMPTY, Wfi
<1>4. NewLinesCounted'
  BY SMT DEF IInv, Records, NewLinesCounted, Wfi
<1>5. Exclusive'
  BY SMT DEF IInv, Records, Exclusive, Masked, Wfi
<1>6. Polling'
  BY SMT DEF IInv, Records, Polling, Sections, Wfi
<1>7. Loaded'
  BY SMT DEF IInv, Records, Loaded, Wfi
<1>8. Room'
  BY SMT DEF IInv, Records, Room, TX_FULL, full, Wfi
<1>9. Control'
  BY SMT DEF IInv, Records, Control, OpsAt, Sections, Masked, Counted, Wfi
<1> QED
  BY <1>1, <1>2, <1>3, <1>4, <1>5, <1>6, <1>7, <1>8, <1>9, Zenon DEF IInv

LEMMA TrapStep ==
  ASSUME IInv, Step(Trap)
  PROVE  IInv'
<1>1. Records'
  BY SMT DEF IInv, Records, Trap, irq
<1>2. TypeOK'
  BY UARTType, SMT DEF IInv, Records, TypeOK, Trap, irq
<1>3. NeverStalls'
  BY SMT DEF IInv, Records, NeverStalls, TX_FULL, RX_EMPTY, Trap, irq
<1>4. NewLinesCounted'
  BY SMT DEF IInv, Records, NewLinesCounted, Trap, irq
<1>5. Exclusive'
  BY SMT DEF IInv, Records, Exclusive, Masked, Trap, irq
<1>6. Polling'
  BY SMT DEF IInv, Records, Polling, Sections, Trap, irq
<1>7. Loaded'
  BY SMT DEF IInv, Records, Loaded, Control, OpsAt, Sections, Trap, irq
<1>8. Room'
  BY SMT DEF IInv, Records, Room, TX_FULL, full, Trap, irq
<1>9. Control'
  BY SMT DEF IInv, Records, Control, OpsAt, Sections, Masked, Counted, Trap, irq
<1> QED
  BY <1>1, <1>2, <1>3, <1>4, <1>5, <1>6, <1>7, <1>8, <1>9, Zenon DEF IInv

LEMMA ReadIrqStep ==
  ASSUME IInv, Step(ReadIrq)
  PROVE  IInv'
<1>a. PICK u \in UARTs, pc \in {"clear", "tx"} :
      /\ isr.pc = "irq_ctrl" /\ stepped' = TRUE
      /\ isr' = [pc |-> pc, u |-> u, irq |-> irq]
      /\ pc = "tx" => u \in irq
      /\ UNCHANGED <<hw, bufs, crit, mstatus, main, unconsumed>>
  BY Service, SMT DEF ReadIrq
<1>1. Records'
  BY <1>a, SMT DEF IInv, Records
<1>2. TypeOK'
  BY UARTType, <1>a, SMT DEF IInv, Records, TypeOK, irq
<1>3. NeverStalls'
  BY <1>a, SMT DEF IInv, Records, NeverStalls, TX_FULL, RX_EMPTY
<1>4. NewLinesCounted'
  BY <1>a, SMT DEF IInv, Records, NewLinesCounted
<1>5. Exclusive'
  BY <1>a, SMT DEF IInv, Records, Exclusive, Masked
<1>6. Polling'
  BY <1>a, SMT DEF IInv, Records, Polling, Sections, TypeOK, irq
<1>7. Loaded'
  BY <1>a, SMT DEF IInv, Records, Loaded, Control, OpsAt, Sections
<1>8. Room'
  BY <1>a, SMT DEF IInv, Records, Room, TX_FULL, full
<1>9. Control'
  BY <1>a, SMT DEF IInv, Records, Control, OpsAt, Sections, Masked, Counted
<1> QED
  BY <1>1, <1>2, <1>3, <1>4, <1>5, <1>6, <1>7, <1>8, <1>9, Zenon DEF IInv

LEMMA IsrTxTestStep ==
  ASSUME IInv, Step(IsrTxTest)
  PROVE  IInv'
<1>1. Records'
  BY SMT DEF IInv, Records, IsrTxTest
<1>2. TypeOK'
  BY UARTType, SMT DEF IInv, Records, TypeOK, IsrTxTest
<1>3. NeverStalls'
  BY SMT DEF IInv, Records, NeverStalls, TX_FULL, RX_EMPTY, IsrTxTest
<1>4. NewLinesCounted'
  BY SMT DEF IInv, Records, NewLinesCounted, IsrTxTest
<1>5. Exclusive'
  BY SMT DEF IInv, Records, Exclusive, Masked, IsrTxTest
<1>6. Polling'
  BY SMT DEF IInv, Records, Polling, Sections, IsrTxTest
<1>7. Loaded'
  BY SMT DEF IInv, Records, Loaded, Control, OpsAt, Sections, IsrTxTest
<1>8. Room'
  BY SMT DEF IInv, Records, Room, TX_FULL, full, IsrTxTest
<1>9. Control'
  BY SMT DEF IInv, Records, Control, OpsAt, Sections, Masked, Counted, IsrTxTest
<1> QED
  BY <1>1, <1>2, <1>3, <1>4, <1>5, <1>6, <1>7, <1>8, <1>9, Zenon DEF IInv

LEMMA IsrRxTestStep ==
  ASSUME IInv, Step(IsrRxTest)
  PROVE  IInv'
<1>a. /\ isr.pc = "rx" /\ stepped' = TRUE
      /\ \/ ~full(ub_rx[isr.u]) /\ ~RX_EMPTY(isr.u) /\ isr' = [isr EXCEPT !.pc = "rx_data"]
         \/ \E u \in UARTs, pc \in {"clear", "tx"} :
              isr' = [pc |-> pc, u |-> u, irq |-> isr.irq]
      /\ UNCHANGED <<hw, bufs, crit, mstatus, main, unconsumed>>
  <2>1. CASE ~full(ub_rx[isr.u]) /\ ~RX_EMPTY(isr.u)
    BY <2>1, Zenon DEF IsrRxTest
  <2>2. CASE ~(~full(ub_rx[isr.u]) /\ ~RX_EMPTY(isr.u))
    <3>1. isr' = service(isr.irq, isr.u + 1)
      BY <2>2, Zenon DEF IsrRxTest
    <3>2. isr.u + 1 \in Int
      BY UARTType, SMT DEF IInv, TypeOK
    <3>3. PICK u \in UARTs, pc \in {"clear", "tx"} :
            isr' = [pc |-> pc, u |-> u, irq |-> isr.irq]
      BY <3>1, <3>2, Service, Zenon
    <3> QED
      BY <3>3, Zenon DEF IsrRxTest
  <2> QED
    BY <2>1, <2>2, Zenon
<1>1. Records'
  BY <1>a, SMT DEF IInv, Records
<1>2. TypeOK'
  BY UARTType, <1>a, SMT DEF IInv, Records, TypeOK
<1>3. NeverStalls'
  BY <1>a, SMT DEF IInv, Records, NeverStalls, TX_FULL, RX_EMPTY
<1>4. NewLinesCounted'
  BY <1>a, SMT DEF IInv, Records, NewLinesCounted
<1>5. Exclusive'
  BY <1>a, SMT DEF IInv, Records, Exclusive, Masked
<1>6. Polling'
  BY <1>a, SMT DEF IInv, Records, Polling, Sections
<1>7. Loaded'
  BY <1>a, SMT DEF IInv, Records, Loaded, Control, OpsAt, Sections
<1>8. Room'
  BY <1>a, SMT DEF IInv, Records, Room, TX_FULL, full
<1>9. Control'
  BY <1>a, SMT DEF IInv, Records, Control, OpsAt, Sections, Masked, Counted
<1> QED
  BY <1>1, <1>2, <1>3, <1>4, <1>5, <1>6, <1>7, <1>8, <1>9, Zenon DEF IInv

LEMMA IsrClearStep ==
  ASSUME IInv, Step(IsrClear)
  PROVE  IInv'
<1>1. Records'
  BY SMT DEF IInv, Records, IsrClear, Asleep
<1>2. TypeOK'
  BY UARTType, SMT DEF IInv, Records, TypeOK, IsrClear, Asleep
<1>3. NeverStalls'
  BY SMT DEF IInv, Records, NeverStalls, TX_FULL, RX_EMPTY, IsrClear, Asleep
<1>4. NewLinesCounted'
  BY SMT DEF IInv, Records, NewLinesCounted, IsrClear, Asleep
<1>5. Exclusive'
  BY SMT DEF IInv, Records, Exclusive, Masked, IsrClear, Asleep
<1>6. Polling'
  BY SMT DEF IInv, Records, Polling, Sections, IsrClear, Asleep
<1>7. Loaded'
  BY SMT DEF IInv, Records, Loaded, Control, OpsAt, Sections, IsrClear, Asleep
<1>8. Room'
  BY SMT DEF IInv, Records, Room, TX_FULL, full, IsrClear, Asleep
<1>9. Control'
  BY SMT DEF IInv, Records, Control, OpsAt, Sections, Masked, Counted, IsrClear,
         Asleep
<1> QED
  BY <1>1, <1>2, <1>3, <1>4, <1>5, <1>6, <1>7, <1>8, <1>9, Zenon DEF IInv

LEMMA MretStep ==
  ASSUME IInv, Step(Mret)
  PROVE  IInv'
<1>1. Records'
  BY SMT DEF IInv, Records, Mret, Asleep
<1>2. TypeOK'
  BY UARTType, SMT DEF IInv, Records, TypeOK, Mret, Asleep
<1>3. NeverStalls'
  BY SMT DEF IInv, Records, NeverStalls, TX_FULL, RX_EMPTY, Mret, Asleep
<1>4. NewLinesCounted'
  BY SMT DEF IInv, Records, NewLinesCounted, Mret, Asleep
<1>5. Exclusive'
  BY SMT DEF IInv, Records, Exclusive, Masked, Mret, Asleep
<1>6. Polling'
  BY SMT DEF IInv, Records, Polling, Sections, Mret, Asleep
<1>7. Loaded'
  BY SMT DEF IInv, Records, Loaded, Control, OpsAt, Sections, Mret, Asleep
<1>8. Room'
  BY SMT DEF IInv, Records, Room, TX_FULL, full, Mret, Asleep
<1>9. Control'
  BY SMT DEF IInv, Records, Control, OpsAt, Sections, Masked, Counted, Mret, Asleep
<1> QED
  BY <1>1, <1>2, <1>3, <1>4, <1>5, <1>6, <1>7, <1>8, <1>9, Zenon DEF IInv

LEMMA PollPutchStep ==
  ASSUME IInv, Step(PollPutch)
  PROVE  IInv'
<1>a. PICK s \in BufOf(TxBytes, MAX_IO_BUF_SIZE) :
      /\ isr.pc = "asleep" /\ main.pc = "poll_data" /\ stepped' = TRUE
      /\ tx_buf' = [tx_buf EXCEPT ![main.u] = s] /\ main' = Idle
      /\ UNCHANGED <<rx_buf, tx_word, lines, config, bufs, crit, mstatus, unconsumed, isr>>
  <2>1. /\ tx_buf[main.u] \in BufOf(TxBytes, MAX_IO_BUF_SIZE) /\ main.ch \in TxBytes
        /\ Len(tx_buf[main.u]) # MAX_IO_BUF_SIZE
    BY Zenon DEF IInv, TypeOK, Loaded, PollPutch, TX_FULL
  <2> QED
    BY <2>1, SizeType, BufAppend, Zenon DEF PollPutch
<1>1. Records'
  BY <1>a, SMT DEF IInv, Records, Idle
<1>2. TypeOK'
  BY UARTType, <1>a, SMT DEF IInv, Records, TypeOK, Idle
<1>3. NeverStalls'
  BY <1>a, SMT DEF IInv, Records, NeverStalls, TX_FULL, RX_EMPTY, Idle
<1>4. NewLinesCounted'
  BY <1>a, SMT DEF IInv, Records, NewLinesCounted, Idle
<1>5. Exclusive'
  BY <1>a, SMT DEF IInv, Records, Exclusive, Masked, Idle
<1>6. Polling'
  BY <1>a, SMT DEF IInv, Records, Polling, Sections, Idle
<1>7. Loaded'
  BY <1>a, SMT DEF IInv, Records, Loaded, Idle
<1>8. Room'
  BY <1>a, SMT DEF IInv, Records, Room, TX_FULL, full, Idle
<1>9. Control'
  BY <1>a, SMT DEF IInv, Records, Control, OpsAt, Sections, Masked, Counted, Idle
<1> QED
  BY <1>1, <1>2, <1>3, <1>4, <1>5, <1>6, <1>7, <1>8, <1>9, Zenon DEF IInv

LEMMA PollGetchStep ==
  ASSUME IInv, Step(PollGetch)
  PROVE  IInv'
<1>a. PICK s \in BufOf(RxBytes, MAX_IO_BUF_SIZE) :
      /\ isr.pc = "asleep" /\ main.pc = "poll_data" /\ stepped' = TRUE
      /\ rx_buf' = [rx_buf EXCEPT ![main.u] = s] /\ main' = Idle
      /\ UNCHANGED <<tx_buf, tx_word, lines, config, bufs, crit, mstatus, unconsumed, isr>>
  <2>1. rx_buf[main.u] \in BufOf(RxBytes, MAX_IO_BUF_SIZE) /\ rx_buf[main.u] # << >>
    BY Zenon DEF IInv, TypeOK, PollGetch, RX_EMPTY
  <2> QED
    BY <2>1, SizeType, BufTail, Zenon DEF PollGetch
<1>1. Records'
  BY <1>a, SMT DEF IInv, Records, Idle
<1>2. TypeOK'
  BY UARTType, <1>a, SMT DEF IInv, Records, TypeOK, Idle
<1>3. NeverStalls'
  BY <1>a, SMT DEF IInv, Records, NeverStalls, TX_FULL, RX_EMPTY, Idle
<1>4. NewLinesCounted'
  BY <1>a, SMT DEF IInv, Records, NewLinesCounted, Idle
<1>5. Exclusive'
  BY <1>a, SMT DEF IInv, Records, Exclusive, Masked, Idle
<1>6. Polling'
  BY <1>a, SMT DEF IInv, Records, Polling, Sections, Idle
<1>7. Loaded'
  BY <1>a, SMT DEF IInv, Records, Loaded, Idle
<1>8. Room'
  BY <1>a, SMT DEF IInv, Records, Room, TX_FULL, full, Idle
<1>9. Control'
  BY <1>a, SMT DEF IInv, Records, Control, OpsAt, Sections, Masked, Counted, Idle
<1> QED
  BY <1>1, <1>2, <1>3, <1>4, <1>5, <1>6, <1>7, <1>8, <1>9, Zenon DEF IInv

LEMMA PutchStoreStep ==
  ASSUME IInv, Step(PutchStore)
  PROVE  IInv'
<1>a. PICK s \in BufOf(TxBytes, MAX_UART_BUF_SIZE) :
      /\ isr.pc = "asleep" /\ main.pc = "store" /\ main.op = "putch" /\ s # << >>
      /\ stepped' = TRUE
      /\ ub_tx' = [ub_tx EXCEPT ![main.u] = s]
      /\ main' = MainAt("check", main.u, None, None)
      /\ UNCHANGED <<hw, ub_rx, num_new_lines, terminate_code, crit, mstatus, unconsumed, isr>>
  <2>0. Records
    BY Zenon DEF IInv
  <2>1. /\ main.loaded = ub_tx[main.u] /\ main.ch \in TxBytes
        /\ ub_tx[main.u] \in BufOf(TxBytes, MAX_UART_BUF_SIZE)
    <3>1. main.pc = "store" /\ main.op = "putch"
      BY Zenon DEF PutchStore
    <3>2. ub_tx[main.u] \in BufOf(TxBytes, MAX_UART_BUF_SIZE)
      BY Zenon DEF IInv, TypeOK
    <3> QED
      BY <3>1, <3>2, SMT DEF IInv, Loaded
  <2>2. CASE full(ub_tx[main.u])
    <3>1. ub_tx[main.u] # << >>
      BY <2>2, SizeType, BufEmpty, Zenon DEF full
    <3> QED
      BY <2>0, <2>1, <2>2, <3>1, MainUpdates, Zenon DEF PutchStore, written
  <2>3. CASE ~full(ub_tx[main.u])
    <3>1. Len(ub_tx[main.u]) # MAX_UART_BUF_SIZE
      BY <2>3, Zenon DEF full
    <3> QED
      BY <2>0, <2>1, <2>3, <3>1, MainUpdates, SizeType, BufAppend, Zenon DEF PutchStore, written
  <2> QED
    BY <2>2, <2>3, Zenon
<1>1. Records'
  BY <1>a, SMT DEF IInv, Records
<1>2. TypeOK'
  BY UARTType, <1>a, SMT DEF IInv, Records, TypeOK
<1>3. NeverStalls'
  BY <1>a, SMT DEF IInv, Records, NeverStalls, TX_FULL, RX_EMPTY
<1>4. NewLinesCounted'
  BY <1>a, SMT DEF IInv, Records, NewLinesCounted
<1>5. Exclusive'
  BY <1>a, SMT DEF IInv, Records, Exclusive, Masked
<1>6. Polling'
  BY <1>a, SMT DEF IInv, Records, Polling, Sections
<1>7. Loaded'
  BY <1>a, SMT DEF IInv, Records, Loaded, TypeOK
<1>8. Room'
  BY <1>a, SMT DEF IInv, Records, Room, TX_FULL, full
<1>9. Control'
  BY <1>a, SMT DEF IInv, Records, Control, OpsAt, Sections, Masked, Counted
<1> QED
  BY <1>1, <1>2, <1>3, <1>4, <1>5, <1>6, <1>7, <1>8, <1>9, Zenon DEF IInv

LEMMA PutchTakeStep ==
  ASSUME IInv, Step(PutchTake)
  PROVE  IInv'
<1>a. PICK s \in BufOf(TxBytes, MAX_UART_BUF_SIZE), ch \in TxBytes :
      /\ isr.pc = "asleep" /\ main.pc = "take" /\ stepped' = TRUE
      /\ ub_tx' = [ub_tx EXCEPT ![main.u] = s]
      /\ main' = MainAt("send", main.u, ch, None)
      /\ UNCHANGED <<hw, ub_rx, num_new_lines, terminate_code, crit, mstatus, unconsumed, isr>>
  <2>0. Records
    BY Zenon DEF IInv
  <2>1. main.pc = "take"
    BY Zenon DEF PutchTake
  <2>2. /\ main.loaded = ub_tx[main.u] /\ ub_tx[main.u] # << >>
        /\ ub_tx[main.u] \in BufOf(TxBytes, MAX_UART_BUF_SIZE)
    BY <2>1, Zenon DEF IInv, TypeOK, Loaded
  <2>3. /\ rest(main.loaded) = Tail(ub_tx[main.u]) /\ oldest(main.loaded) = Head(ub_tx[main.u])
        /\ Tail(ub_tx[main.u]) \in BufOf(TxBytes, MAX_UART_BUF_SIZE)
        /\ Head(ub_tx[main.u]) \in TxBytes
    BY <2>2, SizeType, BufTail, Zenon DEF oldest, rest
  <2>4. main' = [main EXCEPT !.pc = "send", !.loaded = None, !.ch = Head(ub_tx[main.u])]
    BY <2>3, Zenon DEF PutchTake
  <2>5. main' = MainAt("send", main.u, Head(ub_tx[main.u]), None)
    BY <2>0, <2>4, MainUpdates,ZenonT(30)
  <2>6. /\ isr.pc = "asleep" /\ stepped' = TRUE
        /\ ub_tx' = [ub_tx EXCEPT ![main.u] = Tail(ub_tx[main.u])]
        /\ UNCHANGED <<hw, ub_rx, num_new_lines, terminate_code, crit, mstatus, unconsumed, isr>>
    BY <2>3, Zenon DEF PutchTake
  <2> QED
    BY <2>1, <2>3, <2>5, <2>6, Zenon
<1>1. Records'
  BY <1>a, SMT DEF IInv, Records
<1>2. TypeOK'
  BY UARTType, <1>a, SMT DEF IInv, Records, TypeOK
<1>3. NeverStalls'
  BY <1>a, SMT DEF IInv, Records, NeverStalls, Exclusive, Masked, Control, OpsAt,
         Sections, Room, TX_FULL, RX_EMPTY
<1>4. NewLinesCounted'
  BY <1>a, SMT DEF IInv, Records, NewLinesCounted
<1>5. Exclusive'
  BY <1>a, SMT DEF IInv, Records, Exclusive, Masked
<1>6. Polling'
  BY <1>a, SMT DEF IInv, Records, Polling, Sections, Control, OpsAt
<1>7. Loaded'
  BY <1>a, SMT DEF IInv, Records, Loaded
<1>8. Room'
  BY <1>a, SMT DEF IInv, Records, Room, TX_FULL, full
<1>9. Control'
  BY <1>a, SMT DEF IInv, Records, Control, OpsAt, Sections, Masked, Counted
<1> QED
  BY <1>1, <1>2, <1>3, <1>4, <1>5, <1>6, <1>7, <1>8, <1>9, Zenon DEF IInv

LEMMA PutchSendStep ==
  ASSUME IInv, Step(PutchSend)
  PROVE  IInv'
<1>a. PICK s \in BufOf(TxBytes, MAX_IO_BUF_SIZE) :
      /\ isr.pc = "asleep" /\ main.pc = "send" /\ stepped' = TRUE
      /\ tx_buf' = [tx_buf EXCEPT ![main.u] = s]
      /\ main' = MainAt("leave", main.u, None, main.loaded)
      /\ UNCHANGED <<rx_buf, tx_word, lines, config, bufs, crit, mstatus, unconsumed, isr>>
  <2>0. Records
    BY Zenon DEF IInv
  <2>1. main.pc = "send" /\ main.op = "putch"
    BY SMT DEF PutchSend, IInv, Control, OpsAt, Sections
  <2>2. /\ tx_buf[main.u] \in BufOf(TxBytes, MAX_IO_BUF_SIZE) /\ main.ch \in TxBytes
        /\ Len(tx_buf[main.u]) # MAX_IO_BUF_SIZE
    BY <2>1, Zenon DEF IInv, TypeOK, Loaded, PutchSend, TX_FULL
  <2> QED
    BY <2>0, <2>2, MainUpdates, SizeType, BufAppend, Zenon DEF PutchSend
<1>1. Records'
  BY <1>a, SMT DEF IInv, Records
<1>2. TypeOK'
  BY UARTType, <1>a, SMT DEF IInv, Records, TypeOK
<1>3. NeverStalls'
  BY <1>a, SMT DEF IInv, Records, NeverStalls, TX_FULL, RX_EMPTY
<1>4. NewLinesCounted'
  BY <1>a, SMT DEF IInv, Records, NewLinesCounted
<1>5. Exclusive'
  BY <1>a, SMT DEF IInv, Records, Exclusive, Masked
<1>6. Polling'
  BY <1>a, SMT DEF IInv, Records, Polling, Sections
<1>7. Loaded'
  BY <1>a, SMT DEF IInv, Records, Loaded, Control, OpsAt, Sections
<1>8. Room'
  BY <1>a, SMT DEF IInv, Records, Room, TX_FULL, full
<1>9. Control'
  BY <1>a, SMT DEF IInv, Records, Control, OpsAt, Sections, Masked, Counted
<1> QED
  BY <1>1, <1>2, <1>3, <1>4, <1>5, <1>6, <1>7, <1>8, <1>9, Zenon DEF IInv

LEMMA GetchStoreStep ==
  ASSUME IInv, Step(GetchStore)
  PROVE  IInv'
<1> DEFINE b == ub_rx[main.u]
<1>a. /\ b \in BufOf(RxBytes, MAX_UART_BUF_SIZE) /\ b # << >>
      /\ main.loaded = b /\ unconsumed = None
  <2>1. main.pc = "store" /\ main.op = "getch"
    BY Zenon DEF GetchStore
  <2>2. b \in BufOf(RxBytes, MAX_UART_BUF_SIZE)
    BY Zenon DEF IInv, TypeOK
  <2> QED
    BY <2>1, <2>2, SMT DEF IInv, Loaded
<1>b. PICK s \in BufOf(RxBytes, MAX_UART_BUF_SIZE) :
      /\ isr.pc = "asleep" /\ main.pc = "store" /\ main.op = "getch" /\ stepped' = TRUE
      /\ ub_rx' = [ub_rx EXCEPT ![main.u] = s]
      /\ unconsumed' = IF Head(b) = Newline THEN main.u ELSE None
      /\ Count(b) = IF Head(b) = Newline THEN Count(s) + 1 ELSE Count(s)
      /\ main' = MainAt("leave", main.u, main.ch, None)
      /\ UNCHANGED <<hw, ub_tx, num_new_lines, terminate_code, crit, mstatus, isr>>
  <2>0. Records
    BY Zenon DEF IInv
  <2>1. /\ rest(main.loaded) = Tail(b) /\ oldest(main.loaded) = Head(b)
        /\ Tail(b) \in BufOf(RxBytes, MAX_UART_BUF_SIZE)
        /\ Count(b) = IF Head(b) = Newline THEN Count(Tail(b)) + 1 ELSE Count(Tail(b))
    BY <1>a, SizeType, BufTail, CountTail, Zenon DEF oldest, rest
  <2>2. main' = [main EXCEPT !.pc = "leave", !.loaded = None]
    BY Zenon DEF GetchStore
  <2>3. main' = MainAt("leave", main.u, main.ch, None)
    BY <2>0, <2>2, MainUpdates, Zenon
  <2> QED
    BY <2>1, <2>3, Zenon DEF GetchStore
<1>1. Records'
  BY <1>a, <1>b, SMT DEF IInv, Records
<1>2. TypeOK'
  BY UARTType, <1>a, <1>b, SMT DEF IInv, Records, TypeOK
<1>3. NeverStalls'
  BY <1>a, <1>b, SMT DEF IInv, Records, NeverStalls, TX_FULL, RX_EMPTY
<1>4. NewLinesCounted'
  <2> SUFFICES ASSUME NEW u \in UARTs
               PROVE  num_new_lines'[u] = Count(ub_rx'[u]) + (IF unconsumed' = u THEN 1 ELSE 0)
    BY Zenon DEF NewLinesCounted, Count
  <2>1. num_new_lines[u] = Count(ub_rx[u]) + (IF unconsumed = u THEN 1 ELSE 0)
    BY Zenon DEF IInv, NewLinesCounted, Count
  <2>2. u # None /\ main.u \in UARTs /\ ub_rx \in [UARTs -> BufOf(RxBytes, MAX_UART_BUF_SIZE)]
    BY DriverAssumption, Zenon DEF IInv, TypeOK
  <2>3. Count(s) \in Nat /\ Count(ub_rx[u]) \in Nat
    BY <2>2, SizeType, CountType, SMT
  <2> QED
    BY <1>a, <1>b, <2>1, <2>2, <2>3, SMT
<1>5. Exclusive'
  BY <1>a, <1>b, SMT DEF IInv, Records, Exclusive, Masked
<1>6. Polling'
  BY <1>a, <1>b, SMT DEF IInv, Records, Polling, Sections
<1>7. Loaded'
  BY <1>a, <1>b, SMT DEF IInv, Records, Loaded
<1>8. Room'
  BY <1>a, <1>b, SMT DEF IInv, Records, Room, TX_FULL, full
<1>9. Control'
  BY <1>a, <1>b, SMT DEF IInv, Records, Control, OpsAt, Sections, Masked, Counted
<1> QED
  BY <1>1, <1>2, <1>3, <1>4, <1>5, <1>6, <1>7, <1>8, <1>9, Zenon DEF IInv

LEMMA ConsumeStoreStep ==
  ASSUME IInv, Step(ConsumeStore)
  PROVE  IInv'
<1>a. PICK k \in 0 .. MAX_UART_BUF_SIZE :
      /\ isr.pc = "asleep" /\ main.pc = "store" /\ main.op = "consume" /\ stepped' = TRUE
      /\ k = Count(ub_rx[main.u]) /\ unconsumed = main.u
      /\ num_new_lines' = [num_new_lines EXCEPT ![main.u] = k] /\ unconsumed' = None
      /\ main' = MainAt("leave", main.u, main.ch, None)
      /\ UNCHANGED <<hw, ub_rx, ub_tx, terminate_code, crit, mstatus, isr>>
  <2>0. Records
    BY Zenon DEF IInv
  <2>1. main.pc = "store" /\ main.op = "consume" /\ main.u \in UARTs
    BY Zenon DEF ConsumeStore, IInv, TypeOK
  <2>2. unconsumed = main.u /\ main.loaded = num_new_lines[main.u]
    BY <2>1, SMT DEF IInv, Loaded
  <2>3. num_new_lines[main.u] = Count(ub_rx[main.u]) + 1
    BY <2>1, <2>2, SMT DEF IInv, NewLinesCounted, Count
  <2>4. Count(ub_rx[main.u]) \in 0 .. MAX_UART_BUF_SIZE
    BY <2>1, SizeType, CountType, Zenon DEF IInv, TypeOK
  <2>5. main.loaded - 1 = Count(ub_rx[main.u])
    BY <2>2, <2>3, <2>4, SMT
  <2> QED
    BY <2>0, <2>2, <2>4, <2>5, MainUpdates, Zenon DEF ConsumeStore
<1>1. Records'
  BY <1>a, SizeType, SMT DEF IInv, Records
<1>2. TypeOK'
  BY UARTType, <1>a, SizeType, SMT DEF IInv, Records, TypeOK
<1>3. NeverStalls'
  BY <1>a, SizeType, SMT DEF IInv, Records, NeverStalls, TX_FULL, RX_EMPTY
<1>4. NewLinesCounted'
  <2> SUFFICES ASSUME NEW u \in UARTs
               PROVE  num_new_lines'[u] = Count(ub_rx'[u]) + (IF unconsumed' = u THEN 1 ELSE 0)
    BY Zenon DEF NewLinesCounted, Count
  <2>1. num_new_lines[u] = Count(ub_rx[u]) + (IF unconsumed = u THEN 1 ELSE 0)
    BY Zenon DEF IInv, NewLinesCounted, Count
  <2>2. u # None /\ num_new_lines \in [UARTs -> 0 .. MAX_UART_BUF_SIZE + 1]
    BY DriverAssumption, Zenon DEF IInv, TypeOK
  <2> QED
    BY <1>a, <2>1, <2>2, SMT
<1>5. Exclusive'
  BY <1>a, SizeType, SMT DEF IInv, Records, Exclusive, Masked
<1>6. Polling'
  BY <1>a, SizeType, SMT DEF IInv, Records, Polling, Sections
<1>7. Loaded'
  BY <1>a, SizeType, SMT DEF IInv, Records, Loaded
<1>8. Room'
  BY <1>a, SizeType, SMT DEF IInv, Records, Room, TX_FULL, full
<1>9. Control'
  BY <1>a, SizeType, SMT DEF IInv, Records, Control, OpsAt, Sections, Masked, Counted
<1> QED
  BY <1>1, <1>2, <1>3, <1>4, <1>5, <1>6, <1>7, <1>8, <1>9, Zenon DEF IInv

LEMMA ClearBssStep ==
  ASSUME IInv, Step(ClearBss)
  PROVE  IInv'
<1>a. /\ isr.pc = "asleep" /\ main.pc = "bss" /\ stepped' = TRUE
      /\ clear_bufs
      /\ critical_section_depth' = 0 /\ prv_mstatus' = Off /\ unconsumed' = None
      /\ main' = [main EXCEPT !.pc = "busy"]
      /\ UNCHANGED <<hw, mstatus, isr>>
  BY Zenon DEF ClearBss
<1>b. clear_bufs => /\ ub_rx' \in [UARTs -> BufOf(RxBytes, MAX_UART_BUF_SIZE)]
                    /\ ub_tx' \in [UARTs -> BufOf(TxBytes, MAX_UART_BUF_SIZE)]
                    /\ num_new_lines' \in [UARTs -> 0 .. MAX_UART_BUF_SIZE + 1]
                    /\ terminate_code' \in [UARTs -> BOOLEAN]
  BY Cleared
<1>1. Records'
  BY <1>a, SMT DEF IInv, Records, Off, clear_bufs
<1>2. TypeOK'
  BY <1>a, <1>b, SMT DEF IInv, Records, TypeOK, Off
<1>3. NeverStalls'
  BY <1>a, SMT DEF IInv, Records, NeverStalls, TX_FULL, RX_EMPTY, Off, clear_bufs
<1>4. NewLinesCounted'
  <2> SUFFICES ASSUME NEW u \in UARTs
               PROVE  num_new_lines'[u] = Count(ub_rx'[u]) + (IF unconsumed' = u THEN 1 ELSE 0)
    BY Zenon DEF NewLinesCounted, Count
  <2>1. num_new_lines'[u] = 0 /\ ub_rx'[u] = << >> /\ unconsumed' # u
    BY DriverAssumption, <1>a, Zenon DEF IInv, Polling, clear_bufs
  <2> QED
    BY <2>1, CountEmpty, SMT
<1>5. Exclusive'
  BY <1>a, SMT DEF IInv, Records, Exclusive, Masked, Off, clear_bufs
<1>6. Polling'
  BY <1>a, SMT DEF IInv, Records, Polling, Sections, Off, clear_bufs
<1>7. Loaded'
  BY <1>a, SMT DEF IInv, Records, Loaded, Control, OpsAt, Sections, Off, clear_bufs
<1>8. Room'
  BY <1>a, SMT DEF IInv, Records, Room, TX_FULL, full, Off, clear_bufs
<1>9. Control'
  BY <1>a, SMT DEF IInv, Records, Control, OpsAt, Sections, Masked, Counted, Off,
         clear_bufs
<1> QED
  BY <1>1, <1>2, <1>3, <1>4, <1>5, <1>6, <1>7, <1>8, <1>9, Zenon DEF IInv

LEMMA ResetAllStep ==
  ASSUME IInv, Step(ResetAll)
  PROVE  IInv'
<1>a. /\ isr.pc = "asleep" /\ main.pc = "reset" /\ stepped' = TRUE /\ clear_bufs
      /\ \/ /\ main.op = "start" /\ io_mode' = io_mode
            /\ main' = [main EXCEPT !.pc = "activate"]
         \/ /\ main.op # "start" /\ io_mode' = "buffered"
            /\ main' = [main EXCEPT !.pc = "enable"]
      /\ UNCHANGED <<ports, lines, activated, ext_irq_enable, crit, mstatus, unconsumed, isr>>
  BY Zenon DEF ResetAll
<1>b. clear_bufs => /\ ub_rx' \in [UARTs -> BufOf(RxBytes, MAX_UART_BUF_SIZE)]
                    /\ ub_tx' \in [UARTs -> BufOf(TxBytes, MAX_UART_BUF_SIZE)]
                    /\ num_new_lines' \in [UARTs -> 0 .. MAX_UART_BUF_SIZE + 1]
                    /\ terminate_code' \in [UARTs -> BOOLEAN]
  BY Cleared
<1>1. Records'
  BY <1>a, SMT DEF IInv, Records, clear_bufs
<1>2. TypeOK'
  BY <1>a, <1>b, SMT DEF IInv, Records, TypeOK
<1>3. NeverStalls'
  BY <1>a, SMT DEF IInv, Records, NeverStalls, TX_FULL, RX_EMPTY, clear_bufs
<1>4. NewLinesCounted'
  <2> SUFFICES ASSUME NEW u \in UARTs
               PROVE  num_new_lines'[u] = Count(ub_rx'[u]) + (IF unconsumed' = u THEN 1 ELSE 0)
    BY Zenon DEF NewLinesCounted, Count
  <2>1. num_new_lines'[u] = 0 /\ ub_rx'[u] = << >> /\ unconsumed' # u
    BY DriverAssumption, <1>a, Zenon DEF IInv, Polling, clear_bufs
  <2> QED
    BY <2>1, CountEmpty, SMT
<1>5. Exclusive'
  BY <1>a, SMT DEF IInv, Records, Exclusive, Masked, clear_bufs
<1>6. Polling'
  BY <1>a, SMT DEF IInv, Records, Polling, Sections, Control, OpsAt, clear_bufs
<1>7. Loaded'
  BY <1>a, SMT DEF IInv, Records, Loaded, clear_bufs
<1>8. Room'
  BY <1>a, SMT DEF IInv, Records, Room, TX_FULL, full, clear_bufs
<1>9. Control'
  BY <1>a, SMT DEF IInv, Records, Control, OpsAt, Sections, Masked, Counted,
         clear_bufs
<1> QED
  BY <1>1, <1>2, <1>3, <1>4, <1>5, <1>6, <1>7, <1>8, <1>9, Zenon DEF IInv

LEMMA ActivateStep ==
  ASSUME IInv, Step(Activate)
  PROVE  IInv'
<1>a. PICK u \in UARTs, pc \in {"activate", "enable"} :
      /\ isr.pc = "asleep" /\ main.pc = "activate" /\ stepped' = TRUE
      /\ main' = MainAt(pc, u, main.ch, main.loaded)
      /\ UNCHANGED <<lines, ext_irq_enable, io_mode, bufs, crit, mstatus, unconsumed, isr>>
  <2>1. main.pc = "activate" /\ eachUART("enable") /\ Records /\ main.u \in UARTs
    BY Zenon DEF Activate, IInv, TypeOK
  <2>2. PICK u \in UARTs, pc \in {main.pc, "enable"} : main' = MainAt(pc, u, main.ch, main.loaded)
    BY <2>1, EachUART, Zenon
  <2>3. /\ isr.pc = "asleep" /\ stepped' = TRUE
        /\ UNCHANGED <<lines, ext_irq_enable, io_mode, bufs, crit, mstatus, unconsumed, isr>>
    BY Zenon DEF Activate
  <2> QED
    BY <2>1, <2>2, <2>3, Zenon
<1>b. /\ rx_buf' \in [UARTs -> BufOf(RxBytes, MAX_IO_BUF_SIZE)]
      /\ tx_buf' \in [UARTs -> BufOf(TxBytes, MAX_IO_BUF_SIZE)]
      /\ tx_word' \in [UARTs -> TxBytes \cup {None}]
      /\ activated' \subseteq UARTs
  <2>1. /\ << >> \in BufOf(RxBytes, MAX_IO_BUF_SIZE)
        /\ << >> \in BufOf(TxBytes, MAX_IO_BUF_SIZE)
    BY SizeType, BufEmpty, Zenon
  <2> DEFINE e == << >>
  <2>2. /\ rx_buf' = [rx_buf EXCEPT ![main.u] = e] /\ tx_buf' = [tx_buf EXCEPT ![main.u] = e]
        /\ tx_word' = [tx_word EXCEPT ![main.u] = None]
        /\ activated' = activated \cup {main.u}
    BY Zenon DEF Activate
  <2> HIDE DEF e
  <2>3. e \in BufOf(RxBytes, MAX_IO_BUF_SIZE) /\ e \in BufOf(TxBytes, MAX_IO_BUF_SIZE)
    BY <2>1, Zenon DEF e
  <2> QED
    BY <2>2, <2>3, SMT DEF IInv, TypeOK
<1>1. Records'
  BY <1>a, <1>b, SMT DEF IInv, Records
<1>2. TypeOK'
  BY UARTType, <1>a, <1>b, SMT DEF IInv, Records, TypeOK
<1>3. NeverStalls'
  BY <1>a, <1>b, SMT DEF IInv, Records, NeverStalls, TX_FULL, RX_EMPTY
<1>4. NewLinesCounted'
  BY <1>a, <1>b, SMT DEF IInv, Records, NewLinesCounted
<1>5. Exclusive'
  BY <1>a, <1>b, SMT DEF IInv, Records, Exclusive, Masked
<1>6. Polling'
  BY <1>a, <1>b, SMT DEF IInv, Records, Polling, Sections, Control, OpsAt
<1>7. Loaded'
  BY <1>a, <1>b, SMT DEF IInv, Records, Loaded, Control, OpsAt, Sections
<1>8. Room'
  BY <1>a, <1>b, SMT DEF IInv, Records, Room, TX_FULL, full
<1>9. Control'
  BY <1>a, <1>b, SMT DEF IInv, Records, Control, OpsAt, Sections, Masked, Counted
<1> QED
  BY <1>1, <1>2, <1>3, <1>4, <1>5, <1>6, <1>7, <1>8, <1>9, Zenon DEF IInv

LEMMA IsrTxDataStep ==
  ASSUME IInv, Step(IsrTxData)
  PROVE  IInv'
<1>a. PICK s \in BufOf(TxBytes, MAX_IO_BUF_SIZE), t \in BufOf(TxBytes, MAX_UART_BUF_SIZE) :
      /\ isr.pc = "tx_data" /\ stepped' = TRUE
      /\ tx_buf' = [tx_buf EXCEPT ![isr.u] = s] /\ ub_tx' = [ub_tx EXCEPT ![isr.u] = t]
      /\ isr' = [isr EXCEPT !.pc = "tx"]
      /\ UNCHANGED <<rx_buf, tx_word, lines, config, ub_rx, num_new_lines, terminate_code, crit,
                     mstatus, main, unconsumed>>
  <2>1. isr.pc = "tx_data" /\ Len(tx_buf[isr.u]) # MAX_IO_BUF_SIZE
    BY Zenon DEF IsrTxData, TX_FULL
  <2>2. /\ tx_buf[isr.u] \in BufOf(TxBytes, MAX_IO_BUF_SIZE)
        /\ ub_tx[isr.u] \in BufOf(TxBytes, MAX_UART_BUF_SIZE) /\ ub_tx[isr.u] # << >>
    BY <2>1, Zenon DEF IInv, TypeOK, Room
  <2>3. /\ Tail(ub_tx[isr.u]) \in BufOf(TxBytes, MAX_UART_BUF_SIZE)
        /\ Head(ub_tx[isr.u]) \in TxBytes
    BY <2>2, SizeType, BufTail, Zenon
  <2> QED
    BY <2>1, <2>2, <2>3, SizeType, BufAppend, Zenon DEF IsrTxData, oldest, rest
<1>1. Records'
  BY <1>a, SMT DEF IInv, Records
<1>2. TypeOK'
  BY UARTType, <1>a, SMT DEF IInv, Records, TypeOK
<1>3. NeverStalls'
  BY <1>a, SMT DEF IInv, Records, NeverStalls, Exclusive, Masked, Control, OpsAt,
         Sections, Room, TX_FULL, RX_EMPTY, Polling
<1>4. NewLinesCounted'
  BY <1>a, SMT DEF IInv, Records, NewLinesCounted
<1>5. Exclusive'
  BY <1>a, SMT DEF IInv, Records, Exclusive, Masked
<1>6. Polling'
  BY <1>a, SMT DEF IInv, Records, Polling, Sections, Room, TypeOK
<1>7. Loaded'
  BY <1>a, SMT DEF IInv, Records, Loaded, Control, OpsAt, Sections, Exclusive, Masked,
         full
<1>8. Room'
  BY <1>a, SMT DEF IInv, Records, Room, TX_FULL, full, Control, OpsAt, Sections,
         Exclusive, Masked
<1>9. Control'
  BY <1>a, SMT DEF IInv, Records, Control, OpsAt, Sections, Masked, Counted
<1> QED
  BY <1>1, <1>2, <1>3, <1>4, <1>5, <1>6, <1>7, <1>8, <1>9, Zenon DEF IInv

LEMMA IsrRxDataStep ==
  ASSUME IInv, Step(IsrRxData)
  PROVE  IInv'
<1> DEFINE b == ub_rx[isr.u]
           ch == Head(rx_buf[isr.u])
<1>a. /\ b \in BufOf(RxBytes, MAX_UART_BUF_SIZE) /\ Len(b) # MAX_UART_BUF_SIZE
      /\ ch \in RxBytes /\ Tail(rx_buf[isr.u]) \in BufOf(RxBytes, MAX_IO_BUF_SIZE)
  <2>1. isr.pc = "rx_data" /\ rx_buf[isr.u] # << >>
    BY Zenon DEF IsrRxData, RX_EMPTY
  <2>2. /\ b \in BufOf(RxBytes, MAX_UART_BUF_SIZE) /\ Len(b) # MAX_UART_BUF_SIZE
        /\ rx_buf[isr.u] \in BufOf(RxBytes, MAX_IO_BUF_SIZE)
    BY <2>1, Zenon DEF IInv, TypeOK, Room, full
  <2> QED
    BY <2>1, <2>2, SizeType, BufTail, Zenon
<1>b. PICK s \in BufOf(RxBytes, MAX_UART_BUF_SIZE), t \in BufOf(RxBytes, MAX_IO_BUF_SIZE) :
      /\ isr.pc = "rx_data" /\ stepped' = TRUE
      /\ ub_rx' = [ub_rx EXCEPT ![isr.u] = s] /\ s # << >>
      /\ Count(s) = IF ch = Newline THEN Count(b) + 1 ELSE Count(b)
      /\ rx_buf' = [rx_buf EXCEPT ![isr.u] = t]
      /\ isr' = [isr EXCEPT !.pc = "rx"]
      /\ UNCHANGED <<tx_buf, tx_word, lines, config, ub_tx, crit, mstatus, main, unconsumed>>
  <2>1. written(b, ch) = Append(b, ch)
    BY <1>a, Zenon DEF written, full
  <2>2. /\ Append(b, ch) \in BufOf(RxBytes, MAX_UART_BUF_SIZE) /\ Append(b, ch) # << >>
        /\ Count(Append(b, ch)) = IF ch = Newline THEN Count(b) + 1 ELSE Count(b)
    BY <1>a, SizeType, BufAppend, CountAppend, Zenon
  <2>3. /\ isr.pc = "rx_data" /\ stepped' = TRUE
        /\ ub_rx' = [ub_rx EXCEPT ![isr.u] = Append(b, ch)]
        /\ rx_buf' = [rx_buf EXCEPT ![isr.u] = Tail(rx_buf[isr.u])]
        /\ isr' = [isr EXCEPT !.pc = "rx"]
        /\ UNCHANGED <<tx_buf, tx_word, lines, config, ub_tx, crit, mstatus, main, unconsumed>>
    BY <2>1, Zenon DEF IsrRxData
  <2> QED
    BY <1>a, <2>2, <2>3, Zenon
<1>c. /\ num_new_lines' = [num_new_lines EXCEPT ![isr.u] =
           IF ch = Newline THEN num_new_lines[isr.u] + 1 ELSE num_new_lines[isr.u]]
      /\ terminate_code' \in [UARTs -> BOOLEAN]
  <2>1. PICK e \in BOOLEAN : terminate_code' = [terminate_code EXCEPT ![isr.u] = e]
    BY Zenon DEF IsrRxData
  <2>2. terminate_code' \in [UARTs -> BOOLEAN]
    BY <2>1, SMT DEF IInv, TypeOK
  <2> QED
    BY <2>2, Zenon DEF IsrRxData
<1>d. \A u \in UARTs : num_new_lines'[u] = Count(ub_rx'[u]) + (IF unconsumed' = u THEN 1 ELSE 0)
  <2> SUFFICES ASSUME NEW u \in UARTs
               PROVE  num_new_lines'[u] = Count(ub_rx'[u]) + (IF unconsumed' = u THEN 1 ELSE 0)
    OBVIOUS
  <2>1. num_new_lines[u] = Count(ub_rx[u]) + (IF unconsumed = u THEN 1 ELSE 0)
    BY Zenon DEF IInv, NewLinesCounted, Count
  <2>2. /\ isr.u \in UARTs /\ num_new_lines \in [UARTs -> 0 .. MAX_UART_BUF_SIZE + 1]
        /\ ub_rx \in [UARTs -> BufOf(RxBytes, MAX_UART_BUF_SIZE)]
    BY Zenon DEF IInv, TypeOK
  <2>3. Count(s) \in Nat /\ Count(ub_rx[u]) \in Nat
    BY <2>2, SizeType, CountType, SMT
  <2> HIDE DEF ch
  <2> QED
    BY <1>b, <1>c, <2>1, <2>2, <2>3, SMT
<1>e. num_new_lines' \in [UARTs -> 0 .. MAX_UART_BUF_SIZE + 1]
  <2>1. \A u \in UARTs : Count(ub_rx'[u]) \in 0 .. MAX_UART_BUF_SIZE
    <3>1. ub_rx' \in [UARTs -> BufOf(RxBytes, MAX_UART_BUF_SIZE)]
      BY <1>b, SMT DEF IInv, TypeOK
    <3> QED
      BY <3>1, SizeType, CountType, Zenon
  <2>2. \A u \in UARTs : num_new_lines'[u] \in 0 .. MAX_UART_BUF_SIZE + 1
    BY <2>1, <1>d, SizeType, SMT
  <2>3. num_new_lines' = [u \in UARTs |-> num_new_lines'[u]]
    BY <1>c, Zenon DEF IInv, TypeOK
  <2> QED
    BY <2>2, <2>3, Zenon
<1> HIDE DEF b, ch
<1>1. Records'
  BY <1>a, <1>b, SMT DEF IInv, Records
<1>2. TypeOK'
  BY <1>b, <1>c, <1>e, SMT DEF IInv, Records, TypeOK
<1>3. NeverStalls'
  BY <1>a, <1>b, SMT DEF IInv, Records, NeverStalls, TX_FULL, RX_EMPTY, Control,
         OpsAt, Polling
<1>4. NewLinesCounted'
  BY <1>d, Zenon DEF NewLinesCounted, Count
<1>5. Exclusive'
  BY <1>a, <1>b, SMT DEF IInv, Records, Exclusive, Masked
<1>6. Polling'
  BY <1>a, <1>b, SMT DEF IInv, Records, Polling, Sections
<1>7. Loaded'
  BY <1>a, <1>b, SMT DEF IInv, Records, Loaded, Control, OpsAt, Sections, Exclusive,
         Masked, full
<1>8. Room'
  BY <1>a, <1>b, SMT DEF IInv, Records, Room, TX_FULL, full
<1>9. Control'
  BY <1>a, <1>b, SMT DEF IInv, Records, Control, OpsAt, Sections, Masked, Counted
<1> QED
  BY <1>1, <1>2, <1>3, <1>4, <1>5, <1>6, <1>7, <1>8, <1>9, Zenon DEF IInv

LEMMA ClockStep ==
  ASSUME IInv, Clock
  PROVE  IInv'
<1>1. PICK arrived \in [UARTs -> RxBytes \cup {None}], over \in SUBSET UARTs,
           pressed \in SUBSET Buttons : Cycle(arrived, over, pressed)
  <2>1. PICK a \in [activated -> RxBytes \cup {None}], pressed \in SUBSET Buttons :
          \E over \in SUBSET {u \in UARTs : tx_word[u] # None /\ ~tx_irq[u]} :
            Cycle([u \in UARTs |-> IF u \in activated THEN a[u] ELSE None], over, pressed)
    BY Zenon DEF Clock
  <2>2. [u \in UARTs |-> IF u \in activated THEN a[u] ELSE None] \in [UARTs -> RxBytes \cup {None}]
    BY Zenon
  <2>3. \A over \in SUBSET {u \in UARTs : tx_word[u] # None /\ ~tx_irq[u]} : over \in SUBSET UARTs
    BY Zenon
  <2> QED
    BY <2>1, <2>2, <2>3, Zenon
<1>2. /\ rx_buf' \in [UARTs -> BufOf(RxBytes, MAX_IO_BUF_SIZE)]
      /\ \A u \in UARTs : rx_buf[u] # << >> => rx_buf'[u] # << >>
  <2>1. rx_buf' = [u \in UARTs |->
           IF arrived[u] # None /\ Len(rx_buf[u]) < MAX_IO_BUF_SIZE
           THEN Append(rx_buf[u], arrived[u]) ELSE rx_buf[u]]
    BY <1>1, Zenon DEF Cycle
  <2>2. ASSUME NEW u \in UARTs
        PROVE  /\ rx_buf'[u] \in BufOf(RxBytes, MAX_IO_BUF_SIZE)
               /\ rx_buf[u] # << >> => rx_buf'[u] # << >>
    <3>1. rx_buf[u] \in BufOf(RxBytes, MAX_IO_BUF_SIZE)
      BY Zenon DEF IInv, TypeOK
    <3>2. CASE arrived[u] # None /\ Len(rx_buf[u]) < MAX_IO_BUF_SIZE
      <4>1. Len(rx_buf[u]) # MAX_IO_BUF_SIZE
        BY <3>2, SizeType, SMT
      <4>2. arrived[u] \in RxBytes
        BY <3>2, Zenon
      <4>3. rx_buf'[u] = Append(rx_buf[u], arrived[u])
        BY <2>1, <3>2, Zenon
      <4>4. /\ Append(rx_buf[u], arrived[u]) \in BufOf(RxBytes, MAX_IO_BUF_SIZE)
            /\ Append(rx_buf[u], arrived[u]) # << >>
        BY <3>1, <4>1, <4>2, SizeType, BufAppend, Zenon
      <4> QED
        BY <4>3, <4>4, Zenon
    <3>3. CASE ~(arrived[u] # None /\ Len(rx_buf[u]) < MAX_IO_BUF_SIZE)
      BY <2>1, <3>1, <3>3, Zenon
    <3> QED
      BY <3>2, <3>3, Zenon
  <2>3. rx_buf' = [u \in UARTs |-> rx_buf'[u]]
    BY <2>1, Zenon
  <2> QED
    BY <2>2, <2>3, Zenon
<1>3. /\ tx_buf' \in [UARTs -> BufOf(TxBytes, MAX_IO_BUF_SIZE)]
      /\ tx_word' \in [UARTs -> TxBytes \cup {None}]
      /\ \A u \in UARTs : ~TX_FULL(u) => ~TX_FULL(u)'
  <2>1. /\ tx_buf' = [u \in UARTs |-> IF u \in takes(over) THEN Tail(tx_buf[u]) ELSE tx_buf[u]]
        /\ tx_word' = [u \in UARTs |-> IF u \in takes(over) THEN Head(tx_buf[u])
                                       ELSE IF u \in over THEN None ELSE tx_word[u]]
    BY <1>1, Zenon DEF Cycle
  <2>2. ASSUME NEW u \in UARTs
        PROVE  /\ tx_buf'[u] \in BufOf(TxBytes, MAX_IO_BUF_SIZE)
               /\ tx_word'[u] \in TxBytes \cup {None}
               /\ Len(tx_buf[u]) # MAX_IO_BUF_SIZE => Len(tx_buf'[u]) # MAX_IO_BUF_SIZE
    <3>1. tx_buf[u] \in BufOf(TxBytes, MAX_IO_BUF_SIZE) /\ tx_word[u] \in TxBytes \cup {None}
      BY Zenon DEF IInv, TypeOK
    <3>2. CASE u \in takes(over)
      <4>1. tx_buf[u] # << >>
        BY <3>2, Zenon DEF takes
      <4>2. tx_buf'[u] = Tail(tx_buf[u]) /\ tx_word'[u] = Head(tx_buf[u])
        BY <2>1, <3>2, Zenon
      <4>3. /\ Tail(tx_buf[u]) \in BufOf(TxBytes, MAX_IO_BUF_SIZE) /\ Head(tx_buf[u]) \in TxBytes
            /\ Len(Tail(tx_buf[u])) # MAX_IO_BUF_SIZE
        BY <3>1, <4>1, SizeType, BufTail, Zenon
      <4> QED
        BY <4>2, <4>3, Zenon
    <3>3. CASE u \notin takes(over)
      BY <2>1, <3>1, <3>3, Zenon
    <3> QED
      BY <3>2, <3>3, Zenon
  <2>3. tx_buf' = [u \in UARTs |-> tx_buf'[u]] /\ tx_word' = [u \in UARTs |-> tx_word'[u]]
    BY <2>1, Zenon
  <2>4. /\ tx_buf' \in [UARTs -> BufOf(TxBytes, MAX_IO_BUF_SIZE)]
        /\ tx_word' \in [UARTs -> TxBytes \cup {None}]
    BY <2>2, <2>3, Zenon
  <2> QED
    BY <2>2, <2>4, Zenon DEF TX_FULL
<1>4. /\ tx_irq' \in [UARTs -> BOOLEAN] /\ intr' \in [UARTs -> BOOLEAN]
      /\ d_intr' \in [0 .. 2 -> SUBSET UARTs]
      /\ ext_irq_pending' \in SUBSET Sources
  <2>1. /\ tx_irq' = [u \in UARTs |-> u \in takes(over)]
        /\ intr' = [u \in UARTs |-> ~RX_EMPTY(u) \/ u \in takes(over)]
        /\ d_intr' = [k \in 0 .. 2 |-> IF k < 2 THEN d_intr[k + 1] ELSE {u \in UARTs : intr[u]}]
        /\ ext_irq_pending' = ext_irq_pending \cup (d_intr[1] \ d_intr[0]) \cup pressed
    BY <1>1, Zenon DEF Cycle, fsm, intr_pos_edge
  <2>2. /\ d_intr \in [0 .. 2 -> SUBSET UARTs] /\ ext_irq_pending \subseteq Sources
    BY Zenon DEF IInv, TypeOK
  <2>3. d_intr' \in [0 .. 2 -> SUBSET UARTs]
    <3> DEFINE S == {u \in UARTs : intr[u]}
    <3>1. S \in SUBSET UARTs
      BY Zenon
    <3>2. d_intr' = [k \in 0 .. 2 |-> IF k < 2 THEN d_intr[k + 1] ELSE S]
      BY <2>1, Zenon
    <3> HIDE DEF S
    <3>3. \A k \in 0 .. 2 : k < 2 => k + 1 \in 0 .. 2
      BY SMT
    <3> QED
      BY <2>2, <3>1, <3>2, <3>3, Zenon
  <2>4. tx_irq' \in [UARTs -> BOOLEAN] /\ intr' \in [UARTs -> BOOLEAN]
    <3> DEFINE T == takes(over)
    <3>1. /\ tx_irq' = [u \in UARTs |-> u \in T]
          /\ intr' = [u \in UARTs |-> rx_buf[u] # << >> \/ u \in T]
      BY <2>1, Zenon DEF RX_EMPTY
    <3> HIDE DEF T
    <3> QED
      BY <3>1, SMT
  <2>5. ext_irq_pending' \in SUBSET Sources
    <3>1. d_intr[1] \in SUBSET UARTs
      BY <2>2, SMT
    <3> QED
      BY <2>1, <2>2, <3>1, SMT DEF Sources
  <2> QED
    BY <2>3, <2>4, <2>5, Zenon
<1>5. stepped' = FALSE /\ UNCHANGED <<config, bufs, crit, mstatus, main, unconsumed, isr>>
  BY <1>1, Zenon DEF Cycle
<1>6. Records'
  BY <1>5, SMT DEF IInv, Records
<1>7. TypeOK'
  <2>1. /\ activated' \subseteq UARTs /\ io_mode' \in {"polling", "buffered"}
        /\ ext_irq_enable' \subseteq Sources
        /\ mstatus' \in mstatusBits /\ prv_mstatus' \in mstatusBits
        /\ ub_rx' \in [UARTs -> BufOf(RxBytes, MAX_UART_BUF_SIZE)]
        /\ ub_tx' \in [UARTs -> BufOf(TxBytes, MAX_UART_BUF_SIZE)]
        /\ num_new_lines' \in [UARTs -> 0 .. MAX_UART_BUF_SIZE + 1]
        /\ terminate_code' \in [UARTs -> BOOLEAN] /\ critical_section_depth' \in 0 .. 1
    BY <1>5, Zenon DEF IInv, TypeOK
  <2>2. /\ main' = main /\ unconsumed' = unconsumed /\ isr' = isr /\ stepped' \in BOOLEAN
    BY <1>5, Zenon
  <2>3. TypeOK
    BY Zenon DEF IInv
  <2> QED
    BY <1>2, <1>3, <1>4, <2>1, <2>2, <2>3, SMT DEF TypeOK
<1>8. NeverStalls'
  BY <1>2, <1>3, <1>5, SMT DEF IInv, TypeOK, NeverStalls, TX_FULL, RX_EMPTY
<1>9. NewLinesCounted'
  BY <1>5, SMT DEF IInv, NewLinesCounted
<1>10. Exclusive' /\ Polling' /\ Loaded' /\ Control'
  <2>1. ext_irq_enable' = ext_irq_enable /\ io_mode' = io_mode
    BY <1>5, Zenon
  <2>2. Exclusive' /\ Control'
    BY <1>5, Zenon DEF IInv, Exclusive, Control
  <2>3. Polling'
    BY <1>5, <2>1, Zenon DEF IInv, Polling
  <2>4. Loaded'
    BY <1>5, Zenon DEF IInv, Loaded
  <2> QED
    BY <2>2, <2>3, <2>4, Zenon
<1>11. Room'
  BY <1>3, <1>5, SMT DEF IInv, TypeOK, Room, TX_FULL, full
<1> QED
  BY <1>6, <1>7, <1>8, <1>9, <1>10, <1>11, Zenon DEF IInv

-----------------------------------------------------------------------------
LEMMA InitIInv == Init => IInv
<1> SUFFICES ASSUME Init PROVE IInv
  OBVIOUS
<1> DEFINE e == << >>
<1>1. /\ e \in BufOf(RxBytes, MAX_IO_BUF_SIZE) /\ e \in BufOf(TxBytes, MAX_IO_BUF_SIZE)
      /\ e \in BufOf(RxBytes, MAX_UART_BUF_SIZE) /\ e \in BufOf(TxBytes, MAX_UART_BUF_SIZE)
  BY SizeType, BufEmpty, Zenon
<1>2. /\ rx_buf = [u \in UARTs |-> e] /\ tx_buf = [u \in UARTs |-> e]
      /\ ub_rx = [u \in UARTs |-> e] /\ ub_tx = [u \in UARTs |-> e]
      /\ tx_word = [u \in UARTs |-> None] /\ num_new_lines = [u \in UARTs |-> 0]
      /\ tx_irq = [u \in UARTs |-> FALSE] /\ intr = [u \in UARTs |-> FALSE]
      /\ terminate_code = [u \in UARTs |-> FALSE]
      /\ d_intr = [k \in 0 .. 2 |-> {}]
  BY Zenon DEF Init
<1>3. /\ activated = {} /\ ext_irq_pending = {} /\ ext_irq_enable = {}
      /\ mstatus = Off /\ prv_mstatus = Off /\ critical_section_depth = 0
      /\ io_mode = "polling" /\ unconsumed = None /\ isr = Asleep /\ stepped = FALSE
  BY Zenon DEF Init
<1>4. main = [op |-> "start", pc |-> "bss", u |-> 0, ch |-> None, loaded |-> None]
  <2> DEFINE m == [Idle EXCEPT !.op = "start"]
  <2>1. main = [m EXCEPT !.pc = "bss"]
    BY Zenon DEF Init
  <2>2. m = [op |-> "start", pc |-> "idle", u |-> 0, ch |-> None, loaded |-> None]
    BY SMT DEF Idle
  <2> HIDE DEF m
  <2> QED
    BY <2>1, <2>2, SMT
<1>5. \A u \in UARTs : num_new_lines[u] = 0 /\ ub_rx[u] = << >> /\ unconsumed # u
  BY <1>2, <1>3, DriverAssumption, Zenon
<1>6. NewLinesCounted
  <2> SUFFICES ASSUME NEW u \in UARTs
               PROVE  num_new_lines[u] = Count(ub_rx[u]) + (IF unconsumed = u THEN 1 ELSE 0)
    BY Zenon DEF NewLinesCounted, Count
  <2> QED
    BY <1>5, CountEmpty, SMT
<1>7. \A u \in UARTs : ub_tx[u] = << >>
  BY <1>2, Zenon
<1> HIDE DEF e
<1>8. TypeOK
  <2>1. /\ rx_buf \in [UARTs -> BufOf(RxBytes, MAX_IO_BUF_SIZE)]
        /\ tx_buf \in [UARTs -> BufOf(TxBytes, MAX_IO_BUF_SIZE)]
        /\ ub_rx \in [UARTs -> BufOf(RxBytes, MAX_UART_BUF_SIZE)]
        /\ ub_tx \in [UARTs -> BufOf(TxBytes, MAX_UART_BUF_SIZE)]
        /\ tx_word \in [UARTs -> TxBytes \cup {None}]
    BY <1>1, <1>2, Zenon
  <2>2. /\ tx_irq \in [UARTs -> BOOLEAN] /\ intr \in [UARTs -> BOOLEAN]
        /\ terminate_code \in [UARTs -> BOOLEAN]
        /\ num_new_lines \in [UARTs -> 0 .. MAX_UART_BUF_SIZE + 1]
        /\ d_intr \in [0 .. 2 -> SUBSET UARTs]
    BY <1>2, SizeType, SMT
  <2>3. Off \in mstatusBits
    BY SMT DEF Off
  <2>4. /\ main.op = "start" /\ main.pc = "bss" /\ main.u = 0 /\ main.ch = None
        /\ isr.pc = "asleep" /\ isr.u = 0 /\ isr.irq = {}
    BY <1>3, <1>4, SMT DEF Asleep
  <2>5. critical_section_depth \in 0 .. 1 /\ stepped \in BOOLEAN
    <3>1. 0 \in 0 .. 1
      BY SMT
    <3> QED
      BY <1>3, <3>1, Zenon
  <2> QED
    BY <1>3, <2>1, <2>2, <2>3, <2>4, <2>5, UARTType, Zenon DEF TypeOK
<1>9. Records /\ NeverStalls /\ Exclusive /\ Polling /\ Loaded /\ Room /\ Control
  BY <1>3, <1>4, <1>7, SMT DEF Records, NeverStalls, Exclusive, Masked, Polling, Sections, Loaded,
     Room, Control, OpsAt, Counted, Asleep
<1> QED
  BY <1>6, <1>8, <1>9, Zenon DEF IInv

LEMMA IInvStep == IInv /\ [Next]_vars => IInv'
<1> SUFFICES ASSUME IInv, [Next]_vars PROVE IInv'
  OBVIOUS
<1>1. CASE Clock
  BY <1>1, ClockStep, Zenon
<1>2. CASE Step(Start)
  BY <1>2, ClearBssStep, BusyStep, DisableStep, MaskAllStep, ResetAllStep, ActivateStep,
     EnableIrqStep, UnmaskStep, Zenon DEF Start
<1>3. CASE Step(Main)
  BY <1>2, <1>3, CallStep, WaitStep, EnterStep, SaveStep, MaskStep, LoadStep, PutchStoreStep,
     PutchCheckStep, PutchTakeStep, PutchSendStep, GetchStoreStep, ConsumeStoreStep, LeaveStep,
     RestoreStep, PollTestStep, PollPutchStep, PollGetchStep, CallEnableStep, ReturnStep,
     FlushBufStep, FlushFifoStep, WfiStep, Zenon DEF Main
<1>4. CASE Step(Handler)
  BY <1>4, TrapStep, ReadIrqStep, IsrTxTestStep, IsrTxDataStep, IsrRxTestStep, IsrRxDataStep,
     IsrClearStep, MretStep, Zenon DEF Handler
<1>5. CASE UNCHANGED vars
  <2>1. UNCHANGED <<rx_buf, tx_buf, tx_word, lines, config, bufs, crit, mstatus, main, unconsumed,
                    isr, stepped>>
    BY <1>5, Zenon DEF vars
  <2>2. Records' /\ TypeOK'
    BY <2>1, SMTT(30) DEF IInv, Records, TypeOK
  <2>3. NeverStalls' /\ NewLinesCounted'
    BY <2>1, Zenon DEF IInv, NeverStalls, NewLinesCounted, TX_FULL, RX_EMPTY
  <2>4. Exclusive' /\ Polling' /\ Control'
    BY <2>1, Zenon DEF IInv, Exclusive, Polling, Control
  <2>5. Loaded' /\ Room'
    BY <2>1, Zenon DEF IInv, Loaded, Room, TX_FULL, full
  <2> QED
    BY <2>2, <2>3, <2>4, <2>5, Zenon DEF IInv
<1> QED
  BY <1>1, <1>3, <1>4, <1>5, Zenon DEF Next, Core

LEMMA IInvHolds == Spec => []IInv
<1>1. Init => IInv
  BY InitIInv
<1>2. IInv /\ [Next]_vars => IInv'
  BY IInvStep
<1> QED
  BY <1>1, <1>2, PTL DEF Spec

(* The types and bounds of every variable; no critical section is nested.  *)
THEOREM TypeCorrect == Spec => []TypeOK
<1>1. IInv => TypeOK
  BY Zenon DEF IInv
<1> QED
  BY <1>1, IInvHolds, PTL

(* No access to a data register hangs the core, whether the program polls, *)
(* writes through a buffer, or is interrupted in between.                  *)
THEOREM Responsive == Spec => []NeverStalls
<1>1. IInv => NeverStalls
  BY Zenon DEF IInv
<1> QED
  BY <1>1, IInvHolds, PTL

(* num_new_lines is the number of newlines that main has yet to consume,   *)
(* however getch, consume and the handler fall.                            *)
THEOREM LinesCounted == Spec => []NewLinesCounted
<1>1. IInv => NewLinesCounted
  BY Zenon DEF IInv
<1> QED
  BY <1>1, IInvHolds, PTL

(* The handler never runs within a critical section of the main program,   *)
(* although enter_critical_section saves and clears mstatus in two steps.  *)
THEOREM SectionsExclude == Spec => []Exclusive
<1>1. IInv => Exclusive
  BY Zenon DEF IInv
<1> QED
  BY <1>1, IInvHolds, PTL

-----------------------------------------------------------------------------
(* Wakeups.  Before a step of the core, a line that is up has a waiting    *)
(* byte behind it or a byte taken to send in the last cycle (LineUp), and  *)
(* a UART that took one has it in transmission (WordTaken); so the two     *)
(* kinds of pulses cannot keep a line up in turn.  The handler reads from  *)
(* a UART only while its bit is pending (Serving).                         *)

LineUp(u) == intr[u] => \/ ~RX_EMPTY(u)
                        \/ tx_irq[u]
                        \/ stepped /\ (io_mode = "polling" \/ u \in ext_irq_pending)

WordTaken(u) == tx_irq[u] => tx_word[u] # None \/ (stepped /\ io_mode = "polling")

Serving == isr.pc \in {"tx", "tx_data", "rx", "rx_data"} =>
             isr.u \in isr.irq /\ isr.irq \subseteq ext_irq_pending

WInv == /\ \A u \in UARTs : LineUp(u) /\ WordTaken(u)
        /\ Serving

(* Most steps touch nothing of this. *)
LEMMA OtherStep ==
  ASSUME WInv, ~stepped, UNCHANGED <<rx_buf, tx_word, lines, isr>>
  PROVE  WInv'
  BY SMT DEF WInv, LineUp, WordTaken, Serving, RX_EMPTY

LEMMA MainWInv ==
  ASSUME IInv, WInv, Step(Main)
  PROVE  WInv'
<1>0. ~stepped /\ stepped' = TRUE
  BY Zenon
<1>1. CASE UNCHANGED <<rx_buf, tx_word, lines, isr>>
  BY <1>0, <1>1, OtherStep, Zenon
<1>2. CASE PollGetch
  <2>1. io_mode = "polling" /\ UNCHANGED <<tx_word, lines, config, isr>>
    <3>1. main.op = "poll_getch"
      BY <1>2, Zenon DEF PollGetch
    <3> QED
      BY <1>2, <3>1, SMT DEF PollGetch, IInv, Polling
  <2> QED
    BY <1>0, <2>1, SMT DEF WInv, LineUp, WordTaken, Serving
<1>3. CASE Activate
  <2>1. io_mode = "polling" /\ UNCHANGED <<lines, io_mode, isr>>
    <3>1. main.pc = "activate"
      BY <1>3, Zenon DEF Activate
    <3> QED
      BY <1>3, <3>1, SMT DEF Activate, IInv, Polling
  <2> QED
    BY <1>0, <2>1, SMT DEF WInv, LineUp, WordTaken, Serving
<1>4. CASE Start
  <2>1. Activate \/ UNCHANGED <<rx_buf, tx_word, lines, isr>>
    BY <1>4, Zenon DEF Start, ClearBss, Busy, Disable, MaskAll, ResetAll, EnableIrq, Unmask
  <2> QED
    BY <2>1, <1>1, <1>3, Zenon
<1>5. CASE ~Start /\ ~PollGetch
  <2>1. UNCHANGED <<rx_buf, tx_word, lines, isr>>
    BY <1>5, Zenon DEF Main, Call, Wait, Enter, Save, Mask, Load, PutchStore, PutchCheck,
       PutchTake, PutchSend, GetchStore, ConsumeStore, Leave, Restore, PollTest, PollPutch,
       CallEnable, Return, FlushBuf, FlushFifo, Wfi
  <2> QED
    BY <2>1, <1>1, Zenon
<1> QED
  BY <1>2, <1>4, <1>5, Zenon

LEMMA HandlerWInv ==
  ASSUME IInv, WInv, Step(Handler)
  PROVE  WInv'
<1>0. ~stepped /\ stepped' = TRUE
  BY Zenon
<1> DEFINE Quiet == UNCHANGED <<rx_buf, tx_word, lines>>
<1>1. Quiet => \A u \in UARTs : (LineUp(u) /\ WordTaken(u))'
  BY <1>0, SMT DEF WInv, LineUp, WordTaken, RX_EMPTY
<1>2. CASE Trap
  <2>1. Quiet /\ isr' = [isr EXCEPT !.pc = "irq_ctrl"]
    BY <1>2, Zenon DEF Trap
  <2>2. Serving'
    BY <2>1, SMT DEF Serving, IInv, Records
  <2> QED
    BY <1>1, <2>1, <2>2, Zenon DEF WInv
<1>3. CASE ReadIrq
  <2>1. Quiet /\ isr' = service(irq, 0) /\ irq \subseteq ext_irq_pending
    BY <1>3, Zenon DEF ReadIrq, irq
  <2>2. PICK u \in UARTs, pc \in {"clear", "tx"} :
          isr' = [pc |-> pc, u |-> u, irq |-> irq] /\ (pc = "tx" => u \in irq)
    BY <2>1, Service, SMT
  <2>3. Serving'
    BY <2>1, <2>2, SMT DEF Serving
  <2> QED
    BY <1>1, <2>1, <2>3, Zenon DEF WInv
<1>4. CASE IsrTxTest
  <2>1. Quiet /\ isr.pc = "tx" /\ \E pc \in {"tx_data", "rx"} : isr' = [isr EXCEPT !.pc = pc]
    BY <1>4, Zenon DEF IsrTxTest
  <2>2. Serving'
    BY <2>1, SMT DEF Serving, WInv, IInv, Records
  <2> QED
    BY <1>1, <2>1, <2>2, Zenon DEF WInv
<1>5. CASE IsrTxData
  <2>1. Quiet /\ isr.pc = "tx_data" /\ isr' = [isr EXCEPT !.pc = "tx"]
    BY <1>5, Zenon DEF IsrTxData
  <2>2. Serving'
    BY <2>1, SMT DEF Serving, WInv, IInv, Records
  <2> QED
    BY <1>1, <2>1, <2>2, Zenon DEF WInv
<1>6. CASE IsrRxTest
  <2>1. /\ Quiet /\ isr.pc = "rx"
        /\ isr' = [isr EXCEPT !.pc = "rx_data"] \/ isr' = service(isr.irq, isr.u + 1)
    BY <1>6, Zenon DEF IsrRxTest
  <2>2. CASE isr' = [isr EXCEPT !.pc = "rx_data"]
    <3>1. Serving'
      BY <2>1, <2>2, SMT DEF Serving, WInv, IInv, Records
    <3> QED
      BY <1>1, <2>1, <3>1, Zenon DEF WInv
  <2>3. CASE isr' = service(isr.irq, isr.u + 1)
    <3>1. isr.u + 1 \in Int
      BY UARTType, SMT DEF IInv, TypeOK
    <3>2. PICK u \in UARTs, pc \in {"clear", "tx"} :
            isr' = [pc |-> pc, u |-> u, irq |-> isr.irq] /\ (pc = "tx" => u \in isr.irq)
      BY <2>3, <3>1, Service, Zenon
    <3>3. Serving'
      BY <2>1, <3>2, SMT DEF Serving, WInv
    <3> QED
      BY <1>1, <2>1, <3>3, Zenon DEF WInv
  <2> QED
    BY <2>1, <2>2, <2>3, Zenon
<1>7. CASE IsrRxData
  <2>1. /\ isr.pc = "rx_data" /\ isr' = [isr EXCEPT !.pc = "rx"]
        /\ UNCHANGED <<tx_word, lines>>
        /\ \A u \in UARTs : u # isr.u => rx_buf'[u] = rx_buf[u]
    BY <1>7, Zenon DEF IsrRxData, IInv, TypeOK
  <2>2. Serving'
    BY <2>1, SMT DEF Serving, WInv, IInv, Records
  <2>3. isr.u \in ext_irq_pending
    BY <2>1, SMT DEF Serving, WInv
  <2>4. \A u \in UARTs : (LineUp(u) /\ WordTaken(u))'
    BY <1>0, <2>1, <2>3, SMT DEF WInv, LineUp, WordTaken, RX_EMPTY
  <2> QED
    BY <2>2, <2>4, Zenon DEF WInv
<1>8. CASE IsrClear \/ Mret
  <2>1. /\ UNCHANGED <<rx_buf, tx_word, tx_irq, intr>>
        /\ isr'.pc \in {"mret", "asleep"}
    BY <1>8, SMT DEF IsrClear, Mret, Asleep
  <2>2. Serving'
    BY <2>1, SMT DEF Serving
  <2>3. \A u \in UARTs : (LineUp(u) /\ WordTaken(u))'
    BY <1>0, <2>1, SMT DEF WInv, LineUp, WordTaken, RX_EMPTY
  <2> QED
    BY <2>2, <2>3, Zenon DEF WInv
<1> QED
  BY <1>2, <1>3, <1>4, <1>5, <1>6, <1>7, <1>8, Zenon DEF Handler

LEMMA ClockGrows ==
  ASSUME IInv, Clock, NEW u \in UARTs, rx_buf[u] # << >>
  PROVE  rx_buf'[u] # << >>
<1>1. PICK arrived : rx_buf' = [v \in UARTs |->
             IF arrived[v] # None /\ Len(rx_buf[v]) < MAX_IO_BUF_SIZE
             THEN Append(rx_buf[v], arrived[v]) ELSE rx_buf[v]]
  <2>1. PICK arrived, over, pressed : Cycle(arrived, over, pressed)
    BY Zenon DEF Clock
  <2> QED
    BY <2>1, Zenon DEF Cycle
<1>2. rx_buf[u] \in Seq(RxBytes) /\ Len(rx_buf[u]) \in Nat
  BY SizeType, BufIsSeq, LenProperties, Zenon DEF IInv, TypeOK
<1>3. Append(rx_buf[u], arrived[u]) # << >>
  BY <1>2, SMT
<1> QED
  BY <1>1, <1>3, Zenon

(* What the clock does to the line and the transmitter of a UART. *)
LEMMA ClockLine ==
  ASSUME IInv, Clock
  PROVE  \E over \in SUBSET {u \in UARTs : tx_word[u] # None /\ ~tx_irq[u]} :
           /\ stepped' = FALSE /\ isr' = isr /\ io_mode' = io_mode
           /\ ext_irq_pending \cup (d_intr[1] \ d_intr[0]) \subseteq ext_irq_pending'
           /\ \A u \in UARTs :
                /\ intr'[u] <=> rx_buf[u] # << >> \/ u \in takes(over)
                /\ tx_irq'[u] <=> u \in takes(over)
                /\ u \in takes(over) => tx_word'[u] \in TxBytes
                /\ rx_buf[u] # << >> => rx_buf'[u] # << >>
                /\ \A k \in 0 .. 1 : d_intr'[k] = d_intr[k + 1]
                /\ u \in d_intr'[2] => intr[u]
<1>1. PICK a \in [activated -> RxBytes \cup {None}], pressed \in SUBSET Buttons,
           over \in SUBSET {u \in UARTs : tx_word[u] # None /\ ~tx_irq[u]} :
        Cycle([u \in UARTs |-> IF u \in activated THEN a[u] ELSE None], over, pressed)
  BY Zenon DEF Clock
<1>2. /\ stepped' = FALSE /\ isr' = isr /\ io_mode' = io_mode
      /\ ext_irq_pending' = ext_irq_pending \cup (d_intr[1] \ d_intr[0]) \cup pressed
      /\ d_intr' = [k \in 0 .. 2 |-> IF k < 2 THEN d_intr[k + 1] ELSE {u \in UARTs : intr[u]}]
      /\ tx_irq' = [u \in UARTs |-> u \in takes(over)]
      /\ intr' = [u \in UARTs |-> ~RX_EMPTY(u) \/ u \in takes(over)]
      /\ tx_word' = [u \in UARTs |-> IF u \in takes(over) THEN Head(tx_buf[u])
                                     ELSE IF u \in over THEN None ELSE tx_word[u]]
  BY <1>1, Zenon DEF Cycle, fsm, intr_pos_edge
<1>3. ASSUME NEW u \in UARTs
      PROVE  /\ intr'[u] <=> rx_buf[u] # << >> \/ u \in takes(over)
             /\ tx_irq'[u] <=> u \in takes(over)
  BY <1>2, Zenon DEF RX_EMPTY
<1>4. ASSUME NEW u \in UARTs, u \in takes(over)
      PROVE  tx_word'[u] \in TxBytes
  <2>1. tx_buf[u] \in BufOf(TxBytes, MAX_IO_BUF_SIZE) /\ tx_buf[u] # << >>
    BY <1>4, Zenon DEF IInv, TypeOK, takes
  <2>2. tx_word'[u] = Head(tx_buf[u])
    BY <1>2, <1>4, Zenon
  <2>3. Head(tx_buf[u]) \in TxBytes
    BY <2>1, SizeType, BufTail, Zenon
  <2> QED
    BY <2>2, <2>3, Zenon
<1>5. ASSUME NEW u \in UARTs, rx_buf[u] # << >>
      PROVE  rx_buf'[u] # << >>
  BY <1>5, ClockGrows, Zenon
<1>6. /\ \A k \in 0 .. 1 : d_intr'[k] = d_intr[k + 1]
      /\ \A u \in UARTs : u \in d_intr'[2] => intr[u]
  <2> DEFINE S == {u \in UARTs : intr[u]}
  <2>1. d_intr' = [k \in 0 .. 2 |-> IF k < 2 THEN d_intr[k + 1] ELSE S]
    BY <1>2, Zenon
  <2>2. \A u \in S : intr[u]
    BY Zenon
  <2> HIDE DEF S
  <2> QED
    BY <2>1, <2>2, SMT
<1>7. \A u \in UARTs :
        /\ intr'[u] <=> rx_buf[u] # << >> \/ u \in takes(over)
        /\ tx_irq'[u] <=> u \in takes(over)
        /\ u \in takes(over) => tx_word'[u] \in TxBytes
        /\ rx_buf[u] # << >> => rx_buf'[u] # << >>
        /\ \A k \in 0 .. 1 : d_intr'[k] = d_intr[k + 1]
        /\ u \in d_intr'[2] => intr[u]
  BY <1>3, <1>4, <1>5, <1>6, Zenon
<1>8. ext_irq_pending \cup (d_intr[1] \ d_intr[0]) \subseteq ext_irq_pending'
  BY <1>2, Zenon
<1> WITNESS over \in SUBSET {u \in UARTs : tx_word[u] # None /\ ~tx_irq[u]}
<1> QED
  BY <1>2, <1>7, <1>8, Zenon

LEMMA ClockWInv ==
  ASSUME IInv, WInv, Clock
  PROVE  WInv'
<1>1. PICK over \in SUBSET {u \in UARTs : tx_word[u] # None /\ ~tx_irq[u]} :
        /\ isr' = isr /\ ext_irq_pending \subseteq ext_irq_pending'
        /\ \A u \in UARTs :
             /\ intr'[u] <=> rx_buf[u] # << >> \/ u \in takes(over)
             /\ tx_irq'[u] <=> u \in takes(over)
             /\ u \in takes(over) => tx_word'[u] \in TxBytes
             /\ rx_buf[u] # << >> => rx_buf'[u] # << >>
  BY ClockLine, Zenon
<1>2. \A u \in UARTs : (LineUp(u) /\ WordTaken(u))'
  BY <1>1, DriverAssumption, Zenon DEF LineUp, WordTaken, RX_EMPTY, Bytes
<1>3. Serving'
  BY <1>1, Zenon DEF WInv, Serving
<1> QED
  BY <1>2, <1>3, Zenon DEF WInv

LEMMA WInvHolds == Spec => []WInv
<1>1. Init => WInv
  <2> SUFFICES ASSUME Init PROVE WInv
    OBVIOUS
  <2>1. isr.pc = "asleep" /\ \A u \in UARTs : intr[u] = FALSE /\ tx_irq[u] = FALSE
    BY SMT DEF Init, Asleep
  <2> QED
    BY <2>1, SMT DEF WInv, LineUp, WordTaken, Serving
<1>2. IInv /\ WInv /\ [Next]_vars => WInv'
  <2> SUFFICES ASSUME IInv, WInv, [Next]_vars PROVE WInv'
    OBVIOUS
  <2>1. CASE UNCHANGED vars
    BY <2>1, Zenon DEF vars, WInv, LineUp, WordTaken, Serving, RX_EMPTY
  <2>2. CASE Step(Main) \/ Step(Handler)
    BY <2>2, MainWInv, HandlerWInv, Zenon
  <2> QED
    BY <2>1, <2>2, ClockWInv, Zenon DEF Next, Core
<1> QED
  BY <1>1, <1>2, IInvHolds, PTL DEF Spec

(* The core only takes bytes from a receive FIFO. *)
LEMMA StepShrinks ==
  ASSUME IInv, Core, NEW u \in UARTs, rx_buf[u] = << >>
  PROVE  rx_buf'[u] = << >>
<1>1. CASE UNCHANGED rx_buf
  BY <1>1, Zenon
<1>2. CASE PollGetch
  <2>1. rx_buf[main.u] # << >> /\ rx_buf' = [rx_buf EXCEPT ![main.u] = Tail(@)]
    BY <1>2, Zenon DEF PollGetch, RX_EMPTY
  <2> QED
    BY <2>1, Zenon DEF IInv, TypeOK
<1>3. CASE IsrRxData
  <2>1. rx_buf[isr.u] # << >> /\ rx_buf' = [rx_buf EXCEPT ![isr.u] = Tail(@)]
    BY <1>3, Zenon DEF IsrRxData, RX_EMPTY
  <2> QED
    BY <2>1, Zenon DEF IInv, TypeOK
<1>4. CASE Activate
  <2> DEFINE e == << >>
  <2>1. rx_buf' = [rx_buf EXCEPT ![main.u] = e] /\ rx_buf[u] = e
    BY <1>4, Zenon DEF Activate
  <2> HIDE DEF e
  <2>2. rx_buf'[u] = e
    BY <2>1, Zenon DEF IInv, TypeOK
  <2> QED
    BY <2>2, Zenon DEF e
<1>5. CASE ~PollGetch /\ ~IsrRxData /\ ~Activate
  <2>1. UNCHANGED rx_buf
    BY <1>5, Zenon DEF Core, Main, Handler, Start, Call, Wait, Enter, Save, Mask, Load, PutchStore,
       PutchCheck, PutchTake, PutchSend, GetchStore, ConsumeStore, Leave, Restore, PollTest,
       PollPutch, ClearBss, Busy, Disable, MaskAll, ResetAll, EnableIrq, Unmask, CallEnable,
       Return, FlushBuf, FlushFifo, Wfi, Trap, ReadIrq, IsrTxTest, IsrTxData, IsrRxTest,
       IsrClear, Mret
  <2> QED
    BY <1>1, <2>1, Zenon
<1> QED
  BY <1>2, <1>3, <1>4, <1>5, Zenon

(* The steps that take away the cover of a byte are those of the property. *)
LEMMA CoverLost ==
  ASSUME IInv, WInv, Next, NEW u \in UARTs, Covered(u), ~Covered(u)'
  PROVE  InISR("clear") \/ (io_mode = "polling" /\ tx_irq'[u])
<1>1. /\ rx_buf'[u] # << >> /\ u \notin ext_irq_pending' /\ intr'[u]
      /\ \A k \in 0 .. 2 : u \in d_intr'[k]
  BY Zenon DEF Covered, RX_EMPTY
<1>2. CASE Clock
  <2>1. PICK over \in SUBSET {v \in UARTs : tx_word[v] # None /\ ~tx_irq[v]} :
          /\ ext_irq_pending \cup (d_intr[1] \ d_intr[0]) \subseteq ext_irq_pending'
          /\ intr'[u] <=> rx_buf[u] # << >> \/ u \in takes(over)
          /\ tx_irq'[u] <=> u \in takes(over)
          /\ \A k \in 0 .. 1 : d_intr'[k] = d_intr[k + 1]
          /\ u \in d_intr'[2] => intr[u]
    BY <1>2, ClockLine, Zenon
  <2>2. intr[u] /\ u \notin ext_irq_pending /\ \A k \in 0 .. 2 : u \in d_intr[k]
    BY <1>1, <2>1, SMT
  <2>3. rx_buf[u] = << >>
    BY <2>2, Zenon DEF Covered, RX_EMPTY
  <2>4. u \in takes(over) /\ tx_irq'[u]
    BY <1>1, <2>1, <2>3, Zenon
  <2>5. ~tx_irq[u] \/ io_mode = "polling"
    <3>1. tx_word[u] = None \/ u \in over
      BY <2>4, Zenon DEF takes
    <3>2. tx_irq[u] => tx_word[u] # None \/ io_mode = "polling"
      BY Zenon DEF WInv, WordTaken
    <3> QED
      BY <3>1, <3>2, Zenon
  <2>6. io_mode = "polling"
    BY <2>2, <2>3, <2>5, Zenon DEF WInv, LineUp, RX_EMPTY
  <2> QED
    BY <2>4, <2>6, Zenon
<1>3. CASE Step(IsrClear)
  BY <1>3, Zenon DEF IsrClear
<1>4. CASE Core /\ ~IsrClear
  <2>1. UNCHANGED <<intr, d_intr, ext_irq_pending>>
    BY <1>4, Zenon DEF Core, Main, Handler, Start, Call, Wait, Enter, Save, Mask, Load, PutchStore,
       PutchCheck, PutchTake, PutchSend, GetchStore, ConsumeStore, Leave, Restore, PollTest,
       PollPutch, PollGetch, ClearBss, Busy, Disable, MaskAll, ResetAll, Activate, EnableIrq,
       Unmask, CallEnable, Return, FlushBuf, FlushFifo, Wfi, Trap, ReadIrq, IsrTxTest, IsrTxData,
       IsrRxTest, IsrRxData, Mret
  <2>2. rx_buf[u] = << >>
    BY <1>1, <2>1, Zenon DEF Covered, RX_EMPTY
  <2>3. rx_buf'[u] = << >>
    BY <1>4, <2>2, StepShrinks, Zenon
  <2> QED
    BY <1>1, <2>3, Zenon
<1> QED
  BY <1>2, <1>3, <1>4, Zenon DEF Next, Core

(* A waiting byte loses its interrupt only when the handler clears the     *)
(* bits, or, while main polls, under a line that a transmit pulse holds    *)
(* up: the edge detector and the pending bits lose none.                   *)
THEOREM WakeupsKept == Spec => WakeupLostOnlyByClear
<1>1. IInv /\ WInv /\ [Next]_vars =>
        [\A u \in UARTs : Covered(u) /\ ~Covered(u)' =>
           InISR("clear") \/ (io_mode = "polling" /\ tx_irq'[u])]_vars
  BY CoverLost, Zenon
<1> QED
  BY <1>1, IInvHolds, WInvHolds, PTL DEF Spec, WakeupLostOnlyByClear

-----------------------------------------------------------------------------
(***************************************************************************)
(* The driver implements ByteChannel in both directions, for any number of *)
(* UARTs, any bytes and every size of the FIFOs and buffers: no byte is    *)
(* lost, duplicated, invented or reordered on its way from the receive     *)
(* FIFO to getch, or from putch to the end of its frame.                   *)
(*                                                                         *)
(* Each side adds an invariant of its own to IInv.  That of the receive    *)
(* side (RxInv) says when UART_BUF_RX is empty, that of the transmit side  *)
(* (TxInv) how far the program that ends has emptied the transmitters.     *)
(***************************************************************************)

USE DEF MainAt, Step, At, Goto, begin, InISR, hw, ports, lines, config, bufs, crit, mstatusBits

Starting(pcs) == main.op = "start" /\ main.pc \in pcs

(* Between a program and the next, and the points with main.u = 0. *)
Down  == {"bss", "busy", "disable", "mask_all", "reset"}
First == {"bss", "disable", "mask_all", "reset"}

RxInv ==
  /\ io_mode = "polling" /\ ~Starting(Down) => \A u \in UARTs : ub_rx[u] = << >>
  /\ Starting(First) => main.u = 0

(* putch found room for its byte and keeps it.  A program that ends empties *)
(* its transmitters one by one, and the next one waits for their frames.    *)
TxRoom == main.op = "putch" /\ main.pc \in {"enter", "save", "mask", "load", "store"} =>
            ~full(ub_tx[main.u])

TxFlushed == main.op = "fini" =>
  /\ \A u \in UARTs : u < main.u \/ main.pc = "wfi" => ub_tx[u] = << >> /\ tx_buf[u] = << >>
  /\ main.pc = "flush_fifo" => ub_tx[main.u] = << >>

TxDown == main.op = "start" =>
  /\ main.pc \in Down \cup {"activate"} =>
       \A u \in UARTs : ub_tx[u] = << >> /\ tx_buf[u] = << >>
  /\ main.pc = "busy" => \A u \in UARTs : u < main.u => tx_word[u] = None
  /\ main.pc \in {"disable", "mask_all", "reset", "activate"} =>
       \A u \in UARTs : tx_word[u] = None

TxInv == TxRoom /\ TxFlushed /\ TxDown
-----------------------------------------------------------------------------
(* A byte that goes from the head of a sequence to the end of the one      *)
(* before it, one that arrives, and one that leaves.                       *)

LEMMA ConsHead ==
  ASSUME NEW B, NEW s \in Seq(B), s # << >>
  PROVE  s = <<Head(s)>> \o Tail(s)
<1>1. Len(s) \in Nat \ {0} /\ SubSeq(s, 1, Len(s)) = s /\ Tail(s) = SubSeq(s, 2, Len(s))
  BY EmptySeq, SubSeqFull, TailIsSubSeq, Zenon
<1>2. 1 \in 1 .. Len(s) /\ Len(s) \in 1 .. Len(s) /\ Head(s) = s[1]
  BY <1>1, SMT
<1>3. SubSeq(s, 1, Len(s)) = <<s[1]>> \o SubSeq(s, 1 + 1, Len(s))
  BY <1>2, SubSeqRecursiveFirst, Zenon
<1>4. 1 + 1 = 2
  BY SMT
<1> QED
  BY <1>1, <1>2, <1>3, <1>4, Zenon

LEMMA OneIsSeq ==
  ASSUME NEW B, NEW b \in B
  PROVE  <<b>> \in Seq(B) /\ <<b>> # << >>
  BY SMT

LEMMA TailOfCons ==
  ASSUME NEW B, NEW b \in B, NEW q \in Seq(B)
  PROVE  Tail(<<b>> \o q) = q
<1> DEFINE s == <<b>> \o q
<1>1. <<b>> \in Seq(B) /\ Len(<<b>>) = 1 /\ Len(q) \in Nat
  BY SMT
<1>2. s \in Seq(B) /\ Len(s) = 1 + Len(q) /\ s # << >>
  <2>1. s \in Seq(B) /\ Len(s) = Len(<<b>>) + Len(q)
    BY <1>1, ConcatProperties, Zenon
  <2>2. 1 + Len(q) # 0
    BY <1>1, SMT
  <2> QED
    BY <1>1, <2>1, <2>2, EmptySeq, Zenon
<1>3. \A i \in 1 .. 1 + Len(q) : s[i] = IF i <= 1 THEN <<b>>[i] ELSE q[i - 1]
  BY <1>1, ConcatProperties, Zenon
<1> HIDE DEF s
<1>4. /\ Tail(s) \in Seq(B) /\ Len(Tail(s)) = Len(s) - 1
      /\ \A i \in 1 .. Len(Tail(s)) : Tail(s)[i] = s[i + 1]
  BY <1>2, HeadTailProperties, Zenon
<1>5. Len(Tail(s)) = Len(q) /\ \A i \in 1 .. Len(q) : Tail(s)[i] = q[i]
  BY <1>1, <1>2, <1>3, <1>4, SMT
<1>6. Tail(s) = q
  BY <1>4, <1>5, SeqEqual, Zenon
<1> QED
  BY <1>6 DEF s

LEMMA Passes ==
  ASSUME NEW B, NEW s \in Seq(B), NEW t \in Seq(B), t # << >>
  PROVE  Append(s, Head(t)) \o Tail(t) = s \o t
<1> DEFINE h == <<Head(t)>>
           r == Tail(t)
<1>1. Head(t) \in B /\ r \in Seq(B) /\ t = h \o r
  BY HeadTailProperties, ConsHead, Zenon
<1>2. Append(s, Head(t)) = s \o h /\ h \in Seq(B)
  BY <1>1, AppendIsConcat, OneIsSeq, Zenon
<1> HIDE DEF h, r
<1>3. (s \o h) \o r = s \o (h \o r)
  BY <1>1, <1>2, ConcatAssociative
<1>4. Append(s, Head(t)) \o r = s \o t
  BY <1>1, <1>2, <1>3, Zenon
<1> QED
  BY <1>4 DEF r

LEMMA Arrives ==
  ASSUME NEW B, NEW s \in Seq(B), NEW t \in Seq(B), NEW b \in B
  PROVE  s \o Append(t, b) = Append(s \o t, b)
<1> DEFINE h == <<b>>
           q == s \o t
<1>1. h \in Seq(B) /\ q \in Seq(B)
  BY OneIsSeq, ConcatProperties, Zenon
<1>2. Append(t, b) = t \o h
  BY AppendIsConcat, Zenon
<1>3. Append(q, b) = q \o h
  BY <1>1, AppendIsConcat, Zenon
<1>4. (s \o t) \o h = s \o (t \o h)
  BY <1>1, ConcatAssociative
<1> QED
  BY <1>2, <1>3, <1>4, Zenon

LEMMA Leaves ==
  ASSUME NEW B, NEW s \in Seq(B), NEW t \in Seq(B), s # << >>
  PROVE  s \o t # << >> /\ Tail(s \o t) = Tail(s) \o t
<1>1. s \o t # << >>
  <2>1. (s \o t) = << >> => s = << >>
    BY ConcatEqualIffEmpty
  <2> QED
    BY <2>1
<1> DEFINE h == Head(s)
           r == Tail(s)
           q == r \o t
<1>2. h \in B /\ r \in Seq(B) /\ s = <<h>> \o r
  BY HeadTailProperties, ConsHead, Zenon
<1>3. q \in Seq(B) /\ <<h>> \in Seq(B)
  BY <1>2, OneIsSeq, ConcatProperties, Zenon
<1> HIDE DEF h, r
<1>4. (<<h>> \o r) \o t = <<h>> \o (r \o t)
  BY <1>2, <1>3, ConcatAssociative
<1>5. s \o t = <<h>> \o q
  BY <1>2, <1>4, SMT
<1> HIDE DEF q
<1>6. Tail(<<h>> \o q) = q
  BY <1>2, <1>3, TailOfCons, Zenon
<1> QED
  BY <1>1, <1>5, <1>6, Zenon DEF q, r

-----------------------------------------------------------------------------
(* Outside of the start, the main program is at none of its points, and    *)
(* gets there only when wfi ends.                                          *)

LEMMA OpKept ==
  ASSUME Records
  PROVE  /\ \A p : [main EXCEPT !.pc = p].op = main.op
         /\ \A p, u, ch, loaded : MainAt(p, u, ch, loaded).op = main.op
         /\ Idle.op = "none"
  BY SMT DEF Idle, Records

LEMMA NotStarting ==
  ASSUME IInv, Main, ~Start
  PROVE  /\ main.op # "start"
         /\ main'.op # "start" \/ Wfi
         /\ main'.op \in {main.op, "none"} \/ Call \/ CallEnable \/ Return \/ Wfi
<1>0. Records /\ main.op \in OpsAt(main.pc)
  BY Zenon DEF IInv, Control
<1>1. CASE Call \/ CallEnable \/ Return
  <2>1. main.pc = "idle"
    BY <1>1, Zenon DEF Call, CallEnable, Return
  <2>2. main'.op # "start"
    BY <1>1, SMT DEF Call, CallEnable, Return
  <2>3. main.op # "start"
    BY <1>0, <2>1, SMT DEF OpsAt
  <2> QED
    BY <1>1, <2>2, <2>3, Zenon
<1>2. CASE Wfi
  <2>1. main.pc = "wfi"
    BY <1>2, Zenon DEF Wfi
  <2>2. main.op # "start"
    BY <1>0, <2>1, SMT DEF OpsAt
  <2> QED
    BY <1>2, <2>2, Zenon
<1>3. CASE ~(Call \/ CallEnable \/ Return \/ Wfi)
  <2>1. main.pc \in {"wait", "enter", "save", "mask", "load", "store", "check", "take", "send",
                     "leave", "restore", "poll", "poll_data", "flush", "flush_fifo"}
    BY <1>3, Zenon DEF Main, Wait, Enter, Save, Mask, Load, PutchStore, PutchCheck, PutchTake,
       PutchSend, GetchStore, ConsumeStore, Leave, Restore, PollTest, PollPutch, PollGetch,
       FlushBuf, FlushFifo
  <2>2. main.op # "start"
    BY <1>0, <2>1, SMT DEF OpsAt, Sections
  <2>3. main'.op \in {main.op, "none"}
    <3> USE <1>0
    <3>1. CASE Wait
      BY <3>1, OpKept, Zenon DEF Wait
    <3>2. CASE Enter
      BY <3>2, OpKept, Zenon DEF Enter
    <3>3. CASE Save
      BY <3>3, OpKept, Zenon DEF Save
    <3>4. CASE Mask
      BY <3>4, OpKept, Zenon DEF Mask
    <3>5. CASE Load
      <4>1. PICK x : main' = [main EXCEPT !.pc = "store", !.loaded = x]
        BY <3>5, Zenon DEF Load
      <4>2. main' = MainAt("store", main.u, main.ch, x)
        BY <4>1, MainUpdates, Zenon
      <4> QED
        BY <4>2, SMT
    <3>6. CASE Leave
      BY <3>6, OpKept, Zenon DEF Leave
    <3>7. CASE Restore
      BY <3>7, OpKept, Zenon DEF Restore
    <3>8. CASE PollTest
      BY <3>8, OpKept, Zenon DEF PollTest
    <3>9. CASE PollPutch
      BY <3>9, OpKept, Zenon DEF PollPutch
    <3>10. CASE PollGetch
      BY <3>10, OpKept, Zenon DEF PollGetch
    <3>11. CASE FlushBuf
      BY <3>11, OpKept, Zenon DEF FlushBuf
    <3>12. CASE PutchStore
      <4>1. main' = [main EXCEPT !.pc = "check", !.ch = None, !.loaded = None]
        BY <3>12, Zenon DEF PutchStore
      <4>2. main' = MainAt("check", main.u, None, None)
        BY <4>1, MainUpdates, Zenon
      <4> QED
        BY <4>2, SMT
    <3>13. CASE PutchCheck
      <4>1. (\E p : main' = [main EXCEPT !.pc = p])
               \/ main' = [main EXCEPT !.pc = "take", !.loaded = ub_tx[main.u]]
        BY <3>13, Zenon DEF PutchCheck
      <4>2. (\E p : main' = [main EXCEPT !.pc = p])
               \/ main' = MainAt("take", main.u, main.ch, ub_tx[main.u])
        BY <4>1, MainUpdates, Zenon
      <4>3. CASE \E p : main' = [main EXCEPT !.pc = p]
        BY <4>3, OpKept, Zenon
      <4>4. CASE main' = MainAt("take", main.u, main.ch, ub_tx[main.u])
        BY <4>4, SMT
      <4> QED
        BY <4>2, <4>3, <4>4, Zenon
    <3>14. CASE PutchTake
      <4>1. main' = [main EXCEPT !.pc = "send", !.loaded = None, !.ch = oldest(main.loaded)]
        BY <3>14, Zenon DEF PutchTake
      <4>2. main' = MainAt("send", main.u, oldest(main.loaded), None)
        BY <4>1, MainUpdates, Zenon
      <4> QED
        BY <4>2, SMT
    <3>15. CASE PutchSend
      <4>1. main' = [main EXCEPT !.pc = "leave", !.ch = None]
        BY <3>15, Zenon DEF PutchSend
      <4>2. main' = MainAt("leave", main.u, None, main.loaded)
        BY <4>1, MainUpdates, Zenon
      <4> QED
        BY <4>2, SMT
    <3>16. CASE GetchStore
      <4>1. main' = [main EXCEPT !.pc = "leave", !.loaded = None]
        BY <3>16, Zenon DEF GetchStore
      <4>2. main' = MainAt("leave", main.u, main.ch, None)
        BY <4>1, MainUpdates, Zenon
      <4> QED
        BY <4>2, SMT
    <3>17. CASE ConsumeStore
      <4>1. main' = [main EXCEPT !.pc = "leave", !.loaded = None]
        BY <3>17, Zenon DEF ConsumeStore
      <4>2. main' = MainAt("leave", main.u, main.ch, None)
        BY <4>1, MainUpdates, Zenon
      <4> QED
        BY <4>2, SMT
    <3>18. CASE FlushFifo
      <4>1. (\E p : main' = [main EXCEPT !.pc = p])
               \/ \E x \in {main.u + 1, 0}, p \in {"flush", "wfi"} :
                    main' = [main EXCEPT !.u = x, !.pc = p]
        BY <3>18, Zenon DEF FlushFifo
      <4>2. (\E p : main' = [main EXCEPT !.pc = p])
               \/ \E x, p : main' = MainAt(p, x, main.ch, main.loaded)
        BY <4>1, MainUpdates, Zenon
      <4>3. CASE \E p : main' = [main EXCEPT !.pc = p]
        BY <4>3, OpKept, Zenon
      <4>4. CASE \E x, p : main' = MainAt(p, x, main.ch, main.loaded)
        BY <4>4, SMT
      <4> QED
        BY <4>2, <4>3, <4>4, Zenon
    <3> QED
      BY <1>3, <3>1, <3>2, <3>3, <3>4, <3>5, <3>6, <3>7, <3>8, <3>9, <3>10, <3>11, <3>12,
         <3>13, <3>14, <3>15, <3>16, <3>17, <3>18, Zenon DEF Main
  <2> QED
    BY <2>2, <2>3, Zenon
<1> QED
  BY <1>1, <1>2, <1>3, Zenon


-----------------------------------------------------------------------------
(* The receive side.  RxMove says what a step does to the bytes held for a *)
(* UART, RxStep what it does to the channel.                               *)

RxMove(u) ==
  \/ ub_rx'[u] \o rx_buf'[u] = ub_rx[u] \o rx_buf[u]
  \/ \E b \in RxBytes : ub_rx'[u] \o rx_buf'[u] = Append(ub_rx[u] \o rx_buf[u], b)
  \/ /\ ub_rx[u] \o rx_buf[u] # << >>
     /\ ub_rx'[u] \o rx_buf'[u] = Tail(ub_rx[u] \o rx_buf[u])

RxStep(u) == \/ rxClosed(u)'
             \/ ~rxClosed(u) /\ ~rxClosed(u)' /\ RxMove(u)
             \/ rxClosed(u) /\ ~rxClosed(u)' /\ ub_rx'[u] \o rx_buf'[u] = << >>

LEMMA RxTypes ==
  ASSUME IInv, NEW u \in UARTs
  PROVE  ub_rx[u] \in Seq(RxBytes) /\ rx_buf[u] \in Seq(RxBytes)
<1>1. /\ ub_rx[u] \in BufOf(RxBytes, MAX_UART_BUF_SIZE)
      /\ rx_buf[u] \in BufOf(RxBytes, MAX_IO_BUF_SIZE)
  BY Zenon DEF IInv, TypeOK
<1> QED
  BY <1>1, SizeType, BufIsSeq, Zenon

(* A step that leaves the main program alone, or is not of the start. *)
LEMMA RxOpen ==
  ASSUME NEW u \in UARTs, RxMove(u), main' = main \/ main.op # "start"
  PROVE  RxStep(u)
<1>1. CASE main' = main
  <2>1. rxClosed(u)' <=> rxClosed(u)
    BY <1>1, Zenon DEF rxClosed, resetting
  <2> QED
    BY <2>1, Zenon DEF RxStep
<1>2. CASE main.op # "start"
  <2>1. ~rxClosed(u)
    BY <1>2, Zenon DEF rxClosed, resetting
  <2> QED
    BY <2>1, Zenon DEF RxStep
<1> QED
  BY <1>1, <1>2, Zenon

(* The handler reads a byte from the FIFO into the buffer. *)
LEMMA IsrRxDataMove ==
  ASSUME IInv, IsrRxData, NEW u \in UARTs
  PROVE  RxMove(u)
<1> DEFINE b == ub_rx[isr.u]
           f == rx_buf[isr.u]
<1>1. /\ isr.pc = "rx_data" /\ f # << >> /\ isr.u \in UARTs
      /\ ub_rx \in [UARTs -> BufOf(RxBytes, MAX_UART_BUF_SIZE)]
      /\ rx_buf \in [UARTs -> BufOf(RxBytes, MAX_IO_BUF_SIZE)]
  BY Zenon DEF IInv, TypeOK, IsrRxData, RX_EMPTY
<1>2. written(b, Head(f)) = Append(b, Head(f))
  BY <1>1, Zenon DEF IInv, Room, written
<1>3. /\ ub_rx' = [ub_rx EXCEPT ![isr.u] = Append(b, Head(f))]
      /\ rx_buf' = [rx_buf EXCEPT ![isr.u] = Tail(f)]
  BY <1>2, Zenon DEF IsrRxData
<1>4. b \in Seq(RxBytes) /\ f \in Seq(RxBytes)
  BY <1>1, RxTypes, Zenon
<1>5. Append(b, Head(f)) \o Tail(f) = b \o f
  BY <1>1, <1>4, Passes, Zenon
<1>6. CASE u = isr.u
  <2>1. ub_rx'[u] = Append(b, Head(f)) /\ rx_buf'[u] = Tail(f)
    BY <1>1, <1>3, <1>6, Zenon
  <2> QED
    BY <1>5, <1>6, <2>1, Zenon DEF RxMove
<1>7. CASE u # isr.u
  <2>1. ub_rx'[u] = ub_rx[u] /\ rx_buf'[u] = rx_buf[u]
    BY <1>1, <1>3, <1>7, Zenon
  <2> QED
    BY <2>1, Zenon DEF RxMove
<1> QED
  BY <1>6, <1>7, Zenon

LEMMA HandlerRx ==
  ASSUME IInv, Handler, NEW u \in UARTs
  PROVE  RxStep(u) /\ main' = main
<1>1. main' = main
  BY Zenon DEF Handler, Trap, ReadIrq, IsrTxTest, IsrTxData, IsrRxTest, IsrRxData, IsrClear, Mret
<1>2. CASE IsrRxData
  BY <1>1, <1>2, IsrRxDataMove, RxOpen, Zenon
<1>3. CASE ~IsrRxData
  <2>1. UNCHANGED <<ub_rx, rx_buf>>
    BY <1>3, Zenon DEF Handler, Trap, ReadIrq, IsrTxTest, IsrTxData, IsrRxTest, IsrClear, Mret
  <2>2. RxMove(u)
    BY <2>1, Zenon DEF RxMove
  <2> QED
    BY <1>1, <2>2, RxOpen, Zenon
<1> QED
  BY <1>2, <1>3, Zenon

(* In a clock cycle a byte may arrive in each FIFO. *)
LEMMA ClockRx ==
  ASSUME IInv, Clock, NEW u \in UARTs
  PROVE  RxStep(u) /\ main' = main
<1>1. PICK arrived \in [UARTs -> RxBytes \cup {None}], over \in SUBSET UARTs,
           pressed \in SUBSET Buttons :
        Cycle(arrived, over, pressed)
  <2>1. PICK a \in [activated -> RxBytes \cup {None}], over \in SUBSET UARTs,
              pressed \in SUBSET Buttons :
          Cycle([i \in UARTs |-> IF i \in activated THEN a[i] ELSE None], over, pressed)
    BY Zenon DEF Clock
  <2>2. [i \in UARTs |-> IF i \in activated THEN a[i] ELSE None] \in [UARTs -> RxBytes \cup {None}]
    BY Zenon
  <2> QED
    BY <2>1, <2>2, Zenon
<1>2. /\ UNCHANGED <<ub_rx, main>>
      /\ rx_buf' = [i \in UARTs |-> IF arrived[i] # None /\ Len(rx_buf[i]) < MAX_IO_BUF_SIZE
                                    THEN Append(rx_buf[i], arrived[i]) ELSE rx_buf[i]]
  BY <1>1, Zenon DEF Cycle
<1>3. CASE arrived[u] # None /\ Len(rx_buf[u]) < MAX_IO_BUF_SIZE
  <2>1. arrived[u] \in RxBytes /\ ub_rx[u] \in Seq(RxBytes) /\ rx_buf[u] \in Seq(RxBytes)
    BY <1>3, RxTypes, Zenon
  <2>2. ub_rx[u] \o Append(rx_buf[u], arrived[u]) = Append(ub_rx[u] \o rx_buf[u], arrived[u])
    <3>1. \A s \in Seq(RxBytes), t \in Seq(RxBytes), b \in RxBytes :
            s \o Append(t, b) = Append(s \o t, b)
      BY Arrives
    <3> QED
      BY <2>1, <3>1, Zenon
  <2>3. ub_rx'[u] = ub_rx[u] /\ rx_buf'[u] = Append(rx_buf[u], arrived[u])
    BY <1>2, <1>3, Zenon
  <2>4. RxMove(u)
    BY <2>1, <2>2, <2>3, Zenon DEF RxMove
  <2> QED
    BY <1>2, <2>4, RxOpen, Zenon
<1>4. CASE ~(arrived[u] # None /\ Len(rx_buf[u]) < MAX_IO_BUF_SIZE)
  <2>1. ub_rx'[u] = ub_rx[u] /\ rx_buf'[u] = rx_buf[u]
    BY <1>2, <1>4, Zenon
  <2>2. RxMove(u)
    BY <2>1, Zenon DEF RxMove
  <2> QED
    BY <1>2, <2>2, RxOpen, Zenon
<1> QED
  BY <1>3, <1>4, Zenon

(* getch takes a byte from the buffer. *)
LEMMA GetchStoreMove ==
  ASSUME IInv, GetchStore, NEW u \in UARTs
  PROVE  RxMove(u)
<1> DEFINE b == ub_rx[main.u]
<1>1. main.pc = "store" /\ main.op = "getch" /\ main.u \in UARTs
  BY Zenon DEF IInv, TypeOK, GetchStore
<1>2. b # << >> /\ main.loaded = b
  BY <1>1, SMT DEF IInv, Loaded
<1>3. rest(main.loaded) = Tail(b)
  BY <1>2, Zenon DEF rest
<1>4. ub_rx' = [ub_rx EXCEPT ![main.u] = Tail(b)] /\ rx_buf' = rx_buf
  BY <1>3, Zenon DEF GetchStore
<1>5. ub_rx \in [UARTs -> BufOf(RxBytes, MAX_UART_BUF_SIZE)]
  BY Zenon DEF IInv, TypeOK
<1>6. CASE u = main.u
  <2>1. b \in Seq(RxBytes) /\ rx_buf[u] \in Seq(RxBytes)
    BY <1>6, RxTypes, Zenon
  <2>2. b \o rx_buf[u] # << >> /\ Tail(b \o rx_buf[u]) = Tail(b) \o rx_buf[u]
    BY <1>2, <2>1, Leaves, Zenon
  <2>3. ub_rx'[u] = Tail(b) /\ rx_buf'[u] = rx_buf[u]
    BY <1>1, <1>4, <1>5, <1>6, Zenon
  <2> QED
    BY <1>6, <2>2, <2>3, Zenon DEF RxMove
<1>7. CASE u # main.u
  <2>1. ub_rx'[u] = ub_rx[u] /\ rx_buf'[u] = rx_buf[u]
    BY <1>1, <1>4, <1>5, <1>7, Zenon
  <2> QED
    BY <2>1, Zenon DEF RxMove
<1> QED
  BY <1>6, <1>7, Zenon

(* The polling getch takes one from the FIFO: then nothing is buffered. *)
LEMMA PollGetchMove ==
  ASSUME IInv, RxInv, PollGetch, NEW u \in UARTs
  PROVE  RxMove(u)
<1> DEFINE f == rx_buf[main.u]
<1>1. main.op = "poll_getch" /\ f # << >> /\ main.u \in UARTs
  BY Zenon DEF IInv, TypeOK, PollGetch, RX_EMPTY
<1>2. io_mode = "polling"
  BY <1>1, SMT DEF IInv, Polling
<1>3. ub_rx[u] = << >>
  BY <1>1, <1>2, SMT DEF RxInv, Starting
<1>4. ub_rx' = ub_rx /\ rx_buf' = [rx_buf EXCEPT ![main.u] = Tail(f)]
  BY Zenon DEF PollGetch
<1>5. rx_buf \in [UARTs -> BufOf(RxBytes, MAX_IO_BUF_SIZE)]
  BY Zenon DEF IInv, TypeOK
<1>6. CASE u = main.u
  <2>1. f \in Seq(RxBytes)
    BY <1>6, RxTypes, Zenon
  <2>2. f # << >> /\ Tail(f) \in Seq(RxBytes)
    BY <1>1, <2>1, HeadTailProperties, Zenon
  <2>3. << >> \o f = f /\ << >> \o Tail(f) = Tail(f)
    BY <2>1, <2>2, ConcatEmptySeq, Zenon
  <2>4. ub_rx'[u] = << >> /\ rx_buf'[u] = Tail(f)
    BY <1>1, <1>3, <1>4, <1>5, <1>6, Zenon
  <2> QED
    BY <1>3, <1>6, <2>2, <2>3, <2>4, Zenon DEF RxMove
<1>7. CASE u # main.u
  <2>1. ub_rx'[u] = ub_rx[u] /\ rx_buf'[u] = rx_buf[u]
    BY <1>1, <1>4, <1>5, <1>7, Zenon
  <2> QED
    BY <2>1, Zenon DEF RxMove
<1> QED
  BY <1>6, <1>7, Zenon

(* The steps of the start.  The first ones come before the receive side is *)
(* open, Activate opens it for one UART.                                   *)
LEMMA StartRx ==
  ASSUME IInv, RxInv, Start, NEW u \in UARTs
  PROVE  RxStep(u)
<1>0. Records /\ main.u \in UARTs /\ main.op \in OpsAt(main.pc)
  BY Zenon DEF IInv, TypeOK, Control
<1>1. CASE ClearBss
  <2>1. main.pc = "bss" /\ main' = [main EXCEPT !.pc = "busy"]
    BY <1>1, Zenon DEF ClearBss
  <2>2. main'.op = "start" /\ main'.pc = "busy"
    BY <1>0, <2>1, SMT DEF Records, OpsAt
  <2> QED
    BY <2>2, Zenon DEF RxStep, rxClosed, resetting
<1>2. CASE Busy
  <2>1. main.pc = "busy" /\ eachUART("disable")
    BY <1>2, Zenon DEF Busy
  <2>2. PICK x \in UARTs, p \in {"busy", "disable"} :
          main' = MainAt(p, x, main.ch, main.loaded)
    BY <1>0, <2>1, EachUART, Zenon
  <2>3. main'.op = "start" /\ main'.pc \in {"busy", "disable"}
    BY <1>0, <2>1, <2>2, SMT DEF OpsAt
  <2> QED
    BY <2>3, Zenon DEF RxStep, rxClosed, resetting
<1>3. CASE Disable
  <2>1. main.pc = "disable" /\ main' = [main EXCEPT !.pc = "mask_all"]
    BY <1>3, Zenon DEF Disable
  <2>2. main'.op = "start" /\ main'.pc = "mask_all"
    BY <1>0, <2>1, SMT DEF Records, OpsAt
  <2> QED
    BY <2>2, Zenon DEF RxStep, rxClosed, resetting
<1>4. CASE MaskAll
  <2>1. main.pc = "mask_all" /\ main' = [main EXCEPT !.pc = "reset"]
    BY <1>4, Zenon DEF MaskAll
  <2>2. main'.op = "start" /\ main'.pc = "reset"
    BY <1>0, <2>1, SMT DEF Records, OpsAt
  <2> QED
    BY <2>2, Zenon DEF RxStep, rxClosed, resetting
<1>5. CASE ResetAll
  <2>1. main.pc = "reset" /\ clear_bufs /\ UNCHANGED rx_buf
    BY <1>5, Zenon DEF ResetAll
  <2>2. CASE main.op = "start"
    <3>1. main' = [main EXCEPT !.pc = "activate"]
      BY <1>5, <2>2, Zenon DEF ResetAll
    <3>2. main.u = 0
      BY <2>1, <2>2, SMT DEF RxInv, Starting, First
    <3>3. main'.op = "start" /\ main'.pc = "activate" /\ main'.u = 0
      BY <1>0, <2>2, <3>1, <3>2, SMT DEF Records
    <3>4. 0 <= u
      BY UARTType, SMT
    <3> QED
      BY <3>3, <3>4, Zenon DEF RxStep, rxClosed, resetting
  <2>3. CASE main.op # "start"
    <3>1. io_mode = "polling"
      BY <2>1, SMT DEF IInv, Polling
    <3>2. ub_rx[u] = << >>
      BY <2>3, <3>1, SMT DEF RxInv, Starting
    <3>3. ub_rx'[u] = << >>
      BY <2>1, Zenon DEF clear_bufs
    <3>4. RxMove(u)
      BY <2>1, <3>2, <3>3, Zenon DEF RxMove
    <3> QED
      BY <2>3, <3>4, RxOpen, Zenon
  <2> QED
    BY <2>2, <2>3, Zenon
<1>6. CASE Activate
  <2>1. /\ main.pc = "activate" /\ eachUART("enable") /\ UNCHANGED ub_rx
        /\ rx_buf' = [rx_buf EXCEPT ![main.u] = << >>]
    BY <1>6, Zenon DEF Activate
  <2>2. main.op = "start" /\ io_mode = "polling"
    BY <1>0, <2>1, SMT DEF OpsAt, IInv, Polling
  <2>3. ub_rx[u] = << >>
    BY <2>1, <2>2, SMT DEF RxInv, Starting, Down
  <2>4. rx_buf \in [UARTs -> BufOf(RxBytes, MAX_IO_BUF_SIZE)]
    BY Zenon DEF IInv, TypeOK
  <2>5. main.u \in Nat /\ u \in Nat
    BY <1>0, UARTType, Zenon
  <2>6. CASE u = main.u
    <3>1. ub_rx'[u] = << >> /\ rx_buf'[u] = << >>
      BY <1>0, <2>1, <2>3, <2>4, <2>6, Zenon
    <3>2. << >> \o << >> = << >>
      BY SMT
    <3>3. rxClosed(u)
      BY <2>1, <2>2, <2>5, <2>6, SMT DEF rxClosed, resetting
    <3> QED
      BY <3>1, <3>2, <3>3, Zenon DEF RxStep
  <2>7. CASE u < main.u
    <3>1. ub_rx'[u] = ub_rx[u] /\ rx_buf'[u] = rx_buf[u]
      BY <1>0, <2>1, <2>4, <2>5, <2>7, SMT
    <3>2. RxMove(u)
      BY <3>1, Zenon DEF RxMove
    <3>3. ~rxClosed(u)
      BY <2>1, <2>2, <2>5, <2>7, SMT DEF rxClosed, resetting
    <3> QED
      BY <3>2, <3>3, Zenon DEF RxStep
  <2>8. CASE main.u < u
    <3>1. main.u + 1 \in UARTs
      BY <1>0, <2>5, <2>8, DriverAssumption, SMT DEF UARTs
    <3>2. main' = [main EXCEPT !.u = main.u + 1]
      BY <2>1, <3>1, Zenon DEF eachUART
    <3>3. main'.op = "start" /\ main'.pc = "activate" /\ main'.u = main.u + 1
      BY <1>0, <2>1, <2>2, <3>2, SMT DEF Records
    <3>4. main'.u <= u
      BY <2>5, <2>8, <3>3, SMT
    <3> QED
      BY <3>3, <3>4, Zenon DEF RxStep, rxClosed, resetting
  <2> QED
    BY <2>5, <2>6, <2>7, <2>8, SMT
<1>7. CASE EnableIrq \/ Unmask
  <2>1. main.pc \in {"enable", "unmask"} /\ UNCHANGED <<ub_rx, rx_buf>>
    BY <1>7, Zenon DEF EnableIrq, Unmask
  <2>2. RxMove(u) /\ ~rxClosed(u)
    BY <2>1, SMT DEF RxMove, rxClosed, resetting
  <2> QED
    BY <2>2, Zenon DEF RxStep
<1> QED
  BY <1>1, <1>2, <1>3, <1>4, <1>5, <1>6, <1>7, Zenon DEF Start

LEMMA MainRx ==
  ASSUME IInv, RxInv, Main, NEW u \in UARTs
  PROVE  RxStep(u)
<1>1. CASE Start
  BY <1>1, StartRx, Zenon
<1>2. CASE ~Start
  <2>1. main.op # "start"
    BY <1>2, NotStarting, Zenon
  <2>2. CASE PollGetch
    BY <2>1, <2>2, PollGetchMove, RxOpen, Zenon
  <2>3. CASE GetchStore
    BY <2>1, <2>3, GetchStoreMove, RxOpen, Zenon
  <2>4. CASE ~(PollGetch \/ GetchStore)
    <3>1. UNCHANGED <<ub_rx, rx_buf>>
      BY <1>2, <2>4, Zenon DEF Main, Call, Wait, Enter, Save, Mask, Load, PutchStore, PutchCheck,
         PutchTake, PutchSend, ConsumeStore, Leave, Restore, PollTest, PollPutch,
         CallEnable, Return, FlushBuf, FlushFifo, Wfi
    <3>2. RxMove(u)
      BY <3>1, Zenon DEF RxMove
    <3> QED
      BY <2>1, <3>2, RxOpen, Zenon
  <2> QED
    BY <2>2, <2>3, <2>4, Zenon
<1> QED
  BY <1>1, <1>2, Zenon

LEMMA RxInvStep ==
  ASSUME IInv, RxInv, [Next]_vars
  PROVE  RxInv'
<1>0. Records /\ main.u \in UARTs /\ main.op \in OpsAt(main.pc)
  BY Zenon DEF IInv, TypeOK, Control
<1>1. CASE UNCHANGED <<io_mode, main, ub_rx>>
  BY <1>1, Zenon DEF RxInv, Starting
<1>2. CASE main' = main /\ UNCHANGED io_mode /\ io_mode # "polling"
  BY <1>2, Zenon DEF RxInv, Starting
<1>3. CASE Clock
  <2>1. UNCHANGED <<io_mode, main, ub_rx>>
    BY <1>3, Zenon DEF Clock, Cycle
  <2> QED
    BY <1>1, <2>1, Zenon
<1>4. CASE Handler
  <2>1. CASE IsrRxData
    <3>1. main' = main /\ UNCHANGED io_mode /\ isr.pc = "rx_data"
      BY <2>1, Zenon DEF IsrRxData
    <3>2. io_mode = "buffered"
      BY <3>1, SMT DEF IInv, Polling
    <3> QED
      BY <1>2, <3>1, <3>2, SMT
  <2>2. CASE ~IsrRxData
    <3>1. UNCHANGED <<io_mode, main, ub_rx>>
      BY <1>4, <2>2, Zenon DEF Handler, Trap, ReadIrq, IsrTxTest, IsrTxData, IsrRxTest,
         IsrClear, Mret
    <3> QED
      BY <1>1, <3>1, Zenon
  <2> QED
    BY <2>1, <2>2, Zenon
<1>5. CASE Main /\ ~Start
  <2>1. main.op # "start" /\ (main'.op # "start" \/ Wfi)
    BY <1>5, NotStarting, Zenon
  <2>2. Starting(First)' => main'.u = 0
    <3>1. Wfi => main'.u = 0
      BY SMT DEF Wfi
    <3> QED
      BY <2>1, <3>1, Zenon DEF Starting
  <2>3. io_mode' = io_mode
    BY <1>5, Zenon DEF Main, Call, Wait, Enter, Save, Mask, Load, PutchStore, PutchCheck,
       PutchTake, PutchSend, GetchStore, ConsumeStore, Leave, Restore, PollTest, PollPutch,
       PollGetch, CallEnable, Return, FlushBuf, FlushFifo, Wfi
  <2>4. ub_rx' = ub_rx \/ io_mode = "buffered"
    <3>1. CASE GetchStore
      <4>1. main.op = "getch"
        BY <3>1, Zenon DEF GetchStore
      <4> QED
        BY <4>1, SMT DEF IInv, Polling, Sections
    <3>2. CASE ~GetchStore
      BY <1>5, <3>2, Zenon DEF Main, Call, Wait, Enter, Save, Mask, Load, PutchStore, PutchCheck,
         PutchTake, PutchSend, ConsumeStore, Leave, Restore, PollTest, PollPutch,
         PollGetch, CallEnable, Return, FlushBuf, FlushFifo, Wfi
    <3> QED
      BY <3>1, <3>2, Zenon
  <2>5. io_mode' = "polling" => \A u \in UARTs : ub_rx'[u] = << >>
    <3> SUFFICES ASSUME io_mode' = "polling" PROVE \A u \in UARTs : ub_rx'[u] = << >>
      OBVIOUS
    <3>1. io_mode = "polling" /\ ub_rx' = ub_rx
      BY <2>3, <2>4, SMT
    <3>2. \A u \in UARTs : ub_rx[u] = << >>
      BY <2>1, <3>1, Zenon DEF RxInv, Starting
    <3> QED
      BY <3>1, <3>2, Zenon
  <2> QED
    BY <2>2, <2>5, Zenon DEF RxInv
<1>6. CASE Start
  <2>1. CASE ClearBss
    <3>1. main.pc = "bss" /\ main' = [main EXCEPT !.pc = "busy"]
      BY <2>1, Zenon DEF ClearBss
    <3>2. main'.op = "start" /\ main'.pc = "busy"
      BY <1>0, <3>1, SMT DEF Records, OpsAt
    <3> QED
      BY <3>2, SMT DEF RxInv, Starting, Down, First
  <2>2. CASE Busy
    <3>1. main.pc = "busy" /\ eachUART("disable")
      BY <2>2, Zenon DEF Busy
    <3>2. main.op = "start"
      BY <1>0, <3>1, SMT DEF OpsAt
    <3>3. CASE main.u + 1 \in UARTs
      <4>1. main' = [main EXCEPT !.u = main.u + 1]
        BY <3>1, <3>3, Zenon DEF eachUART
      <4>2. main'.op = "start" /\ main'.pc = "busy"
        BY <1>0, <3>1, <3>2, <4>1, SMT DEF Records
      <4> QED
        BY <4>2, SMT DEF RxInv, Starting, Down, First
    <3>4. CASE main.u + 1 \notin UARTs
      <4>1. main' = [main EXCEPT !.u = 0, !.pc = "disable"]
        BY <3>1, <3>4, Zenon DEF eachUART
      <4>2. main' = MainAt("disable", 0, main.ch, main.loaded)
        BY <1>0, <4>1, MainUpdates, Zenon
      <4>3. main'.op = "start" /\ main'.pc = "disable" /\ main'.u = 0
        BY <3>2, <4>2, SMT
      <4> QED
        BY <4>3, SMT DEF RxInv, Starting, Down, First
    <3> QED
      BY <3>3, <3>4, Zenon
  <2>3. CASE Disable \/ MaskAll
    <3>1. \E p \in {"mask_all", "reset"} : main' = [main EXCEPT !.pc = p]
      BY <2>3, Zenon DEF Disable, MaskAll
    <3>2. main.pc \in First
      BY <2>3, Zenon DEF Disable, MaskAll, First
    <3>3. main.op = "start" /\ main.u = 0
      <4>1. main.pc # "reset"
        BY <2>3, SMT DEF Disable, MaskAll
      <4>2. main.op = "start"
        BY <1>0, <3>2, <4>1, SMT DEF OpsAt, First
      <4> QED
        BY <3>2, <4>2, Zenon DEF RxInv, Starting
    <3>4. main'.op = "start" /\ main'.pc \in {"mask_all", "reset"} /\ main'.u = 0
      BY <1>0, <3>1, <3>3, SMT DEF Records
    <3> QED
      BY <3>4, SMT DEF RxInv, Starting, Down, First
  <2>4. CASE ResetAll
    <3>1. \A u \in UARTs : ub_rx'[u] = << >>
      BY <2>4, Zenon DEF ResetAll, clear_bufs
    <3>2. main' \in {[main EXCEPT !.pc = "activate"], [main EXCEPT !.pc = "enable"]}
      BY <2>4, Zenon DEF ResetAll
    <3>3. main'.pc \in {"activate", "enable"}
      BY <1>0, <3>2, SMT DEF Records
    <3> QED
      BY <3>1, <3>3, SMT DEF RxInv, Starting, Down, First
  <2>5. CASE Activate
    <3>1. main.pc = "activate" /\ eachUART("enable") /\ UNCHANGED <<ub_rx, io_mode>>
      BY <2>5, Zenon DEF Activate
    <3>2. PICK x \in UARTs, p \in {"activate", "enable"} :
            main' = MainAt(p, x, main.ch, main.loaded)
      BY <1>0, <3>1, EachUART, Zenon
    <3>3. main'.pc \in {"activate", "enable"}
      BY <3>2, SMT
    <3>4. ~Starting(Down) /\ ~Starting(First)'
      BY <3>1, <3>3, SMT DEF Starting, Down, First
    <3> QED
      BY <3>1, <3>4, Zenon DEF RxInv
  <2>6. CASE EnableIrq \/ Unmask
    <3>1. /\ main.pc \in {"enable", "unmask"} /\ UNCHANGED <<ub_rx, io_mode>>
          /\ main' = [main EXCEPT !.pc = "unmask"] \/ main' = Idle
      BY <2>6, Zenon DEF EnableIrq, Unmask
    <3>2. main'.pc \in {"unmask", "idle"}
      BY <1>0, <3>1, SMT DEF Records, Idle
    <3>3. ~Starting(Down) /\ ~Starting(First)'
      BY <3>1, <3>2, SMT DEF Starting, Down, First
    <3> QED
      BY <3>1, <3>3, Zenon DEF RxInv
  <2> QED
    BY <1>6, <2>1, <2>2, <2>3, <2>4, <2>5, <2>6, Zenon DEF Start
<1>7. CASE UNCHANGED vars
  <2>1. UNCHANGED <<io_mode, main, ub_rx>>
    BY <1>7, Zenon DEF vars
  <2> QED
    BY <1>1, <2>1, Zenon
<1> QED
  BY <1>3, <1>4, <1>5, <1>6, <1>7, Zenon DEF Next, Core

LEMMA RxInvHolds == Spec => []RxInv
<1>1. Init => RxInv
  <2> SUFFICES ASSUME Init PROVE RxInv
    OBVIOUS
  <2>1. /\ main = [Idle EXCEPT !.op = "start", !.pc = "bss"]
        /\ ub_rx = [u \in UARTs |-> << >>]
    BY Zenon DEF Init
  <2>2. main.op = "start" /\ main.pc = "bss" /\ main.u = 0
    <3> DEFINE m == [Idle EXCEPT !.op = "start"]
    <3>1. m = [op |-> "start", pc |-> "idle", u |-> 0, ch |-> None, loaded |-> None]
      BY SMT DEF Idle
    <3>2. main = [m EXCEPT !.pc = "bss"]
      BY <2>1, Zenon
    <3> HIDE DEF m
    <3> QED
      BY <3>1, <3>2, SMT
  <2>3. \A u \in UARTs : ub_rx[u] = << >>
    BY <2>1, Zenon
  <2> QED
    BY <2>2, <2>3, SMT DEF RxInv, Starting, Down
<1>2. IInv /\ RxInv /\ [Next]_vars => RxInv'
  BY RxInvStep
<1> QED
  BY <1>1, <1>2, IInvHolds, PTL DEF Spec

(* The buffered bytes and the FIFO of a UART are one channel. *)
LEMMA RxChannel ==
  ASSUME IInv, RxInv, [Next]_vars
  PROVE  [Rx!ChannelNext]_(<<[u \in UARTs |-> RxInFlight(u)], {u \in UARTs : rxClosed(u)}>>)
<1>1. ASSUME NEW u \in UARTs PROVE RxStep(u)
  <2>1. CASE Clock
    BY <2>1, ClockRx, Zenon
  <2>2. CASE Main
    BY <2>2, MainRx, Zenon
  <2>3. CASE Handler
    BY <2>3, HandlerRx, Zenon
  <2>4. CASE UNCHANGED vars
    <3>1. UNCHANGED <<ub_rx, rx_buf, main>>
      BY <2>4, Zenon DEF vars
    <3>2. RxMove(u)
      BY <3>1, Zenon DEF RxMove
    <3> QED
      BY <3>1, <3>2, RxOpen, Zenon
  <2> QED
    BY <2>1, <2>2, <2>3, <2>4, Zenon DEF Next, Core
<1> DEFINE chan == [u \in UARTs |-> RxInFlight(u)]
           closed == {u \in UARTs : rxClosed(u)}
<1>2. ASSUME NEW u \in UARTs
      PROVE  IF u \in closed' THEN chan'[u] = << >>
             ELSE \/ chan'[u] = chan[u]
                  \/ /\ u \notin closed
                     /\ \/ \E b \in RxBytes : chan'[u] = Append(chan[u], b)
                        \/ chan[u] # << >> /\ chan'[u] = Tail(chan[u])
  <2>1. chan[u] = RxInFlight(u) /\ chan'[u] = RxInFlight(u)'
    BY Zenon
  <2>2. (u \in closed <=> rxClosed(u)) /\ (u \in closed' <=> rxClosed(u)')
    BY Zenon
  <2> HIDE DEF chan, closed
  <2>3. RxStep(u)
    BY <1>1, Zenon
  <2>4. CASE rxClosed(u)'
    <3>1. RxInFlight(u)' = << >>
      BY <2>4, Zenon DEF RxInFlight
    <3> QED
      BY <2>1, <2>2, <2>4, <3>1, Zenon
  <2>5. CASE ~rxClosed(u) /\ ~rxClosed(u)' /\ RxMove(u)
    <3>1. /\ RxInFlight(u) = ub_rx[u] \o rx_buf[u]
          /\ RxInFlight(u)' = ub_rx'[u] \o rx_buf'[u]
      BY <2>5, Zenon DEF RxInFlight
    <3>2. RxMove(u)
      BY <2>5, Zenon
    <3> QED
      BY <2>1, <2>2, <2>5, <3>1, <3>2, Zenon DEF RxMove
  <2>6. CASE rxClosed(u) /\ ~rxClosed(u)' /\ ub_rx'[u] \o rx_buf'[u] = << >>
    <3>1. RxInFlight(u) = << >> /\ RxInFlight(u)' = << >>
      BY <2>6, Zenon DEF RxInFlight
    <3> QED
      BY <2>1, <2>2, <2>6, <3>1, Zenon
  <2> QED
    BY <2>3, <2>4, <2>5, <2>6, Zenon DEF RxStep
<1> HIDE DEF chan, closed
<1> QED
  BY <1>2, Zenon DEF Rx!ChannelNext, Rx!Accept, Rx!Deliver, Rx!Close, chan, closed

(* Every byte that the receive FIFO of a UART accepts reaches the callers  *)
(* of getch once and in order, until the program ends: for any number of   *)
(* UARTs and every size of the FIFO and of UART_BUF_RX.                    *)
THEOREM RxImplemented == Spec => RxDelivers
<1>1. Init => Rx!ChannelInit
  <2> SUFFICES ASSUME Init PROVE \A u \in UARTs : RxInFlight(u) = << >>
    BY Zenon DEF Rx!ChannelInit
  <2>1. /\ ub_rx = [u \in UARTs |-> << >>] /\ rx_buf = [u \in UARTs |-> << >>]
    BY Zenon DEF Init
  <2>2. ASSUME NEW u \in UARTs PROVE RxInFlight(u) = << >>
    <3>1. ub_rx[u] = << >> /\ rx_buf[u] = << >>
      BY <2>1, Zenon
    <3>2. << >> \o << >> = << >>
      BY SMT
    <3> QED
      BY <3>1, <3>2, Zenon DEF RxInFlight
  <2> QED
    BY <2>2, Zenon
<1>2. IInv /\ RxInv /\ [Next]_vars =>
        [Rx!ChannelNext]_(<<[u \in UARTs |-> RxInFlight(u)], {u \in UARTs : rxClosed(u)}>>)
  BY RxChannel
<1> QED
  BY <1>1, <1>2, IInvHolds, RxInvHolds, PTL DEF Spec, RxDelivers, Rx!ChannelSpec

-----------------------------------------------------------------------------
(* The transmit side.  The bytes held for a UART are the one in            *)
(* transmission, the FIFO, the one putch sends at once, UART_BUF_TX and    *)
(* the one putch was given.                                                *)

GivenAt == {"wait", "enter", "save", "mask", "load", "store", "poll", "poll_data"}

Word(u)    == IF tx_word[u] = None THEN << >> ELSE <<tx_word[u]>>
Sending(u) == IF main.op \in {"putch"} /\ main.u = u /\ main.pc \in {"send"}
              THEN <<main.ch>> ELSE << >>
Given(u)   == IF main.op \in {"putch", "poll_putch"} /\ main.u = u /\ main.pc \in GivenAt
              THEN <<main.ch>> ELSE << >>

TxHeld(u) == Word(u) \o tx_buf[u] \o Sending(u) \o ub_tx[u] \o Given(u)

TxMove(u) ==
  \/ TxHeld(u)' = TxHeld(u)
  \/ \E b \in TxBytes : TxHeld(u)' = Append(TxHeld(u), b)
  \/ TxHeld(u) # << >> /\ TxHeld(u)' = Tail(TxHeld(u))

TxStep(u) == IF txClosed(u)' THEN TxHeld(u) = << >> /\ TxHeld(u)' = << >>
             ELSE TxHeld(u)' = TxHeld(u) \/ (~txClosed(u) /\ TxMove(u))

(* The five parts, and what the steps of the program and of the UART do to *)
(* the whole.                                                              *)
Five(a, b, c, d, e) == a \o b \o c \o d \o e

LEMMA TxTypes ==
  ASSUME IInv, NEW u \in UARTs
  PROVE  /\ TxHeld(u) = Five(Word(u), tx_buf[u], Sending(u), ub_tx[u], Given(u))
         /\ Word(u) \in Seq(TxBytes) /\ tx_buf[u] \in Seq(TxBytes)
         /\ Sending(u) \in Seq(TxBytes) /\ ub_tx[u] \in Seq(TxBytes)
         /\ Given(u) \in Seq(TxBytes)
<1>1. /\ ub_tx[u] \in BufOf(TxBytes, MAX_UART_BUF_SIZE)
      /\ tx_buf[u] \in BufOf(TxBytes, MAX_IO_BUF_SIZE)
      /\ tx_word[u] \in TxBytes \cup {None}
  BY Zenon DEF IInv, TypeOK
<1>2. ub_tx[u] \in Seq(TxBytes) /\ tx_buf[u] \in Seq(TxBytes)
  BY <1>1, SizeType, BufIsSeq, Zenon
<1>3. << >> \in Seq(TxBytes) /\ \A b \in TxBytes : <<b>> \in Seq(TxBytes)
  BY OneIsSeq, EmptySeq, Zenon
<1>4. Word(u) \in Seq(TxBytes)
  BY <1>1, <1>3, Zenon DEF Word
<1>5. Sending(u) # << >> => main.ch \in TxBytes
  <2>1. Sending(u) # << >> => main.op = "putch" /\ main.pc = "send"
    BY Zenon DEF Sending
  <2>2. main.op = "putch" /\ main.pc = "send" => main.ch \in TxBytes
    BY SMT DEF IInv, Loaded
  <2> QED
    BY <2>1, <2>2, Zenon
<1>6. Given(u) # << >> => main.ch \in TxBytes
  <2>1. Given(u) # << >> => main.op \in {"putch", "poll_putch"} /\ main.pc \in GivenAt
    BY Zenon DEF Given
  <2>2. main.op = "poll_putch" => main.ch \in TxBytes
    BY Zenon DEF IInv, Loaded
  <2>3. main.op = "putch" /\ main.pc \in GivenAt => main.ch \in TxBytes
    <3>1. main.pc \in {"poll", "poll_data"} => main.op # "putch"
      BY SMT DEF IInv, Control, OpsAt
    <3> QED
      BY <3>1, SMT DEF IInv, Loaded, GivenAt
  <2> QED
    BY <2>1, <2>2, <2>3, Zenon
<1>7. Sending(u) \in Seq(TxBytes) /\ Given(u) \in Seq(TxBytes)
  BY <1>3, <1>5, <1>6, Zenon DEF Sending, Given
<1> QED
  BY <1>2, <1>4, <1>7, Zenon DEF TxHeld, Five

LEMMA FiveType ==
  ASSUME NEW B, NEW a \in Seq(B), NEW b \in Seq(B), NEW c \in Seq(B), NEW d \in Seq(B)
  PROVE  /\ a \o b \in Seq(B) /\ a \o b \o c \in Seq(B) /\ a \o b \o c \o d \in Seq(B)
         /\ << >> \in Seq(B)
         /\ Five(<< >>, << >>, << >>, << >>, << >>) = << >>
<1>1. a \o b \in Seq(B)
  BY ConcatProperties, Zenon
<1>2. a \o b \o c \in Seq(B)
  BY <1>1, ConcatProperties, Zenon
<1>3. a \o b \o c \o d \in Seq(B)
  BY <1>2, ConcatProperties, Zenon
<1>4. << >> \in Seq(B)
  BY EmptySeq, Zenon
<1>5. << >> \o << >> = << >>
  BY SMT
<1> QED
  BY <1>1, <1>2, <1>3, <1>4, <1>5, Zenon DEF Five

(* A byte is given to putch. *)
Gains(s, t, x) == t = Append(s, x)

LEMMA FiveGiven ==
  ASSUME NEW B, NEW a \in Seq(B), NEW b \in Seq(B), NEW c \in Seq(B), NEW d \in Seq(B),
         NEW x \in B
  PROVE  Gains(Five(a, b, c, d, << >>), Five(a, b, c, d, <<x>>), x)
<1> DEFINE p == a \o b \o c \o d
<1>1. p \in Seq(B)
  BY FiveType, Zenon
<1> HIDE DEF p
<1>2. p \o << >> = p /\ Append(p, x) = p \o <<x>>
  BY <1>1, ConcatEmptySeq, AppendIsConcat, Zenon
<1>3. p \o <<x>> = Append(p \o << >>, x)
  BY <1>2, Zenon
<1> QED
  BY <1>3, Zenon DEF p, Five, Gains

(* It is stored into the buffer, *)
LEMMA FiveStored ==
  ASSUME NEW B, NEW a \in Seq(B), NEW b \in Seq(B), NEW c \in Seq(B), NEW d \in Seq(B),
         NEW x \in B
  PROVE  Five(a, b, c, Append(d, x), << >>) = Five(a, b, c, d, <<x>>)
<1> DEFINE p == a \o b \o c
           q == p \o d
           r == p \o Append(d, x)
<1>1. p \in Seq(B) /\ q \in Seq(B)
  BY FiveType, Zenon
<1> HIDE DEF p
<1>2. r = Append(q, x)
  <2>1. \A s \in Seq(B), t \in Seq(B), y \in B : s \o Append(t, y) = Append(s \o t, y)
    BY Arrives
  <2> QED
    BY <1>1, <2>1, Zenon
<1> HIDE DEF q, r
<1>3. Append(q, x) = q \o <<x>> /\ Append(q, x) \in Seq(B)
  BY <1>1, AppendIsConcat, AppendProperties, Zenon
<1>4. r \o << >> = r
  BY <1>2, <1>3, ConcatEmptySeq, Zenon
<1>5. r \o << >> = q \o <<x>>
  BY <1>2, <1>3, <1>4, Zenon
<1> QED
  BY <1>5, Zenon DEF p, q, r, Five

(* taken back to be sent at once, *)
LEMMA FiveTaken ==
  ASSUME NEW B, NEW a \in Seq(B), NEW b \in Seq(B), NEW d \in Seq(B), NEW e, d # << >>
  PROVE  Five(a, b, <<Head(d)>>, Tail(d), e) = Five(a, b, << >>, d, e)
<1> DEFINE p == a \o b
           h == Head(d)
           r == Tail(d)
<1>1. p \in Seq(B) /\ h \in B /\ r \in Seq(B) /\ d = <<h>> \o r
  BY FiveType, HeadTailProperties, ConsHead, Zenon
<1> HIDE DEF p, h, r
<1>2. <<h>> \in Seq(B) /\ p \o << >> = p
  BY <1>1, OneIsSeq, ConcatEmptySeq, Zenon
<1>3. (p \o <<h>>) \o r = p \o (<<h>> \o r)
  BY <1>1, <1>2, ConcatAssociative
<1>4. ((p \o <<h>>) \o r) \o e = ((p \o << >>) \o d) \o e
  BY <1>1, <1>2, <1>3, Zenon
<1> QED
  BY <1>4, Zenon DEF p, h, r, Five

(* stored into the FIFO of the UART, *)
LEMMA FiveSent ==
  ASSUME NEW B, NEW a \in Seq(B), NEW b \in Seq(B), NEW d, NEW e, NEW x \in B
  PROVE  Five(a, Append(b, x), << >>, d, e) = Five(a, b, <<x>>, d, e)
<1> DEFINE p == a \o b
           r == a \o Append(b, x)
<1>1. p \in Seq(B)
  BY FiveType, Zenon
<1>2. r = Append(p, x)
  <2>1. \A s \in Seq(B), t \in Seq(B), y \in B : s \o Append(t, y) = Append(s \o t, y)
    BY Arrives
  <2> QED
    BY <2>1, Zenon
<1> HIDE DEF p, r
<1>3. Append(p, x) = p \o <<x>> /\ Append(p, x) \in Seq(B)
  BY <1>1, AppendIsConcat, AppendProperties, Zenon
<1>4. r \o << >> = p \o <<x>>
  BY <1>2, <1>3, ConcatEmptySeq, Zenon
<1>5. ((r \o << >>) \o d) \o e = ((p \o <<x>>) \o d) \o e
  BY <1>4, Zenon
<1> QED
  BY <1>5, Zenon DEF p, r, Five

(* by the handler too; *)
LEMMA FiveHandled ==
  ASSUME NEW B, NEW a \in Seq(B), NEW b \in Seq(B), NEW d \in Seq(B), NEW e, d # << >>
  PROVE  Five(a, Append(b, Head(d)), << >>, Tail(d), e) = Five(a, b, << >>, d, e)
<1>1. Head(d) \in B /\ Tail(d) \in Seq(B)
  BY HeadTailProperties, Zenon
<1>2. Five(a, Append(b, Head(d)), << >>, Tail(d), e) = Five(a, b, <<Head(d)>>, Tail(d), e)
  <2>1. \A s, t : \A x \in B : Five(a, Append(b, x), << >>, s, t) = Five(a, b, <<x>>, s, t)
    BY FiveSent
  <2> QED
    BY <1>1, <2>1, Zenon
<1> QED
  BY <1>2, FiveTaken, Zenon

(* the polling putch stores it there itself. *)
LEMMA FivePolled ==
  ASSUME NEW B, NEW a \in Seq(B), NEW b \in Seq(B), NEW x \in B
  PROVE  Five(a, Append(b, x), << >>, << >>, << >>) = Five(a, b, << >>, << >>, <<x>>)
<1> DEFINE p == a \o b
<1>1. p \in Seq(B) /\ << >> \in Seq(B)
  BY FiveType, Zenon
<1>2. Five(a, Append(b, x), << >>, << >>, << >>) = Five(a, b, <<x>>, << >>, << >>)
  <2>1. \A s, t : \A y \in B : Five(a, Append(b, y), << >>, s, t) = Five(a, b, <<y>>, s, t)
    BY FiveSent
  <2> QED
    BY <2>1, Zenon
<1> HIDE DEF p
<1>3. p \o <<x>> \in Seq(B) /\ p \o << >> = p
  BY <1>1, OneIsSeq, ConcatProperties, ConcatEmptySeq, Zenon
<1>4. ((p \o <<x>>) \o << >>) \o << >> = ((p \o << >>) \o << >>) \o <<x>>
  <2>1. (p \o <<x>>) \o << >> = p \o <<x>>
    BY <1>3, ConcatEmptySeq, Zenon
  <2> QED
    BY <1>3, <2>1, Zenon
<1> QED
  BY <1>2, <1>4, Zenon DEF p, Five

(* The UART takes the next byte to send, *)
LEMMA FiveNext ==
  ASSUME NEW B, NEW b \in Seq(B), NEW c, NEW d, NEW e, b # << >>
  PROVE  Five(<<Head(b)>>, Tail(b), c, d, e) = Five(<< >>, b, c, d, e)
<1>1. <<Head(b)>> \o Tail(b) = b /\ << >> \o b = b
  BY ConsHead, ConcatEmptySeq, Zenon
<1>2. <<Head(b)>> \o Tail(b) = << >> \o b
  BY <1>1, Zenon
<1> QED
  BY <1>2, Zenon DEF Five

(* or ends a frame. *)
Loses(s, t) == s # << >> /\ Tail(s) = t

LEMMA FiveEnds ==
  ASSUME NEW B, NEW b \in Seq(B), NEW c \in Seq(B), NEW d \in Seq(B), NEW e \in Seq(B),
         NEW x \in B
  PROVE  Loses(Five(<<x>>, b, c, d, e), Five(<< >>, b, c, d, e))
<1> DEFINE p1 == <<x>> \o b
           p2 == p1 \o c
           p3 == p2 \o d
           q1 == << >> \o b
           q2 == q1 \o c
           q3 == q2 \o d
<1>1. <<x>> \in Seq(B) /\ <<x>> # << >> /\ Tail(<<x>>) = << >>
  BY OneIsSeq, SMT
<1>2. p1 # << >> /\ Tail(p1) = q1 /\ p1 \in Seq(B)
  <2>1. <<x>> \o b # << >> /\ Tail(<<x>> \o b) = Tail(<<x>>) \o b
    BY <1>1, Leaves, Zenon
  <2> QED
    BY <1>1, <2>1, ConcatProperties, Zenon
<1> HIDE DEF p1, q1
<1>3. p2 # << >> /\ Tail(p2) = q2 /\ p2 \in Seq(B)
  <2>1. p1 \o c # << >> /\ Tail(p1 \o c) = Tail(p1) \o c
    BY <1>2, Leaves, Zenon
  <2> QED
    BY <1>2, <2>1, ConcatProperties, Zenon
<1> HIDE DEF p2, q2
<1>4. p3 # << >> /\ Tail(p3) = q3 /\ p3 \in Seq(B)
  <2>1. p2 \o d # << >> /\ Tail(p2 \o d) = Tail(p2) \o d
    BY <1>3, Leaves, Zenon
  <2> QED
    BY <1>3, <2>1, ConcatProperties, Zenon
<1> HIDE DEF p3, q3
<1>5. p3 \o e # << >> /\ Tail(p3 \o e) = q3 \o e
  <2>1. p3 \o e # << >> /\ Tail(p3 \o e) = Tail(p3) \o e
    BY <1>4, Leaves, Zenon
  <2> QED
    BY <1>4, <2>1, Zenon
<1> QED
  BY <1>5, Zenon DEF p1, p2, p3, q1, q2, q3, Five, Loses

LEMMA HeldIs ==
  ASSUME NEW u
  PROVE  /\ TxHeld(u) = Five(Word(u), tx_buf[u], Sending(u), ub_tx[u], Given(u))
         /\ TxHeld(u)' = Five(Word(u)', tx_buf'[u], Sending(u)', ub_tx'[u], Given(u)')
  BY Zenon DEF TxHeld, Five

LEMMA TxSame ==
  ASSUME NEW u, Word(u)' = Word(u), tx_buf'[u] = tx_buf[u], Sending(u)' = Sending(u),
         ub_tx'[u] = ub_tx[u], Given(u)' = Given(u)
  PROVE  TxHeld(u)' = TxHeld(u) /\ TxMove(u)
<1>1. TxHeld(u)' = TxHeld(u)
  BY HeldIs, Zenon
<1> QED
  BY <1>1, Zenon DEF TxMove

(* What is closed stays empty. *)
LEMMA ClosedEmpty ==
  ASSUME IInv, TxInv, NEW u \in UARTs, txClosed(u)
  PROVE  TxHeld(u) = << >>
<1>1. main.op = "start" /\ main.pc \in {"disable", "mask_all", "reset", "activate"}
  BY Zenon DEF txClosed, resetting
<1>2. ub_tx[u] = << >> /\ tx_buf[u] = << >> /\ tx_word[u] = None
  BY <1>1, SMT DEF TxInv, TxDown, Down
<1>3. Word(u) = << >> /\ Sending(u) = << >> /\ Given(u) = << >>
  BY <1>1, <1>2, SMT DEF Word, Sending, Given
<1>4. Five(<< >>, << >>, << >>, << >>, << >>) = << >>
  <2>1. << >> \in Seq(TxBytes)
    BY EmptySeq, Zenon
  <2> QED
    BY <2>1, FiveType, Zenon
<1> QED
  BY <1>2, <1>3, <1>4, HeldIs, Zenon

LEMMA ClosedEmptyAfter ==
  ASSUME TxInv', NEW u \in UARTs, txClosed(u)'
  PROVE  TxHeld(u)' = << >>
<1>1. main'.op = "start" /\ main'.pc \in {"disable", "mask_all", "reset", "activate"}
  BY Zenon DEF txClosed, resetting
<1>2. ub_tx'[u] = << >> /\ tx_buf'[u] = << >> /\ tx_word'[u] = None
  BY <1>1, SMT DEF TxInv, TxDown, Down
<1>3. Word(u)' = << >> /\ Sending(u)' = << >> /\ Given(u)' = << >>
  BY <1>1, <1>2, SMT DEF Word, Sending, Given
<1>4. Five(<< >>, << >>, << >>, << >>, << >>) = << >>
  <2>1. << >> \in Seq(TxBytes)
    BY EmptySeq, Zenon
  <2> QED
    BY <2>1, FiveType, Zenon
<1> QED
  BY <1>2, <1>3, <1>4, HeldIs, Zenon

(* A step that leaves the main program alone. *)
LEMMA TxAside ==
  ASSUME IInv, TxInv, TxInv', NEW u \in UARTs, TxMove(u), main' = main
  PROVE  TxStep(u)
<1>1. txClosed(u)' <=> txClosed(u)
  BY Zenon DEF txClosed, resetting
<1> QED
  BY <1>1, ClosedEmpty, ClosedEmptyAfter, Zenon DEF TxStep

(* A step of the main program that is not of the start. *)
LEMMA TxOpen ==
  ASSUME NEW u \in UARTs, TxMove(u), main.op # "start", ~txClosed(u)'
  PROVE  TxStep(u)
<1>1. ~txClosed(u)
  BY Zenon DEF txClosed, resetting
<1> QED
  BY <1>1, Zenon DEF TxStep

(* The handler moves a byte from the buffer to the FIFO; putch is not      *)
(* about to send one then.                                                 *)
LEMMA IsrTxDataMove ==
  ASSUME IInv, IsrTxData, NEW u \in UARTs
  PROVE  TxMove(u)
<1> DEFINE d == ub_tx[isr.u]
           f == tx_buf[isr.u]
<1>1. /\ isr.pc = "tx_data" /\ isr.u \in UARTs
      /\ ub_tx \in [UARTs -> BufOf(TxBytes, MAX_UART_BUF_SIZE)]
      /\ tx_buf \in [UARTs -> BufOf(TxBytes, MAX_IO_BUF_SIZE)]
  BY Zenon DEF IInv, TypeOK, IsrTxData
<1>2. d # << >>
  BY <1>1, Zenon DEF IInv, Room
<1>3. oldest(d) = Head(d) /\ rest(d) = Tail(d)
  BY <1>2, Zenon DEF oldest, rest
<1>4. /\ tx_buf' = [tx_buf EXCEPT ![isr.u] = Append(f, Head(d))]
      /\ ub_tx' = [ub_tx EXCEPT ![isr.u] = Tail(d)]
      /\ UNCHANGED <<tx_word, main>>
  BY <1>3, Zenon DEF IsrTxData
<1>5. Word(u)' = Word(u) /\ Sending(u)' = Sending(u) /\ Given(u)' = Given(u)
  BY <1>4, Zenon DEF Word, Sending, Given
<1>6. Sending(u) = << >>
  <2>1. main.pc # "send"
    BY <1>1, SMT DEF IInv, Exclusive, Masked
  <2> QED
    BY <2>1, SMT DEF Sending
<1>7. CASE u = isr.u
  <2>1. tx_buf'[u] = Append(f, Head(d)) /\ ub_tx'[u] = Tail(d)
    BY <1>1, <1>4, <1>7, Zenon
  <2>2. Word(u) \in Seq(TxBytes) /\ f \in Seq(TxBytes) /\ d \in Seq(TxBytes)
    BY <1>7, TxTypes, Zenon
  <2>3. Five(Word(u), Append(f, Head(d)), << >>, Tail(d), Given(u))
          = Five(Word(u), f, << >>, d, Given(u))
    <3>1. \A a, b, s \in Seq(TxBytes) : \A e : s # << >> =>
            Five(a, Append(b, Head(s)), << >>, Tail(s), e) = Five(a, b, << >>, s, e)
      BY FiveHandled
    <3> QED
      BY <1>2, <2>2, <3>1, SMT
  <2>4. TxHeld(u)' = TxHeld(u)
    BY <1>5, <1>6, <1>7, <2>1, <2>3, HeldIs, Zenon
  <2> QED
    BY <2>4, Zenon DEF TxMove
<1>8. CASE u # isr.u
  <2>1. tx_buf'[u] = tx_buf[u] /\ ub_tx'[u] = ub_tx[u]
    BY <1>1, <1>4, <1>8, Zenon
  <2> QED
    BY <1>5, <2>1, TxSame, Zenon
<1> QED
  BY <1>7, <1>8, Zenon

LEMMA HandlerTx ==
  ASSUME IInv, Handler, NEW u \in UARTs
  PROVE  TxMove(u) /\ main' = main
<1>1. main' = main /\ tx_word' = tx_word
  BY Zenon DEF Handler, Trap, ReadIrq, IsrTxTest, IsrTxData, IsrRxTest, IsrRxData, IsrClear, Mret
<1>2. CASE IsrTxData
  BY <1>1, <1>2, IsrTxDataMove, Zenon
<1>3. CASE ~IsrTxData
  <2>1. UNCHANGED <<ub_tx, tx_buf>>
    BY <1>3, Zenon DEF Handler, Trap, ReadIrq, IsrTxTest, IsrRxTest, IsrRxData, IsrClear, Mret
  <2>2. Word(u)' = Word(u) /\ Sending(u)' = Sending(u) /\ Given(u)' = Given(u)
    BY <1>1, Zenon DEF Word, Sending, Given
  <2> QED
    BY <1>1, <2>1, <2>2, TxSame, Zenon
<1> QED
  BY <1>2, <1>3, Zenon

(* In a clock cycle a UART ends a frame, or takes a byte to send, or both. *)
LEMMA ClockTx ==
  ASSUME IInv, Clock, NEW u \in UARTs
  PROVE  TxMove(u) /\ main' = main
<1>0. PICK a \in [activated -> RxBytes \cup {None}], pressed \in SUBSET Buttons :
        \E over \in SUBSET {i \in UARTs : tx_word[i] # None /\ ~tx_irq[i]} :
          Cycle([i \in UARTs |-> IF i \in activated THEN a[i] ELSE None], over, pressed)
  BY Zenon DEF Clock
<1>1. PICK over \in SUBSET {i \in UARTs : tx_word[i] # None /\ ~tx_irq[i]} :
        Cycle([i \in UARTs |-> IF i \in activated THEN a[i] ELSE None], over, pressed)
  BY <1>0, Zenon
<1>2. /\ UNCHANGED <<ub_tx, main>>
      /\ tx_buf' = [i \in UARTs |-> IF i \in takes(over) THEN Tail(tx_buf[i]) ELSE tx_buf[i]]
      /\ tx_word' = [i \in UARTs |-> IF i \in takes(over) THEN Head(tx_buf[i])
                                     ELSE IF i \in over THEN None ELSE tx_word[i]]
  BY <1>1, Zenon DEF Cycle
<1>3. /\ Sending(u)' = Sending(u) /\ Given(u)' = Given(u) /\ ub_tx'[u] = ub_tx[u]
  BY <1>2, Zenon DEF Sending, Given
<1> DEFINE b == tx_buf[u]
           c == Sending(u)
           d == ub_tx[u]
           e == Given(u)
<1>4. b \in Seq(TxBytes) /\ c \in Seq(TxBytes) /\ d \in Seq(TxBytes) /\ e \in Seq(TxBytes)
  BY TxTypes, Zenon
<1>5. tx_word[u] \in TxBytes \cup {None} /\ None \notin TxBytes
  BY DriverAssumption, Zenon DEF IInv, TypeOK, Bytes
<1>6. u \in takes(over) => b # << >> /\ (tx_word[u] = None \/ u \in over)
  BY Zenon DEF takes
<1>7. u \in over => tx_word[u] # None
  BY <1>1, Zenon
(* The byte taken was at the head of the FIFO. *)
<1>8. u \in takes(over) => TxHeld(u)' = Five(<< >>, b, c, d, e)
  <2> SUFFICES ASSUME u \in takes(over) PROVE TxHeld(u)' = Five(<< >>, b, c, d, e)
    OBVIOUS
  <2>1. b # << >> /\ tx_buf'[u] = Tail(b) /\ tx_word'[u] = Head(b)
    BY <1>2, <1>6, Zenon
  <2>2. Head(b) \in TxBytes
    BY <1>4, <2>1, HeadTailProperties, Zenon
  <2>3. Word(u)' = <<Head(b)>>
    BY <1>5, <2>1, <2>2, Zenon DEF Word
  <2>4. Five(<<Head(b)>>, Tail(b), c, d, e) = Five(<< >>, b, c, d, e)
    <3>1. \A s \in Seq(TxBytes) : \A x, y, z : s # << >> =>
            Five(<<Head(s)>>, Tail(s), x, y, z) = Five(<< >>, s, x, y, z)
      BY FiveNext
    <3> QED
      BY <1>4, <2>1, <3>1, SMT
  <2> QED
    BY <1>3, <2>1, <2>3, <2>4, HeldIs, Zenon
(* The end of a frame takes the byte away that was in transmission. *)
<1>9. tx_word[u] # None => /\ TxHeld(u) # << >>
                           /\ Tail(TxHeld(u)) = Five(<< >>, b, c, d, e)
  <2> SUFFICES ASSUME tx_word[u] # None
               PROVE  /\ TxHeld(u) # << >>
                      /\ Tail(TxHeld(u)) = Five(<< >>, b, c, d, e)
    OBVIOUS
  <2>1. tx_word[u] \in TxBytes /\ Word(u) = <<tx_word[u]>>
    BY <1>5, Zenon DEF Word
  <2>2. TxHeld(u) = Five(<<tx_word[u]>>, b, c, d, e)
    BY <2>1, HeldIs, Zenon
  <2>3. /\ Five(<<tx_word[u]>>, b, c, d, e) # << >>
        /\ Tail(Five(<<tx_word[u]>>, b, c, d, e)) = Five(<< >>, b, c, d, e)
    <3>1. \A s, x, y, z \in Seq(TxBytes) : \A w \in TxBytes :
            Loses(Five(<<w>>, s, x, y, z), Five(<< >>, s, x, y, z))
      BY FiveEnds
    <3>2. Loses(Five(<<tx_word[u]>>, b, c, d, e), Five(<< >>, b, c, d, e))
      BY <1>4, <2>1, <3>1, SMT
    <3> QED
      BY <3>2, Zenon DEF Loses
  <2> QED
    BY <2>2, <2>3, Zenon
<1>10. tx_word[u] = None => TxHeld(u) = Five(<< >>, b, c, d, e)
  <2>1. tx_word[u] = None => Word(u) = << >>
    BY Zenon DEF Word
  <2> QED
    BY <2>1, HeldIs, Zenon
<1>11. CASE u \in takes(over) /\ tx_word[u] = None
  BY <1>2, <1>8, <1>10, <1>11, Zenon DEF TxMove
<1>12. CASE u \in takes(over) /\ tx_word[u] # None
  BY <1>2, <1>8, <1>9, <1>12, Zenon DEF TxMove
<1>13. CASE u \notin takes(over) /\ u \in over
  <2>1. tx_word'[u] = None /\ tx_buf'[u] = b
    BY <1>2, <1>13, Zenon
  <2>2. Word(u)' = << >>
    BY <2>1, Zenon DEF Word
  <2>3. TxHeld(u)' = Five(<< >>, b, c, d, e)
    BY <1>3, <2>1, <2>2, HeldIs, Zenon
  <2> QED
    BY <1>2, <1>7, <1>9, <1>13, <2>3, Zenon DEF TxMove
<1>14. CASE u \notin takes(over) /\ u \notin over
  <2>1. tx_word'[u] = tx_word[u] /\ tx_buf'[u] = tx_buf[u]
    BY <1>2, <1>14, Zenon
  <2>2. Word(u)' = Word(u)
    BY <2>1, Zenon DEF Word
  <2> QED
    BY <1>2, <1>3, <2>1, <2>2, TxSame, Zenon
<1> QED
  BY <1>11, <1>12, <1>13, <1>14, Zenon

(* Steps of the main program that move no byte: it holds none before and   *)
(* after, or the one it was given.                                         *)
NoByte == main.pc \notin GivenAt \cup {"send"} \/ main.op \notin {"putch", "poll_putch"}

LEMMA TxIdle ==
  ASSUME NoByte, NoByte', UNCHANGED <<tx_word, tx_buf, ub_tx>>, NEW u
  PROVE  TxMove(u)
<1>1. Word(u)' = Word(u) /\ tx_buf'[u] = tx_buf[u] /\ ub_tx'[u] = ub_tx[u]
  BY Zenon DEF Word
<1>2. Sending(u) = << >> /\ Given(u) = << >> /\ Sending(u)' = << >> /\ Given(u)' = << >>
  BY SMT DEF NoByte, Sending, Given
<1> QED
  BY <1>1, <1>2, TxSame, Zenon

LEMMA TxCarry ==
  ASSUME main.pc \in GivenAt, main'.pc \in GivenAt, main'.op = main.op, main'.u = main.u,
         main'.ch = main.ch, UNCHANGED <<tx_word, tx_buf, ub_tx>>, NEW u
  PROVE  TxMove(u)
<1>1. Word(u)' = Word(u) /\ tx_buf'[u] = tx_buf[u] /\ ub_tx'[u] = ub_tx[u]
  BY Zenon DEF Word
<1>2. Sending(u) = << >> /\ Sending(u)' = << >>
  BY SMT DEF GivenAt, Sending
<1>3. Given(u)' = Given(u)
  BY Zenon DEF Given
<1> QED
  BY <1>1, <1>2, <1>3, TxSame, Zenon

LEMMA CarryMove ==
  ASSUME IInv, Wait \/ Enter \/ Save \/ Mask \/ Load \/ PollTest, NEW u
  PROVE  TxMove(u)
<1>0. Records
  BY Zenon DEF IInv
<1>1. UNCHANGED <<tx_word, tx_buf, ub_tx>> /\ main.pc \in GivenAt
  BY Zenon DEF Wait, Enter, Save, Mask, Load, PollTest, GivenAt
<1>2. CASE Load
  <2>1. PICK x : main' = [main EXCEPT !.pc = "store", !.loaded = x]
    BY <1>2, Zenon DEF Load
  <2>2. main' = MainAt("store", main.u, main.ch, x)
    BY <1>0, <2>1, MainUpdates, Zenon
  <2>3. main'.pc \in GivenAt /\ main'.op = main.op /\ main'.u = main.u /\ main'.ch = main.ch
    BY <2>2, SMT DEF GivenAt
  <2> QED
    BY <1>1, <2>3, TxCarry, Zenon
<1>3. CASE Wait \/ Enter \/ Save \/ Mask \/ PollTest
  <2>1. PICK p \in {"enter", "save", "load", "mask", "poll_data"} :
          main' = [main EXCEPT !.pc = p]
    BY <1>3, Zenon DEF Wait, Enter, Save, Mask, PollTest
  <2>2. main'.pc \in GivenAt /\ main'.op = main.op /\ main'.u = main.u /\ main'.ch = main.ch
    BY <1>0, <2>1, SMT DEF GivenAt, Records
  <2> QED
    BY <1>1, <2>2, TxCarry, Zenon
<1> QED
  BY <1>2, <1>3, Zenon

LEMMA IdleMove ==
  ASSUME IInv, NEW u,
         \/ PutchCheck \/ GetchStore \/ ConsumeStore \/ Leave \/ Restore \/ PollGetch
         \/ CallEnable \/ Return \/ FlushBuf \/ FlushFifo \/ Wfi
  PROVE  TxMove(u)
<1>0. Records
  BY Zenon DEF IInv
<1>1. UNCHANGED <<tx_word, tx_buf, ub_tx>>
  BY Zenon DEF PutchCheck, GetchStore, ConsumeStore, Leave, Restore, PollGetch, CallEnable,
     Return, FlushBuf, FlushFifo, Wfi
<1>2. NoByte
  <2>1. CASE GetchStore \/ ConsumeStore \/ PollGetch
    <3>1. main.op \in {"getch", "consume", "poll_getch"}
      BY <2>1, Zenon DEF GetchStore, ConsumeStore, PollGetch
    <3> QED
      BY <3>1, SMT DEF NoByte
  <2>2. CASE ~(GetchStore \/ ConsumeStore \/ PollGetch)
    <3>1. main.pc \in {"check", "leave", "restore", "idle", "flush", "flush_fifo", "wfi"}
      BY <2>2, Zenon DEF PutchCheck, Leave, Restore, CallEnable, Return, FlushBuf, FlushFifo, Wfi
    <3> QED
      BY <3>1, SMT DEF NoByte, GivenAt
  <2> QED
    BY <2>1, <2>2, Zenon
<1>3. CASE CallEnable \/ Return \/ Wfi
  <2>1. main'.op \in {"enable", "fini", "start"}
    BY <1>3, SMT DEF CallEnable, Return, Wfi
  <2>2. NoByte'
    BY <2>1, SMT DEF NoByte
  <2> QED
    BY <1>1, <1>2, <2>2, TxIdle, Zenon
<1>4. CASE Restore \/ PollGetch \/ (Leave /\ main' = Idle)
  <2>1. main' = Idle
    BY <1>4, Zenon DEF Restore, PollGetch
  <2>2. NoByte'
    BY <2>1, SMT DEF NoByte, Idle, GivenAt
  <2> QED
    BY <1>1, <1>2, <2>2, TxIdle, Zenon
<1>5. CASE GetchStore \/ ConsumeStore
  <2>1. main' = [main EXCEPT !.pc = "leave", !.loaded = None]
    BY <1>5, Zenon DEF GetchStore, ConsumeStore
  <2>2. main' = MainAt("leave", main.u, main.ch, None)
    BY <1>0, <2>1, MainUpdates, Zenon
  <2>3. NoByte'
    BY <2>2, SMT DEF NoByte, GivenAt
  <2> QED
    BY <1>1, <1>2, <2>3, TxIdle, Zenon
<1>6. CASE PutchCheck /\ ~TX_FULL(main.u)
  <2>1. main' = [main EXCEPT !.pc = "take", !.loaded = ub_tx[main.u]]
    BY <1>6, Zenon DEF PutchCheck
  <2>2. main' = MainAt("take", main.u, main.ch, ub_tx[main.u])
    BY <1>0, <2>1, MainUpdates, Zenon
  <2>3. NoByte'
    BY <2>2, SMT DEF NoByte, GivenAt
  <2> QED
    BY <1>1, <1>2, <2>3, TxIdle, Zenon
<1>7. CASE (PutchCheck /\ TX_FULL(main.u)) \/ (Leave /\ main' # Idle) \/ FlushBuf
  <2>1. PICK p \in {"leave", "restore", "flush_fifo"} : main' = [main EXCEPT !.pc = p]
    BY <1>7, Zenon DEF PutchCheck, Leave, FlushBuf
  <2>2. NoByte'
    BY <1>0, <2>1, SMT DEF NoByte, GivenAt, Records
  <2> QED
    BY <1>1, <1>2, <2>2, TxIdle, Zenon
<1>8. CASE FlushFifo
  <2>1. CASE tx_buf[main.u] # << >>
    <3>1. main' = [main EXCEPT !.pc = "flush"]
      BY <1>8, <2>1, Zenon DEF FlushFifo
    <3>2. NoByte'
      BY <1>0, <3>1, SMT DEF NoByte, GivenAt, Records
    <3> QED
      BY <1>1, <1>2, <3>2, TxIdle, Zenon
  <2>2. CASE tx_buf[main.u] = << >>
    <3>1. PICK x \in {main.u + 1, 0}, p \in {"flush", "wfi"} :
            main' = [main EXCEPT !.u = x, !.pc = p]
      BY <1>8, <2>2, Zenon DEF FlushFifo
    <3>2. main' = MainAt(p, x, main.ch, main.loaded)
      BY <1>0, <3>1, MainUpdates, Zenon
    <3>3. NoByte'
      BY <3>2, SMT DEF NoByte, GivenAt
    <3> QED
      BY <1>1, <1>2, <3>3, TxIdle, Zenon
  <2> QED
    BY <2>1, <2>2, Zenon
<1> QED
  BY <1>3, <1>4, <1>5, <1>6, <1>7, <1>8, Zenon

(* putch accepts a byte when it is called. *)
LEMMA CallMove ==
  ASSUME IInv, Call, NEW u \in UARTs
  PROVE  TxMove(u)
<1>1. UNCHANGED <<tx_word, tx_buf, ub_tx>> /\ main.pc = "idle"
  BY Zenon DEF Call
<1>2. Word(u)' = Word(u) /\ tx_buf'[u] = tx_buf[u] /\ ub_tx'[u] = ub_tx[u]
  BY <1>1, Zenon DEF Word
<1>3. PICK op, pc, x, ch :
        /\ main' = [op |-> op, pc |-> pc, u |-> x, ch |-> ch, loaded |-> None]
        /\ \/ op \in {"poll_getch", "getch", "consume"}
           \/ op \in {"poll_putch", "putch"} /\ pc \in {"poll", "wait"} /\ ch \in TxBytes
  BY SMT DEF Call
<1>4. main'.op = op /\ main'.pc = pc /\ main'.u = x /\ main'.ch = ch
  BY <1>3, SMT
<1>5. NoByte
  BY <1>1, SMT DEF NoByte, GivenAt
<1>6. CASE op \in {"poll_getch", "getch", "consume"}
  <2>1. NoByte'
    BY <1>4, <1>6, SMT DEF NoByte
  <2> QED
    BY <1>1, <1>5, <2>1, TxIdle, Zenon
<1>7. CASE op \in {"poll_putch", "putch"} /\ pc \in {"poll", "wait"} /\ ch \in TxBytes
  <2>1. Sending(u) = << >> /\ Given(u) = << >> /\ Sending(u)' = << >>
    BY <1>1, <1>4, <1>7, SMT DEF Sending, Given, GivenAt
  <2>2. CASE u = x
    <3>1. Given(u)' = <<ch>>
      BY <1>4, <1>7, <2>2, SMT DEF Given, GivenAt
    <3>2. Word(u) \in Seq(TxBytes) /\ tx_buf[u] \in Seq(TxBytes) /\ ub_tx[u] \in Seq(TxBytes)
          /\ << >> \in Seq(TxBytes)
      BY <2>1, TxTypes, Zenon
    <3>3. Gains(Five(Word(u), tx_buf[u], << >>, ub_tx[u], << >>),
                Five(Word(u), tx_buf[u], << >>, ub_tx[u], <<ch>>), ch)
      <4>1. \A a, b, c, d \in Seq(TxBytes) : \A y \in TxBytes :
              Gains(Five(a, b, c, d, << >>), Five(a, b, c, d, <<y>>), y)
        BY FiveGiven
      <4>2. \A y \in TxBytes :
              Gains(Five(Word(u), tx_buf[u], << >>, ub_tx[u], << >>),
                    Five(Word(u), tx_buf[u], << >>, ub_tx[u], <<y>>), y)
        BY <3>2, <4>1, Zenon
      <4> QED
        BY <1>7, <4>2, Zenon
    <3>4. TxHeld(u)' = Append(TxHeld(u), ch)
      BY <1>2, <2>1, <3>1, <3>3, HeldIs, Zenon DEF Gains
    <3> QED
      BY <1>7, <3>4, Zenon DEF TxMove
  <2>3. CASE u # x
    <3>1. Given(u)' = << >>
      BY <1>4, <2>3, SMT DEF Given
    <3> QED
      BY <1>2, <2>1, <3>1, TxSame, Zenon
  <2> QED
    BY <2>2, <2>3, Zenon
<1> QED
  BY <1>3, <1>6, <1>7, Zenon

(* putch stores its byte into the buffer: it found room. *)
LEMMA PutchStoreMove ==
  ASSUME IInv, TxInv, PutchStore, NEW u \in UARTs
  PROVE  TxMove(u)
<1> DEFINE d == ub_tx[main.u]
<1>1. /\ main.pc = "store" /\ main.op = "putch" /\ main.u \in UARTs
      /\ ub_tx \in [UARTs -> BufOf(TxBytes, MAX_UART_BUF_SIZE)]
  BY Zenon DEF IInv, TypeOK, PutchStore
<1>2. main.loaded = d /\ main.ch \in TxBytes /\ ~full(d)
  BY <1>1, SMT DEF IInv, Loaded, TxInv, TxRoom
<1>3. /\ ub_tx' = [ub_tx EXCEPT ![main.u] = Append(d, main.ch)]
      /\ main' = [main EXCEPT !.pc = "check", !.ch = None, !.loaded = None]
      /\ UNCHANGED <<tx_word, tx_buf>>
  BY <1>2, Zenon DEF PutchStore, written
<1>4. main'.op = "putch" /\ main'.pc = "check"
  <2>1. Records
    BY Zenon DEF IInv
  <2>2. main' = MainAt("check", main.u, None, None)
    BY <1>3, <2>1, MainUpdates, Zenon
  <2> QED
    BY <1>1, <2>2, SMT
<1>5. /\ Word(u)' = Word(u) /\ tx_buf'[u] = tx_buf[u]
      /\ Sending(u) = << >> /\ Sending(u)' = << >> /\ Given(u)' = << >>
  BY <1>1, <1>3, <1>4, SMT DEF Word, Sending, Given, GivenAt
<1>6. CASE u = main.u
  <2>1. Given(u) = <<main.ch>> /\ ub_tx'[u] = Append(d, main.ch)
    BY <1>1, <1>3, <1>6, SMT DEF Given, GivenAt
  <2>2. Word(u) \in Seq(TxBytes) /\ tx_buf[u] \in Seq(TxBytes) /\ d \in Seq(TxBytes)
        /\ << >> \in Seq(TxBytes)
    BY <1>5, <1>6, TxTypes, Zenon
  <2>3. Five(Word(u), tx_buf[u], << >>, Append(d, main.ch), << >>)
          = Five(Word(u), tx_buf[u], << >>, d, <<main.ch>>)
    <3>1. \A a, b, c, s \in Seq(TxBytes) : \A x \in TxBytes :
            Five(a, b, c, Append(s, x), << >>) = Five(a, b, c, s, <<x>>)
      BY FiveStored
    <3>2. \A s \in Seq(TxBytes) : \A x \in TxBytes :
            Five(Word(u), tx_buf[u], << >>, Append(s, x), << >>)
              = Five(Word(u), tx_buf[u], << >>, s, <<x>>)
      BY <2>2, <3>1, Zenon
    <3> QED
      BY <1>2, <2>2, <3>2, Zenon
  <2>4. TxHeld(u)' = TxHeld(u)
    BY <1>5, <1>6, <2>1, <2>3, HeldIs, Zenon
  <2> QED
    BY <2>4, Zenon DEF TxMove
<1>7. CASE u # main.u
  <2>1. Given(u) = << >> /\ ub_tx'[u] = ub_tx[u]
    BY <1>1, <1>3, <1>7, SMT DEF Given
  <2> QED
    BY <1>5, <2>1, TxSame, Zenon
<1> QED
  BY <1>6, <1>7, Zenon

(* putch takes the oldest byte back out of the buffer, *)
LEMMA PutchTakeMove ==
  ASSUME IInv, PutchTake, NEW u \in UARTs
  PROVE  TxMove(u)
<1> DEFINE d == ub_tx[main.u]
<1>1. /\ main.pc = "take" /\ main.op = "putch" /\ main.u \in UARTs
      /\ ub_tx \in [UARTs -> BufOf(TxBytes, MAX_UART_BUF_SIZE)]
  <2>1. main.pc = "take"
    BY Zenon DEF PutchTake
  <2>2. main.op = "putch"
    BY <2>1, SMT DEF IInv, Control, OpsAt, Sections
  <2> QED
    BY <2>1, <2>2, Zenon DEF IInv, TypeOK
<1>2. main.loaded = d /\ d # << >>
  BY <1>1, SMT DEF IInv, Loaded
<1>3. rest(main.loaded) = Tail(d) /\ oldest(main.loaded) = Head(d)
  BY <1>2, Zenon DEF oldest, rest
<1>4. /\ ub_tx' = [ub_tx EXCEPT ![main.u] = Tail(d)]
      /\ main' = [main EXCEPT !.pc = "send", !.loaded = None, !.ch = Head(d)]
      /\ UNCHANGED <<tx_word, tx_buf>>
  BY <1>3, Zenon DEF PutchTake
<1>5. main'.op = "putch" /\ main'.pc = "send" /\ main'.u = main.u /\ main'.ch = Head(d)
  <2>1. Records
    BY Zenon DEF IInv
  <2>2. main' = MainAt("send", main.u, Head(d), None)
    BY <1>4, <2>1, MainUpdates, ZenonT(30)
  <2> QED
    BY <1>1, <2>2, SMT
<1>6. /\ Word(u)' = Word(u) /\ tx_buf'[u] = tx_buf[u]
      /\ Sending(u) = << >> /\ Given(u) = << >> /\ Given(u)' = << >>
  BY <1>1, <1>4, <1>5, SMT DEF Word, Sending, Given, GivenAt
<1>7. CASE u = main.u
  <2>1. Sending(u)' = <<Head(d)>> /\ ub_tx'[u] = Tail(d)
    <3>1. Sending(u)' = <<Head(d)>>
      BY <1>5, <1>7, Zenon DEF Sending
    <3> QED
      BY <1>1, <1>4, <1>7, <3>1, Zenon
  <2>2. Word(u) \in Seq(TxBytes) /\ tx_buf[u] \in Seq(TxBytes) /\ d \in Seq(TxBytes)
    BY <1>7, TxTypes, Zenon
  <2>3. Five(Word(u), tx_buf[u], <<Head(d)>>, Tail(d), << >>)
          = Five(Word(u), tx_buf[u], << >>, d, << >>)
    <3>1. \A a, b, s \in Seq(TxBytes) : \A e : s # << >> =>
            Five(a, b, <<Head(s)>>, Tail(s), e) = Five(a, b, << >>, s, e)
      BY FiveTaken
    <3> QED
      BY <1>2, <2>2, <3>1, SMT
  <2>4. TxHeld(u)' = TxHeld(u)
    BY <1>6, <1>7, <2>1, <2>3, HeldIs, Zenon
  <2> QED
    BY <2>4, Zenon DEF TxMove
<1>8. CASE u # main.u
  <2>1. Sending(u)' = << >> /\ ub_tx'[u] = ub_tx[u]
    <3>1. Sending(u)' = << >>
      BY <1>5, <1>8, Zenon DEF Sending
    <3> QED
      BY <1>1, <1>4, <1>8, <3>1, Zenon
  <2> QED
    BY <1>6, <2>1, TxSame, Zenon
<1> QED
  BY <1>7, <1>8, Zenon

(* and hands it to the UART. *)
LEMMA PutchSendMove ==
  ASSUME IInv, PutchSend, NEW u \in UARTs
  PROVE  TxMove(u)
<1> DEFINE b == tx_buf[main.u]
<1>1. /\ main.pc = "send" /\ main.op = "putch" /\ main.u \in UARTs /\ main.ch \in TxBytes
      /\ tx_buf \in [UARTs -> BufOf(TxBytes, MAX_IO_BUF_SIZE)]
  <2>1. main.pc = "send"
    BY Zenon DEF PutchSend
  <2>2. main.op = "putch"
    BY <2>1, SMT DEF IInv, Control, OpsAt, Sections
  <2> QED
    BY <2>1, <2>2, SMT DEF IInv, TypeOK, Loaded
<1>2. /\ tx_buf' = [tx_buf EXCEPT ![main.u] = Append(b, main.ch)]
      /\ main' = [main EXCEPT !.pc = "leave", !.ch = None]
      /\ UNCHANGED <<tx_word, ub_tx>>
  BY Zenon DEF PutchSend
<1>3. main'.pc = "leave"
  <2>1. Records
    BY Zenon DEF IInv
  <2>2. main' = MainAt("leave", main.u, None, main.loaded)
    BY <1>2, <2>1, MainUpdates, Zenon
  <2> QED
    BY <2>2, SMT
<1>4. /\ Word(u)' = Word(u) /\ ub_tx'[u] = ub_tx[u]
      /\ Given(u) = << >> /\ Given(u)' = << >> /\ Sending(u)' = << >>
  BY <1>1, <1>2, <1>3, SMT DEF Word, Sending, Given, GivenAt
<1>5. CASE u = main.u
  <2>1. Sending(u) = <<main.ch>> /\ tx_buf'[u] = Append(b, main.ch)
    BY <1>1, <1>2, <1>5, SMT DEF Sending
  <2>2. Word(u) \in Seq(TxBytes) /\ b \in Seq(TxBytes)
    BY <1>5, TxTypes, Zenon
  <2>3. Five(Word(u), Append(b, main.ch), << >>, ub_tx[u], << >>)
          = Five(Word(u), b, <<main.ch>>, ub_tx[u], << >>)
    <3>1. \A a, s \in Seq(TxBytes) : \A d, e : \A x \in TxBytes :
            Five(a, Append(s, x), << >>, d, e) = Five(a, s, <<x>>, d, e)
      BY FiveSent
    <3> QED
      BY <1>1, <2>2, <3>1, SMT
  <2>4. TxHeld(u)' = TxHeld(u)
    BY <1>4, <1>5, <2>1, <2>3, HeldIs, Zenon
  <2> QED
    BY <2>4, Zenon DEF TxMove
<1>6. CASE u # main.u
  <2>1. Sending(u) = << >> /\ tx_buf'[u] = tx_buf[u]
    BY <1>1, <1>2, <1>6, SMT DEF Sending
  <2> QED
    BY <1>4, <2>1, TxSame, Zenon
<1> QED
  BY <1>5, <1>6, Zenon

(* The polling putch hands its own byte over: then nothing is buffered. *)
LEMMA PollPutchMove ==
  ASSUME IInv, PollPutch, NEW u \in UARTs
  PROVE  TxMove(u)
<1> DEFINE b == tx_buf[main.u]
<1>1. /\ main.pc = "poll_data" /\ main.op = "poll_putch" /\ main.u \in UARTs
      /\ tx_buf \in [UARTs -> BufOf(TxBytes, MAX_IO_BUF_SIZE)]
  BY Zenon DEF IInv, TypeOK, PollPutch
<1>2. main.ch \in TxBytes /\ ub_tx[u] = << >>
  BY <1>1, SMT DEF IInv, Loaded, Polling
<1>3. /\ tx_buf' = [tx_buf EXCEPT ![main.u] = Append(b, main.ch)]
      /\ main' = Idle /\ UNCHANGED <<tx_word, ub_tx>>
  BY Zenon DEF PollPutch
<1>4. /\ Word(u)' = Word(u) /\ ub_tx'[u] = ub_tx[u]
      /\ Sending(u) = << >> /\ Sending(u)' = << >> /\ Given(u)' = << >>
  BY <1>1, <1>3, SMT DEF Word, Sending, Given, Idle
<1>5. CASE u = main.u
  <2>1. Given(u) = <<main.ch>> /\ tx_buf'[u] = Append(b, main.ch)
    BY <1>1, <1>3, <1>5, SMT DEF Given, GivenAt
  <2>2. Word(u) \in Seq(TxBytes) /\ b \in Seq(TxBytes)
    BY <1>5, TxTypes, Zenon
  <2>3. Five(Word(u), Append(b, main.ch), << >>, << >>, << >>)
          = Five(Word(u), b, << >>, << >>, <<main.ch>>)
    <3>1. \A a, s \in Seq(TxBytes) : \A x \in TxBytes :
            Five(a, Append(s, x), << >>, << >>, << >>) = Five(a, s, << >>, << >>, <<x>>)
      BY FivePolled
    <3> QED
      BY <1>2, <2>2, <3>1, SMT
  <2>4. TxHeld(u)' = TxHeld(u)
    BY <1>2, <1>4, <1>5, <2>1, <2>3, HeldIs, Zenon
  <2> QED
    BY <2>4, Zenon DEF TxMove
<1>6. CASE u # main.u
  <2>1. Given(u) = << >> /\ tx_buf'[u] = tx_buf[u]
    BY <1>1, <1>3, <1>6, SMT DEF Given
  <2> QED
    BY <1>4, <2>1, TxSame, Zenon
<1> QED
  BY <1>5, <1>6, Zenon

-----------------------------------------------------------------------------
(* Every step of the main program.  Before the start opens a UART there is *)
(* nothing left to send, so that its resets discard nothing.               *)

LEMMA StartKeeps ==
  ASSUME IInv, TxInv, Start, NEW u \in UARTs
  PROVE  /\ tx_word'[u] = tx_word[u] /\ tx_buf'[u] = tx_buf[u] /\ ub_tx'[u] = ub_tx[u]
         /\ main.pc \notin GivenAt \cup {"send"} /\ main'.pc \notin GivenAt \cup {"send"}
<1>0. Records /\ main.u \in UARTs /\ main.op \in OpsAt(main.pc)
  BY Zenon DEF IInv, TypeOK, Control
<1>1. CASE ClearBss
  <2>1. /\ main.pc = "bss" /\ clear_bufs /\ UNCHANGED <<tx_word, tx_buf>>
        /\ main' = [main EXCEPT !.pc = "busy"]
    BY <1>1, Zenon DEF ClearBss
  <2>2. main.op = "start" /\ main'.pc = "busy"
    BY <1>0, <2>1, SMT DEF OpsAt, Records
  <2>3. ub_tx[u] = << >>
    BY <2>1, <2>2, SMT DEF TxInv, TxDown, Down
  <2>4. ub_tx'[u] = << >>
    BY <2>1, Zenon DEF clear_bufs
  <2> QED
    BY <2>1, <2>2, <2>3, <2>4, SMT DEF GivenAt
<1>2. CASE ResetAll
  <2>1. /\ main.pc = "reset" /\ clear_bufs /\ UNCHANGED <<tx_word, tx_buf>>
        /\ main' = [main EXCEPT !.pc = "activate"] \/ main' = [main EXCEPT !.pc = "enable"]
    BY <1>2, Zenon DEF ResetAll
  <2>2. main'.pc \in {"activate", "enable"}
    BY <1>0, <2>1, SMT DEF Records
  <2>3. ub_tx[u] = << >>
    BY <2>1, SMT DEF IInv, Polling
  <2>4. ub_tx'[u] = << >>
    BY <2>1, Zenon DEF clear_bufs
  <2> QED
    BY <2>1, <2>2, <2>3, <2>4, SMT DEF GivenAt
<1>3. CASE Activate
  <2>1. /\ main.pc = "activate" /\ eachUART("enable") /\ UNCHANGED ub_tx
        /\ tx_buf' = [tx_buf EXCEPT ![main.u] = << >>]
        /\ tx_word' = [tx_word EXCEPT ![main.u] = None]
    BY <1>3, Zenon DEF Activate
  <2>2. PICK x \in UARTs, p \in {"activate", "enable"} :
          main' = MainAt(p, x, main.ch, main.loaded)
    BY <1>0, <2>1, EachUART, Zenon
  <2>3. main.op = "start" /\ main'.pc \in {"activate", "enable"}
    BY <1>0, <2>1, <2>2, SMT DEF OpsAt
  <2>4. tx_buf[u] = << >> /\ tx_word[u] = None
    BY <2>1, <2>3, SMT DEF TxInv, TxDown
  <2>5. /\ tx_buf \in [UARTs -> BufOf(TxBytes, MAX_IO_BUF_SIZE)]
        /\ tx_word \in [UARTs -> TxBytes \cup {None}]
    BY Zenon DEF IInv, TypeOK
  <2>6. tx_buf'[u] = << >> /\ tx_word'[u] = None
    BY <2>1, <2>4, <2>5, Zenon
  <2> QED
    BY <2>1, <2>3, <2>4, <2>6, SMT DEF GivenAt
<1>4. CASE Busy
  <2>1. main.pc = "busy" /\ eachUART("disable") /\ UNCHANGED <<tx_word, tx_buf, ub_tx>>
    BY <1>4, Zenon DEF Busy
  <2>2. PICK x \in UARTs, p \in {"busy", "disable"} :
          main' = MainAt(p, x, main.ch, main.loaded)
    BY <1>0, <2>1, EachUART, Zenon
  <2>3. main'.pc \in {"busy", "disable"}
    BY <2>2, SMT
  <2> QED
    BY <2>1, <2>3, SMT DEF GivenAt
<1>5. CASE Disable \/ MaskAll \/ EnableIrq \/ Unmask
  <2>1. /\ main.pc \in {"disable", "mask_all", "enable", "unmask"}
        /\ UNCHANGED <<tx_word, tx_buf, ub_tx>>
        /\ \/ \E p \in {"mask_all", "reset", "unmask"} : main' = [main EXCEPT !.pc = p]
           \/ main' = Idle
    BY <1>5, Zenon DEF Disable, MaskAll, EnableIrq, Unmask
  <2>2. main'.pc \in {"mask_all", "reset", "unmask", "idle"}
    BY <1>0, <2>1, SMT DEF Records, Idle
  <2> QED
    BY <2>1, <2>2, SMT DEF GivenAt
<1> QED
  BY <1>1, <1>2, <1>3, <1>4, <1>5, Zenon DEF Start

LEMMA StartTx ==
  ASSUME IInv, TxInv, TxInv', Start, NEW u \in UARTs
  PROVE  TxStep(u)
<1>1. /\ tx_word'[u] = tx_word[u] /\ tx_buf'[u] = tx_buf[u] /\ ub_tx'[u] = ub_tx[u]
      /\ main.pc \notin GivenAt \cup {"send"} /\ main'.pc \notin GivenAt \cup {"send"}
  BY StartKeeps, Zenon
<1>2. Word(u)' = Word(u)
  BY <1>1, Zenon DEF Word
<1>3. Sending(u) = << >> /\ Given(u) = << >> /\ Sending(u)' = << >> /\ Given(u)' = << >>
  BY <1>1, SMT DEF Sending, Given
<1>4. TxHeld(u)' = TxHeld(u)
  BY <1>1, <1>2, <1>3, TxSame, Zenon
<1> QED
  BY <1>4, ClosedEmptyAfter, Zenon DEF TxStep

LEMMA MainTx ==
  ASSUME IInv, TxInv, TxInv', Main, NEW u \in UARTs
  PROVE  TxStep(u)
<1>1. CASE Start
  BY <1>1, StartTx, Zenon
<1>2. CASE ~Start
  <2>1. main.op # "start"
    BY <1>2, NotStarting, Zenon
  <2>2. ~txClosed(u)'
    <3>1. main'.op # "start" \/ Wfi
      BY <1>2, NotStarting, Zenon
    <3>2. CASE Wfi
      <4>1. main'.pc = "bss"
        BY <3>2, SMT DEF Wfi
      <4> QED
        BY <4>1, SMT DEF txClosed, resetting
    <3>3. CASE main'.op # "start"
      BY <3>3, Zenon DEF txClosed, resetting
    <3> QED
      BY <3>1, <3>2, <3>3, Zenon
  <2>3. TxMove(u)
    <3>1. CASE Wait \/ Enter \/ Save \/ Mask \/ Load \/ PollTest
      BY <3>1, CarryMove, Zenon
    <3>2. CASE \/ PutchCheck \/ GetchStore \/ ConsumeStore \/ Leave \/ Restore \/ PollGetch
               \/ CallEnable \/ Return \/ FlushBuf \/ FlushFifo \/ Wfi
      BY <3>2, IdleMove, Zenon
    <3>3. CASE Call
      BY <3>3, CallMove, Zenon
    <3>4. CASE PutchStore
      BY <3>4, PutchStoreMove, Zenon
    <3>5. CASE PutchTake
      BY <3>5, PutchTakeMove, Zenon
    <3>6. CASE PutchSend
      BY <3>6, PutchSendMove, Zenon
    <3>7. CASE PollPutch
      BY <3>7, PollPutchMove, Zenon
    <3> QED
      BY <1>2, <3>1, <3>2, <3>3, <3>4, <3>5, <3>6, <3>7, Zenon DEF Main
  <2> QED
    BY <2>1, <2>2, <2>3, TxOpen, Zenon
<1> QED
  BY <1>1, <1>2, Zenon

-----------------------------------------------------------------------------
(* The invariant of the transmit side.  The clock and the handler only     *)
(* drain what the program no longer fills.                                 *)

Drains(u) ==
  /\ ~full(ub_tx[u]) => ~full(ub_tx'[u])
  /\ ub_tx[u] = << >> =>
       /\ ub_tx'[u] = << >>
       /\ tx_buf[u] = << >> => /\ tx_buf'[u] = << >>
                               /\ tx_word[u] = None => tx_word'[u] = None

LEMMA ClockDrains ==
  ASSUME Clock, NEW u \in UARTs
  PROVE  Drains(u) /\ main' = main
<1>0. PICK a \in [activated -> RxBytes \cup {None}], pressed \in SUBSET Buttons :
        \E over \in SUBSET {i \in UARTs : tx_word[i] # None /\ ~tx_irq[i]} :
          Cycle([i \in UARTs |-> IF i \in activated THEN a[i] ELSE None], over, pressed)
  BY Zenon DEF Clock
<1>1. PICK over \in SUBSET {i \in UARTs : tx_word[i] # None /\ ~tx_irq[i]} :
        Cycle([i \in UARTs |-> IF i \in activated THEN a[i] ELSE None], over, pressed)
  BY <1>0, Zenon
<1>2. /\ UNCHANGED <<ub_tx, main>>
      /\ tx_buf' = [i \in UARTs |-> IF i \in takes(over) THEN Tail(tx_buf[i]) ELSE tx_buf[i]]
      /\ tx_word' = [i \in UARTs |-> IF i \in takes(over) THEN Head(tx_buf[i])
                                     ELSE IF i \in over THEN None ELSE tx_word[i]]
  BY <1>1, Zenon DEF Cycle
<1>3. tx_buf[u] = << >> => u \notin takes(over)
  BY Zenon DEF takes
<1>4. tx_buf[u] = << >> => /\ tx_buf'[u] = << >>
                           /\ tx_word[u] = None => tx_word'[u] = None
  BY <1>2, <1>3, Zenon
<1> QED
  BY <1>2, <1>4, Zenon DEF Drains

LEMMA HandlerDrains ==
  ASSUME IInv, Handler, NEW u \in UARTs
  PROVE  Drains(u) /\ main' = main
<1>1. main' = main /\ tx_word' = tx_word
  BY Zenon DEF Handler, Trap, ReadIrq, IsrTxTest, IsrTxData, IsrRxTest, IsrRxData, IsrClear, Mret
<1>2. CASE IsrTxData
  <2> DEFINE d == ub_tx[isr.u]
  <2>1. /\ isr.pc = "tx_data" /\ isr.u \in UARTs
        /\ ub_tx \in [UARTs -> BufOf(TxBytes, MAX_UART_BUF_SIZE)]
        /\ tx_buf \in [UARTs -> BufOf(TxBytes, MAX_IO_BUF_SIZE)]
    BY <1>2, Zenon DEF IInv, TypeOK, IsrTxData
  <2>2. d # << >>
    BY <2>1, Zenon DEF IInv, Room
  <2>3. /\ tx_buf' = [tx_buf EXCEPT ![isr.u] = Append(@, oldest(d))]
        /\ ub_tx' = [ub_tx EXCEPT ![isr.u] = Tail(d)]
    BY <1>2, <2>2, Zenon DEF IsrTxData, rest
  <2>4. ~full(Tail(d))
    <3>1. d \in BufOf(TxBytes, MAX_UART_BUF_SIZE)
      BY <2>1, Zenon
    <3>2. Len(Tail(d)) # MAX_UART_BUF_SIZE
      BY <2>2, <3>1, SizeType, BufTail, Zenon
    <3> QED
      BY <3>2, Zenon DEF full
  <2>5. CASE u = isr.u
    <3>1. ub_tx[u] # << >> /\ ~full(ub_tx'[u])
      BY <2>1, <2>2, <2>3, <2>4, <2>5, Zenon
    <3> QED
      BY <1>1, <3>1, Zenon DEF Drains
  <2>6. CASE u # isr.u
    <3>1. ub_tx'[u] = ub_tx[u] /\ tx_buf'[u] = tx_buf[u]
      BY <2>1, <2>3, <2>6, Zenon
    <3> QED
      BY <1>1, <3>1, Zenon DEF Drains
  <2> QED
    BY <2>5, <2>6, Zenon
<1>3. CASE ~IsrTxData
  <2>1. UNCHANGED <<ub_tx, tx_buf>>
    BY <1>3, Zenon DEF Handler, Trap, ReadIrq, IsrTxTest, IsrRxTest, IsrRxData, IsrClear, Mret
  <2> QED
    BY <1>1, <2>1, Zenon DEF Drains
<1> QED
  BY <1>2, <1>3, Zenon

LEMMA DrainsKeeps ==
  ASSUME IInv, TxInv, main' = main, \A u \in UARTs : Drains(u)
  PROVE  TxInv'
<1>0. main.u \in UARTs
  BY Zenon DEF IInv, TypeOK
<1>1. TxRoom'
  BY <1>0, Zenon DEF TxInv, TxRoom, Drains
<1>2. TxFlushed'
  <2>1. ASSUME main.op = "fini", NEW u \in UARTs, u < main.u \/ main.pc = "wfi"
        PROVE  ub_tx'[u] = << >> /\ tx_buf'[u] = << >>
    BY <2>1, Zenon DEF TxInv, TxFlushed, Drains
  <2>2. main.op = "fini" /\ main.pc = "flush_fifo" => ub_tx'[main.u] = << >>
    BY <1>0, Zenon DEF TxInv, TxFlushed, Drains
  <2> QED
    BY <2>1, <2>2, Zenon DEF TxFlushed
<1>3. TxDown'
  <2>1. ASSUME main.op = "start", NEW u \in UARTs, main.pc \in Down \cup {"activate"}
        PROVE  /\ ub_tx'[u] = << >> /\ tx_buf'[u] = << >>
               /\ tx_word[u] = None => tx_word'[u] = None
    BY <2>1, Zenon DEF TxInv, TxDown, Drains
  <2>2. {"busy", "disable", "mask_all", "reset"} \subseteq Down
    BY SMT DEF Down
  <2>3. ASSUME main.op = "start", NEW u \in UARTs, main.pc = "busy", u < main.u
        PROVE  tx_word'[u] = None
    BY <2>1, <2>2, <2>3, Zenon DEF TxInv, TxDown
  <2>4. ASSUME main.op = "start", NEW u \in UARTs,
               main.pc \in {"disable", "mask_all", "reset", "activate"}
        PROVE  tx_word'[u] = None
    BY <2>1, <2>2, <2>4, Zenon DEF TxInv, TxDown
  <2> QED
    BY <2>1, <2>3, <2>4, Zenon DEF TxDown
<1> QED
  BY <1>1, <1>2, <1>3, Zenon DEF TxInv

(* Where putch has room, it has found it. *)
RoomAt == {"enter", "save", "mask", "load", "store"}

LEMMA MainRoom ==
  ASSUME IInv, TxInv, Main, ~Start
  PROVE  TxRoom'
<1>0. Records
  BY Zenon DEF IInv
<1>1. CASE Wait \/ Enter \/ Save \/ Mask
  <2>1. /\ UNCHANGED ub_tx
        /\ \E p \in {"enter", "save", "load", "mask"} : main' = [main EXCEPT !.pc = p]
        /\ main.pc \in RoomAt \/ (main.op = "putch" => ~full(ub_tx[main.u]))
    BY <1>1, Zenon DEF Wait, Enter, Save, Mask, RoomAt
  <2>2. main'.op = main.op /\ main'.u = main.u
    BY <1>0, <2>1, SMT DEF Records
  <2>3. main.op = "putch" => ~full(ub_tx[main.u])
    BY <2>1, Zenon DEF TxInv, TxRoom, RoomAt
  <2> QED
    BY <2>1, <2>2, <2>3, Zenon DEF TxRoom
<1>2. CASE Load
  <2>1. PICK x : main' = [main EXCEPT !.pc = "store", !.loaded = x]
    BY <1>2, Zenon DEF Load
  <2>2. main' = MainAt("store", main.u, main.ch, x)
    BY <1>0, <2>1, MainUpdates, Zenon
  <2>3. main'.op = main.op /\ main'.u = main.u
    BY <2>2, SMT
  <2>4. main.pc = "load" /\ UNCHANGED ub_tx
    BY <1>2, Zenon DEF Load
  <2> QED
    BY <2>3, <2>4, SMT DEF TxInv, TxRoom
<1>3. CASE ~(Wait \/ Enter \/ Save \/ Mask \/ Load)
  <2>1. main'.op # "putch" \/ main'.pc \notin RoomAt
    <3>1. CASE Call \/ CallEnable \/ Return \/ Wfi
      BY <3>1, SMT DEF Call, CallEnable, Return, Wfi, RoomAt
    <3>2. CASE Restore \/ PollPutch \/ PollGetch \/ (Leave /\ main' = Idle)
      <4>1. main' = Idle
        BY <3>2, Zenon DEF Restore, PollPutch, PollGetch
      <4> QED
        BY <4>1, SMT DEF Idle
    <3>3. CASE \/ PollTest \/ FlushBuf \/ (Leave /\ main' # Idle)
               \/ (PutchCheck /\ TX_FULL(main.u)) \/ (FlushFifo /\ tx_buf[main.u] # << >>)
      <4>1. \E p \in {"poll_data", "flush_fifo", "flush", "leave", "restore"} :
              main' = [main EXCEPT !.pc = p]
        BY <3>3, Zenon DEF PollTest, FlushBuf, Leave, PutchCheck, FlushFifo
      <4>2. main'.pc \in {"poll_data", "flush_fifo", "flush", "leave", "restore"}
        BY <1>0, <4>1, SMT DEF Records
      <4> QED
        BY <4>2, SMT DEF RoomAt
    <3>4. CASE FlushFifo /\ tx_buf[main.u] = << >>
      <4>1. PICK x \in {main.u + 1, 0}, p \in {"flush", "wfi"} :
              main' = [main EXCEPT !.u = x, !.pc = p]
        BY <3>4, Zenon DEF FlushFifo
      <4>2. main' = MainAt(p, x, main.ch, main.loaded)
        BY <1>0, <4>1, MainUpdates, Zenon
      <4> QED
        BY <4>2, SMT DEF RoomAt
    <3>5. CASE \/ PutchStore \/ PutchTake \/ PutchSend \/ GetchStore \/ ConsumeStore
               \/ (PutchCheck /\ ~TX_FULL(main.u))
      <4>1. \E p \in {"check", "send", "leave", "take"} : \E x, y :
              main' = MainAt(p, main.u, x, y)
        <5>1. CASE PutchStore
          <6>1. main' = [main EXCEPT !.pc = "check", !.ch = None, !.loaded = None]
            BY <5>1, Zenon DEF PutchStore
          <6>2. main' = MainAt("check", main.u, None, None)
            BY <1>0, <6>1, MainUpdates, Zenon
          <6> QED
            BY <6>2, Zenon
        <5>2. CASE PutchTake
          <6>1. main' = [main EXCEPT !.pc = "send", !.loaded = None,
                                     !.ch = oldest(main.loaded)]
            BY <5>2, Zenon DEF PutchTake
          <6>2. main' = MainAt("send", main.u, oldest(main.loaded), None)
            BY <1>0, <6>1, MainUpdates, Zenon
          <6> QED
            BY <6>2, Zenon
        <5>3. CASE PutchSend
          <6>1. main' = [main EXCEPT !.pc = "leave", !.ch = None]
            BY <5>3, Zenon DEF PutchSend
          <6>2. main' = MainAt("leave", main.u, None, main.loaded)
            BY <1>0, <6>1, MainUpdates, Zenon
          <6> QED
            BY <6>2, Zenon
        <5>4. CASE GetchStore \/ ConsumeStore
          <6>1. main' = [main EXCEPT !.pc = "leave", !.loaded = None]
            BY <5>4, Zenon DEF GetchStore, ConsumeStore
          <6>2. main' = MainAt("leave", main.u, main.ch, None)
            BY <1>0, <6>1, MainUpdates, Zenon
          <6> QED
            BY <6>2, Zenon
        <5>5. CASE PutchCheck /\ ~TX_FULL(main.u)
          <6>1. main' = [main EXCEPT !.pc = "take", !.loaded = ub_tx[main.u]]
            BY <5>5, Zenon DEF PutchCheck
          <6>2. main' = MainAt("take", main.u, main.ch, ub_tx[main.u])
            BY <1>0, <6>1, MainUpdates, Zenon
          <6> QED
            BY <6>2, Zenon
        <5> QED
          BY <3>5, <5>1, <5>2, <5>3, <5>4, <5>5, Zenon
      <4> QED
        BY <4>1, SMT DEF RoomAt
    <3> QED
      BY <1>3, <3>1, <3>2, <3>3, <3>4, <3>5, Zenon DEF Main, Start
  <2> QED
    BY <2>1, Zenon DEF TxRoom, RoomAt
<1> QED
  BY <1>1, <1>2, <1>3, Zenon

LEMMA MainFlushed ==
  ASSUME IInv, TxInv, Main, ~Start
  PROVE  TxFlushed'
<1>0. Records /\ main.op \in OpsAt(main.pc) /\ main.u \in UARTs
  BY Zenon DEF IInv, TypeOK, Control
<1>1. CASE Return
  <2>1. main'.pc = "flush" /\ main'.u = 0
    BY <1>1, SMT DEF Return
  <2>2. \A u \in UARTs : ~(u < main'.u)
    BY <2>1, UARTType, SMT
  <2> QED
    BY <2>1, <2>2, SMT DEF TxFlushed
<1>2. CASE FlushBuf
  <2>1. /\ main.pc = "flush" /\ ub_tx[main.u] = << >>
        /\ main' = [main EXCEPT !.pc = "flush_fifo"] /\ UNCHANGED <<ub_tx, tx_buf>>
    BY <1>2, Zenon DEF FlushBuf
  <2>2. main.op = "fini" /\ main'.pc = "flush_fifo" /\ main'.u = main.u
    BY <1>0, <2>1, SMT DEF OpsAt, Records, Sections
  <2> QED
    BY <2>1, <2>2, SMT DEF TxInv, TxFlushed
<1>3. CASE FlushFifo
  <2>1. main.pc = "flush_fifo" /\ UNCHANGED <<ub_tx, tx_buf>>
    BY <1>3, Zenon DEF FlushFifo
  <2>2. main.op = "fini"
    BY <1>0, <2>1, SMT DEF OpsAt, Sections
  <2>3. /\ ub_tx[main.u] = << >>
        /\ \A u \in UARTs : u < main.u => ub_tx[u] = << >> /\ tx_buf[u] = << >>
    BY <2>1, <2>2, Zenon DEF TxInv, TxFlushed
  <2>4. CASE tx_buf[main.u] # << >>
    <3>1. main' = [main EXCEPT !.pc = "flush"]
      BY <1>3, <2>4, Zenon DEF FlushFifo
    <3>2. main'.pc = "flush" /\ main'.u = main.u
      BY <1>0, <3>1, SMT DEF Records
    <3> QED
      BY <2>1, <2>3, <3>2, SMT DEF TxFlushed
  <2>5. CASE tx_buf[main.u] = << >>
    <3>1. \A u \in UARTs : u <= main.u => ub_tx'[u] = << >> /\ tx_buf'[u] = << >>
      <4>1. \A u \in UARTs : u <= main.u => u < main.u \/ u = main.u
        BY <1>0, UARTType, SMT
      <4> QED
        BY <2>1, <2>3, <2>5, <4>1, Zenon
    <3>2. CASE main.u + 1 \in UARTs
      <4>1. main' = [main EXCEPT !.u = main.u + 1, !.pc = "flush"]
        BY <1>3, <2>5, <3>2, Zenon DEF FlushFifo
      <4>2. main' = MainAt("flush", main.u + 1, main.ch, main.loaded)
        BY <1>0, <4>1, MainUpdates, Zenon
      <4>3. main'.pc = "flush" /\ main'.u = main.u + 1
        BY <4>2, SMT
      <4>4. \A u \in UARTs : u < main'.u => u <= main.u
        BY <1>0, <4>3, UARTType, SMT
      <4>5. main'.pc # "wfi" /\ main'.pc # "flush_fifo"
        BY <4>3, SMT
      <4> QED
        BY <3>1, <4>4, <4>5, Zenon DEF TxFlushed
    <3>3. CASE main.u + 1 \notin UARTs
      <4>1. main' = [main EXCEPT !.u = 0, !.pc = "wfi"]
        BY <1>3, <2>5, <3>3, Zenon DEF FlushFifo
      <4>2. main' = MainAt("wfi", 0, main.ch, main.loaded)
        BY <1>0, <4>1, MainUpdates, Zenon
      <4>3. main'.pc # "flush_fifo"
        BY <4>2, SMT
      <4>4. \A u \in UARTs : u <= main.u
        BY <1>0, <3>3, DriverAssumption, SMT DEF UARTs
      <4> QED
        BY <3>1, <4>3, <4>4, Zenon DEF TxFlushed
    <3> QED
      BY <3>2, <3>3, Zenon
  <2> QED
    BY <2>4, <2>5, Zenon
<1>4. CASE ~(Return \/ FlushBuf \/ FlushFifo)
  <2>1. main'.op # "fini"
    <3>1. CASE Call \/ CallEnable \/ Wfi
      BY <3>1, SMT DEF Call, CallEnable, Wfi
    <3>2. CASE ~(Call \/ CallEnable \/ Wfi)
      <4>1. main.pc \in {"wait", "enter", "save", "mask", "load", "store", "check", "take",
                         "send", "leave", "restore", "poll", "poll_data"}
        BY <1>4, <3>2, Zenon DEF Main, Wait, Enter, Save, Mask, Load, PutchStore, PutchCheck,
           PutchTake, PutchSend, GetchStore, ConsumeStore, Leave, Restore, PollTest, PollPutch,
           PollGetch
      <4>2. main.op # "fini"
        BY <1>0, <4>1, SMT DEF OpsAt, Sections
      <4>3. main'.op \in {main.op, "none"}
        BY <1>4, <3>2, NotStarting, Zenon
      <4> QED
        BY <4>2, <4>3, SMT
    <3> QED
      BY <3>1, <3>2, Zenon
  <2> QED
    BY <2>1, Zenon DEF TxFlushed
<1> QED
  BY <1>1, <1>2, <1>3, <1>4, Zenon

LEMMA MainDown ==
  ASSUME IInv, TxInv, Main, ~Start
  PROVE  TxDown'
<1>1. main'.op # "start" \/ Wfi
  BY NotStarting, Zenon
<1>2. CASE main'.op # "start"
  BY <1>2, Zenon DEF TxDown
<1>3. CASE Wfi
  <2>1. main.pc = "wfi" /\ main'.pc = "bss" /\ UNCHANGED <<ub_tx, tx_buf>>
    BY <1>3, SMT DEF Wfi
  <2>2. main.op = "fini"
    BY <2>1, SMT DEF IInv, Control, OpsAt, Sections
  <2>3. \A u \in UARTs : ub_tx'[u] = << >> /\ tx_buf'[u] = << >>
    BY <2>1, <2>2, Zenon DEF TxInv, TxFlushed
  <2> QED
    BY <2>1, <2>3, SMT DEF TxDown
<1> QED
  BY <1>1, <1>2, <1>3, Zenon

(* The start finds the transmitters idle one by one, and then keeps them   *)
(* so.                                                                     *)
LEMMA StartDown ==
  ASSUME IInv, RxInv, TxInv, Start, main'.op = "start"
  PROVE  TxDown'
<1>0. Records /\ main.u \in UARTs /\ main.op \in OpsAt(main.pc)
  BY Zenon DEF IInv, TypeOK, Control
<1>1. \A u \in UARTs : tx_word'[u] = tx_word[u] /\ tx_buf'[u] = tx_buf[u] /\ ub_tx'[u] = ub_tx[u]
  BY StartKeeps, Zenon
<1> DEFINE Empty == \A u \in UARTs : ub_tx'[u] = << >> /\ tx_buf'[u] = << >>
           Still == \A u \in UARTs : tx_word'[u] = None
<1>2. CASE ClearBss
  <2>1. main.pc = "bss" /\ main' = [main EXCEPT !.pc = "busy"]
    BY <1>2, Zenon DEF ClearBss
  <2>2. main.op = "start" /\ main'.pc = "busy" /\ main'.u = main.u
    BY <1>0, <2>1, SMT DEF OpsAt, Records
  <2>3. Empty
    BY <1>1, <2>1, <2>2, SMT DEF TxInv, TxDown, Down
  <2>4. main'.u = 0
    BY <2>1, <2>2, SMT DEF RxInv, Starting, First
  <2>5. \A u \in UARTs : ~(u < main'.u)
    BY <2>4, UARTType, SMT
  <2> QED
    BY <2>2, <2>3, <2>5, SMT DEF TxDown
<1>3. CASE Busy
  <2>1. main.pc = "busy" /\ tx_word[main.u] = None /\ eachUART("disable")
    BY <1>3, Zenon DEF Busy
  <2>2. main.op = "start"
    BY <1>0, <2>1, SMT DEF OpsAt
  <2>3. Empty
    BY <1>1, <2>1, <2>2, SMT DEF TxInv, TxDown, Down
  <2>4. \A u \in UARTs : u <= main.u => tx_word'[u] = None
    <3>1. \A u \in UARTs : u <= main.u => u < main.u \/ u = main.u
      BY <1>0, UARTType, SMT
    <3>2. \A u \in UARTs : u < main.u => tx_word[u] = None
      BY <2>1, <2>2, Zenon DEF TxInv, TxDown
    <3> QED
      BY <1>1, <2>1, <3>1, <3>2, Zenon
  <2>5. CASE main.u + 1 \in UARTs
    <3>1. main' = [main EXCEPT !.u = main.u + 1]
      BY <2>1, <2>5, Zenon DEF eachUART
    <3>2. main'.pc = "busy" /\ main'.u = main.u + 1
      BY <1>0, <2>1, <3>1, SMT DEF Records
    <3>3. \A u \in UARTs : u < main'.u => u <= main.u
      BY <1>0, <3>2, UARTType, SMT
    <3>4. main'.pc \notin {"disable", "mask_all", "reset", "activate"}
      BY <3>2, SMT
    <3> QED
      BY <2>3, <2>4, <3>3, <3>4, Zenon DEF TxDown
  <2>6. CASE main.u + 1 \notin UARTs
    <3>1. main' = [main EXCEPT !.u = 0, !.pc = "disable"]
      BY <2>1, <2>6, Zenon DEF eachUART
    <3>2. main' = MainAt("disable", 0, main.ch, main.loaded)
      BY <1>0, <3>1, MainUpdates, Zenon
    <3>3. \A u \in UARTs : u <= main.u
      BY <1>0, <2>6, DriverAssumption, SMT DEF UARTs
    <3>4. Still /\ main'.pc # "busy"
      <4>1. main'.pc # "busy"
        BY <3>2, SMT
      <4> QED
        BY <2>4, <3>3, <4>1, Zenon
    <3> QED
      BY <2>3, <3>4, Zenon DEF TxDown
  <2> QED
    BY <2>5, <2>6, Zenon
<1>4. CASE Disable \/ MaskAll \/ ResetAll \/ Activate
  <2>1. main.pc \in {"disable", "mask_all", "reset", "activate"}
    BY <1>4, Zenon DEF Disable, MaskAll, ResetAll, Activate
  <2>2. main.op = "start"
    <3>1. main.op \in {"start", "enable"}
      BY <1>0, <2>1, SMT DEF OpsAt
    <3>2. CASE ResetAll
      <4>1. main.op # "start" => main' = [main EXCEPT !.pc = "enable"]
        BY <3>2, Zenon DEF ResetAll
      <4> QED
        BY <1>0, <4>1, OpKept, Zenon
    <3>3. CASE ~ResetAll
      <4>1. main.pc # "reset"
        BY <1>4, <3>3, SMT DEF Disable, MaskAll, Activate
      <4> QED
        BY <1>0, <2>1, <4>1, SMT DEF OpsAt
    <3> QED
      BY <3>2, <3>3, Zenon
  <2>3. Empty /\ Still
    BY <1>1, <2>1, <2>2, SMT DEF TxInv, TxDown, Down
  <2>4. main'.pc # "busy"
    <3>1. CASE Activate
      <4>1. main.pc = "activate" /\ eachUART("enable")
        BY <3>1, Zenon DEF Activate
      <4>2. PICK x \in UARTs, p \in {"activate", "enable"} :
              main' = MainAt(p, x, main.ch, main.loaded)
        BY <1>0, <4>1, EachUART, Zenon
      <4> QED
        BY <4>2, SMT
    <3>2. CASE ~Activate
      <4>1. \E p \in {"mask_all", "reset", "activate", "enable"} : main' = [main EXCEPT !.pc = p]
        BY <1>4, <3>2, Zenon DEF Disable, MaskAll, ResetAll
      <4> QED
        BY <1>0, <4>1, SMT DEF Records
    <3> QED
      BY <3>1, <3>2, Zenon
  <2> QED
    BY <2>3, <2>4, Zenon DEF TxDown
<1>5. CASE EnableIrq \/ Unmask
  <2>1. main' = [main EXCEPT !.pc = "unmask"] \/ main' = Idle
    BY <1>5, Zenon DEF EnableIrq, Unmask
  <2>2. main'.pc \in {"unmask", "idle"}
    BY <1>0, <2>1, SMT DEF Records, Idle
  <2> QED
    BY <2>2, SMT DEF TxDown, Down
<1> QED
  BY <1>2, <1>3, <1>4, <1>5, Zenon DEF Start

LEMMA StartOp ==
  ASSUME IInv, Start
  PROVE  main'.op \in {"start", "enable", "none"}
<1>0. Records /\ main.u \in UARTs /\ main.op \in OpsAt(main.pc)
  BY Zenon DEF IInv, TypeOK, Control
<1>1. main.op \in {"start", "enable"}
  <2>1. main.pc \in {"bss", "busy", "disable", "mask_all", "reset", "activate", "enable",
                     "unmask"}
    BY Zenon DEF Start, ClearBss, Busy, Disable, MaskAll, ResetAll, Activate, EnableIrq, Unmask
  <2> QED
    BY <1>0, <2>1, SMT DEF OpsAt
<1>2. main'.op \in {main.op, "none"}
  <2>1. CASE Busy \/ Activate
    <3>1. PICK next : eachUART(next)
      BY <2>1, Zenon DEF Busy, Activate
    <3>2. \E x \in UARTs, p \in {main.pc, next} : main' = MainAt(p, x, main.ch, main.loaded)
      BY <1>0, <3>1, EachUART, Zenon
    <3> QED
      BY <3>2, SMT
  <2>2. CASE ~(Busy \/ Activate)
    <3>1. (\E p : main' = [main EXCEPT !.pc = p]) \/ main' = Idle
      BY <2>2, Zenon DEF Start, ClearBss, Disable, MaskAll, ResetAll, EnableIrq, Unmask
    <3> QED
      BY <1>0, <3>1, OpKept, Zenon
  <2> QED
    BY <2>1, <2>2, Zenon
<1> QED
  BY <1>1, <1>2, SMT

LEMMA TxInvStep ==
  ASSUME IInv, RxInv, TxInv, [Next]_vars
  PROVE  TxInv'
<1>1. CASE Clock
  BY <1>1, ClockDrains, DrainsKeeps, UARTType, Zenon
<1>2. CASE Handler
  BY <1>2, HandlerDrains, DrainsKeeps, UARTType, Zenon
<1>3. CASE Main /\ ~Start
  BY <1>3, MainRoom, MainFlushed, MainDown, Zenon DEF TxInv
<1>4. CASE Start
  <2>1. main'.op \in {"start", "enable", "none"}
    BY <1>4, StartOp, Zenon
  <2>2. TxRoom' /\ TxFlushed'
    BY <2>1, SMT DEF TxRoom, TxFlushed
  <2>3. CASE main'.op = "start"
    BY <1>4, <2>2, <2>3, StartDown, Zenon DEF TxInv
  <2>4. CASE main'.op # "start"
    BY <2>2, <2>4, Zenon DEF TxInv, TxDown
  <2> QED
    BY <2>3, <2>4, Zenon
<1>5. CASE UNCHANGED vars
  <2>1. UNCHANGED <<main, tx_word, tx_buf, ub_tx>>
    BY <1>5, Zenon DEF vars
  <2>2. \A u \in UARTs : Drains(u)
    BY <2>1, Zenon DEF Drains
  <2> QED
    BY <2>1, <2>2, DrainsKeeps, Zenon
<1> QED
  BY <1>1, <1>2, <1>3, <1>4, <1>5, Zenon DEF Next, Core

LEMMA TxInvHolds == Spec => []TxInv
<1>1. Init => TxInv
  <2> SUFFICES ASSUME Init PROVE TxInv
    OBVIOUS
  <2>1. /\ main = [Idle EXCEPT !.op = "start", !.pc = "bss"]
        /\ ub_tx = [u \in UARTs |-> << >>] /\ tx_buf = [u \in UARTs |-> << >>]
    BY Zenon DEF Init
  <2>2. main.op = "start" /\ main.pc = "bss"
    <3> DEFINE m == [Idle EXCEPT !.op = "start"]
    <3>1. m = [op |-> "start", pc |-> "idle", u |-> 0, ch |-> None, loaded |-> None]
      BY SMT DEF Idle
    <3>2. main = [m EXCEPT !.pc = "bss"]
      BY <2>1, Zenon
    <3> HIDE DEF m
    <3> QED
      BY <3>1, <3>2, SMT
  <2>3. \A u \in UARTs : ub_tx[u] = << >> /\ tx_buf[u] = << >>
    BY <2>1, Zenon
  <2> QED
    BY <2>2, <2>3, SMT DEF TxInv, TxRoom, TxFlushed, TxDown
<1>2. IInv /\ RxInv /\ TxInv /\ [Next]_vars => TxInv'
  BY TxInvStep
<1> QED
  BY <1>1, <1>2, IInvHolds, RxInvHolds, PTL DEF Spec

(* All that is held for a UART is one channel. *)
LEMMA TxChannel ==
  ASSUME IInv, RxInv, TxInv, [Next]_vars
  PROVE  [Tx!ChannelNext]_(<<[u \in UARTs |-> TxInFlight(u)], {u \in UARTs : txClosed(u)}>>)
<1>0. TxInv'
  BY TxInvStep
<1>1. ASSUME NEW u \in UARTs PROVE TxStep(u)
  <2>1. CASE Clock
    <3>1. TxMove(u) /\ main' = main
      BY <2>1, ClockTx, Zenon
    <3> QED
      BY <1>0, <3>1, TxAside, Zenon
  <2>2. CASE Main
    BY <1>0, <2>2, MainTx, Zenon
  <2>3. CASE Handler
    <3>1. TxMove(u) /\ main' = main
      BY <2>3, HandlerTx, Zenon
    <3> QED
      BY <1>0, <3>1, TxAside, Zenon
  <2>4. CASE UNCHANGED vars
    <3>1. UNCHANGED <<tx_word, ub_tx, tx_buf, main>>
      BY <2>4, Zenon DEF vars
    <3>2. Word(u)' = Word(u) /\ Sending(u)' = Sending(u) /\ Given(u)' = Given(u)
      BY <3>1, Zenon DEF Word, Sending, Given
    <3>3. TxMove(u)
      BY <3>1, <3>2, TxSame, Zenon
    <3> QED
      BY <1>0, <3>1, <3>3, TxAside, Zenon
  <2> QED
    BY <2>1, <2>2, <2>3, <2>4, Zenon DEF Next, Core
<1> DEFINE chan == [u \in UARTs |-> TxInFlight(u)]
           closed == {u \in UARTs : txClosed(u)}
<1>2. ASSUME NEW u \in UARTs
      PROVE  IF u \in closed' THEN chan[u] = << >> /\ chan'[u] = << >>
             ELSE \/ chan'[u] = chan[u]
                  \/ /\ u \notin closed
                     /\ \/ \E b \in TxBytes : chan'[u] = Append(chan[u], b)
                        \/ chan[u] # << >> /\ chan'[u] = Tail(chan[u])
  <2>1. chan[u] = TxHeld(u) /\ chan'[u] = TxHeld(u)'
    BY Zenon DEF TxInFlight, TxHeld, Word, Sending, Given, GivenAt
  <2>2. (u \in closed <=> txClosed(u)) /\ (u \in closed' <=> txClosed(u)')
    BY Zenon
  <2> HIDE DEF chan, closed
  <2>3. TxStep(u)
    BY <1>1, Zenon
  <2> QED
    BY <2>1, <2>2, <2>3, Zenon DEF TxStep, TxMove
<1> HIDE DEF chan, closed
<1> QED
  BY <1>2, Zenon DEF Tx!ChannelNext, Tx!Accept, Tx!Deliver, Tx!Close, chan, closed

(* Every byte given to putch leaves its UART once and in order, across the *)
(* end of a program and the resets of the next start, which discard none:  *)
(* for any number of UARTs and every size of the FIFO and of UART_BUF_TX.  *)
THEOREM TxImplemented == Spec => TxDelivers
<1>1. Init => Tx!ChannelInit
  <2> SUFFICES ASSUME Init PROVE \A u \in UARTs : TxInFlight(u) = << >>
    BY Zenon DEF Tx!ChannelInit
  <2>1. /\ main = [Idle EXCEPT !.op = "start", !.pc = "bss"]
        /\ ub_tx = [u \in UARTs |-> << >>] /\ tx_buf = [u \in UARTs |-> << >>]
        /\ tx_word = [u \in UARTs |-> None]
    BY Zenon DEF Init
  <2>2. main.op = "start"
    <3> DEFINE m == [Idle EXCEPT !.op = "start"]
    <3>1. m = [op |-> "start", pc |-> "idle", u |-> 0, ch |-> None, loaded |-> None]
      BY SMT DEF Idle
    <3>2. main = [m EXCEPT !.pc = "bss"]
      BY <2>1, Zenon
    <3> HIDE DEF m
    <3> QED
      BY <3>1, <3>2, SMT
  <2>3. ASSUME NEW u \in UARTs PROVE TxInFlight(u) = << >>
    <3>1. ub_tx[u] = << >> /\ tx_buf[u] = << >> /\ tx_word[u] = None
      BY <2>1, Zenon
    <3>2. Word(u) = << >> /\ Sending(u) = << >> /\ Given(u) = << >>
      BY <2>2, <3>1, SMT DEF Word, Sending, Given
    <3>3. Five(<< >>, << >>, << >>, << >>, << >>) = << >>
      <4>1. << >> \in Seq(TxBytes)
        BY EmptySeq, Zenon
      <4> QED
        BY <4>1, FiveType, Zenon
    <3>4. TxHeld(u) = << >>
      BY <3>1, <3>2, <3>3, HeldIs, Zenon
    <3> QED
      BY <3>4, Zenon DEF TxInFlight, TxHeld, Word, Sending, Given, GivenAt
  <2> QED
    BY <2>3, Zenon
<1>2. IInv /\ RxInv /\ TxInv /\ [Next]_vars =>
        [Tx!ChannelNext]_(<<[u \in UARTs |-> TxInFlight(u)], {u \in UARTs : txClosed(u)}>>)
  BY TxChannel
<1> QED
  BY <1>1, <1>2, IInvHolds, RxInvHolds, TxInvHolds, PTL DEF Spec, TxDelivers, Tx!ChannelSpec
=============================================================================

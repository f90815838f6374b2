------------------------------ MODULE UartDriver ------------------------------
(***************************************************************************)
(* The interrupt-driven UART driver of src/rv_test/io.c together with the  *)
(* hardware it runs against: the two FIFOs of a UART and its interrupt     *)
(* line (src/rv32_io.cpp), the edge detector and the pending bits of       *)
(* SYSCTRL::fsm, and the parts of mstatus that the driver and the trap     *)
(* logic of src/rv32.cpp use.                                              *)
(*                                                                         *)
(* Three actors: the clock (Cycle), the main program, and the interrupt    *)
(* handler, which suspends the main program wherever mstatus.mie is set.   *)
(* The main program is that of entry.S: it sets the hardware up, calls     *)
(* main, flushes the transmitters, sleeps, and starts over when an         *)
(* interrupt wakes it.  main polls the UARTs until it turns to interrupts. *)
(* A step of the program is one access to a device, a CSR or a variable    *)
(* shared with the handler; any number of clock cycles passes between two  *)
(* steps.  A UARTBuf is the sequence of the bytes stored in it: its update *)
(* loads both pointers first and stores them last, which is the pair of    *)
(* steps Load and Store.  The hardware FIFOs are queues, as IOBuf shows.   *)
(***************************************************************************)
EXTENDS Integers, Sequences, FiniteSets

CONSTANTS NU,                  \* UARTs; the source has 2, numbered from 0
          Buttons,             \* the other sources of external interrupts
          MAX_IO_BUF_SIZE,     \* bytes in a hardware FIFO
          MAX_UART_BUF_SIZE,   \* bytes in a UARTBuf
          RxBytes, TxBytes,    \* what the line sends and what main writes
          Newline,             \* '\n', the byte the driver counts
          TERMINATE_CODE,      \* ctrl-Z, the byte it takes for "abort"
          None                 \* no byte, no UART

UARTs == 0 .. NU - 1
Sources == UARTs \cup Buttons
Bytes == RxBytes \cup TxBytes

ASSUME DriverAssumption ==
  /\ NU \in Nat \ {0}
  /\ Buttons \cap Nat = {}
  /\ MAX_IO_BUF_SIZE \in Nat \ {0}
  /\ MAX_UART_BUF_SIZE \in Nat \ {0}
  /\ Newline # TERMINATE_CODE
  /\ None \notin Bytes /\ None \notin UARTs

VARIABLES
  rx_buf, tx_buf,        \* [UARTs -> Seq]: the FIFOs of each UART
  tx_word,               \* [UARTs -> Bytes or None]: the byte in transmission
  tx_irq,                \* [UARTs -> BOOLEAN]: it took a byte to send in the last cycle
  activated,             \* the UARTs that ctrl has switched on
  intr,                  \* [UARTs -> BOOLEAN]: its interrupt line
  d_intr,                \* the last three samples of the lines, [0] oldest
  ext_irq_pending,       \* the pending bits of SYSCTRL
  ext_irq_enable,        \* the sources that may interrupt
  mstatus,               \* [mie, mpie]
  ub_rx, ub_tx,          \* [UARTs -> Seq]: UART_BUF_RX and UART_BUF_TX
  num_new_lines,         \* [UARTs -> Nat]: of each UART_BUF_RX
  terminate_code,        \* [UARTs -> BOOLEAN]: of each UART_BUF_RX
  critical_section_depth,
  prv_mstatus,
  io_mode,               \* "polling" or "buffered": io_putch and io_getch
  main,                  \* [op, pc, u, ch, loaded]: the main program
  unconsumed,            \* the UART whose newline main has yet to consume
  isr,                   \* [pc, u, irq]: the interrupt handler
  stepped                \* the core has taken its step in this clock cycle

ports  == <<rx_buf, tx_buf, tx_word>>
lines  == <<tx_irq, intr, d_intr, ext_irq_pending>>
config == <<activated, ext_irq_enable, io_mode>>
hw     == <<ports, lines, config>>
bufs   == <<ub_rx, ub_tx, num_new_lines, terminate_code>>
crit   == <<critical_section_depth, prv_mstatus>>
vars   == <<hw, bufs, crit, mstatus, main, unconsumed, isr, stepped>>

Idle == [op |-> "none", pc |-> "idle", u |-> 0, ch |-> None, loaded |-> None]
Asleep == [pc |-> "asleep", u |-> 0, irq |-> {}]

Off == [mie |-> FALSE, mpie |-> FALSE]
On  == [mie |-> TRUE, mpie |-> FALSE]

(* After a hardware reset; io_putch and io_getch are initialised to the    *)
(* polling functions.                                                      *)
Init ==
  /\ rx_buf = [u \in UARTs |-> << >>] /\ tx_buf = [u \in UARTs |-> << >>]
  /\ tx_word = [u \in UARTs |-> None]
  /\ tx_irq = [u \in UARTs |-> FALSE]
  /\ activated = {}
  /\ intr = [u \in UARTs |-> FALSE]
  /\ d_intr = [k \in 0 .. 2 |-> {}]
  /\ ext_irq_pending = {} /\ ext_irq_enable = {}
  /\ mstatus = Off
  /\ ub_rx = [u \in UARTs |-> << >>] /\ ub_tx = [u \in UARTs |-> << >>]
  /\ num_new_lines = [u \in UARTs |-> 0]
  /\ terminate_code = [u \in UARTs |-> FALSE]
  /\ critical_section_depth = 0
  /\ prv_mstatus = Off
  /\ io_mode = "polling"
  /\ main = [Idle EXCEPT !.op = "start", !.pc = "bss"] /\ unconsumed = None
  /\ isr = Asleep
  /\ stepped = FALSE

-----------------------------------------------------------------------------
(* The clock.                                                              *)

TX_FULL(u)  == Len(tx_buf[u]) = MAX_IO_BUF_SIZE
RX_EMPTY(u) == rx_buf[u] = << >>

(* What irq_ctrl reads as, and what interrupts. *)
irq == ext_irq_pending \cap ext_irq_enable

(* The rising edges that two successive samples of the lines show. *)
intr_pos_edge == d_intr[1] \ d_intr[0]

(* A faulty SYSCTRL that forgets what was pending. *)
fsm_forgets(pressed) ==
  /\ d_intr' = [k \in 0 .. 2 |-> IF k < 2 THEN d_intr[k + 1]
                                          ELSE {u \in UARTs : intr[u]}]
  /\ ext_irq_pending' = intr_pos_edge \cup pressed

(* SYSCTRL samples the lines and latches their edges.  A button is a line  *)
(* of its own; `pressed' are the ones whose edge arrives in this cycle.    *)
fsm(pressed) ==
  /\ d_intr' = [k \in 0 .. 2 |-> IF k < 2 THEN d_intr[k + 1]
                                          ELSE {u \in UARTs : intr[u]}]
  /\ ext_irq_pending' = ext_irq_pending \cup intr_pos_edge \cup pressed

(* do_tx: which UARTs take the next byte to send, when some end a frame    *)
(* (over).  An idle one and one at the end of a frame take a byte whenever *)
(* there is one.                                                           *)
takes(over) == {u \in UARTs : tx_buf[u] # << >> /\ (tx_word[u] = None \/ u \in over)}

(* do_rx completes a frame (arrived[u], dropped when the FIFO is full),    *)
(* do_tx ends one and takes the next byte, and the line of a UART is up    *)
(* while bytes wait to be read and in a cycle that takes one to send, both *)
(* as they were when the cycle began.                                      *)
Cycle(arrived, over, pressed) ==
  LET taken == takes(over)
  IN  /\ fsm(pressed)
      /\ tx_irq' = [u \in UARTs |-> u \in taken]
      /\ intr' = [u \in UARTs |-> ~RX_EMPTY(u) \/ u \in taken]
      /\ rx_buf' = [u \in UARTs |->
           IF arrived[u] # None /\ Len(rx_buf[u]) < MAX_IO_BUF_SIZE
           THEN Append(rx_buf[u], arrived[u]) ELSE rx_buf[u]]
      /\ tx_word' = [u \in UARTs |-> IF u \in taken THEN Head(tx_buf[u])
                                     ELSE IF u \in over THEN None ELSE tx_word[u]]
      /\ tx_buf' = [u \in UARTs |-> IF u \in taken THEN Tail(tx_buf[u]) ELSE tx_buf[u]]
      /\ stepped' = FALSE
      /\ UNCHANGED <<config, bufs, crit, mstatus, main, unconsumed, isr>>

(* When a frame ends is a free choice, but it takes longer than a cycle.   *)
Clock == \E arrived \in [activated -> RxBytes \cup {None}], pressed \in SUBSET Buttons :
           \E over \in SUBSET {u \in UARTs : tx_word[u] # None /\ ~tx_irq[u]} :
             Cycle([u \in UARTs |-> IF u \in activated THEN arrived[u] ELSE None],
                   over, pressed)

-----------------------------------------------------------------------------
(* The main program.  It runs while the handler is asleep.                 *)

At(pc) == isr.pc = "asleep" /\ main.pc = pc
Goto(pc) == main' = [main EXCEPT !.pc = pc]

full(buf) == Len(buf) = MAX_UART_BUF_SIZE

(* UARTBuf_write of ch and UARTBuf_read, as functions of the buffer they   *)
(* loaded: a write to a full buffer is dropped, a read from an empty one   *)
(* returns 0, which is no byte at all.                                     *)
written(buf, ch) == IF full(buf) THEN buf ELSE Append(buf, ch)
oldest(buf) == IF buf = << >> THEN None ELSE Head(buf)
rest(buf)   == IF buf = << >> THEN << >> ELSE Tail(buf)

begin(op, pc, u, ch) == main' = [op |-> op, pc |-> pc, u |-> u, ch |-> ch, loaded |-> None]

(* main calls io_putch, io_getch and UARTBuf_consume_new_line: a client    *)
(* like test_rv32_4 consumes each newline it gets before it reads on, and  *)
(* may write in between.  Until it calls enable_UART_interrupt, putch and  *)
(* getch are the polling ones.                                             *)
Call ==
  /\ At("idle")
  /\ \E u \in UARTs :
       IF io_mode = "polling"
       THEN \/ \E ch \in TxBytes : begin("poll_putch", "poll", u, ch)
            \/ begin("poll_getch", "poll", u, None)
       ELSE \/ \E ch \in TxBytes : begin("putch", "wait", u, ch)
            \/ unconsumed = None /\ begin("getch", "wait", u, None)
            \/ unconsumed = u /\ begin("consume", "enter", u, None)
  /\ UNCHANGED <<hw, bufs, crit, mstatus, unconsumed, isr>>

(* The polling functions: wait for the status, then access the data. *)
PollTest ==
  /\ At("poll")
  /\ IF main.op = "poll_putch" THEN ~TX_FULL(main.u) ELSE ~RX_EMPTY(main.u)
  /\ Goto("poll_data")
  /\ UNCHANGED <<hw, bufs, crit, mstatus, unconsumed, isr>>

PollPutch ==
  /\ At("poll_data") /\ main.op = "poll_putch" /\ ~TX_FULL(main.u)
  /\ tx_buf' = [tx_buf EXCEPT ![main.u] = Append(@, main.ch)]
  /\ main' = Idle
  /\ UNCHANGED <<rx_buf, tx_word, lines, config, bufs, crit, mstatus, unconsumed, isr>>

PollGetch ==
  /\ At("poll_data") /\ main.op = "poll_getch" /\ ~RX_EMPTY(main.u)
  /\ rx_buf' = [rx_buf EXCEPT ![main.u] = Tail(@)]
  /\ main' = Idle
  /\ UNCHANGED <<tx_buf, tx_word, lines, config, bufs, crit, mstatus, unconsumed, isr>>

(* The busy wait of putch on a full and of getch on an empty buffer. *)
Wait ==
  /\ At("wait")
  /\ IF main.op = "putch" THEN ~full(ub_tx[main.u]) ELSE ub_rx[main.u] # << >>
  /\ Goto("enter")
  /\ UNCHANGED <<hw, bufs, crit, mstatus, unconsumed, isr>>

(* enter_critical_section: count, save mstatus, and clear mie, which on    *)
(* this core clears all of mstatus because csrrc with rd = x0 reads 0.     *)
(* A nested call skips both and sets the error display instead.            *)
Enter ==
  /\ At("enter")
  /\ critical_section_depth' = critical_section_depth + 1
  /\ Goto(IF critical_section_depth = 0 THEN "save" ELSE "load")
  /\ UNCHANGED <<hw, bufs, prv_mstatus, mstatus, unconsumed, isr>>

Save ==
  /\ At("save")
  /\ prv_mstatus' = mstatus
  /\ Goto("mask")
  /\ UNCHANGED <<hw, bufs, critical_section_depth, mstatus, unconsumed, isr>>

(* A faulty form that leaves interrupts enabled. *)
Mask_nothing ==
  /\ At("mask")
  /\ Goto("load")
  /\ UNCHANGED <<hw, bufs, crit, mstatus, unconsumed, isr>>

Mask ==
  /\ At("mask")
  /\ mstatus' = Off
  /\ Goto("load")
  /\ UNCHANGED <<hw, bufs, crit, unconsumed, isr>>

(* The body of a critical section is loads and stores of one shared datum. *)
Load ==
  /\ At("load")
  /\ main' = [main EXCEPT !.pc = "store", !.loaded =
       CASE main.op = "putch"   -> ub_tx[main.u]
         [] main.op = "getch"   -> ub_rx[main.u]
         [] main.op = "consume" -> num_new_lines[main.u]]
  /\ UNCHANGED <<hw, bufs, crit, mstatus, unconsumed, isr>>

(* The end of UARTBuf_write. *)
PutchStore ==
  /\ At("store") /\ main.op = "putch"
  /\ ub_tx' = [ub_tx EXCEPT ![main.u] = written(main.loaded, main.ch)]
  /\ main' = [main EXCEPT !.pc = "check", !.ch = None, !.loaded = None]
  /\ UNCHANGED <<hw, ub_rx, num_new_lines, terminate_code, crit, mstatus, unconsumed, isr>>

(* _UARTBuf_putch hands a byte to the UART at once if it has room for it. *)
PutchCheck ==
  /\ At("check")
  /\ IF TX_FULL(main.u)
     THEN Goto("leave")
     ELSE main' = [main EXCEPT !.pc = "take", !.loaded = ub_tx[main.u]]
  /\ UNCHANGED <<hw, bufs, crit, mstatus, unconsumed, isr>>

(* UARTBuf_read. *)
PutchTake ==
  /\ At("take")
  /\ main' = [main EXCEPT !.pc = "send", !.loaded = None, !.ch = oldest(main.loaded)]
  /\ ub_tx' = [ub_tx EXCEPT ![main.u] = rest(main.loaded)]
  /\ UNCHANGED <<hw, ub_rx, num_new_lines, terminate_code, crit, mstatus, unconsumed, isr>>

(* A store to the data register of a full UART stalls the core. *)
PutchSend ==
  /\ At("send") /\ ~TX_FULL(main.u)
  /\ tx_buf' = [tx_buf EXCEPT ![main.u] = Append(@, main.ch)]
  /\ main' = [main EXCEPT !.pc = "leave", !.ch = None]
  /\ UNCHANGED <<rx_buf, tx_word, lines, config, bufs, crit, mstatus,
                 unconsumed, isr>>

(* getch: the byte is the caller's as soon as the buffer is stored back. *)
GetchStore ==
  /\ At("store") /\ main.op = "getch"
  /\ ub_rx' = [ub_rx EXCEPT ![main.u] = rest(main.loaded)]
  /\ unconsumed' = IF oldest(main.loaded) = Newline THEN main.u ELSE None
  /\ main' = [main EXCEPT !.pc = "leave", !.loaded = None]
  /\ UNCHANGED <<hw, ub_tx, num_new_lines, terminate_code, crit, mstatus, isr>>

ConsumeStore ==
  /\ At("store") /\ main.op = "consume"
  /\ num_new_lines' = [num_new_lines EXCEPT ![main.u] = main.loaded - 1]
  /\ unconsumed' = None
  /\ main' = [main EXCEPT !.pc = "leave", !.loaded = None]
  /\ UNCHANGED <<hw, ub_rx, ub_tx, terminate_code, crit, mstatus, isr>>

(* A faulty form that restores mstatus and leaves the count as it was. *)
Leave_uncounted ==
  /\ At("leave")
  /\ UNCHANGED critical_section_depth
  /\ Goto("restore")
  /\ UNCHANGED <<hw, bufs, prv_mstatus, mstatus, unconsumed, isr>>

(* leave_critical_section; an unbalanced call only sets the error display. *)
Leave ==
  /\ At("leave")
  /\ critical_section_depth' = critical_section_depth - 1
  /\ IF critical_section_depth = 1 THEN Goto("restore") ELSE main' = Idle
  /\ UNCHANGED <<hw, bufs, prv_mstatus, mstatus, unconsumed, isr>>

(* A faulty form that restores mie from the mpie of the saved value. *)
Restore_mpie ==
  /\ At("restore")
  /\ mstatus' = [prv_mstatus EXCEPT !.mie = prv_mstatus.mpie]
  /\ main' = Idle
  /\ UNCHANGED <<hw, bufs, crit, unconsumed, isr>>

Restore ==
  /\ At("restore")
  /\ mstatus' = prv_mstatus
  /\ main' = Idle
  /\ UNCHANGED <<hw, bufs, crit, unconsumed, isr>>

-----------------------------------------------------------------------------
(* entry.S: what comes before main and after it.                           *)

clear_bufs == /\ ub_rx' = [u \in UARTs |-> << >>] /\ ub_tx' = [u \in UARTs |-> << >>]
              /\ num_new_lines' = [u \in UARTs |-> 0]
              /\ terminate_code' = [u \in UARTs |-> FALSE]

(* The loop that clears .bss is one step.  A handler that runs within it   *)
(* leaves a UART_BUF_RX whose flags and pointers disagree; nothing but its *)
(* own test for room looks at them before UARTBuf_reset_all.               *)
ClearBss ==
  /\ At("bss")
  /\ clear_bufs
  /\ critical_section_depth' = 0 /\ prv_mstatus' = Off
  /\ unconsumed' = None
  /\ Goto("busy")
  /\ UNCHANGED <<hw, mstatus, isr>>

(* The steps that are done for one UART after the other. *)
eachUART(next) == main' = IF main.u + 1 \in UARTs THEN [main EXCEPT !.u = @ + 1]
                                                 ELSE [main EXCEPT !.u = 0, !.pc = next]

(* A faulty form that waits for the FIFO only. *)
Busy_empty ==
  /\ At("busy") /\ tx_buf[main.u] = << >>
  /\ eachUART("disable")
  /\ UNCHANGED <<hw, bufs, crit, mstatus, unconsumed, isr>>

(* disable_UART_interrupt: wait while a UART is busy.  A frame that is     *)
(* being received makes it busy too, which only delays this step.          *)
Busy ==
  /\ At("busy") /\ tx_word[main.u] = None
  /\ eachUART("disable")
  /\ UNCHANGED <<hw, bufs, crit, mstatus, unconsumed, isr>>

Disable ==
  /\ At("disable")
  /\ io_mode' = "polling"
  /\ ext_irq_enable' = ext_irq_enable \ UARTs
  /\ Goto("mask_all")
  /\ UNCHANGED <<ports, lines, activated, bufs, crit, mstatus, unconsumed, isr>>

(* csrc with rd = x0, as in enter_critical_section. *)
MaskAll ==
  /\ At("mask_all")
  /\ mstatus' = Off
  /\ Goto("reset")
  /\ UNCHANGED <<hw, bufs, crit, unconsumed, isr>>

(* UARTBuf_reset_all, at the end of disable_UART_interrupt and at the      *)
(* beginning of enable_UART_interrupt, which then turns to the buffers.    *)
ResetAll ==
  /\ At("reset")
  /\ clear_bufs
  /\ IF main.op = "start" THEN Goto("activate") /\ UNCHANGED io_mode
                          ELSE Goto("enable") /\ io_mode' = "buffered"
  /\ UNCHANGED <<ports, lines, activated, ext_irq_enable, crit, mstatus, unconsumed, isr>>

(* _io_init: a store to ctrl activates a UART and resets both its ports.   *)
Activate ==
  /\ At("activate")
  /\ activated' = activated \cup {main.u}
  /\ rx_buf' = [rx_buf EXCEPT ![main.u] = << >>]
  /\ tx_buf' = [tx_buf EXCEPT ![main.u] = << >>]
  /\ tx_word' = [tx_word EXCEPT ![main.u] = None]
  /\ eachUART("enable")
  /\ UNCHANGED <<lines, ext_irq_enable, io_mode, bufs, crit, mstatus, unconsumed, isr>>

(* enable_BUTTON_interrupt on the way to main, enable_UART_interrupt in it. *)
EnableIrq ==
  /\ At("enable")
  /\ ext_irq_enable' = ext_irq_enable \cup (IF main.op = "start" THEN Buttons ELSE UARTs)
  /\ Goto("unmask")
  /\ UNCHANGED <<ports, lines, activated, io_mode, bufs, crit, mstatus, unconsumed, isr>>

(* csrs with rd = x0, which sets mie and clears the rest. *)
Unmask ==
  /\ At("unmask")
  /\ mstatus' = On
  /\ main' = Idle
  /\ UNCHANGED <<hw, bufs, crit, unconsumed, isr>>

(* main calls enable_UART_interrupt, at most once, or returns. *)
CallEnable ==
  /\ At("idle") /\ io_mode = "polling"
  /\ begin("enable", "reset", 0, None)
  /\ UNCHANGED <<hw, bufs, crit, mstatus, unconsumed, isr>>

Return ==
  /\ At("idle")
  /\ begin("fini", "flush", 0, None)
  /\ UNCHANGED <<hw, bufs, crit, mstatus, unconsumed, isr>>

(* flush_UART waits for the buffer and then for the FIFO to be empty.      *)
FlushBuf ==
  /\ At("flush") /\ ub_tx[main.u] = << >>
  /\ Goto("flush_fifo")
  /\ UNCHANGED <<hw, bufs, crit, mstatus, unconsumed, isr>>

FlushFifo ==
  /\ At("flush_fifo")
  /\ IF tx_buf[main.u] # << >> THEN Goto("flush")
     ELSE main' = IF main.u + 1 \in UARTs THEN [main EXCEPT !.u = @ + 1, !.pc = "flush"]
                                          ELSE [main EXCEPT !.u = 0, !.pc = "wfi"]
  /\ UNCHANGED <<hw, bufs, crit, mstatus, unconsumed, isr>>

(* wfi ends when an interrupt is there; then the program starts over.      *)
Wfi ==
  /\ At("wfi") /\ mstatus.mie /\ irq # {}
  /\ begin("start", "bss", 0, None)
  /\ UNCHANGED <<hw, bufs, crit, mstatus, unconsumed, isr>>

Start == \/ ClearBss \/ Busy \/ Disable \/ MaskAll \/ ResetAll \/ Activate
         \/ EnableIrq \/ Unmask

Main == \/ Call \/ Wait \/ Enter \/ Save \/ Mask \/ Load
        \/ PutchStore \/ PutchCheck \/ PutchTake \/ PutchSend
        \/ GetchStore \/ ConsumeStore \/ Leave \/ Restore
        \/ PollTest \/ PollPutch \/ PollGetch
        \/ Start \/ CallEnable \/ Return \/ FlushBuf \/ FlushFifo \/ Wfi

-----------------------------------------------------------------------------
(* The interrupt handler: trap, mhandler, ext_intr_handler, mret.          *)

InISR(pc) == isr.pc = pc

(* Where ext_intr_handler goes for the UARTs from i on whose bits it read. *)
service(bits, i) ==
  LET left == {u \in UARTs : u >= i /\ u \in bits}
  IN  IF left = {} THEN [pc |-> "clear", u |-> 0, irq |-> bits]
      ELSE [pc |-> "tx", u |-> CHOOSE u \in left : \A v \in left : u <= v, irq |-> bits]

(* do_trap, between two instructions of the main program. *)
Trap ==
  /\ isr.pc = "asleep"
  /\ mstatus.mie /\ irq # {}
  /\ mstatus' = [mie |-> FALSE, mpie |-> mstatus.mie]
  /\ isr' = [isr EXCEPT !.pc = "irq_ctrl"]
  /\ UNCHANGED <<hw, bufs, crit, main, unconsumed>>

ReadIrq ==
  /\ InISR("irq_ctrl")
  /\ isr' = service(irq, 0)
  /\ UNCHANGED <<hw, bufs, crit, mstatus, main, unconsumed>>

(* A faulty form of the test before a send that does not read the status. *)
IsrTxTest_blind ==
  /\ InISR("tx")
  /\ isr' = [isr EXCEPT !.pc = IF ub_tx[isr.u] # << >> THEN "tx_data" ELSE "rx"]
  /\ UNCHANGED <<hw, bufs, crit, mstatus, main, unconsumed>>

(* UARTintr_handler's first loop: its condition, then its body. *)
IsrTxTest ==
  /\ InISR("tx")
  /\ isr' = [isr EXCEPT !.pc = IF ub_tx[isr.u] # << >> /\ ~TX_FULL(isr.u)
                               THEN "tx_data" ELSE "rx"]
  /\ UNCHANGED <<hw, bufs, crit, mstatus, main, unconsumed>>

IsrTxData ==
  /\ InISR("tx_data") /\ ~TX_FULL(isr.u)
  /\ tx_buf' = [tx_buf EXCEPT ![isr.u] = Append(@, oldest(ub_tx[isr.u]))]
  /\ ub_tx' = [ub_tx EXCEPT ![isr.u] = rest(@)]
  /\ isr' = [isr EXCEPT !.pc = "tx"]
  /\ UNCHANGED <<rx_buf, tx_word, lines, config, ub_rx, num_new_lines, terminate_code, crit,
                 mstatus, main, unconsumed>>

(* A faulty form that reads the UART however full UART_BUF_RX is. *)
IsrRxTest_greedy ==
  /\ InISR("rx")
  /\ isr' = IF ~RX_EMPTY(isr.u) THEN [isr EXCEPT !.pc = "rx_data"]
            ELSE service(isr.irq, isr.u + 1)
  /\ UNCHANGED <<hw, bufs, crit, mstatus, main, unconsumed>>

(* The second loop: a full UART_BUF_RX ends it with bytes left in the FIFO. *)
IsrRxTest ==
  /\ InISR("rx")
  /\ isr' = IF ~full(ub_rx[isr.u]) /\ ~RX_EMPTY(isr.u)
            THEN [isr EXCEPT !.pc = "rx_data"]
            ELSE service(isr.irq, isr.u + 1)
  /\ UNCHANGED <<hw, bufs, crit, mstatus, main, unconsumed>>

(* A load from the data register of an empty UART stalls the core. *)
IsrRxData ==
  /\ InISR("rx_data") /\ ~RX_EMPTY(isr.u)
  /\ LET b == Head(rx_buf[isr.u])
     IN  /\ ub_rx' = [ub_rx EXCEPT ![isr.u] = written(@, b)]
         /\ num_new_lines' = [num_new_lines EXCEPT ![isr.u] =
              IF b = Newline THEN @ + 1 ELSE @]
         /\ terminate_code' = [terminate_code EXCEPT ![isr.u] = @ \/ b = TERMINATE_CODE]
  /\ rx_buf' = [rx_buf EXCEPT ![isr.u] = Tail(@)]
  /\ isr' = [isr EXCEPT !.pc = "rx"]
  /\ UNCHANGED <<tx_buf, tx_word, lines, config, ub_tx, crit,
                 mstatus, main, unconsumed>>

(* irq_ctrl = 0x7f: every pending bit, those not read included. *)
IsrClear ==
  /\ InISR("clear")
  /\ ext_irq_pending' = {}
  /\ isr' = [Asleep EXCEPT !.pc = "mret"]
  /\ UNCHANGED <<ports, tx_irq, intr, d_intr, config, bufs, crit,
                 mstatus, main, unconsumed>>

Mret ==
  /\ InISR("mret")
  /\ mstatus' = [mie |-> mstatus.mpie, mpie |-> TRUE]
  /\ isr' = Asleep
  /\ UNCHANGED <<hw, bufs, crit, main, unconsumed>>

Handler == \/ Trap \/ ReadIrq \/ IsrTxTest \/ IsrTxData
           \/ IsrRxTest \/ IsrRxData \/ IsrClear \/ Mret

(* The core takes at most one of its steps in a clock cycle. *)
Step(A) == A /\ ~stepped /\ stepped' = TRUE

Core == Step(Main \/ Handler)

Next == Clock \/ Core

Spec == Init /\ [][Next]_vars

(* The clock never stops and the core keeps executing.  A trap is strongly *)
(* fair: the core looks for one before every instruction.                  *)
FairSpec == Spec /\ WF_vars(Clock) /\ WF_vars(Core) /\ SF_vars(Step(Trap))

-----------------------------------------------------------------------------
BufOf(B, n) == UNION {[1 .. k -> B] : k \in 0 .. n}

mstatusBits == [mie : BOOLEAN, mpie : BOOLEAN]

(* The buffers stay within their bounds, the newline count too, and no     *)
(* critical section is entered inside another or left twice.               *)
TypeOK ==
  /\ rx_buf \in [UARTs -> BufOf(RxBytes, MAX_IO_BUF_SIZE)]
  /\ tx_buf \in [UARTs -> BufOf(TxBytes, MAX_IO_BUF_SIZE)]
  /\ tx_word \in [UARTs -> TxBytes \cup {None}]
  /\ tx_irq \in [UARTs -> BOOLEAN] /\ intr \in [UARTs -> BOOLEAN]
  /\ activated \subseteq UARTs /\ io_mode \in {"polling", "buffered"}
  /\ d_intr \in [0 .. 2 -> SUBSET UARTs]
  /\ ext_irq_pending \subseteq Sources /\ ext_irq_enable \subseteq Sources
  /\ mstatus \in mstatusBits /\ prv_mstatus \in mstatusBits
  /\ ub_rx \in [UARTs -> BufOf(RxBytes, MAX_UART_BUF_SIZE)]
  /\ ub_tx \in [UARTs -> BufOf(TxBytes, MAX_UART_BUF_SIZE)]
  /\ num_new_lines \in [UARTs -> 0 .. MAX_UART_BUF_SIZE + 1]
  /\ terminate_code \in [UARTs -> BOOLEAN]
  /\ critical_section_depth \in 0 .. 1
  /\ main.op \in {"none", "putch", "getch", "consume", "poll_putch", "poll_getch",
                  "start", "enable", "fini"}
  /\ main.pc \in {"idle", "wait", "enter", "save", "mask", "load", "store", "check", "take",
                  "send", "leave", "restore", "poll", "poll_data", "bss", "busy", "disable",
                  "mask_all", "reset", "activate", "enable", "unmask", "flush",
                  "flush_fifo", "wfi"}
  /\ main.u \in UARTs
  /\ main.ch \in TxBytes \cup {None}
  /\ unconsumed \in UARTs \cup {None}
  /\ isr.pc \in {"asleep", "irq_ctrl", "tx", "tx_data", "rx", "rx_data", "clear", "mret"}
  /\ isr.u \in UARTs
  /\ isr.irq \subseteq Sources
  /\ stepped \in BOOLEAN

(* No access of the driver hangs the core: where it is about to store to a *)
(* data register the transmit FIFO has room, and where it is about to load *)
(* from one a byte waits, whatever happened since it read the status.      *)
NeverStalls ==
  /\ main.pc = "send" => ~TX_FULL(main.u)
  /\ main.pc = "poll_data" => IF main.op = "poll_putch" THEN ~TX_FULL(main.u)
                                                       ELSE ~RX_EMPTY(main.u)
  /\ isr.pc = "tx_data" => ~TX_FULL(isr.u)
  /\ isr.pc = "rx_data" => ~RX_EMPTY(isr.u)

newlines(buf) == {k \in 1 .. Len(buf) : buf[k] = Newline}

(* num_new_lines, which the handler increments and the main program        *)
(* decrements, is the number of newlines in UART_BUF_RX plus the one that  *)
(* main has read and not consumed; a client that waits for a whole line    *)
(* neither hangs on a line that is there nor reads into one that is not.   *)
NewLinesCounted ==
  \A u \in UARTs : num_new_lines[u] =
    Cardinality(newlines(ub_rx[u])) + (IF unconsumed = u THEN 1 ELSE 0)

(* From the time a program starts over until it activates a UART, the      *)
(* receive side of the UART is closed, and the transmit side when it has   *)
(* been found idle.                                                        *)
resetting(u, pcs) ==
  main.op = "start" /\ (main.pc \in pcs \/ (main.pc = "activate" /\ main.u <= u))

txClosed(u) == resetting(u, {"disable", "mask_all", "reset"})
rxClosed(u) == resetting(u, {"bss", "busy", "disable", "mask_all", "reset"})

(* The bytes on their way from the line to the caller of getch, and from   *)
(* the caller of putch to the line, oldest first.                          *)
RxInFlight(u) == IF rxClosed(u) THEN << >> ELSE ub_rx[u] \o rx_buf[u]

TxInFlight(u) ==
  LET mine(ops, pcs) == IF main.op \in ops /\ main.u = u /\ main.pc \in pcs
                        THEN <<main.ch>> ELSE << >>
  IN  (IF tx_word[u] = None THEN << >> ELSE <<tx_word[u]>>)
        \o tx_buf[u] \o mine({"putch"}, {"send"}) \o ub_tx[u]
        \o mine({"putch", "poll_putch"},
                {"wait", "enter", "save", "mask", "load", "store", "poll", "poll_data"})

Rx == INSTANCE ByteChannel WITH Ports <- UARTs, Bytes <- RxBytes,
        chan   <- [u \in UARTs |-> RxInFlight(u)],
        closed <- {u \in UARTs : rxClosed(u)}, Discards <- TRUE

Tx == INSTANCE ByteChannel WITH Ports <- UARTs, Bytes <- TxBytes,
        chan   <- [u \in UARTs |-> TxInFlight(u)],
        closed <- {u \in UARTs : txClosed(u)}, Discards <- FALSE

(* Every byte the receive FIFO accepted reaches the callers of getch once  *)
(* and in order, although a handler run and a getch move bytes through the *)
(* same UARTBuf; only a program that ends leaves bytes behind.             *)
RxDelivers == Rx!ChannelSpec

(* Every byte given to putch leaves the UART once and in order, although   *)
(* putch and the handler both feed the transmit FIFO, and although the     *)
(* program ends and the next start resets buffers and UARTs: nothing is    *)
(* discarded, and no frame is cut short.                                   *)
TxDelivers == Tx!ChannelSpec

(* A waiting byte is covered while its UART is pending or an edge of its   *)
(* line is still to come.                                                  *)
Covered(u) == \/ RX_EMPTY(u)
              \/ u \in ext_irq_pending
              \/ ~(intr[u] /\ \A k \in 0 .. 2 : u \in d_intr[k])

(* Nothing but the handler's own write to irq_ctrl can leave a waiting     *)
(* byte without an interrupt: the edge detector and the pending bits lose  *)
(* none, however the edges fall.  Only while main polls can a byte arrive  *)
(* in the very cycle in which the transmitter keeps up a line that has     *)
(* been up since an interrupt already cleared.                             *)
WakeupLostOnlyByClear ==
  [][\A u \in UARTs : Covered(u) /\ ~Covered(u)' =>
       InISR("clear") \/ (io_mode = "polling" /\ tx_irq'[u])]_vars

(* Every interrupt that is enabled is acknowledged: the main program       *)
(* always leaves its critical section with interrupts on, the handler      *)
(* always ends, and starting over gets to the end.                         *)
Acknowledged == \A s \in Sources : s \in irq ~> s \notin irq

(* io.h:56, ext_irq_pending |= intr (each cycle): a line that is up shows  *)
(* in the pending bits, so a line nobody has pending is one that is down.  *)
LineShows == \A u \in UARTs : []<>(intr[u] => u \in ext_irq_pending)

=============================================================================

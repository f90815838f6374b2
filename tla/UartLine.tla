------------------------------ MODULE UartLine ------------------------------
(***************************************************************************)
(* A serial line at the level of bits: the transmitter UART::do_tx of one  *)
(* UART of src/rv32_io.cpp, the wire, and the synchroniser and receiver    *)
(* UART::do_rx of another.  A step is a clock cycle of the receiver.  The  *)
(* transmitter has a bit period of its own, so that the two clocks may     *)
(* differ, and noise may invert one bit of a frame that has parity.  The   *)
(* FIFOs are queues, as IOBuf shows.                                       *)
(***************************************************************************)
EXTENDS Integers, Sequences

CONSTANTS MAX_IO_BUF_SIZE,  \* bytes in a FIFO
          Words,            \* what is sent: numbers, of which data bits are sent
          Setups            \* how the two ends are set, see Init

ASSUME LineAssumption ==
  /\ MAX_IO_BUF_SIZE \in Nat \ {0}
  /\ Words \subseteq 0 .. 255
  /\ \A s \in Setups : /\ {s.txBaud, s.rxBaud} \subseteq Nat \ {0}
                       /\ s.param \subseteq 0 .. 15

VARIABLES
  setup,             \* how the two ends are set
  tx, tx_buf,        \* the transmitter and its FIFO
  noise,             \* "none" in this frame, "now", or "past"
  rx_bit_d,          \* the level of the wire a cycle ago: ~rx_bit_d_n
  rx, rx_buf,        \* the receiver and its FIFO
  rx_bit_samp,       \* the last sample it took
  sent,              \* history: words on the wire, the oldest first
  rest               \* history: for how long no bit of a word has been sent

vars == <<setup, tx, tx_buf, noise, rx_bit_d, rx, rx_buf, rx_bit_samp, sent, rest>>

-----------------------------------------------------------------------------
(* write_command: the fields of the control word, as the set of its bits.  *)
(* Bits [6:5] are the data length, 7 the stop length, [10:8] the parity.   *)
bitAt(param, i) == IF i \in param THEN 1 ELSE 0

data_length_idx(param) == 2 * bitAt(param, 6) + bitAt(param, 5)

bit_count_m1 == data_length_idx(setup.param) + 4

(* A faulty form, with a table of the counts less one. *)
stop_count_m1 == IF 7 \notin setup.param THEN 1
                 ELSE <<2, 1, 1, 1>>[data_length_idx(setup.param) + 1]

stop_count == IF 7 \notin setup.param THEN 1
              ELSE <<3, 2, 2, 2>>[data_length_idx(setup.param) + 1]

parity_type == IF 8 \notin setup.param THEN "none"
               ELSE CASE {9, 10} \intersect setup.param = {}      -> "odd"
                      [] {9, 10} \intersect setup.param = {9}     -> "even"
                      [] {9, 10} \intersect setup.param = {10}    -> "high"
                      [] {9, 10} \intersect setup.param = {9, 10} -> "low"

parity_bit(parity) == CASE parity_type = "odd"  -> 1 - parity
                        [] parity_type = "even" -> parity
                        [] parity_type = "high" -> 1
                        [] OTHER                -> 0

(* How many cycles of rest are told apart: two bits. *)
MaxRest == 2 * (setup.txBaud + 1)

(* UART_PORT after reset_port.  `bit' is ~bit_n: the line rests at 1. *)
reset_port == [state |-> "Idle", word |-> 0, parity |-> 0, bit_pos |-> 0, tick |-> 0,
               bit |-> 1, error |-> FALSE]

activate(port, w) == [port EXCEPT !.word = w, !.state = "Start", !.bit_pos = 0, !.parity = 0]

Init == /\ setup \in Setups
        /\ tx = reset_port /\ tx_buf = << >>
        /\ noise = "none"
        /\ rx_bit_d = 1
        /\ rx = reset_port /\ rx_buf = << >> /\ rx_bit_samp = 0
        /\ sent = << >> /\ rest = MaxRest

(* The bits of w that are sent. *)
dataOf(w) == w % 2^(bit_count_m1 + 1)

Xor(a, b) == (a + b) % 2

end_of_bit(port, m1)     == port.tick >= m1
is_half_period(port, m1) == port.tick = m1 \div 2

(* stop_count = 3 stands for a length of one and a half bits. *)
stop_at_half_period(port) == port.state = "Stop" /\ port.bit_pos # 0 /\ stop_count = 3

(* A cycle inside a bit. *)
ticked(port, m1) ==
  [port EXCEPT !.tick = @ + 1,
               !.state = IF stop_at_half_period(port) /\ is_half_period(port, m1)
                         THEN "Idle" ELSE @]

-----------------------------------------------------------------------------
(* do_tx: one disjunct for each thing it does in a cycle. *)

txFull == Len(tx_buf) = MAX_IO_BUF_SIZE

txFrameOver == \/ tx.state = "Idle"
               \/ /\ tx.state = "Stop" /\ end_of_bit(tx, setup.txBaud)
                  /\ tx.bit_pos >= stop_count

txStarts == txFrameOver /\ tx_buf # << >>

TxTake == /\ txStarts
          /\ tx' = [activate(tx, Head(tx_buf)) EXCEPT
                      !.bit = 0, !.tick = IF tx.state = "Idle" THEN @ ELSE 0]

TxRest == /\ txFrameOver /\ tx_buf = << >>
          /\ tx' = IF tx.state = "Idle" THEN tx
                   ELSE [tx EXCEPT !.state = "Idle", !.bit = 1, !.tick = 0]

TxTick == /\ tx.state # "Idle" /\ ~end_of_bit(tx, setup.txBaud)
          /\ tx' = ticked(tx, setup.txBaud)

TxData ==
  /\ tx.state = "Start" /\ end_of_bit(tx, setup.txBaud)
  /\ LET bit  == tx.word % 2
         last == tx.bit_pos = bit_count_m1
     IN  tx' = [tx EXCEPT !.tick = 0, !.bit = bit, !.word = @ \div 2,
                          !.parity = Xor(@, bit),
                          !.bit_pos = IF last THEN 0 ELSE @ + 1,
                          !.state = IF ~last THEN @
                                    ELSE IF parity_type # "none" THEN "Parity" ELSE "Stop"]

(* A faulty form of TxParity, which skips the bit. *)
TxParity_skips == /\ tx.state = "Parity" /\ end_of_bit(tx, setup.txBaud)
                  /\ tx' = [tx EXCEPT !.tick = 0, !.bit = 1, !.state = "Stop"]

TxParity == /\ tx.state = "Parity" /\ end_of_bit(tx, setup.txBaud)
            /\ tx' = [tx EXCEPT !.tick = 0, !.bit = parity_bit(tx.parity), !.state = "Stop"]

(* A faulty form of TxStop, which does not count the stop bits. *)
TxStop_forgets ==
  /\ tx.state = "Stop" /\ end_of_bit(tx, setup.txBaud) /\ tx.bit_pos < stop_count
  /\ tx' = [tx EXCEPT !.tick = 0, !.bit = 1]

TxStop == /\ tx.state = "Stop" /\ end_of_bit(tx, setup.txBaud) /\ tx.bit_pos < stop_count
          /\ tx' = [tx EXCEPT !.tick = 0, !.bit = 1, !.bit_pos = @ + 1]

do_tx == TxTake \/ TxRest \/ TxTick \/ TxData \/ TxParity \/ TxStop

-----------------------------------------------------------------------------
(* do_rx *)

rxFull == Len(rx_buf) = MAX_IO_BUF_SIZE
bit_rx == rx_bit_d
adjust_word == rx.word \div 2^(7 - bit_count_m1)

(* The last data bit is over: its word goes into the FIFO, if there is room. *)
rxCompletes == /\ rx.state = "Start" /\ end_of_bit(rx, setup.rxBaud)
               /\ rx.bit_pos > bit_count_m1

RxRest == /\ rx.state = "Idle" /\ bit_rx = 1
          /\ UNCHANGED <<rx, rx_bit_samp>>

RxStart == /\ rx.state = "Idle" /\ bit_rx = 0
           /\ rx' = activate(rx, 0)
           /\ UNCHANGED rx_bit_samp

(* The wire is sampled in the middle of every bit, the start bit included, *)
(* which is shifted out again by the data bits.                            *)
RxTick ==
  /\ rx.state # "Idle" /\ ~end_of_bit(rx, setup.rxBaud)
  /\ IF is_half_period(rx, setup.rxBaud)
       THEN /\ rx_bit_samp' = bit_rx
            /\ rx' = IF rx.state = "Start"
                     THEN [ticked(rx, setup.rxBaud) EXCEPT
                             !.word = 128 * bit_rx + (@ \div 2), !.parity = Xor(@, bit_rx)]
                     ELSE ticked(rx, setup.rxBaud)
       ELSE rx' = ticked(rx, setup.rxBaud) /\ UNCHANGED rx_bit_samp

RxData == /\ rx.state = "Start" /\ end_of_bit(rx, setup.rxBaud)
          /\ rx' = IF rxCompletes
                   THEN [rx EXCEPT !.tick = 0, !.bit_pos = 0,
                                   !.state = IF parity_type # "none" THEN "Parity" ELSE "Stop"]
                   ELSE [rx EXCEPT !.tick = 0, !.bit_pos = @ + 1]
          /\ UNCHANGED rx_bit_samp

RxParity == /\ rx.state = "Parity" /\ end_of_bit(rx, setup.rxBaud)
            /\ rx' = [rx EXCEPT !.tick = 0, !.state = "Stop", !.bit_pos = @ + 1,
                                !.error = @ \/ parity_bit(rx.parity) # rx_bit_samp]
            /\ UNCHANGED rx_bit_samp

(* Faulty forms of RxStop: one ignores a start bit that has begun, the     *)
(* other takes the last sample for the level of the wire.                  *)
RxStop_waits ==
  /\ rx.state = "Stop" /\ end_of_bit(rx, setup.rxBaud)
  /\ rx' = [rx EXCEPT !.tick = 0, !.error = @ \/ rx_bit_samp # 1 \/ rxFull,
                      !.state = IF bit_rx = 0 THEN @ ELSE "Idle"]
  /\ UNCHANGED rx_bit_samp

RxStop_checks_wire ==
  /\ rx.state = "Stop" /\ end_of_bit(rx, setup.rxBaud)
  /\ LET over == [rx EXCEPT !.tick = 0, !.error = @ \/ bit_rx # 1 \/ rxFull]
     IN  rx' = IF bit_rx = 0 THEN activate(over, 0) ELSE [over EXCEPT !.state = "Idle"]
  /\ UNCHANGED rx_bit_samp

(* One stop bit is enough for the receiver.  It is busy until its end, and *)
(* a start bit that has begun by then is taken to begin there.             *)
RxStop ==
  /\ rx.state = "Stop" /\ end_of_bit(rx, setup.rxBaud)
  /\ LET over == [rx EXCEPT !.tick = 0, !.error = @ \/ rx_bit_samp # 1 \/ rxFull]
     IN  rx' = IF bit_rx = 0 THEN activate(over, 0) ELSE [over EXCEPT !.state = "Idle"]
  /\ UNCHANGED rx_bit_samp

do_rx == RxRest \/ RxStart \/ RxTick \/ RxData \/ RxParity \/ RxStop

-----------------------------------------------------------------------------
(* The world: who writes, who reads, and the wire. *)

quiet == tx.state = "Idle" /\ rx.state = "Idle" /\ tx_buf = << >> /\ sent = << >>

(* A word is offered only when there is room (devWrite, X_UART::step).  In *)
(* a paced setup the sender also waits until the line is at rest.          *)
Offers == {<< >>} \union (IF txFull \/ (setup.paced /\ ~quiet) THEN {} ELSE {<<w>> : w \in Words})

(* The host model reads a byte as soon as there is one; the processor may  *)
(* read at any time.                                                       *)
Reads == IF setup.reader = "host" THEN {rx_buf # << >>}
         ELSE IF rx_buf = << >> THEN {FALSE} ELSE BOOLEAN

(* Noise inverts a data bit or the parity bit for as long as it is on the  *)
(* wire, one bit of a frame at most.                                       *)
Noise ==
  noise' \in IF txStarts THEN {"none"}
             ELSE IF tx.state = "Idle" \/ ~end_of_bit(tx, setup.txBaud) THEN {noise}
             ELSE IF noise = "now" THEN {"past"}
             ELSE IF setup.noisy /\ noise = "none" /\ tx.state \in {"Start", "Parity"}
                    THEN {"none", "now"} ELSE {noise}

(* set_pin *)
Wire == rx_bit_d' = IF noise = "now" THEN 1 - tx.bit ELSE tx.bit

Rest == rest' = IF tx'.state \in {"Start", "Parity"} \/ (tx'.state = "Stop" /\ tx'.bit_pos = 0)
                THEN 0
                ELSE IF rest < MaxRest THEN rest + 1 ELSE rest

Cycle(offer, rflag) ==
  /\ do_rx /\ do_tx
  /\ Wire /\ Noise /\ Rest
  /\ tx_buf' = (IF txStarts THEN Tail(tx_buf) ELSE tx_buf) \o offer
  /\ rx_buf' = (IF rflag THEN Tail(rx_buf) ELSE rx_buf)
                  \o (IF rxCompletes /\ ~rxFull THEN <<adjust_word>> ELSE << >>)
  /\ sent' = (IF rxCompletes /\ sent # << >> THEN Tail(sent) ELSE sent)
                \o (IF txStarts THEN <<dataOf(Head(tx_buf))>> ELSE << >>)
  /\ UNCHANGED setup

Next == \E offer \in Offers, rflag \in Reads : Cycle(offer, rflag)

(* Both clocks tick. *)
Spec == Init /\ [][Next]_vars /\ WF_vars(Next)

-----------------------------------------------------------------------------
(* How far the two clocks may differ.  The receiver counts from the second *)
(* cycle of a start bit, samples a bit m cycles into it, and must find the *)
(* same bit on the wire, up to the last one before the stop bits and the   *)
(* first of these.  It has to be done with a frame before the next one, or *)
(* the sender leaves room for it.                                          *)
ClocksAgree ==
  \A s \in Setups :
    LET T == s.txBaud + 1   R == s.rxBaud + 1   m == s.rxBaud \div 2
        last  == data_length_idx(s.param) + 5 + bitAt(s.param, 8)
        stops == IF 7 \in s.param THEN 2 ELSE 1
    IN  /\ last * R + m + 1 < (last + 1) * T
        /\ (last + 1) * T <= (last + 1) * R + m + 1
        /\ s.paced \/ (last + 2) * R <= (last + 1 + stops) * T

-----------------------------------------------------------------------------
Port == [state : {"Idle", "Start", "Parity", "Stop"}, word : 0 .. 255, parity : 0 .. 1,
         bit_pos : 0 .. 9, tick : Nat, bit : 0 .. 1, error : BOOLEAN]

TypeOK == /\ setup \in Setups
          /\ tx \in Port /\ tx.tick <= setup.txBaud
          /\ rx \in Port /\ rx.tick <= setup.rxBaud
          /\ tx_buf \in Seq(Words) /\ Len(tx_buf) <= MAX_IO_BUF_SIZE
          /\ rx_buf \in Seq(0 .. 255) /\ Len(rx_buf) <= MAX_IO_BUF_SIZE
          /\ noise \in {"none", "now", "past"}
          /\ rx_bit_d \in 0 .. 1 /\ rx_bit_samp \in 0 .. 1
          /\ Len(sent) <= 2 /\ rest \in 0 .. MaxRest

(* Whatever the phase between the two ends, every word arrives once, in    *)
(* order and with the bits that were sent, for every data length, parity   *)
(* and stop length; a word is lost only when the receive FIFO is full.     *)
Abstract == INSTANCE SerialLine WITH
              Capacity <- MAX_IO_BUF_SIZE,
              Sendable <- {w % 2^n : w \in Words, n \in 5 .. 8},
              Readable <- 0 .. 255,
              waiting  <- sent \o [i \in 1 .. Len(tx_buf) |-> dataOf(tx_buf[i])],
              received <- rx_buf,
              noisy    <- noise # "none"

ImplementsLine == Abstract!Line

(* The wire rests between two words for the stop bits that the control     *)
(* word asks for: one, two or, with five data bits, one and a half.        *)
halfBitsOfStop == IF 7 \notin setup.param THEN 2
                  ELSE IF data_length_idx(setup.param) = 0 THEN 3 ELSE 4

StopBitsSent == [][txStarts => 2 * rest >= halfBitsOfStop * (setup.txBaud + 1)]_vars

(* With odd or even parity, a frame in which noise has inverted a bit      *)
(* leaves rx.error when its parity bit has been received.                  *)
NoiseDetected ==
  [][rx.state = "Parity" /\ rx'.state = "Stop" /\ noise # "none"
       /\ parity_type \in {"odd", "even"} => rx'.error]_vars

(* Without noise rx.error is set only at the end of a frame that found the *)
(* receive FIFO full: no parity or stop bit is ever misread.               *)
ErrorsHaveCause == [][rx'.error /\ ~rx.error => rxFull \/ noise # "none"]_vars

(* Every word that was accepted for sending arrives: neither end gets      *)
(* stuck in a frame.                                                       *)
Drains == []<>(rxCompletes \/ (sent = << >> /\ tx_buf = << >>))
=============================================================================

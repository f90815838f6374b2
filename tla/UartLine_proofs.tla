--------------------------- MODULE UartLine_proofs ---------------------------
(***************************************************************************)
(* The serial line, for every baud rate of either end and every format:    *)
(* how far the transmitter is in a frame, and that its stop bits last.     *)
(* Then, for two ends whose clocks may differ by as much as ClocksAgree    *)
(* allows: the receiver follows each frame two cycles behind, and the line *)
(* is the queue of SerialLine.                                             *)
(***************************************************************************)
EXTENDS UartLine, SequenceTheorems, TLAPS

(* A port is its seven registers. *)
Shaped(port) == port = [state |-> port.state, word |-> port.word, parity |-> port.parity,
                        bit_pos |-> port.bit_pos, tick |-> port.tick, bit |-> port.bit,
                        error |-> port.error]

(* Writing a register leaves a port one. *)
LEMMA Edits ==
  ASSUME NEW p, Shaped(p), NEW x
  PROVE  /\ Shaped([p EXCEPT !.state = x]) /\ Shaped([p EXCEPT !.word = x])
         /\ Shaped([p EXCEPT !.parity = x]) /\ Shaped([p EXCEPT !.bit_pos = x])
         /\ Shaped([p EXCEPT !.tick = x]) /\ Shaped([p EXCEPT !.bit = x])
         /\ Shaped([p EXCEPT !.error = x])
<1>1. Shaped([p EXCEPT !.state = x]) /\ Shaped([p EXCEPT !.word = x])
  BY SMT DEF Shaped
<1>2. Shaped([p EXCEPT !.parity = x]) /\ Shaped([p EXCEPT !.bit_pos = x])
  BY SMT DEF Shaped
<1>3. Shaped([p EXCEPT !.tick = x]) /\ Shaped([p EXCEPT !.bit = x])
  BY SMT DEF Shaped
<1>4. Shaped([p EXCEPT !.error = x])
  BY SMT DEF Shaped
<1> QED
  BY <1>1, <1>2, <1>3, <1>4

(* What the control word asks for. *)
LEMMA Format ==
  /\ bit_count_m1 \in 4 .. 7 /\ stop_count \in 1 .. 3
  /\ stop_count = 3 <=> 7 \in setup.param /\ data_length_idx(setup.param) = 0
<1>1. \A i : bitAt(setup.param, i) \in {0, 1}
  BY Zenon DEF bitAt
<1> DEFINE d == data_length_idx(setup.param)
<1>2. d \in 0 .. 3
  BY <1>1, SMT DEF data_length_idx
<1>3. bit_count_m1 = d + 4
  BY Zenon DEF bit_count_m1
<1> HIDE DEF d
<1>4. bit_count_m1 \in 4 .. 7
  BY <1>2, <1>3, SMT
<1>5. stop_count = IF 7 \notin setup.param THEN 1 ELSE <<3, 2, 2, 2>>[d + 1]
  BY Zenon DEF stop_count, d
<1>6. <<3, 2, 2, 2>>[d + 1] = IF d = 0 THEN 3 ELSE 2
  BY <1>2, SMT
<1>7. /\ stop_count \in 1 .. 3
      /\ stop_count = 3 <=> 7 \in setup.param /\ d = 0
  BY <1>5, <1>6, SMT
<1> QED
  BY <1>4, <1>7, Zenon DEF d

-----------------------------------------------------------------------------
(* The bits sent of a word take the line from Start to the first stop bit, *)
(* and then it rests: rest counts the cycles since.                        *)
Frame == /\ setup \in Setups /\ Shaped(tx)
         /\ tx.state \in {"Idle", "Start", "Parity", "Stop"}
         /\ tx.tick \in 0 .. setup.txBaud /\ tx.bit_pos \in Nat
         /\ tx.state = "Start" => tx.bit_pos <= bit_count_m1
         /\ tx.state = "Stop" => tx.bit_pos <= stop_count
         /\ tx.state = "Parity" => tx.bit_pos = 0
         /\ tx.state = "Idle" => tx.tick = 0 /\ rest >= stop_count * (setup.txBaud + 1)
         /\ tx.state = "Stop" /\ tx.bit_pos > 0 =>
              rest >= (tx.bit_pos - 1) * (setup.txBaud + 1) + tx.tick + 1
         /\ rest \in 0 .. MaxRest

(* The settings whose stop length is a number of bits. *)
WholeStops == \A s \in Setups : ~(7 \in s.param /\ data_length_idx(s.param) = 0)

(* Frame holds at reset, ... *)
LEMMA FrameInit ==
  ASSUME Init, WholeStops
  PROVE  Frame
<1> DEFINE B == setup.txBaud
<1>1. setup \in Setups /\ B \in Nat \ {0}
  BY LineAssumption, Zenon DEF Init
<1>2. stop_count \in 1 .. 2
  BY <1>1, Format, SMT DEF WholeStops
<1>3. tx = reset_port /\ rest = MaxRest /\ MaxRest = 2 * (B + 1)
  BY Zenon DEF Init, MaxRest
<1>4. /\ Shaped(tx) /\ tx.state = "Idle" /\ tx.tick = 0 /\ tx.bit_pos = 0
  BY <1>3, SMT DEF reset_port, Shaped
<1> HIDE DEF B
<1>5. /\ rest \in 0 .. 2 * (B + 1) /\ 0 \in 0 .. B
      /\ rest >= stop_count * (B + 1)
  BY <1>1, <1>2, <1>3, SMT
<1> QED
  BY <1>1, <1>3, <1>4, <1>5, SMT DEF Frame, B

(* How a cycle moves the transmitter. *)
LEMMA TxMoves ==
  ASSUME Frame, do_tx
  PROVE  /\ Shaped(tx')
         /\ \/ txStarts /\ tx'.state = "Start" /\ tx'.bit_pos = 0 /\ tx'.tick = 0
            \/ /\ txFrameOver /\ ~txStarts /\ tx'.state = "Idle" /\ tx'.tick = 0
               /\ tx'.bit_pos = tx.bit_pos
            \/ /\ tx.state # "Idle" /\ ~txStarts /\ tx.tick < setup.txBaud
               /\ tx'.tick = tx.tick + 1 /\ tx'.bit_pos = tx.bit_pos
               /\ tx'.state = tx.state \/ stop_count = 3
            \/ /\ tx.state = "Start" /\ ~txStarts /\ tx'.tick = 0
               /\ \/ /\ tx.bit_pos < bit_count_m1 /\ tx'.bit_pos = tx.bit_pos + 1
                     /\ tx'.state = "Start"
                  \/ tx'.bit_pos = 0 /\ tx'.state \in {"Parity", "Stop"}
            \/ /\ tx.state = "Parity" /\ ~txStarts /\ tx'.tick = 0 /\ tx'.state = "Stop"
               /\ tx'.bit_pos = tx.bit_pos
            \/ /\ tx.state = "Stop" /\ ~txStarts /\ tx'.tick = 0 /\ tx'.state = "Stop"
               /\ tx.tick = setup.txBaud /\ tx.bit_pos < stop_count
               /\ tx'.bit_pos = tx.bit_pos + 1
<1>b. setup.txBaud \in Nat /\ tx.tick \in 0 .. setup.txBaud /\ Shaped(tx)
  BY LineAssumption, SMT DEF Frame
<1>s. ~("Idle" = "Start") /\ ~("Idle" = "Stop") /\ ~("Idle" = "Parity")
      /\ ~("Start" = "Stop") /\ ~("Start" = "Parity") /\ ~("Parity" = "Stop")
  OBVIOUS
<1>f. txFrameOver => tx.state = "Idle" \/ tx.state = "Stop"
  BY Zenon DEF txFrameOver
<1>1. CASE TxTake
  <2>0. Shaped(tx')
    BY <1>1, <1>b, Edits, Zenon DEF TxTake, activate
  <2>1. tx.state = "Idle" => tx.tick = 0
    BY SMT DEF Frame
  <2>2. /\ tx'.state = "Start" /\ tx'.bit_pos = 0
        /\ tx'.tick = IF tx.state = "Idle" THEN tx.tick ELSE 0
    BY <1>1, <1>b, SMT DEF TxTake, activate, Shaped
  <2>3. tx'.tick = 0 /\ txStarts
    BY <1>1, <2>1, <2>2, Zenon DEF TxTake
  <2> QED
    BY <2>0, <2>2, <2>3, Zenon
<1>2. CASE TxRest
  <2>0. Shaped(tx')
    BY <1>2, <1>b, Edits, Zenon DEF TxRest
  <2>1. tx.state = "Idle" => tx.tick = 0
    BY SMT DEF Frame
  <2>2. /\ tx'.state = "Idle" /\ tx'.bit_pos = tx.bit_pos
        /\ tx'.tick = IF tx.state = "Idle" THEN tx.tick ELSE 0
    BY <1>2, <1>b, SMT DEF TxRest, Shaped
  <2>3. txFrameOver /\ ~txStarts
    BY <1>2, Zenon DEF TxRest, txStarts
  <2> QED
    BY <2>0, <2>1, <2>2, <2>3, Zenon
<1>3. CASE TxTick
  <2>0. Shaped(tx')
    BY <1>3, <1>b, Edits, Zenon DEF TxTick, ticked
  <2>1. /\ tx'.tick = tx.tick + 1 /\ tx'.bit_pos = tx.bit_pos
        /\ tx'.state = tx.state \/ stop_count = 3
    BY <1>3, <1>b, SMT DEF TxTick, ticked, stop_at_half_period, Shaped
  <2>2. tx.tick < setup.txBaud
    BY <1>3, <1>b, SMT DEF TxTick, end_of_bit
  <2>3. tx.state # "Idle" /\ ~txStarts
    BY <1>3, Zenon DEF TxTick, txStarts, txFrameOver
  <2> QED
    BY <2>0, <2>1, <2>2, <2>3, Zenon
<1>4. CASE TxData
  <2>0. Shaped(tx')
    BY <1>4, <1>b, Edits, Zenon DEF TxData
  <2>1. tx.bit_pos \in Nat /\ bit_count_m1 \in Nat /\ tx.bit_pos <= bit_count_m1
    BY <1>4, Format, SMT DEF Frame, TxData
  <2>2. /\ tx'.tick = 0
        /\ tx'.bit_pos = IF tx.bit_pos = bit_count_m1 THEN 0 ELSE tx.bit_pos + 1
        /\ tx'.state = IF tx.bit_pos # bit_count_m1 THEN tx.state
                       ELSE IF parity_type # "none" THEN "Parity" ELSE "Stop"
    BY <1>4, <1>b, SMT DEF TxData, Shaped
  <2>3. tx.state = "Start" /\ ~txStarts
    BY <1>4, <1>s, <1>f, Zenon DEF TxData, txStarts
  <2>4. tx.bit_pos = bit_count_m1 \/ tx.bit_pos < bit_count_m1
    BY <2>1, SMT
  <2>5. tx.bit_pos = bit_count_m1 => tx'.bit_pos = 0 /\ tx'.state \in {"Parity", "Stop"}
    BY <2>2, Zenon
  <2>6. tx.bit_pos < bit_count_m1 => tx'.bit_pos = tx.bit_pos + 1 /\ tx'.state = tx.state
    <3>1. tx.bit_pos < bit_count_m1 => tx.bit_pos # bit_count_m1
      BY <2>1, SMT
    <3> QED
      BY <2>2, <3>1, Zenon
  <2> QED
    BY <2>0, <2>2, <2>3, <2>4, <2>5, <2>6, Zenon
<1>5. CASE TxParity
  <2>0. Shaped(tx')
    BY <1>5, <1>b, Edits, Zenon DEF TxParity
  <2>1. /\ tx'.tick = 0 /\ tx'.state = "Stop" /\ tx'.bit_pos = tx.bit_pos
    BY <1>5, <1>b, SMT DEF TxParity, Shaped
  <2>2. tx.state = "Parity" /\ ~txStarts
    BY <1>5, <1>s, <1>f, Zenon DEF TxParity, txStarts
  <2> QED
    BY <2>0, <2>1, <2>2, Zenon
<1>6. CASE TxStop
  <2>0. Shaped(tx')
    BY <1>6, <1>b, Edits, Zenon DEF TxStop
  <2>1. /\ tx'.tick = 0 /\ tx'.state = tx.state /\ tx'.bit_pos = tx.bit_pos + 1
    BY <1>6, <1>b, SMT DEF TxStop, Shaped
  <2>2. tx.state = "Stop" /\ tx.bit_pos < stop_count /\ tx.tick = setup.txBaud
    BY <1>6, <1>b, SMT DEF TxStop, end_of_bit
  <2>3. ~txStarts
    <3>1. ~(tx.bit_pos >= stop_count)
      BY <2>2, Format, SMT DEF Frame
    <3> QED
      BY <1>s, <2>2, <3>1, Zenon DEF txStarts, txFrameOver
  <2> QED
    BY <2>0, <2>1, <2>2, <2>3, Zenon
<1> QED
  BY <1>1, <1>2, <1>3, <1>4, <1>5, <1>6, Zenon DEF do_tx

(* When a frame is over, the line has rested for the whole stop length. *)
LEMMA Rested ==
  ASSUME Frame, WholeStops
  PROVE  /\ stop_count \in 1 .. 2 /\ halfBitsOfStop = 2 * stop_count
         /\ txFrameOver => rest >= stop_count * (setup.txBaud + 1)
<1> DEFINE B == setup.txBaud  S == stop_count
<1>1. B \in Nat \ {0} /\ S \in 1 .. 2 /\ rest \in Nat
  BY Format, LineAssumption, SMT DEF Frame, WholeStops
<1>2. halfBitsOfStop = 2 * S
  <2>1. data_length_idx(setup.param) # 0 \/ 7 \notin setup.param
    BY Zenon DEF Frame, WholeStops
  <2>2. 7 \notin setup.param => stop_count = 1
    BY Zenon DEF stop_count
  <2>3. 7 \in setup.param => stop_count # 1
    <3> DEFINE d == data_length_idx(setup.param)
    <3>1. d \in 0 .. 3
      <4>1. \A i : bitAt(setup.param, i) \in {0, 1}
        BY Zenon DEF bitAt
      <4> QED
        BY <4>1, SMT DEF data_length_idx
    <3>2. 7 \in setup.param => stop_count = <<3, 2, 2, 2>>[d + 1]
      BY Zenon DEF stop_count
    <3> HIDE DEF d
    <3> QED
      BY <3>1, <3>2, SMT
  <2> QED
    BY <1>1, <2>1, <2>2, <2>3, SMT DEF halfBitsOfStop
<1>3. tx.state = "Idle" => rest >= S * (B + 1)
  BY Zenon DEF Frame
<1>4. ASSUME tx.state = "Stop", end_of_bit(tx, B), tx.bit_pos >= S
      PROVE  rest >= S * (B + 1)
  <2>1. tx.tick = B /\ tx.bit_pos = S
    <3>1. tx.tick >= B /\ tx.tick \in 0 .. B /\ tx.bit_pos \in Nat /\ tx.bit_pos <= S
      BY <1>4, Zenon DEF Frame, end_of_bit
    <3> HIDE DEF B, S
    <3> QED
      BY <1>1, <1>4, <3>1, SMT
  <2>2. rest >= (tx.bit_pos - 1) * (B + 1) + tx.tick + 1
    BY <1>1, <1>4, <2>1, SMT DEF Frame
  <2> HIDE DEF B, S
  <2>3. CASE S = 1
    BY <1>1, <2>1, <2>2, <2>3, SMT
  <2>4. CASE S = 2
    BY <1>1, <2>1, <2>2, <2>4, SMT
  <2> QED
    BY <1>1, <2>3, <2>4, SMT
<1>5. txFrameOver => rest >= S * (B + 1)
  BY <1>3, <1>4, Zenon DEF txFrameOver
<1> QED
  BY <1>1, <1>2, <1>5, Zenon

(* ... and after every cycle. *)
LEMMA FrameStep ==
  ASSUME Frame, WholeStops, [Next]_vars
  PROVE  Frame'
<1> DEFINE B == setup.txBaud  N == bit_count_m1  S == stop_count
<1>1. B \in Nat \ {0} /\ N \in 4 .. 7 /\ S \in 1 .. 2 /\ MaxRest = 2 * (B + 1)
  BY Format, Rested, LineAssumption, SMT DEF Frame, MaxRest
<1>2. CASE UNCHANGED vars
  BY <1>2, Zenon DEF Frame, vars, MaxRest, stop_count, bit_count_m1, Shaped
<1>3. CASE Next
  <2>1. do_tx /\ Rest /\ setup' = setup
    BY <1>3, Zenon DEF Next, Cycle
  <2>2. bit_count_m1' = N /\ stop_count' = S /\ MaxRest' = MaxRest /\ setup' \in Setups
    BY <2>1, Zenon DEF bit_count_m1, stop_count, MaxRest, Frame, data_length_idx
  <2> DEFINE busy == \/ tx'.state \in {"Start", "Parity"}
                     \/ tx'.state = "Stop" /\ tx'.bit_pos = 0
             after == /\ tx'.state \in {"Idle", "Start", "Parity", "Stop"}
                      /\ tx'.tick \in 0 .. B /\ tx'.bit_pos \in Nat
                      /\ tx'.state = "Start" => tx'.bit_pos <= N
                      /\ tx'.state = "Stop" => tx'.bit_pos <= S
                      /\ tx'.state = "Parity" => tx'.bit_pos = 0
                      /\ tx'.state = "Idle" => tx'.tick = 0 /\ rest' >= S * (B + 1)
                      /\ tx'.state = "Stop" /\ tx'.bit_pos > 0 =>
                           rest' >= (tx'.bit_pos - 1) * (B + 1) + tx'.tick + 1
  <2>3. /\ Shaped(tx') /\ tx.tick \in 0 .. B /\ tx.bit_pos \in Nat /\ rest \in 0 .. MaxRest
        /\ tx.state \in {"Idle", "Start", "Parity", "Stop"}
        /\ tx.state = "Start" => tx.bit_pos <= N
        /\ tx.state = "Stop" => tx.bit_pos <= S
        /\ tx.state = "Parity" => tx.bit_pos = 0
        /\ tx.state = "Stop" /\ tx.bit_pos > 0 =>
             rest >= (tx.bit_pos - 1) * (B + 1) + tx.tick + 1
    BY <2>1, TxMoves, Zenon DEF Frame
  <2>4. /\ busy => rest' = 0
        /\ ~busy => rest' = IF rest < MaxRest THEN rest + 1 ELSE rest
    BY <2>1, Zenon DEF Rest
  <2>5. /\ txFrameOver => rest >= S * (B + 1)
        /\ txFrameOver => tx.state = "Idle" \/ tx.state = "Stop"
    BY Rested, Zenon DEF txFrameOver
  <2> DEFINE R == MaxRest  Over == txFrameOver
  <2>6. R = 2 * (B + 1) /\ rest \in 0 .. R /\ (~busy => rest' = IF rest < R THEN rest + 1 ELSE rest)
    BY <1>1, <2>3, <2>4
  <2>7. Over => rest >= S * (B + 1)
    BY <2>5
  <2> HIDE DEF B, N, S, R, Over
  <2>8. rest' \in 0 .. R
    <3>1. R \in Nat
      BY <1>1, <2>6, SMT
    <3> HIDE DEF busy
    <3> QED
      BY <2>4, <2>6, <3>1, SMT
  <2>b. SUFFICES after
    BY <2>1, <2>2, <2>3, <2>8, Zenon DEF Frame, B, N, S, R
  <2>9. CASE txStarts /\ tx'.state = "Start" /\ tx'.bit_pos = 0 /\ tx'.tick = 0
    BY <1>1, <2>9, SMT
  <2>10. CASE /\ Over /\ ~txStarts /\ tx'.state = "Idle" /\ tx'.tick = 0
              /\ tx'.bit_pos = tx.bit_pos
    <3>1. ~busy
      BY <2>10, SMT
    <3>2. rest' = IF rest < R THEN rest + 1 ELSE rest
      BY <2>6, <3>1, Zenon
    <3>3. S = 1 \/ S = 2
      BY <1>1, SMT
    <3>4. rest' >= S * (B + 1)
      BY <1>1, <2>6, <2>7, <2>10, <3>2, <3>3, SMT
    <3> QED
      BY <1>1, <2>3, <2>10, <3>4, SMT
  <2>11. CASE /\ tx.state # "Idle" /\ ~txStarts /\ tx.tick < B
              /\ tx'.tick = tx.tick + 1 /\ tx'.bit_pos = tx.bit_pos
              /\ tx'.state = tx.state
    <3>1. ASSUME tx.state = "Stop", tx.bit_pos > 0
          PROVE  rest' >= (tx'.bit_pos - 1) * (B + 1) + tx'.tick + 1
      <4>1. ~busy
        BY <2>3, <2>11, <3>1, SMT
      <4>2. rest' = IF rest < R THEN rest + 1 ELSE rest
        BY <2>6, <4>1, Zenon
      <4>3. tx.bit_pos = 1 \/ tx.bit_pos = 2
        BY <1>1, <2>3, <3>1, SMT
      <4>4. rest >= (tx.bit_pos - 1) * (B + 1) + tx.tick + 1
        BY <2>3, <3>1
      <4> QED
        BY <1>1, <2>3, <2>6, <2>11, <4>2, <4>3, <4>4, SMT
    <3>2. tx'.tick \in 0 .. B
      BY <1>1, <2>3, <2>11, SMT
    <3>3. ~("Stop" = "Idle")
      OBVIOUS
    <3> QED
      BY <2>3, <2>11, <3>1, <3>2, Zenon
  <2>12. CASE /\ tx.state = "Start" /\ ~txStarts /\ tx'.tick = 0
              /\ \/ /\ tx.bit_pos < N /\ tx'.bit_pos = tx.bit_pos + 1
                    /\ tx'.state = "Start"
                 \/ tx'.bit_pos = 0 /\ tx'.state \in {"Parity", "Stop"}
    BY <1>1, <2>3, <2>12, SMT
  <2>13. CASE /\ tx.state = "Parity" /\ ~txStarts /\ tx'.tick = 0 /\ tx'.state = "Stop"
              /\ tx'.bit_pos = tx.bit_pos
    BY <1>1, <2>3, <2>13, SMT
  <2>14. CASE /\ tx.state = "Stop" /\ ~txStarts /\ tx'.tick = 0 /\ tx'.state = "Stop"
              /\ tx.tick = B /\ tx.bit_pos < S /\ tx'.bit_pos = tx.bit_pos + 1
    <3>1. ~busy
      BY <2>3, <2>14, SMT
    <3>2. rest' = IF rest < R THEN rest + 1 ELSE rest
      BY <2>6, <3>1, Zenon
    <3>3. tx.bit_pos = 0 \/ tx.bit_pos = 1
      BY <1>1, <2>3, <2>14, SMT
    <3>4. rest' >= (tx'.bit_pos - 1) * (B + 1) + tx'.tick + 1
      <4>1. CASE tx.bit_pos = 0
        BY <1>1, <2>6, <2>14, <3>2, <4>1, SMT
      <4>2. CASE tx.bit_pos = 1
        <5>1. rest >= (tx.bit_pos - 1) * (B + 1) + tx.tick + 1
          <6>1. tx.bit_pos > 0
            BY <4>2, SMT
          <6> QED
            BY <2>3, <2>14, <6>1
        <5>2. rest >= B + 1
          BY <1>1, <2>6, <2>14, <4>2, <5>1, SMT
        <5>3. tx'.bit_pos = 2 /\ tx'.tick = 0
          BY <2>14, <4>2, SMT
        <5> QED
          BY <1>1, <2>6, <3>2, <5>2, <5>3, SMT
      <4> QED
        BY <3>3, <4>1, <4>2
    <3> QED
      BY <1>1, <2>3, <2>14, <3>4, SMT
  <2>15. stop_count # 3
    BY <1>1, SMT DEF S
  <2> HIDE DEF after
  <2> QED
    BY <2>1, <2>9, <2>10, <2>11, <2>12, <2>13, <2>14, <2>15, TxMoves, Zenon DEF B, N, S, Over
<1> QED
  BY <1>2, <1>3

(* Between two words the line rests for all the stop bits that the control *)
(* word asks for, at every baud rate and in every format but that of one   *)
(* and a half stop bits.                                                   *)
THEOREM StopBits ==
  ASSUME WholeStops
  PROVE  Spec => StopBitsSent
<1>1. Frame => (txStarts => 2 * rest >= halfBitsOfStop * (setup.txBaud + 1))
  <2> SUFFICES ASSUME Frame, txStarts PROVE 2 * rest >= halfBitsOfStop * (setup.txBaud + 1)
    OBVIOUS
  <2> DEFINE B == setup.txBaud  S == stop_count
  <2>1. B \in Nat /\ rest \in Nat
    BY LineAssumption, Format, SMT DEF Frame
  <2>2. S \in 1 .. 2 /\ halfBitsOfStop = 2 * S /\ rest >= S * (B + 1)
    BY Rested, Zenon DEF txStarts
  <2> HIDE DEF B, S
  <2>3. S = 1 \/ S = 2
    BY <2>2, SMT
  <2>4. 2 * rest >= halfBitsOfStop * (B + 1)
    BY <2>1, <2>2, <2>3, SMT
  <2> QED
    BY <2>4 DEF B
<1> QED
  BY <1>1, FrameInit, FrameStep, PTL DEF Spec, StopBitsSent

-----------------------------------------------------------------------------
(* The rest is about two ends whose clocks differ by no more than          *)
(* ClocksAgree says.  A frame is a row of cells, the start bit cell 0, the *)
(* data bits 1 .. bit_count_m1 + 1, the parity bit if there is one, and    *)
(* the stop bits; each end is in a cell, at a tick of it.                  *)
period == setup.txBaud
rxPeriod == setup.rxBaud
middle == rxPeriod \div 2
lastCell == IF parity_type = "none" THEN bit_count_m1 + 1 ELSE bit_count_m1 + 2

txOn == tx.state # "Idle"
rxOn == rx.state # "Idle"
txCell == IF tx.state = "Start" THEN tx.bit_pos
          ELSE IF tx.state = "Parity" THEN bit_count_m1 + 1 ELSE lastCell + tx.bit_pos
rxCell == IF rx.state = "Start" THEN rx.bit_pos
          ELSE IF rx.state = "Parity" THEN bit_count_m1 + 2 ELSE lastCell + 1

States == {"Idle", "Start", "Parity", "Stop"}

TxPort ==
  /\ Shaped(tx) /\ tx.state \in States /\ tx.tick \in 0 .. period
  /\ tx.word \in 0 .. 255 /\ tx.parity \in 0 .. 1 /\ tx.bit \in 0 .. 1
  /\ tx.bit_pos \in Nat /\ tx.error = FALSE
  /\ tx.state = "Start" => tx.bit_pos <= bit_count_m1
  /\ tx.state = "Parity" => tx.bit_pos = 0 /\ parity_type # "none"
  /\ tx.state \in {"Idle", "Stop"} => tx.bit_pos <= stop_count
  /\ tx.state = "Idle" => tx.tick = 0

RxPort ==
  /\ Shaped(rx) /\ rx.state \in States /\ rx.tick \in 0 .. rxPeriod
  /\ rx.word \in 0 .. 255 /\ rx.parity \in 0 .. 1 /\ rx.bit = 1
  /\ rx.bit_pos \in Nat /\ rx.error \in BOOLEAN
  /\ rx.state = "Start" => rx.bit_pos <= bit_count_m1 + 1
  /\ rx.state = "Parity" => rx.bit_pos = 0 /\ parity_type # "none"
  /\ rx.state \in {"Idle", "Stop"} => rx.bit_pos <= 1
  /\ rx.state = "Idle" => rx.tick = 0

(* ClocksAgree of this setup, and what follows for the start bit. *)
Agree == /\ middle + 1 < period + 1
         /\ lastCell * (rxPeriod + 1) + middle + 1 < (lastCell + 1) * (period + 1)
         /\ (lastCell + 1) * (period + 1) <= (lastCell + 1) * (rxPeriod + 1) + middle + 1
         /\ \/ setup.paced
            \/ (lastCell + 2) * (rxPeriod + 1) <= (lastCell + 1 + stop_count) * (period + 1)

(* What a control word can ask for, with a whole number of stop bits. *)
Formats == /\ setup \in Setups /\ Agree
           /\ period \in Nat \ {0} /\ rxPeriod \in Nat \ {0}
           /\ bit_count_m1 \in 4 .. 7 /\ stop_count \in 1 .. 2
           /\ lastCell = IF parity_type = "none" THEN bit_count_m1 + 1 ELSE bit_count_m1 + 2

-----------------------------------------------------------------------------
txOver == ~txOn \/ (txCell = lastCell + stop_count /\ tx.tick = period)

TxStarts == /\ txOver /\ txStarts /\ tx_buf # << >>
            /\ txOn' /\ txCell' = 0 /\ tx'.tick = 0
            /\ tx'.bit = 0 /\ tx'.parity = 0 /\ tx'.word = Head(tx_buf)

TxRests == /\ txOver /\ ~txStarts
           /\ ~txOn' /\ tx'.tick = 0
           /\ tx'.bit = IF txOn THEN 1 ELSE tx.bit

TxTicks == /\ txOn /\ tx.tick < period /\ ~txStarts
           /\ txOn' /\ txCell' = txCell /\ tx'.tick = tx.tick + 1
           /\ tx'.bit = tx.bit /\ tx'.parity = tx.parity /\ tx'.word = tx.word

TxNexts == /\ txOn /\ tx.tick = period /\ txCell < lastCell + stop_count /\ ~txStarts
           /\ txOn' /\ txCell' = txCell + 1 /\ tx'.tick = 0
           /\ txCell <= bit_count_m1 =>
                /\ tx'.bit = tx.word % 2 /\ tx'.word = tx.word \div 2
                /\ tx'.parity = Xor(tx.parity, tx'.bit)
           /\ txCell > bit_count_m1 =>
                /\ tx'.parity = tx.parity /\ tx'.word = tx.word
                /\ tx'.bit = IF txCell < lastCell THEN parity_bit(tx.parity) ELSE 1

RxRests == /\ ~rxOn /\ rx_bit_d = 1
           /\ rx' = rx /\ rx_bit_samp' = rx_bit_samp

RxEnters == /\ rx_bit_d = 0 /\ (~rxOn \/ (rx.state = "Stop" /\ rx.tick = rxPeriod))
            /\ rx'.state = "Start" /\ rxCell' = 0 /\ rx'.tick = 0
            /\ rx'.word = 0 /\ rx'.parity = 0
            /\ rx'.error => rx.error \/ (rxOn /\ (rx_bit_samp # 1 \/ rxFull))

RxTicks == /\ rxOn /\ rx.tick < rxPeriod
           /\ rx'.state = rx.state /\ rxCell' = rxCell /\ rx'.tick = rx.tick + 1
           /\ rx_bit_samp' = IF rx.tick = middle THEN rx_bit_d ELSE rx_bit_samp
           /\ rx'.word = IF rx.tick = middle /\ rx.state = "Start"
                         THEN 128 * rx_bit_d + (rx.word \div 2) ELSE rx.word
           /\ rx'.parity = IF rx.tick = middle /\ rx.state = "Start"
                           THEN Xor(rx.parity, rx_bit_d) ELSE rx.parity
           /\ rx'.error = rx.error

RxNexts == /\ rxOn /\ rx.tick = rxPeriod /\ rxCell <= lastCell /\ rx.state # "Stop"
           /\ rxOn' /\ rxCell' = rxCell + 1 /\ rx'.tick = 0
           /\ rx'.word = rx.word /\ rx'.parity = rx.parity /\ rx_bit_samp' = rx_bit_samp
           /\ rx'.error => \/ rx.error
                           \/ rx.state = "Parity" /\ parity_bit(rx.parity) # rx_bit_samp
           /\ rx.state = "Parity" /\ parity_bit(rx.parity) # rx_bit_samp => rx'.error

RxEnds == /\ rx_bit_d = 1 /\ rx.state = "Stop" /\ rx.tick = rxPeriod
          /\ ~rxOn' /\ rx'.tick = 0
          /\ rx'.error => rx.error \/ rx_bit_samp # 1 \/ rxFull

-----------------------------------------------------------------------------
(* How long each end has been in the frame. *)
txTime == txCell * (period + 1) + tx.tick
rxTime == rxCell * (rxPeriod + 1) + rx.tick

(* The receiver begins two cycles after the transmitter, and from there on *)
(* each goes by its own clock: until the receiver has a stop bit, which it *)
(* has before the next frame starts, or but two cycles of it.              *)
Linked   == txOn /\ rxOn /\ txTime = rxTime + 2
Ended    == txOn /\ ~rxOn /\ (txCell > lastCell + 1 \/ (txCell = lastCell + 1 /\ tx.tick > 0))
Starting == /\ txOn /\ txCell = 0 /\ tx.tick < 2
            /\ rxOn => rxCell = lastCell + 1 /\ rx.tick + 1 >= rxPeriod + tx.tick
Resting  == /\ ~txOn
            /\ rxOn => rxCell = lastCell + 1 /\ (setup.paced \/ rx.tick + 1 >= rxPeriod)
Follows  == Linked \/ Ended \/ Starting \/ Resting

(* A paced sender writes when both ends are at rest. *)
Unhurried == setup.paced /\ tx_buf # << >> => Tail(tx_buf) = << >> /\ ~txOn /\ ~rxOn

Level == IF noise = "now" THEN 1 - tx.bit ELSE tx.bit

OnWire == /\ ~txOn \/ (txCell = 0 /\ tx.tick = 0) \/ txCell > lastCell + 1 => rx_bit_d = 1
          /\ txOn /\ tx.tick > 0 => rx_bit_d = Level
          /\ txOn /\ txCell = 0 => tx.bit = 0 /\ noise = "none" /\ tx.parity = 0
          /\ txOn /\ txCell = 1 /\ tx.tick = 0 => rx_bit_d = 0
          /\ ~txOn \/ txCell > lastCell => tx.bit = 1 /\ noise # "now"

Ports == /\ TxPort /\ RxPort /\ Formats /\ tx_buf \in Seq(0 .. 255)
         /\ noise \in {"none", "now", "past"}
         /\ rx_bit_d \in 0 .. 1 /\ rx_bit_samp \in 0 .. 1

(* How many cells the receiver has sampled, and where the transmitter is:  *)
(* in the last of them, in the next, or just past it.                      *)
sampled == rx.tick > middle
taken == rxCell + (IF sampled THEN 1 ELSE 0)
Ahead == txCell + 1 = taken
Even  == txCell = taken
Late  == txCell = taken + 1 /\ tx.tick = 0

(* The parity of the levels of the cells up to the transmitter's, with and *)
(* without its own.                                                        *)
hit(n) == IF noise \in n THEN 1 ELSE 0
told == Xor(tx.parity, hit({"now", "past"}))
toldBefore == Xor(IF txCell <= bit_count_m1 + 1 THEN Xor(tx.parity, tx.bit) ELSE tx.parity,
                  hit({"past"}))

(* The parity bit that the receiver should and should not find. *)
Right(b) == /\ noise = "none" => b = parity_bit(rx.parity)
            /\ noise # "none" /\ parity_type \in {"odd", "even"} => b # parity_bit(rx.parity)

(* The receiver's sum is that of the cells it has sampled: where the       *)
(* transmitter is just past the next cell, its level is the one to sample. *)
Sums ==
  /\ rxOn /\ taken <= lastCell =>
       /\ Ahead => rx.parity = told
       /\ Even => rx.parity = toldBefore
       /\ Late /\ taken <= bit_count_m1 + 1 => Xor(rx.parity, rx_bit_d) = toldBefore
       /\ Late /\ taken > bit_count_m1 + 1 => Right(rx_bit_d)
  /\ txOn /\ txCell = bit_count_m1 + 2 /\ txCell <= lastCell => tx.bit = parity_bit(tx.parity)

Judged == /\ rx.state = "Parity" /\ sampled => Right(rx_bit_samp)
          /\ rx.state = "Stop" /\ sampled => rx_bit_samp = 1

(* What is proved of a cycle is proved from what it does to the two ends. *)
Moves == /\ setup' = setup /\ Noise /\ Wire
         /\ TxStarts \/ TxRests \/ TxTicks \/ TxNexts
         /\ RxRests \/ RxEnters \/ RxTicks \/ RxNexts \/ RxEnds

(* The word on the line, from its start bit until the receiver has it. *)
InFlight == rx.state = "Start" \/ (txOn /\ txCell = 0 /\ tx.tick < 2)
theWord == sent[1]
bitOf(c) == (theWord \div 2^(c - 1)) % 2

Held == /\ InFlight => /\ sent = <<theWord>>
                       /\ theWord \in 0 .. 2^(bit_count_m1 + 1) - 1
        /\ ~InFlight => sent = << >>

(* What the transmitter has of it still to send, and has just sent, ... *)
Sending ==
  InFlight /\ txOn =>
    /\ txCell <= bit_count_m1 + 1 =>
         /\ tx.word % 2^((bit_count_m1 + 1) - txCell) = theWord \div 2^txCell
         /\ txCell >= 1 => tx.bit = bitOf(txCell)
    /\ tx.tick = 0 /\ noise = "none" /\ txCell \in 2 .. bit_count_m1 + 2
         => rx_bit_d = bitOf(txCell - 1)

(* ... and what the receiver has of it; the first sample is the start bit. *)
Assembled == rx.state = "Start" /\ noise = "none" =>
               rx.word = IF taken = 0 THEN 0
                         ELSE (theWord % 2^(taken - 1)) * 2^(8 - (taken - 1))

SentMoves == sent' = (IF rxCompletes /\ sent # << >> THEN Tail(sent) ELSE sent)
                        \o (IF txStarts THEN <<dataOf(Head(tx_buf))>> ELSE << >>)

-----------------------------------------------------------------------------
(* The four states are different. *)
LEMMA StateNames ==
  /\ ~("Idle" = "Start") /\ ~("Idle" = "Stop") /\ ~("Idle" = "Parity")
  /\ ~("Start" = "Stop") /\ ~("Start" = "Parity") /\ ~("Parity" = "Stop")
OBVIOUS

(* Products. *)
LEMMA Products ==
  ASSUME NEW a \in Nat, NEW b \in Nat, NEW k \in Nat
  PROVE  /\ a * k \in Nat /\ (a + 1) * k = a * k + k /\ (a + 2) * k = a * k + k + k
         /\ a <= b => a * k <= b * k
         /\ a < b => a * k + k <= b * k
<1>1. a * k \in Nat /\ (a + 1) * k = a * k + k /\ (a + 2) * k = a * k + k + k
  BY SMT
<1>2. a <= b => a * k <= b * k
  BY SMT
<1>3. a < b => a * k + k <= b * k
  <2>1. a < b => a + 1 <= b
    BY SMT
  <2>2. a + 1 <= b => (a + 1) * k <= b * k
    BY SMT
  <2> QED
    BY <1>1, <2>1, <2>2
<1> QED
  BY <1>1, <1>2, <1>3

(* Every setup asks for one of the formats, and has clocks that agree: a   *)
(* bit is then longer than half a bit of the receiver.                     *)
LEMMA FormatsHold ==
  ASSUME setup \in Setups, WholeStops, ClocksAgree
  PROVE  Formats
<1> DEFINE param == setup.param
<1>1. period \in Nat \ {0} /\ rxPeriod \in Nat \ {0}
  BY LineAssumption, Zenon DEF period, rxPeriod
<1>2. ~(7 \in param /\ data_length_idx(param) = 0)
  BY Zenon DEF WholeStops
<1>3. bit_count_m1 \in 4 .. 7 /\ stop_count \in 1 .. 2
  BY <1>2, Format, SMT
<1>4. stop_count = IF 7 \in param THEN 2 ELSE 1
  <2> DEFINE k == data_length_idx(param)
  <2>1. k \in 0 .. 3
    BY SMT DEF data_length_idx, bitAt
  <2>2. stop_count = IF 7 \notin param THEN 1 ELSE <<3, 2, 2, 2>>[k + 1]
    BY Zenon DEF stop_count
  <2>3. 7 \in param => k # 0
    BY <1>2, Zenon
  <2> HIDE DEF k
  <2> QED
    BY <2>1, <2>2, <2>3, SMT
<1>5. lastCell = data_length_idx(param) + 5 + bitAt(param, 8)
  <2> DEFINE k == data_length_idx(param)
  <2>1. k \in 0 .. 3 /\ bit_count_m1 = k + 4
    BY SMT DEF data_length_idx, bitAt, bit_count_m1
  <2>2. bitAt(param, 8) = IF parity_type = "none" THEN 0 ELSE 1
    BY SMT DEF bitAt, parity_type
  <2>3. lastCell = IF parity_type = "none" THEN bit_count_m1 + 1 ELSE bit_count_m1 + 2
    BY Zenon DEF lastCell
  <2> HIDE DEF k
  <2> QED
    BY <2>1, <2>2, <2>3, SMT DEF k
<1>6. Agree
  <2> DEFINE T == period + 1  R == rxPeriod + 1  m == middle
             last == data_length_idx(param) + 5 + bitAt(param, 8)
             stops == IF 7 \in param THEN 2 ELSE 1
  <2>1. /\ last * R + m + 1 < (last + 1) * T
        /\ (last + 1) * T <= (last + 1) * R + m + 1
        /\ setup.paced \/ (last + 2) * R <= (last + 1 + stops) * T
    BY Zenon DEF ClocksAgree, period, rxPeriod, middle
  <2>2. last = lastCell /\ stops = stop_count
    BY <1>4, <1>5
  <2> DEFINE k == m + 1
  <2>3. T \in Nat /\ R \in Nat /\ k \in Nat /\ k <= R
    BY <1>1, SMT DEF middle
  <2>4. lastCell \in Nat /\ m \in Nat
    <3>1. data_length_idx(param) \in Nat /\ bitAt(param, 8) \in Nat
      BY SMT DEF data_length_idx, bitAt
    <3> HIDE DEF param
    <3> QED
      BY <1>1, <1>5, <3>1, SMT DEF middle
  <2> HIDE DEF last, stops, T, R, m, k
  <2>5. k < T
    <3> SUFFICES ASSUME T <= k PROVE FALSE
      BY <2>3, SMT
    <3> DEFINE A == lastCell * R  B == (lastCell + 1) * T  C == T * lastCell
    <3>1. T * lastCell <= R * lastCell
      <4>1. T <= R
        BY <2>3, SMT
      <4> QED
        BY <2>3, <2>4, <4>1, Products
    <3>2. B = C + T /\ C \in Nat
      <4>1. (lastCell + 1) * T = lastCell * T + T
        BY <2>3, <2>4, Products
      <4>2. lastCell * T = T * lastCell
        BY <2>3, <2>4, SMT
      <4> QED
        BY <2>3, <2>4, <4>1, <4>2, Products
    <3>3. C <= A /\ A \in Nat
      <4>1. lastCell * R = R * lastCell
        BY <2>3, <2>4, SMT
      <4> QED
        BY <2>3, <2>4, <3>1, <4>1, Products
    <3>4. A + m + 1 < B
      BY <2>1, <2>2
    <3> HIDE DEF A, B, C
    <3> QED
      BY <2>3, <2>4, <3>2, <3>3, <3>4, SMT DEF k
  <2> QED
    BY <2>1, <2>2, <2>5, Zenon DEF Agree, T, R, m, k
<1> QED
  BY <1>1, <1>3, <1>6, Zenon DEF Formats, lastCell

(* A cycle leaves the setup alone, and all that is read from it. *)
LEMMA FormatsStay ==
  ASSUME setup' = setup
  PROVE  /\ period' = period /\ rxPeriod' = rxPeriod /\ middle' = middle
         /\ bit_count_m1' = bit_count_m1 /\ stop_count' = stop_count /\ lastCell' = lastCell
         /\ parity_type' = parity_type /\ Agree' = Agree
         /\ \A x : parity_bit(x)' = parity_bit(x)
<1>0. bit_count_m1' = bit_count_m1
  BY Zenon DEF bit_count_m1, data_length_idx
<1>a. parity_type' = parity_type
  BY SMT DEF parity_type
<1>1. bit_count_m1' = bit_count_m1 /\ parity_type' = parity_type
  BY <1>0, <1>a
<1>2. /\ period' = period /\ rxPeriod' = rxPeriod /\ middle' = middle
      /\ lastCell' = lastCell /\ stop_count' = stop_count
      /\ \A x : parity_bit(x)' = parity_bit(x)
  BY <1>1, Zenon DEF period, rxPeriod, middle, lastCell, stop_count, parity_bit, data_length_idx
<1> QED
  BY <1>1, <1>2 DEF Agree

(* Odd and even parity tell a sum from the other. *)
LEMMA ParityBit ==
  ASSUME NEW x \in 0 .. 1
  PROVE  /\ parity_bit(x) \in 0 .. 1
         /\ parity_type \in {"odd", "even"} => parity_bit(1 - x) = 1 - parity_bit(x)
<1>1. parity_bit(x) \in 0 .. 1
  BY SMT DEF parity_bit
<1>2. ASSUME parity_type \in {"odd", "even"}
      PROVE  parity_bit(1 - x) = 1 - parity_bit(x)
  BY <1>2, SMT DEF parity_bit
<1> QED
  BY <1>1, <1>2

(* A queue without its first word. *)
LEMMA HeadIn ==
  ASSUME NEW T, NEW q \in Seq(T), q # << >>
  PROVE  Head(q) \in T /\ Tail(q) \in Seq(T) /\ Len(q) \in Nat \ {0} /\ Len(Tail(q)) = Len(q) - 1
OBVIOUS

(* The bits of a byte. *)
LEMMA Halved ==
  ASSUME NEW w \in 0 .. 255
  PROVE  w % 2 \in 0 .. 1 /\ w \div 2 \in 0 .. 255
BY SMT

(* The sum of two bits. *)
LEMMA XorBits ==
  ASSUME NEW a \in 0 .. 1, NEW b \in 0 .. 1
  PROVE  Xor(a, b) \in 0 .. 1 /\ Xor(a, b) = IF a = b THEN 0 ELSE 1
BY SMT DEF Xor

(* do_tx: a frame starts, the line rests, a tick passes, or the next cell begins. *)
LEMMA TxKinds ==
  ASSUME TxPort, Formats, do_tx, setup' = setup, tx_buf \in Seq(0 .. 255)
  PROVE  TxPort' /\ (TxStarts \/ TxRests \/ TxTicks \/ TxNexts)
<1> DEFINE N == bit_count_m1  S == stop_count  P == period  L == lastCell
           pn == parity_type # "none"
<1>f. /\ P \in Nat \ {0} /\ N \in 4 .. 7 /\ S \in 1 .. 2
      /\ L = IF pn THEN N + 2 ELSE N + 1
      /\ setup.txBaud = P
  BY Zenon DEF Formats, period
<1>p. /\ P' = P /\ L' = L /\ N' = N /\ S' = S /\ parity_type' = parity_type
      /\ \A x : parity_bit(x)' = parity_bit(x)
  BY FormatsStay, Zenon
<1>t. /\ Shaped(tx) /\ tx.state \in States /\ tx.tick \in 0 .. P
      /\ tx.word \in 0 .. 255 /\ tx.parity \in 0 .. 1 /\ tx.bit \in 0 .. 1
      /\ tx.bit_pos \in Nat /\ tx.error = FALSE
      /\ tx.state = "Start" => tx.bit_pos <= N
      /\ tx.state = "Parity" => tx.bit_pos = 0 /\ pn
      /\ tx.state \in {"Idle", "Stop"} => tx.bit_pos <= S
      /\ tx.state = "Idle" => tx.tick = 0
  BY Zenon DEF TxPort
<1>e. end_of_bit(tx, setup.txBaud) <=> tx.tick = P
  <2>1. end_of_bit(tx, setup.txBaud) <=> tx.tick >= P
    BY Zenon DEF end_of_bit, period
  <2> HIDE DEF P
  <2> QED
    BY <1>f, <1>t, <2>1, SMT
<1>h. ~stop_at_half_period(tx)
  <2>1. S # 3
    BY <1>f, SMT
  <2> QED
    BY <2>1, Zenon DEF stop_at_half_period
<1>c. /\ tx.state = "Start" => txCell = tx.bit_pos
      /\ tx.state = "Parity" => txCell = N + 1
      /\ tx.state \in {"Stop", "Idle"} => txCell = L + tx.bit_pos
  BY StateNames, Zenon DEF txCell
<1>d. /\ tx'.state = "Start" => txCell' = tx'.bit_pos
      /\ tx'.state = "Parity" => txCell' = N + 1
      /\ tx'.state \in {"Stop", "Idle"} => txCell' = L + tx'.bit_pos
  BY <1>p, StateNames, Zenon DEF txCell
<1>o. /\ txOn <=> tx.state # "Idle"
      /\ txOn' <=> tx'.state # "Idle"
  BY Zenon DEF txOn
<1>v. txFrameOver => txOver
  <2>1. ASSUME tx.state = "Stop", tx.tick = P, tx.bit_pos >= S
        PROVE  txCell = L + S
    <3>1. tx.bit_pos = S
      <4> HIDE DEF S
      <4> QED
        BY <1>f, <1>t, <2>1, SMT
    <3> QED
      BY <1>c, <2>1, <3>1, Zenon
  <2> QED
    BY <1>e, <1>o, <2>1, Zenon DEF txFrameOver, txOver
<1>w. txFrameOver => tx.state = "Idle" \/ (tx.state = "Stop" /\ tx.bit_pos >= S /\ tx.tick = P)
  BY <1>e, Zenon DEF txFrameOver
<1> DEFINE port == /\ Shaped(tx') /\ tx'.state \in States /\ tx'.tick \in 0 .. P
                   /\ tx'.word \in 0 .. 255 /\ tx'.parity \in 0 .. 1 /\ tx'.bit \in 0 .. 1
                   /\ tx'.bit_pos \in Nat /\ tx'.error = FALSE
                   /\ tx'.state = "Start" => tx'.bit_pos <= N
                   /\ tx'.state = "Parity" => tx'.bit_pos = 0 /\ pn
                   /\ tx'.state \in {"Idle", "Stop"} => tx'.bit_pos <= S
                   /\ tx'.state = "Idle" => tx'.tick = 0
<1>q. port => TxPort'
  BY <1>p, Zenon DEF TxPort, Shaped, States
<1>1. CASE TxTake
  <2>0. Shaped(tx')
    BY <1>1, <1>t, Edits, Zenon DEF TxTake, activate
  <2>1. Head(tx_buf) \in 0 .. 255 /\ tx_buf # << >> /\ txStarts /\ txFrameOver
    <3>1. txStarts /\ txFrameOver /\ tx_buf # << >>
      BY <1>1, Zenon DEF TxTake, txStarts
    <3> QED
      BY <3>1, HeadIn, Zenon
  <2>2. /\ tx'.state = "Start" /\ tx'.bit_pos = 0 /\ tx'.word = Head(tx_buf)
        /\ tx'.tick = (IF tx.state = "Idle" THEN tx.tick ELSE 0)
        /\ tx'.bit = 0 /\ tx'.parity = 0 /\ tx'.error = tx.error
    BY <1>1, <1>t, SMT DEF TxTake, activate, Shaped
  <2>3. tx'.tick = 0
    BY <1>t, <2>2, Zenon
  <2> HIDE DEF P, N, S
  <2>4. 0 \in 0 .. P /\ 0 \in 0 .. 1 /\ 0 \in Nat /\ 0 <= N /\ 0 <= S
    BY <1>f, SMT
  <2>5. port
    BY <1>t, <2>0, <2>1, <2>2, <2>3, <2>4, StateNames, Zenon DEF States
  <2>6. TxStarts
    BY <1>v, <1>o, <1>d, <2>1, <2>2, <2>3, StateNames, Zenon DEF TxStarts
  <2> QED
    BY <1>q, <2>5, <2>6, Zenon
<1>2. CASE TxRest
  <2>0. Shaped(tx')
    BY <1>2, <1>t, Edits, Zenon DEF TxRest
  <2>1. ~txStarts /\ txFrameOver
    BY <1>2, Zenon DEF TxRest, txStarts
  <2>2. /\ tx'.state = "Idle" /\ tx'.bit_pos = tx.bit_pos /\ tx'.word = tx.word
        /\ tx'.tick = (IF tx.state = "Idle" THEN tx.tick ELSE 0)
        /\ tx'.bit = (IF tx.state = "Idle" THEN tx.bit ELSE 1)
        /\ tx'.parity = tx.parity /\ tx'.error = tx.error
    BY <1>2, <1>t, SMT DEF TxRest, Shaped
  <2>3. tx'.tick = 0
    BY <1>t, <2>2, Zenon
  <2> HIDE DEF P, N, S
  <2>4. 0 \in 0 .. P /\ 1 \in 0 .. 1
    BY <1>f, SMT
  <2>5. tx.bit_pos <= S /\ tx'.bit \in 0 .. 1
    <3>1. tx'.bit = tx.bit \/ tx'.bit = 1
      BY <2>2, Zenon
    <3> QED
      BY <1>t, <1>w, <2>1, <2>4, <3>1, Zenon
  <2>6. port
    BY <1>t, <2>0, <2>1, <2>2, <2>3, <2>4, <2>5, StateNames, Zenon DEF States
  <2>7. TxRests
    BY <1>v, <1>o, <1>d, <2>1, <2>2, <2>3, Zenon DEF TxRests
  <2> QED
    BY <1>q, <2>6, <2>7, Zenon
<1>3. CASE TxTick
  <2>0. tx' = [tx EXCEPT !.tick = @ + 1, !.state = @] /\ tx.state # "Idle" /\ tx.tick # P
    BY <1>3, <1>e, <1>h, Zenon DEF TxTick, ticked
  <2>1. Shaped(tx')
    BY <2>0, <1>t, Edits, Zenon
  <2>2. /\ tx'.state = tx.state /\ tx'.bit_pos = tx.bit_pos /\ tx'.word = tx.word
        /\ tx'.tick = tx.tick + 1
        /\ tx'.bit = tx.bit
        /\ tx'.parity = tx.parity /\ tx'.error = tx.error
    BY <2>0, <1>t, SMT DEF Shaped
  <2> HIDE DEF P, N, S
  <2>3. tx.tick < P /\ tx.tick + 1 \in 0 .. P
    BY <1>f, <1>t, <2>0, SMT
  <2>4. ~txStarts
    BY <1>w, <2>0, Zenon DEF txStarts
  <2>5. port
    BY <1>t, <2>0, <2>1, <2>2, <2>3, Zenon
  <2>6. txCell' = txCell
    BY <1>p, <2>2, Zenon DEF txCell, N
  <2>7. TxTicks
    BY <1>o, <2>0, <2>2, <2>3, <2>4, <2>6, Zenon DEF TxTicks, P
  <2> QED
    BY <1>q, <2>5, <2>7, Zenon
<1>4. CASE TxData
  <2>0. tx.state = "Start" /\ tx.tick = P
    BY <1>4, <1>e, Zenon DEF TxData
  <2>1. Shaped(tx')
    BY <1>4, <1>t, Edits, Zenon DEF TxData
  <2>2. /\ tx'.tick = 0 /\ tx'.bit = tx.word % 2 /\ tx'.word = tx.word \div 2
        /\ tx'.parity = Xor(tx.parity, tx'.bit)
        /\ tx'.bit_pos = (IF tx.bit_pos = N THEN 0 ELSE tx.bit_pos + 1)
        /\ tx'.state = (IF tx.bit_pos # N THEN "Start"
                       ELSE IF parity_type # "none" THEN "Parity" ELSE "Stop")
        /\ tx'.error = tx.error
    BY <1>4, <1>t, <2>0, SMT DEF TxData, Shaped
  <2>3. ~txStarts
    BY <1>w, <2>0, StateNames, Zenon DEF txStarts
  <2> HIDE DEF P, N, S, L, pn
  <2>4. /\ tx.word % 2 \in 0 .. 1 /\ tx.word \div 2 \in 0 .. 255
        /\ tx'.parity \in 0 .. 1 /\ 0 \in 0 .. P
    <3>0. tx.word \in 0 .. 255 /\ tx.parity \in 0 .. 1
      BY <1>t, Zenon
    <3>1. tx.word % 2 \in 0 .. 1 /\ tx.word \div 2 \in 0 .. 255
      BY <3>0, Halved, Zenon
    <3>2. tx'.parity \in 0 .. 1
      <4>1. tx'.parity = Xor(tx.parity, tx.word % 2)
        BY <2>2, Zenon
      <4> QED
        BY <3>0, <3>1, <4>1, XorBits
    <3>3. 0 \in 0 .. P
      BY <1>f, SMT
    <3> QED
      BY <3>1, <3>2, <3>3
  <2>5. txCell = tx.bit_pos /\ tx.bit_pos <= N
    BY <1>c, <1>t, <2>0, Zenon
  <2>6. CASE tx.bit_pos = N
    <3>1. tx'.bit_pos = 0 /\ tx'.state = IF pn THEN "Parity" ELSE "Stop"
      BY <2>2, <2>6, Zenon DEF pn
    <3>2. txCell' = N + 1
      <4>1. CASE pn
        BY <3>1, <4>1, <1>d, Zenon
      <4>2. CASE ~pn
        <5>1. txCell' = L + 0
          BY <3>1, <4>2, <1>d, Zenon
        <5> QED
          BY <1>f, <4>2, <5>1, SMT
      <4> QED
        BY <4>1, <4>2
    <3>3. 0 \in Nat /\ 0 <= S
      BY <1>f, SMT
    <3>4. port
      BY <1>t, <2>1, <2>2, <2>4, <3>1, <3>3, StateNames, Zenon DEF States
    <3>5. txCell <= N /\ ~(txCell > N) /\ txCell < L + S /\ txCell' = txCell + 1
      BY <1>f, <2>5, <2>6, <3>2, SMT
    <3>6. TxNexts
      BY <1>o, <2>0, <2>2, <2>3, <3>1, <3>5, StateNames, Zenon DEF TxNexts, P, N, L, S
    <3> QED
      BY <1>q, <3>4, <3>6, Zenon
  <2>7. CASE tx.bit_pos # N
    <3>1. tx'.bit_pos = tx.bit_pos + 1 /\ tx'.state = "Start"
      BY <2>2, <2>7, Zenon
    <3>2. txCell' = tx.bit_pos + 1
      BY <3>1, <1>d, Zenon
    <3>3. tx'.bit_pos \in Nat /\ tx'.bit_pos <= N
      BY <1>f, <1>t, <2>5, <2>7, <3>1, SMT
    <3>4. port
      BY <1>t, <2>1, <2>2, <2>4, <3>1, <3>3, StateNames, Zenon DEF States
    <3>5. txCell <= N /\ ~(txCell > N) /\ txCell < L + S /\ txCell' = txCell + 1
      BY <1>f, <1>t, <2>5, <2>7, <3>2, SMT
    <3>6. TxNexts
      BY <1>o, <2>0, <2>2, <2>3, <3>1, <3>5, StateNames, Zenon DEF TxNexts, P, N, L, S
    <3> QED
      BY <1>q, <3>4, <3>6, Zenon
  <2> QED
    BY <2>6, <2>7
<1>5. CASE TxParity
  <2>0. tx.state = "Parity" /\ tx.tick = P
    BY <1>5, <1>e, Zenon DEF TxParity
  <2>1. Shaped(tx')
    BY <1>5, <1>t, Edits, Zenon DEF TxParity
  <2>2. /\ tx'.tick = 0 /\ tx'.bit = parity_bit(tx.parity) /\ tx'.word = tx.word
        /\ tx'.parity = tx.parity /\ tx'.bit_pos = tx.bit_pos
        /\ tx'.state = "Stop" /\ tx'.error = tx.error
    BY <1>5, <1>t, <2>0, SMT DEF TxParity, Shaped
  <2>3. ~txStarts
    BY <1>w, <2>0, StateNames, Zenon DEF txStarts
  <2> HIDE DEF P, N, S, L, pn
  <2>4. parity_bit(tx.parity) \in 0 .. 1 /\ 0 \in 0 .. P /\ 0 <= S
    BY <1>f, <1>t, ParityBit, SMT
  <2>5. txCell = N + 1 /\ tx'.bit_pos = 0 /\ txCell' = L + 0
    BY <1>c, <1>d, <1>t, <2>0, <2>2, Zenon
  <2>6. port
    BY <1>t, <2>1, <2>2, <2>4, <2>5, StateNames, Zenon DEF States
  <2>7. pn
    BY <1>t, <2>0
  <2>8. ~(txCell <= N) /\ txCell < L + S /\ txCell' = txCell + 1 /\ txCell < L
    BY <1>f, <1>t, <2>5, <2>7, SMT
  <2>9. TxNexts
    BY <1>o, <2>0, <2>2, <2>3, <2>8, StateNames, Zenon DEF TxNexts, P, N, L, S
  <2> QED
    BY <1>q, <2>6, <2>9, Zenon
<1>6. CASE TxStop
  <2>0. tx.state = "Stop" /\ tx.tick = P /\ tx.bit_pos < S
    BY <1>6, <1>e, Zenon DEF TxStop
  <2>1. Shaped(tx')
    BY <1>6, <1>t, Edits, Zenon DEF TxStop
  <2>2. /\ tx'.tick = 0 /\ tx'.bit = 1 /\ tx'.word = tx.word
        /\ tx'.parity = tx.parity /\ tx'.bit_pos = tx.bit_pos + 1
        /\ tx'.state = "Stop" /\ tx'.error = tx.error
    BY <1>6, <1>t, <2>0, SMT DEF TxStop, Shaped
  <2> HIDE DEF P, N, S, L, pn
  <2>a. ~(tx.bit_pos >= S)
    BY <1>f, <1>t, <2>0, SMT
  <2>3. ~txStarts
    BY <1>w, <2>0, <2>a, StateNames, Zenon DEF txStarts
  <2>4. 0 \in 0 .. P /\ 1 \in 0 .. 1 /\ tx'.bit_pos \in Nat /\ tx'.bit_pos <= S
    BY <1>f, <1>t, <2>0, <2>2, SMT
  <2>5. txCell = L + tx.bit_pos /\ txCell' = L + tx'.bit_pos
    BY <1>c, <1>d, <2>0, <2>2, Zenon
  <2>6. port
    BY <1>t, <2>1, <2>2, <2>4, StateNames, Zenon DEF States
  <2>8. ~(txCell <= N) /\ txCell < L + S /\ txCell' = txCell + 1 /\ ~(txCell < L)
    <3>1. tx.bit_pos \in Nat /\ tx.bit_pos < S /\ tx'.bit_pos = tx.bit_pos + 1
      BY <1>t, <2>0, <2>2, Zenon
    <3>2. L \in {N + 1, N + 2}
      BY <1>f, Zenon
    <3> QED
      BY <1>f, <2>5, <3>1, <3>2, SMT
  <2>9. TxNexts
    BY <1>o, <2>0, <2>2, <2>3, <2>8, StateNames, Zenon DEF TxNexts, P, N, L, S
  <2> QED
    BY <1>q, <2>6, <2>9, Zenon
<1> QED
  BY <1>1, <1>2, <1>3, <1>4, <1>5, <1>6, Zenon DEF do_tx

(* Which cells the states of the transmitter are. *)
LEMMA TxCells ==
  ASSUME TxPort, Formats
  PROVE  /\ txOn => txCell \in 0 .. lastCell + stop_count
         /\ tx.state \in {"Start", "Parity"} <=> txOn /\ txCell < lastCell
         /\ end_of_bit(tx, setup.txBaud) <=> tx.tick = period
<1> DEFINE N == bit_count_m1  S == stop_count  P == period  L == lastCell
<1>f. P \in Nat \ {0} /\ N \in 4 .. 7 /\ S \in 1 .. 2 /\ setup.txBaud = P
  BY Zenon DEF Formats, period
<1>l. L \in {N + 1, N + 2} /\ (parity_type # "none" => L = N + 2)
  BY Zenon DEF Formats
<1>c. /\ tx.state = "Start" => txCell = tx.bit_pos
      /\ tx.state = "Parity" => txCell = N + 1
      /\ tx.state \in {"Stop", "Idle"} => txCell = L + tx.bit_pos
  BY StateNames, Zenon DEF txCell
<1>t. /\ tx.state \in {"Idle", "Start", "Parity", "Stop"} /\ tx.tick \in 0 .. P
      /\ tx.bit_pos \in Nat
      /\ tx.state = "Start" => tx.bit_pos <= N
      /\ tx.state = "Parity" => tx.bit_pos = 0 /\ parity_type # "none"
      /\ tx.state \in {"Idle", "Stop"} => tx.bit_pos <= S
  BY Zenon DEF TxPort, States
<1>o. txOn <=> tx.state # "Idle"
  BY Zenon DEF txOn
<1>e. end_of_bit(tx, setup.txBaud) <=> tx.tick >= P
  BY Zenon DEF end_of_bit, period
<1> HIDE DEF N, S, P, L
<1>1. end_of_bit(tx, setup.txBaud) <=> tx.tick = P
  BY <1>e, <1>f, <1>t, SMT
<1>2. CASE tx.state = "Idle"
  BY <1>1, <1>2, <1>o, StateNames, Zenon DEF P
<1>3. CASE tx.state = "Start"
  <2>1. txCell \in 0 .. L + S /\ txCell < L
    BY <1>f, <1>l, <1>c, <1>t, <1>3, SMT
  <2> QED
    BY <1>1, <1>3, <1>o, <2>1, Zenon DEF P, L, S
<1>4. CASE tx.state = "Parity"
  <2>1. txCell \in 0 .. L + S /\ txCell < L
    BY <1>f, <1>l, <1>c, <1>t, <1>4, SMT
  <2> QED
    BY <1>1, <1>4, <1>o, <2>1, Zenon DEF P, L, S
<1>5. CASE tx.state = "Stop"
  <2>0. txCell = L + tx.bit_pos /\ tx.bit_pos <= S
    BY <1>c, <1>t, <1>5, Zenon
  <2>1. txCell \in 0 .. L + S /\ ~(txCell < L)
    BY <1>f, <1>l, <1>t, <2>0, SMT
  <2> QED
    BY <1>1, <1>5, <1>o, <2>1, StateNames, Zenon DEF P, L, S
<1> QED
  BY <1>2, <1>3, <1>4, <1>5, <1>t, Zenon

(* Which cells the states of the receiver are. *)
LEMMA RxCells ==
  ASSUME RxPort, Formats
  PROVE  /\ rxOn => rxCell \in 0 .. lastCell + 1
         /\ rx.state = "Start" <=> rxOn /\ rxCell <= bit_count_m1 + 1
         /\ rx.state = "Parity" <=> rxOn /\ rxCell = bit_count_m1 + 2 /\ rxCell <= lastCell
         /\ rx.state = "Stop" <=> rxOn /\ rxCell = lastCell + 1
         /\ rxCompletes <=> rxOn /\ rxCell = bit_count_m1 + 1 /\ rx.tick = rxPeriod
         /\ end_of_bit(rx, setup.rxBaud) <=> rx.tick = rxPeriod
<1> DEFINE N == bit_count_m1  P == rxPeriod  L == lastCell
<1>f. P \in Nat \ {0} /\ N \in 4 .. 7 /\ setup.rxBaud = P
  BY Zenon DEF Formats, rxPeriod
<1>l. L \in {N + 1, N + 2} /\ (parity_type # "none" => L = N + 2)
  BY Zenon DEF Formats
<1>c. /\ rx.state = "Start" => rxCell = rx.bit_pos
      /\ rx.state = "Parity" => rxCell = N + 2
      /\ rx.state = "Stop" => rxCell = L + 1
  BY StateNames, Zenon DEF rxCell
<1>t. /\ rx.state \in {"Idle", "Start", "Parity", "Stop"} /\ rx.tick \in 0 .. P
      /\ rx.bit_pos \in Nat
      /\ rx.state = "Start" => rx.bit_pos <= N + 1
      /\ rx.state = "Parity" => rx.bit_pos = 0 /\ parity_type # "none"
  BY Zenon DEF RxPort, States
<1>o. rxOn <=> rx.state # "Idle"
  BY Zenon DEF rxOn
<1>e. end_of_bit(rx, setup.rxBaud) <=> rx.tick >= P
  BY <1>f, Zenon DEF end_of_bit
<1>r. rxCompletes <=> rx.state = "Start" /\ end_of_bit(rx, setup.rxBaud) /\ rx.bit_pos > N
  BY Zenon DEF rxCompletes
<1> HIDE DEF N, P, L
<1>1. end_of_bit(rx, setup.rxBaud) <=> rx.tick = P
  BY <1>e, <1>f, <1>t, SMT
<1>2. CASE rx.state = "Idle"
  BY <1>1, <1>2, <1>o, <1>r, StateNames, Zenon DEF P
<1>3. CASE rx.state = "Start"
  <2>0. rxCell = rx.bit_pos /\ rx.bit_pos <= N + 1 /\ rx.bit_pos \in Nat
    BY <1>c, <1>t, <1>3, Zenon
  <2>1. /\ rxCell \in 0 .. L + 1 /\ rxCell <= N + 1 /\ rxCell # N + 2 /\ rxCell # L + 1
        /\ rx.bit_pos > N <=> rxCell = N + 1
    BY <1>f, <1>l, <2>0, SMT
  <2> QED
    BY <1>1, <1>3, <1>o, <1>r, <2>1, StateNames, Zenon DEF P, L, N
<1>4. CASE rx.state = "Parity"
  <2>0. rxCell = N + 2 /\ L = N + 2
    BY <1>c, <1>t, <1>l, <1>4, Zenon
  <2>1. /\ rxCell \in 0 .. L + 1 /\ ~(rxCell <= N + 1) /\ rxCell # N + 1 /\ rxCell <= L
        /\ rxCell # L + 1
    BY <1>f, <2>0, SMT
  <2> QED
    BY <1>1, <1>4, <1>o, <1>r, <2>0, <2>1, StateNames, Zenon DEF P, L, N
<1>5. CASE rx.state = "Stop"
  <2>0. rxCell = L + 1
    BY <1>c, <1>5, Zenon
  <2>1. /\ rxCell \in 0 .. L + 1 /\ ~(rxCell <= N + 1) /\ rxCell # N + 1 /\ ~(rxCell <= L)
    BY <1>f, <1>l, <2>0, SMT
  <2> QED
    BY <1>1, <1>5, <1>o, <1>r, <2>0, <2>1, StateNames, Zenon DEF P, L, N
<1> QED
  BY <1>2, <1>3, <1>4, <1>5, <1>t, Zenon

(* A bit shifted into a byte. *)
LEMMA Shifted ==
  ASSUME NEW w \in 0 .. 255, NEW b \in 0 .. 1
  PROVE  128 * b + (w \div 2) \in 0 .. 255
BY SMT

(* do_rx: the same four kinds, and the end of a frame. *)
LEMMA RxKinds ==
  ASSUME RxPort, Formats, do_rx, setup' = setup, rx_bit_d \in 0 .. 1, rx_bit_samp \in 0 .. 1
  PROVE  /\ RxPort' /\ rx_bit_samp' \in 0 .. 1
         /\ RxRests \/ RxEnters \/ RxTicks \/ RxNexts \/ RxEnds
<1> DEFINE N == bit_count_m1  S == stop_count  P == rxPeriod  L == lastCell
           pn == parity_type # "none"
<1>f. P \in Nat \ {0} /\ N \in 4 .. 7 /\ S \in 1 .. 2 /\ setup.rxBaud = P
  BY Zenon DEF Formats, rxPeriod
<1>l. L \in {N + 1, N + 2} /\ (pn => L = N + 2) /\ (~pn => L = N + 1)
  BY Zenon DEF Formats
<1>p. P' = P /\ L' = L /\ N' = N /\ S' = S /\ parity_type' = parity_type
  BY FormatsStay, Zenon
<1>t. /\ Shaped(rx) /\ rx.state \in States /\ rx.tick \in 0 .. P
      /\ rx.word \in 0 .. 255 /\ rx.parity \in 0 .. 1 /\ rx.bit = 1
      /\ rx.bit_pos \in Nat /\ rx.error \in BOOLEAN
      /\ rx.state = "Start" => rx.bit_pos <= N + 1
      /\ rx.state = "Parity" => rx.bit_pos = 0 /\ pn
      /\ rx.state \in {"Idle", "Stop"} => rx.bit_pos <= 1
      /\ rx.state = "Idle" => rx.tick = 0
  BY Zenon DEF RxPort
<1>e. end_of_bit(rx, setup.rxBaud) <=> rx.tick = P
  BY RxCells, Zenon
<1>h. ~stop_at_half_period(rx)
  <2>1. S # 3
    BY <1>f, SMT
  <2> QED
    BY <2>1, Zenon DEF stop_at_half_period
<1>m. is_half_period(rx, setup.rxBaud) <=> rx.tick = middle
  BY <1>f, Zenon DEF is_half_period, middle
<1>c. /\ rx.state = "Start" => rxCell = rx.bit_pos
      /\ rx.state = "Parity" => rxCell = N + 2
      /\ rx.state \in {"Stop", "Idle"} => rxCell = L + 1
  BY StateNames, Zenon DEF rxCell
<1>d. /\ rx'.state = "Start" => rxCell' = rx'.bit_pos
      /\ rx'.state = "Parity" => rxCell' = N + 2
      /\ rx'.state \in {"Stop", "Idle"} => rxCell' = L + 1
  BY <1>p, StateNames, Zenon DEF rxCell
<1>o. /\ rxOn <=> rx.state # "Idle"
      /\ rxOn' <=> rx'.state # "Idle"
  BY Zenon DEF rxOn
<1> DEFINE port == /\ Shaped(rx') /\ rx'.state \in States /\ rx'.tick \in 0 .. P
                   /\ rx'.word \in 0 .. 255 /\ rx'.parity \in 0 .. 1 /\ rx'.bit = 1
                   /\ rx'.bit_pos \in Nat /\ rx'.error \in BOOLEAN
                   /\ rx'.state = "Start" => rx'.bit_pos <= N + 1
                   /\ rx'.state = "Parity" => rx'.bit_pos = 0 /\ pn
                   /\ rx'.state \in {"Idle", "Stop"} => rx'.bit_pos <= 1
                   /\ rx'.state = "Idle" => rx'.tick = 0
<1>q. port => RxPort'
  BY <1>p, Zenon DEF RxPort, Shaped, States
<1>n. 0 \in 0 .. P /\ 0 \in 0 .. 1 /\ 0 \in Nat /\ 0 \in 0 .. 255 /\ 0 <= N + 1 /\ 0 <= 1
  <2> HIDE DEF P, N
  <2> QED
    BY <1>f, SMT
<1>1. CASE RxRest
  <2>1. rx.state = "Idle" /\ rx_bit_d = 1 /\ rx' = rx /\ rx_bit_samp' = rx_bit_samp
    BY <1>1, Zenon DEF RxRest, bit_rx
  <2>2. port
    BY <1>t, <2>1
  <2>3. RxRests
    BY <1>o, <2>1, Zenon DEF RxRests
  <2> QED
    BY <1>q, <2>1, <2>2, <2>3, Zenon
<1>2. CASE RxStart
  <2>0. Shaped(rx')
    BY <1>2, <1>t, Edits, Zenon DEF RxStart, activate
  <2>1. rx.state = "Idle" /\ rx_bit_d = 0 /\ rx_bit_samp' = rx_bit_samp
    BY <1>2, Zenon DEF RxStart, bit_rx
  <2>2. /\ rx'.state = "Start" /\ rx'.bit_pos = 0 /\ rx'.word = 0 /\ rx'.parity = 0
        /\ rx'.tick = rx.tick /\ rx'.bit = rx.bit /\ rx'.error = rx.error
    BY <1>2, <1>t, SMT DEF RxStart, activate, Shaped
  <2>3. rx'.tick = 0
    BY <1>t, <2>1, <2>2, Zenon
  <2> HIDE DEF P, N
  <2>4. port
    BY <1>t, <1>n, <2>0, <2>2, <2>3, StateNames, Zenon DEF States
  <2>5. RxEnters
    BY <1>o, <1>d, <2>1, <2>2, <2>3, Zenon DEF RxEnters
  <2> QED
    BY <1>q, <2>1, <2>4, <2>5, Zenon
<1>3. CASE RxTick
  <2>0. rx.state # "Idle" /\ rx.tick # P
    BY <1>3, <1>e, Zenon DEF RxTick
  <2>a. ticked(rx, setup.rxBaud) = [rx EXCEPT !.tick = @ + 1, !.state = @]
    BY <1>h, Zenon DEF ticked
  <2> DEFINE ticks == [rx EXCEPT !.tick = @ + 1, !.state = @]
             half == rx.tick = middle
  <2>b. /\ half => /\ rx_bit_samp' = rx_bit_d
                   /\ rx.state = "Start" =>
                        rx' = [ticks EXCEPT !.word = 128 * rx_bit_d + (@ \div 2),
                                            !.parity = Xor(@, rx_bit_d)]
                   /\ rx.state # "Start" => rx' = ticks
        /\ ~half => rx' = ticks /\ rx_bit_samp' = rx_bit_samp
    BY <1>3, <1>m, <2>a, Zenon DEF RxTick, bit_rx
  <2>c. Shaped(ticks)
    BY <1>t, Edits, Zenon
  <2>1. Shaped(rx')
    <3>1. \A x, y : Shaped([ticks EXCEPT !.word = x, !.parity = y])
      BY <2>c, Edits, Zenon
    <3> HIDE DEF ticks
    <3>2. Shaped([ticks EXCEPT !.word = 128 * rx_bit_d + (@ \div 2),
                               !.parity = Xor(@, rx_bit_d)])
      BY <3>1, Zenon
    <3> QED
      BY <2>b, <2>c, <3>2
  <2>d. /\ ticks.state = rx.state /\ ticks.bit_pos = rx.bit_pos /\ ticks.word = rx.word
        /\ ticks.tick = rx.tick + 1 /\ ticks.bit = rx.bit
        /\ ticks.parity = rx.parity /\ ticks.error = rx.error
    BY <1>t, SMT DEF Shaped
  <2> HIDE DEF ticks, half
  <2>2. /\ rx'.state = rx.state /\ rx'.bit_pos = rx.bit_pos
        /\ rx'.tick = rx.tick + 1 /\ rx'.bit = rx.bit /\ rx'.error = rx.error
        /\ rx'.word = (IF half /\ rx.state = "Start"
                       THEN 128 * rx_bit_d + (rx.word \div 2) ELSE rx.word)
        /\ rx'.parity = (IF half /\ rx.state = "Start" THEN Xor(rx.parity, rx_bit_d)
                         ELSE rx.parity)
        /\ rx_bit_samp' = (IF half THEN rx_bit_d ELSE rx_bit_samp)
    <3>1. CASE half /\ rx.state = "Start"
      <4>1. rx' = [ticks EXCEPT !.word = 128 * rx_bit_d + (@ \div 2),
                                !.parity = Xor(@, rx_bit_d)]
        BY <2>b, <3>1, Zenon
      <4>2. /\ rx'.state = ticks.state /\ rx'.bit_pos = ticks.bit_pos
            /\ rx'.tick = ticks.tick /\ rx'.bit = ticks.bit /\ rx'.error = ticks.error
            /\ rx'.word = 128 * rx_bit_d + (ticks.word \div 2)
            /\ rx'.parity = Xor(ticks.parity, rx_bit_d)
        BY <2>c, <4>1, SMT DEF Shaped
      <4> QED
        BY <2>b, <2>d, <3>1, <4>2
    <3>2. CASE ~(half /\ rx.state = "Start")
      BY <2>b, <2>d, <3>2, Zenon
    <3> QED
      BY <3>1, <3>2
  <2>3. rx'.word \in 0 .. 255 /\ rx'.parity \in 0 .. 1 /\ rx_bit_samp' \in 0 .. 1
    <3>0. rx.word \in 0 .. 255 /\ rx.parity \in 0 .. 1
      BY <1>t, Zenon
    <3>1. 128 * rx_bit_d + (rx.word \div 2) \in 0 .. 255 /\ Xor(rx.parity, rx_bit_d) \in 0 .. 1
      BY <3>0, Shifted, XorBits, Zenon
    <3> QED
      BY <3>0, <3>1, <2>2
  <2> HIDE DEF P, N
  <2>4. rx.tick < P /\ rx.tick + 1 \in 0 .. P
    BY <1>f, <1>t, <2>0, SMT
  <2>5. port
    BY <1>t, <2>0, <2>1, <2>2, <2>3, <2>4, Zenon
  <2>6. rxCell' = rxCell
    BY <1>p, <2>2, Zenon DEF rxCell, N
  <2>7. RxTicks
    BY <1>o, <2>0, <2>2, <2>4, <2>6, Zenon DEF RxTicks, P, half
  <2> QED
    BY <1>q, <2>3, <2>5, <2>7, Zenon
<1>4. CASE RxData
  <2>0. rx.state = "Start" /\ rx.tick = P /\ rx_bit_samp' = rx_bit_samp
    BY <1>4, <1>e, Zenon DEF RxData
  <2>1. Shaped(rx')
    BY <1>4, <1>t, Edits, Zenon DEF RxData
  <2>2. /\ rx'.tick = 0 /\ rx'.word = rx.word /\ rx'.parity = rx.parity
        /\ rx'.bit = rx.bit /\ rx'.error = rx.error
        /\ rx'.bit_pos = (IF rxCompletes THEN 0 ELSE rx.bit_pos + 1)
        /\ rx'.state = (IF ~rxCompletes THEN "Start" ELSE IF pn THEN "Parity" ELSE "Stop")
    BY <1>4, <1>t, <2>0, SMT DEF RxData, Shaped
  <2>3. rxCompletes <=> rx.bit_pos = N + 1
    BY <1>c, <2>0, RxCells, Zenon
  <2> HIDE DEF P, N, S, L, pn
  <2>4. rxCell = rx.bit_pos /\ rx.bit_pos <= N + 1 /\ rx.bit_pos \in Nat
    BY <1>c, <1>t, <2>0, Zenon
  <2>5. /\ rxCell <= L
        /\ rx.bit_pos # N + 1 => rx.bit_pos + 1 \in Nat /\ rx.bit_pos + 1 <= N + 1
    BY <1>f, <1>l, <2>4, SMT
  <2>6. CASE rx.bit_pos = N + 1
    <3>1. rx'.bit_pos = 0 /\ rx'.state = IF pn THEN "Parity" ELSE "Stop"
      BY <2>2, <2>3, <2>6, Zenon
    <3>2. rxCell' = rxCell + 1
      <4>1. CASE pn
        <5>1. rxCell' = N + 2
          BY <3>1, <4>1, <1>d, Zenon
        <5> QED
          BY <1>f, <2>4, <2>6, <5>1, SMT
      <4>2. CASE ~pn
        <5>1. rxCell' = L + 1 /\ L = N + 1
          BY <3>1, <4>2, <1>d, <1>l, Zenon
        <5> QED
          BY <1>f, <2>4, <2>6, <5>1, SMT
      <4> QED
        BY <4>1, <4>2
    <3>4. port
      BY <1>t, <1>n, <2>1, <2>2, <3>1, StateNames, Zenon DEF States
    <3>5. RxNexts
      BY <1>o, <2>0, <2>2, <2>5, <3>1, <3>2, StateNames, Zenon DEF RxNexts, P, L
    <3> QED
      BY <1>q, <2>0, <3>4, <3>5, Zenon
  <2>7. CASE rx.bit_pos # N + 1
    <3>1. rx'.bit_pos = rx.bit_pos + 1 /\ rx'.state = "Start"
      BY <2>2, <2>3, <2>7, Zenon
    <3>2. rxCell' = rxCell + 1
      BY <1>d, <2>4, <3>1, Zenon
    <3>4. port
      BY <1>t, <1>n, <2>1, <2>2, <2>5, <2>7, <3>1, StateNames, Zenon DEF States
    <3>5. RxNexts
      BY <1>o, <2>0, <2>2, <2>5, <3>1, <3>2, StateNames, Zenon DEF RxNexts, P, L
    <3> QED
      BY <1>q, <2>0, <3>4, <3>5, Zenon
  <2> QED
    BY <2>6, <2>7
<1>5. CASE RxParity
  <2> DEFINE bad == parity_bit(rx.parity) # rx_bit_samp
  <2>0. rx.state = "Parity" /\ rx.tick = P /\ rx_bit_samp' = rx_bit_samp
    BY <1>5, <1>e, Zenon DEF RxParity
  <2>1. Shaped(rx')
    BY <1>5, <1>t, Edits, Zenon DEF RxParity
  <2>2. /\ rx'.tick = 0 /\ rx'.word = rx.word /\ rx'.parity = rx.parity
        /\ rx'.bit = rx.bit /\ rx'.bit_pos = rx.bit_pos + 1 /\ rx'.state = "Stop"
    BY <1>5, <1>t, <2>0, SMT DEF RxParity, Shaped
  <2>3. rx'.error = (rx.error \/ bad)
    BY <1>5, <1>t, <2>0, SMT DEF RxParity, Shaped
  <2> HIDE DEF P, N, S, L, pn, bad
  <2>4. rx'.error \in BOOLEAN /\ (rx'.error => rx.error \/ bad) /\ (bad => rx'.error)
    BY <2>3, Zenon
  <2>5. rxCell = N + 2 /\ rxCell' = L + 1 /\ L = N + 2 /\ rx.bit_pos = 0
    BY <1>c, <1>d, <1>l, <1>t, <2>0, <2>2, Zenon
  <2>6. rxCell <= L /\ rxCell' = rxCell + 1 /\ rx'.bit_pos = 1 /\ 1 \in Nat /\ 1 <= 1
    BY <1>f, <2>2, <2>5, SMT
  <2>7. port
    BY <1>t, <1>n, <2>1, <2>2, <2>4, <2>6, StateNames, Zenon DEF States
  <2>8. RxNexts
    BY <1>o, <2>0, <2>2, <2>4, <2>6, StateNames, Zenon DEF RxNexts, P, L, bad
  <2> QED
    BY <1>q, <2>0, <2>7, <2>8, Zenon
<1>6. CASE RxStop
  <2> DEFINE bad == rx_bit_samp # 1 \/ rxFull
             over == [rx EXCEPT !.tick = 0, !.error = @ \/ bad]
  <2>0. rx.state = "Stop" /\ rx.tick = P /\ rx_bit_samp' = rx_bit_samp
    BY <1>6, <1>e, Zenon DEF RxStop
  <2>1. over = [rx EXCEPT !.tick = 0, !.error = @ \/ rx_bit_samp # 1 \/ rxFull]
    <3>1. (rx.error \/ bad) = (rx.error \/ rx_bit_samp # 1 \/ rxFull)
      BY Zenon
    <3> QED
      BY <3>1
  <2>2. rx' = IF rx_bit_d = 0 THEN activate(over, 0) ELSE [over EXCEPT !.state = "Idle"]
    BY <1>6, <2>1, Zenon DEF RxStop, bit_rx
  <2>3. Shaped(over)
    BY <1>t, Edits, Zenon
  <2>4. Shaped(rx')
    BY <2>2, <2>3, Edits, Zenon DEF activate
  <2>5. /\ over.tick = 0 /\ over.word = rx.word /\ over.parity = rx.parity
        /\ over.bit = rx.bit /\ over.bit_pos = rx.bit_pos
        /\ over.error = (rx.error \/ bad)
    BY <1>t, SMT DEF Shaped
  <2> HIDE DEF P, N, S, L, pn, bad, over
  <2>6. over.error \in BOOLEAN /\ (over.error => rx.error \/ bad)
    BY <2>5, Zenon
  <2>7. CASE rx_bit_d = 0
    <3>1. rx' = activate(over, 0)
      BY <2>2, <2>7, Zenon
    <3>2. /\ rx'.state = "Start" /\ rx'.bit_pos = 0 /\ rx'.word = 0 /\ rx'.parity = 0
          /\ rx'.tick = over.tick /\ rx'.bit = over.bit /\ rx'.error = over.error
      BY <3>1, <2>3, SMT DEF activate, Shaped
    <3>3. port
      BY <1>t, <1>n, <2>4, <2>5, <2>6, <3>2, StateNames, Zenon DEF States
    <3>4. RxEnters
      BY <1>o, <1>d, <2>0, <2>5, <2>6, <2>7, <3>2, StateNames, Zenon DEF RxEnters, P, bad
    <3> QED
      BY <1>q, <2>0, <3>3, <3>4, Zenon
  <2>8. CASE rx_bit_d = 1
    <3>1. rx' = [over EXCEPT !.state = "Idle"]
      <4>1. rx_bit_d # 0
        BY <2>8, SMT
      <4> QED
        BY <2>2, <4>1, Zenon
    <3>2. /\ rx'.state = "Idle" /\ rx'.bit_pos = over.bit_pos /\ rx'.word = over.word
          /\ rx'.parity = over.parity
          /\ rx'.tick = over.tick /\ rx'.bit = over.bit /\ rx'.error = over.error
      BY <3>1, <2>3, SMT DEF Shaped
    <3>a. /\ rx'.tick = 0 /\ rx'.word \in 0 .. 255 /\ rx'.parity \in 0 .. 1 /\ rx'.bit = 1
          /\ rx'.bit_pos = rx.bit_pos /\ rx.bit_pos \in Nat /\ rx.bit_pos <= 1
      BY <1>t, <2>0, <2>5, <3>2
    <3>3. port
      BY <1>n, <2>4, <2>6, <3>2, <3>a, StateNames, Zenon DEF States
    <3>4. RxEnds
      BY <1>o, <2>0, <2>5, <2>6, <2>8, <3>2, StateNames, Zenon DEF RxEnds, P, bad
    <3> QED
      BY <1>q, <2>0, <3>3, <3>4, Zenon
  <2> QED
    <3>1. rx_bit_d = 0 \/ rx_bit_d = 1
      BY SMT
    <3> QED
      BY <2>7, <2>8, <3>1, Zenon
<1> QED
  BY <1>1, <1>2, <1>3, <1>4, <1>5, <1>6, Zenon DEF do_rx

(* What the cells and ticks of the two ends are, as numbers. *)
LEMMA Numbers ==
  ASSUME Ports
  PROVE  /\ period \in Nat \ {0} /\ lastCell \in 5 .. 9 /\ stop_count \in 1 .. 2
         /\ bit_count_m1 \in 4 .. 7 /\ lastCell \in {bit_count_m1 + 1, bit_count_m1 + 2}
         /\ rxPeriod \in Nat \ {0} /\ middle \in Nat /\ middle < rxPeriod
         /\ rxPeriod <= 2 * middle + 1
         /\ tx.tick \in 0 .. period /\ rx.tick \in 0 .. rxPeriod
         /\ txOn => txCell \in 0 .. lastCell + stop_count
         /\ rxOn => rxCell \in 0 .. lastCell + 1
         /\ rx.state = "Stop" <=> rxOn /\ rxCell = lastCell + 1
<1>0. TxPort /\ RxPort /\ Formats
  BY Zenon DEF Ports
<1>1. /\ period \in Nat \ {0} /\ stop_count \in 1 .. 2 /\ bit_count_m1 \in 4 .. 7
      /\ lastCell \in {bit_count_m1 + 1, bit_count_m1 + 2} /\ rxPeriod \in Nat \ {0}
  BY <1>0, Zenon DEF Formats
<1>2. lastCell \in 5 .. 9
  BY <1>1, SMT
<1>3. middle \in Nat /\ middle < rxPeriod /\ rxPeriod <= 2 * middle + 1
  BY <1>1, SMT DEF middle
<1>4. tx.tick \in 0 .. period /\ rx.tick \in 0 .. rxPeriod
  BY <1>0, Zenon DEF TxPort, RxPort
<1> QED
  BY <1>0, <1>1, <1>2, <1>3, <1>4, TxCells, RxCells, Zenon

(* What noise does in a cycle. *)
LEMMA NoiseKinds ==
  ASSUME Ports, OnWire, Noise
  PROVE  /\ noise' \in {"none", "now", "past"}
         /\ TxStarts => noise' = "none"
         /\ TxTicks \/ TxRests => noise' = noise
         /\ TxNexts => \/ noise = "now" /\ noise' = "past"
                       \/ noise # "now" /\ noise' = noise
                       \/ noise = "none" /\ noise' = "now" /\ txCell < lastCell
<1>1. /\ tx.state \in {"Start", "Parity"} <=> txOn /\ txCell < lastCell
      /\ end_of_bit(tx, setup.txBaud) <=> tx.tick = period
  BY TxCells, Zenon DEF Ports
<1>2. txOn <=> tx.state # "Idle"
  BY Zenon DEF txOn
<1>3. TxStarts => noise' = "none"
  BY Zenon DEF TxStarts, Noise
<1>4. TxTicks => noise' = noise
  <2> SUFFICES ASSUME TxTicks PROVE noise' = noise
    OBVIOUS
  <2>1. tx.tick < period /\ ~txStarts
    BY Zenon DEF TxTicks
  <2>2. tx.tick # period
    BY <2>1, Numbers, SMT
  <2> QED
    BY <1>1, <2>1, <2>2, Zenon DEF Noise
<1>5. TxRests => noise' = noise
  <2> SUFFICES ASSUME TxRests PROVE noise' = noise
    OBVIOUS
  <2>1. ~txStarts /\ (~txOn \/ txCell = lastCell + stop_count)
    BY Zenon DEF TxRests, txOver
  <2>2. CASE ~txOn
    BY <1>2, <2>1, <2>2, Zenon DEF Noise
  <2>3. CASE txOn /\ txCell = lastCell + stop_count
    <3>1. txCell > lastCell /\ ~(txCell < lastCell)
      BY <2>3, Numbers, SMT
    <3>2. noise # "now" /\ tx.state \notin {"Start", "Parity"}
      BY <1>1, <3>1, Zenon DEF OnWire
    <3> QED
      BY <2>1, <3>2, Zenon DEF Noise
  <2> QED
    BY <2>1, <2>2, <2>3
<1>6. TxNexts => \/ noise = "now" /\ noise' = "past"
                 \/ noise # "now" /\ noise' = noise
                 \/ noise = "none" /\ noise' = "now" /\ txCell < lastCell
  <2> SUFFICES ASSUME TxNexts
               PROVE  \/ noise = "now" /\ noise' = "past"
                      \/ noise # "now" /\ noise' = noise
                      \/ noise = "none" /\ noise' = "now" /\ txCell < lastCell
    OBVIOUS
  <2>1. txOn /\ tx.tick = period /\ ~txStarts
    BY Zenon DEF TxNexts
  <2> QED
    BY <1>1, <1>2, <2>1, Zenon DEF Noise
<1>7. noise' \in {"none", "now", "past"}
  BY Zenon DEF Noise, Ports
<1> QED
  BY <1>3, <1>4, <1>5, <1>6, <1>7, Zenon

(* The wire has the level of the cell that is being sent. *)
LEMMA OnWireStep ==
  ASSUME Ports, OnWire, setup' = setup, Noise, Wire,
         TxStarts \/ TxRests \/ TxTicks \/ TxNexts
  PROVE  OnWire' /\ rx_bit_d' \in 0 .. 1 /\ rx_bit_d' = Level
<1>p. lastCell' = lastCell
  BY FormatsStay, Zenon
<1>l. rx_bit_d' = Level
  BY Zenon DEF Wire, Level
<1>b. Level \in 0 .. 1 /\ tx.bit \in 0 .. 1
  <2>1. tx.bit \in 0 .. 1
    BY Zenon DEF Ports, TxPort
  <2> QED
    BY <2>1, SMT DEF Level
<1>h. ~txOn \/ txCell > lastCell => Level = 1
  BY Zenon DEF OnWire, Level
<1>g. ~txOn \/ txCell > lastCell => tx.bit = 1 /\ noise # "now"
  BY Zenon DEF OnWire
<1>n. /\ period \in Nat \ {0} /\ lastCell \in 5 .. 9 /\ stop_count \in 1 .. 2
      /\ tx.tick \in 0 .. period
      /\ txOn => txCell \in 0 .. lastCell + stop_count
  BY Numbers, Zenon
<1>o. txOver => ~txOn \/ txCell > lastCell
  BY <1>n, SMT DEF txOver
<1>s. SUFFICES /\ ~txOn' \/ (txCell' = 0 /\ tx'.tick = 0) \/ txCell' > lastCell + 1 => Level = 1
               /\ txOn' /\ tx'.tick > 0 => Level = Level'
               /\ txOn' /\ txCell' = 0 => tx'.bit = 0 /\ noise' = "none" /\ tx'.parity = 0
               /\ txOn' /\ txCell' = 1 /\ tx'.tick = 0 => Level = 0
               /\ ~txOn' \/ txCell' > lastCell => tx'.bit = 1 /\ noise' # "now"
  BY <1>p, <1>l, <1>b, Zenon DEF OnWire
<1>1. CASE TxStarts
  <2>1. txOver /\ txOn' /\ txCell' = 0 /\ tx'.tick = 0 /\ tx'.bit = 0 /\ tx'.parity = 0
    BY <1>1, Zenon DEF TxStarts
  <2>2. noise' = "none"
    BY <1>1, NoiseKinds, Zenon
  <2>3. ~(tx'.tick > 0) /\ ~(txCell' > lastCell) /\ txCell' # 1
    BY <1>n, <2>1, SMT
  <2> QED
    BY <1>h, <1>o, <2>1, <2>2, <2>3, Zenon
<1>2. CASE TxRests
  <2>1. txOver /\ ~txOn' /\ tx'.bit = IF txOn THEN 1 ELSE tx.bit
    BY <1>2, Zenon DEF TxRests
  <2>2. noise' = noise
    BY <1>2, NoiseKinds, Zenon
  <2>3. ~txOn \/ txCell > lastCell
    BY <1>o, <2>1, Zenon
  <2>4. tx'.bit = 1
    BY <1>g, <2>1, Zenon
  <2> QED
    BY <1>g, <1>h, <2>1, <2>2, <2>3, <2>4, Zenon
<1>3. CASE TxTicks
  <2>1. /\ txOn /\ txOn' /\ txCell' = txCell /\ tx'.tick = tx.tick + 1
        /\ tx'.bit = tx.bit /\ tx'.parity = tx.parity
    BY <1>3, Zenon DEF TxTicks
  <2>2. noise' = noise
    BY <1>3, NoiseKinds, Zenon
  <2>3. tx'.tick # 0 /\ (txCell > lastCell + 1 => txCell > lastCell)
    BY <1>n, <2>1, SMT
  <2>4. Level' = Level
    BY <2>1, <2>2, Zenon DEF Level
  <2>5. txCell = 0 => tx.bit = 0 /\ noise = "none" /\ tx.parity = 0
    BY <2>1, Zenon DEF OnWire
  <2> QED
    BY <1>g, <1>h, <2>1, <2>2, <2>3, <2>4, <2>5
<1>4. CASE TxNexts
  <2>1. /\ txOn /\ txOn' /\ txCell' = txCell + 1 /\ tx'.tick = 0
        /\ txCell > bit_count_m1 => tx'.bit = IF txCell < lastCell THEN parity_bit(tx.parity) ELSE 1
    BY <1>4, Zenon DEF TxNexts
  <2>2. /\ txCell' # 0 /\ ~(tx'.tick > 0) /\ (txCell' > lastCell + 1 => txCell > lastCell)
        /\ txCell' > lastCell => ~(txCell < lastCell) /\ txCell > bit_count_m1
    BY <1>n, <2>1, Numbers, SMT
  <2>3. txCell' > lastCell => tx'.bit = 1
    BY <2>1, <2>2, Zenon
  <2>4. txCell' > lastCell => noise' # "now"
    <3>1. \/ noise = "now" /\ noise' = "past"
          \/ noise # "now" /\ noise' = noise
          \/ noise = "none" /\ noise' = "now" /\ txCell < lastCell
      BY <1>4, NoiseKinds, Zenon
    <3>2. ~("past" = "now")
      OBVIOUS
    <3> QED
      BY <2>2, <3>1, <3>2, Zenon
  <2>5. txCell' = 1 => Level = 0
    <3>1. txCell' = 1 => txCell = 0
      BY <1>n, <2>1, SMT
    <3>2. txCell = 0 => tx.bit = 0 /\ noise = "none"
      BY <2>1, Zenon DEF OnWire
    <3>3. ~("none" = "now")
      OBVIOUS
    <3> QED
      BY <3>1, <3>2, <3>3, Zenon DEF Level
  <2> QED
    BY <1>h, <2>1, <2>2, <2>3, <2>4, <2>5, Zenon
<1> QED
  BY <1>1, <1>2, <1>3, <1>4, Zenon

(* Sums of bits. *)
LEMMA XorLaws ==
  ASSUME NEW a \in 0 .. 1, NEW b \in 0 .. 1
  PROVE  /\ Xor(a, 0) = a /\ Xor(a, 1) = 1 - a /\ Xor(Xor(a, b), b) = a
         /\ Xor(Xor(Xor(a, b), 0), b) = a /\ Xor(Xor(Xor(a, b), 0), 1 - b) = 1 - a
         /\ Xor(Xor(Xor(a, b), 1), b) = 1 - a
BY SMT DEF Xor

(* How the parities at the transmitter change. *)
LEMMA ToldMoves ==
  ASSUME Ports, OnWire, Noise, setup' = setup, txOn
  PROVE  /\ TxTicks => told' = told /\ toldBefore' = toldBefore
         /\ txCell <= bit_count_m1 + 1 /\ TxNexts => toldBefore' = told
         /\ txCell <= bit_count_m1 + 1 => Xor(toldBefore, Level) = told
<1> DEFINE N == bit_count_m1
<1>n. /\ period \in Nat \ {0} /\ lastCell \in {N + 1, N + 2} /\ N \in 4 .. 7
      /\ txCell \in Nat /\ stop_count \in 1 .. 2
  <2>1. txCell \in 0 .. lastCell + stop_count /\ lastCell \in 5 .. 9 /\ stop_count \in 1 .. 2
    BY Numbers, Zenon
  <2>2. txCell \in Nat
    BY <2>1, SMT
  <2> QED
    BY <2>1, <2>2, Numbers, Zenon
<1>p. N' = N
  BY FormatsStay, Zenon
<1>b. tx.parity \in 0 .. 1 /\ tx.bit \in 0 .. 1 /\ noise \in {"none", "now", "past"}
  BY Zenon DEF Ports, TxPort
<1>s. /\ ~("none" = "now") /\ ~("none" = "past") /\ ~("now" = "past")
      /\ 0 \in 0 .. 1 /\ 1 \in 0 .. 1
  OBVIOUS
<1>h. /\ noise = "none" => hit({"now", "past"}) = 0 /\ hit({"past"}) = 0
      /\ noise = "now" => hit({"now", "past"}) = 1 /\ hit({"past"}) = 0
      /\ noise = "past" => hit({"now", "past"}) = 1 /\ hit({"past"}) = 1
  BY <1>s, Zenon DEF hit
<1>h1. /\ noise' = "none" => hit({"past"})' = 0
       /\ noise' = "now" => hit({"past"})' = 0
       /\ noise' = "past" => hit({"past"})' = 1
  BY <1>s, Zenon DEF hit
<1>1. TxTicks => told' = told /\ toldBefore' = toldBefore
  <2>1. TxTicks => noise' = noise
    BY NoiseKinds, Zenon
  <2>2. TxTicks => tx'.bit = tx.bit /\ tx'.parity = tx.parity /\ txCell' = txCell
    BY Zenon DEF TxTicks
  <2> QED
    BY <1>p, <2>1, <2>2, Zenon DEF told, toldBefore, hit
<1>2. txCell <= N + 1 /\ TxNexts => toldBefore' = told
  <2> SUFFICES ASSUME txCell <= N + 1, TxNexts PROVE toldBefore' = told
    OBVIOUS
  <2>1. hit({"past"})' = hit({"now", "past"})
    <3>1. \/ noise = "now" /\ noise' = "past"
          \/ noise # "now" /\ noise' = noise
          \/ noise = "none" /\ noise' = "now"
      BY NoiseKinds, Zenon
    <3> QED
      BY <1>b, <1>h, <1>h1, <3>1, Zenon
  <2>2. (IF txCell' <= N + 1 THEN Xor(tx'.parity, tx'.bit) ELSE tx'.parity) = tx.parity
    <3>0. txCell' = txCell + 1
      BY Zenon DEF TxNexts
    <3>1. CASE txCell <= N
      <4>1. tx'.parity = Xor(tx.parity, tx'.bit)
        BY <3>1, Zenon DEF TxNexts
      <4>2. tx'.bit \in 0 .. 1
        <5>1. tx'.bit = tx.word % 2 /\ tx.word \in 0 .. 255
          BY <3>1, Zenon DEF TxNexts, Ports, TxPort
        <5> QED
          BY <5>1, Halved
      <4>3. Xor(tx'.parity, tx'.bit) = tx.parity
        BY <1>b, <4>1, <4>2, XorLaws
      <4>4. txCell' <= N + 1
        BY <1>n, <3>0, <3>1, SMT
      <4> QED
        BY <4>3, <4>4, Zenon
    <3>2. CASE ~(txCell <= N)
      <4>1. txCell > N /\ ~(txCell' <= N + 1)
        BY <1>n, <3>0, <3>2, SMT
      <4> QED
        BY <4>1, Zenon DEF TxNexts
    <3> QED
      BY <3>1, <3>2
  <2>3. toldBefore' = Xor(IF txCell' <= N + 1 THEN Xor(tx'.parity, tx'.bit) ELSE tx'.parity,
                          hit({"past"})')
    BY <1>p, Zenon DEF toldBefore, Xor
  <2> HIDE DEF N
  <2> QED
    BY <2>1, <2>2, <2>3 DEF told
<1>3. txCell <= N + 1 => Xor(toldBefore, Level) = told
  <2> SUFFICES ASSUME txCell <= N + 1 PROVE Xor(toldBefore, Level) = told
    OBVIOUS
  <2>1. toldBefore = Xor(Xor(tx.parity, tx.bit), hit({"past"}))
    BY Zenon DEF toldBefore
  <2>2. Xor(tx.parity, 0) = tx.parity /\ Xor(tx.parity, 1) = 1 - tx.parity
    BY <1>b, XorLaws
  <2>3. CASE noise = "none"
    <3>1. Level = tx.bit /\ hit({"past"}) = 0 /\ hit({"now", "past"}) = 0
      BY <1>h, <1>s, <2>3, Zenon DEF Level
    <3>2. Xor(toldBefore, Level) = tx.parity /\ told = tx.parity
      BY <1>b, <2>1, <2>2, <3>1, XorLaws DEF told
    <3> QED
      BY <3>2
  <2>4. CASE noise = "now"
    <3>1. Level = 1 - tx.bit /\ hit({"past"}) = 0 /\ hit({"now", "past"}) = 1
      BY <1>h, <1>s, <2>4, Zenon DEF Level
    <3>2. Xor(toldBefore, Level) = 1 - tx.parity /\ told = 1 - tx.parity
      BY <1>b, <2>1, <2>2, <3>1, XorLaws DEF told
    <3> QED
      BY <3>2
  <2>5. CASE noise = "past"
    <3>1. Level = tx.bit /\ hit({"past"}) = 1 /\ hit({"now", "past"}) = 1
      BY <1>h, <1>s, <2>5, Zenon DEF Level
    <3>2. Xor(toldBefore, Level) = 1 - tx.parity /\ told = 1 - tx.parity
      BY <1>b, <2>1, <2>2, <3>1, XorLaws DEF told
    <3> QED
      BY <3>2
  <2> QED
    BY <1>b, <2>3, <2>4, <2>5, Zenon
<1> QED
  BY <1>1, <1>2, <1>3

(* The powers of two of a byte. *)
LEMMA Pow ==
  /\ 2^0 = 1 /\ 2^1 = 2 /\ 2^2 = 4 /\ 2^3 = 8 /\ 2^4 = 16
  /\ 2^5 = 32 /\ 2^6 = 64 /\ 2^7 = 128 /\ 2^8 = 256
BY SMT

(* The powers of two that a cell of a word goes with. *)
LEMMA PowCases ==
  ASSUME NEW k \in 0 .. 7
  PROVE  \/ 2^k = 1 /\ 2^(k + 1) = 2 /\ 2^(8 - k) = 256 /\ 2^(8 - (k + 1)) = 128
         \/ 2^k = 2 /\ 2^(k + 1) = 4 /\ 2^(8 - k) = 128 /\ 2^(8 - (k + 1)) = 64
         \/ 2^k = 4 /\ 2^(k + 1) = 8 /\ 2^(8 - k) = 64 /\ 2^(8 - (k + 1)) = 32
         \/ 2^k = 8 /\ 2^(k + 1) = 16 /\ 2^(8 - k) = 32 /\ 2^(8 - (k + 1)) = 16
         \/ 2^k = 16 /\ 2^(k + 1) = 32 /\ 2^(8 - k) = 16 /\ 2^(8 - (k + 1)) = 8
         \/ 2^k = 32 /\ 2^(k + 1) = 64 /\ 2^(8 - k) = 8 /\ 2^(8 - (k + 1)) = 4
         \/ 2^k = 64 /\ 2^(k + 1) = 128 /\ 2^(8 - k) = 4 /\ 2^(8 - (k + 1)) = 2
         \/ 2^k = 128 /\ 2^(k + 1) = 256 /\ 2^(8 - k) = 2 /\ 2^(8 - (k + 1)) = 1
<1>0. ASSUME k = 0
     PROVE  2^k = 1 /\ 2^(k + 1) = 2 /\ 2^(8 - k) = 256 /\ 2^(8 - (k + 1)) = 128
  <2>1. k + 1 = 1 /\ 8 - k = 8 /\ 8 - (k + 1) = 7
    BY <1>0, SMT
  <2> QED
    BY <1>0, <2>1, Pow
<1>1. ASSUME k = 1
     PROVE  2^k = 2 /\ 2^(k + 1) = 4 /\ 2^(8 - k) = 128 /\ 2^(8 - (k + 1)) = 64
  <2>1. k + 1 = 2 /\ 8 - k = 7 /\ 8 - (k + 1) = 6
    BY <1>1, SMT
  <2> QED
    BY <1>1, <2>1, Pow
<1>2. ASSUME k = 2
     PROVE  2^k = 4 /\ 2^(k + 1) = 8 /\ 2^(8 - k) = 64 /\ 2^(8 - (k + 1)) = 32
  <2>1. k + 1 = 3 /\ 8 - k = 6 /\ 8 - (k + 1) = 5
    BY <1>2, SMT
  <2> QED
    BY <1>2, <2>1, Pow
<1>3. ASSUME k = 3
     PROVE  2^k = 8 /\ 2^(k + 1) = 16 /\ 2^(8 - k) = 32 /\ 2^(8 - (k + 1)) = 16
  <2>1. k + 1 = 4 /\ 8 - k = 5 /\ 8 - (k + 1) = 4
    BY <1>3, SMT
  <2> QED
    BY <1>3, <2>1, Pow
<1>4. ASSUME k = 4
     PROVE  2^k = 16 /\ 2^(k + 1) = 32 /\ 2^(8 - k) = 16 /\ 2^(8 - (k + 1)) = 8
  <2>1. k + 1 = 5 /\ 8 - k = 4 /\ 8 - (k + 1) = 3
    BY <1>4, SMT
  <2> QED
    BY <1>4, <2>1, Pow
<1>5. ASSUME k = 5
     PROVE  2^k = 32 /\ 2^(k + 1) = 64 /\ 2^(8 - k) = 8 /\ 2^(8 - (k + 1)) = 4
  <2>1. k + 1 = 6 /\ 8 - k = 3 /\ 8 - (k + 1) = 2
    BY <1>5, SMT
  <2> QED
    BY <1>5, <2>1, Pow
<1>6. ASSUME k = 6
     PROVE  2^k = 64 /\ 2^(k + 1) = 128 /\ 2^(8 - k) = 4 /\ 2^(8 - (k + 1)) = 2
  <2>1. k + 1 = 7 /\ 8 - k = 2 /\ 8 - (k + 1) = 1
    BY <1>6, SMT
  <2> QED
    BY <1>6, <2>1, Pow
<1>7. ASSUME k = 7
     PROVE  2^k = 128 /\ 2^(k + 1) = 256 /\ 2^(8 - k) = 2 /\ 2^(8 - (k + 1)) = 1
  <2>1. k + 1 = 8 /\ 8 - k = 1 /\ 8 - (k + 1) = 0
    BY <1>7, SMT
  <2> QED
    BY <1>7, <2>1, Pow
<1>8. k = 0 \/ k = 1 \/ k = 2 \/ k = 3 \/ k = 4 \/ k = 5 \/ k = 6 \/ k = 7
  BY SMT
<1> QED
  BY <1>0, <1>1, <1>2, <1>3, <1>4, <1>5, <1>6, <1>7, <1>8, SMT

(* Each power of two is twice the one before it. *)
LEMMA PowPairs ==
  ASSUME NEW k \in 0 .. 7
  PROVE  \/ 2^k = 1 /\ 2^(k + 1) = 2
         \/ 2^k = 2 /\ 2^(k + 1) = 4
         \/ 2^k = 4 /\ 2^(k + 1) = 8
         \/ 2^k = 8 /\ 2^(k + 1) = 16
         \/ 2^k = 16 /\ 2^(k + 1) = 32
         \/ 2^k = 32 /\ 2^(k + 1) = 64
         \/ 2^k = 64 /\ 2^(k + 1) = 128
         \/ 2^k = 128 /\ 2^(k + 1) = 256
<1> DEFINE P == 2^k  P1 == 2^(k + 1)  Q == 2^(8 - k)  Q1 == 2^(8 - (k + 1))
<1>1. \/ P = 1 /\ P1 = 2 /\ Q = 256 /\ Q1 = 128
      \/ P = 2 /\ P1 = 4 /\ Q = 128 /\ Q1 = 64
      \/ P = 4 /\ P1 = 8 /\ Q = 64 /\ Q1 = 32
      \/ P = 8 /\ P1 = 16 /\ Q = 32 /\ Q1 = 16
      \/ P = 16 /\ P1 = 32 /\ Q = 16 /\ Q1 = 8
      \/ P = 32 /\ P1 = 64 /\ Q = 8 /\ Q1 = 4
      \/ P = 64 /\ P1 = 128 /\ Q = 4 /\ Q1 = 2
      \/ P = 128 /\ P1 = 256 /\ Q = 2 /\ Q1 = 1
  BY PowCases
<1> HIDE DEF P, P1, Q, Q1
<1>2. \/ P = 1 /\ P1 = 2
      \/ P = 2 /\ P1 = 4
      \/ P = 4 /\ P1 = 8
      \/ P = 8 /\ P1 = 16
      \/ P = 16 /\ P1 = 32
      \/ P = 32 /\ P1 = 64
      \/ P = 64 /\ P1 = 128
      \/ P = 128 /\ P1 = 256
  BY <1>1, SMT
<1> QED
  BY <1>2 DEF P, P1

(* The powers of two that the width of a word goes with. *)
LEMMA PowWidths ==
  ASSUME NEW n \in 5 .. 8
  PROVE  \/ 2^n = 32 /\ 2^(8 - n) = 8
         \/ 2^n = 64 /\ 2^(8 - n) = 4
         \/ 2^n = 128 /\ 2^(8 - n) = 2
         \/ 2^n = 256 /\ 2^(8 - n) = 1
<1>5. ASSUME n = 5
     PROVE  2^n = 32 /\ 2^(8 - n) = 8
  <2>1. 8 - n = 3
    BY <1>5, SMT
  <2> QED
    BY <1>5, <2>1, Pow
<1>6. ASSUME n = 6
     PROVE  2^n = 64 /\ 2^(8 - n) = 4
  <2>1. 8 - n = 2
    BY <1>6, SMT
  <2> QED
    BY <1>6, <2>1, Pow
<1>7. ASSUME n = 7
     PROVE  2^n = 128 /\ 2^(8 - n) = 2
  <2>1. 8 - n = 1
    BY <1>7, SMT
  <2> QED
    BY <1>7, <2>1, Pow
<1>8. ASSUME n = 8
     PROVE  2^n = 256 /\ 2^(8 - n) = 1
  <2>1. 8 - n = 0
    BY <1>8, SMT
  <2> QED
    BY <1>8, <2>1, Pow
<1>9. n = 5 \/ n = 6 \/ n = 7 \/ n = 8
  BY SMT
<1> QED
  BY <1>5, <1>6, <1>7, <1>8, <1>9, SMT

(* The receiver puts the bits of a word in at the top, ... *)
LEMMA BitIn ==
  ASSUME NEW v \in 0 .. 255, NEW k \in 0 .. 7
  PROVE  128 * ((v \div 2^k) % 2) + (((v % 2^k) * 2^(8 - k)) \div 2)
           = (v % 2^(k + 1)) * 2^(8 - (k + 1))
<1> DEFINE P == 2^k  P1 == 2^(k + 1)  Q == 2^(8 - k)  Q1 == 2^(8 - (k + 1))
<1>1. \/ P = 1   /\ P1 = 2   /\ Q = 256 /\ Q1 = 128
      \/ P = 2   /\ P1 = 4   /\ Q = 128 /\ Q1 = 64
      \/ P = 4   /\ P1 = 8   /\ Q = 64  /\ Q1 = 32
      \/ P = 8   /\ P1 = 16  /\ Q = 32  /\ Q1 = 16
      \/ P = 16  /\ P1 = 32  /\ Q = 16  /\ Q1 = 8
      \/ P = 32  /\ P1 = 64  /\ Q = 8   /\ Q1 = 4
      \/ P = 64  /\ P1 = 128 /\ Q = 4   /\ Q1 = 2
      \/ P = 128 /\ P1 = 256 /\ Q = 2   /\ Q1 = 1
  BY PowCases
<1> HIDE DEF P, P1, Q, Q1
<1> SUFFICES 128 * ((v \div P) % 2) + (((v % P) * Q) \div 2) = (v % P1) * Q1
  BY DEF P, P1, Q, Q1
<1>2. CASE P = 1 /\ P1 = 2 /\ Q = 256 /\ Q1 = 128
  BY <1>2, SMT
<1>3. CASE P = 2 /\ P1 = 4 /\ Q = 128 /\ Q1 = 64
  BY <1>3, SMT
<1>4. CASE P = 4 /\ P1 = 8 /\ Q = 64 /\ Q1 = 32
  BY <1>4, SMT
<1>5. CASE P = 8 /\ P1 = 16 /\ Q = 32 /\ Q1 = 16
  BY <1>5, SMT
<1>6. CASE P = 16 /\ P1 = 32 /\ Q = 16 /\ Q1 = 8
  BY <1>6, SMT
<1>7. CASE P = 32 /\ P1 = 64 /\ Q = 8 /\ Q1 = 4
  BY <1>7, SMT
<1>8. CASE P = 64 /\ P1 = 128 /\ Q = 4 /\ Q1 = 2
  BY <1>8, SMT
<1>9. CASE P = 128 /\ P1 = 256 /\ Q = 2 /\ Q1 = 1
  BY <1>9, SMT
<1> QED
  BY <1>1, <1>2, <1>3, <1>4, <1>5, <1>6, <1>7, <1>8, <1>9

(* ... and takes the word from there when it has all n. *)
LEMMA WordOut ==
  ASSUME NEW n \in 5 .. 8, NEW v \in 0 .. 2^n - 1
  PROVE  ((v % 2^n) * 2^(8 - n)) \div 2^(8 - n) = v /\ v \in 0 .. 255
<1> DEFINE M == 2^n  Q == 2^(8 - n)
<1>1. \/ M = 32 /\ Q = 8
      \/ M = 64 /\ Q = 4
      \/ M = 128 /\ Q = 2
      \/ M = 256 /\ Q = 1
  BY PowWidths
<1>2. v \in 0 .. M - 1
  OBVIOUS
<1> HIDE DEF M, Q
<1> SUFFICES ((v % M) * Q) \div Q = v /\ v \in 0 .. 255
  BY DEF M, Q
<1>3. v % M = v
  BY <1>1, <1>2, SMT
<1>4. CASE M = 32 /\ Q = 8
  BY <1>2, <1>3, <1>4, SMT
<1>5. CASE M = 64 /\ Q = 4
  BY <1>2, <1>3, <1>5, SMT
<1>6. CASE M = 128 /\ Q = 2
  BY <1>2, <1>3, <1>6, SMT
<1>7. CASE M = 256 /\ Q = 1
  BY <1>2, <1>3, <1>7, SMT
<1> QED
  BY <1>1, <1>4, <1>5, <1>6, <1>7

(* The transmitter takes the bits of a word from the bottom. *)
LEMMA BitOut ==
  ASSUME NEW n \in 5 .. 8, NEW c \in 0 .. n - 1, NEW v \in 0 .. 255, NEW w \in 0 .. 255,
         w % 2^(n - c) = v \div 2^c
  PROVE  /\ (w \div 2) % 2^(n - (c + 1)) = v \div 2^(c + 1)
         /\ w % 2 = (v \div 2^c) % 2
<1> DEFINE C == 2^c  C1 == 2^(c + 1)  M1 == 2^(n - (c + 1))  M == 2^(n - c)
<1>c. c \in 0 .. 7 /\ n - (c + 1) \in 0 .. 7 /\ n - (c + 1) + 1 = n - c
  BY SMT
<1>1. \/ C = 1 /\ C1 = 2
      \/ C = 2 /\ C1 = 4
      \/ C = 4 /\ C1 = 8
      \/ C = 8 /\ C1 = 16
      \/ C = 16 /\ C1 = 32
      \/ C = 32 /\ C1 = 64
      \/ C = 64 /\ C1 = 128
      \/ C = 128 /\ C1 = 256
  BY <1>c, PowPairs
<1>2. \/ M1 = 1 /\ M = 2
      \/ M1 = 2 /\ M = 4
      \/ M1 = 4 /\ M = 8
      \/ M1 = 8 /\ M = 16
      \/ M1 = 16 /\ M = 32
      \/ M1 = 32 /\ M = 64
      \/ M1 = 64 /\ M = 128
      \/ M1 = 128 /\ M = 256
  <2> DEFINE k == n - (c + 1)
  <2>1. M = 2^(k + 1)
    BY <1>c
  <2>2. k \in 0 .. 7
    BY <1>c
  <2> HIDE DEF k
  <2>3. \/ 2^k = 1 /\ 2^(k + 1) = 2
        \/ 2^k = 2 /\ 2^(k + 1) = 4
        \/ 2^k = 4 /\ 2^(k + 1) = 8
        \/ 2^k = 8 /\ 2^(k + 1) = 16
        \/ 2^k = 16 /\ 2^(k + 1) = 32
        \/ 2^k = 32 /\ 2^(k + 1) = 64
        \/ 2^k = 64 /\ 2^(k + 1) = 128
        \/ 2^k = 128 /\ 2^(k + 1) = 256
    BY <2>2, PowPairs
  <2> QED
    BY <2>1, <2>3 DEF k
<1>3. w % M = v \div C
  OBVIOUS
<1> HIDE DEF C, C1, M, M1
<1> SUFFICES (w \div 2) % M1 = v \div C1 /\ w % 2 = (v \div C) % 2
  BY DEF C, C1, M, M1
<1>4. v \div C1 = (v \div C) \div 2
  BY <1>1, SMT
<1>5. (w \div 2) % M1 = (w % M) \div 2 /\ w % 2 = (w % M) % 2
  <2>1. CASE M1 = 1 /\ M = 2
    BY <2>1, SMT
  <2>2. CASE M1 = 2 /\ M = 4
    BY <2>2, SMT
  <2>3. CASE M1 = 4 /\ M = 8
    BY <2>3, SMT
  <2>4. CASE M1 = 8 /\ M = 16
    BY <2>4, SMT
  <2>5. CASE M1 = 16 /\ M = 32
    BY <2>5, SMT
  <2>6. CASE M1 = 32 /\ M = 64
    BY <2>6, SMT
  <2>7. CASE M1 = 64 /\ M = 128
    BY <2>7, SMT
  <2>8. CASE M1 = 128 /\ M = 256
    BY <2>8, SMT
  <2> QED
    BY <1>2, <2>1, <2>2, <2>3, <2>4, <2>5, <2>6, <2>7, <2>8, Zenon
<1> QED
  BY <1>3, <1>4, <1>5

(* The bits that are sent of a word. *)
LEMMA Cut ==
  ASSUME NEW n \in 5 .. 8, NEW w \in 0 .. 255
  PROVE  /\ w % 2^n \in 0 .. 2^n - 1 /\ w % 2^n \in 0 .. 255
         /\ w % 2^(n - 0) = (w % 2^n) \div 2^0
<1> DEFINE M == 2^n  Q == 2^(8 - n)
<1>0. \/ M = 32 /\ Q = 8
      \/ M = 64 /\ Q = 4
      \/ M = 128 /\ Q = 2
      \/ M = 256 /\ Q = 1
  BY PowWidths
<1>1. M = 32 \/ M = 64 \/ M = 128 \/ M = 256
  <2> HIDE DEF M, Q
  <2> QED
    BY <1>0, SMT
<1>2. 2^0 = 1 /\ n - 0 = n
  BY Pow, SMT
<1>3. w % M \in 0 .. M - 1 /\ w % M \in 0 .. 255 /\ w % M = (w % M) \div 1
  <2> HIDE DEF M
  <2> QED
    BY <1>1, SMT
<1> QED
  BY <1>2, <1>3

(* adjust_word is a byte. *)
LEMMA AdjustIn ==
  ASSUME RxPort, Formats
  PROVE  adjust_word \in 0 .. 255
<1> DEFINE N == bit_count_m1  w == rx.word
<1>1. N \in 4 .. 7 /\ w \in 0 .. 255
  BY Zenon DEF RxPort, Formats
<1>2. adjust_word = w \div 2^(7 - N)
  BY Zenon DEF adjust_word
<1> HIDE DEF N, w
<1>3. (N + 1) \in 5 .. 8 /\ 7 - N = 8 - (N + 1)
  BY <1>1, SMT
<1> DEFINE n == N + 1  Q == 2^(8 - n)
<1>4. 2^(7 - N) = Q
  BY <1>3
<1>5. \/ 2^n = 32 /\ Q = 8
      \/ 2^n = 64 /\ Q = 4
      \/ 2^n = 128 /\ Q = 2
      \/ 2^n = 256 /\ Q = 1
  <2>1. n \in 5 .. 8
    BY <1>3
  <2> HIDE DEF n
  <2> QED
    BY <2>1, PowWidths
<1> HIDE DEF Q
<1>6. Q = 8 \/ Q = 4 \/ Q = 2 \/ Q = 1
  BY <1>5
<1>7. w \div Q \in 0 .. 255
  BY <1>1, <1>6, SMT
<1> QED
  BY <1>2, <1>4, <1>7

(* A queue with one more. *)
LEMMA OneMore ==
  ASSUME NEW T, NEW q \in Seq(T), NEW x \in T
  PROVE  q \o <<x>> \in Seq(T) /\ Len(q \o <<x>>) = Len(q) + 1 /\ Len(q) \in Nat
<1>1. <<x>> \in Seq(T) /\ Len(<<x>>) = 1
  OBVIOUS
<1> QED
  BY <1>1, ConcatProperties, LenProperties

(* The numbers of a word. *)
LEMMA WordIn ==
  ASSUME Formats
  PROVE  /\ bit_count_m1 + 1 \in 5 .. 8
         /\ \A v \in 0 .. 2^(bit_count_m1 + 1) - 1 : v \in Nat
<1> DEFINE n == bit_count_m1 + 1  Q == 2^n
<1>1. n \in 5 .. 8
  <2> DEFINE N == bit_count_m1
  <2>1. N \in 4 .. 7
    BY Zenon DEF Formats
  <2> HIDE DEF N
  <2>2. N + 1 \in 5 .. 8
    BY <2>1, SMT
  <2> QED
    BY <2>2 DEF N
<1>2. \A v \in 0 .. Q - 1 : v \in Nat
  <2>1. Q \in Nat
    <3> DEFINE R == 2^(8 - n)
    <3>1. \/ Q = 32 /\ R = 8
          \/ Q = 64 /\ R = 4
          \/ Q = 128 /\ R = 2
          \/ Q = 256 /\ R = 1
      <4> HIDE DEF n
      <4> QED
        BY <1>1, PowWidths
    <3> HIDE DEF Q, R
    <3> QED
      BY <3>1, SMT
  <2> HIDE DEF Q
  <2> QED
    BY <2>1, SMT
<1> QED
  BY <1>1, <1>2

(* Concatenation. *)
LEMMA Assoc ==
  ASSUME NEW T, NEW a \in Seq(T), NEW b \in Seq(T), NEW c \in Seq(T)
  PROVE  a \o b \in Seq(T) /\ (a \o b) \o c = a \o (b \o c)
<1>1. a \o b \in Seq(T)
  BY ConcatProperties
<1>2. (a \o b) \o c = a \o (b \o c)
  OBVIOUS
<1> QED
  BY <1>1, <1>2

cat(a, b) == a \o b

(* Only the two in the middle are put together first. *)
LEMMA Regroup ==
  ASSUME NEW T
  PROVE  \A a, b, c, d, x \in Seq(T) :
           cat(b, c) = x => cat(cat(a, b), cat(c, d)) = cat(cat(a, x), d)
<1> DEFINE S == Seq(T)
<1>1. ASSUME NEW p \in S, NEW q \in S, NEW r \in S
      PROVE  cat(p, q) \in S /\ cat(cat(p, q), r) = cat(p, cat(q, r))
  BY Assoc DEF cat
<1> SUFFICES ASSUME NEW a \in S, NEW b \in S, NEW c \in S, NEW d \in S, NEW x \in S,
                    cat(b, c) = x
             PROVE  cat(cat(a, b), cat(c, d)) = cat(cat(a, x), d)
  OBVIOUS
<1> HIDE DEF S
<1>3. cat(cat(a, b), cat(c, d)) = cat(a, cat(b, cat(c, d)))
  BY <1>1, SMT
<1>4. cat(b, cat(c, d)) = cat(cat(b, c), d)
  BY <1>1, SMT
<1>5. cat(a, cat(cat(b, c), d)) = cat(cat(a, cat(b, c)), d)
  BY <1>1, SMT
<1> QED
  BY <1>3, <1>4, <1>5

(* A word at the end. *)
LEMMA AppendOne ==
  ASSUME NEW T, NEW q \in Seq(T), NEW x \in T
  PROVE  q \o <<x>> = Append(q, x)
OBVIOUS

(* Where a time is, in cells of k cycles. *)
LEMMA Place ==
  ASSUME NEW a \in Nat, NEW c \in Nat, NEW k \in Nat, NEW t \in 0 .. k - 1
  PROVE  /\ a * k + t >= c * k => a >= c
         /\ a * k + t <= c * k => a < c \/ (a = c /\ t = 0)
         /\ a * k + t >= c * k + 1 => a > c \/ (a = c /\ t > 0)
<1> DEFINE A == a * k  C == c * k
<1>1. A \in Nat /\ C \in Nat /\ (a < c => A + k <= C) /\ (c < a => C + k <= A)
  BY Products
<1>2. a = c => A = C
  OBVIOUS
<1>3. a < c \/ a = c \/ c < a
  BY SMT
<1> HIDE DEF A, C
<1> SUFFICES /\ A + t >= C => a >= c
             /\ A + t <= C => a < c \/ (a = c /\ t = 0)
             /\ A + t >= C + 1 => a > c \/ (a = c /\ t > 0)
  BY DEF A, C
<1> QED
  BY <1>1, <1>2, <1>3, SMT

(* What is between two bounds at both ends of a frame is so all along it. *)
LEMMA Between ==
  ASSUME NEW T \in Nat, NEW R \in Nat, NEW m \in Nat, NEW L \in Nat, NEW c \in 0 .. L,
         m + 1 < T, L * R + m + 1 < (L + 1) * T, (L + 1) * T <= (L + 1) * R + m + 1
  PROVE  /\ c * T <= c * R + m + 1
         /\ c * R + m + 2 <= (c + 1) * T
<1>1. c * T <= c * R + m + 1
  <2>1. CASE T <= R
    <3>1. c * T <= c * R
      BY <2>1, SMT
    <3>2. c * T \in Nat /\ c * R \in Nat
      BY SMT
    <3> QED
      BY <3>1, <3>2, SMT
  <2>2. CASE R < T
    <3> DEFINE D == T - R
    <3>1. D \in Nat /\ T = R + D
      BY <2>2, SMT
    <3> HIDE DEF D
    <3>2. c * T = c * R + c * D /\ (L + 1) * T = (L + 1) * R + (L + 1) * D
      BY <3>1, SMT
    <3>3. c * D <= (L + 1) * D
      BY <3>1, SMT
    <3>4. c * R \in Nat /\ c * D \in Nat /\ (L + 1) * R \in Nat /\ (L + 1) * D \in Nat
      BY <3>1, SMT
    <3> DEFINE cR == c * R  cD == c * D  LR == (L + 1) * R  LD == (L + 1) * D
               cT == c * T  LT == (L + 1) * T
    <3>5. /\ cT = cR + cD /\ LT = LR + LD /\ cD <= LD /\ LT <= LR + m + 1
          /\ cR \in Nat /\ cD \in Nat /\ LR \in Nat /\ LD \in Nat
      BY <3>2, <3>3, <3>4
    <3> HIDE DEF cR, cD, LR, LD, cT, LT
    <3>6. cT <= cR + m + 1
      BY <3>5, SMT
    <3> QED
      BY <3>6 DEF cR, cT
  <2> QED
    BY <2>1, <2>2, SMT
<1>2. c * R + m + 2 <= (c + 1) * T
  <2>0. (c + 1) * T = c * T + T /\ (L + 1) * T = L * T + T /\ c * T \in Nat /\ L * T \in Nat
        /\ c * R \in Nat /\ L * R \in Nat
    BY SMT
  <2>1. CASE R <= T
    <3>1. c * R <= c * T
      BY <2>1, SMT
    <3> DEFINE cR == c * R  cT == c * T
    <3>2. cR <= cT /\ cR \in Nat /\ cT \in Nat
      BY <2>0, <3>1
    <3> HIDE DEF cR, cT
    <3>3. cR + m + 2 <= cT + T
      BY <3>2, SMT
    <3> QED
      BY <2>0, <3>3 DEF cR, cT
  <2>2. CASE T < R
    <3> DEFINE D == R - T
    <3>1. D \in Nat /\ R = T + D
      BY <2>2, SMT
    <3> HIDE DEF D
    <3>2. c * R = c * T + c * D /\ L * R = L * T + L * D
      BY <3>1, SMT
    <3>3. c * D <= L * D
      BY <3>1, SMT
    <3>4. c * D \in Nat /\ L * D \in Nat
      BY <3>1, SMT
    <3> DEFINE cR == c * R  cD == c * D  LR == L * R  LD == L * D  cT == c * T  LT == L * T
    <3>5. /\ cR = cT + cD /\ LR = LT + LD /\ cD <= LD /\ LR + m + 1 < LT + T
          /\ cT \in Nat /\ cD \in Nat /\ LT \in Nat /\ LD \in Nat
      BY <2>0, <3>2, <3>3, <3>4
    <3> HIDE DEF cR, cD, LR, LD, cT, LT
    <3>6. cR + m + 2 <= cT + T
      BY <3>5, SMT
    <3> QED
      BY <2>0, <3>6 DEF cR, cT
  <2> QED
    BY <2>1, <2>2, SMT
<1> QED
  BY <1>1, <1>2

(* Where the transmitter is, by how far the receiver is. *)
LEMMA Phases ==
  ASSUME Ports, Linked
  PROVE  /\ taken <= lastCell => Ahead \/ Even \/ Late
         /\ sampled => txCell >= rxCell
         /\ rx.tick = middle /\ rxCell <= lastCell =>
              (txCell = rxCell /\ tx.tick > 0) \/ (txCell = rxCell + 1 /\ tx.tick = 0)
         /\ rx.tick >= middle /\ rxCell = lastCell + 1 =>
              txCell > lastCell + 1 \/ (txCell = lastCell + 1 /\ tx.tick > 0)
         /\ txOver =>
              /\ rxCell = lastCell + 1 \/ (rxCell = lastCell /\ rx.tick = rxPeriod)
              /\ \/ setup.paced
                 \/ rxCell = lastCell + 1 /\ rx.tick + 2 >= rxPeriod
                 \/ rxCell = lastCell /\ rxPeriod <= 1
<1> DEFINE T == period + 1  R == rxPeriod + 1  m == middle  L == lastCell  S == stop_count
           tc == txCell  tt == tx.tick  rc == rxCell  rt == rx.tick  hurried == ~setup.paced
<1>1. /\ T \in Nat /\ R \in Nat /\ m \in Nat /\ L \in 5 .. 9 /\ S \in 1 .. 2
      /\ T > 1 /\ m + 1 < R /\ R <= 2 * m + 2
      /\ tt \in 0 .. T - 1 /\ rt \in 0 .. R - 1
      /\ tc \in 0 .. L + S /\ rc \in 0 .. L + 1
  <2> DEFINE p == period  q == rxPeriod
  <2>1. /\ p \in Nat \ {0} /\ q \in Nat \ {0} /\ m \in Nat /\ m < q /\ q <= 2 * m + 1
        /\ tt \in 0 .. p /\ rt \in 0 .. q
        /\ L \in 5 .. 9 /\ S \in 1 .. 2 /\ tc \in 0 .. L + S /\ rc \in 0 .. L + 1
    BY Numbers, Zenon DEF Linked
  <2>2. T = p + 1 /\ R = q + 1
    OBVIOUS
  <2> HIDE DEF p, q, T, R, m, tt, rt, L, S, tc, rc
  <2> QED
    BY <2>1, <2>2, SMT
<1>2. /\ m + 1 < T /\ L * R + m + 1 < (L + 1) * T /\ (L + 1) * T <= (L + 1) * R + m + 1
      /\ hurried => (L + 2) * R <= (L + 1 + S) * T
  BY Zenon DEF Ports, Formats, Agree
<1>3. tc * T + tt = rc * R + rt + 2
  BY Zenon DEF Linked, txTime, rxTime
<1>4. sampled <=> rt > m
  BY Zenon DEF sampled
<1>o. txOver => tc = L + S /\ tt = T - 1
  <2>1. txOver => tc = L + S /\ tt = period
    BY Zenon DEF txOver, Linked
  <2>2. T - 1 = period
    BY Numbers, SMT
  <2> QED
    BY <2>1, <2>2
<1>t. taken = IF sampled THEN rc + 1 ELSE rc
  BY <1>1, SMT DEF taken
<1>g. /\ Ahead <=> tc + 1 = taken
      /\ Even <=> tc = taken
      /\ Late <=> tc = taken + 1 /\ tt = 0
  BY Zenon DEF Ahead, Even, Late
<1> HIDE DEF T, R, m, L, S, tc, tt, rc, rt, hurried
<1>n. tc \in Nat /\ rc \in Nat /\ L \in Nat
  BY <1>1, SMT
<1>c. ASSUME NEW c \in 0 .. L
      PROVE  c * T <= c * R + m + 1 /\ c * R + m + 2 <= (c + 1) * T
  BY <1>1, <1>2, <1>n, <1>c, Between
\* The cell before was sampled.
<1>5. sampled => tc >= rc
  <2> SUFFICES ASSUME rt > m PROVE tc >= rc
    BY <1>4
  <2>1. rc * T <= rc * R + m + 1
    <3>1. CASE rc <= L
      BY <1>c, <1>1, <3>1, SMT
    <3>2. CASE rc = L + 1
      BY <1>2, <3>2
    <3> QED
      BY <1>1, <3>1, <3>2, SMT
  <2>2. tc * T + tt >= rc * T
    <3> DEFINE a == tc * T  b == rc * T  d == rc * R
    <3>1. a + tt = d + rt + 2 /\ b <= d + m + 1 /\ a \in Nat /\ b \in Nat /\ d \in Nat
      BY <1>1, <1>3, <1>n, <2>1, Products
    <3> HIDE DEF a, b, d
    <3>2. a + tt >= b
      BY <1>1, <3>1, SMT
    <3> QED
      BY <3>2 DEF a, b
  <2> QED
    BY <1>1, <1>n, <2>2, Place
\* The next one has not been.
<1>6. taken <= L => tc <= taken \/ (tc = taken + 1 /\ tt = 0)
  <2> SUFFICES ASSUME taken <= L PROVE tc <= taken \/ (tc = taken + 1 /\ tt = 0)
    OBVIOUS
  <2> DEFINE k == taken  k1 == taken + 1
  <2>1. k \in 0 .. L /\ k \in Nat /\ k1 \in Nat
    BY <1>1, <1>n, <1>t, SMT
  <2>2. k * R + m + 2 <= k1 * T
    BY <1>c, <2>1
  <2>3. rc * R + rt <= k * R + m
    <3>1. CASE rt > m
      <4>1. k = rc + 1
        BY <1>4, <1>t, <3>1
      <4>2. (rc + 1) * R = rc * R + R /\ rc * R \in Nat
        BY <1>1, <1>n, Products
      <4> DEFINE d == rc * R
      <4>3. d + rt <= d + R + m
        <5>1. d \in Nat
          BY <4>2
        <5> HIDE DEF d
        <5> QED
          BY <1>1, <5>1, SMT
      <4> QED
        BY <4>1, <4>2, <4>3
    <3>2. CASE ~(rt > m)
      <4>1. k = rc
        BY <1>4, <1>t, <3>2
      <4> DEFINE d == rc * R
      <4>2. d \in Nat
        BY <1>1, <1>n, Products
      <4>3. d + rt <= d + m
        <5> HIDE DEF d
        <5> QED
          BY <1>1, <3>2, <4>2, SMT
      <4> QED
        BY <4>1, <4>3
    <3> QED
      BY <3>1, <3>2
  <2>4. tc * T + tt <= k1 * T
    <3> DEFINE a == tc * T  b == k1 * T  d == rc * R  e == k * R
    <3>1. /\ a + tt = d + rt + 2 /\ e + m + 2 <= b /\ d + rt <= e + m
          /\ a \in Nat /\ b \in Nat /\ d \in Nat /\ e \in Nat
      BY <1>1, <1>3, <1>n, <2>1, <2>2, <2>3, Products
    <3> HIDE DEF a, b, d, e
    <3>2. a + tt <= b
      BY <1>1, <3>1, SMT
    <3> QED
      BY <3>2 DEF a, b
  <2>5. tc < k1 \/ (tc = k1 /\ tt = 0)
    <3> HIDE DEF k1
    <3> QED
      BY <1>1, <1>n, <2>1, <2>4, Place
  <2> QED
    BY <1>n, <2>1, <2>5, SMT
<1>7. tc + 1 >= rc
  <2>1. CASE rc = 0
    BY <1>n, <2>1, SMT
  <2>2. CASE rc # 0
    <3> DEFINE k == rc - 1
    <3>1. k \in 0 .. L /\ k \in Nat /\ k + 1 = rc
      BY <1>1, <2>2, SMT
    <3>2. k * T <= k * R + m + 1 /\ rc * R = k * R + R
      BY <1>1, <1>c, <3>1, Products
    <3> DEFINE a == tc * T  b == k * T  d == rc * R  e == k * R
    <3>3. /\ a + tt = d + rt + 2 /\ b <= e + m + 1 /\ d = e + R
          /\ a \in Nat /\ b \in Nat /\ d \in Nat /\ e \in Nat
      BY <1>1, <1>3, <1>n, <3>1, <3>2, Products
    <3>4. a + tt >= b
      <4> HIDE DEF a, b, d, e, k
      <4> QED
        BY <1>1, <3>3, SMT
    <3>5. tc >= k
      <4> HIDE DEF k
      <4> QED
        BY <1>1, <1>n, <3>1, <3>4, Place DEF a, b
    <3> QED
      BY <1>n, <3>1, <3>5, SMT
  <2> QED
    BY <2>1, <2>2
<1>8. taken <= L => Ahead \/ Even \/ Late
  <2> DEFINE k == taken
  <2>1. k = IF sampled THEN rc + 1 ELSE rc
    BY <1>t
  <2>2. k \in Nat /\ tc + 1 >= k
    <3>1. CASE sampled
      BY <1>5, <1>n, <2>1, <3>1, SMT
    <3>2. CASE ~sampled
      BY <1>7, <1>n, <2>1, <3>2, SMT
    <3> QED
      BY <3>1, <3>2
  <2>3. k <= L => tc + 1 = k \/ tc = k \/ (tc = k + 1 /\ tt = 0)
    <3>1. k <= L => tc <= k \/ (tc = k + 1 /\ tt = 0)
      BY <1>6
    <3> HIDE DEF k
    <3> QED
      BY <1>n, <2>2, <3>1, SMT
  <2> QED
    BY <1>g, <2>3
\* Where a cell is sampled.
<1>9. rt = m /\ rc <= L => (tc = rc /\ tt > 0) \/ (tc = rc + 1 /\ tt = 0)
  <2> SUFFICES ASSUME rt = m, rc <= L PROVE (tc = rc /\ tt > 0) \/ (tc = rc + 1 /\ tt = 0)
    OBVIOUS
  <2> DEFINE k1 == rc + 1
  <2>1. rc \in 0 .. L /\ k1 \in Nat
    BY <1>1, <1>n, SMT
  <2>2. rc * T <= rc * R + m + 1 /\ rc * R + m + 2 <= k1 * T
    BY <1>c, <2>1
  <2> DEFINE a == tc * T  b == rc * T  d == rc * R  e == k1 * T
  <2>3. /\ a + tt = d + m + 2 /\ b <= d + m + 1 /\ d + m + 2 <= e
        /\ a \in Nat /\ b \in Nat /\ d \in Nat /\ e \in Nat
    BY <1>1, <1>3, <1>n, <2>1, <2>2, Products
  <2>4. a + tt >= b + 1 /\ a + tt <= e
    <3> HIDE DEF a, b, d, e, k1
    <3> QED
      BY <1>1, <2>3, SMT
  <2>5. tc > rc \/ (tc = rc /\ tt > 0)
    BY <1>1, <1>n, <2>4, Place
  <2>6. tc < k1 \/ (tc = k1 /\ tt = 0)
    <3> HIDE DEF k1
    <3> QED
      BY <1>1, <1>n, <2>1, <2>4, Place DEF a, e
  <2> QED
    BY <1>n, <2>5, <2>6, SMT
\* The stop bit.
<1>10. rt >= m /\ rc = L + 1 => tc > L + 1 \/ (tc = L + 1 /\ tt > 0)
  <2> SUFFICES ASSUME rt >= m, rc = L + 1 PROVE tc > rc \/ (tc = rc /\ tt > 0)
    OBVIOUS
  <2> DEFINE a == tc * T  b == rc * T  d == rc * R
  <2>1. /\ a + tt = d + rt + 2 /\ b <= d + m + 1
        /\ a \in Nat /\ b \in Nat /\ d \in Nat
    BY <1>1, <1>2, <1>3, <1>n, Products
  <2>2. a + tt >= b + 1
    <3> HIDE DEF a, b, d
    <3> QED
      BY <1>1, <2>1, SMT
  <2> QED
    BY <1>1, <1>n, <2>2, Place
\* The end of the frame.
<1>11. ASSUME txOver
       PROVE  /\ rc = L + 1 \/ (rc = L /\ rt = R - 1)
              /\ hurried => (rc = L + 1 /\ rt + 3 >= R) \/ (rc = L /\ R <= 2)
  <2> DEFINE a == tc * T  d == rc * R  LT == L * T  LR == L * R
  <2>0. tc = L + S /\ tt = T - 1
    BY <1>o, <1>11
  <2>1. /\ (L + 1) * T = LT + T /\ (L + 1) * R = LR + R /\ (L + 2) * R = LR + R + R
        /\ LT \in Nat /\ LR \in Nat /\ a \in Nat /\ d \in Nat
    BY <1>1, <1>n, Products
  <2>2. (S = 1 => a = LT + T /\ (L + 1 + S) * T = LT + T + T)
        /\ (S = 2 => a = LT + T + T /\ (L + 1 + S) * T = LT + T + T + T)
    <3>1. (L + 1) * T = LT + T /\ (L + 2) * T = LT + T + T
      BY <1>1, <1>n, Products
    <3>2. (L + 3) * T = LT + T + T + T
      <4>1. L + 2 \in Nat /\ (L + 2) + 1 = L + 3
        BY <1>n, SMT
      <4>2. ((L + 2) + 1) * T = (L + 2) * T + T
        BY <1>1, <4>1, Products
      <4> QED
        BY <3>1, <4>1, <4>2
    <3>3. /\ S = 1 => L + S = L + 1 /\ L + 1 + S = L + 2
          /\ S = 2 => L + S = L + 2 /\ L + 1 + S = L + 3
      BY <1>n, SMT
    <3> QED
      BY <2>0, <3>1, <3>2, <3>3
  <2> DEFINE LS == (L + 1 + S) * T  L1R == (L + 1) * R  L2R == (L + 2) * R  L1T == (L + 1) * T
  <2>3. /\ LR + m + 1 < L1T /\ (hurried => L2R <= LS)
        /\ L1T = LT + T /\ L1R = LR + R /\ L2R = LR + R + R
        /\ S = 1 => a = LT + T /\ LS = LT + T + T
        /\ S = 2 => a = LT + T + T /\ LS = LT + T + T + T
        /\ a + (T - 1) = d + rt + 2
        /\ LT \in Nat /\ LR \in Nat /\ a \in Nat /\ d \in Nat
        /\ S = 1 \/ S = 2
    BY <1>1, <1>2, <1>3, <2>0, <2>1, <2>2
  <2>4. d + rt + 1 >= L1R /\ (hurried => d + rt + 3 >= L2R)
    <3> HIDE DEF a, d, LT, LR, LS, L1R, L2R, L1T
    <3> QED
      BY <1>1, <1>2, <2>3, SMT
  <2>5. rc >= L
    <3>1. d + rt >= LR
      <4> HIDE DEF d, LR, L1R, L2R
      <4> QED
        BY <1>1, <2>3, <2>4, SMT
    <3> QED
      BY <1>1, <1>n, <3>1, Place
  <2>6. rc = L \/ rc = L + 1
    BY <1>1, <2>5, SMT
  <2>7. CASE rc = L
    <3>1. d = LR
      BY <2>7
    <3>2. rt = R - 1 /\ (hurried => R <= 2)
      <4> HIDE DEF d, LR, L1R, L2R
      <4> QED
        BY <1>1, <2>3, <2>4, <3>1, SMT
    <3> QED
      BY <2>7, <3>2
  <2>8. CASE rc = L + 1
    <3>1. d = L1R
      BY <2>8
    <3>2. hurried => rt + 3 >= R
      <4> HIDE DEF d, LR, L1R, L2R
      <4> QED
        BY <1>1, <2>3, <2>4, <3>1, SMT
    <3> QED
      BY <2>8, <3>2
  <2> QED
    BY <2>6, <2>7, <2>8
<1> USE DEF m, L, tc, tt, rc, rt
<1>12. txOver =>
         /\ rxCell = lastCell + 1 \/ (rxCell = lastCell /\ rx.tick = rxPeriod)
         /\ \/ setup.paced
            \/ rxCell = lastCell + 1 /\ rx.tick + 2 >= rxPeriod
            \/ rxCell = lastCell /\ rxPeriod <= 1
  <2>1. R - 1 = rxPeriod /\ (rx.tick + 3 >= R => rx.tick + 2 >= rxPeriod)
        /\ (R <= 2 => rxPeriod <= 1)
    <3> HIDE DEF rt
    <3> DEFINE q == rxPeriod
    <3>1. q \in Nat /\ R = q + 1
      BY Numbers, Zenon DEF R
    <3>2. rt \in Nat
      BY <1>1, SMT
    <3> HIDE DEF q
    <3>3. R - 1 = q /\ (rt + 3 >= R => rt + 2 >= q) /\ (R <= 2 => q <= 1)
      BY <3>1, <3>2, SMT
    <3> QED
      BY <3>3 DEF q, rt
  <2> QED
    BY <1>11, <2>1, Zenon DEF hurried
<1> QED
  BY <1>4, <1>5, <1>8, <1>9, <1>10, <1>12, Zenon

(* In a frame, a cycle of an end takes it one further. *)
LEMMA Advances ==
  ASSUME Ports, setup' = setup
  PROVE  /\ txOn /\ (TxTicks \/ TxNexts) => txTime' = txTime + 1 /\ txTime \in Nat
         /\ rxOn /\ (RxTicks \/ RxNexts) => rxTime' = rxTime + 1 /\ rxTime \in Nat
<1> DEFINE T == period + 1  R == rxPeriod + 1
<1>1. /\ T \in Nat /\ R \in Nat /\ period = T - 1 /\ rxPeriod = R - 1
      /\ period \in Nat /\ rxPeriod \in Nat
      /\ tx.tick \in Nat /\ rx.tick \in Nat
      /\ txOn => txCell \in Nat
      /\ rxOn => rxCell \in Nat
  <2>1. /\ period \in Nat \ {0} /\ rxPeriod \in Nat \ {0}
        /\ tx.tick \in 0 .. period /\ rx.tick \in 0 .. rxPeriod
        /\ txOn => txCell \in 0 .. lastCell + stop_count
        /\ rxOn => rxCell \in 0 .. lastCell + 1
    BY Numbers, Zenon
  <2> QED
    BY <2>1, SMT
<1>p. period' = period /\ rxPeriod' = rxPeriod
  BY FormatsStay, Zenon
<1>2. ASSUME txOn, TxTicks \/ TxNexts PROVE txTime' = txTime + 1 /\ txTime \in Nat
  <2> DEFINE a == txCell  t == tx.tick
  <2>1. /\ txTime = a * T + t
        /\ txTime' = txCell' * T + tx'.tick
    BY <1>p DEF txTime
  <2>2. \/ txCell' = a /\ tx'.tick = t + 1
        \/ txCell' = a + 1 /\ tx'.tick = 0 /\ t = T - 1
    BY <1>1, <1>2, Zenon DEF TxTicks, TxNexts
  <2>3. a * T \in Nat /\ (a + 1) * T = a * T + T
    BY <1>1, <1>2, Products
  <2> DEFINE A == a * T
  <2>4. A + t \in Nat /\ A + (t + 1) = (A + t) + 1 /\ (t = T - 1 => A + T = (A + t) + 1)
        /\ (A + T) + 0 = A + T
    <3>1. A \in Nat /\ t \in Nat /\ T \in Nat
      BY <1>1, <2>3
    <3> HIDE DEF A, t, T
    <3> QED
      BY <3>1, SMT
  <2> QED
    BY <2>1, <2>2, <2>3, <2>4
<1>3. ASSUME rxOn, RxTicks \/ RxNexts PROVE rxTime' = rxTime + 1 /\ rxTime \in Nat
  <2> DEFINE a == rxCell  t == rx.tick
  <2>1. /\ rxTime = a * R + t
        /\ rxTime' = rxCell' * R + rx'.tick
    BY <1>p DEF rxTime
  <2>2. \/ rxCell' = a /\ rx'.tick = t + 1
        \/ rxCell' = a + 1 /\ rx'.tick = 0 /\ t = R - 1
    BY <1>1, <1>3, Zenon DEF RxTicks, RxNexts
  <2>3. a * R \in Nat /\ (a + 1) * R = a * R + R
    BY <1>1, <1>3, Products
  <2> DEFINE A == a * R
  <2>4. A + t \in Nat /\ A + (t + 1) = (A + t) + 1 /\ (t = R - 1 => A + R = (A + t) + 1)
        /\ (A + R) + 0 = A + R
    <3>1. A \in Nat /\ t \in Nat /\ R \in Nat
      BY <1>1, <2>3
    <3> HIDE DEF A, t, R
    <3> QED
      BY <3>1, SMT
  <2> QED
    BY <2>1, <2>2, <2>3, <2>4
<1> QED
  BY <1>2, <1>3

(* The receiver stays two cycles behind, by clocks that differ. *)
LEMMA FollowsStep ==
  ASSUME Ports, Follows, OnWire, Unhurried, setup' = setup,
         TxStarts \/ TxRests \/ TxTicks \/ TxNexts,
         RxRests \/ RxEnters \/ RxTicks \/ RxNexts \/ RxEnds
  PROVE  Follows'
<1> DEFINE L == lastCell  S == stop_count  P == period  Q == rxPeriod  paced == setup.paced
           tt == tx.tick  rt == rx.tick  tc == txCell  rc == rxCell
           ton == txOn  ron == rxOn  ton1 == txOn'  ron1 == rxOn'
           tt1 == tx'.tick  rt1 == rx'.tick  tc1 == txCell'  rc1 == rxCell'
           low == rx_bit_d = 0  high == rx_bit_d = 1
           over == ~ton \/ (tc = L + S /\ tt = P)
           quick == paced /\ (ton \/ ron)
           X == txTime  Y == rxTime  X1 == txTime'  Y1 == rxTime'
<1>1. /\ P \in Nat \ {0} /\ Q \in Nat \ {0} /\ L \in 5 .. 9 /\ S \in 1 .. 2
      /\ tt \in 0 .. P /\ rt \in 0 .. Q
      /\ ton => tc \in 0 .. L + S
      /\ ron => rc \in 0 .. L + 1
  BY Numbers, Zenon
<1>p. P' = P /\ Q' = Q /\ L' = L /\ S' = S /\ (setup.paced)' = setup.paced
  BY FormatsStay, Zenon
<1>t. \/ over /\ ton1 /\ tc1 = 0 /\ tt1 = 0 /\ ~quick
      \/ over /\ ~ton1 /\ tt1 = 0
      \/ ton /\ tt < P /\ ton1 /\ tc1 = tc /\ tt1 = tt + 1 /\ X1 = X + 1
      \/ ton /\ tt = P /\ tc < L + S /\ ton1 /\ tc1 = tc + 1 /\ tt1 = 0 /\ X1 = X + 1
  <2>1. TxStarts => ~quick
    BY Zenon DEF TxStarts, Unhurried
  <2>2. TxTicks \/ TxNexts => X1 = X + 1
    BY Advances, Zenon DEF TxTicks, TxNexts
  <2> QED
    BY <2>1, <2>2, Zenon DEF TxStarts, TxRests, TxTicks, TxNexts, txOver
<1>r. \/ ~ron /\ high /\ ~ron1
      \/ low /\ (~ron \/ (ron /\ rc = L + 1 /\ rt = Q)) /\ ron1 /\ rc1 = 0 /\ rt1 = 0
      \/ ron /\ rt < Q /\ ron1 /\ rc1 = rc /\ rt1 = rt + 1 /\ Y1 = Y + 1
      \/ ron /\ rt = Q /\ rc <= L /\ ron1 /\ rc1 = rc + 1 /\ rt1 = 0 /\ Y1 = Y + 1
      \/ ron /\ rc = L + 1 /\ rt = Q /\ high /\ ~ron1
  <2>1. rxOn' <=> rx'.state # "Idle"
    BY Zenon DEF rxOn
  <2>2. rx.state = "Stop" <=> rxOn /\ rxCell = L + 1
    BY Numbers, Zenon
  <2>3. RxRests => ~rxOn'
    BY <2>1, Zenon DEF RxRests, rxOn
  <2>4. RxEnters => rxOn'
    BY <2>1, StateNames, Zenon DEF RxEnters
  <2>5. RxTicks => rxOn'
    BY <2>1, Zenon DEF RxTicks, rxOn
  <2>6. RxTicks \/ RxNexts => Y1 = Y + 1
    BY Advances, Zenon DEF RxTicks, RxNexts
  <2> QED
    BY <2>2, <2>3, <2>4, <2>5, <2>6, Zenon DEF RxRests, RxEnters, RxTicks, RxNexts, RxEnds
<1>w. /\ ~ton \/ (tc = 0 /\ tt = 0) \/ tc > L + 1 => high
      /\ ton /\ tc = 0 /\ tt > 0 => low
      /\ ton /\ tc = L + 1 /\ tt > 0 => high
      /\ ~(low /\ high)
  <2>1. txOn /\ txCell = 0 /\ tx.tick > 0 => rx_bit_d = 0
    <3>1. tx.bit = 0 /\ noise = "none" => Level = 0
      BY Zenon DEF Level
    <3> QED
      BY <3>1, SMT DEF OnWire
  <2>2. ~(low /\ high)
    BY SMT
  <2>3. txOn /\ txCell = L + 1 /\ tx.tick > 0 => rx_bit_d = 1
    <3>1. txCell = L + 1 => txCell > L
      BY <1>1, SMT
    <3>2. tx.bit = 1 /\ noise # "now" => Level = 1
      BY Zenon DEF Level
    <3> QED
      BY <3>1, <3>2, Zenon DEF OnWire
  <2> QED
    BY <2>1, <2>2, <2>3, Zenon DEF OnWire
<1>f. Linked =>
        /\ X = Y + 2 /\ X \in Nat /\ Y \in Nat
        /\ rt = Q /\ rc = L + 1 => tc > L + 1 \/ (tc = L + 1 /\ tt > 0)
        /\ over =>
             /\ rc = L + 1 \/ (rc = L /\ rt = Q)
             /\ \/ paced
                \/ rc = L + 1 /\ rt + 2 >= Q
                \/ rc = L /\ Q <= 1
  <2> SUFFICES ASSUME Linked
               PROVE  /\ X = Y + 2 /\ X \in Nat /\ Y \in Nat
                      /\ rt = Q /\ rc = L + 1 => tc > L + 1 \/ (tc = L + 1 /\ tt > 0)
                      /\ over =>
                           /\ rc = L + 1 \/ (rc = L /\ rt = Q)
                           /\ \/ paced
                              \/ rc = L + 1 /\ rt + 2 >= Q
                              \/ rc = L /\ Q <= 1
    OBVIOUS
  <2>1. X = Y + 2
    BY Zenon DEF Linked
  <2>2. Q >= middle
    BY Numbers, SMT
  <2>3. X \in Nat /\ Y \in Nat
    <3>1. ton /\ ron
      BY Zenon DEF Linked
    <3> DEFINE k == P + 1  kr == Q + 1
    <3>2. k \in Nat /\ kr \in Nat /\ tc \in Nat /\ rc \in Nat /\ tt \in Nat /\ rt \in Nat
      BY <1>1, <3>1, SMT
    <3>3. tc * k \in Nat /\ rc * kr \in Nat
      BY <3>2, Products
    <3> DEFINE A == tc * k  B == rc * kr
    <3>4. A + tt \in Nat /\ B + rt \in Nat
      <4>1. A \in Nat /\ B \in Nat
        BY <3>3
      <4> HIDE DEF A, B, tt, rt
      <4> QED
        BY <3>2, <4>1, SMT
    <3> QED
      BY <3>4 DEF txTime, rxTime
  <2> QED
    BY <2>1, <2>2, <2>3, Phases, Zenon DEF txOver
<1>o. /\ Linked <=> ton /\ ron /\ X = Y + 2
      /\ Ended <=> ton /\ ~ron /\ (tc > L + 1 \/ (tc = L + 1 /\ tt > 0))
      /\ Starting <=> ton /\ tc = 0 /\ tt < 2 /\ (ron => rc = L + 1 /\ rt + 1 >= Q + tt)
      /\ Resting <=> ~ton /\ (ron => rc = L + 1 /\ (paced \/ rt + 1 >= Q))
  BY Zenon DEF Linked, Ended, Starting, Resting
<1>n. /\ Linked' <=> ton1 /\ ron1 /\ X1 = Y1 + 2
      /\ Ended' <=> ton1 /\ ~ron1 /\ (tc1 > L + 1 \/ (tc1 = L + 1 /\ tt1 > 0))
      /\ Starting' <=> ton1 /\ tc1 = 0 /\ tt1 < 2 /\ (ron1 => rc1 = L + 1 /\ rt1 + 1 >= Q + tt1)
      /\ Resting' <=> ~ton1 /\ (ron1 => rc1 = L + 1 /\ (paced \/ rt1 + 1 >= Q))
  BY <1>p, Zenon DEF Linked, Ended, Starting, Resting
<1>0. /\ tc1 = 0 /\ tt1 = 0 => X1 = 0
      /\ tc = 0 /\ tt = 1 => X = 1
      /\ rc1 = 0 /\ rt1 = 0 => Y1 = 0
  <2> DEFINE k == P + 1  kr == Q + 1
  <2>1. k \in Nat /\ kr \in Nat
    BY <1>1, SMT
  <2>2. 0 * k = 0 /\ 0 * kr = 0 /\ 0 + 0 = 0 /\ 0 + 1 = 1
    <3> HIDE DEF k, kr
    <3> QED
      BY <2>1, SMT
  <2>3. X = tc * k + tt /\ X1 = tc1 * k + tt1 /\ Y1 = rc1 * kr + rt1
    BY <1>p DEF txTime, rxTime
  <2> QED
    BY <2>2, <2>3
<1> HIDE DEF P, Q, L, S, tt, rt, tc, rc, ton, ron, ton1, ron1, tt1, rt1, tc1, rc1, low, high
<1> HIDE DEF X, Y, X1, Y1, paced
<1>s. SUFFICES Linked' \/ Ended' \/ Starting' \/ Resting'
  BY Zenon DEF Follows
<1>2. CASE Linked
  BY <1>1, <1>t, <1>r, <1>w, <1>o, <1>f, <1>n, <1>2, SMT
<1>3. CASE Ended
  BY <1>1, <1>t, <1>r, <1>w, <1>o, <1>n, <1>3, SMT
<1>4. CASE Starting
  BY <1>1, <1>t, <1>r, <1>w, <1>o, <1>n, <1>0, <1>4, SMT
<1>5. CASE Resting
  BY <1>1, <1>t, <1>r, <1>w, <1>o, <1>n, <1>5, SMT
<1> QED
  BY <1>2, <1>3, <1>4, <1>5, Zenon DEF Follows

(* Until the receiver has the stop bit, it is in the transmitter's frame, *)
(* which is not over before.                                              *)
LEMMA InFrame ==
  ASSUME Ports, Follows, rxOn, rxCell <= lastCell
  PROVE  /\ Linked /\ txOn /\ txCell \in Nat
         /\ ~(rxCell = lastCell /\ rx.tick = rxPeriod) => ~TxStarts /\ ~TxRests
<1>1. rxCell # lastCell + 1
  BY Numbers, SMT
<1>2. Linked
  BY <1>1, Zenon DEF Follows, Ended, Starting, Resting
<1>3. txOn
  BY <1>2, Zenon DEF Linked
<1>4. txCell \in Nat
  BY <1>3, Numbers, SMT
<1> QED
  BY <1>1, <1>2, <1>3, <1>4, Phases, Zenon DEF TxStarts, TxRests

(* The receiver samples a cell in the middle of it. *)
LEMMA TakenMoves ==
  ASSUME Ports, setup' = setup
  PROVE  /\ rxOn => taken \in Nat /\ rxCell \in Nat /\ rxCell <= taken
         /\ sampled => taken = rxCell + 1
         /\ ~sampled => taken = rxCell
         /\ RxTicks /\ rx.tick # middle => taken' = taken /\ (sampled' <=> sampled)
         /\ RxTicks /\ rx.tick = middle => ~sampled /\ sampled' /\ taken' = rxCell + 1
         /\ RxNexts => sampled /\ ~sampled' /\ taken' = taken /\ rx.tick # middle
         /\ RxEnters => ~sampled' /\ taken' = 0
<1> DEFINE q == rxPeriod  m == middle  t == rx.tick  c == rxCell  t1 == rx'.tick  c1 == rxCell'
           k == taken  k1 == taken'  on == rxOn
<1>1. q \in Nat /\ m \in Nat /\ m < q /\ t \in 0 .. q /\ (on => c \in Nat)
  <2>1. /\ q \in Nat \ {0} /\ m \in Nat /\ m < q /\ t \in 0 .. q
        /\ on => c \in 0 .. lastCell + 1
    BY Numbers, Zenon
  <2> QED
    BY <2>1, SMT
<1>p. middle' = m
  BY FormatsStay, Zenon
<1>2. (sampled <=> t > m) /\ (sampled' <=> t1 > m)
  BY <1>p, Zenon DEF sampled
<1>3. k = c + (IF sampled THEN 1 ELSE 0) /\ k1 = c1 + (IF sampled' THEN 1 ELSE 0)
  BY DEF taken
<1>4. /\ RxTicks => on /\ t < q /\ c1 = c /\ t1 = t + 1
      /\ RxNexts => on /\ t = q /\ c1 = c + 1 /\ t1 = 0
      /\ RxEnters => c1 = 0 /\ t1 = 0
  BY Zenon DEF RxTicks, RxNexts, RxEnters
<1>i. c \in Int
  <3>1. rx.bit_pos \in Nat /\ bit_count_m1 \in 4 .. 7 /\ lastCell \in 5 .. 9
    BY Numbers, Zenon DEF Ports, RxPort
  <3> QED
    BY <3>1, SMT DEF rxCell
<1> HIDE DEF q, m, t, c, t1, c1, k, k1, on
<1>5. /\ on => k \in Nat /\ c \in Nat /\ c <= k
      /\ sampled => k = c + 1
      /\ ~sampled => k = c
  BY <1>1, <1>2, <1>3, <1>i, SMT
<1>6. /\ RxTicks /\ t # m => k1 = k /\ (sampled' <=> sampled)
      /\ RxTicks /\ t = m => ~sampled /\ sampled' /\ k1 = c + 1
  BY <1>1, <1>2, <1>3, <1>4, SMT
<1>7. /\ RxNexts => sampled /\ ~sampled' /\ k1 = k /\ t # m
      /\ RxEnters => ~sampled' /\ k1 = 0
  BY <1>1, <1>2, <1>3, <1>4, SMT
<1> QED
  BY <1>5, <1>6, <1>7 DEF m, t, c, k, k1, on

(* The level that is sampled is that of the cell: it is still sent, or     *)
(* has been until now.                                                     *)
LEMMA SampleIs ==
  ASSUME Ports, Linked, OnWire, rx.tick = middle, rxCell <= lastCell
  PROVE  (Even /\ tx.tick > 0 /\ rx_bit_d = Level) \/ Late
<1>1. (txCell = rxCell /\ tx.tick > 0) \/ (txCell = rxCell + 1 /\ tx.tick = 0)
  BY Phases, Zenon
<1>2. taken = rxCell
  <2>1. ~sampled
    <3>1. middle \in Nat
      BY Numbers, Zenon
    <3> QED
      BY <3>1, SMT DEF sampled
  <2>2. rxCell \in Nat
    BY Numbers, SMT DEF Linked
  <2> QED
    BY <2>1, <2>2, SMT DEF taken
<1>3. txOn /\ tx.tick > 0 => rx_bit_d = Level
  BY Zenon DEF OnWire
<1> QED
  BY <1>1, <1>2, <1>3, Zenon DEF Even, Late, Linked

(* From the parity bit on, a frame stays hit or not. *)
LEMMA NoiseKept ==
  ASSUME Ports, OnWire, setup' = setup, Noise, TxRests \/ TxTicks \/ TxNexts,
         txOn, txCell >= bit_count_m1 + 2
  PROVE  /\ noise' = "none" <=> noise = "none"
         /\ rx'.parity = rx.parity => \A b : Right(b) => Right(b)'
<1> DEFINE N == bit_count_m1
<1>n. N \in 4 .. 7 /\ lastCell \in {N + 1, N + 2} /\ txCell \in 0 .. lastCell + stop_count
      /\ stop_count \in 1 .. 2
  BY Numbers, Zenon
<1>s. ~("none" = "now") /\ ~("none" = "past") /\ ~("now" = "past")
  OBVIOUS
<1>1. ~(txCell < lastCell)
  BY <1>n, SMT
<1>2. noise' = "none" <=> noise = "none"
  <2>1. CASE TxNexts
    <3>1. \/ noise = "now" /\ noise' = "past"
          \/ noise # "now" /\ noise' = noise
      BY <1>1, <2>1, NoiseKinds, Zenon
    <3> QED
      BY <1>s, <3>1, Zenon
  <2>2. CASE TxTicks \/ TxRests
    BY <2>2, NoiseKinds, Zenon
  <2> QED
    BY <2>1, <2>2
<1>3. ASSUME rx'.parity = rx.parity, NEW b, Right(b)
      PROVE  Right(b)'
  <2>1. parity_type' = parity_type /\ parity_bit(rx.parity)' = parity_bit(rx.parity)
    <3>1. parity_type' = parity_type
      BY FormatsStay, Zenon
    <3> QED
      BY <1>3, <3>1 DEF parity_bit
  <2>2. Right(b)' <=> /\ noise' = "none" => b = parity_bit(rx.parity)'
                      /\ noise' # "none" /\ parity_type' \in {"odd", "even"}
                           => b # parity_bit(rx.parity)'
    BY DEF Right
  <2> QED
    BY <1>2, <1>3, <2>1, <2>2, Zenon DEF Right
<1> QED
  BY <1>2, <1>3, Zenon

(* The parity bit on the wire is what it should be. *)
LEMMA RightLevel ==
  ASSUME Ports, OnWire, Sums, txOn, txCell = bit_count_m1 + 2, txCell <= lastCell,
         rx.parity = toldBefore
  PROVE  Right(Level)
<1>1. tx.parity \in 0 .. 1 /\ tx.bit \in 0 .. 1 /\ noise \in {"none", "now", "past"}
  BY Zenon DEF Ports, TxPort
<1>2. ~("none" = "now") /\ ~("none" = "past") /\ ~("now" = "past")
  OBVIOUS
<1>3. rx.parity = Xor(tx.parity, hit({"past"}))
  <2>1. ~(txCell <= bit_count_m1 + 1)
    BY Numbers, SMT
  <2> QED
    BY <2>1, Zenon DEF toldBefore
<1>4. tx.bit = parity_bit(tx.parity)
  BY Zenon DEF Sums
<1>5. Xor(tx.parity, 0) = tx.parity /\ Xor(tx.parity, 1) = 1 - tx.parity
  BY <1>1, XorLaws
<1>6. /\ parity_bit(tx.parity) \in 0 .. 1
      /\ parity_type \in {"odd", "even"} => parity_bit(1 - tx.parity) = 1 - parity_bit(tx.parity)
  BY <1>1, ParityBit, Zenon
<1>s. SUFFICES /\ (noise = "none" => Level = parity_bit(rx.parity))
               /\ (noise # "none" /\ parity_type \in {"odd", "even"}
                     => Level # parity_bit(rx.parity))
  BY Zenon DEF Right
<1>7. CASE noise = "none"
  <2>1. rx.parity = tx.parity /\ Level = tx.bit
    BY <1>2, <1>3, <1>5, <1>7, Zenon DEF hit, Level
  <2> QED
    BY <1>4, <1>7, <2>1
<1>8. CASE noise = "now"
  <2>1. rx.parity = tx.parity /\ Level = 1 - tx.bit
    BY <1>2, <1>3, <1>5, <1>8, Zenon DEF hit, Level
  <2>2. Level # tx.bit
    BY <1>1, <2>1, SMT
  <2> QED
    BY <1>2, <1>4, <1>8, <2>1, <2>2
<1>9. CASE noise = "past"
  <2>1. rx.parity = 1 - tx.parity /\ Level = tx.bit
    BY <1>2, <1>3, <1>5, <1>9, Zenon DEF hit, Level
  <2>2. 1 - tx.bit # tx.bit
    BY <1>1, SMT
  <2>3. parity_type \in {"odd", "even"} => parity_bit(rx.parity) = 1 - tx.bit
    BY <1>4, <1>6, <2>1
  <2> QED
    BY <1>2, <1>9, <2>1, <2>2, <2>3, Zenon
<1> QED
  BY <1>1, <1>7, <1>8, <1>9

(* A frame is entered in the second cycle of its start bit. *)
LEMMA EntersWhen ==
  ASSUME Ports, Follows, OnWire, RxEnters
  PROVE  Starting /\ tx.tick > 0 /\ txOn /\ txCell = 0
<1> DEFINE L == lastCell
<1>n. /\ L \in 5 .. 9 /\ tx.tick \in 0 .. period /\ stop_count \in 1 .. 2
      /\ period \in Nat /\ txOn => txCell \in 0 .. L + stop_count
  BY Numbers, Zenon
<1>1. rx_bit_d = 0 /\ (rxOn => rx.state = "Stop" /\ rx.tick = rxPeriod)
  BY Zenon DEF RxEnters
<1>2. ~(~txOn \/ (txCell = 0 /\ tx.tick = 0) \/ txCell > L + 1)
  <2>1. rx_bit_d # 1
    BY <1>1, SMT
  <2> QED
    BY <2>1, Zenon DEF OnWire
<1>3. ~(txCell > L /\ tx.tick > 0)
  <2>1. ~("none" = "now")
    OBVIOUS
  <2>2. txCell > L /\ tx.tick > 0 => rx_bit_d = 1
    BY <1>2, Zenon DEF OnWire, Level
  <2> QED
    BY <1>1, <2>2, SMT
<1>4. ~Linked
  <2>1. ASSUME Linked PROVE FALSE
    <3>1. rxOn /\ rxCell = L + 1 /\ rx.tick >= middle
      <4>1. rxOn /\ rx.state = "Stop" /\ rx.tick = rxPeriod
        BY <1>1, <2>1, Zenon DEF Linked
      <4>2. rxPeriod >= middle
        BY Numbers, SMT
      <4> QED
        BY <4>1, <4>2, Numbers, Zenon
    <3>2. txCell > L + 1 \/ (txCell = L + 1 /\ tx.tick > 0)
      BY <2>1, <3>1, Phases, Zenon
    <3>3. txCell = L + 1 => txCell > L
      BY <1>n, SMT
    <3> QED
      BY <1>2, <1>3, <3>2, <3>3
  <2> QED
    BY <2>1
<1>5. ~Ended /\ ~Resting
  <2>1. txCell = L + 1 => txCell > L
    BY <1>n, SMT
  <2> QED
    BY <1>2, <1>3, <2>1, Zenon DEF Ended, Resting
<1>6. Starting
  BY <1>4, <1>5, Zenon DEF Follows
<1>7. txOn /\ txCell = 0
  BY <1>6, Zenon DEF Starting
<1>8. tx.tick # 0 => tx.tick > 0
  BY <1>n, SMT
<1> QED
  BY <1>2, <1>6, <1>7, <1>8

(* The receiver's sum stays that of what the transmitter has told. *)
LEMMA SumsStep ==
  ASSUME Ports, Follows, OnWire, Sums, Moves
  PROVE  Sums'
<1> DEFINE N == bit_count_m1  L == lastCell  c == txCell  k == taken  k1 == taken'  c1 == txCell'
<1>n. /\ L \in {N + 1, N + 2} /\ N \in 4 .. 7 /\ period \in Nat \ {0}
      /\ tx.tick \in 0 .. period /\ stop_count \in 1 .. 2
      /\ txOn => txCell \in 0 .. L + stop_count
  BY Numbers, Zenon
<1>p. N' = N /\ L' = L /\ \A x : parity_bit(x)' = parity_bit(x)
  BY FormatsStay, Zenon DEF Moves
<1>m. /\ setup' = setup /\ Noise /\ Wire
      /\ TxStarts \/ TxRests \/ TxTicks \/ TxNexts
      /\ RxRests \/ RxEnters \/ RxTicks \/ RxNexts \/ RxEnds
  BY Zenon DEF Moves
<1>x. /\ Level \in 0 .. 1 /\ rx.parity \in 0 .. 1 /\ rx_bit_d' = Level
  <2>1. tx.bit \in 0 .. 1 /\ rx.parity \in 0 .. 1
    BY Zenon DEF Ports, TxPort, RxPort
  <2>2. Level \in 0 .. 1
    BY <2>1, SMT DEF Level
  <2> QED
    BY <1>m, <2>1, <2>2, OnWireStep, Zenon
<1>v. PICK b : b = Level
  OBVIOUS
<1>w. Right(b)' => Right(rx_bit_d)'
  <2>1. rx_bit_d' = b
    BY <1>v, <1>x
  <2> QED
    BY <2>1 DEF Right
<1>k. /\ rxOn => k \in Nat /\ rxCell \in Nat /\ rxCell <= k
      /\ sampled => k = rxCell + 1
      /\ ~sampled => k = rxCell
      /\ RxTicks /\ rx.tick # middle => k1 = k
      /\ RxTicks /\ rx.tick = middle => ~sampled /\ k1 = rxCell + 1
      /\ RxNexts => sampled /\ k1 = k
      /\ RxEnters => k1 = 0
  BY <1>m, TakenMoves, Zenon
<1>t. /\ TxTicks => /\ c1 = c /\ tx'.tick # 0 /\ txOn /\ tx'.tick = tx.tick + 1
                    /\ tx'.bit = tx.bit /\ tx'.parity = tx.parity
      /\ TxNexts => c1 = c + 1 /\ tx'.tick = 0 /\ txOn /\ tx.tick = period
  <2>1. /\ TxTicks => /\ c1 = c /\ tx'.tick = tx.tick + 1 /\ txOn
                      /\ tx'.bit = tx.bit /\ tx'.parity = tx.parity
        /\ TxNexts => c1 = c + 1 /\ tx'.tick = 0 /\ txOn /\ tx.tick = period
    BY Zenon DEF TxTicks, TxNexts
  <2>2. tx.tick + 1 # 0
    BY <1>n, SMT
  <2> QED
    BY <2>1, <2>2
<1>u. /\ txOn /\ TxTicks => told' = told /\ toldBefore' = toldBefore
      /\ txOn /\ c <= N + 1 /\ TxNexts => toldBefore' = told
      /\ txOn /\ c <= N + 1 => Xor(toldBefore, Level) = told
  BY <1>m, ToldMoves, Zenon
<1>s. rxOn /\ k <= L =>
        /\ c + 1 = k => rx.parity = told
        /\ c = k => rx.parity = toldBefore
        /\ c = k + 1 /\ tx.tick = 0 /\ k <= N + 1 => Xor(rx.parity, rx_bit_d) = toldBefore
        /\ c = k + 1 /\ tx.tick = 0 /\ k > N + 1 => Right(rx_bit_d)
  BY Zenon DEF Sums, Ahead, Even, Late
<1>1. txOn' /\ txCell' = N + 2 /\ txCell' <= L => tx'.bit = parity_bit(tx'.parity)
  <2> SUFFICES ASSUME txOn', txCell' = N + 2, txCell' <= L
               PROVE  tx'.bit = parity_bit(tx'.parity)
    OBVIOUS
  <2>1. CASE TxStarts
    <3>1. txCell' = 0
      BY <2>1, Zenon DEF TxStarts
    <3> QED
      BY <1>n, <3>1, SMT
  <2>2. CASE TxRests
    BY <2>2, Zenon DEF TxRests
  <2>3. CASE TxTicks
    <3>1. tx'.bit = tx.bit /\ tx'.parity = tx.parity /\ txCell' = txCell /\ txOn
      BY <2>3, Zenon DEF TxTicks
    <3>2. tx.bit = parity_bit(tx.parity)
      BY <3>1, Zenon DEF Sums
    <3> QED
      BY <3>1, <3>2
  <2>4. CASE TxNexts
    <3>1. txOn /\ txCell' = txCell + 1
      BY <2>4, Zenon DEF TxNexts
    <3>2. txCell > N /\ txCell < L
      BY <1>n, <3>1, SMT
    <3>3. tx'.bit = parity_bit(tx.parity) /\ tx'.parity = tx.parity
      BY <2>4, <3>2, Zenon DEF TxNexts
    <3> QED
      BY <3>3
  <2> QED
    BY <1>m, <2>1, <2>2, <2>3, <2>4
<1>2. ASSUME rxOn', k1 <= L
      PROVE  /\ c1 + 1 = k1 => rx'.parity = told'
             /\ c1 = k1 => rx'.parity = toldBefore'
             /\ c1 = k1 + 1 /\ tx'.tick = 0 /\ k1 <= N + 1
                  => Xor(rx'.parity, rx_bit_d') = toldBefore'
             /\ c1 = k1 + 1 /\ tx'.tick = 0 /\ k1 > N + 1 => Right(rx_bit_d)'
  \* It enters a frame.
  <2>1. CASE RxEnters
    <3>1. Starting /\ tx.tick > 0 /\ txOn /\ txCell = 0
      BY <2>1, EntersWhen, Zenon
    <3>2. tx.bit = 0 /\ noise = "none" /\ tx.parity = 0
      BY <3>1, Zenon DEF OnWire
    <3>3. Level = 0 /\ hit({"now", "past"}) = 0 /\ hit({"past"}) = 0
      <4>1. ~("none" = "now") /\ ~("none" = "past")
        OBVIOUS
      <4> QED
        BY <3>2, <4>1, Zenon DEF Level, hit
    <3>4. Xor(0, 0) = 0
      BY SMT DEF Xor
    <3>5. 0 <= N + 1
      BY <1>n, SMT
    <3>6. toldBefore = 0 /\ told = 0
      BY <3>1, <3>2, <3>3, <3>4, <3>5 DEF told, toldBefore
    <3>7. k1 = 0 /\ rx'.parity = 0
      BY <1>k, <2>1, Zenon DEF RxEnters
    <3>8. (TxTicks /\ c1 = 0 /\ toldBefore' = 0) \/ (TxNexts /\ c1 = 1 /\ toldBefore' = 0)
      <4>1. ~TxStarts /\ ~TxRests
        <5>1. txCell # L + stop_count
          BY <1>n, <3>1, SMT
        <5> QED
          BY <3>1, <5>1, Zenon DEF TxStarts, TxRests, txOver
      <4>2. 0 + 1 = 1
        OBVIOUS
      <4> QED
        BY <1>m, <1>t, <1>u, <3>1, <3>5, <3>6, <4>1, <4>2
    <3>9. ~(0 > N + 1) /\ ~(0 + 1 = 0) /\ ~(1 + 1 = 0) /\ ~(0 = 0 + 1)
      BY <1>n, SMT
    <3> QED
      BY <1>x, <3>3, <3>4, <3>7, <3>8, <3>9
  \* It is in one.
  <2>2. ASSUME rxOn, rxCell <= L, ~(rxCell = L /\ rx.tick = rxPeriod)
        PROVE  Linked /\ (TxTicks \/ TxNexts) /\ txOn /\ c \in Nat
    BY <1>m, <2>2, InFrame, Zenon
  <2>3. ASSUME rxOn, k1 = k, rx'.parity = rx.parity, TxTicks \/ TxNexts, Linked, c \in Nat
        PROVE  /\ c1 + 1 = k1 => rx'.parity = told'
               /\ c1 = k1 => rx'.parity = toldBefore'
               /\ c1 = k1 + 1 /\ tx'.tick = 0 /\ k1 <= N + 1
                    => Xor(rx'.parity, rx_bit_d') = toldBefore'
               /\ c1 = k1 + 1 /\ tx'.tick = 0 /\ k1 > N + 1 => Right(rx_bit_d)'
    <3>0. k <= L /\ k \in Nat
      BY <1>2, <1>k, <2>3
    <3>1. CASE TxTicks
      BY <1>s, <1>t, <1>u, <2>3, <3>0, <3>1
    <3>2. CASE TxNexts
      <4>1. c + 1 = k \/ c = k \/ c = k + 1
        BY <2>3, <3>0, Phases, Zenon DEF Ahead, Even, Late
      <4>2. c1 = c + 1 /\ txOn
        BY <1>t, <3>2
      <4>3. c1 + 1 # k
        <5> HIDE DEF c, k, c1
        <5> QED
          BY <2>3, <3>0, <4>1, <4>2, SMT
      <4>4. c1 = k => rx.parity = told /\ toldBefore' = told
        <5>1. c1 = k => c + 1 = k /\ c <= N + 1
          <6>1. c + 1 = k => c <= N + 1
            <7> HIDE DEF c, k, L, N
            <7> QED
              BY <1>n, <2>3, <3>0, SMT
          <6> QED
            BY <4>2, <6>1
        <5> QED
          BY <1>s, <1>u, <2>3, <3>0, <3>2, <4>2, <5>1
      <4>5. c1 = k + 1 => c = k /\ rx.parity = toldBefore
        <5>1. c1 = k + 1 => c = k
          <6> HIDE DEF c, k, c1
          <6> QED
            BY <2>3, <3>0, <4>2, SMT
        <5> QED
          BY <1>s, <2>3, <3>0, <5>1
      <4>6. c1 = k + 1 /\ k <= N + 1 => Xor(rx.parity, Level) = toldBefore'
        BY <1>u, <3>2, <4>2, <4>5
      <4>7. c1 = k + 1 /\ k > N + 1 => Right(rx_bit_d)'
        <5> SUFFICES ASSUME c1 = k + 1, k > N + 1 PROVE Right(rx_bit_d)'
          OBVIOUS
        <5>1. c = N + 2 /\ c <= L /\ c >= N + 2
          <6>1. c = k
            BY <4>5
          <6> HIDE DEF c, k, L, N
          <6> QED
            BY <1>n, <3>0, <6>1, SMT
        <5>2. Right(Level)
          BY <4>2, <4>5, <5>1, RightLevel, Zenon
        <5>3. \A x : Right(x) => Right(x)'
          BY <1>m, <2>3, <3>2, <4>2, <5>1, NoiseKept, Zenon
        <5>4. Right(b)
          BY <1>v, <5>2
        <5> QED
          BY <1>w, <5>3, <5>4, Zenon
      <4> QED
        BY <1>x, <2>3, <4>3, <4>4, <4>5, <4>6, <4>7
    <3> QED
      BY <2>3, <3>1, <3>2
  <2>4. CASE RxTicks
    <3>1. rxOn /\ rx.tick < rxPeriod /\ rxCell' = rxCell
      BY <2>4, Zenon DEF RxTicks
    <3>2. rxCell <= L /\ k <= L
      <4>1. k <= k1
        <5>1. CASE rx.tick = middle
          <6>1. k = rxCell /\ k1 = rxCell + 1 /\ rxCell \in Nat
            BY <1>k, <2>4, <3>1, <5>1
          <6> HIDE DEF k, k1
          <6> QED
            BY <6>1, SMT
        <5>2. CASE rx.tick # middle
          <6>1. k = k1 /\ k \in Nat
            BY <1>k, <2>4, <3>1, <5>2
          <6> HIDE DEF k, k1
          <6> QED
            BY <6>1, SMT
        <5> QED
          BY <5>1, <5>2
      <4>2. k \in Nat /\ rxCell \in Nat /\ rxCell <= k /\ k1 \in Nat
        <5>1. k1 \in {k, rxCell + 1} /\ k \in Nat /\ rxCell \in Nat /\ rxCell <= k
          BY <1>k, <2>4, <3>1
        <5> HIDE DEF k, k1
        <5> QED
          BY <5>1, SMT
      <4> HIDE DEF k, k1, L
      <4> QED
        BY <1>2, <1>n, <4>1, <4>2, SMT
    <3>3. Linked /\ (TxTicks \/ TxNexts) /\ txOn /\ c \in Nat
      <4>1. rx.tick # rxPeriod
        BY <3>1, Numbers, SMT
      <4> QED
        BY <2>2, <3>1, <3>2, <4>1
    <3>4. CASE rx.tick # middle
      <4>1. k1 = k /\ rx'.parity = rx.parity
        BY <1>k, <2>4, <3>4, Zenon DEF RxTicks
      <4> QED
        BY <2>3, <3>1, <3>3, <4>1
    <3>5. CASE rx.tick = middle
      <4>1. k = rxCell /\ k1 = k + 1 /\ k \in Nat /\ rxOn
        BY <1>k, <2>4, <3>1, <3>5
      <4>2. k <= N + 1 /\ k <= N + 2
        <5> HIDE DEF k, k1, L, N
        <5> QED
          BY <1>2, <1>n, <4>1, SMT
      <4>3. rx'.parity = Xor(rx.parity, rx_bit_d)
        <5>1. rx.state = "Start"
          BY <4>1, <4>2, RxCells, Zenon DEF Ports
        <5> QED
          BY <2>4, <3>5, <5>1, Zenon DEF RxTicks
      <4>4. (c = k /\ tx.tick > 0 /\ rx_bit_d = Level) \/ (c = k + 1 /\ tx.tick = 0)
        BY <3>2, <3>3, <3>5, SampleIs, Zenon DEF Even, Late
      <4>5. CASE c = k /\ rx_bit_d = Level
        <5>1. rx'.parity = told
          <6>1. rx.parity = toldBefore
            BY <1>s, <3>2, <4>1, <4>5
          <6>2. c <= N + 1
            BY <4>2, <4>5
          <6> QED
            BY <1>u, <3>3, <4>3, <4>5, <6>1, <6>2
        <5>2. CASE TxTicks
          <6>1. c1 = k /\ told' = told
            BY <1>t, <1>u, <3>3, <4>5, <5>2
          <6>2. c1 # k1 /\ c1 # k1 + 1
            <7> HIDE DEF k, k1, c1
            <7> QED
              BY <4>1, <6>1, SMT
          <6> QED
            BY <5>1, <6>1, <6>2
        <5>3. CASE TxNexts
          <6>1. c1 = k1 /\ toldBefore' = told
            <7>1. c <= N + 1
              BY <4>2, <4>5
            <7> QED
              BY <1>t, <1>u, <3>3, <4>1, <4>5, <5>3, <7>1
          <6>2. c1 + 1 # k1 /\ c1 # k1 + 1
            <7> HIDE DEF k, k1, c1
            <7> QED
              BY <4>1, <6>1, SMT
          <6> QED
            BY <5>1, <6>1, <6>2
        <5> QED
          BY <3>3, <5>2, <5>3
      <4>6. CASE c = k + 1 /\ tx.tick = 0
        <5>1. TxTicks
          <6>1. tx.tick # period
            BY <1>n, <4>6, SMT
          <6> QED
            BY <3>3, <6>1, Zenon DEF TxNexts
        <5>2. rx'.parity = toldBefore /\ toldBefore' = toldBefore /\ c1 = k1
          BY <1>s, <1>t, <1>u, <3>2, <3>3, <4>1, <4>2, <4>3, <4>6, <5>1
        <5>3. c1 + 1 # k1 /\ c1 # k1 + 1
          <6> HIDE DEF k, k1, c1
          <6> QED
            BY <4>1, <5>2, SMT
        <5> QED
          BY <5>2, <5>3
      <4> QED
        BY <4>4, <4>5, <4>6
    <3> QED
      BY <3>4, <3>5
  <2>5. CASE RxNexts
    <3>1. /\ rxOn /\ rx'.parity = rx.parity /\ k1 = k /\ k = rxCell + 1 /\ rxCell \in Nat
      BY <1>k, <2>5, Zenon DEF RxNexts
    <3>2. rxCell <= L /\ rxCell # L
      <4> HIDE DEF k, k1, L
      <4> QED
        BY <1>2, <1>n, <3>1, SMT
    <3> QED
      BY <2>2, <2>3, <3>1, <3>2
  <2>6. ~RxRests /\ ~RxEnds
    <3>1. RxRests => ~rxOn'
      BY Zenon DEF RxRests, rxOn
    <3> QED
      BY <1>2, <3>1, Zenon DEF RxEnds
  <2> QED
    BY <1>m, <2>1, <2>4, <2>5, <2>6
<1> QED
  BY <1>p, <1>1, <1>2, Zenon DEF Sums, Ahead, Even, Late

(* The parity bit judges the sum, and the stop bit is read as one. *)
LEMMA JudgedStep ==
  ASSUME Ports, Follows, OnWire, Sums, Judged, Moves, RxPort'
  PROVE  Judged'
<1> DEFINE N == bit_count_m1  L == lastCell
<1>n. /\ L \in {N + 1, N + 2} /\ N \in 4 .. 7
      /\ tx.tick \in 0 .. period /\ stop_count \in 1 .. 2
      /\ txOn => txCell \in 0 .. L + stop_count
      /\ rx.tick \in 0 .. rxPeriod
  BY Numbers, Zenon
<1>m. /\ setup' = setup /\ Noise /\ Wire
      /\ TxStarts \/ TxRests \/ TxTicks \/ TxNexts
      /\ RxRests \/ RxEnters \/ RxTicks \/ RxNexts \/ RxEnds
  BY Zenon DEF Moves
<1>c. /\ rx.state = "Start" <=> rxOn /\ rxCell <= N + 1
      /\ rx.state = "Parity" <=> rxOn /\ rxCell = N + 2 /\ rxCell <= L
      /\ rx.state = "Stop" <=> rxOn /\ rxCell = L + 1
  BY RxCells, Zenon DEF Ports
<1>k. /\ sampled => taken = rxCell + 1
      /\ ~sampled => taken = rxCell
      /\ RxTicks /\ rx.tick # middle => (sampled' <=> sampled)
      /\ RxTicks /\ rx.tick = middle => ~sampled
      /\ RxNexts => ~sampled'
  BY <1>m, TakenMoves, Zenon
<1>1. CASE RxRests
  <2>1. rx'.state = "Idle"
    BY <1>1, Zenon DEF RxRests, rxOn
  <2> QED
    BY <2>1, StateNames, Zenon DEF Judged
<1>2. CASE RxEnters
  BY <1>2, StateNames, Zenon DEF RxEnters, Judged
<1>3. CASE RxEnds
  <2>1. rx'.state = "Idle"
    BY <1>3, Zenon DEF RxEnds, rxOn
  <2> QED
    BY <2>1, StateNames, Zenon DEF Judged
<1>4. CASE RxNexts
  BY <1>4, <1>k, Zenon DEF Judged
<1>5. CASE RxTicks
  <2>1. /\ rx'.state = rx.state /\ rxOn /\ rx.tick < rxPeriod
        /\ rx_bit_samp' = IF rx.tick = middle THEN rx_bit_d ELSE rx_bit_samp
    BY <1>5, Zenon DEF RxTicks
  <2>2. ASSUME rx.state = "Stop", sampled'
        PROVE  rx_bit_samp' = 1
    <3>1. CASE rx.tick # middle
      BY <1>5, <1>k, <2>1, <2>2, <3>1, Zenon DEF Judged
    <3>2. CASE rx.tick = middle
      <4>1. rxCell = L + 1 /\ rx.tick >= middle
        <5>1. rx.tick >= middle
          BY <1>n, <3>2, SMT
        <5> QED
          BY <1>c, <2>2, <5>1
      <4>2. CASE Linked
        <5>1. txOn /\ (txCell > L + 1 \/ (txCell = L + 1 /\ tx.tick > 0))
          BY <4>1, <4>2, Phases, Zenon DEF Linked
        <5>2. txCell = L + 1 => txCell > L
          BY <1>n, SMT
        <5> QED
          BY <2>1, <3>2, <5>1, <5>2, Zenon DEF OnWire, Level
      <4>3. CASE Starting
        <5>1. txCell = 0 /\ tx.tick = 0
          <6>1. txCell = 0 /\ rx.tick + 1 >= rxPeriod + tx.tick
            BY <2>1, <4>3, Zenon DEF Starting
          <6>2. rxPeriod \in Nat /\ period \in Nat
            BY Numbers, SMT
          <6> QED
            BY <1>n, <2>1, <6>1, <6>2, SMT
        <5> QED
          BY <2>1, <3>2, <5>1, Zenon DEF OnWire
      <4>4. CASE Resting
        BY <2>1, <3>2, <4>4, Zenon DEF OnWire, Resting
      <4> QED
        BY <2>1, <4>2, <4>3, <4>4, Zenon DEF Follows, Ended
    <3> QED
      BY <3>1, <3>2
  <2>3. ASSUME rx.state = "Parity", sampled'
        PROVE  Right(rx_bit_samp)'
    <3>1. rxCell = N + 2 /\ rxCell <= L /\ L = N + 2
      <4>1. rxCell = N + 2 /\ rxCell <= L
        BY <1>c, <2>3
      <4> QED
        BY <1>n, <4>1, SMT
    <3>2. rx'.parity = rx.parity
      BY <1>5, <2>3, StateNames, Zenon DEF RxTicks
    <3>3. Linked /\ txOn /\ txCell \in Nat /\ (TxTicks \/ TxNexts)
      <4>1. rx.tick # rxPeriod
        BY <1>n, <2>1, SMT
      <4> QED
        BY <1>m, <2>1, <3>1, <4>1, InFrame, Zenon
    <3>4. PICK b : b = rx_bit_samp'
      OBVIOUS
    <3>5. Right(b)' => Right(rx_bit_samp)'
      BY <3>4 DEF Right
    <3> SUFFICES Right(b) /\ txCell >= N + 2
      BY <1>m, <3>2, <3>3, <3>5, NoiseKept, Zenon
    <3>6. CASE rx.tick # middle
      <4>1. sampled /\ b = rx_bit_samp
        BY <1>5, <1>k, <2>1, <2>3, <3>4, <3>6, Zenon
      <4>2. Right(b)
        BY <2>3, <4>1 DEF Judged
      <4>3. txCell >= N + 2
        BY <3>1, <3>3, <4>1, Phases, Zenon
      <4> QED
        BY <4>2, <4>3
    <3>7. CASE rx.tick = middle
      <4>1. taken = N + 2 /\ taken <= L /\ b = rx_bit_d
        BY <1>5, <1>k, <2>1, <3>1, <3>4, <3>7
      <4>2. (Even /\ rx_bit_d = Level) \/ Late
        BY <3>1, <3>3, <3>7, SampleIs, Zenon
      <4>3. CASE Even /\ rx_bit_d = Level
        <5>1. txCell = N + 2 /\ txCell <= L
          BY <4>1, <4>3 DEF Even
        <5>2. rx.parity = toldBefore
          BY <2>1, <4>1, <4>3, Zenon DEF Sums
        <5>3. Right(Level)
          BY <3>3, <5>1, <5>2, RightLevel, Zenon
        <5>4. txCell >= N + 2
          BY <1>n, <5>1, SMT
        <5> QED
          BY <4>1, <4>3, <5>3, <5>4
      <4>4. CASE Late
        <5>1. N + 2 > N + 1 /\ txCell >= N + 2
          <6>1. txCell = (N + 2) + 1
            BY <4>1, <4>4 DEF Late
          <6> QED
            BY <1>n, <6>1, SMT
        <5>2. Right(rx_bit_d)
          BY <2>1, <4>1, <4>4, <5>1, Zenon DEF Sums
        <5> QED
          BY <4>1, <5>1, <5>2
      <4> QED
        BY <4>2, <4>3, <4>4
    <3> QED
      BY <3>6, <3>7
  <2> QED
    BY <2>1, <2>2, <2>3, Zenon DEF Judged
<1> QED
  BY <1>m, <1>1, <1>2, <1>3, <1>4, <1>5

(* The cells of the receiver after a cycle. *)
LEMMA RxCellsNext ==
  ASSUME RxPort', Formats, setup' = setup
  PROVE  rx'.state = "Start" <=> rxOn' /\ rxCell' <= bit_count_m1 + 1
<1> DEFINE N == bit_count_m1  L == lastCell
<1>p. N' = N /\ L' = L /\ parity_type' = parity_type
  BY FormatsStay, Zenon
<1>1. /\ rx'.state \in States
      /\ rx'.state = "Start" => rx'.bit_pos <= N + 1
      /\ rx'.state = "Parity" => parity_type # "none"
  BY <1>p, Zenon DEF RxPort, States
<1>2. /\ rx'.state = "Start" => rxCell' = rx'.bit_pos
      /\ rx'.state = "Parity" => rxCell' = N + 2
      /\ rx'.state = "Stop" => rxCell' = L + 1
  BY <1>p, StateNames, Zenon DEF rxCell
<1>3. rxOn' <=> rx'.state # "Idle"
  BY Zenon DEF rxOn
<1>4. ~(N + 2 <= N + 1) /\ ~(L + 1 <= N + 1)
  <2>1. N \in 4 .. 7 /\ L \in {N + 1, N + 2}
    BY Zenon DEF Formats
  <2> HIDE DEF N, L
  <2> QED
    BY <2>1, SMT
<1> QED
  BY <1>1, <1>2, <1>3, <1>4, StateNames, Zenon DEF States

(* No second word is on the line before the first has arrived. *)
LEMMA FlightMoves ==
  ASSUME Ports, Follows, OnWire, Moves, RxPort'
  PROVE  /\ rxCompletes => InFlight
         /\ TxStarts => InFlight' /\ (InFlight => rxCompletes)
         /\ ~TxStarts => (InFlight' <=> InFlight /\ ~rxCompletes)
         /\ txStarts <=> TxStarts
<1> DEFINE N == bit_count_m1  L == lastCell
<1>n. /\ period \in Nat \ {0} /\ rxPeriod \in Nat \ {0}
      /\ L \in {N + 1, N + 2} /\ N \in 4 .. 7
      /\ tx.tick \in 0 .. period /\ rx.tick \in 0 .. rxPeriod /\ stop_count \in 1 .. 2
      /\ txOn => txCell \in 0 .. L + stop_count
      /\ rxOn => rxCell \in 0 .. L + 1
  BY Numbers, Zenon
<1>m. /\ TxStarts \/ TxRests \/ TxTicks \/ TxNexts
      /\ RxRests \/ RxEnters \/ RxTicks \/ RxNexts \/ RxEnds
  BY Zenon DEF Moves
<1>c. /\ rx.state = "Start" <=> rxOn /\ rxCell <= N + 1
      /\ rxCompletes <=> rxOn /\ rxCell = N + 1 /\ rx.tick = rxPeriod
      /\ rxCompletes => rx.state = "Start"
  BY RxCells, Zenon DEF Ports, rxCompletes
<1>d. rx'.state = "Start" <=> rxOn' /\ rxCell' <= N + 1
  <2>1. setup' = setup /\ Formats
    BY Zenon DEF Moves, Ports
  <2> QED
    BY <2>1, RxCellsNext, Zenon
<1>f. /\ InFlight <=> rx.state = "Start" \/ (txOn /\ txCell = 0 /\ tx.tick < 2)
      /\ InFlight' <=> rx'.state = "Start" \/ (txOn' /\ txCell' = 0 /\ tx'.tick < 2)
  BY Zenon DEF InFlight
<1>1. txStarts <=> TxStarts
  BY <1>m, Zenon DEF TxStarts, TxRests, TxTicks, TxNexts
<1>2. TxStarts => InFlight'
  <2>1. 0 < 2
    OBVIOUS
  <2> QED
    BY <1>f, <2>1, Zenon DEF TxStarts
\* In the first two cycles of a start bit, the receiver is not in a frame.
<1>3. txOn /\ txCell = 0 /\ tx.tick < 2 => rx.state # "Start"
  <2> SUFFICES ASSUME txOn, txCell = 0, tx.tick < 2, rx.state = "Start" PROVE FALSE
    OBVIOUS
  <2>1. rxOn /\ rxCell <= N + 1 /\ rxCell <= L /\ rxCell \in Nat
    <3>1. rxOn /\ rxCell <= N + 1
      BY <1>c
    <3> QED
      BY <1>n, <3>1, SMT
  <2>2. Linked
    BY <2>1, InFrame, Zenon
  <2> DEFINE A == 0 * (period + 1)  B == rxCell * (rxPeriod + 1)
  <2>3. A + tx.tick = (B + rx.tick) + 2
    BY <2>2, Zenon DEF Linked, txTime, rxTime
  <2>4. A = 0 /\ B \in Nat
    <3> DEFINE k == period + 1  kr == rxPeriod + 1
    <3>1. k \in Nat /\ kr \in Nat
      BY <1>n, SMT
    <3>2. rxCell * kr \in Nat
      BY <2>1, <3>1, Products
    <3>3. 0 * k = 0
      <4> HIDE DEF k
      <4> QED
        BY <3>1, SMT
    <3> QED
      BY <3>2, <3>3
  <2> HIDE DEF A, B
  <2> QED
    BY <1>n, <2>3, <2>4, SMT
<1>4. ASSUME TxStarts, InFlight
      PROVE  rxCompletes
  <2>1. ~(txOn /\ txCell = 0)
    <3>1. txOn => txCell = L + stop_count
      BY <1>4, Zenon DEF TxStarts, txOver
    <3> QED
      BY <1>n, <3>1, SMT
  <2>2. rx.state = "Start" /\ rxOn /\ rxCell <= N + 1
    BY <1>4, <1>c, <1>f, <2>1
  <2>3. rxCell <= L
    BY <1>n, <2>2, SMT
  <2>4. rxCell = L /\ rx.tick = rxPeriod
    BY <1>4, <2>2, <2>3, InFrame, Zenon
  <2>5. rxCell = N + 1
    BY <1>n, <2>2, <2>4, SMT
  <2> QED
    BY <1>c, <2>2, <2>4, <2>5
<1>5. ASSUME ~TxStarts, InFlight'
      PROVE  InFlight /\ ~rxCompletes
  <2>1. CASE txOn' /\ txCell' = 0 /\ tx'.tick < 2
    <3>1. ~TxRests /\ ~TxNexts
      <4>1. TxNexts => txOn /\ txCell' = txCell + 1
        BY Zenon DEF TxNexts
      <4>2. TxNexts => txCell' # 0
        BY <1>n, <4>1, SMT
      <4> QED
        BY <2>1, <4>2, Zenon DEF TxRests
    <3>2. txOn /\ txCell = 0 /\ tx'.tick = tx.tick + 1
      BY <1>m, <1>5, <2>1, <3>1, Zenon DEF TxTicks
    <3>3. tx.tick < 2
      BY <1>n, <2>1, <3>2, SMT
    <3> QED
      BY <1>3, <1>c, <1>f, <3>2, <3>3
  <2>2. CASE rx'.state = "Start"
    <3>1. CASE RxEnters
      <4>1. Starting /\ txOn /\ txCell = 0
        BY <3>1, EntersWhen, Zenon
      <4>2. tx.tick < 2
        BY <4>1, Zenon DEF Starting
      <4> QED
        BY <1>3, <1>c, <1>f, <4>1, <4>2
    <3>2. CASE RxTicks
      <4>1. rx.state = "Start" /\ rx.tick < rxPeriod
        BY <2>2, <3>2, Zenon DEF RxTicks
      <4>2. rx.tick # rxPeriod
        BY <1>n, <4>1, SMT
      <4> QED
        BY <1>c, <1>f, <4>1, <4>2
    <3>3. CASE RxNexts
      <4>1. rxOn /\ rxCell' = rxCell + 1 /\ rxCell' <= N + 1
        BY <1>d, <2>2, <3>3, Zenon DEF RxNexts
      <4>2. rxCell <= N + 1 /\ rxCell # N + 1
        BY <1>n, <4>1, SMT
      <4> QED
        BY <1>c, <1>f, <4>1, <4>2
    <3>4. ~RxRests /\ ~RxEnds
      <4>1. RxRests => ~(rx'.state = "Start")
        BY StateNames, Zenon DEF RxRests, rxOn
      <4> QED
        BY <1>d, <2>2, <4>1, Zenon DEF RxEnds
    <3> QED
      BY <1>m, <3>1, <3>2, <3>3, <3>4
  <2> QED
    BY <1>5, <1>f, <2>1, <2>2
<1>6. ASSUME ~TxStarts, InFlight, ~rxCompletes
      PROVE  InFlight'
  <2>1. CASE rx.state = "Start"
    <3>1. rxOn /\ rxCell <= N + 1 /\ rx.state # "Stop"
      BY <1>c, <2>1, StateNames
    <3>2. RxTicks \/ RxNexts
      BY <1>m, <3>1, Zenon DEF RxRests, RxEnters, RxEnds
    <3>3. CASE RxTicks
      BY <1>f, <2>1, <3>3, Zenon DEF RxTicks
    <3>4. CASE RxNexts
      <4>1. rxOn' /\ rxCell' = rxCell + 1 /\ rx.tick = rxPeriod
        BY <3>4, Zenon DEF RxNexts
      <4>2. rxCell # N + 1
        BY <1>6, <1>c, <3>1, <4>1
      <4>3. rxCell' <= N + 1
        BY <1>n, <3>1, <4>1, <4>2, SMT
      <4> QED
        BY <1>d, <1>f, <4>1, <4>3
    <3> QED
      BY <3>2, <3>3, <3>4
  <2>2. CASE txOn /\ txCell = 0 /\ tx.tick < 2
    <3>1. ~TxRests
      <4>1. txCell # L + stop_count
        BY <1>n, <2>2, SMT
      <4> QED
        BY <2>2, <4>1, Zenon DEF TxRests, txOver
    <3>2. CASE tx.tick = 0
      <4>1. tx.tick # period /\ 0 + 1 < 2
        BY <1>n, <3>2, SMT
      <4>2. TxTicks
        BY <1>m, <1>6, <3>1, <4>1, Zenon DEF TxNexts
      <4> QED
        BY <1>f, <2>2, <3>2, <4>1, <4>2, Zenon DEF TxTicks
    <3>3. CASE tx.tick # 0
      <4>1. tx.tick > 0 /\ tx.tick = 1
        BY <1>n, <2>2, <3>3, SMT
      <4>2. rx_bit_d = 0
        <5>1. tx.bit = 0 /\ noise = "none" => Level = 0
          BY Zenon DEF Level
        <5> QED
          BY <2>2, <4>1, <5>1, Zenon DEF OnWire
      <4>3. rxOn => rxCell = L + 1 /\ rx.tick = rxPeriod
        <5>1. ~Linked
          <6>1. ASSUME Linked PROVE FALSE
            <7> DEFINE A == 0 * (period + 1)  B == rxCell * (rxPeriod + 1)
            <7>1. A + tx.tick = (B + rx.tick) + 2 /\ rxOn
              BY <2>2, <6>1, Zenon DEF Linked, txTime, rxTime
            <7>2. A = 0 /\ B \in Nat
              <8> DEFINE k == period + 1  kr == rxPeriod + 1
              <8>1. k \in Nat /\ kr \in Nat /\ rxCell \in Nat
                BY <1>n, <7>1, SMT
              <8>2. rxCell * kr \in Nat
                BY <8>1, Products
              <8>3. 0 * k = 0
                <9> HIDE DEF k
                <9> QED
                  BY <8>1, SMT
              <8> QED
                BY <8>2, <8>3
            <7> HIDE DEF A, B
            <7> QED
              BY <1>n, <4>1, <7>1, <7>2, SMT
          <6> QED
            BY <6>1
        <5>2. ~Resting
          BY <2>2, Zenon DEF Resting
        <5>3. Starting => (rxOn => rxCell = L + 1 /\ rx.tick + 1 >= rxPeriod + tx.tick)
          BY Zenon DEF Starting
        <5>4. rx.tick + 1 >= rxPeriod + tx.tick => rx.tick = rxPeriod
          BY <1>n, <4>1, SMT
        <5> QED
          BY <5>1, <5>2, <5>3, <5>4, Zenon DEF Follows, Ended
      <4>4. ~RxRests /\ ~RxEnds
        BY <4>2, SMT DEF RxRests, RxEnds
      <4>5. ~RxTicks /\ ~RxNexts
        <5>1. ~(rxPeriod < rxPeriod) /\ ~(L + 1 <= L)
          BY <1>n, SMT
        <5> QED
          BY <4>3, <5>1, Zenon DEF RxTicks, RxNexts
      <4>6. RxEnters
        BY <1>m, <4>4, <4>5
      <4> QED
        BY <1>f, <4>6, Zenon DEF RxEnters
    <3> QED
      BY <3>2, <3>3
  <2> QED
    BY <1>6, <1>f, <2>1, <2>2
<1>7. rxCompletes => InFlight
  BY <1>c, <1>f
<1> QED
  BY <1>1, <1>2, <1>4, <1>5, <1>6, <1>7, Zenon

(* Lists of one word. *)
LEMMA Lists ==
  /\ \A x : <<x>> # << >> /\ Tail(<<x>>) = << >> /\ <<x>>[1] = x
  /\ \A x : << >> \o <<x>> = <<x>> /\ <<x>> \o << >> = <<x>>
  /\ << >> \o << >> = << >>
BY SMT

(* A paced sender keeps to it: the word it writes is taken at once. *)
LEMMA UnhurriedStep ==
  ASSUME Ports, OnWire, Unhurried, Moves, NEW offer,
         tx_buf' = (IF txStarts THEN Tail(tx_buf) ELSE tx_buf) \o offer,
         offer # << >> => \E w : offer = <<w>>,
         offer # << >> /\ setup.paced => quiet
  PROVE  Unhurried'
<1>m. /\ setup' = setup
      /\ TxStarts \/ TxRests \/ TxTicks \/ TxNexts
      /\ RxRests \/ RxEnters \/ RxTicks \/ RxNexts \/ RxEnds
  BY Zenon DEF Moves
<1> SUFFICES ASSUME setup.paced, tx_buf' # << >>
             PROVE  Tail(tx_buf') = << >> /\ ~txOn' /\ ~rxOn'
  BY <1>m, Zenon DEF Unhurried
<1>1. tx_buf = << >>
  <2> SUFFICES ASSUME tx_buf # << >> PROVE FALSE
    OBVIOUS
  <2>1. Tail(tx_buf) = << >> /\ tx.state = "Idle"
    BY Zenon DEF Unhurried, txOn
  <2>2. txStarts
    BY <2>1, Zenon DEF txStarts, txFrameOver
  <2>3. offer = << >>
    BY Zenon DEF quiet
  <2>4. tx_buf' = << >> \o << >>
    BY <2>1, <2>2, <2>3
  <2> QED
    BY <2>4, Lists
<1>2. ~txStarts
  BY <1>1, Zenon DEF txStarts
<1>3. tx_buf' = << >> \o offer
  BY <1>1, <1>2
<1>4. offer # << >>
  BY <1>3, Lists
<1>5. ~txOn /\ ~rxOn
  BY <1>4, Zenon DEF quiet, txOn, rxOn
<1>6. Tail(tx_buf') = << >>
  <2>1. PICK w : offer = <<w>>
    BY <1>4, Zenon
  <2>2. tx_buf' = <<w>>
    BY <1>3, <2>1, Lists
  <2> QED
    BY <2>2, Lists
<1>7. ~txOn'
  BY <1>m, <1>2, <1>5, Zenon DEF TxStarts, TxRests, TxTicks, TxNexts
<1>8. ~rxOn'
  <2>1. rx_bit_d # 0
    <3>1. rx_bit_d = 1
      BY <1>5, Zenon DEF OnWire
    <3> QED
      BY <3>1, SMT
  <2>2. rx.state # "Stop"
    BY <1>5, StateNames, Zenon DEF rxOn
  <2>3. RxRests
    BY <1>m, <1>5, <2>1, <2>2, Zenon DEF RxEnters, RxTicks, RxNexts, RxEnds
  <2> QED
    BY <1>5, <2>3, Zenon DEF RxRests, rxOn
<1> QED
  BY <1>6, <1>7, <1>8

(* The word on the line is the one the transmitter has taken. *)
LEMMA HeldStep ==
  ASSUME Ports, Follows, OnWire, Moves, RxPort', Held, SentMoves
  PROVE  /\ Held'
         /\ TxStarts => theWord' = dataOf(Head(tx_buf)) /\ Head(tx_buf) \in 0 .. 255
         /\ ~TxStarts /\ InFlight' => theWord' = theWord
<1> DEFINE N == bit_count_m1
<1>p. N' = N
  BY FormatsStay, Zenon DEF Moves
<1>f. /\ rxCompletes => InFlight
      /\ TxStarts => InFlight' /\ (InFlight => rxCompletes)
      /\ ~TxStarts => (InFlight' <=> InFlight /\ ~rxCompletes)
      /\ txStarts <=> TxStarts
  BY FlightMoves, Zenon
<1>1. (IF rxCompletes /\ sent # << >> THEN Tail(sent) ELSE sent)
        = IF InFlight /\ ~rxCompletes THEN <<theWord>> ELSE << >>
  <2>1. CASE InFlight
    BY <2>1, Lists DEF Held
  <2>2. CASE ~InFlight
    BY <1>f, <2>2 DEF Held
  <2> QED
    BY <2>1, <2>2
<1>2. CASE TxStarts
  <2> DEFINE w == Head(tx_buf)
  <2>1. sent' = << >> \o <<dataOf(w)>>
    BY <1>f, <1>1, <1>2 DEF SentMoves
  <2>2. sent' = <<dataOf(w)>>
    BY <2>1, Lists
  <2>3. theWord' = dataOf(w)
    BY <2>2, Lists DEF theWord
  <2>4. w \in 0 .. 255
    BY <1>2, HeadIn, Zenon DEF TxStarts, Ports
  <2>5. dataOf(w) \in 0 .. 2^(N + 1) - 1
    <3>1. N + 1 \in 5 .. 8
      BY Numbers, SMT
    <3> QED
      BY <2>4, <3>1, Cut, Zenon DEF dataOf
  <2> HIDE DEF w
  <2>6. Held'
    BY <1>f, <1>p, <1>2, <2>2, <2>3, <2>5 DEF Held
  <2> QED
    BY <1>2, <2>3, <2>4, <2>6 DEF w
<1>3. CASE ~TxStarts
  <2>1. sent' = IF InFlight /\ ~rxCompletes THEN <<theWord>> ELSE << >>
    <3>1. sent' = (IF InFlight /\ ~rxCompletes THEN <<theWord>> ELSE << >>) \o << >>
      BY <1>f, <1>1, <1>3 DEF SentMoves
    <3> QED
      BY <3>1, Lists
  <2>2. InFlight' => sent' = <<theWord>> /\ theWord' = theWord /\ InFlight
    BY <1>f, <1>3, <2>1, Lists DEF theWord
  <2>3. ~InFlight' => sent' = << >>
    BY <1>f, <1>3, <2>1
  <2>4. Held'
    BY <1>p, <2>2, <2>3 DEF Held
  <2> QED
    BY <1>3, <2>2, <2>4
<1> QED
  BY <1>2, <1>3

(* The transmitter still has the bits it has not sent, and where it sends  *)
(* the next bit since a cycle, the wire still has the last.                *)
LEMMA SendingStep ==
  ASSUME Ports, Follows, OnWire, Moves, RxPort', Held, SentMoves, Sending
  PROVE  Sending'
<1> DEFINE N == bit_count_m1  n == N + 1  bitIn(v, c) == (v \div 2^(c - 1)) % 2
<1>n. /\ n \in 5 .. 8 /\ N \in Nat /\ lastCell \in {N + 1, N + 2} /\ tx.tick \in Nat
      /\ txOn => txCell \in 0 .. lastCell + stop_count
  <2>1. N \in 4 .. 7 /\ tx.tick \in 0 .. period
    BY Numbers, Zenon
  <2>2. n \in 5 .. 8 /\ N \in Nat
    BY <2>1, SMT
  <2>3. tx.tick \in Nat
    BY <2>1, SMT
  <2> QED
    BY <2>2, <2>3, Numbers, Zenon
<1>p. N' = N
  BY FormatsStay, Zenon DEF Moves
<1>m. /\ setup' = setup /\ Noise /\ Wire
      /\ TxStarts \/ TxRests \/ TxTicks \/ TxNexts
  BY Zenon DEF Moves
<1> DEFINE cell1 == txCell'  word1 == theWord'
<1>u. Sending <=> (InFlight /\ txOn =>
                     /\ txCell <= n =>
                          /\ tx.word % 2^(n - txCell) = theWord \div 2^txCell
                          /\ txCell >= 1 => tx.bit = bitIn(theWord, txCell)
                     /\ tx.tick = 0 /\ noise = "none" /\ txCell \in 2 .. N + 2
                          => rx_bit_d = bitIn(theWord, txCell - 1))
  BY DEF Sending, bitOf
<1>v. Sending' <=> (InFlight' /\ txOn' =>
                      /\ cell1 <= N' + 1 =>
                           /\ tx'.word % 2^((N' + 1) - cell1) = word1 \div 2^cell1
                           /\ cell1 >= 1 => tx'.bit = bitIn(word1, cell1)
                      /\ tx'.tick = 0 /\ noise' = "none" /\ cell1 \in 2 .. N' + 2
                           => rx_bit_d' = bitIn(word1, cell1 - 1))
  BY DEF Sending, bitOf
<1> SUFFICES ASSUME InFlight', txOn'
             PROVE  /\ cell1 <= n =>
                         /\ tx'.word % 2^(n - cell1) = word1 \div 2^cell1
                         /\ cell1 >= 1 => tx'.bit = bitIn(word1, cell1)
                    /\ tx'.tick = 0 /\ noise' = "none" /\ cell1 \in 2 .. N + 2
                         => rx_bit_d' = bitIn(word1, cell1 - 1)
  BY <1>p, <1>v
<1>1. CASE TxStarts
  <2>1. cell1 = 0 /\ tx'.word = Head(tx_buf)
    BY <1>1, Zenon DEF TxStarts
  <2>2. word1 = Head(tx_buf) % 2^n /\ Head(tx_buf) \in 0 .. 255
    BY <1>1, HeldStep, Zenon DEF dataOf
  <2>3. tx'.word % 2^(n - cell1) = word1 \div 2^cell1
    <3>1. Head(tx_buf) % 2^(n - 0) = (Head(tx_buf) % 2^n) \div 2^0
      BY <1>n, <2>2, Cut, Zenon
    <3> QED
      BY <2>1, <2>2, <3>1
  <2>4. ~(cell1 >= 1) /\ ~(cell1 \in 2 .. N + 2)
    <3>1. ~(0 >= 1) /\ ~(0 \in 2 .. N + 2)
      BY <1>n, SMT
    <3> QED
      BY <2>1, <3>1
  <2> QED
    BY <2>3, <2>4
<1>2. CASE TxRests
  BY <1>2, Zenon DEF TxRests
<1>3. CASE TxTicks \/ TxNexts
  <2>0. ~TxStarts
    BY <1>3, Zenon DEF TxTicks, TxNexts, TxStarts
  <2>1. word1 = theWord /\ InFlight /\ txOn
    <3>1. word1 = theWord
      BY <2>0, HeldStep, Zenon
    <3>2. InFlight
      BY <2>0, FlightMoves, Zenon
    <3> QED
      BY <1>3, <3>1, <3>2, Zenon DEF TxTicks, TxNexts
  <2>2. CASE TxTicks
    <3>1. cell1 = txCell /\ tx'.word = tx.word /\ tx'.bit = tx.bit /\ tx'.tick = tx.tick + 1
      BY <2>2, Zenon DEF TxTicks
    <3>2. tx'.tick # 0
      BY <1>n, <3>1, SMT
    <3>3. txCell <= n => /\ tx.word % 2^(n - txCell) = theWord \div 2^txCell
                         /\ txCell >= 1 => tx.bit = bitIn(theWord, txCell)
      BY <1>u, <2>1, Zenon
    <3> QED
      BY <2>1, <3>1, <3>2, <3>3
  <2>3. CASE TxNexts
    <3>1. cell1 = txCell + 1 /\ txCell \in Nat /\ cell1 - 1 = txCell
      <4>1. cell1 = txCell + 1
        BY <2>3, Zenon DEF TxNexts
      <4>2. txCell \in Nat
        BY <2>1, Numbers, SMT
      <4> QED
        BY <4>1, <4>2, SMT
    <3>2. ASSUME cell1 <= n
          PROVE  /\ tx'.word % 2^(n - cell1) = word1 \div 2^cell1
                 /\ cell1 >= 1 => tx'.bit = bitIn(word1, cell1)
      <4>2. txCell \in 0 .. n - 1 /\ txCell <= N /\ txCell <= n
        <5> DEFINE c == txCell  d == cell1
        <5>1. c \in Nat /\ d = c + 1 /\ d <= n
          BY <3>1, <3>2
        <5> HIDE DEF c, d
        <5>2. c \in 0 .. n - 1 /\ c <= N /\ c <= n
          BY <1>n, <5>1, SMT
        <5> QED
          BY <5>2 DEF c
      <4>3. tx'.bit = tx.word % 2 /\ tx'.word = tx.word \div 2
        BY <2>3, <4>2, Zenon DEF TxNexts
      <4>4. tx.word \in 0 .. 255
        BY Zenon DEF Ports, TxPort
      <4>5. theWord \in 0 .. 255
        <5>1. theWord \in 0 .. 2^n - 1
          BY <2>1, Zenon DEF Held
        <5> QED
          BY <1>n, <5>1, WordOut
      <4>6. tx.word % 2^(n - txCell) = theWord \div 2^txCell
        BY <1>u, <2>1, <4>2, Zenon
      <4>7. /\ (tx.word \div 2) % 2^(n - (txCell + 1)) = theWord \div 2^(txCell + 1)
            /\ tx.word % 2 = (theWord \div 2^txCell) % 2
        <5> DEFINE v == theWord  w == tx.word  c == txCell
        <5>1. v \in 0 .. 255 /\ w \in 0 .. 255 /\ c \in 0 .. n - 1 /\ w % 2^(n - c) = v \div 2^c
          BY <4>2, <4>4, <4>5, <4>6
        <5> HIDE DEF v, w, c, n
        <5>2. /\ (w \div 2) % 2^(n - (c + 1)) = v \div 2^(c + 1)
              /\ w % 2 = (v \div 2^c) % 2
          BY <1>n, <5>1, BitOut, Zenon
        <5> QED
          BY <5>2 DEF v, w, c, n
      <4> HIDE DEF n, cell1, word1
      <4> QED
        BY <2>1, <3>1, <4>3, <4>7
    <3>3. ASSUME noise' = "none", cell1 \in 2 .. N + 2
          PROVE  rx_bit_d' = bitIn(word1, cell1 - 1)
      <4>1. txCell <= n /\ txCell >= 1
        <5> DEFINE c == txCell  d == cell1
        <5>1. c \in Nat /\ d = c + 1 /\ d \in 2 .. N + 2
          BY <3>1, <3>3
        <5> HIDE DEF c, d
        <5>2. c <= n /\ c >= 1
          BY <1>n, <5>1, SMT
        <5> QED
          BY <5>2 DEF c
      <4>2. tx.bit = bitIn(theWord, txCell)
        BY <1>u, <2>1, <4>1, Zenon
      <4>3. noise # "now"
        <5>1. ~("none" = "now") /\ ~("none" = "past")
          OBVIOUS
        <5> QED
          BY <1>m, <2>3, <3>3, <5>1, NoiseKinds, Zenon
      <4>4. rx_bit_d' = tx.bit
        BY <1>m, <4>3, Zenon DEF Wire
      <4> HIDE DEF cell1, word1
      <4> QED
        BY <2>1, <3>1, <4>2, <4>4
    <3> QED
      BY <3>2, <3>3
  <2> QED
    BY <1>3, <2>2, <2>3
<1> QED
  BY <1>m, <1>1, <1>2, <1>3

(* The receiver's word is what has arrived, in a frame without noise. *)
LEMMA AssembledStep ==
  ASSUME Ports, Follows, OnWire, Moves, RxPort', Held, SentMoves, Sending, Assembled
  PROVE  Assembled'
<1> DEFINE N == bit_count_m1
<1>n. /\ N \in 4 .. 7 /\ lastCell \in {N + 1, N + 2} /\ rx.tick \in 0 .. rxPeriod
      /\ rxOn => rxCell \in 0 .. lastCell + 1
  BY Numbers, Zenon
<1>m. /\ setup' = setup /\ Noise /\ Wire
      /\ TxStarts \/ TxRests \/ TxTicks \/ TxNexts
      /\ RxRests \/ RxEnters \/ RxTicks \/ RxNexts \/ RxEnds
  BY Zenon DEF Moves
<1>c. /\ rx.state = "Start" <=> rxOn /\ rxCell <= N + 1
      /\ rx'.state = "Start" <=> rxOn' /\ rxCell' <= N + 1
  BY <1>m, RxCells, RxCellsNext, Zenon DEF Ports
<1>s. ~("none" = "now") /\ ~("none" = "past") /\ ~("now" = "past")
  OBVIOUS
<1> DEFINE word1 == theWord'  taken1 == taken'
           part(v, k) == IF k = 0 THEN 0 ELSE (v % 2^(k - 1)) * 2^(8 - (k - 1))
<1>u. /\ Assembled <=> (rx.state = "Start" /\ noise = "none" => rx.word = part(theWord, taken))
      /\ Assembled' <=> (rx'.state = "Start" /\ noise' = "none" => rx'.word = part(word1, taken1))
  BY DEF Assembled
<1> HIDE DEF part
<1> SUFFICES ASSUME rx'.state = "Start", noise' = "none"
             PROVE  rx'.word = part(word1, taken1)
  BY <1>u
<1>1. CASE RxRests
  BY <1>1, <1>c, Zenon DEF RxRests, rxOn
<1>2. CASE RxEnters
  <2>1. rx'.word = 0 /\ taken1 = 0
    BY <1>m, <1>2, TakenMoves, Zenon DEF RxEnters
  <2> QED
    BY <2>1 DEF part
<1>5. CASE RxEnds
  BY <1>c, <1>5, Zenon DEF RxEnds
<1>3. CASE RxTicks \/ RxNexts
  <2>1. rx.state = "Start" /\ rxOn /\ rxCell <= N + 1
    <3>1. CASE RxTicks
      <4>1. rx.state = "Start"
        BY <3>1, Zenon DEF RxTicks
      <4> QED
        BY <1>c, <4>1
    <3>2. CASE RxNexts
      <4>1. rxOn /\ rxCell' = rxCell + 1 /\ rxCell' <= N + 1
        BY <1>c, <3>2, Zenon DEF RxNexts
      <4>2. rxCell <= N + 1
        BY <1>n, <4>1, SMT
      <4> QED
        BY <1>c, <4>1, <4>2
    <3> QED
      BY <1>3, <3>1, <3>2
  <2>2. rxCell <= lastCell /\ ~(rxCell = lastCell /\ rx.tick = rxPeriod)
    <3>1. CASE RxTicks
      <4>1. rx.tick < rxPeriod
        BY <3>1, Zenon DEF RxTicks
      <4> QED
        BY <1>n, <2>1, <4>1, SMT
    <3>2. CASE RxNexts
      <4>1. rxCell' = rxCell + 1 /\ rxCell' <= N + 1
        BY <1>c, <3>2, Zenon DEF RxNexts
      <4> QED
        BY <1>n, <2>1, <4>1, SMT
    <3> QED
      BY <1>3, <3>1, <3>2
  <2>3. Linked /\ txOn /\ txCell \in Nat /\ ~TxStarts /\ ~TxRests
    BY <2>1, <2>2, InFrame, Zenon
  <2>4. noise = "none"
    BY <1>m, <1>s, <2>3, NoiseKinds, Zenon
  <2>5. InFlight /\ word1 = theWord
    <3>1. InFlight /\ InFlight'
      BY <2>1, Zenon DEF InFlight
    <3> QED
      BY <2>3, <3>1, HeldStep, Zenon
  <2>6. rx.word = part(theWord, taken)
    BY <1>u, <2>1, <2>4
  <2>7. CASE rx.tick # middle \/ RxNexts
    <3>1. taken1 = taken /\ rx'.word = rx.word
      <4>1. CASE RxNexts
        BY <1>m, <4>1, TakenMoves, Zenon DEF RxNexts
      <4>2. CASE RxTicks /\ rx.tick # middle
        BY <1>m, <4>2, TakenMoves, Zenon DEF RxTicks
      <4> QED
        BY <1>3, <2>7, <4>1, <4>2
    <3> QED
      BY <2>5, <2>6, <3>1
  <2>8. CASE rx.tick = middle /\ RxTicks
    <3>1. taken = rxCell /\ taken1 = rxCell + 1 /\ rxCell \in 0 .. N + 1
      <4>1. ~sampled /\ taken1 = rxCell + 1 /\ taken = rxCell
        BY <1>m, <2>8, TakenMoves, Zenon
      <4> QED
        BY <1>n, <2>1, <4>1, SMT
    <3>2. rx'.word = 128 * rx_bit_d + (rx.word \div 2)
      BY <2>1, <2>8, Zenon DEF RxTicks
    <3>3. \/ txCell = rxCell /\ rx_bit_d = tx.bit
          \/ txCell = rxCell + 1 /\ tx.tick = 0
      <4>1. (Even /\ tx.tick > 0 /\ rx_bit_d = Level) \/ Late
        BY <2>2, <2>3, <2>8, SampleIs, Zenon
      <4>2. Level = tx.bit
        BY <1>s, <2>4, Zenon DEF Level
      <4> QED
        BY <3>1, <4>1, <4>2, Zenon DEF Even, Late
    <3>4. theWord \in 0 .. 255
      <4>1. theWord \in 0 .. 2^(N + 1) - 1
        BY <2>5, Zenon DEF Held
      <4>2. N + 1 \in 5 .. 8
        BY <1>n, SMT
      <4> QED
        BY <4>1, <4>2, WordOut
    <3>5. CASE rxCell = 0
      <4>1. rx_bit_d = 0
        <5>1. CASE txCell = rxCell /\ rx_bit_d = tx.bit
          BY <2>3, <3>5, <5>1, Zenon DEF OnWire
        <5>2. CASE txCell = rxCell + 1 /\ tx.tick = 0
          <6>1. txCell = 1
            BY <3>5, <5>2, SMT
          <6> QED
            BY <2>3, <5>2, <6>1, Zenon DEF OnWire
        <5> QED
          BY <3>3, <5>1, <5>2
      <4>2. rx.word = 0
        BY <2>6, <3>1, <3>5 DEF part
      <4>3. rx'.word = 128 * 0 + (0 \div 2) /\ 128 * 0 + (0 \div 2) = 0
        <5>1. rx'.word = 128 * 0 + (0 \div 2)
          BY <3>2, <4>1, <4>2
        <5> QED
          BY <5>1, SMT
      <4>4. part(theWord, 1) = 0
        <5> DEFINE v == theWord
        <5>1. v \in Int
          BY <3>4
        <5> HIDE DEF v
        <5>2. v % 1 = 0 /\ 1 - 1 = 0 /\ 8 - 0 = 8 /\ 1 # 0 /\ 0 * 256 = 0
          BY <5>1, SMT
        <5>3. part(v, 1) = (v % 2^0) * 2^8
          BY <5>2 DEF part
        <5> QED
          BY <5>2, <5>3, Pow DEF v
      <4>5. taken1 = 1
        BY <3>1, <3>5, SMT
      <4> QED
        BY <2>5, <4>3, <4>4, <4>5
    <3>6. CASE rxCell # 0
      <4> DEFINE k == rxCell - 1
      <4>1. k \in 0 .. 7 /\ rxCell = k + 1 /\ (rxCell + 1) - 1 = k + 1 /\ rxCell + 1 # 0
        BY <1>n, <3>1, <3>6, SMT
      <4>2. rx_bit_d = (theWord \div 2^k) % 2
        <5>1. CASE txCell = rxCell /\ rx_bit_d = tx.bit
          <6>1. txCell <= N + 1 /\ txCell >= 1
            <7>1. rxCell <= N + 1 /\ rxCell >= 1
              BY <1>n, <3>1, <3>6, SMT
            <7> QED
              BY <5>1, <7>1
          <6>2. tx.bit = bitOf(txCell)
            BY <2>3, <2>5, <6>1, Zenon DEF Sending
          <6> QED
            BY <5>1, <6>2 DEF bitOf
        <5>2. CASE txCell = rxCell + 1 /\ tx.tick = 0
          <6>1. txCell \in 2 .. N + 2 /\ txCell - 1 = rxCell
            <7> DEFINE c == rxCell  d == txCell
            <7>1. c \in 0 .. N + 1 /\ c # 0 /\ d = c + 1
              BY <3>1, <3>6, <5>2
            <7> HIDE DEF c, d
            <7>2. d \in 2 .. N + 2 /\ d - 1 = c
              BY <1>n, <7>1, SMT
            <7> QED
              BY <7>2 DEF c, d
          <6>2. rx_bit_d = bitOf(txCell - 1)
            BY <2>3, <2>4, <2>5, <5>2, <6>1, Zenon DEF Sending
          <6> QED
            BY <6>1, <6>2 DEF bitOf
        <5> QED
          BY <3>3, <5>1, <5>2
      <4>3. rx.word = (theWord % 2^k) * 2^(8 - k)
        BY <2>6, <3>1, <3>6 DEF part
      <4>4. part(theWord, rxCell + 1) = (theWord % 2^(k + 1)) * 2^(8 - (k + 1))
        BY <4>1 DEF part
      <4> HIDE DEF k
      <4>5. 128 * ((theWord \div 2^k) % 2) + (((theWord % 2^k) * 2^(8 - k)) \div 2)
              = (theWord % 2^(k + 1)) * 2^(8 - (k + 1))
        BY <3>4, <4>1, BitIn, Zenon
      <4>6. rx'.word = part(theWord, rxCell + 1)
        BY <3>2, <4>2, <4>3, <4>4, <4>5
      <4> QED
        BY <2>5, <3>1, <4>6
    <3> QED
      BY <3>5, <3>6
  <2> QED
    BY <1>3, <2>7, <2>8
<1> QED
  BY <1>m, <1>1, <1>2, <1>3, <1>5

-----------------------------------------------------------------------------
(* The words of a queue, of which dataOf is sent. *)
queued(q) == [i \in 1 .. Len(q) |-> dataOf(q[i])]

(* Of a byte a number is sent. *)
LEMMA DataSent ==
  ASSUME Formats, NEW w \in 0 .. 255
  PROVE  dataOf(w) \in Nat
<1>1. bit_count_m1 + 1 \in 5 .. 8
  <2> DEFINE N == bit_count_m1
  <2>1. N \in 4 .. 7
    BY Zenon DEF Formats
  <2> HIDE DEF N
  <2>2. N + 1 \in 5 .. 8
    BY <2>1, SMT
  <2> QED
    BY <2>2 DEF N
<1>2. dataOf(w) \in 0 .. 255
  BY <1>1, Cut, Zenon DEF dataOf
<1> QED
  BY <1>2, SMT

(* A queue, word by word. *)
LEMMA Queued ==
  ASSUME Formats, NEW q \in Seq(0 .. 255)
  PROVE  /\ queued(q) \in Seq(Nat) /\ Len(queued(q)) = Len(q)
         /\ \A i \in 1 .. Len(q) : queued(q)[i] = dataOf(q[i])
<1>1. Len(q) \in Nat /\ \A i \in 1 .. Len(q) : q[i] \in 0 .. 255
  BY ElementOfSeq, LenProperties
<1>2. \A i \in 1 .. Len(q) : dataOf(q[i]) \in Nat
  BY <1>1, DataSent, Zenon
<1>3. queued(q) \in [1 .. Len(q) -> Nat]
  BY <1>2, Zenon DEF queued
<1>4. queued(q) \in Seq(Nat)
  <2> DEFINE n == Len(q)  F == {[1 .. k -> Nat] : k \in Nat}  v == queued(q)
  <2>1. [1 .. n -> Nat] \in F
    BY <1>1, Zenon
  <2>2. Seq(Nat) = UNION F
    BY SeqDef
  <2>3. v \in [1 .. n -> Nat]
    BY <1>3
  <2> HIDE DEF n, F, v
  <2>4. v \in Seq(Nat)
    BY <2>1, <2>2, <2>3, Zenon
  <2> QED
    BY <2>4 DEF v
<1>5. DOMAIN queued(q) = 1 .. Len(q)
  BY <1>3, Zenon
<1>6. Len(queued(q)) = Len(q)
  BY <1>1, <1>4, <1>5, SMT
<1> QED
  BY <1>4, <1>6, Zenon DEF queued

(* A word that is written is the last to be sent. *)
LEMMA QueuedLast ==
  ASSUME Formats, NEW q \in Seq(0 .. 255), NEW w \in 0 .. 255
  PROVE  queued(q \o <<w>>) = queued(q) \o <<dataOf(w)>>
<1> DEFINE a == queued(q \o <<w>>)  b == queued(q) \o <<dataOf(w)>>
<1>0. dataOf(w) \in Nat /\ <<dataOf(w)>> \in Seq(Nat) /\ <<w>> \in Seq(0 .. 255)
      /\ Len(<<w>>) = 1 /\ Len(<<dataOf(w)>>) = 1 /\ <<w>>[1] = w
      /\ <<dataOf(w)>>[1] = dataOf(w)
  <2>1. dataOf(w) \in Nat
    BY DataSent
  <2> QED
    BY <2>1
<1>1. /\ q \o <<w>> \in Seq(0 .. 255) /\ Len(q \o <<w>>) = Len(q) + 1 /\ Len(q) \in Nat
      /\ \A i \in 1 .. Len(q) + 1 :
           (q \o <<w>>)[i] = IF i <= Len(q) THEN q[i] ELSE <<w>>[i - Len(q)]
  BY <1>0, ConcatProperties, LenProperties
<1>2. /\ a \in Seq(Nat) /\ Len(a) = Len(q) + 1
      /\ \A i \in 1 .. Len(q) + 1 : a[i] = dataOf((q \o <<w>>)[i])
  BY <1>1, Queued
<1>3. /\ queued(q) \in Seq(Nat) /\ Len(queued(q)) = Len(q)
      /\ \A i \in 1 .. Len(q) : queued(q)[i] = dataOf(q[i])
  BY Queued
<1>4. /\ b \in Seq(Nat) /\ Len(b) = Len(q) + 1
      /\ \A i \in 1 .. Len(q) + 1 :
           b[i] = IF i <= Len(q) THEN queued(q)[i] ELSE <<dataOf(w)>>[i - Len(q)]
  BY <1>0, <1>3, ConcatProperties
<1>5. ASSUME NEW i \in 1 .. Len(q) + 1 PROVE a[i] = b[i]
  <2>1. CASE i <= Len(q)
    <3>1. i \in 1 .. Len(q)
      BY <1>1, <2>1, SMT
    <3> QED
      BY <1>1, <1>2, <1>3, <1>4, <2>1, <3>1, Zenon
  <2>2. CASE ~(i <= Len(q))
    <3>1. i - Len(q) = 1
      BY <1>1, <2>2, SMT
    <3>2. (q \o <<w>>)[i] = w
      BY <1>0, <1>1, <2>2, <3>1, Zenon
    <3>3. b[i] = dataOf(w)
      BY <1>0, <1>4, <2>2, <3>1, Zenon
    <3> QED
      BY <1>2, <3>2, <3>3, Zenon
  <2> QED
    BY <2>1, <2>2
<1> HIDE DEF a, b
<1>6. a = b
  BY <1>2, <1>4, <1>5, SeqEqual
<1> QED
  BY <1>6 DEF a, b

(* A word that is taken was the first. *)
LEMMA QueuedFirst ==
  ASSUME Formats, NEW q \in Seq(0 .. 255), q # << >>
  PROVE  queued(q) = <<dataOf(Head(q))>> \o queued(Tail(q))
<1> DEFINE w == Head(q)  t == Tail(q)  a == queued(q)  b == <<dataOf(w)>> \o queued(t)
<1>1. /\ w \in 0 .. 255 /\ t \in Seq(0 .. 255) /\ Len(t) = Len(q) - 1 /\ Len(q) \in Nat \ {0}
      /\ \A i \in 1 .. Len(t) : t[i] = q[i + 1]
  BY HeadTailProperties, HeadIn
<1>2. w = q[1]
  BY DEF w
<1> HIDE DEF w, t
<1>3. dataOf(w) \in Nat /\ <<dataOf(w)>> \in Seq(Nat) /\ Len(<<dataOf(w)>>) = 1
      /\ <<dataOf(w)>>[1] = dataOf(w)
  <2>1. dataOf(w) \in Nat
    BY <1>1, DataSent
  <2> QED
    BY <2>1
<1>4. /\ a \in Seq(Nat) /\ Len(a) = Len(q)
      /\ \A i \in 1 .. Len(q) : a[i] = dataOf(q[i])
  BY Queued
<1>5. /\ queued(t) \in Seq(Nat) /\ Len(queued(t)) = Len(q) - 1
      /\ \A i \in 1 .. Len(q) - 1 : queued(t)[i] = dataOf(t[i])
  BY <1>1, Queued
<1>6. /\ b \in Seq(Nat) /\ Len(b) = Len(q)
      /\ \A i \in 1 .. Len(q) :
           b[i] = IF i <= 1 THEN <<dataOf(w)>>[i] ELSE queued(t)[i - 1]
  <2>1. 1 + (Len(q) - 1) = Len(q)
    BY <1>1, SMT
  <2> QED
    BY <1>3, <1>5, <2>1, ConcatProperties
<1>7. ASSUME NEW i \in 1 .. Len(q) PROVE a[i] = b[i]
  <2>1. CASE i <= 1
    <3>1. i = 1
      BY <1>1, <2>1, SMT
    <3> QED
      BY <1>2, <1>3, <1>4, <1>6, <2>1, <3>1, Zenon
  <2>2. CASE ~(i <= 1)
    <3>1. i - 1 \in 1 .. Len(q) - 1 /\ (i - 1) + 1 = i
      BY <1>1, <2>2, SMT
    <3>2. t[i - 1] = q[i]
      BY <1>1, <3>1, Zenon
    <3>3. b[i] = dataOf(q[i])
      BY <1>5, <1>6, <2>2, <3>1, <3>2, Zenon
    <3> QED
      BY <1>4, <3>3, Zenon
  <2> QED
    BY <2>1, <2>2
<1> HIDE DEF a, b
<1>8. a = b
  BY <1>4, <1>6, <1>7, SeqEqual
<1> QED
  BY <1>8 DEF a, b, w, t

-----------------------------------------------------------------------------
Queues == /\ tx_buf \in Seq(Words) /\ Len(tx_buf) <= MAX_IO_BUF_SIZE
          /\ rx_buf \in Seq(0 .. 255) /\ Len(rx_buf) <= MAX_IO_BUF_SIZE

(* The inductive invariant of a line whose clocks agree. *)
LineInv == /\ Ports /\ Frame /\ Queues /\ Unhurried
           /\ Follows /\ OnWire /\ Held /\ Sending /\ Assembled /\ Sums /\ Judged

(* The invariant holds at reset, ... *)
LEMMA LineStarts ==
  ASSUME Init, WholeStops, ClocksAgree
  PROVE  LineInv
<1>1. /\ Formats /\ Frame
      /\ MAX_IO_BUF_SIZE \in Nat \ {0} /\ Words \subseteq 0 .. 255
  BY FormatsHold, FrameInit, LineAssumption, Zenon DEF Init
<1>2. /\ tx.state = "Idle" /\ tx.word = 0 /\ tx.parity = 0 /\ tx.bit_pos = 0
      /\ tx.tick = 0 /\ tx.bit = 1 /\ tx.error = FALSE /\ Shaped(tx)
  BY SMT DEF Init, reset_port, Shaped
<1>3. rx = tx
  BY Zenon DEF Init
<1>4. /\ tx_buf = << >> /\ rx_buf = << >> /\ noise = "none" /\ sent = << >>
      /\ rx_bit_d = 1 /\ rx_bit_samp = 0
  BY Zenon DEF Init
<1>5. Queues
  BY <1>1, <1>4, EmptySeq, SMT DEF Queues
<1>6. tx_buf \in Seq(0 .. 255) /\ noise \in {"none", "now", "past"}
  BY <1>4, EmptySeq
<1>7. 0 \in 0 .. period /\ 0 \in 0 .. rxPeriod /\ 0 <= stop_count /\ 0 <= 1
  <2> DEFINE P == period  S == stop_count  R == rxPeriod
  <2>1. P \in Nat \ {0} /\ S \in 1 .. 2 /\ R \in Nat \ {0}
    BY <1>1, Zenon DEF Formats
  <2> HIDE DEF P, S, R
  <2>2. 0 \in 0 .. P /\ 0 \in 0 .. R /\ 0 <= S /\ 0 <= 1
    BY <2>1, SMT
  <2> QED
    BY <2>2 DEF P, S, R
<1>8. 0 \in 0 .. 255 /\ 0 \in 0 .. 1 /\ 1 \in 0 .. 1 /\ 0 \in Nat
  OBVIOUS
<1>9. TxPort
  BY <1>2, <1>7, <1>8, StateNames, Zenon DEF TxPort, States
<1>10. RxPort
  BY <1>2, <1>3, <1>7, <1>8, StateNames, Zenon DEF RxPort, States
<1>11. Ports
  BY <1>1, <1>4, <1>6, <1>8, <1>9, <1>10, Zenon DEF Ports
<1>12. ~txOn /\ ~rxOn
  BY <1>2, <1>3, Zenon DEF txOn, rxOn
<1>13. Follows /\ Held /\ Sending /\ Unhurried
  <2>1. ~InFlight
    BY <1>2, <1>3, <1>12, StateNames, Zenon DEF InFlight
  <2> QED
    BY <1>4, <1>12, <2>1, Zenon DEF Follows, Resting, Held, Sending, Unhurried
<1>14. OnWire
  <2>1. noise # "now"
    BY <1>4
  <2> QED
    BY <1>2, <1>4, <1>12, <2>1, Zenon DEF OnWire
<1>15. Assembled /\ Sums /\ Judged
  BY <1>2, <1>3, <1>12, StateNames, Zenon DEF Assembled, Sums, Judged
<1> QED
  BY <1>1, <1>5, <1>11, <1>13, <1>14, <1>15, Zenon DEF LineInv

(* What a cycle does, to each end and to the queues. *)
LEMMA CycleMoves ==
  ASSUME LineInv, Next
  PROVE  /\ Moves /\ SentMoves /\ Ports' /\ Queues' /\ OnWire'
         /\ \E offer \in {<< >>} \union {<<w>> : w \in Words}, r \in BOOLEAN :
              /\ tx_buf' = (IF txStarts THEN Tail(tx_buf) ELSE tx_buf) \o offer
              /\ offer # << >> /\ setup.paced => quiet
              /\ r => rx_buf # << >>
              /\ rx_buf' = (IF r THEN Tail(rx_buf) ELSE rx_buf)
                             \o (IF rxCompletes /\ ~rxFull THEN <<adjust_word>> ELSE << >>)
<1>1. PICK offer \in Offers, r \in Reads : Cycle(offer, r)
  BY Zenon DEF Next
<1>2. /\ do_rx /\ do_tx /\ Wire /\ Noise /\ setup' = setup /\ SentMoves
      /\ tx_buf' = (IF txStarts THEN Tail(tx_buf) ELSE tx_buf) \o offer
      /\ rx_buf' = (IF r THEN Tail(rx_buf) ELSE rx_buf)
                     \o (IF rxCompletes /\ ~rxFull THEN <<adjust_word>> ELSE << >>)
  BY <1>1, Zenon DEF Cycle, SentMoves
<1>3. /\ TxPort /\ RxPort /\ Formats /\ tx_buf \in Seq(0 .. 255)
      /\ noise \in {"none", "now", "past"}
      /\ rx_bit_d \in 0 .. 1 /\ rx_bit_samp \in 0 .. 1
  BY Zenon DEF LineInv, Ports
<1>4. TxPort' /\ (TxStarts \/ TxRests \/ TxTicks \/ TxNexts)
  BY <1>2, <1>3, TxKinds, Zenon
<1>5. /\ RxPort' /\ rx_bit_samp' \in 0 .. 1
      /\ RxRests \/ RxEnters \/ RxTicks \/ RxNexts \/ RxEnds
  BY <1>2, <1>3, RxKinds, Zenon
<1>6. Moves
  BY <1>2, <1>4, <1>5, Zenon DEF Moves
<1>7. OnWire' /\ rx_bit_d' \in 0 .. 1
  BY <1>2, <1>4, OnWireStep, Zenon DEF LineInv
<1>8. Formats'
  <2>1. setup' \in Setups
    BY <1>2, <1>3, Zenon DEF Formats
  <2> QED
    BY <1>2, <1>3, <2>1, FormatsStay, Zenon DEF Formats
<1>9. noise' \in {"none", "now", "past"}
  BY <1>2, <1>3, Zenon DEF Noise
<1>10. /\ offer \in {<< >>} \union {<<w>> : w \in Words}
       /\ offer # << >> => ~txFull
       /\ offer # << >> /\ setup.paced => quiet
  BY <1>1, Zenon DEF Offers
<1>11. r \in BOOLEAN /\ (r => rx_buf # << >>)
  BY <1>1, Zenon DEF Reads
<1>12. tx_buf' \in Seq(Words) /\ Len(tx_buf') <= MAX_IO_BUF_SIZE
  <2> DEFINE q == IF txStarts THEN Tail(tx_buf) ELSE tx_buf  K == MAX_IO_BUF_SIZE
  <2>1. tx_buf \in Seq(Words) /\ Len(tx_buf) <= K /\ K \in Nat
    BY LineAssumption, Zenon DEF LineInv, Queues
  <2>2. q \in Seq(Words) /\ Len(q) <= Len(tx_buf) /\ Len(tx_buf) \in Nat
    <3>1. txStarts => tx_buf # << >>
      BY Zenon DEF txStarts
    <3>2. CASE txStarts
      <4>1. /\ Tail(tx_buf) \in Seq(Words) /\ Len(Tail(tx_buf)) = Len(tx_buf) - 1
            /\ Len(tx_buf) \in Nat \ {0}
        BY <2>1, <3>1, <3>2, HeadIn
      <4> QED
        BY <3>2, <4>1, SMT
    <3>3. CASE ~txStarts
      BY <2>1, <3>3, SMT
    <3> QED
      BY <3>2, <3>3
  <2>3. tx_buf' = q \o offer
    BY <1>2
  <2>4. txFull <=> Len(tx_buf) = K
    BY Zenon DEF txFull
  <2> HIDE DEF q, K
  <2>5. CASE offer = << >>
    <3>1. tx_buf' = q
      BY <2>2, <2>3, <2>5, ConcatEmptySeq
    <3> QED
      BY <2>1, <2>2, <3>1, SMT DEF K
  <2>6. CASE offer # << >>
    <3>1. PICK w \in Words : offer = <<w>>
      BY <1>10, <2>6, Zenon
    <3>2. tx_buf' = q \o <<w>>
      BY <2>3, <3>1
    <3>3. tx_buf' \in Seq(Words) /\ Len(tx_buf') = Len(q) + 1 /\ Len(q) \in Nat
      BY <2>2, <3>2, OneMore
    <3> QED
      BY <1>10, <2>1, <2>2, <2>4, <2>6, <3>3, SMT DEF K
  <2> QED
    BY <2>5, <2>6
<1>13. rx_buf' \in Seq(0 .. 255) /\ Len(rx_buf') <= MAX_IO_BUF_SIZE
  <2> DEFINE q == IF r THEN Tail(rx_buf) ELSE rx_buf  K == MAX_IO_BUF_SIZE
             more == rxCompletes /\ ~rxFull
             new == IF more THEN <<adjust_word>> ELSE << >>
  <2>1. rx_buf \in Seq(0 .. 255) /\ Len(rx_buf) <= K /\ K \in Nat
    BY LineAssumption, Zenon DEF LineInv, Queues
  <2>2. q \in Seq(0 .. 255) /\ Len(q) <= Len(rx_buf) /\ Len(rx_buf) \in Nat
    <3>2. CASE r
      <4>1. /\ Tail(rx_buf) \in Seq(0 .. 255) /\ Len(Tail(rx_buf)) = Len(rx_buf) - 1
            /\ Len(rx_buf) \in Nat \ {0}
        BY <1>11, <2>1, <3>2, HeadIn
      <4> QED
        BY <3>2, <4>1, SMT
    <3>3. CASE ~r
      BY <2>1, <3>3, SMT
    <3> QED
      BY <3>2, <3>3
  <2>3. rx_buf' = q \o new
    BY <1>2
  <2>4. rxFull <=> Len(rx_buf) = K
    BY Zenon DEF rxFull
  <2>5. CASE ~more
    <3>1. new = << >>
      BY <2>5
    <3> HIDE DEF q, K, new, more
    <3>2. rx_buf' = q
      BY <2>2, <2>3, <3>1, ConcatEmptySeq
    <3> QED
      BY <2>1, <2>2, <3>2, SMT DEF K
  <2>6. CASE more
    <3>1. new = <<adjust_word>>
      BY <2>6
    <3>2. adjust_word \in 0 .. 255
      BY <1>3, AdjustIn
    <3>3. rx_buf' = q \o <<adjust_word>>
      BY <2>3, <3>1
    <3>4. ~rxFull
      BY <2>6
    <3> HIDE DEF q, K, new, more
    <3>5. rx_buf' \in Seq(0 .. 255) /\ Len(rx_buf') = Len(q) + 1 /\ Len(q) \in Nat
      BY <2>2, <3>2, <3>3, OneMore
    <3> QED
      BY <2>1, <2>2, <2>4, <3>4, <3>5, SMT DEF K
  <2> QED
    BY <2>5, <2>6
<1>14. tx_buf' \in Seq(0 .. 255)
  <2>1. Words \subseteq 0 .. 255
    BY LineAssumption, Zenon
  <2> DEFINE B == 0 .. 255  q == tx_buf'
  <2>2. q \in Seq(Words) /\ Words \subseteq B
    BY <1>12, <2>1
  <2> HIDE DEF B, q
  <2>3. q \in Seq(B)
    BY <2>2, SeqMonotonic
  <2> QED
    BY <2>3 DEF B, q
<1>15. Ports' /\ Queues'
  BY <1>4, <1>5, <1>7, <1>8, <1>9, <1>12, <1>13, <1>14, Zenon DEF Ports, Queues
<1> QED
  BY <1>2, <1>6, <1>7, <1>10, <1>11, <1>15, Zenon

(* ... and after every cycle. *)
LEMMA LineStep ==
  ASSUME LineInv, WholeStops, [Next]_vars
  PROVE  LineInv'
<1>1. Frame'
  BY FrameStep, Zenon DEF LineInv
<1>2. CASE Next
  <2>1. Moves /\ SentMoves /\ Ports' /\ Queues' /\ OnWire' /\ RxPort' /\ setup' = setup
    BY <1>2, CycleMoves, Zenon DEF Ports, Moves
  <2>2. /\ Ports /\ Follows /\ OnWire /\ Held /\ Sending /\ Assembled /\ Sums /\ Judged
        /\ Unhurried
        /\ TxStarts \/ TxRests \/ TxTicks \/ TxNexts
        /\ RxRests \/ RxEnters \/ RxTicks \/ RxNexts \/ RxEnds
    BY <2>1, Zenon DEF LineInv, Moves
  <2>3. Follows'
    BY <2>1, <2>2, FollowsStep, Zenon
  <2>4. Held' /\ Sending'
    BY <2>1, <2>2, HeldStep, SendingStep, Zenon
  <2>5. Assembled'
    BY <2>1, <2>2, AssembledStep, Zenon
  <2>6. Sums' /\ Judged'
    BY <2>1, <2>2, SumsStep, JudgedStep, Zenon
  <2>7. Unhurried'
    <3>1. PICK offer \in {<< >>} \union {<<w>> : w \in Words} :
            /\ tx_buf' = (IF txStarts THEN Tail(tx_buf) ELSE tx_buf) \o offer
            /\ offer # << >> /\ setup.paced => quiet
      BY <1>2, CycleMoves, Zenon
    <3>2. offer # << >> => \E w : offer = <<w>>
      BY Zenon
    <3> QED
      BY <2>1, <2>2, <3>1, <3>2, UnhurriedStep, Zenon
  <2> QED
    BY <1>1, <2>1, <2>3, <2>4, <2>5, <2>6, <2>7, Zenon DEF LineInv
<1>3. CASE UNCHANGED vars
  <2>1. /\ setup' = setup /\ tx' = tx /\ tx_buf' = tx_buf /\ noise' = noise
        /\ rx_bit_d' = rx_bit_d /\ rx' = rx /\ rx_buf' = rx_buf
        /\ rx_bit_samp' = rx_bit_samp /\ sent' = sent
    BY <1>3, Zenon DEF vars
  <2>2. /\ period' = period /\ rxPeriod' = rxPeriod /\ middle' = middle
        /\ lastCell' = lastCell /\ bit_count_m1' = bit_count_m1
        /\ stop_count' = stop_count /\ parity_type' = parity_type /\ Agree' = Agree
        /\ \A x : parity_bit(x)' = parity_bit(x)
    BY <2>1, FormatsStay, Zenon
  <2>3. /\ txOn' = txOn /\ rxOn' = rxOn /\ txCell' = txCell /\ rxCell' = rxCell
        /\ Level' = Level
    BY <2>1, <2>2 DEF txOn, rxOn, txCell, rxCell, Level
  <2>4. sampled' = sampled /\ theWord' = theWord /\ InFlight' = InFlight
    BY <2>1, <2>2, <2>3 DEF sampled, theWord, InFlight
  <2>5. taken' = taken /\ txTime' = txTime /\ rxTime' = rxTime
    BY <2>1, <2>2, <2>3, <2>4 DEF taken, txTime, rxTime
  <2>6. TxPort' /\ RxPort' /\ Formats'
    BY <2>1, <2>2 DEF LineInv, Ports, TxPort, RxPort, Formats, Shaped
  <2>7. Ports' /\ Queues' /\ Unhurried'
    BY <2>1, <2>3, <2>6, Zenon DEF LineInv, Ports, Queues, Unhurried
  <2>8. Follows'
    BY <2>1, <2>2, <2>3, <2>5 DEF LineInv, Follows, Linked, Ended, Starting, Resting
  <2>9. OnWire' /\ Held'
    BY <2>1, <2>2, <2>3, <2>4 DEF LineInv, OnWire, Held
  <2>10. Sending'
    BY <2>1, <2>2, <2>3, <2>4 DEF LineInv, Sending, bitOf
  <2>11. Assembled'
    BY <2>1, <2>4, <2>5 DEF LineInv, Assembled
  <2>12. Sums'
    <3>1. told' = told /\ toldBefore' = toldBefore
      BY <2>1, <2>2, <2>3 DEF told, toldBefore, hit, Xor
    <3>2. Ahead' = Ahead /\ Even' = Even /\ Late' = Late
      BY <2>1, <2>3, <2>5 DEF Ahead, Even, Late
    <3>3. Right(rx_bit_d)' <=> Right(rx_bit_d)
      BY <2>1, <2>2 DEF Right
    <3> QED
      BY <2>1, <2>2, <2>3, <2>5, <3>1, <3>2, <3>3 DEF LineInv, Sums, Xor
  <2>13. Judged'
    <3>1. Right(rx_bit_samp)' <=> Right(rx_bit_samp)
      BY <2>1, <2>2 DEF Right
    <3> QED
      BY <2>1, <2>4, <3>1 DEF LineInv, Judged
  <2> QED
    BY <1>1, <2>7, <2>8, <2>9, <2>10, <2>11, <2>12, <2>13, Zenon DEF LineInv
<1> QED
  BY <1>2, <1>3

(* A port in its ranges. *)
LEMMA PortIn ==
  ASSUME NEW p, Shaped(p), p.state \in States, p.word \in 0 .. 255, p.parity \in 0 .. 1,
         p.bit_pos \in 0 .. 9, p.tick \in Nat, p.bit \in 0 .. 1, p.error \in BOOLEAN
  PROVE  p \in Port
<1> DEFINE q == [state |-> p.state, word |-> p.word, parity |-> p.parity, bit_pos |-> p.bit_pos,
                 tick |-> p.tick, bit |-> p.bit, error |-> p.error]
<1>1. q \in Port
  BY DEF Port, States
<1>2. p = q
  BY Zenon DEF Shaped
<1> QED
  BY <1>1, <1>2

(* The invariant has the types. *)
LEMMA LineTypes ==
  ASSUME LineInv
  PROVE  TypeOK
<1> DEFINE N == bit_count_m1  S == stop_count  P == period  R == rxPeriod
<1>f. /\ P \in Nat \ {0} /\ R \in Nat \ {0} /\ N \in 4 .. 7 /\ S \in 1 .. 2
      /\ setup \in Setups /\ setup.txBaud = P /\ setup.rxBaud = R
  BY Zenon DEF LineInv, Ports, Formats, period, rxPeriod
<1>t. /\ Shaped(tx) /\ tx.state \in States /\ tx.tick \in 0 .. P
      /\ tx.word \in 0 .. 255 /\ tx.parity \in 0 .. 1 /\ tx.bit \in 0 .. 1
      /\ tx.bit_pos \in Nat /\ tx.error = FALSE
      /\ tx.state = "Start" => tx.bit_pos <= N
      /\ tx.state = "Parity" => tx.bit_pos = 0
      /\ tx.state \in {"Idle", "Stop"} => tx.bit_pos <= S
  BY Zenon DEF LineInv, Ports, TxPort
<1>r. /\ Shaped(rx) /\ rx.state \in States /\ rx.tick \in 0 .. R
      /\ rx.word \in 0 .. 255 /\ rx.parity \in 0 .. 1 /\ rx.bit = 1
      /\ rx.bit_pos \in Nat /\ rx.error \in BOOLEAN
      /\ rx.state = "Start" => rx.bit_pos <= N + 1
      /\ rx.state = "Parity" => rx.bit_pos = 0
      /\ rx.state \in {"Idle", "Stop"} => rx.bit_pos <= 1
  BY Zenon DEF LineInv, Ports, RxPort
<1> HIDE DEF N, S, P, R
<1>1. /\ tx.bit_pos \in 0 .. 9 /\ tx.tick \in Nat /\ tx.tick <= P
  BY <1>f, <1>t, SMT DEF States
<1>2. /\ rx.bit_pos \in 0 .. 9 /\ rx.tick \in Nat /\ rx.tick <= R /\ rx.bit \in 0 .. 1
  BY <1>f, <1>r, SMT DEF States
<1>3. tx \in Port /\ rx \in Port
  <2>1. tx.error \in BOOLEAN
    BY <1>t, Zenon
  <2> QED
    BY <1>t, <1>r, <1>1, <1>2, <2>1, PortIn, Zenon
<1>4. Len(sent) <= 2
  <2>1. sent = <<theWord>> \/ sent = << >>
    BY Zenon DEF LineInv, Held
  <2>2. \A x : Len(<<x>>) <= 2 /\ Len(<< >>) <= 2
    OBVIOUS
  <2> QED
    BY <2>1, <2>2
<1>5. /\ tx_buf \in Seq(Words) /\ Len(tx_buf) <= MAX_IO_BUF_SIZE
      /\ rx_buf \in Seq(0 .. 255) /\ Len(rx_buf) <= MAX_IO_BUF_SIZE
      /\ noise \in {"none", "now", "past"} /\ rest \in 0 .. MaxRest
      /\ rx_bit_d \in 0 .. 1 /\ rx_bit_samp \in 0 .. 1
  BY Zenon DEF LineInv, Queues, Ports, Frame
<1> QED
  BY <1>f, <1>1, <1>2, <1>3, <1>4, <1>5, Zenon DEF TypeOK

(* At the end of a bit it has been sampled. *)
LEMMA SampledAtEnd ==
  ASSUME LineInv, rx.tick = rxPeriod
  PROVE  sampled
<1>1. rxPeriod \in Nat \ {0} /\ middle \in Nat /\ middle < rxPeriod
  BY Numbers, Zenon DEF LineInv
<1> DEFINE P == rxPeriod  M == middle
<1> HIDE DEF P, M
<1>2. P > M
  BY <1>1, SMT DEF P, M
<1> QED
  BY <1>2, Zenon DEF sampled, P, M

(* An error has a cause, ... *)
LEMMA ErrorsExplained ==
  ASSUME LineInv, Moves, rx'.error, ~rx.error
  PROVE  rxFull \/ noise # "none"
<1>j. /\ rx.state = "Parity" /\ sampled /\ noise = "none" =>
           rx_bit_samp = parity_bit(rx.parity)
      /\ rx.state = "Stop" /\ sampled => rx_bit_samp = 1
  BY Zenon DEF LineInv, Judged, Right
<1>o. rx.state \in States /\ (rxOn <=> rx.state # "Idle")
  BY Zenon DEF LineInv, Ports, RxPort, rxOn
<1>1. CASE RxRests
  BY <1>1, Zenon DEF RxRests
<1>2. CASE RxEnters
  <2>1. rxOn /\ (rx_bit_samp # 1 \/ rxFull)
    BY <1>2, Zenon DEF RxEnters
  <2>2. rx.state = "Stop" /\ rx.tick = rxPeriod
    BY <1>2, <2>1, Zenon DEF RxEnters
  <2> QED
    BY <1>j, <2>1, <2>2, SampledAtEnd
<1>3. CASE RxTicks
  BY <1>3, Zenon DEF RxTicks
<1>4. CASE RxNexts
  <2>1. rx.tick = rxPeriod /\ rx.state = "Parity" /\ parity_bit(rx.parity) # rx_bit_samp
    BY <1>4, Zenon DEF RxNexts
  <2> QED
    BY <1>j, <2>1, SampledAtEnd
<1>5. CASE RxEnds
  <2>1. rx.state = "Stop" /\ rx.tick = rxPeriod /\ (rx_bit_samp # 1 \/ rxFull)
    BY <1>5, Zenon DEF RxEnds
  <2> QED
    BY <1>j, <2>1, SampledAtEnd
<1> QED
  BY <1>1, <1>2, <1>3, <1>4, <1>5, Zenon DEF Moves

(* ... and noise causes one. *)
LEMMA NoiseSeen ==
  ASSUME LineInv, Moves, rx.state = "Parity", rx'.state = "Stop", noise # "none",
         parity_type \in {"odd", "even"}
  PROVE  rx'.error
<1>1. sampled => rx_bit_samp # parity_bit(rx.parity)
  BY Zenon DEF LineInv, Judged, Right
<1>2. rxOn
  BY StateNames, Zenon DEF rxOn
<1>3. RxNexts
  <2>1. ~RxRests /\ ~RxEnds
    BY <1>2, StateNames, Zenon DEF RxRests, RxEnds
  <2>2. ~RxEnters
    BY StateNames, Zenon DEF RxEnters
  <2>3. ~RxTicks
    BY StateNames, Zenon DEF RxTicks
  <2> QED
    BY <2>1, <2>2, <2>3, Zenon DEF Moves
<1>4. rx.tick = rxPeriod
  BY <1>3, Zenon DEF RxNexts
<1>5. parity_bit(rx.parity) # rx_bit_samp
  BY <1>1, <1>4, SampledAtEnd
<1> QED
  BY <1>3, <1>5, Zenon DEF RxNexts

(* With clocks that agree every register, FIFO and history keeps its range. *)
THEOREM TypeCorrect ==
  ASSUME ClocksAgree, WholeStops
  PROVE  Spec => []TypeOK
BY LineStarts, LineStep, LineTypes, PTL DEF Spec

(* With such clocks the receiver reports an error only of a frame that     *)
(* found the FIFO full or that had noise, whatever the formats, the rates  *)
(* and the words: no parity or stop bit is misread.                        *)
THEOREM ErrorsAreReal ==
  ASSUME ClocksAgree, WholeStops
  PROVE  Spec => ErrorsHaveCause
<1>1. ASSUME LineInv, [Next]_vars
      PROVE  [rx'.error /\ ~rx.error => rxFull \/ noise # "none"]_vars
  <2>1. Next => Moves
    BY <1>1, CycleMoves, Zenon
  <2> QED
    BY <1>1, <2>1, ErrorsExplained
<1> QED
  BY <1>1, LineStarts, LineStep, PTL DEF Spec, ErrorsHaveCause

(* With such clocks and odd or even parity, an inverted bit is reported.   *)
THEOREM NoiseIsDetected ==
  ASSUME ClocksAgree, WholeStops
  PROVE  Spec => NoiseDetected
<1>1. ASSUME LineInv, [Next]_vars
      PROVE  [rx.state = "Parity" /\ rx'.state = "Stop" /\ noise # "none"
                /\ parity_type \in {"odd", "even"} => rx'.error]_vars
  <2>1. Next => Moves
    BY <1>1, CycleMoves, Zenon
  <2> QED
    BY <1>1, <2>1, NoiseSeen
<1> QED
  BY <1>1, LineStarts, LineStep, PTL DEF Spec, NoiseDetected

-----------------------------------------------------------------------------
(* The line as a queue: the words that have not arrived, and those that have. *)
onLine == sent \o queued(tx_buf)
Sends == {w % 2^n : w \in Words, n \in 5 .. 8}

(* A word that arrives without noise is the one that was sent. *)
LEMMA ArrivesUnchanged ==
  ASSUME LineInv, rxCompletes
  PROVE  /\ sent = <<theWord>> /\ theWord \in Nat
         /\ noise = "none" => adjust_word = theWord
         /\ adjust_word \in 0 .. 255
<1> DEFINE N == bit_count_m1  n == N + 1  v == theWord
<1>1. Ports /\ Follows /\ Held /\ Assembled /\ RxPort /\ Formats
  BY Zenon DEF LineInv, Ports
<1>2. InFlight
  BY Zenon DEF InFlight, rxCompletes
<1>3. sent = <<v>> /\ v \in 0 .. 2^n - 1
  BY <1>1, <1>2, Zenon DEF Held
<1>4. n \in 5 .. 8 /\ 7 - N = 8 - n
  <2>1. N \in 4 .. 7
    BY <1>1, Zenon DEF Formats
  <2> HIDE DEF N
  <2> QED
    BY <2>1, SMT
<1>5. ((v % 2^n) * 2^(8 - n)) \div 2^(8 - n) = v /\ v \in 0 .. 255
  <2> HIDE DEF n, v
  <2> QED
    BY <1>3, <1>4, WordOut
<1>6. rx.state = "Start" /\ rx.tick = rxPeriod /\ rxCell = n
  <2>1. rxOn /\ rxCell = n /\ rx.tick = rxPeriod
    BY <1>1, RxCells, Zenon
  <2>2. rx.state = "Start"
    BY Zenon DEF rxCompletes
  <2> QED
    BY <2>1, <2>2, Zenon
<1>7. ASSUME noise = "none" PROVE adjust_word = v
  <2>1. sampled
    BY <1>6, SampledAtEnd
  <2>2. taken = n + 1 /\ taken - 1 = n /\ taken # 0
    <3>1. taken = n + 1
      BY <1>6, <2>1 DEF taken
    <3> HIDE DEF n
    <3> QED
      BY <1>4, <3>1, SMT
  <2>3. rx.word = (v % 2^n) * 2^(8 - n)
    <3>1. rx.word = IF taken = 0 THEN 0 ELSE (v % 2^(taken - 1)) * 2^(8 - (taken - 1))
      BY <1>1, <1>6, <1>7, Zenon DEF Assembled
    <3> HIDE DEF n, v
    <3> QED
      BY <2>2, <3>1
  <2>4. adjust_word = rx.word \div 2^(8 - n)
    BY <1>4 DEF adjust_word
  <2> QED
    BY <1>5, <2>3, <2>4
<1>8. adjust_word \in 0 .. 255
  BY <1>1, AdjustIn
<1>9. v \in Nat
  <2> HIDE DEF v
  <2> QED
    BY <1>5, SMT
<1> QED
  BY <1>3, <1>7, <1>8, <1>9

(* What is sent of a queue goes by the setup, which stays. *)
LEMMA QueuedMoves ==
  ASSUME setup' = setup
  PROVE  queued(tx_buf)' = queued(tx_buf')
<1>1. bit_count_m1' = bit_count_m1
  BY FormatsStay, Zenon
<1> QED
  BY <1>1 DEF queued, dataOf

(* A cycle appends to the words on their way at most one. *)
LEMMA LineQueue ==
  ASSUME LineInv, Next
  PROVE  \E s \in {<< >>} \union {<<w>> : w \in Sends} :
           onLine' = (IF rxCompletes THEN queued(tx_buf) ELSE onLine) \o s
<1> DEFINE left == IF rxCompletes THEN << >> ELSE sent
           first == IF txStarts THEN <<dataOf(Head(tx_buf))>> ELSE << >>
           after == IF txStarts THEN Tail(tx_buf) ELSE tx_buf
<1>m. /\ setup' = setup /\ SentMoves
      /\ Formats /\ tx_buf \in Seq(0 .. 255) /\ Words \subseteq 0 .. 255
  BY CycleMoves, LineAssumption, Zenon DEF Moves, LineInv, Ports
<1>1. PICK offer \in {<< >>} \union {<<w>> : w \in Words} : tx_buf' = after \o offer
  BY CycleMoves, Zenon
<1>2. left \in Seq(Nat) /\ sent \in Seq(Nat)
  <2>1. sent \in Seq(Nat)
    <3>1. CASE InFlight
      <4>1. sent = <<theWord>> /\ theWord \in 0 .. 2^(bit_count_m1 + 1) - 1
        BY <3>1, Zenon DEF LineInv, Held
      <4>2. theWord \in Nat
        BY <1>m, <4>1, WordIn
      <4> QED
        BY <4>1, <4>2
    <3>2. CASE ~InFlight
      BY <3>2, EmptySeq, Zenon DEF LineInv, Held
    <3> QED
      BY <3>1, <3>2
  <2> QED
    BY <2>1, EmptySeq
<1>3. sent' = left \o first
  <2>1. rxCompletes => sent # << >> /\ Tail(sent) = << >>
    BY ArrivesUnchanged, Lists
  <2> QED
    BY <1>m, <2>1, Zenon DEF SentMoves
<1>4. /\ after \in Seq(0 .. 255) /\ first \in Seq(Nat)
      /\ first \o queued(after) = queued(tx_buf)
      /\ queued(after) \in Seq(Nat) /\ queued(tx_buf) \in Seq(Nat)
  <2>1. CASE txStarts
    <3>1. tx_buf # << >>
      BY <2>1, Zenon DEF txStarts
    <3>2. Tail(tx_buf) \in Seq(0 .. 255) /\ Head(tx_buf) \in 0 .. 255
      BY <1>m, <3>1, HeadIn
    <3>3. dataOf(Head(tx_buf)) \in Nat
      BY <1>m, <3>2, DataSent
    <3>4. <<dataOf(Head(tx_buf))>> \in Seq(Nat)
      BY <3>3
    <3>5. queued(tx_buf) = <<dataOf(Head(tx_buf))>> \o queued(Tail(tx_buf))
      BY <1>m, <3>1, QueuedFirst
    <3>6. queued(Tail(tx_buf)) \in Seq(Nat) /\ queued(tx_buf) \in Seq(Nat)
      BY <1>m, <3>2, Queued
    <3> QED
      BY <2>1, <3>2, <3>4, <3>5, <3>6
  <2>2. CASE ~txStarts
    <3>1. queued(tx_buf) \in Seq(Nat)
      BY <1>m, Queued
    <3>2. << >> \o queued(tx_buf) = queued(tx_buf) /\ << >> \in Seq(Nat)
      BY <3>1, ConcatEmptySeq, EmptySeq
    <3> QED
      BY <1>m, <2>2, <3>1, <3>2
  <2> QED
    BY <2>1, <2>2
<1>5. PICK s \in {<< >>} \union {<<w>> : w \in Sends} :
        s \in Seq(Nat) /\ queued(tx_buf') = queued(after) \o s
  <2>1. CASE offer = << >>
    <3>1. tx_buf' = after
      BY <1>1, <1>4, <2>1, ConcatEmptySeq
    <3>2. queued(tx_buf') = queued(after) \o << >> /\ << >> \in Seq(Nat)
      BY <1>4, <3>1, ConcatEmptySeq, EmptySeq
    <3> QED
      BY <3>2, Zenon
  <2>2. CASE offer # << >>
    <3>1. PICK w \in Words : offer = <<w>>
      BY <2>2, Zenon
    <3>2. w \in 0 .. 255
      BY <1>m
    <3>3. queued(tx_buf') = queued(after) \o <<dataOf(w)>>
      BY <1>m, <1>1, <1>4, <3>1, <3>2, QueuedLast
    <3>4. dataOf(w) \in Sends
      <4>1. bit_count_m1 + 1 \in 5 .. 8
        BY <1>m, WordIn
      <4> DEFINE n == bit_count_m1 + 1  cut(y, k) == y % 2^k
      <4>2. n \in 5 .. 8 /\ dataOf(w) = cut(w, n)
        BY <4>1 DEF dataOf
      <4>3. Sends = {cut(y, k) : y \in Words, k \in 5 .. 8}
        BY DEF Sends
      <4> HIDE DEF n, cut
      <4> QED
        BY <4>2, <4>3
    <3>5. dataOf(w) \in Nat
      BY <1>m, <3>2, DataSent
    <3>6. <<dataOf(w)>> \in Seq(Nat)
      BY <3>5
    <3> QED
      BY <3>3, <3>4, <3>6, Zenon
  <2> QED
    BY <2>1, <2>2
<1>6. onLine' = sent' \o queued(tx_buf')
  BY <1>m, QueuedMoves, Zenon DEF onLine
<1> DEFINE q == queued(after)  qt == queued(tx_buf)  qn == queued(tx_buf')
<1>7. onLine' = (left \o first) \o (q \o s)
  BY <1>3, <1>5, <1>6
<1>8. (IF rxCompletes THEN qt ELSE onLine) = left \o qt
  BY <1>4, ConcatEmptySeq DEF onLine
<1>9. /\ left \in Seq(Nat) /\ first \in Seq(Nat) /\ q \in Seq(Nat) /\ s \in Seq(Nat)
      /\ qt \in Seq(Nat) /\ first \o q = qt
  BY <1>2, <1>4, <1>5
<1> HIDE DEF left, first, q, qt
<1>10. (left \o first) \o (q \o s) = (left \o qt) \o s
  <2>1. cat(first, q) = qt
    BY <1>9 DEF cat
  <2>2. cat(cat(left, first), cat(q, s)) = cat(cat(left, qt), s)
    BY <1>9, <2>1, Regroup
  <2> QED
    BY <2>2 DEF cat
<1>11. onLine' = (IF rxCompletes THEN qt ELSE onLine) \o s
  BY <1>7, <1>8, <1>10
<1> QED
  BY <1>11 DEF qt

(* The word that arrives is the oldest on its way. *)
LEMMA OldestFirst ==
  ASSUME LineInv, rxCompletes
  PROVE  onLine # << >> /\ Head(onLine) = theWord /\ Tail(onLine) = queued(tx_buf)
<1>1. sent = <<theWord>> /\ theWord \in Nat
  BY ArrivesUnchanged
<1>2. queued(tx_buf) \in Seq(Nat)
  BY Queued, Zenon DEF LineInv, Ports
<1>3. ASSUME NEW v \in Nat, NEW q \in Seq(Nat)
      PROVE  <<v>> \o q # << >> /\ Head(<<v>> \o q) = v /\ Tail(<<v>> \o q) = q
  <2> DEFINE a == <<v>> \o q
  <2>1. /\ a \in Seq(Nat) /\ Len(a) = Len(q) + 1 /\ Len(q) \in Nat /\ a[1] = v
        /\ \A i \in 1 .. Len(q) : a[i + 1] = q[i]
    <3>1. <<v>> \in Seq(Nat) /\ Len(<<v>>) = 1 /\ <<v>>[1] = v
      OBVIOUS
    <3>2. /\ a \in Seq(Nat) /\ Len(a) = 1 + Len(q) /\ Len(q) \in Nat
          /\ \A i \in 1 .. 1 + Len(q) : a[i] = IF i <= 1 THEN <<v>>[i] ELSE q[i - 1]
      BY <3>1, ConcatProperties, LenProperties
    <3>3. a[1] = v
      BY <3>1, <3>2, SMT
    <3>4. ASSUME NEW i \in 1 .. Len(q) PROVE a[i + 1] = q[i]
      <4>1. i + 1 \in 1 .. 1 + Len(q) /\ ~(i + 1 <= 1) /\ (i + 1) - 1 = i
        BY <3>2, SMT
      <4> QED
        BY <3>2, <4>1, Zenon
    <3> QED
      BY <3>2, <3>3, <3>4, SMT
  <2> HIDE DEF a
  <2>2. a # << >>
    BY <2>1, EmptySeq, SMT
  <2>3. Head(a) = v
    BY <2>1
  <2>4. /\ Tail(a) \in Seq(Nat) /\ Len(Tail(a)) = Len(q)
        /\ \A i \in 1 .. Len(q) : Tail(a)[i] = q[i]
    BY <2>1, <2>2, HeadTailProperties
  <2>5. Tail(a) = q
    BY <2>4, SeqEqual
  <2> QED
    BY <2>2, <2>3, <2>5 DEF a
<1>4. onLine = <<theWord>> \o queued(tx_buf)
  BY <1>1 DEF onLine
<1> QED
  BY <1>1, <1>2, <1>3, <1>4

(* A cycle is a step of the queue or leaves it alone. *)
LEMMA LineNextHolds ==
  ASSUME LineInv, Next
  PROVE  Abstract!LineNext
<1> DEFINE noisy == noise # "none"  K == MAX_IO_BUF_SIZE
           w0 == sent \o [i \in 1 .. Len(tx_buf) |-> dataOf(tx_buf[i])]
           after(r) == IF r THEN Tail(rx_buf) ELSE rx_buf
<1>w. w0 = onLine /\ w0' = onLine'
  BY DEF onLine, queued
<1>1. PICK r \in BOOLEAN :
        /\ r => rx_buf # << >>
        /\ rx_buf' = after(r) \o (IF rxCompletes /\ ~rxFull THEN <<adjust_word>> ELSE << >>)
  BY CycleMoves, Zenon
<1>2. PICK s \in {<< >>} \union {<<w>> : w \in Sends} :
        onLine' = (IF rxCompletes THEN queued(tx_buf) ELSE onLine) \o s
  BY LineQueue, Zenon
<1>3. after(r) \in Seq(0 .. 255)
  <2>1. rx_buf \in Seq(0 .. 255)
    BY Zenon DEF LineInv, Queues
  <2>2. CASE r
    BY <1>1, <2>1, <2>2, HeadIn
  <2>3. CASE ~r
    BY <2>1, <2>3
  <2> QED
    BY <2>2, <2>3
<1>4. s \in Abstract!Sent
  BY DEF Abstract!Sent, Sends
<1>5. after(r) = Abstract!Rest(r)
  BY DEF Abstract!Rest
<1>6. CASE ~rxCompletes
  <2>1. rx_buf' = after(r)
    <3>1. rx_buf' = after(r) \o << >>
      BY <1>1, <1>6, Zenon
    <3> HIDE DEF after
    <3> QED
      BY <1>3, <3>1, ConcatEmptySeq
  <2>2. w0' = w0 \o s
    BY <1>w, <1>2, <1>6
  <2> HIDE DEF after
  <2>3. Abstract!Keeps(r)
    BY <1>4, <1>5, <2>1, <2>2 DEF Abstract!Keeps
  <2> QED
    BY <1>1, <2>3 DEF Abstract!LineNext
<1>7. CASE rxCompletes
  <2>1. w0 # << >> /\ Head(w0) = theWord /\ Tail(w0) = queued(tx_buf)
    BY <1>w, <1>7, OldestFirst
  <2>2. w0' = Tail(w0) \o s
    BY <1>w, <1>2, <1>7, <2>1
  <2>3. adjust_word \in IF noisy THEN 0 .. 255 ELSE {Head(w0)}
    BY <1>7, <2>1, ArrivesUnchanged
  <2>4. rxFull <=> Len(rx_buf) = K
    BY DEF rxFull
  <2>5. CASE rxFull
    <3>1. rx_buf' = after(r)
      <4>1. rx_buf' = after(r) \o << >>
        BY <1>1, <2>5, Zenon
      <4> HIDE DEF after
      <4> QED
        BY <1>3, <4>1, ConcatEmptySeq
    <3> HIDE DEF after
    <3>2. Abstract!Arrive(r)
      BY <1>4, <1>5, <2>1, <2>2, <2>4, <2>5, <3>1 DEF Abstract!Arrive
    <3> QED
      BY <1>1, <3>2 DEF Abstract!LineNext
  <2>6. CASE ~rxFull
    <3>1. rx_buf' = Append(after(r), adjust_word)
      <4>1. rx_buf' = after(r) \o <<adjust_word>>
        BY <1>1, <1>7, <2>6, Zenon
      <4>2. adjust_word \in 0 .. 255
        BY <1>7, ArrivesUnchanged
      <4> HIDE DEF after
      <4> QED
        BY <1>3, <4>1, <4>2, AppendOne
    <3> HIDE DEF after
    <3>2. Abstract!Arrive(r)
      BY <1>4, <1>5, <2>1, <2>2, <2>3, <2>4, <2>6, <3>1 DEF Abstract!Arrive
    <3> QED
      BY <1>1, <3>2 DEF Abstract!LineNext
  <2> QED
    BY <2>5, <2>6
<1> QED
  BY <1>6, <1>7

(* Two ends whose clocks agree are a queue: every word arrives once, in    *)
(* order and with its bits, whatever the rate, the format, the words and   *)
(* the cycles in which they are written; one is lost only when the receive *)
(* FIFO is full, and changed only by noise.                                *)
THEOREM LineIsAQueue ==
  ASSUME ClocksAgree, WholeStops
  PROVE  Spec => ImplementsLine
<1>1. ASSUME Init PROVE Abstract!LineInit
  <2>1. tx_buf = << >> /\ rx_buf = << >> /\ noise = "none" /\ sent = << >>
    BY <1>1, Zenon DEF Init
  <2>2. sent \o [i \in 1 .. Len(tx_buf) |-> dataOf(tx_buf[i])] = << >>
    BY <2>1
  <2> QED
    BY <2>1, <2>2 DEF Abstract!LineInit
<1>2. ASSUME LineInv, [Next]_vars PROVE [Abstract!LineNext]_(Abstract!lineVars)
  <2>1. CASE Next
    BY <1>2, <2>1, LineNextHolds
  <2>2. CASE UNCHANGED vars
    <3>1. tx_buf' = tx_buf /\ rx_buf' = rx_buf /\ noise' = noise /\ sent' = sent /\ setup' = setup
      BY <2>2, Zenon DEF vars
    <3>2. queued(tx_buf)' = queued(tx_buf)
      BY <3>1, QueuedMoves
    <3> QED
      BY <3>1, <3>2 DEF Abstract!lineVars, queued
  <2> QED
    BY <1>2, <2>1, <2>2
<1> QED
  BY <1>1, <1>2, LineStarts, LineStep, PTL DEF Spec, ImplementsLine, Abstract!Line

-----------------------------------------------------------------------------
(* Both ends are set to the same rate, and one is a cycle of the other. *)
EqualClocks == \A s \in Setups : s.txBaud = s.rxBaud

(* Equal clocks agree, for every rate: all that is proved above holds of   *)
(* them.                                                                   *)
LEMMA EqualClocksAgree == EqualClocks => ClocksAgree
<1> SUFFICES ASSUME EqualClocks, NEW s \in Setups
             PROVE  LET T == s.txBaud + 1   R == s.rxBaud + 1   m == s.rxBaud \div 2
                        last  == data_length_idx(s.param) + 5 + bitAt(s.param, 8)
                        stops == IF 7 \in s.param THEN 2 ELSE 1
                    IN  /\ last * R + m + 1 < (last + 1) * T
                        /\ (last + 1) * T <= (last + 1) * R + m + 1
                        /\ s.paced \/ (last + 2) * R <= (last + 1 + stops) * T
  BY DEF ClocksAgree
<1> DEFINE q == s.txBaud  T == q + 1  m == q \div 2
           last == data_length_idx(s.param) + 5 + bitAt(s.param, 8)
           stops == IF 7 \in s.param THEN 2 ELSE 1
<1>1. q \in Nat \ {0} /\ s.rxBaud = q
  BY LineAssumption, Zenon DEF EqualClocks
<1>2. last \in Nat /\ stops \in {1, 2}
  BY SMT DEF data_length_idx, bitAt
<1>3. m \in Nat /\ m + 1 < T /\ T \in Nat
  <2> HIDE DEF q
  <2> QED
    BY <1>1, SMT
<1> HIDE DEF q, T, m, last, stops
<1> DEFINE A == last * T  B == (last + 1) * T  C == (last + 2) * T  D == (last + 1 + stops) * T
<1>4. A \in Nat /\ B = A + T /\ C = A + T + T
  BY <1>2, <1>3, Products
<1>5. C <= D
  <2>1. last + 2 \in Nat /\ last + 1 + stops \in Nat /\ last + 2 <= last + 1 + stops
    BY <1>2, SMT
  <2> QED
    BY <1>3, <2>1, Products
<1> HIDE DEF A, B, C, D
<1>6. A + m + 1 < B /\ B <= B + m + 1
  BY <1>3, <1>4, SMT
<1>7. /\ last * T + m + 1 < (last + 1) * T
      /\ (last + 1) * T <= (last + 1) * T + m + 1
      /\ (last + 2) * T <= (last + 1 + stops) * T
  BY <1>3, <1>5, <1>6 DEF A, B, C, D
<1> QED
  BY <1>1, <1>7 DEF q, T, m, last, stops
=============================================================================

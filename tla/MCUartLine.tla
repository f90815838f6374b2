----------------------------- MODULE MCUartLine -----------------------------
(* How the two ends of the line are set. *)
EXTENDS UartLine

(* Bits [6:5], 7 and [10:8] of the control word, as sets of bit numbers. *)
Bits5 == {}     Bits7 == {6}     Bits8 == {5, 6}
Stop1 == {}     Stop2 == {7}
NoParity == {}  Odd == {8}       Even == {8, 9}   High == {8, 10}   Low == {8, 9, 10}

Same(param, baud) == [param |-> param, txBaud |-> baud, rxBaud |-> baud,
                      reader |-> "cpu", paced |-> FALSE, noisy |-> FALSE]

(* UART_PARAM, at the highest rate (baud_period_m1 = 1). *)
UltraFast == Same(Bits8, 1)

MCSetups == {
  UltraFast,
  [UltraFast EXCEPT !.reader = "host"],
  Same(Bits8, 4),
  [Same(Bits5, 2) EXCEPT !.reader = "host"],
  [Same(Bits8 \union Stop2 \union High, 4) EXCEPT !.reader = "host"],
  [Same(Bits7 \union Stop2 \union Low, 2) EXCEPT !.reader = "host"],
  [Same(Bits7 \union Stop2 \union Odd, 2) EXCEPT !.noisy = TRUE, !.reader = "host"],
  [Same(Bits8 \union Even, 1) EXCEPT !.noisy = TRUE, !.reader = "host"],
  [Same(Bits8, 23) EXCEPT !.txBaud = 24, !.reader = "host"],
  [Same(Bits8, 23) EXCEPT !.txBaud = 22, !.paced = TRUE] }

(* One and a half stop bits. *)
MCStopSetups == {Same(Bits5 \union Stop2, 3)}

(* All of them are within what UartLine_proofs assumes of the clocks. *)
ASSUME ClocksAgree
=============================================================================

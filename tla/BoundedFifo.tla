----------------------------- MODULE BoundedFifo -----------------------------
(***************************************************************************)
(* What a UART data buffer promises to its two users: a first-in first-out *)
(* queue of at most Capacity bytes.  In one clock cycle the consumer may   *)
(* ask for a byte and the producer may offer one; a request against an     *)
(* empty queue and an offer to a full one have no effect.  Fullness is     *)
(* judged before the cycle's removal, so a full queue refuses an offer     *)
(* even in a cycle that also removes a byte.                               *)
(***************************************************************************)
EXTENDS Naturals, Sequences

CONSTANTS Capacity,  \* how many bytes the queue holds
          Bytes      \* what a byte can be

VARIABLES queue,     \* the bytes in the buffer, oldest first
          dout       \* the byte the consumer took last

fifoVars == <<queue, dout>>

FifoInit == queue = << >> /\ dout \in Bytes

(* One clock cycle: `rd' the consumer asks, `wr' the producer offers b. *)
FifoCycle(rd, wr, b) ==
  LET taken    == rd /\ queue # << >>
      accepted == wr /\ Len(queue) < Capacity
      rest     == IF taken THEN Tail(queue) ELSE queue
  IN  /\ dout'  = IF taken THEN Head(queue) ELSE dout
      /\ queue' = IF accepted THEN Append(rest, b) ELSE rest

FifoReset == queue' = << >> /\ UNCHANGED dout

FifoNext == \/ \E rd, wr \in BOOLEAN, b \in Bytes : FifoCycle(rd, wr, b)
            \/ FifoReset

FifoSpec == FifoInit /\ [][FifoNext]_fifoVars

=============================================================================

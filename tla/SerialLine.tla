----------------------------- MODULE SerialLine -----------------------------
(***************************************************************************)
(* What a serial line promises: the words given to the transmitter arrive  *)
(* in the order they were given, each once and unchanged.  A word is lost  *)
(* only when the receive queue is full as it arrives, and changed only     *)
(* when there is noise on the line.                                        *)
(***************************************************************************)
EXTENDS Naturals, Sequences

CONSTANTS Capacity,  \* how many words the receive queue holds
          Sendable,  \* the words that are sent
          Readable   \* the words that may be read, when noise changes some

VARIABLES waiting,   \* words sent that have not arrived, oldest first
          received,  \* words that have arrived and were not read
          noisy      \* there is noise on the line

lineVars == <<waiting, received, noisy>>

LineInit == waiting = << >> /\ received = << >> /\ ~noisy

(* In one step a word is sent or none, one arrives or none, one is read or *)
(* none.  Fullness is judged before the step.                              *)
Sent    == {<< >>} \union {<<w>> : w \in Sendable}
Rest(r) == IF r THEN Tail(received) ELSE received

Keeps(r)  == received' = Rest(r) /\ \E s \in Sent : waiting' = waiting \o s

Arrive(r) ==
  /\ waiting # << >>
  /\ \E s \in Sent : waiting' = Tail(waiting) \o s
  /\ IF Len(received) = Capacity THEN received' = Rest(r)
     ELSE \E w \in IF noisy THEN Readable ELSE {Head(waiting)} :
            received' = Append(Rest(r), w)

LineNext == \E r \in BOOLEAN : /\ r => received # << >>
                               /\ Keeps(r) \/ Arrive(r)

Line == LineInit /\ [][LineNext]_lineVars
=============================================================================

-------------------------------- MODULE IOBuf --------------------------------
(***************************************************************************)
(* The ring buffer template IOBuf<T, bw> of src/rv32_io.h: a register file *)
(* of MAX_IO_BUF_SIZE slots with a read pointer, a write pointer and two   *)
(* flags kept beside them.  When the pointers are equal only the flags     *)
(* tell an empty buffer from a full one, so the flags have to be right     *)
(* after every mix of reads, writes and resets.  UART::do_rx and           *)
(* UART::do_tx each call update exactly once per clock cycle, with rflag   *)
(* and wflag computed from the flags of the cycle before.                  *)
(***************************************************************************)
EXTENDS Naturals

CONSTANTS MAX_IO_BUF_SIZE,  \* slots of the register file
          Bytes             \* contents of a slot

ASSUME BufAssumption == MAX_IO_BUF_SIZE \in Nat \ {0}

VARIABLES rp, wp,           \* the slot to read next and the slot to write next
          not_empty, full,  \* the two flags
          buf,              \* the register file; a reset does not clear it
          dout              \* the byte the last read returned

vars == <<rp, wp, not_empty, full, buf, dout>>

Slots == 0 .. MAX_IO_BUF_SIZE - 1

(* A faulty form of nxt_pnt: the pointer wraps one slot late. *)
nxt_pnt_late(p) == IF p = MAX_IO_BUF_SIZE THEN 0 ELSE p + 1

nxt_pnt(p) == IF p = MAX_IO_BUF_SIZE - 1 THEN 0 ELSE p + 1

(* The registers of the file hold anything before they are written. *)
Init == /\ rp = 0 /\ wp = 0
        /\ not_empty = FALSE /\ full = FALSE
        /\ buf \in [Slots -> Bytes]
        /\ dout \in Bytes

-----------------------------------------------------------------------------
(* Faulty forms of the definitions below, which break the properties.      *)

(* not_empty computed from the pointers alone, as if a write did not matter. *)
update_not_empty_by_pointers(rflag, wflag) ==
  LET nrp == IF rflag THEN nxt_pnt(rp) ELSE rp
      nwp == IF wflag THEN nxt_pnt(wp) ELSE wp
  IN  /\ not_empty' = (nrp # nwp)
      /\ full' = (~rflag /\ wflag /\ nrp = nwp)
      /\ rp' = nrp /\ wp' = nwp

(* full computed from the pointers alone, as if a read did not matter. *)
update_full_by_pointers(rflag, wflag) ==
  LET nrp == IF rflag THEN nxt_pnt(rp) ELSE rp
      nwp == IF wflag THEN nxt_pnt(wp) ELSE wp
  IN  IF rflag \/ wflag
      THEN /\ not_empty' = (wflag \/ nrp # nwp)
           /\ full' = (nrp = nwp)
           /\ rp' = nrp /\ wp' = nwp
      ELSE UNCHANGED <<rp, wp, not_empty, full>>

-----------------------------------------------------------------------------
update(rflag, wflag) ==
  LET nrp == IF rflag THEN nxt_pnt(rp) ELSE rp
      nwp == IF wflag THEN nxt_pnt(wp) ELSE wp
  IN  IF rflag \/ wflag
      THEN /\ not_empty' = (wflag \/ nrp # nwp)
           /\ full' = (~rflag /\ nrp = nwp)
           /\ rp' = nrp
           /\ wp' = nwp
      ELSE UNCHANGED <<rp, wp, not_empty, full>>

(* One call of do_rx or do_tx: the consumer asks (rd), the producer offers *)
(* b (wr), and each is granted against the flags of the cycle before.      *)
Cycle(rd, wr, b) ==
  LET rflag == rd /\ not_empty
      wflag == wr /\ ~full
  IN  /\ dout' = IF rflag THEN buf[rp] ELSE dout
      /\ buf'  = IF wflag THEN [buf EXCEPT ![wp] = b] ELSE buf
      /\ update(rflag, wflag)

(* UART::write_command resets both ports whenever the CPU writes ctrl. *)
reset == /\ rp' = 0 /\ wp' = 0
         /\ not_empty' = FALSE /\ full' = FALSE
         /\ UNCHANGED <<buf, dout>>

Next == \/ \E rd, wr \in BOOLEAN, b \in Bytes : Cycle(rd, wr, b)
        \/ reset

Spec == Init /\ [][Next]_vars

-----------------------------------------------------------------------------
(* The pointers stay inside the register file, so no access is out of it. *)
TypeOK == /\ rp \in Slots
          /\ wp \in Slots
          /\ not_empty \in BOOLEAN
          /\ full \in BOOLEAN
          /\ buf \in [Slots -> Bytes]
          /\ dout \in Bytes

(* The flags decide what equal pointers mean: distinct pointers are        *)
(* neither empty nor full, equal ones are exactly one of the two.  do_rx   *)
(* and do_tx test the flags alone, so a wrong flag pops a stale byte or    *)
(* overwrites an unread one some cycles later.                             *)
FlagsAgree == /\ rp # wp => not_empty /\ ~full
              /\ rp = wp => (not_empty <=> full)

(* How many bytes lie between read pointer r and write pointer w when f    *)
(* tells whether the buffer is full, and the i-th slot from r on.          *)
Stored(r, w, f) == IF f THEN MAX_IO_BUF_SIZE
                   ELSE IF r <= w THEN w - r ELSE w + MAX_IO_BUF_SIZE - r

SlotAt(r, i) == IF r + (i - 1) < MAX_IO_BUF_SIZE
                THEN r + (i - 1)
                ELSE r + (i - 1) - MAX_IO_BUF_SIZE

(* The bytes of register file g waiting between the two pointers. *)
Waiting(r, w, f, g) == [i \in 1 .. Stored(r, w, f) |-> g[SlotAt(r, i)]]

(* The bytes waiting in the buffer, oldest first. *)
Contents == Waiting(rp, wp, full, buf)

Fifo == INSTANCE BoundedFifo
          WITH Capacity <- MAX_IO_BUF_SIZE, queue <- Contents

(* The ring buffer is a bounded queue: whatever the interleaving of reads, *)
(* writes and resets, bytes leave in the order they were accepted, each    *)
(* once, and none is accepted beyond the capacity.                         *)
ImplementsFifo == Fifo!FifoSpec

=============================================================================

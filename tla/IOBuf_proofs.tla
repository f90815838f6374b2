---------------------------- MODULE IOBuf_proofs ----------------------------
(***************************************************************************)
(* Proofs about IOBuf for every buffer size and every set of bytes: the    *)
(* pointers stay in range, the flags agree with the pointers, and the ring *)
(* buffer implements the bounded queue of BoundedFifo.                     *)
(***************************************************************************)
EXTENDS IOBuf, Integers, Sequences, SequenceTheorems, TLAPS

(* Advancing a pointer stays inside the register file. *)
LEMMA NxtPntInRange ==
  ASSUME NEW p \in Slots
  PROVE  nxt_pnt(p) \in Slots
BY BufAssumption DEF Slots, nxt_pnt

(* Two pointers that differ still differ after both advanced. *)
LEMMA NxtPntInjective ==
  ASSUME NEW p \in Slots, NEW q \in Slots, nxt_pnt(p) = nxt_pnt(q)
  PROVE  p = q
BY BufAssumption DEF Slots, nxt_pnt

(* The pointers of a reset buffer are in range too. *)
LEMMA ZeroIsSlot == 0 \in Slots
BY BufAssumption DEF Slots

(* Every step keeps the types: no pointer leaves the register file. *)
LEMMA TypeInductive == TypeOK /\ [Next]_vars => TypeOK'
<1> SUFFICES ASSUME TypeOK, [Next]_vars
             PROVE  TypeOK'
  OBVIOUS
<1>1. ASSUME NEW rd \in BOOLEAN, NEW wr \in BOOLEAN, NEW b \in Bytes,
             Cycle(rd, wr, b)
      PROVE  TypeOK'
  <2> DEFINE rflag == rd /\ not_empty
             wflag == wr /\ ~full
  <2>1. nxt_pnt(rp) \in Slots /\ nxt_pnt(wp) \in Slots
    BY NxtPntInRange DEF TypeOK
  <2>2. dout' \in Bytes /\ buf' \in [Slots -> Bytes]
    BY <1>1 DEF Cycle, TypeOK
  <2>3. update(rflag, wflag)
    BY <1>1 DEF Cycle
  <2>4. rp' \in Slots /\ wp' \in Slots /\ not_empty' \in BOOLEAN /\ full' \in BOOLEAN
    BY <2>1, <2>3 DEF update, TypeOK
  <2> QED
    BY <2>2, <2>4 DEF TypeOK
<1>2. CASE reset
  BY <1>2, ZeroIsSlot DEF reset, TypeOK
<1>3. CASE UNCHANGED vars
  BY <1>3 DEF vars, TypeOK
<1> QED
  BY <1>1, <1>2, <1>3 DEF Next

(* In every reachable state the pointers are slots of the register file,   *)
(* so buf->buf[rp] and buf->buf[wp] never reach outside it.                *)
THEOREM TypeCorrect == Spec => []TypeOK
<1>1. Init => TypeOK
  BY ZeroIsSlot DEF Init, TypeOK
<1> QED
  BY <1>1, TypeInductive, PTL DEF Spec

-----------------------------------------------------------------------------
(* A call of update keeps the flags in agreement with the pointers, given  *)
(* that nothing is read from an empty buffer or written to a full one.     *)
LEMMA FlagsInductive == TypeOK /\ FlagsAgree /\ [Next]_vars => FlagsAgree'
<1> SUFFICES ASSUME TypeOK, FlagsAgree, [Next]_vars
             PROVE  FlagsAgree'
  OBVIOUS
<1>1. ASSUME NEW rd \in BOOLEAN, NEW wr \in BOOLEAN, NEW b \in Bytes,
             Cycle(rd, wr, b)
      PROVE  FlagsAgree'
  <2> DEFINE rflag == rd /\ not_empty
             wflag == wr /\ ~full
             nrp == IF rflag THEN nxt_pnt(rp) ELSE rp
             nwp == IF wflag THEN nxt_pnt(wp) ELSE wp
  <2>1. CASE rflag \/ wflag
    <3>1. /\ not_empty' = (wflag \/ nrp # nwp)
          /\ full' = (~rflag /\ nrp = nwp)
          /\ rp' = nrp
          /\ wp' = nwp
      BY <1>1, <2>1 DEF Cycle, update
    <3>2. rflag /\ wflag => nrp # nwp
      BY NxtPntInjective, Zenon DEF TypeOK, FlagsAgree
    <3> QED
      BY <2>1, <3>1, <3>2, Zenon DEF FlagsAgree
  <2>2. CASE ~(rflag \/ wflag)
    BY <1>1, <2>2, Zenon DEF Cycle, update, FlagsAgree
  <2> QED
    BY <2>1, <2>2
<1>2. CASE reset
  BY <1>2 DEF reset, FlagsAgree
<1>3. CASE UNCHANGED vars
  BY <1>3 DEF vars, FlagsAgree
<1> QED
  BY <1>1, <1>2, <1>3 DEF Next

(* The flags tell empty from full in every reachable state. *)
THEOREM FlagsCorrect == Spec => []FlagsAgree
<1>1. Init => FlagsAgree
  BY DEF Init, FlagsAgree
<1> QED
  BY <1>1, FlagsInductive, TypeCorrect, PTL DEF Spec

-----------------------------------------------------------------------------
(* Arithmetic of the ring: where the slots from a read pointer on lie, and *)
(* how the number of stored bytes changes as the pointers advance.         *)

(* A buffer that is not full holds less than the capacity, and nothing     *)
(* exactly when the pointers are equal.                                    *)
LEMMA StoredRange ==
  ASSUME NEW r \in Slots, NEW w \in Slots
  PROVE  /\ Stored(r, w, FALSE) \in 0 .. MAX_IO_BUF_SIZE - 1
         /\ Stored(r, w, FALSE) = 0 <=> r = w
BY BufAssumption DEF Slots, Stored

(* Slots counted from a read pointer are slots. *)
LEMMA SlotAtInSlots ==
  ASSUME NEW r \in Slots, NEW i \in 1 .. MAX_IO_BUF_SIZE
  PROVE  SlotAt(r, i) \in Slots
BY BufAssumption DEF Slots, SlotAt

(* The first slot is the read pointer's; advancing it skips one slot. *)
LEMMA SlotAtAdvance ==
  ASSUME NEW r \in Slots
  PROVE  /\ SlotAt(r, 1) = r
         /\ \A i \in 1 .. MAX_IO_BUF_SIZE - 1 : SlotAt(nxt_pnt(r), i) = SlotAt(r, i + 1)
BY BufAssumption DEF Slots, SlotAt, nxt_pnt

(* The write pointer is the slot after the stored bytes, and no slot of    *)
(* theirs.                                                                 *)
LEMMA SlotAtWritePointer ==
  ASSUME NEW r \in Slots, NEW w \in Slots
  PROVE  /\ SlotAt(r, Stored(r, w, FALSE) + 1) = w
         /\ \A i \in 1 .. Stored(r, w, FALSE) : SlotAt(r, i) # w
BY BufAssumption DEF Slots, SlotAt, Stored

(* A write adds a byte, and fills the buffer when it meets the read pointer. *)
LEMMA StoredWrite ==
  ASSUME NEW r \in Slots, NEW w \in Slots
  PROVE  /\ r = nxt_pnt(w) => Stored(r, w, FALSE) + 1 = MAX_IO_BUF_SIZE
         /\ r # nxt_pnt(w) => Stored(r, nxt_pnt(w), FALSE) = Stored(r, w, FALSE) + 1
BY BufAssumption DEF Slots, Stored, nxt_pnt

(* A read removes a byte. *)
LEMMA StoredRead ==
  ASSUME NEW r \in Slots, NEW w \in Slots
  PROVE  /\ r # w => Stored(nxt_pnt(r), w, FALSE) = Stored(r, w, FALSE) - 1
         /\ Stored(nxt_pnt(r), r, FALSE) = MAX_IO_BUF_SIZE - 1
BY BufAssumption DEF Slots, Stored, nxt_pnt

(* A read and a write together keep the number of bytes. *)
LEMMA StoredReadWrite ==
  ASSUME NEW r \in Slots, NEW w \in Slots, r # w
  PROVE  Stored(nxt_pnt(r), nxt_pnt(w), FALSE) = Stored(r, w, FALSE)
BY BufAssumption DEF Slots, Stored, nxt_pnt

-----------------------------------------------------------------------------
(* The waiting bytes as a sequence, and what a read and a write do to it.  *)

(* The waiting bytes form a sequence as long as the ring says. *)
LEMMA WaitingIsSequence ==
  ASSUME NEW r \in Slots, NEW w \in Slots, NEW f \in BOOLEAN,
         NEW g \in [Slots -> Bytes]
  PROVE  /\ Waiting(r, w, f, g) \in Seq(Bytes)
         /\ Len(Waiting(r, w, f, g)) = Stored(r, w, f)
         /\ Stored(r, w, f) \in 0 .. MAX_IO_BUF_SIZE
         /\ \A i \in 1 .. Stored(r, w, f) :
              Waiting(r, w, f, g)[i] = g[SlotAt(r, i)]
<1> DEFINE n == Stored(r, w, f)
<1>1. n \in 0 .. MAX_IO_BUF_SIZE
  BY StoredRange, BufAssumption DEF Stored
<1>2. \A i \in 1 .. n : SlotAt(r, i) \in Slots
  <2> SUFFICES ASSUME NEW i \in 1 .. n PROVE SlotAt(r, i) \in Slots
    OBVIOUS
  <2>1. i \in 1 .. MAX_IO_BUF_SIZE
    BY <1>1, BufAssumption
  <2> QED
    BY <2>1, SlotAtInSlots
<1>3. Waiting(r, w, f, g) \in [1 .. n -> Bytes]
  BY <1>2 DEF Waiting
<1>4. n \in Nat
  BY <1>1
<1> QED
  BY <1>1, <1>3, <1>4 DEF Waiting

(* A write to a buffer that is not full appends the byte. *)
LEMMA WriteAppends ==
  ASSUME NEW r \in Slots, NEW w \in Slots, NEW g \in [Slots -> Bytes],
         NEW b \in Bytes
  PROVE  Waiting(r, nxt_pnt(w), r = nxt_pnt(w), [g EXCEPT ![w] = b])
           = Append(Waiting(r, w, FALSE, g), b)
<1> DEFINE h == [g EXCEPT ![w] = b]
           n == Stored(r, w, FALSE)
           f == r = nxt_pnt(w)
           m == Stored(r, nxt_pnt(w), f)
           old == Waiting(r, w, FALSE, g)
           new == Waiting(r, nxt_pnt(w), f, h)
<1>1. /\ nxt_pnt(w) \in Slots /\ f \in BOOLEAN
      /\ h \in [Slots -> Bytes] /\ h[w] = b
      /\ \A s \in Slots : s # w => h[s] = g[s]
  BY NxtPntInRange
<1>2. n \in Nat /\ n < MAX_IO_BUF_SIZE
  <2>1. n \in 0 .. MAX_IO_BUF_SIZE - 1
    BY StoredRange
  <2> HIDE DEF n
  <2> QED
    BY <2>1, BufAssumption
<1>3. m = n + 1
  BY StoredWrite DEF Stored
<1>4. SlotAt(r, n + 1) = w /\ \A i \in 1 .. n : SlotAt(r, i) # w
  BY SlotAtWritePointer
<1>5. /\ old \in Seq(Bytes) /\ Len(old) = n
      /\ \A i \in 1 .. n : old[i] = g[SlotAt(r, i)]
  BY WaitingIsSequence
<1> HIDE DEF h, n, f
<1>6. /\ new \in Seq(Bytes) /\ Len(new) = m
      /\ \A i \in 1 .. m : new[i] = h[SlotAt(r, i)]
  BY <1>1, WaitingIsSequence
<1> HIDE DEF old, new, m
<1>7. \A i \in 1 .. n : SlotAt(r, i) \in Slots
  BY <1>2, SlotAtInSlots, BufAssumption
<1>8. \A i \in 1 .. n : new[i] = old[i]
  BY <1>1, <1>2, <1>3, <1>4, <1>5, <1>6, <1>7
<1>9. new[n + 1] = b
  BY <1>1, <1>2, <1>3, <1>4, <1>6
<1>10. /\ Append(old, b) \in Seq(Bytes) /\ Len(Append(old, b)) = n + 1
       /\ \A i \in 1 .. n : Append(old, b)[i] = old[i]
       /\ Append(old, b)[n + 1] = b
  BY <1>5, AppendProperties
<1>11. \A i \in 1 .. n + 1 : new[i] = Append(old, b)[i]
  BY <1>2, <1>8, <1>9, <1>10
<1>12. new = Append(old, b)
  BY <1>3, <1>6, <1>10, <1>11, SeqEqual
<1> QED
  BY <1>12 DEF old, new, h, f

(* A read of a buffer that is not empty removes its oldest byte. *)
LEMMA ReadRemoves ==
  ASSUME NEW r \in Slots, NEW w \in Slots, NEW f \in BOOLEAN,
         NEW g \in [Slots -> Bytes], f <=> r = w
  PROVE  /\ Waiting(r, w, f, g) # << >>
         /\ Head(Waiting(r, w, f, g)) = g[r]
         /\ Waiting(nxt_pnt(r), w, FALSE, g) = Tail(Waiting(r, w, f, g))
<1> DEFINE n == Stored(r, w, f)
           m == Stored(nxt_pnt(r), w, FALSE)
           old == Waiting(r, w, f, g)
           new == Waiting(nxt_pnt(r), w, FALSE, g)
<1>1. nxt_pnt(r) \in Slots
  BY NxtPntInRange
<1>2. n \in Nat /\ n # 0 /\ n <= MAX_IO_BUF_SIZE
  <2>1. CASE f
    BY <2>1, BufAssumption DEF Stored
  <2>2. CASE ~f
    BY <2>2, StoredRange, BufAssumption DEF Stored
  <2> QED
    BY <2>1, <2>2
<1>3. m = n - 1
  BY StoredRead DEF Stored
<1>4. /\ old \in Seq(Bytes) /\ Len(old) = n
      /\ \A i \in 1 .. n : old[i] = g[SlotAt(r, i)]
  BY WaitingIsSequence
<1>5. /\ new \in Seq(Bytes) /\ Len(new) = m
      /\ \A i \in 1 .. m : new[i] = g[SlotAt(nxt_pnt(r), i)]
  BY <1>1, WaitingIsSequence
<1> HIDE DEF old, new, n, m
<1>6. \A i \in 1 .. m : SlotAt(nxt_pnt(r), i) = SlotAt(r, i + 1)
  <2> SUFFICES ASSUME NEW i \in 1 .. m
               PROVE  SlotAt(nxt_pnt(r), i) = SlotAt(r, i + 1)
    OBVIOUS
  <2>1. i \in 1 .. MAX_IO_BUF_SIZE - 1
    BY <1>2, <1>3, BufAssumption
  <2> QED
    BY <2>1, SlotAtAdvance
<1>7. old[1] = g[r]
  BY <1>2, <1>4, SlotAtAdvance
<1>8. \A i \in 1 .. m : new[i] = old[i + 1]
  BY <1>2, <1>3, <1>4, <1>5, <1>6
<1>9. old # << >>
  BY <1>2, <1>4, EmptySeq
<1>10. /\ Head(old) = old[1]
       /\ Tail(old) \in Seq(Bytes) /\ Len(Tail(old)) = m
       /\ \A i \in 1 .. m : Tail(old)[i] = old[i + 1]
  BY <1>3, <1>4, <1>9, HeadTailProperties
<1>11. new = Tail(old)
  BY <1>5, <1>8, <1>10, SeqEqual
<1> QED
  BY <1>7, <1>9, <1>10, <1>11 DEF old, new

-----------------------------------------------------------------------------
(* The refinement: a cycle of the ring buffer is a cycle of the queue.     *)

(* The flags tell the queue's emptiness and fullness. *)
LEMMA FlagsTellLength ==
  ASSUME TypeOK, FlagsAgree
  PROVE  /\ not_empty <=> Contents # << >>
         /\ full <=> ~(Len(Contents) < MAX_IO_BUF_SIZE)
<1> DEFINE n == Stored(rp, wp, full)
<1>1. rp \in Slots /\ wp \in Slots /\ full \in BOOLEAN /\ buf \in [Slots -> Bytes]
  BY DEF TypeOK
<1>2. Contents \in Seq(Bytes) /\ Len(Contents) = n /\ n \in 0 .. MAX_IO_BUF_SIZE
  BY <1>1, WaitingIsSequence DEF Contents
<1>3. CASE full
  <2>1. n = MAX_IO_BUF_SIZE
    BY <1>3 DEF Stored
  <2>2. not_empty
    BY <1>3, Zenon DEF FlagsAgree
  <2>3. Contents # << >> /\ ~(Len(Contents) < MAX_IO_BUF_SIZE)
    BY <1>2, <2>1, BufAssumption, EmptySeq
  <2> QED
    BY <1>3, <2>2, <2>3, Zenon
<1>4. CASE ~full
  <2>1. n = Stored(rp, wp, FALSE)
    BY <1>4 DEF Stored
  <2>2. n \in 0 .. MAX_IO_BUF_SIZE - 1 /\ (n = 0 <=> rp = wp)
    BY <1>1, <2>1, StoredRange
  <2>3. not_empty <=> rp # wp
    BY <1>4, Zenon DEF FlagsAgree
  <2> HIDE DEF n
  <2>4. Len(Contents) < MAX_IO_BUF_SIZE
    BY <1>2, <2>2, BufAssumption
  <2>5. Contents # << >> <=> rp # wp
    BY <1>2, <2>2, EmptySeq
  <2> QED
    BY <1>4, <2>3, <2>4, <2>5, Zenon
<1> QED
  BY <1>3, <1>4

(* A call of do_rx or do_tx is a cycle of the bounded queue. *)
LEMMA CycleRefines ==
  ASSUME TypeOK, FlagsAgree,
         NEW rd \in BOOLEAN, NEW wr \in BOOLEAN, NEW b \in Bytes,
         Cycle(rd, wr, b)
  PROVE  Fifo!FifoCycle(rd, wr, b)
<1> DEFINE rflag == rd /\ not_empty
           wflag == wr /\ ~full
<1>1. rp \in Slots /\ wp \in Slots /\ full \in BOOLEAN /\ buf \in [Slots -> Bytes]
  BY DEF TypeOK
<1>2. nxt_pnt(rp) \in Slots /\ nxt_pnt(wp) \in Slots
  BY <1>1, NxtPntInRange
<1>3. /\ dout' = IF rflag THEN buf[rp] ELSE dout
      /\ buf' = IF wflag THEN [buf EXCEPT ![wp] = b] ELSE buf
      /\ update(rflag, wflag)
  BY DEF Cycle
<1>4. rflag => Head(Contents) = buf[rp]
  <2> SUFFICES ASSUME rflag PROVE Head(Contents) = buf[rp]
    OBVIOUS
  <2>1. full <=> rp = wp
    BY Zenon DEF FlagsAgree
  <2> QED
    BY <1>1, <2>1, ReadRemoves DEF Contents
<1>5. CASE rflag /\ wflag
  <2>1. rp # wp /\ ~full
    BY <1>5, Zenon DEF FlagsAgree
  <2>2. nxt_pnt(rp) # nxt_pnt(wp)
    BY <1>1, <2>1, NxtPntInjective
  <2>3. /\ rp' = nxt_pnt(rp) /\ wp' = nxt_pnt(wp) /\ full' = FALSE
        /\ buf' = [buf EXCEPT ![wp] = b]
    BY <1>3, <1>5, Zenon DEF update
  <2> DEFINE g == [buf EXCEPT ![wp] = b]
             f == rp = nxt_pnt(wp)
             more == Waiting(rp, nxt_pnt(wp), f, g)
  <2>4. g \in [Slots -> Bytes] /\ f \in BOOLEAN /\ (f <=> rp = nxt_pnt(wp))
    BY <1>1
  <2>5. more = Append(Contents, b)
    <3>1. Contents = Waiting(rp, wp, FALSE, buf)
      BY <1>1, <2>1 DEF Contents
    <3> QED
      BY <1>1, <3>1, WriteAppends
  <2> HIDE DEF f, g
  <2>6. Waiting(nxt_pnt(rp), nxt_pnt(wp), FALSE, g) = Tail(more)
    <3>1. ASSUME NEW e \in BOOLEAN, e <=> rp = nxt_pnt(wp)
          PROVE  Waiting(nxt_pnt(rp), nxt_pnt(wp), FALSE, g)
                   = Tail(Waiting(rp, nxt_pnt(wp), e, g))
      BY <1>1, <1>2, <2>4, <3>1, ReadRemoves
    <3> QED
      BY <2>4, <3>1, Zenon
  <2> HIDE DEF more
  <2>7. Contents' = Tail(more)
    BY <2>3, <2>6, Zenon DEF Contents, g
  <2>8. Contents \in Seq(Bytes) /\ Contents # << >>
    BY <1>1, <1>5, WaitingIsSequence, FlagsTellLength, Zenon DEF Contents
  <2>9. Tail(Append(Contents, b)) = Append(Tail(Contents), b)
    BY <2>8
  <2> QED
    BY <1>3, <1>4, <1>5, <2>5, <2>7, <2>9, FlagsTellLength, Zenon DEF Fifo!FifoCycle
<1>6. CASE rflag /\ ~wflag
  <2>1. full <=> rp = wp
    BY <1>6, Zenon DEF FlagsAgree
  <2>2. rp' = nxt_pnt(rp) /\ wp' = wp /\ full' = FALSE /\ buf' = buf
    BY <1>3, <1>6, Zenon DEF update
  <2>3. Waiting(nxt_pnt(rp), wp, FALSE, buf) = Tail(Contents)
    BY <1>1, <2>1, ReadRemoves DEF Contents
  <2>4. Contents' = Tail(Contents)
    BY <2>2, <2>3, Zenon DEF Contents
  <2> QED
    BY <1>3, <1>4, <1>6, <2>4, FlagsTellLength, Zenon DEF Fifo!FifoCycle
<1>7. CASE ~rflag /\ wflag
  <2>1. Contents = Waiting(rp, wp, FALSE, buf)
    BY <1>1, <1>7 DEF Contents
  <2>2. /\ rp' = rp /\ wp' = nxt_pnt(wp) /\ full' = (rp = nxt_pnt(wp))
        /\ buf' = [buf EXCEPT ![wp] = b]
    BY <1>3, <1>7, Zenon DEF update
  <2>3. Waiting(rp, nxt_pnt(wp), rp = nxt_pnt(wp), [buf EXCEPT ![wp] = b])
          = Append(Waiting(rp, wp, FALSE, buf), b)
    BY <1>1, WriteAppends
  <2>4. Contents' = Append(Contents, b)
    BY <2>1, <2>2, <2>3, Zenon DEF Contents
  <2> QED
    BY <1>3, <1>7, <2>4, FlagsTellLength, Zenon DEF Fifo!FifoCycle
<1>8. CASE ~rflag /\ ~wflag
  <2>1. rp' = rp /\ wp' = wp /\ full' = full /\ buf' = buf
    BY <1>3, <1>8, Zenon DEF update
  <2>2. Contents' = Contents
    BY <2>1, Zenon DEF Contents
  <2> QED
    BY <1>3, <1>8, <2>2, FlagsTellLength, Zenon DEF Fifo!FifoCycle
<1> QED
  BY <1>5, <1>6, <1>7, <1>8, Zenon

(* A reset empties the queue. *)
LEMMA ResetRefines ==
  ASSUME reset
  PROVE  Fifo!FifoReset
<1>1. rp' = 0 /\ wp' = 0 /\ full' = FALSE /\ dout' = dout
  BY DEF reset
<1>2. ASSUME NEW g PROVE Waiting(0, 0, FALSE, g) = << >>
  BY DEF Waiting, Stored
<1>3. Contents' = << >>
  BY <1>1, <1>2, Zenon DEF Contents
<1> QED
  BY <1>1, <1>3, Zenon DEF Fifo!FifoReset

(* The ring buffer of the UARTs is a bounded first-in first-out queue, for *)
(* every capacity: each accepted byte leaves once, in order, and a read or *)
(* a write takes effect exactly when the queue's emptiness or fullness     *)
(* allows it.                                                              *)
THEOREM RingImplementsFifo == Spec => ImplementsFifo
<1>1. Init => Fifo!FifoInit
  <2> SUFFICES ASSUME Init PROVE Contents = << >> /\ dout \in Bytes
    BY DEF Fifo!FifoInit
  <2>1. Stored(rp, wp, full) = 0
    BY DEF Init, Stored
  <2> QED
    BY <2>1 DEF Init, Contents, Waiting
<1>2. TypeOK /\ FlagsAgree /\ [Next]_vars => [Fifo!FifoNext]_(Fifo!fifoVars)
  <2> SUFFICES ASSUME TypeOK, FlagsAgree, [Next]_vars
               PROVE  [Fifo!FifoNext]_(Fifo!fifoVars)
    OBVIOUS
  <2>1. ASSUME NEW rd \in BOOLEAN, NEW wr \in BOOLEAN, NEW b \in Bytes,
               Cycle(rd, wr, b)
        PROVE  Fifo!FifoNext
    BY <2>1, CycleRefines, Zenon DEF Fifo!FifoNext
  <2>2. CASE reset
    BY <2>2, ResetRefines, Zenon DEF Fifo!FifoNext
  <2>3. CASE UNCHANGED vars
    BY <2>3, Zenon DEF vars, Fifo!fifoVars, Contents
  <2> QED
    BY <2>1, <2>2, <2>3, Zenon DEF Next
<1> QED
  BY <1>1, <1>2, TypeCorrect, FlagsCorrect, PTL
     DEF Spec, ImplementsFifo, Fifo!FifoSpec

=============================================================================

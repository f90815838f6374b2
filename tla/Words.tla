------------------------------- MODULE Words -------------------------------
(***************************************************************************)
(* Arithmetic on the machine words of src/rv32.cpp: the ALU of the         *)
(* simulator (compute), the one of the core (ALUcompute, with its adder,   *)
(* and its barrel shifters sll and srx), the shift-and-add multiplier and  *)
(* the byte lanes of loads and stores.                                     *)
(*                                                                         *)
(* A word is four bytes of ByteBits bits, 8 in the source.  It is a number *)
(* where the code adds and compares and the set of its one bits where the  *)
(* code works bit by bit.                                                  *)
(***************************************************************************)
EXTENDS Integers, FiniteSetsExt

CONSTANT ByteBits

ASSUME ByteAssumption == ByteBits \in {1, 2, 4, 8}

XLEN == 4 * ByteBits
Word == 0 .. 2^XLEN - 1
Byte == 0 .. 2^ByteBits - 1

Wrap(n)   == n % 2^XLEN
isSet(x, i) == (x \div 2^i) % 2 = 1
Bits(x)   == {i \in 0 .. XLEN - 1 : isSet(x, i)}
Num(S)    == MapThenSumSet(LAMBDA i : 2^i, S)
And(x, y) == Num(Bits(x) \intersect Bits(y))
Or(x, y)  == Num(Bits(x) \union Bits(y))
Xor(x, y) == Num((Bits(x) \ Bits(y)) \union (Bits(y) \ Bits(x)))
Not(x)    == 2^XLEN - 1 - x
Bit(b)    == IF b THEN 1 ELSE 0
SignOf(x) == x >= 2^(XLEN - 1)

ArithOps  == {"add", "sub"}
ShiftOps  == {"sll", "srl", "sra"}
OrderOps  == {"lt", "ltu", "ge", "geu", "eq", "ne"}
CompOps   == ArithOps \union ShiftOps \union OrderOps \union {"and", "or", "xor"}

-----------------------------------------------------------------------------
(* The ALU of RV32ISim. *)

compute(in0, in1, op) ==
  LET sft_val == in1 % XLEN
      ult == in0 < in1
      slt == (ult # SignOf(in0)) # SignOf(in1)
      srl == in0 \div 2^sft_val
      sign == IF SignOf(in0) THEN {i \in 0 .. XLEN - 1 : i >= XLEN - 1 - sft_val} ELSE {}
  IN CASE op = "add" -> Wrap(in0 + in1)
       [] op = "sub" -> Wrap(in0 - in1)
       [] op = "and" -> And(in0, in1)
       [] op = "or"  -> Or(in0, in1)
       [] op = "xor" -> Xor(in0, in1)
       [] op = "sll" -> Wrap(in0 * 2^sft_val)
       [] op = "srl" -> srl
       [] op = "sra" -> Num(sign \union Bits(srl))
       [] op = "lt"  -> Bit(slt)
       [] op = "ltu" -> Bit(ult)
       [] op = "ge"  -> Bit(~slt)
       [] op = "geu" -> Bit(~ult)
       [] op = "eq"  -> Bit(in0 = in1)
       [] op = "ne"  -> Bit(in0 # in1)
       [] OTHER      -> 0

-----------------------------------------------------------------------------
(* The ALU of RV32I_ARCH1. *)

(* The shift amount has as many bits as it takes to name a bit of a word. *)
Stages == {k \in 0 .. XLEN : 2^k < XLEN}

(* The bits of x after the stages below k.  Stage k of a shifter moves by  *)
(* 2^k when bit k of y is set.                                             *)
sll(x, y) ==
  LET xL[k \in 0 .. Cardinality(Stages)] ==
        IF k = 0 THEN Bits(x)
        ELSE IF isSet(y, k - 1)
               THEN {i + 2^(k - 1) : i \in {j \in xL[k - 1] : j + 2^(k - 1) < XLEN}}
               ELSE xL[k - 1]
  IN Num(xL[Cardinality(Stages)])

(* t, the sign bits that stage k fills in: as many as it moves by. *)
fill(x, sra, k) == IF sra /\ SignOf(x) THEN XLEN - 2^k .. XLEN - 1 ELSE {}

srx(x, y, sra) ==
  LET xR[k \in 0 .. Cardinality(Stages)] ==
        IF k = 0 THEN Bits(x)
        ELSE IF isSet(y, k - 1)
               THEN fill(x, sra, k - 1)
                      \union {i - 2^(k - 1) : i \in {j \in xR[k - 1] : j >= 2^(k - 1)}}
               ELSE xR[k - 1]
  IN Num(xR[Cardinality(Stages)])

ALUcompute(x, y, op) ==
  LET sub  == op \in {"sub", "ltu", "geu", "lt", "ge"}
      as64 == x + (IF sub THEN Not(y) ELSE y) + Bit(sub)
      c31  == as64 >= 2^XLEN
      ge   == (c31 # SignOf(x)) # SignOf(y)
      eq   == Xor(x, y) = 0
  IN CASE op \in {"add", "sub"} -> Wrap(as64)
       [] op = "and" -> And(x, y)
       [] op = "or"  -> Or(x, y)
       [] op = "xor" -> Xor(x, y)
       [] op = "sll" -> sll(x, y % XLEN)
       [] op \in {"srl", "sra"} -> srx(x, y % XLEN, op = "sra")
       [] OTHER -> Bit(\/ op = "ltu" /\ ~c31
                       \/ op = "geu" /\ c31
                       \/ op = "lt" /\ ~ge
                       \/ op = "ge" /\ ge
                       \/ op = "eq" /\ eq
                       \/ op = "ne" /\ ~eq)

-----------------------------------------------------------------------------
(* MD::compute, the multiplier of RV32I_ARCH1: one bit of b in a cycle.  It *)
(* is asked every cycle an instruction of the M extension stays in T2, and  *)
(* only mul is implemented; the others are 0 at once.                       *)

mdInit == [a |-> 0, b |-> 0, c |-> 0, stt |-> 0]

mdStep_wide(md, i1, i2) ==
  IF md.stt = 0 THEN [a |-> i1, b |-> i2, c |-> 0, stt |-> 1]
  ELSE [a |-> Wrap(2 * md.a), b |-> md.b \div 2,
        c |-> IF md.b % 2 = 1 THEN md.c + md.a ELSE md.c, stt |-> Bit(md.b \div 2 # 0)]

mdStep(md, i1, i2) ==
  IF md.stt = 0 THEN [a |-> i1, b |-> i2, c |-> 0, stt |-> 1]
  ELSE LET b1 == md.b \div 2
           c1 == IF md.b % 2 = 1 THEN Wrap(md.c + md.a) ELSE md.c
       IN [a |-> Wrap(2 * md.a), b |-> b1, c |-> c1, stt |-> Bit(b1 # 0)]

(* pending, and md_out, when the multiplier goes from md to mdNext. *)
mdPending(mdNext) == mdNext.stt # 0
mdOut(md, mdNext) == IF md.stt = 0 THEN 0 ELSE mdNext.c

-----------------------------------------------------------------------------
(* Byte lanes.  The size of an access is named by its number of bytes. *)

ld_sext(t) == t \in {"lb", "lh"}
ld_size(t) == CASE t \in {"lb", "lbu"} -> 1 [] t \in {"lh", "lhu"} -> 2 [] OTHER -> 4
st_size(t) == CASE t = "sb" -> 1 [] t = "sh" -> 2 [] OTHER -> 4

LoadOps  == {"lb", "lbu", "lh", "lhu", "lw"}
StoreOps == {"sb", "sh", "sw"}

(* An access that is not aligned to its size sets an error flag and stops. *)
Aligned(addr, size) == addr % size = 0

formatRead(addr, t, dout) ==
  LET width == ByteBits * ld_size(t)
      low   == dout \div 2^(ByteBits * (addr % 4)) % 2^width
  IN IF ld_sext(t) /\ low >= 2^(width - 1) THEN Wrap(low - 2^width) ELSE low

(* din moved to its lanes, and the lanes to write. *)
shiftedData(addr, din) == Wrap(din * 2^(ByteBits * (addr % 4)))
byteEnable(addr, t)    == {(addr % 4) + k : k \in 0 .. st_size(t) - 1}

lane(w, k) == w \div 2^(ByteBits * k) % 2^ByteBits

storeMemByteEnable(w, din, lanes) ==
  MapThenSumSet(LAMBDA k : 2^(ByteBits * k) * lane(IF k \in lanes THEN din ELSE w, k), 0 .. 3)
=============================================================================

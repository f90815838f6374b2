-------------------------- MODULE Calculator_proofs --------------------------
(***************************************************************************)
(* The calculator, for every base, display and width of an int: what it    *)
(* keeps stays in range, backspace takes back a digit, a result is exact   *)
(* but for the digits that are cut off, and the display shows the number.  *)
(***************************************************************************)
EXTENDS Calculator, FiniteSetTheorems, WellFoundedInduction, TLAPS

(* The least member of a set of numbers, which stands for an induction.    *)
Less == {p \in Nat \X Nat : p[1] < p[2]}

LEMMA LessWF == IsWellFoundedOn(Less, Nat)
<1>1. Less = OpToRel(<, Nat)
  BY Zenon DEF Less, OpToRel
<1> QED
  BY <1>1, NatLessThanWellFounded, Zenon

LEMMA Least ==
  ASSUME NEW S \in SUBSET Nat, S # {}
  PROVE  \E x \in S : \A y \in S : x <= y
<1>1. PICK x \in S : \A y \in S : ~(<<y, x>> \in Less)
  BY LessWF, WFMin, Zenon
<1>2. ASSUME NEW y \in S PROVE x <= y
  <2>1. <<y, x>> \in Nat \X Nat /\ <<y, x>>[1] = y /\ <<y, x>>[2] = x
    OBVIOUS
  <2>2. ~(y < x)
    BY <1>1, <2>1, Zenon DEF Less
  <2> QED
    BY <2>2, SMT
<1> QED
  BY <1>2

LEMMA MinIs ==
  ASSUME NEW S \in SUBSET Nat, S # {}
  PROVE  Min(S) \in S /\ \A y \in S : Min(S) <= y
  BY Least, Zenon DEF Min

(* Of two numbers Max and Min are the larger and the smaller one. *)
LEMMA MaxOfTwo ==
  ASSUME NEW a \in Int, NEW b \in Int
  PROVE  Max({a, b}) = IF a >= b THEN a ELSE b
  BY SMT DEF Max

LEMMA Induction ==
  ASSUME NEW S, 0 \in S, \A n \in Nat : n \in S => n + 1 \in S
  PROVE  \A n \in Nat : n \in S
<1>1. SUFFICES ASSUME {n \in Nat : n \notin S} # {} PROVE FALSE
  OBVIOUS
<1>2. PICK x \in {n \in Nat : n \notin S} : \A y \in {n \in Nat : n \notin S} : x <= y
  BY <1>1, Least
<1>3. x # 0 /\ x - 1 \in Nat /\ (x - 1) + 1 = x /\ ~(x <= x - 1)
  BY <1>2, SMT
<1> QED
  BY <1>2, <1>3

-----------------------------------------------------------------------------
(* Powers *)

MaxPower == 4 * MAX_7SEG_SIZE

LEMMA Sizes ==
  /\ Base \in Nat /\ Base >= 2
  /\ MAX_7SEG_SIZE \in Nat /\ MAX_7SEG_SIZE >= 2
  /\ DIV_ACCURACY = MAX_7SEG_SIZE - 1
  /\ MaxPower \in Nat /\ MaxPower = 4 * MAX_7SEG_SIZE
  BY CalculatorAssumption, SMT DEF MaxPower

LEMMA Power ==
  /\ Base^0 = 1
  /\ \A k \in 0 .. MaxPower : Base^(k + 1) = Base * Base^k /\ Base^k \in Nat \ {0}
<1> DEFINE S == {n \in Nat : n <= MaxPower => Base^n \in Nat \ {0}}
<1>1. 0 \in S
  BY PowersAreProducts, SMT
<1>2. ASSUME NEW n \in Nat, n \in S PROVE n + 1 \in S
  <2> SUFFICES ASSUME n + 1 <= MaxPower PROVE Base^(n + 1) \in Nat \ {0}
    BY SMT
  <2>1. n \in 0 .. 4 * MAX_7SEG_SIZE /\ n <= MaxPower
    BY Sizes, SMT
  <2>2. Base^(n + 1) = Base * Base^n
    BY <2>1, PowersAreProducts, Zenon
  <2>3. Base^n \in Nat \ {0}
    BY <1>2, <2>1, Zenon
  <2> DEFINE P == Base^n
  <2> HIDE DEF P
  <2>4. ASSUME P \in Nat \ {0} PROVE Base * P \in Nat \ {0}
    BY <2>4, Sizes, SMT
  <2> QED
    BY <2>2, <2>3, <2>4, Zenon DEF P
<1>3. \A n \in Nat : n \in S
  <2> HIDE DEF S
  <2> QED
    BY <1>1, <1>2, Induction, Zenon
<1>4. \A k \in 0 .. MaxPower : k \in Nat /\ k <= MaxPower /\ k \in 0 .. 4 * MAX_7SEG_SIZE
  BY Sizes, SMT
<1> QED
  BY <1>3, <1>4, PowersAreProducts, Zenon

LEMMA PowerOne == Base^1 = Base
<1>1. 0 \in 0 .. MaxPower /\ 0 + 1 = 1 /\ Base * 1 = Base
  BY Sizes, SMT
<1> QED
  BY <1>1, Power, Zenon

LEMMA PowerSum ==
  ASSUME NEW a \in Nat, NEW b \in Nat, a + b <= MaxPower
  PROVE  Base^(a + b) = Base^a * Base^b
<1> DEFINE S == {n \in Nat : a + n <= MaxPower => Base^(a + n) = Base^a * Base^n}
<1>0. a \in 0 .. MaxPower
  BY Sizes, SMT
<1>1. 0 \in S
  <2>1. Base^a \in Nat \ {0} /\ Base^0 = 1
    BY <1>0, Power, Zenon
  <2> DEFINE P == Base^a
  <2>2. P \in Nat => P = P * 1
    <3> HIDE DEF P
    <3> QED
      BY SMT
  <2>3. a + 0 = a
    BY SMT
  <2> QED
    BY <2>1, <2>2, <2>3, Zenon
<1>2. ASSUME NEW n \in Nat, n \in S PROVE n + 1 \in S
  <2> SUFFICES ASSUME a + (n + 1) <= MaxPower PROVE Base^(a + (n + 1)) = Base^a * Base^(n + 1)
    BY SMT
  <2>1. a + n \in 0 .. MaxPower /\ n \in 0 .. MaxPower /\ a + n <= MaxPower
        /\ a + (n + 1) = (a + n) + 1
    BY Sizes, SMT
  <2>2. Base^(a + (n + 1)) = Base * Base^(a + n) /\ Base^(n + 1) = Base * Base^n
    BY <2>1, Power, Zenon
  <2>3. Base^(a + n) = Base^a * Base^n
    BY <1>2, <2>1, Zenon
  <2>4. Base^a \in Nat /\ Base^n \in Nat
    BY <1>0, <2>1, Power, Zenon
  <2> DEFINE P == Base^a  Q == Base^n
  <2> HIDE DEF P, Q
  <2>5. ASSUME P \in Nat, Q \in Nat PROVE Base * (P * Q) = P * (Base * Q)
    BY <2>5, Sizes, SMT
  <2> QED
    BY <2>2, <2>3, <2>4, <2>5, Zenon DEF P, Q
<1>3. \A n \in Nat : n \in S
  <2> HIDE DEF S
  <2> QED
    BY <1>1, <1>2, Induction, Zenon
<1> QED
  BY <1>3

LEMMA PowerOrder ==
  ASSUME NEW a \in Nat, NEW b \in Nat, a <= b, b <= MaxPower
  PROVE  Base^a <= Base^b
<1>1. a \in 0 .. MaxPower /\ b - a \in 0 .. MaxPower /\ b - a \in Nat /\ a + (b - a) = b
      /\ a + (b - a) <= MaxPower
  BY Sizes, SMT
<1>2. Base^a \in Nat \ {0} /\ Base^(b - a) \in Nat \ {0}
  BY <1>1, Power, Zenon
<1>3. Base^(a + (b - a)) = Base^a * Base^(b - a)
  BY <1>1, PowerSum, Zenon
<1> DEFINE P == Base^a  Q == Base^(b - a)
<1>4. P \in Nat \ {0} /\ Q \in Nat \ {0} => P <= P * Q
  <2> HIDE DEF P, Q
  <2> QED
    BY SMT
<1> QED
  BY <1>1, <1>2, <1>3, <1>4, Zenon

-----------------------------------------------------------------------------
(* Numbers *)

Top  == Base^(MAX_7SEG_SIZE - 1)
Half == 2^(IntBits - 1)

(* Top is the first number that the display cannot show, and an int has    *)
(* room for one digit more.                                                *)
LEMMA Ranges ==
  /\ Top \in Nat \ {0} /\ Half \in Nat \ {0} /\ Base * Top <= Half /\ Base * Top \in Nat
  /\ MAX_VALUE = Top - 1 /\ OVERFLOW_VALUE = Top /\ SCALE = Top
<1>1. MAX_7SEG_SIZE - 1 \in 0 .. MaxPower /\ (MAX_7SEG_SIZE - 1) + 1 = MAX_7SEG_SIZE
  BY Sizes, SMT
<1>2. Base^(MAX_7SEG_SIZE - 1) \in Nat \ {0}
      /\ Base^((MAX_7SEG_SIZE - 1) + 1) = Base * Base^(MAX_7SEG_SIZE - 1)
  BY <1>1, Power, Zenon
<1>3. Base^MAX_7SEG_SIZE = Base * Top /\ Top \in Nat \ {0}
  BY <1>1, <1>2, Zenon DEF Top
<1>4. Half \in Nat /\ Half >= Base^MAX_7SEG_SIZE
  BY CalculatorAssumption, PowersAreProducts, Zenon DEF Half
<1>5. Half \in Nat \ {0} /\ Base * Top <= Half /\ Base * Top \in Nat
  <2> Half >= Base * Top
    BY <1>3, <1>4, Zenon
  <2> QED
    BY <1>3, <1>4, Sizes, SMT
<1>6. MAX_VALUE = Top - 1
  BY Zenon DEF MAX_VALUE, Top
<1>7. OVERFLOW_VALUE = (Top - 1) + 1 /\ SCALE = Top
  BY Sizes, <1>6, Zenon DEF OVERFLOW_VALUE, SCALE, Top
<1> QED
  BY <1>3, <1>5, <1>6, <1>7, SMT

LEMMA Int32Is ==
  ASSUME NEW v
  PROVE  v \in Int32 <=> v \in Int /\ -Half <= v /\ v < Half
<1>1. Int32 = -Half .. Half - 1
  BY Zenon DEF Int32, Half
<1> QED
  BY <1>1, Ranges, SMT

LEMMA Shown ==
  ASSUME NEW v \in Int
  PROVE  /\ InRange(v) <=> -Top < v /\ v < Top
         /\ InRange(v) => v \in Int32
<1>1. InRange(v) <=> -Top < v /\ v < Top
  BY Ranges, SMT DEF InRange
<1>2. Top <= Base * Top
  BY Ranges, Sizes, SMT
<1>3. Top <= Half
  BY <1>2, Ranges, SMT
<1>4. -Top < v /\ v < Top => -Half <= v /\ v < Half
  BY <1>3, Ranges, SMT
<1> QED
  BY <1>1, <1>4, Int32Is

LEMMA Overflow == OVERFLOW_VALUE \in Int32 /\ 0 \in Int32 /\ InRange(0) /\ OVERFLOW_VALUE \in Int
<1>2. 2 * Top <= Base * Top /\ 2 * Top \in Int
  BY Ranges, Sizes, SMT
<1>3. Top < Half
  BY <1>2, Ranges, SMT
<1>4. InRange(0)
  BY Shown, Ranges, SMT
<1> QED
  BY <1>3, <1>4, Int32Is, Ranges, SMT

LEMMA DivMod ==
  ASSUME NEW n \in Int, NEW M \in Nat \ {0}
  PROVE  /\ n \div M \in Int /\ n % M \in 0 .. M - 1
         /\ n = M * (n \div M) + (n % M)
  BY SMT

LEMMA DivUnique ==
  ASSUME NEW n \in Int, NEW M \in Nat \ {0}, NEW q \in Int, NEW r \in Int,
         n = q * M + r, 0 <= r, r < M
  PROVE  n \div M = q /\ n % M = r
  BY SMT

(* int is an int, and the number itself when that is one. *)
LEMMA Wraps ==
  ASSUME NEW v \in Int
  PROVE  int(v) \in Int32 /\ (v \in Int32 => int(v) = v)
<1>1. int(v) = ((v + Half) % (2 * Half)) - Half
  BY PowersAreProducts, Zenon DEF int, Half
<1>2. v + Half \in Int /\ 2 * Half \in Nat \ {0}
  BY Ranges, SMT
<1> DEFINE r == (v + Half) % (2 * Half)
<1>3. r \in 0 .. 2 * Half - 1
  BY <1>2, DivMod, Zenon
<1>4. r - Half \in Int32
  <2> HIDE DEF r
  <2> QED
    BY <1>3, Int32Is, Ranges, SMT
<1>5. ASSUME v \in Int32 PROVE r = v + Half
  <2>1. v + Half \in Int /\ 0 <= v + Half /\ v + Half < 2 * Half /\ 0 \in Int
        /\ v + Half = 0 * (2 * Half) + (v + Half)
    BY <1>5, Int32Is, Ranges, SMT
  <2> QED
    BY <2>1, <1>2, DivUnique, Zenon
<1>6. (v + Half) - Half = v
  BY Ranges, SMT
<1> QED
  BY <1>1, <1>4, <1>5, <1>6, Zenon

(* Division that rounds towards zero, by a positive number. *)
LEMMA Quot ==
  ASSUME NEW a \in Int, NEW b \in Nat \ {0}
  PROVE  /\ quot(a, b) \in Int
         /\ a >= 0 => quot(a, b) = a \div b /\ 0 <= quot(a, b) /\ quot(a, b) <= a
         /\ a < 0 => quot(a, b) = -((-a) \div b) /\ a <= quot(a, b) /\ quot(a, b) <= 0
<1>1. ASSUME NEW c \in Nat PROVE c \div b \in Nat /\ c \div b <= c
  <2> DEFINE q == c \div b  r == c % b
  <2>1. q \in Int /\ r \in Int /\ 0 <= r /\ r < b /\ c = b * q + r
    BY DivMod, SMT
  <2> HIDE DEF q, r
  <2>2. q >= 0
    <3> SUFFICES ASSUME q <= -1 PROVE FALSE
      BY <2>1, SMT
    <3>1. b * q <= b * (-1)
      BY <2>1, SMT
    <3> QED
      BY <3>1, <2>1, SMT
  <2>3. q <= b * q
    BY <2>1, <2>2, SMT
  <2>4. q \in Nat /\ q <= c
    BY <2>1, <2>2, <2>3, SMT
  <2> QED
    BY <2>4, Zenon DEF q
<1>2. CASE a >= 0
  <2>1. quot(a, b) = a \div b
    BY <1>2, SMT DEF quot, Abs
  <2>2. a \in Nat
    BY <1>2, SMT
  <2>3. a \div b \in Nat /\ a \div b <= a
    BY <2>2, <1>1, Zenon
  <2> QED
    BY <1>2, <2>1, <2>3, SMT
<1>3. CASE a < 0
  <2>1. quot(a, b) = -((-a) \div b)
    BY <1>3, SMT DEF quot, Abs
  <2>2. -a \in Nat
    BY <1>3, SMT
  <2>3. (-a) \div b \in Nat /\ (-a) \div b <= -a
    BY <2>2, <1>1, Zenon
  <2> DEFINE q == (-a) \div b
  <2>4. q \in Nat /\ q <= -a => -q \in Int /\ a <= -q /\ -q <= 0
    <3> HIDE DEF q
    <3> QED
      BY <1>3, SMT
  <2> QED
    BY <1>3, <2>1, <2>3, <2>4, SMT
<1> QED
  BY <1>2, <1>3, SMT

LEMMA QuotTyped ==
  ASSUME NEW a \in Int, NEW b \in Int, b # 0
  PROVE  quot(a, b) \in Int
<1>1. Abs(a) \in Nat /\ Abs(b) \in Nat \ {0}
  BY SMT DEF Abs
<1>2. Abs(a) \div Abs(b) \in Int
  BY <1>1, DivMod, SMT
<1> QED
  BY <1>2, SMT DEF quot

(* A number before it is cut to the display: with d digits after the point. *)
Long(d) == [value : Int, dp : 0 .. d]

LEMMA NumIs ==
  ASSUME NEW v, NEW d
  PROVE  num(v, d).value = v /\ num(v, d).dp = d /\ num(v, d) = [value |-> v, dp |-> d]
  BY Zenon DEF num

LEMMA NumberIs ==
  /\ \A n \in Numbers : /\ n.value \in Int32 /\ n.value \in Int
                        /\ n.dp \in 0 .. MAX_7SEG_SIZE - 1 /\ n.dp \in Nat
                        /\ n = num(n.value, n.dp)
  /\ \A v \in Int32, d \in 0 .. MAX_7SEG_SIZE - 1 : num(v, d) \in Numbers
  /\ \A m \in Nat : \A v \in Int, d \in 0 .. m : num(v, d) \in Long(m)
  /\ \A m \in Nat : \A n \in Long(m) : n.value \in Int /\ n.dp \in 0 .. m /\ n.dp \in Nat
<1>1. ASSUME NEW n \in Numbers
      PROVE  /\ n.value \in Int32 /\ n.value \in Int
             /\ n.dp \in 0 .. MAX_7SEG_SIZE - 1 /\ n.dp \in Nat
             /\ n = num(n.value, n.dp)
  <2>1. n.value \in Int32 /\ n.dp \in 0 .. MAX_7SEG_SIZE - 1
        /\ n = [value |-> n.value, dp |-> n.dp]
    BY SMT DEF Numbers
  <2> QED
    BY <2>1, Int32Is, NumIs, Sizes, SMT
<1>2. ASSUME NEW v \in Int32, NEW d \in 0 .. MAX_7SEG_SIZE - 1 PROVE num(v, d) \in Numbers
  BY SMT DEF num, Numbers
<1>3. ASSUME NEW m \in Nat, NEW v \in Int, NEW d \in 0 .. m PROVE num(v, d) \in Long(m)
  BY SMT DEF num, Long
<1>4. ASSUME NEW m \in Nat, NEW n \in Long(m)
      PROVE  n.value \in Int /\ n.dp \in 0 .. m /\ n.dp \in Nat
  BY SMT DEF Long
<1> QED
  BY <1>1, <1>2, <1>3, <1>4, Zenon

LEMMA ZeroTyped == Zero \in Numbers /\ Zero.value = 0 /\ Zero.dp = 0 /\ Zero = num(0, 0)
<1>1. 0 \in 0 .. MAX_7SEG_SIZE - 1
  BY Sizes, SMT
<1> QED
  BY <1>1, NumberIs, NumIs, Overflow, Zenon DEF Zero

(* Up to the digits that a product has after the point. *)
Digits == 2 * (MAX_7SEG_SIZE - 1)

LEMMA DigitsFit ==
  /\ Digits \in Nat /\ Digits <= MaxPower /\ MAX_7SEG_SIZE - 1 <= Digits
  /\ MAX_7SEG_SIZE - 1 \in Nat /\ Digits = (MAX_7SEG_SIZE - 1) + (MAX_7SEG_SIZE - 1)
  BY Sizes, SMT DEF Digits

LEMMA Dropped ==
  ASSUME NEW m \in Nat, m <= Digits, NEW n \in Long(m), NEW k \in 0 .. n.dp
  PROVE  /\ drop(n, k) \in Long(m) /\ drop(n, k).dp = n.dp - k
         /\ drop(n, k).value = quot(n.value, Base^k)
         /\ k \in 0 .. MaxPower
<1>1. n.value \in Int /\ n.dp \in 0 .. m /\ n.dp \in Nat
  BY NumberIs, Zenon
<1>2. k \in 0 .. MaxPower /\ n.dp - k \in 0 .. m
  BY <1>1, DigitsFit, Sizes, SMT
<1>3. Base^k \in Nat \ {0}
  BY <1>2, Power, Zenon
<1>4. quot(n.value, Base^k) \in Int
  BY <1>1, <1>3, Quot, Zenon
<1> QED
  BY <1>2, <1>4, NumIs, NumberIs, Zenon DEF drop

LEMMA Shortened ==
  ASSUME NEW n \in Long(Digits)
  PROVE  shortened(n) \in Long(MAX_7SEG_SIZE - 1)
<1> DEFINE k == Max({0, n.dp - (MAX_7SEG_SIZE - 1)})
<1>1. n.value \in Int /\ n.dp \in 0 .. Digits /\ n.dp \in Nat
  BY NumberIs, DigitsFit, Zenon
<1>2. n.dp - (MAX_7SEG_SIZE - 1) \in Int /\ 0 \in Int
  BY <1>1, Sizes, SMT
<1>3. k = IF 0 >= n.dp - (MAX_7SEG_SIZE - 1) THEN 0 ELSE n.dp - (MAX_7SEG_SIZE - 1)
  BY <1>2, MaxOfTwo, Zenon
<1> HIDE DEF k
<1>4. k \in 0 .. n.dp /\ n.dp - k \in 0 .. MAX_7SEG_SIZE - 1
  BY <1>1, <1>3, DigitsFit, SMT
<1>5. drop(n, k).value \in Int /\ drop(n, k).dp = n.dp - k
  <2>1. Digits <= Digits
    BY DigitsFit, SMT
  <2>2. drop(n, k) \in Long(Digits) /\ drop(n, k).dp = n.dp - k
    BY <1>4, <2>1, Dropped, DigitsFit, Zenon
  <2> QED
    BY <2>2, NumberIs, DigitsFit, Zenon
<1>6. drop(n, k) = num(drop(n, k).value, drop(n, k).dp)
  BY NumIs, Zenon DEF drop
<1>7. drop(n, k) \in Long(MAX_7SEG_SIZE - 1)
  <2> DEFINE d == drop(n, k)  top == MAX_7SEG_SIZE - 1
  <2>1. top \in Nat /\ d.value \in Int /\ d.dp \in 0 .. top /\ d = num(d.value, d.dp)
    BY <1>4, <1>5, <1>6, DigitsFit, Zenon
  <2> HIDE DEF d, top
  <2>2. num(d.value, d.dp) \in Long(top)
    BY <2>1, NumberIs, Zenon
  <2>3. d \in Long(top)
    BY <2>1, <2>2, Zenon
  <2> QED
    BY <2>3, Zenon DEF d, top
<1> QED
  BY <1>7, Zenon DEF shortened, k

(* How many digits the other two loops drop. *)
narrow(n) == Min({k \in 0 .. n.dp : k = n.dp \/ InRange(drop(n, k).value)})
zeros(n)  == Min({k \in 0 .. n.dp : k = n.dp \/ drop(n, k).value % Base # 0})

LEMMA Loops ==
  ASSUME NEW m \in Nat, NEW n \in Long(m)
  PROVE  /\ narrow(n) \in 0 .. n.dp
         /\ narrow(n) = n.dp \/ InRange(drop(n, narrow(n)).value)
         /\ \A k \in 0 .. n.dp : InRange(drop(n, k).value) => narrow(n) <= k
         /\ zeros(n) \in 0 .. n.dp
         /\ zeros(n) = n.dp \/ drop(n, zeros(n)).value % Base # 0
         /\ \A k \in 0 .. n.dp : drop(n, k).value % Base # 0 => zeros(n) <= k
<1> DEFINE S == {k \in 0 .. n.dp : k = n.dp \/ InRange(drop(n, k).value)}
           T == {k \in 0 .. n.dp : k = n.dp \/ drop(n, k).value % Base # 0}
<1>1. n.dp \in Nat
  BY NumberIs, Zenon
<1>2. S \in SUBSET Nat /\ T \in SUBSET Nat /\ n.dp \in 0 .. n.dp
  BY <1>1, SMT
<1>3. n.dp \in S /\ n.dp \in T
  BY <1>2, Zenon
<1>4. narrow(n) \in S /\ \A y \in S : narrow(n) <= y
  <2> HIDE DEF S
  <2>1. Min(S) \in S /\ \A y \in S : Min(S) <= y
    BY <1>2, <1>3, MinIs, Zenon
  <2> QED
    BY <2>1, Zenon DEF narrow, S
<1>5. zeros(n) \in T /\ \A y \in T : zeros(n) <= y
  <2> HIDE DEF T
  <2>1. Min(T) \in T /\ \A y \in T : Min(T) <= y
    BY <1>2, <1>3, MinIs, Zenon
  <2> QED
    BY <2>1, Zenon DEF zeros, T
<1> QED
  BY <1>4, <1>5, Zenon

(* What a result is before it is cut, operator by operator. *)
LEMMA RawCases ==
  /\ operator = "+" => raw = num(aligned(n1, max_dp) + aligned(n2, max_dp), max_dp)
  /\ operator = "-" => raw = num(aligned(n1, max_dp) - aligned(n2, max_dp), max_dp)
  /\ operator = "*" => raw = num(n1.value * n2.value, n1.dp + n2.dp)
  /\ operator = "/" => raw = num(quot(n1.value * SCALE, n2.value),
                                 n1.dp - n2.dp + DIV_ACCURACY)
  /\ operator = "%" => raw = num(n1.value - n2.value * quot(n1.value, n2.value), 0)
<1> "+" # "-" /\ "+" # "*" /\ "+" # "/" /\ "+" # "%" /\ "-" # "*" /\ "-" # "/" /\ "-" # "%"
    /\ "*" # "/" /\ "*" # "%" /\ "/" # "%"
  OBVIOUS
<1>1. operator = "+" => raw = num(aligned(n1, max_dp) + aligned(n2, max_dp), max_dp)
  BY Zenon DEF raw
<1>2. operator = "-" => raw = num(aligned(n1, max_dp) - aligned(n2, max_dp), max_dp)
  BY Zenon DEF raw
<1>3. operator = "*" => raw = num(n1.value * n2.value, n1.dp + n2.dp)
  BY Zenon DEF raw
<1>4. operator = "/" => raw = num(quot(n1.value * SCALE, n2.value),
                                  n1.dp - n2.dp + DIV_ACCURACY)
  BY Zenon DEF raw
<1>5. operator = "%" => raw = num(n1.value - n2.value * quot(n1.value, n2.value), 0)
  BY Zenon DEF raw
<1> QED
  BY <1>1, <1>2, <1>3, <1>4, <1>5, Zenon

LEMMA MaxDp ==
  ASSUME n1 \in Numbers, n2 \in Numbers
  PROVE  /\ max_dp = IF n1.dp >= n2.dp THEN n1.dp ELSE n2.dp
         /\ max_dp \in 0 .. MAX_7SEG_SIZE - 1 /\ n1.dp <= max_dp /\ n2.dp <= max_dp
<1>1. n1.dp \in Int /\ n2.dp \in Int /\ n1.dp \in 0 .. MAX_7SEG_SIZE - 1
      /\ n2.dp \in 0 .. MAX_7SEG_SIZE - 1
  BY NumberIs, SMT
<1>2. max_dp = IF n1.dp >= n2.dp THEN n1.dp ELSE n2.dp
  BY <1>1, MaxOfTwo, Zenon DEF max_dp
<1> QED
  BY <1>1, <1>2, SMT

LEMMA Aligned ==
  ASSUME NEW n \in Numbers, NEW dp \in 0 .. MAX_7SEG_SIZE - 1, n.dp <= dp
  PROVE  /\ aligned(n, dp) \in Int /\ dp - n.dp \in Nat /\ dp - n.dp \in 0 .. MaxPower
         /\ aligned(n, dp) = n.value * Base^(dp - n.dp) /\ Base^(dp - n.dp) \in Nat \ {0}
<1>1. n.value \in Int /\ dp - n.dp \in 0 .. MaxPower /\ dp - n.dp \in Nat
  BY NumberIs, Sizes, SMT
<1>2. Base^(dp - n.dp) \in Nat \ {0}
  BY <1>1, Power, Zenon
<1>3. aligned(n, dp) = n.value * Base^(dp - n.dp)
  BY Zenon DEF aligned
<1> DEFINE P == Base^(dp - n.dp)
<1>4. P \in Nat \ {0} => n.value * P \in Int
  <2> HIDE DEF P
  <2> QED
    BY <1>1, SMT
<1> QED
  BY <1>1, <1>2, <1>3, <1>4, Zenon

LEMMA RawTyped ==
  ASSUME n1 \in Numbers, n2 \in Numbers, operator \in Operators, ~impossible
  PROVE  raw \in Long(Digits)
<1>1. /\ n1.value \in Int /\ n1.dp \in 0 .. MAX_7SEG_SIZE - 1
      /\ n2.value \in Int /\ n2.dp \in 0 .. MAX_7SEG_SIZE - 1
  BY NumberIs, Zenon
<1>2. max_dp \in 0 .. Digits /\ aligned(n1, max_dp) \in Int /\ aligned(n2, max_dp) \in Int
  <2>1. max_dp \in 0 .. Digits
    BY MaxDp, DigitsFit, SMT
  <2> QED
    BY <2>1, MaxDp, Aligned, Zenon
<1>3. CASE operator = "+"
  <2>1. aligned(n1, max_dp) + aligned(n2, max_dp) \in Int
    BY <1>2, SMT
  <2> QED
    BY <1>2, <1>3, <2>1, RawCases, NumberIs, DigitsFit, Zenon
<1>4. CASE operator = "-"
  <2>1. aligned(n1, max_dp) - aligned(n2, max_dp) \in Int
    BY <1>2, SMT
  <2> QED
    BY <1>2, <1>4, <2>1, RawCases, NumberIs, DigitsFit, Zenon
<1>5. CASE operator = "*"
  <2>1. n1.value * n2.value \in Int /\ n1.dp + n2.dp \in 0 .. Digits
    BY <1>1, DigitsFit, SMT
  <2> QED
    BY <1>5, <2>1, RawCases, NumberIs, DigitsFit, Zenon
<1>6. CASE operator = "/"
  <2>1. n2.value # 0
    BY <1>6, SMT DEF impossible
  <2>2. n1.value * SCALE \in Int /\ n1.dp - n2.dp + DIV_ACCURACY \in 0 .. Digits
    BY <1>1, DigitsFit, Ranges, Sizes, SMT
  <2>3. quot(n1.value * SCALE, n2.value) \in Int
    BY <1>1, <2>1, <2>2, QuotTyped, Zenon
  <2> QED
    BY <1>6, <2>2, <2>3, RawCases, NumberIs, DigitsFit, Zenon
<1>7. CASE operator = "%"
  <2>1. n2.value # 0
    BY <1>7, SMT DEF impossible
  <2>2. quot(n1.value, n2.value) \in Int
    BY <1>1, <2>1, QuotTyped, Zenon
  <2>3. n1.value - n2.value * quot(n1.value, n2.value) \in Int /\ 0 \in 0 .. Digits
    BY <1>1, <2>2, DigitsFit, SMT
  <2> QED
    BY <1>7, <2>3, RawCases, NumberIs, DigitsFit, Zenon
<1> QED
  BY <1>3, <1>4, <1>5, <1>6, <1>7, Zenon DEF Operators

LEMMA ResultTyped ==
  ASSUME n1 \in Numbers, n2 \in Numbers, operator \in Operators, ~impossible
  PROVE  /\ result \in Long(MAX_7SEG_SIZE - 1)
         /\ result.dp > 0 => result.value % Base # 0
<1> DEFINE s == shortened(raw)
<1>1. s \in Long(MAX_7SEG_SIZE - 1)
  BY RawTyped, Shortened, Zenon
<1> HIDE DEF s
<1> DEFINE t == narrowed(s)
<1>2. t = drop(s, narrow(s))
  BY Zenon DEF narrowed, narrow
<1>3. t \in Long(MAX_7SEG_SIZE - 1)
  BY <1>1, <1>2, Loops, Dropped, DigitsFit, Zenon
<1> HIDE DEF t
<1> DEFINE r == normalised(t)
<1>4. r = drop(t, zeros(t))
  BY Zenon DEF normalised, zeros
<1>5. r \in Long(MAX_7SEG_SIZE - 1) /\ r.dp = t.dp - zeros(t) /\ zeros(t) \in 0 .. t.dp
  BY <1>3, <1>4, Loops, Dropped, DigitsFit, Zenon
<1>6. r.dp > 0 => r.value % Base # 0
  <2>1. zeros(t) = t.dp \/ r.value % Base # 0
    BY <1>3, <1>4, Loops, DigitsFit, Zenon
  <2>2. t.dp \in Nat
    BY <1>3, NumberIs, DigitsFit, Zenon
  <2> HIDE DEF r
  <2>3. zeros(t) = t.dp => ~(r.dp > 0)
    BY <1>5, <2>2, SMT
  <2> QED
    BY <2>1, <2>3, Zenon
<1>7. result = r
  BY Zenon DEF result, r, s, t
<1> QED
  BY <1>5, <1>6, <1>7, Zenon

-----------------------------------------------------------------------------
(* The invariant, one lemma for each kind of key. *)

LEMMA StatesDiffer ==
  /\ "Q_N" # "Q_ZERO" /\ "Q_N" # "Q_DEC" /\ "Q_N" # "Q_OP" /\ "Q_N" # "Q_RE" /\ "Q_N" # "Q_ER"
  /\ "Q_ZERO" # "Q_DEC" /\ "Q_ZERO" # "Q_OP" /\ "Q_ZERO" # "Q_RE" /\ "Q_ZERO" # "Q_ER"
  /\ "Q_DEC" # "Q_OP" /\ "Q_DEC" # "Q_RE" /\ "Q_DEC" # "Q_ER"
  /\ "Q_OP" # "Q_RE" /\ "Q_OP" # "Q_ER" /\ "Q_RE" # "Q_ER"
  OBVIOUS

LEMMA TellsIs ==
  ASSUME NEW n
  PROVE  /\ tells("Q_ZERO", n) <=> n = Zero
         /\ tells("Q_N", n) <=> n.dp = 0
         /\ tells("Q_DEC", n)
         /\ tells("Q_OP", n) <=> n = Zero
         /\ tells("Q_RE", n) <=> n = Zero
  BY StatesDiffer, Zenon DEF tells

(* What one number may be, in a state: the entered one, the left operand.  *)
Entered(state, n) == n \in Numbers /\ n.value <= MAX_VALUE
                     /\ (state # "Q_ER" => tells(state, n))
Left(state, n)    == n \in Numbers /\ (n.dp > 0 => n.value % Base # 0)
                     /\ (state # "Q_ER" => InRange(n.value))
Kept(m)           == m.n \in Numbers /\ InRange(m.n.value) /\ m.last_changed_state \in Input
                     /\ tells(m.last_changed_state, m.n)

LEMMA InvIs ==
  (TypeOK /\ StateFits) <=>
    /\ current_state \in States /\ prev_state \in States /\ operator \in Operators
    /\ Left(current_state, n1) /\ Entered(current_state, n2) /\ Kept(memory)
<1>1. TypeOK <=> /\ current_state \in States /\ prev_state \in States /\ operator \in Operators
                 /\ n1 \in Numbers /\ n2 \in Numbers /\ memory.n \in Numbers
                 /\ memory.last_changed_state \in Input
  BY Zenon DEF TypeOK
<1> QED
  BY <1>1, Zenon DEF StateFits, Left, Entered, Kept

LEMMA InvNext ==
  (TypeOK /\ StateFits)' <=>
    /\ current_state' \in States /\ prev_state' \in States /\ operator' \in Operators
    /\ Left(current_state', n1') /\ Entered(current_state', n2') /\ Kept(memory')
<1>1. TypeOK' <=>
        /\ current_state' \in States /\ prev_state' \in States /\ operator' \in Operators
        /\ n1' \in Numbers /\ n2' \in Numbers /\ memory'.n \in Numbers
        /\ memory'.last_changed_state \in Input
  BY Zenon DEF TypeOK
<1> QED
  BY <1>1, Zenon DEF StateFits, Left, Entered, Kept

LEMMA Fresh ==
  /\ Left("Q_OP", Zero) /\ Entered("Q_OP", Zero) /\ Kept(memory_clear)
  /\ \A s \in States : Left(s, Zero) /\ Entered(s, Zero)
<1>1. ~(Zero.dp > 0) /\ Zero.value <= MAX_VALUE /\ Zero.dp = 0
  BY ZeroTyped, Ranges, SMT
<1>2. InRange(Zero.value) /\ Zero \in Numbers
  BY ZeroTyped, Overflow, Zenon
<1>3. \A s \in States : s # "Q_ER" => tells(s, Zero)
  BY <1>1, TellsIs, Zenon DEF States, Input
<1>4. \A s \in States : Left(s, Zero) /\ Entered(s, Zero)
  BY <1>1, <1>2, <1>3, Zenon DEF Left, Entered
<1>5. "Q_OP" \in States
  BY Zenon DEF States
<1>6. memory_clear.n = Zero /\ memory_clear.last_changed_state = "Q_ZERO"
  BY Zenon DEF memory_clear
<1>7. Kept(memory_clear)
  BY <1>2, <1>6, TellsIs, Zenon DEF Kept, Input
<1> QED
  BY <1>4, <1>5, <1>7, Zenon

LEMMA Initially == Init => TypeOK /\ StateFits
<1> SUFFICES ASSUME Init PROVE TypeOK /\ StateFits
  OBVIOUS
<1>1. "Q_OP" \in States /\ "+" \in Operators
  BY Zenon DEF States, Operators
<1> QED
  BY <1>1, Fresh, InvIs, Zenon DEF Init

(* What a state leaves of a number that is kept. *)
LEMMA Keeps ==
  ASSUME NEW s, NEW t, s # "Q_ER"
  PROVE  /\ \A n : Left(s, n) => Left(t, n)
         /\ \A n : Entered(s, n) => Entered("Q_ER", n)
  BY Zenon DEF Left, Entered

LEMMA CalcResult ==
  ASSUME n1 \in Numbers, n2 \in Numbers, operator \in Operators,
         Left(current_state, n1), Entered(current_state, n2), current_state # "Q_ER",
         NEW next \in {"Q_OP", "Q_RE"}, calc_result(next)
  PROVE  /\ current_state' \in {next, "Q_ER"}
         /\ Left(current_state', n1') /\ Entered(current_state', n2')
<1>1. CASE impossible
  <2>1. current_state' = "Q_ER" /\ n1' = n1 /\ n2' = n2
    BY <1>1, Zenon DEF calc_result
  <2> QED
    BY <2>1, Keeps, Zenon
<1>2. CASE ~impossible
  <2>1. n2' = Zero
    BY <1>2, Zenon DEF calc_result
  <2>2. CASE InRange(result.value)
    <3>1. n1' = result /\ current_state' = next
      BY <1>2, <2>2, Zenon DEF calc_result
    <3>2. result \in Long(MAX_7SEG_SIZE - 1) /\ (result.dp > 0 => result.value % Base # 0)
      BY <1>2, ResultTyped, Zenon
    <3>3. result.value \in Int /\ result.dp \in 0 .. MAX_7SEG_SIZE - 1
      BY <3>2, NumberIs, DigitsFit, Zenon
    <3>4. result.value \in Int32
      BY <2>2, <3>3, Shown, Zenon
    <3>5. result = num(result.value, result.dp)
      BY NumIs, Zenon DEF result, normalised, drop
    <3>6. result \in Numbers
      <4> DEFINE v == result.value  d == result.dp
      <4>1. num(v, d) \in Numbers
        <5> HIDE DEF v, d
        <5> SUFFICES v \in Int32 /\ d \in 0 .. MAX_7SEG_SIZE - 1
          BY NumberIs, Zenon
        <5> QED
          BY <3>3, <3>4, Zenon DEF v, d
      <4> QED
        BY <3>5, <4>1, Zenon
    <3>7. next \in States
      BY Zenon DEF States
    <3> QED
      BY <2>1, <2>2, <3>1, <3>2, <3>6, <3>7, Fresh, Zenon DEF Left
  <2>3. CASE ~InRange(result.value)
    <3>1. n1' = num(OVERFLOW_VALUE, 0) /\ current_state' = "Q_ER"
      BY <1>2, <2>3, Zenon DEF calc_result
    <3>2. n1' \in Numbers /\ n1'.dp = 0
      <4>1. 0 \in 0 .. MAX_7SEG_SIZE - 1
        BY Sizes, SMT
      <4> QED
        BY <3>1, <4>1, NumberIs, NumIs, Overflow, Zenon
    <3>3. ~(n1'.dp > 0)
      BY <3>2, SMT
    <3>4. "Q_ER" \in States
      BY Zenon DEF States
    <3> QED
      BY <2>1, <3>1, <3>2, <3>3, <3>4, Fresh, Zenon DEF Left
  <2> QED
    BY <2>2, <2>3
<1> QED
  BY <1>1, <1>2

LEMMA DigitStep ==
  ASSUME TypeOK /\ StateFits, NEW d \in 0 .. Base - 1, NextDigit(d) \/ FirstDigit(d),
         prev_state' = current_state
  PROVE  (TypeOK /\ StateFits)'
<1>0. /\ current_state \in States /\ prev_state \in States /\ operator \in Operators
      /\ Left(current_state, n1) /\ Entered(current_state, n2) /\ Kept(memory)
  BY InvIs, Zenon
<1>1. n2.value \in Int /\ n2.dp \in 0 .. MAX_7SEG_SIZE - 1 /\ n2.dp \in Nat /\ d \in Int
      /\ n2 = num(n2.value, n2.dp)
  BY <1>0, NumberIs, Sizes, SMT DEF Entered
<1>2. CASE NextDigit(d)
  <2> DEFINE value == int(n2.value * Base + d)
             dp    == IF current_state = "Q_DEC" THEN n2.dp + 1 ELSE n2.dp
  <2>1. value \in Int32 /\ value \in Int
    <3>1. n2.value * Base + d \in Int
      BY <1>1, Sizes, SMT
    <3> QED
      BY <3>1, Wraps, Int32Is, Zenon
  <2>2. dp \in Int /\ dp >= 0 /\ (current_state # "Q_DEC" => dp = n2.dp)
    BY <1>1, SMT
  <2>3. /\ current_state \in {"Q_N", "Q_DEC"} /\ n1' = n1 /\ operator' = operator
        /\ memory' = memory
    BY <1>2, Zenon DEF NextDigit
  <2>4. IF value > MAX_VALUE \/ dp > MAX_7SEG_SIZE - 1
        THEN n2' = Zero /\ current_state' = "Q_ER"
        ELSE n2' = num(value, dp) /\ current_state' = current_state
    BY <1>2, Zenon DEF NextDigit
  <2> HIDE DEF value, dp
  <2>5. current_state # "Q_ER" /\ "Q_ER" \in States
    BY <2>3, StatesDiffer, Zenon DEF States
  <2>6. CASE value > MAX_VALUE \/ dp > MAX_7SEG_SIZE - 1
    <3>1. n2' = Zero /\ current_state' = "Q_ER"
      BY <2>4, <2>6
    <3>2. Left(current_state', n1') /\ Entered(current_state', n2')
      BY <1>0, <2>3, <2>5, <3>1, Keeps, Fresh, Zenon
    <3> QED
      BY <1>0, <2>3, <2>5, <3>1, <3>2, InvNext, Zenon
  <2>7. CASE ~(value > MAX_VALUE \/ dp > MAX_7SEG_SIZE - 1)
    <3>1. n2' = num(value, dp) /\ current_state' = current_state
      BY <2>4, <2>7
    <3>2. dp \in 0 .. MAX_7SEG_SIZE - 1 /\ value <= MAX_VALUE
      BY <2>1, <2>2, <2>7, Sizes, Ranges, SMT
    <3>3. n2' \in Numbers /\ n2'.value = value /\ n2'.dp = dp
      BY <2>1, <3>1, <3>2, NumberIs, NumIs, Zenon
    <3>4. tells(current_state, n2')
      <4>1. CASE current_state = "Q_N"
        BY <1>0, <2>2, <2>5, <3>3, <4>1, TellsIs, StatesDiffer, Zenon DEF Entered
      <4>2. CASE current_state = "Q_DEC"
        BY <4>2, TellsIs, Zenon
      <4> QED
        BY <2>3, <4>1, <4>2
    <3> QED
      BY <1>0, <2>3, <3>1, <3>2, <3>3, <3>4, InvNext, Zenon DEF Entered
  <2> QED
    BY <2>6, <2>7
<1>3. CASE FirstDigit(d)
  <2>1. /\ current_state \in {"Q_ZERO", "Q_OP", "Q_RE"} /\ memory' = memory
        /\ current_state' = IF d = 0 THEN "Q_ZERO" ELSE "Q_N"
    BY <1>3, Zenon DEF FirstDigit
  <2>2. n2 = Zero
    BY <1>0, <2>1, StatesDiffer, TellsIs, Zenon DEF Entered
  <2>3. n2' = num(d, 0)
    <3>1. CASE current_state = "Q_RE"
      BY <1>3, <3>1, Zenon DEF FirstDigit
    <3>2. CASE current_state # "Q_RE"
      <4>1. n2' = [n2 EXCEPT !.value = d]
        BY <1>3, <3>2, Zenon DEF FirstDigit
      <4>2. [n2 EXCEPT !.value = d] = num(d, 0)
        BY <2>2, SMT DEF Zero, num
      <4> QED
        BY <4>1, <4>2
    <3> QED
      BY <3>1, <3>2
  <2>4. d \in Int32 /\ d <= MAX_VALUE
    <3>2. Base^1 <= Base^(MAX_7SEG_SIZE - 1)
      BY PowerOrder, Sizes, SMT
    <3>3. Base <= Top
      BY PowerOne, <3>2, Zenon DEF Top
    <3>4. -Top < d /\ d < Top
      BY <3>3, Ranges, Sizes, SMT
    <3> QED
      BY <1>1, <3>4, Shown, Ranges, SMT
  <2>5. n2' \in Numbers /\ n2'.value = d /\ n2'.dp = 0
    <3>1. 0 \in 0 .. MAX_7SEG_SIZE - 1
      BY Sizes, SMT
    <3> QED
      BY <2>3, <2>4, <3>1, NumberIs, NumIs, Zenon
  <2>6. current_state' \in States /\ tells(current_state', n2')
    <3>1. CASE d = 0
      BY <2>1, <2>3, <3>1, TellsIs, ZeroTyped, Zenon DEF States, Input
    <3>2. CASE d # 0
      BY <2>1, <2>5, <3>2, TellsIs, Zenon DEF States, Input
    <3> QED
      BY <3>1, <3>2
  <2>7. Entered(current_state', n2')
    BY <2>4, <2>5, <2>6, Zenon DEF Entered
  <2>8. Left(current_state', n1') /\ operator' \in Operators
    <3>1. CASE current_state = "Q_RE"
      <4>1. n1' = Zero /\ operator' = "+"
        BY <1>3, <3>1, Zenon DEF FirstDigit
      <4> QED
        BY <2>6, <4>1, Fresh, Zenon DEF Operators
    <3>2. CASE current_state # "Q_RE"
      <4>1. n1' = n1 /\ operator' = operator
        BY <1>3, <3>2, Zenon DEF FirstDigit
      <4> QED
        BY <1>0, <2>1, <4>1, Keeps, StatesDiffer, Zenon
    <3> QED
      BY <3>1, <3>2
  <2> QED
    BY <1>0, <2>1, <2>6, <2>7, <2>8, InvNext, Zenon
<1> QED
  BY <1>2, <1>3

LEMMA OperatorStep ==
  ASSUME TypeOK /\ StateFits, (\E op \in Operators : Operator(op)) \/ Equal,
         prev_state' = current_state
  PROVE  (TypeOK /\ StateFits)'
<1>0. /\ current_state \in States /\ prev_state \in States /\ operator \in Operators
      /\ Left(current_state, n1) /\ Entered(current_state, n2) /\ Kept(memory)
      /\ n1 \in Numbers /\ n2 \in Numbers
  BY InvIs, Zenon DEF Left, Entered
<1>1. memory' = memory
  BY Zenon DEF Operator, Equal
<1>2. operator' \in Operators
  BY <1>0, Zenon DEF Operator, Equal
<1>3. CASE current_state \in Input
  <2>1. PICK next \in {"Q_OP", "Q_RE"} : calc_result(next)
    BY <1>3, StatesDiffer, Zenon DEF Operator, Equal, Input
  <2>2. current_state # "Q_ER"
    BY <1>3, StatesDiffer, Zenon DEF Input
  <2>3. /\ current_state' \in {next, "Q_ER"}
        /\ Left(current_state', n1') /\ Entered(current_state', n2')
    BY <1>0, <2>1, <2>2, CalcResult, Zenon
  <2>4. current_state' \in States
    BY <2>3, Zenon DEF States
  <2> QED
    BY <1>0, <1>1, <1>2, <2>3, <2>4, InvNext, Zenon
<1>4. CASE current_state \notin Input
  <2>1. /\ current_state' \in {"Q_ER", "Q_OP", "Q_RE"}
        /\ n1' = n1 /\ (n2' = n2 \/ n2' = Zero) /\ current_state \in {"Q_OP", "Q_RE"}
        /\ current_state' # "Q_ER" =>
             \/ n2' = n2 /\ current_state = "Q_RE" /\ current_state' = "Q_RE"
             \/ n2' = Zero
    BY <1>4, StatesDiffer, Zenon DEF Operator, Equal
  <2>2. current_state # "Q_ER" /\ current_state' \in States
    BY <2>1, StatesDiffer, Zenon DEF States
  <2>3. Left(current_state', n1')
    BY <1>0, <2>1, <2>2, Keeps, Zenon
  <2>4. Entered(current_state', n2')
    BY <1>0, <2>1, <2>2, Keeps, Fresh, Zenon
  <2> QED
    BY <1>0, <1>1, <1>2, <2>2, <2>3, <2>4, InvNext, Zenon
<1> QED
  BY <1>3, <1>4

Becomes(e, s, n) == e = [state |-> s, n |-> n] /\ e.state = s /\ e.n = n

LEMMA BecomesIs ==
  ASSUME NEW e, NEW s, NEW n, e = [state |-> s, n |-> n]
  PROVE  Becomes(e, s, n)
  BY Zenon DEF Becomes

LEMMA ErasedIs ==
  ASSUME NEW s \in Input, NEW n \in Numbers
  PROVE  /\ s = "Q_DEC" /\ n.dp > 0 => Becomes(erased(s, n), "Q_DEC", drop(n, 1))
         /\ s = "Q_DEC" /\ n.dp = 0 => Becomes(erased(s, n), "Q_N", n)
         /\ s = "Q_N" /\ n.value >= Base =>
              Becomes(erased(s, n), "Q_N", num(n.value \div Base, n.dp))
         /\ s = "Q_N" /\ ~(n.value >= Base) => Becomes(erased(s, n), "Q_OP", Zero)
         /\ s = "Q_ZERO" => Becomes(erased(s, n), "Q_OP", Zero)
         /\ s = "Q_DEC" => n.dp > 0 \/ n.dp = 0
<1>1. ~(n.dp > 0 /\ n.dp = 0) /\ (n.dp > 0 \/ n.dp = 0)
  BY NumberIs, SMT
<1>2. s = "Q_DEC" /\ n.dp > 0 => Becomes(erased(s, n), "Q_DEC", drop(n, 1))
  BY <1>1, StatesDiffer, BecomesIs, Zenon DEF erased
<1>3. s = "Q_DEC" /\ n.dp = 0 => Becomes(erased(s, n), "Q_N", n)
  BY <1>1, StatesDiffer, BecomesIs, Zenon DEF erased
<1>4. s = "Q_N" /\ n.value >= Base =>
        Becomes(erased(s, n), "Q_N", num(n.value \div Base, n.dp))
  BY StatesDiffer, BecomesIs, Zenon DEF erased
<1>5. s = "Q_N" /\ ~(n.value >= Base) => Becomes(erased(s, n), "Q_OP", Zero)
  BY StatesDiffer, BecomesIs, Zenon DEF erased
<1>6. s = "Q_ZERO" => Becomes(erased(s, n), "Q_OP", Zero)
  BY StatesDiffer, BecomesIs, Zenon DEF erased
<1> QED
  BY <1>1, <1>2, <1>3, <1>4, <1>5, <1>6, Zenon

LEMMA ErasedFits ==
  ASSUME NEW s \in Input, NEW n, Entered(s, n)
  PROVE  erased(s, n).state \in States /\ Entered(erased(s, n).state, erased(s, n).n)
<1>0. n \in Numbers /\ n.value <= MAX_VALUE /\ s # "Q_ER" /\ tells(s, n)
  BY StatesDiffer, Zenon DEF Entered, Input
<1>1. n.value \in Int32 /\ n.value \in Int /\ n.dp \in 0 .. MAX_7SEG_SIZE - 1 /\ n.dp \in Nat
  BY <1>0, NumberIs, Zenon
<1>2. ASSUME NEW v \in Int, (0 <= v /\ v <= n.value) \/ (n.value <= v /\ v <= 0)
      PROVE  v \in Int32 /\ v <= MAX_VALUE
  <2>1. -Half <= v /\ v < Half
    BY <1>1, <1>2, Int32Is, Ranges, SMT
  <2>2. v <= MAX_VALUE
    BY <1>0, <1>1, <1>2, Ranges, SMT
  <2> QED
    BY <2>1, <2>2, Int32Is, Zenon
<1>3. Input \subseteq States /\ "Q_OP" \in States /\ "Q_DEC" \in States /\ "Q_N" \in States
  BY Zenon DEF States, Input
<1>4. CASE s = "Q_DEC" /\ n.dp > 0
  <2>1. 1 \in 0 .. n.dp /\ 1 \in 0 .. MaxPower /\ n.dp - 1 \in 0 .. MAX_7SEG_SIZE - 1
    BY <1>1, <1>4, Sizes, SMT
  <2>2. Base^1 \in Nat \ {0}
    BY <2>1, Power, Zenon
  <2> DEFINE v == quot(n.value, Base^1)
  <2>3. v \in Int /\ ((0 <= v /\ v <= n.value) \/ (n.value <= v /\ v <= 0))
    <3>1. /\ v \in Int
          /\ n.value >= 0 => 0 <= v /\ v <= n.value
          /\ n.value < 0 => n.value <= v /\ v <= 0
      BY <1>1, <2>2, Quot, Zenon
    <3> HIDE DEF v
    <3> QED
      BY <3>1, <1>1, SMT
  <2>4. v \in Int32 /\ v <= MAX_VALUE
    BY <1>2, <2>3, Zenon
  <2>5. drop(n, 1) = num(v, n.dp - 1)
    BY Zenon DEF drop
  <2>6. drop(n, 1) \in Numbers /\ drop(n, 1).value = v
    <3> HIDE DEF v
    <3>1. num(v, n.dp - 1) \in Numbers
      BY <2>1, <2>4, NumberIs, Zenon
    <3> QED
      BY <2>5, <3>1, NumIs, Zenon
  <2>7. Entered("Q_DEC", drop(n, 1))
    BY <2>4, <2>6, TellsIs, Zenon DEF Entered
  <2>8. erased(s, n).state = "Q_DEC" /\ erased(s, n).n = drop(n, 1)
    BY <1>0, <1>4, ErasedIs, Zenon DEF Becomes
  <2> QED
    BY <1>3, <2>7, <2>8, Zenon
<1>5. CASE s = "Q_DEC" /\ n.dp = 0
  <2>1. erased(s, n).state = "Q_N" /\ erased(s, n).n = n
    BY <1>0, <1>5, ErasedIs, Zenon DEF Becomes
  <2>2. Entered("Q_N", n)
    BY <1>0, <1>5, TellsIs, Zenon DEF Entered
  <2> QED
    BY <1>3, <2>1, <2>2, Zenon
<1>6. CASE s = "Q_N" /\ n.value >= Base
  <2> DEFINE v == n.value \div Base
  <2>1. v \in Int /\ 0 <= v /\ v <= n.value
    <3>1. n.value >= 0 /\ Base \in Nat \ {0}
      BY <1>1, <1>6, Sizes, SMT
    <3> QED
      BY <3>1, <1>1, Quot, Zenon
  <2> HIDE DEF v
  <2>2. v \in Int32 /\ v <= MAX_VALUE
    BY <1>2, <2>1, Zenon
  <2>3. erased(s, n).state = "Q_N" /\ erased(s, n).n = num(v, n.dp)
    BY <1>0, <1>6, ErasedIs, Zenon DEF v, Becomes
  <2>4. num(v, n.dp) \in Numbers /\ num(v, n.dp).value = v /\ num(v, n.dp).dp = n.dp
    BY <1>1, <2>2, NumberIs, NumIs, Zenon
  <2>5. n.dp = 0
    BY <1>0, <1>6, TellsIs, Zenon
  <2>6. Entered("Q_N", num(v, n.dp))
    BY <2>2, <2>4, <2>5, TellsIs, Zenon DEF Entered
  <2> QED
    BY <1>3, <2>3, <2>6, Zenon
<1>7. CASE s = "Q_ZERO" \/ (s = "Q_N" /\ ~(n.value >= Base))
  <2>1. erased(s, n).state = "Q_OP" /\ erased(s, n).n = Zero
    BY <1>0, <1>7, ErasedIs, Zenon DEF Becomes
  <2> QED
    BY <1>3, <2>1, Fresh, Zenon
<1> QED
  BY <1>0, <1>4, <1>5, <1>6, <1>7, ErasedIs, Zenon DEF Input

LEMMA BackspaceStep ==
  ASSUME TypeOK /\ StateFits, Backspace, prev_state' = current_state
  PROVE  (TypeOK /\ StateFits)'
<1>0. /\ current_state \in States /\ prev_state \in States /\ operator \in Operators
      /\ Left(current_state, n1) /\ Entered(current_state, n2) /\ Kept(memory)
  BY InvIs, Zenon
<1>1. memory' = memory /\ "+" \in Operators
  BY Zenon DEF Backspace, Operators
<1>2. CASE current_state \in Input
  <2>1. /\ current_state' = erased(current_state, n2).state
        /\ n2' = erased(current_state, n2).n /\ n1' = n1 /\ operator' = operator
    BY <1>2, StatesDiffer, Zenon DEF Backspace, Input
  <2>2. current_state # "Q_ER"
    BY <1>2, StatesDiffer, Zenon DEF Input
  <2>3. current_state' \in States /\ Entered(current_state', n2') /\ Left(current_state', n1')
    BY <1>0, <1>2, <2>1, <2>2, ErasedFits, Keeps, Zenon
  <2> QED
    BY <1>0, <1>1, <2>1, <2>3, InvNext, Zenon
<1>3. CASE current_state = "Q_OP"
  <2>1. current_state' = reentered /\ n1' = Zero /\ n2' = n1 /\ operator' = "+"
    BY <1>3, StatesDiffer, Zenon DEF Backspace, Input
  <2>2. n1 \in Numbers /\ InRange(n1.value) /\ n1.value \in Int /\ n1.dp \in Nat
        /\ n1 = num(n1.value, n1.dp)
    BY <1>0, <1>3, NumberIs, StatesDiffer, Zenon DEF Left
  <2>3. n1.value <= MAX_VALUE
    BY <2>2, SMT DEF InRange
  <2>4. reentered \in States /\ tells(reentered, n1)
    <3>1. CASE n1.dp > 0
      BY <3>1, TellsIs, Zenon DEF reentered, States, Input
    <3>2. CASE ~(n1.dp > 0)
      <4>1. n1.dp = 0
        BY <2>2, <3>2, SMT
      <4>2. CASE n1.value = 0
        <5>1. n1 = Zero /\ reentered = "Q_ZERO"
          BY <2>2, <3>2, <4>1, <4>2, ZeroTyped, Zenon DEF reentered
        <5> QED
          BY <5>1, TellsIs, Zenon DEF States, Input
      <4>3. CASE n1.value # 0
        <5>1. reentered = "Q_N"
          BY <3>2, <4>3, Zenon DEF reentered
        <5> QED
          BY <4>1, <5>1, TellsIs, Zenon DEF States, Input
      <4> QED
        BY <4>2, <4>3
    <3> QED
      BY <3>1, <3>2
  <2> QED
    BY <1>0, <1>1, <2>1, <2>2, <2>3, <2>4, Fresh, InvNext, Zenon DEF Entered
<1>4. CASE current_state \notin Input /\ current_state # "Q_OP"
  <2>1. /\ current_state' = "Q_ER" /\ n1' = n1 /\ n2' = n2 /\ operator' = operator
        /\ current_state = "Q_RE"
    BY <1>4, Zenon DEF Backspace
  <2>2. Entered(current_state', n2') /\ Left(current_state', n1') /\ current_state' \in States
    BY <1>0, <2>1, Keeps, StatesDiffer, Zenon DEF States
  <2> QED
    BY <1>0, <1>1, <2>1, <2>2, InvNext, Zenon
<1> QED
  BY <1>2, <1>3, <1>4

LEMMA MemoriseStep ==
  ASSUME TypeOK /\ StateFits, NEW sign \in {1, -1}, Memorise(sign),
         prev_state' = current_state
  PROVE  (TypeOK /\ StateFits)'
<1>0. /\ current_state \in States /\ prev_state \in States /\ operator \in Operators
      /\ Left(current_state, n1) /\ Entered(current_state, n2) /\ Kept(memory)
  BY InvIs, Zenon
<1>1. /\ current_state' = current_state /\ n1' = n1 /\ n2' = n2 /\ operator' = operator
  BY Zenon DEF Memorise
<1>2. PICK n \in Numbers : memory' = memorised(n, sign)
  BY <1>0, Zenon DEF Memorise, Left, Entered
<1> DEFINE dp    == Max({memory.n.dp, n.dp})
           value == int(int(aligned(memory.n, dp)) + sign * int(aligned(n, dp)))
<1>3. memory.n \in Numbers /\ sign \in Int
  BY <1>0, SMT DEF Kept
<1>4. /\ dp \in 0 .. MAX_7SEG_SIZE - 1 /\ memory.n.dp <= dp /\ n.dp <= dp
  <2>1. memory.n.dp \in Int /\ n.dp \in Int /\ memory.n.dp \in 0 .. MAX_7SEG_SIZE - 1
        /\ n.dp \in 0 .. MAX_7SEG_SIZE - 1
    BY <1>3, NumberIs, SMT
  <2>2. dp = IF memory.n.dp >= n.dp THEN memory.n.dp ELSE n.dp
    BY <2>1, MaxOfTwo, Zenon
  <2> QED
    BY <2>1, <2>2, SMT
<1>5. value \in Int32
  <2> HIDE DEF dp
  <2>1. aligned(memory.n, dp) \in Int /\ aligned(n, dp) \in Int
    BY <1>3, <1>4, Aligned, Zenon
  <2>2. int(aligned(memory.n, dp)) \in Int /\ int(aligned(n, dp)) \in Int
    BY <2>1, Wraps, Int32Is, Zenon
  <2>3. int(aligned(memory.n, dp)) + sign * int(aligned(n, dp)) \in Int
    BY <1>3, <2>2, SMT
  <2> QED
    BY <2>3, Wraps, Zenon
<1>6. memory' = IF ~InRange(value) THEN memory_clear
                ELSE [n |-> num(value, dp),
                      last_changed_state |-> IF dp > 0 THEN "Q_DEC"
                                             ELSE IF value = 0 THEN "Q_ZERO" ELSE "Q_N"]
  BY <1>2, Zenon DEF memorised
<1> HIDE DEF value, dp
<1>7. Kept(memory')
  <2>1. CASE ~InRange(value)
    BY <1>6, <2>1, Fresh, Zenon
  <2>2. CASE InRange(value)
    <3>1. /\ memory'.n = num(value, dp)
          /\ memory'.last_changed_state = IF dp > 0 THEN "Q_DEC"
                                          ELSE IF value = 0 THEN "Q_ZERO" ELSE "Q_N"
      BY <1>6, <2>2, Zenon
    <3>2. memory'.n \in Numbers /\ memory'.n.value = value /\ memory'.n.dp = dp
      <4>1. num(value, dp) \in Numbers
        BY <1>4, <1>5, NumberIs, Zenon
      <4>2. num(value, dp).value = value /\ num(value, dp).dp = dp
        BY NumIs, Zenon
      <4>3. memory'.n = num(value, dp)
        BY <3>1
      <4> QED
        BY <4>1, <4>2, <4>3
    <3>3. dp > 0 \/ dp = 0
      BY <1>4, Sizes, SMT
    <3>4. /\ memory'.last_changed_state \in Input
          /\ tells(memory'.last_changed_state, memory'.n)
      <4>1. CASE dp > 0
        BY <3>1, <4>1, TellsIs, Zenon DEF Input
      <4>2. CASE ~(dp > 0) /\ value = 0
        BY <3>1, <3>3, <4>2, TellsIs, ZeroTyped, Zenon DEF Input
      <4>3. CASE ~(dp > 0) /\ value # 0
        BY <3>1, <3>2, <3>3, <4>3, TellsIs, Zenon DEF Input
      <4> QED
        BY <4>1, <4>2, <4>3
    <3> QED
      BY <2>2, <3>2, <3>4, Zenon DEF Kept
  <2> QED
    BY <2>1, <2>2
<1> QED
  BY <1>0, <1>1, <1>7, InvNext, Zenon

LEMMA OtherStep ==
  ASSUME TypeOK /\ StateFits, Period \/ MemoryRecall \/ MemoryClear \/ Ignored,
         prev_state' = current_state
  PROVE  (TypeOK /\ StateFits)'
<1>0. /\ current_state \in States /\ prev_state \in States /\ operator \in Operators
      /\ Left(current_state, n1) /\ Entered(current_state, n2) /\ Kept(memory)
  BY InvIs, Zenon
<1>1. CASE Period
  <2>1. /\ current_state # "Q_ER" /\ current_state' \in {"Q_DEC", "Q_ER"}
        /\ n1' = n1 /\ n2' = n2 /\ operator' = operator /\ memory' = memory
    BY <1>1, Zenon DEF Period
  <2>2. Left(current_state', n1') /\ current_state' \in States
    BY <1>0, <2>1, Keeps, Zenon DEF States, Input
  <2>3. Entered(current_state', n2')
    BY <1>0, <2>1, TellsIs, Zenon DEF Entered
  <2> QED
    BY <1>0, <2>1, <2>2, <2>3, InvNext, Zenon
<1>2. CASE MemoryRecall
  <2>1. /\ current_state # "Q_ER" /\ memory' = memory
        /\ n2' = memory.n /\ current_state' = memory.last_changed_state
        /\ (n1' = Zero /\ operator' = "+") \/ (n1' = n1 /\ operator' = operator)
    BY <1>2, Zenon DEF MemoryRecall
  <2>2. current_state' \in States /\ operator' \in Operators
    BY <1>0, <2>1, Zenon DEF Kept, States, Operators
  <2>3. Left(current_state', n1')
    BY <1>0, <2>1, <2>2, Keeps, Fresh, Zenon
  <2>4. n2' \in Numbers /\ InRange(n2'.value) /\ tells(current_state', n2')
    BY <1>0, <2>1, Zenon DEF Kept
  <2>5. n2'.value <= MAX_VALUE
    BY <2>4, SMT DEF InRange
  <2> QED
    BY <1>0, <2>1, <2>2, <2>3, <2>4, <2>5, InvNext, Zenon DEF Entered
<1>3. CASE MemoryClear
  <2>1. /\ current_state' = current_state /\ n1' = n1 /\ n2' = n2 /\ operator' = operator
        /\ memory' = memory_clear
    BY <1>3, Zenon DEF MemoryClear
  <2> QED
    BY <1>0, <2>1, Fresh, InvNext, Zenon
<1>4. CASE Ignored
  <2>1. /\ current_state' = current_state /\ n1' = n1 /\ n2' = n2 /\ operator' = operator
        /\ memory' = memory
    BY <1>4, Zenon DEF Ignored
  <2> QED
    BY <1>0, <2>1, InvNext, Zenon
<1> QED
  BY <1>1, <1>2, <1>3, <1>4

LEMMA Step ==
  ASSUME TypeOK /\ StateFits, [Next]_vars
  PROVE  (TypeOK /\ StateFits)'
<1>0. Kept(memory)
  BY InvIs, Zenon
<1>1. CASE Key /\ prev_state' = current_state
  <2>1. CASE \E d \in 0 .. Base - 1 : NextDigit(d) \/ FirstDigit(d)
    BY <1>1, <2>1, DigitStep, Zenon
  <2>2. CASE (\E op \in Operators : Operator(op)) \/ Equal
    BY <1>1, <2>2, OperatorStep, Zenon
  <2>3. CASE \E sign \in {1, -1} : Memorise(sign)
    BY <1>1, <2>3, MemoriseStep, Zenon
  <2>4. CASE Period \/ MemoryRecall \/ MemoryClear \/ Ignored
    BY <1>1, <2>4, OtherStep, Zenon
  <2>5. CASE Backspace
    BY <1>1, <2>5, BackspaceStep, Zenon
  <2> QED
    BY <1>1, <2>1, <2>2, <2>3, <2>4, <2>5, Zenon DEF Key
<1>2. CASE clear_process /\ (memory' = memory_clear \/ memory' = memory)
  <2>1. /\ current_state' = "Q_OP" /\ prev_state' = "Q_OP" /\ n1' = Zero /\ n2' = Zero
        /\ operator' = "+" /\ Kept(memory')
    BY <1>0, <1>2, Fresh, Zenon DEF clear_process
  <2>2. "Q_OP" \in States /\ "+" \in Operators
    BY Zenon DEF States, Operators
  <2> QED
    BY <2>1, <2>2, Fresh, InvNext, Zenon
<1>3. CASE UNCHANGED vars
  <2>1. /\ current_state' = current_state /\ prev_state' = prev_state /\ n1' = n1 /\ n2' = n2
        /\ operator' = operator /\ memory' = memory
    BY <1>3, Zenon DEF vars
  <2> QED
    BY <2>1, InvIs, InvNext, Zenon
<1> QED
  BY <1>1, <1>2, <1>3, Zenon DEF Next, Clear, Restart

(* Every number of the calculator fits its int and the digits the display  *)
(* has after the point, whatever keys are pressed, with the memory kept    *)
(* over a restart and with an int that wraps.                              *)
THEOREM TypeCorrect == Spec => []TypeOK
<1>1. Spec => [](TypeOK /\ StateFits)
  BY Initially, Step, PTL DEF Spec
<1> QED
  BY <1>1, PTL

(* The state tells what the numbers are, however it was reached, and the   *)
(* numbers in use and in memory are ones that the display can show.        *)
THEOREM StatesFit == Spec => []StateFits
<1>1. Spec => [](TypeOK /\ StateFits)
  BY Initially, Step, PTL DEF Spec
<1> QED
  BY <1>1, PTL

-----------------------------------------------------------------------------
(* Backspace after a digit. *)

DigitBack ==
  (/\ \E d \in 0 .. Base - 1 : NextDigit(d)
   /\ current_state' # "Q_ER"
   /\ n2.value > 0 \/ (n2.value = 0 /\ current_state = "Q_DEC"))
  => erased(current_state', n2') = [state |-> current_state, n |-> n2]

LEMMA DigitBackStep ==
  ASSUME TypeOK /\ StateFits, [Next]_vars
  PROVE  DigitBack
<1> SUFFICES ASSUME NEW d \in 0 .. Base - 1, NextDigit(d), current_state' # "Q_ER",
                    n2.value > 0 \/ (n2.value = 0 /\ current_state = "Q_DEC")
             PROVE  erased(current_state', n2') = [state |-> current_state, n |-> n2]
  BY Zenon DEF DigitBack
<1>0. n2 \in Numbers /\ n2.value <= MAX_VALUE /\ current_state \in {"Q_N", "Q_DEC"}
  BY InvIs, Zenon DEF Entered, NextDigit
<1>1. n2.value \in Int /\ n2.dp \in 0 .. MAX_7SEG_SIZE - 1 /\ n2.dp \in Nat /\ d \in Int
      /\ n2 = num(n2.value, n2.dp)
  BY <1>0, NumberIs, Sizes, SMT
<1> DEFINE v  == n2.value * Base + d
           dp == IF current_state = "Q_DEC" THEN n2.dp + 1 ELSE n2.dp
(* The digit makes no more than an int has room for. *)
<1>2. v \in Int /\ 0 <= v /\ v < Half /\ n2.value >= 0
  <2>1. n2.value >= 0 /\ n2.value <= Top - 1
    BY <1>0, <1>1, Ranges, SMT
  <2>2. n2.value * Base <= (Top - 1) * Base /\ 0 <= n2.value * Base
    BY <1>1, <2>1, Ranges, Sizes, SMT
  <2>3. (Top - 1) * Base = Base * Top - Base
    BY Ranges, Sizes, SMT
  <2> QED
    BY <1>1, <2>1, <2>2, <2>3, Ranges, Sizes, SMT
<1>3. int(v) = v /\ v \in Int32
  <2> HIDE DEF v
  <2>1. v \in Int32
    BY <1>2, Int32Is, Ranges, SMT
  <2> QED
    BY <1>2, <2>1, Wraps, Zenon
<1>4. n2' = num(v, dp) /\ current_state' = current_state /\ dp \in 0 .. MAX_7SEG_SIZE - 1
  <2>1. IF int(v) > MAX_VALUE \/ dp > MAX_7SEG_SIZE - 1
        THEN n2' = Zero /\ current_state' = "Q_ER"
        ELSE n2' = num(int(v), dp) /\ current_state' = current_state
    BY Zenon DEF NextDigit
  <2>2. ~(dp > MAX_7SEG_SIZE - 1) /\ n2' = num(v, dp) /\ current_state' = current_state
    BY <1>3, <2>1, Zenon
  <2>3. dp \in Int /\ dp >= 0
    BY <1>1, SMT
  <2> QED
    BY <2>2, <2>3, Sizes, SMT
<1>5. v \div Base = n2.value
  <2>1. 0 <= d /\ d < Base /\ Base \in Nat \ {0}
    BY Sizes, SMT
  <2> QED
    BY <1>1, <1>2, <2>1, DivUnique, Zenon
<1> HIDE DEF v, dp
<1>6. num(v, dp) \in Numbers /\ num(v, dp).value = v /\ num(v, dp).dp = dp
  BY <1>3, <1>4, NumIs, NumberIs, Zenon
<1>7. CASE current_state = "Q_DEC"
  <2>1. dp = n2.dp + 1
    BY <1>7, Zenon DEF dp
  <2>2. dp > 0 /\ dp - 1 = n2.dp
    BY <2>1, <1>1, SMT
  <2>3. erased("Q_DEC", num(v, dp)) = [state |-> "Q_DEC", n |-> drop(num(v, dp), 1)]
    BY <1>6, <2>2, ErasedIs, Zenon DEF Becomes, Input
  <2>4. drop(num(v, dp), 1) = num(quot(v, Base), n2.dp)
    BY <1>6, <2>2, PowerOne, Zenon DEF drop
  <2>5. quot(v, Base) = n2.value
    <3>1. Base \in Nat \ {0} /\ v >= 0
      BY <1>2, Sizes, SMT
    <3> QED
      BY <1>2, <1>5, <3>1, Quot, Zenon
  <2>6. drop(num(v, dp), 1) = n2
    BY <1>1, <2>4, <2>5, Zenon
  <2>7. erased(current_state', n2') = erased("Q_DEC", num(v, dp))
    BY <1>4, <1>7
  <2> QED
    BY <1>7, <2>3, <2>6, <2>7, Zenon
<1>8. CASE current_state # "Q_DEC"
  <2>1. current_state = "Q_N" /\ dp = n2.dp
    BY <1>0, <1>8, Zenon DEF dp
  <2>2. v >= Base
    <3>1. n2.value >= 1
      BY <1>1, <1>8, SMT
    <3>2. n2.value * Base >= 1 * Base
      BY <3>1, <1>1, Sizes, SMT
    <3> QED
      BY <3>2, <1>1, Sizes, SMT DEF v
  <2>3. erased("Q_N", num(v, dp)) = [state |-> "Q_N", n |-> num(v \div Base, dp)]
    BY <1>6, <2>2, ErasedIs, Zenon DEF Becomes, Input
  <2>4. num(v \div Base, dp) = n2
    BY <1>1, <1>5, <2>1, Zenon
  <2>5. erased(current_state', n2') = erased("Q_N", num(v, dp))
    BY <1>4, <2>1
  <2> QED
    BY <2>1, <2>3, <2>4, <2>5, Zenon
<1> QED
  BY <1>7, <1>8

(* Backspace takes back the digit entered last and nothing else: the digit *)
(* that NextDigit has added never wraps the int, so dividing by the base   *)
(* undoes it.                                                              *)
THEOREM DigitIsTakenBack == Spec => DigitTakenBack
<1>1. Spec => [](TypeOK /\ StateFits)
  BY Initially, Step, PTL DEF Spec
<1>2. (TypeOK /\ StateFits) /\ [Next]_vars => DigitBack
  BY DigitBackStep
<1>3. DigitBack => [DigitBack]_vars
  OBVIOUS
<1>4. Spec => [][DigitBack]_vars
  BY <1>1, <1>2, PTL DEF Spec
<1> QED
  BY <1>4, Zenon DEF DigitTakenBack, DigitBack

-----------------------------------------------------------------------------
(* Divisions that follow one another. *)

LEMMA DivNat ==
  ASSUME NEW a \in Nat, NEW b \in Nat \ {0}
  PROVE  a \div b \in Nat /\ 0 \div b = 0
<1>1. /\ a >= 0 /\ a \in Int /\ 0 \in Int /\ 0 >= 0
  BY SMT
<1>2. 0 <= a \div b /\ a \div b \in Int
  BY <1>1, Quot, DivMod, Zenon
<1>3. b \in Nat \ {0} /\ 0 = 0 * b + 0 /\ 0 <= 0 /\ 0 < b
  BY SMT
<1>4. 0 \div b = 0
  BY <1>1, <1>3, DivUnique, Zenon
<1> QED
  BY <1>2, <1>4, SMT

LEMMA DivDiv ==
  ASSUME NEW n \in Int, NEW A \in Nat \ {0}, NEW B \in Nat \ {0}
  PROVE  (n \div A) \div B = n \div (A * B)
<1> DEFINE q == n \div A  r == n % A  q2 == q \div B  r2 == q % B
<1>1. q \in Int /\ r \in Int /\ 0 <= r /\ r < A /\ n = A * q + r
  BY DivMod, SMT
<1>2. q2 \in Int /\ r2 \in Int /\ 0 <= r2 /\ r2 < B /\ q = B * q2 + r2
  BY <1>1, DivMod, SMT
<1>3. (n \div A) \div B = q2
  OBVIOUS
<1> HIDE DEF q, r, q2, r2
<1>4. n = A * (B * q2 + r2) + r /\ A * (B * q2 + r2) = q2 * (A * B) + A * r2
  BY <1>1, <1>2, SMT
<1>5. A * B \in Nat \ {0} /\ A * r2 + r \in Int /\ n = q2 * (A * B) + (A * r2 + r)
  BY <1>1, <1>2, <1>4, SMT
<1>6. 0 <= A * r2 + r /\ A * r2 + r < A * B
  <2>1. 0 <= A * r2 /\ A * r2 <= A * (B - 1) /\ A * (B - 1) = A * B - A
    BY <1>2, SMT
  <2> QED
    BY <1>1, <1>2, <1>5, <2>1, SMT
<1>7. n \div (A * B) = q2
  BY <1>2, <1>5, <1>6, DivUnique, Zenon
<1> QED
  BY <1>3, <1>7

LEMMA DivScale ==
  ASSUME NEW a \in Int, NEW b \in Nat \ {0}, NEW k \in Nat \ {0}
  PROVE  (a * k) \div (b * k) = a \div b
<1> DEFINE q == a \div b  r == a % b
<1>1. q \in Int /\ r \in Int /\ 0 <= r /\ r < b /\ a = b * q + r
  BY DivMod, SMT
<1> HIDE DEF q, r
<1>2. b * k \in Nat \ {0} /\ a * k \in Int /\ r * k \in Int /\ 0 <= r * k
  BY <1>1, SMT
<1>3. r * k < b * k
  <2>1. r * k <= (b - 1) * k /\ (b - 1) * k = b * k - k
    BY <1>1, SMT
  <2> QED
    BY <1>2, <2>1, SMT
<1>4. a * k = q * (b * k) + r * k
  <2>1. (b * q + r) * k = (b * q) * k + r * k /\ (b * q) * k = q * (b * k)
    BY <1>1, SMT
  <2> QED
    BY <1>1, <2>1, SMT
<1>5. (a * k) \div (b * k) = q
  <2> DEFINE n == a * k  M == b * k  s == r * k
  <2> SUFFICES n \div M = q
    OBVIOUS
  <2>1. n \in Int /\ M \in Nat \ {0} /\ s \in Int /\ n = q * M + s /\ 0 <= s /\ s < M
    BY <1>2, <1>3, <1>4, Zenon
  <2> HIDE DEF n, M, s
  <2> QED
    BY <1>1, <2>1, DivUnique, Zenon
<1> QED
  BY <1>5, Zenon DEF q

LEMMA AbsScale ==
  ASSUME NEW a \in Int, NEW k \in Nat \ {0}
  PROVE  /\ Abs(a) \in Nat /\ (a # 0 => Abs(a) \in Nat \ {0})
         /\ a * k \in Int /\ Abs(a * k) = Abs(a) * k /\ (a * k < 0 <=> a < 0)
         /\ (a # 0 => a * k # 0)
<1>1. CASE a < 0
  <2>1. a * k <= (-1) * k
    BY <1>1, SMT
  <2>2. a * k < 0 /\ a * k \in Int /\ -(a * k) = (-a) * k
    BY <2>1, SMT
  <2>3. Abs(a) = -a /\ Abs(a * k) = -(a * k)
    BY <1>1, <2>2, SMT DEF Abs
  <2> QED
    BY <1>1, <2>2, <2>3, SMT
<1>2. CASE a >= 0
  <2>1. a * k >= 0 /\ a * k \in Int /\ (a # 0 => a * k >= a)
    BY <1>2, SMT
  <2>2. Abs(a) = a /\ Abs(a * k) = a * k
    BY <1>2, <2>1, SMT DEF Abs
  <2> QED
    BY <1>2, <2>1, <2>2, SMT
<1> QED
  BY <1>1, <1>2, SMT

(* A factor that both have in common does not matter. *)
LEMMA QuotScale ==
  ASSUME NEW a \in Int, NEW b \in Int, b # 0, NEW k \in Nat \ {0}
  PROVE  quot(a * k, b * k) = quot(a, b)
<1>1. /\ Abs(a) \in Int /\ Abs(b) \in Nat \ {0}
      /\ Abs(a * k) = Abs(a) * k /\ Abs(b * k) = Abs(b) * k
      /\ (a * k < 0 <=> a < 0) /\ (b * k < 0 <=> b < 0)
  BY AbsScale, SMT
<1>2. (Abs(a) * k) \div (Abs(b) * k) = Abs(a) \div Abs(b)
  BY <1>1, DivScale, Zenon
<1>3. Abs(a * k) \div Abs(b * k) = Abs(a) \div Abs(b)
  BY <1>1, <1>2, Zenon
<1>4. (a * k < 0) = (b * k < 0) <=> (a < 0) = (b < 0)
  BY <1>1, SMT
<1> QED
  BY <1>3, <1>4, Zenon DEF quot

LEMMA QuotOfNegative ==
  ASSUME NEW q \in Nat, NEW c \in Nat \ {0}
  PROVE  quot(-q, c) = -(q \div c) /\ quot(q, c) = q \div c
<1>1. q \in Int /\ -q \in Int /\ -(-q) = q /\ q >= 0 /\ (-q < 0 \/ q = 0)
  BY SMT
<1>2. quot(q, c) = q \div c
  BY <1>1, Quot, Zenon
<1>3. CASE -q < 0
  BY <1>1, <1>2, <1>3, Quot, Zenon
<1>4. CASE q = 0
  <2>1. \A x \in Int : x >= 0 /\ x <= 0 => -x = x
    BY SMT
  <2>2. q \div c = 0
    BY <1>4, DivNat, Zenon
  <2>3. q >= 0 /\ q <= 0 /\ q \div c >= 0 /\ q \div c <= 0 /\ q \div c \in Int
    <3> q \div c = q
      BY <1>4, <2>2, Zenon
    <3> QED
      BY <1>4, SMT
  <2>4. -q = q /\ -(q \div c) = q \div c
    BY <1>1, <2>1, <2>3, Zenon
  <2> QED
    BY <1>2, <2>4, Zenon
<1> QED
  BY <1>1, <1>3, <1>4, Zenon

(* The digits after a cut do not matter to a later one. *)
LEMMA QuotQuot ==
  ASSUME NEW a \in Int, NEW b \in Int, b # 0, NEW c \in Nat \ {0}
  PROVE  quot(quot(a, b), c) = quot(a, b * c)
<1> DEFINE A == Abs(a)  D == Abs(b)  q == A \div D
<1>1. A \in Nat /\ A \in Int /\ D \in Nat \ {0} /\ Abs(b * c) = D * c
      /\ (b * c < 0 <=> b < 0)
  BY AbsScale, SMT
<1>2. q \in Nat /\ q \div c = A \div (D * c)
  BY <1>1, DivNat, DivDiv, Zenon
<1>3. (a < 0) = (b * c < 0) <=> (a < 0) = (b < 0)
  BY <1>1, SMT
<1>4. quot(a, b) = IF (a < 0) = (b < 0) THEN q ELSE -q
  BY Zenon DEF quot
<1>5. quot(a, b * c) = IF (a < 0) = (b < 0) THEN A \div (D * c) ELSE -(A \div (D * c))
  BY <1>1, <1>3, Zenon DEF quot
<1> HIDE DEF q, A, D
<1>6. quot(q, c) = q \div c /\ quot(-q, c) = -(q \div c)
  BY <1>2, QuotOfNegative, Zenon
<1> QED
  BY <1>2, <1>4, <1>5, <1>6, Zenon

(* Nothing is cut off a multiple. *)
LEMMA QuotExact ==
  ASSUME NEW a \in Int, NEW b \in Nat \ {0}
  PROVE  quot(a * b, b) = a
<1>1. 1 \in Int /\ 1 # 0 /\ 1 * b = b /\ 1 \in Nat \ {0}
  BY SMT
<1>2. quot(a * b, 1 * b) = quot(a, 1)
  BY <1>1, QuotScale, Zenon
<1>3. ASSUME NEW n \in Int PROVE n \div 1 = n
  <2>1. n = n * 1 + 0 /\ 0 \in Int /\ 0 <= 0 /\ 0 < 1
    BY SMT
  <2> QED
    BY <1>1, <2>1, DivUnique, Zenon
<1>4. quot(a, 1) = a
  <2>1. a >= 0 \/ a < 0
    BY SMT
  <2>2. -a \in Int /\ -(-a) = a
    BY SMT
  <2> QED
    BY <1>1, <1>3, <2>1, <2>2, Quot, Zenon
<1> QED
  BY <1>1, <1>2, <1>4, Zenon

LEMMA QuotInRange ==
  ASSUME NEW a \in Int, NEW b \in Nat \ {0}, InRange(a)
  PROVE  InRange(quot(a, b))
<1> DEFINE q == quot(a, b)
<1>1. q \in Int /\ (a >= 0 => 0 <= q /\ q <= a) /\ (a < 0 => a <= q /\ q <= 0)
  BY Quot, Zenon
<1> HIDE DEF q
<1>2. InRange(q)
  BY <1>1, Ranges, SMT DEF InRange
<1> QED
  BY <1>2, Zenon DEF q

-----------------------------------------------------------------------------
(* The exact result, as a fraction: num / den. *)

LEMMA ExactCases ==
  LET P1 == Base^n1.dp
      P2 == Base^n2.dp
  IN  /\ operator = "+" => exact.num = n1.value * P2 + n2.value * P1 /\ exact.den = P1 * P2
      /\ operator = "-" => exact.num = n1.value * P2 - n2.value * P1 /\ exact.den = P1 * P2
      /\ operator = "*" => exact.num = n1.value * n2.value /\ exact.den = P1 * P2
      /\ operator = "/" => exact.num = n1.value * P2 /\ exact.den = n2.value * P1
      /\ operator = "%" => /\ exact.num = n1.value - n2.value * quot(n1.value, n2.value)
                           /\ exact.den = 1
<1> "+" # "-" /\ "+" # "*" /\ "+" # "/" /\ "+" # "%" /\ "-" # "*" /\ "-" # "/" /\ "-" # "%"
    /\ "*" # "/" /\ "*" # "%" /\ "/" # "%"
  OBVIOUS
<1> DEFINE P1 == Base^n1.dp
           P2 == Base^n2.dp
<1>1. operator = "+" => exact = [num |-> n1.value * P2 + n2.value * P1, den |-> P1 * P2]
  BY Zenon DEF exact
<1>2. operator = "-" => exact = [num |-> n1.value * P2 - n2.value * P1, den |-> P1 * P2]
  BY Zenon DEF exact
<1>3. operator = "*" => exact = [num |-> n1.value * n2.value, den |-> P1 * P2]
  BY Zenon DEF exact
<1>4. operator = "/" => exact = [num |-> n1.value * P2, den |-> n2.value * P1]
  BY Zenon DEF exact
<1>5. operator = "%" =>
        exact = [num |-> n1.value - n2.value * quot(n1.value, n2.value), den |-> 1]
  BY Zenon DEF exact
<1> HIDE DEF P1, P2
<1>6. \A a, b : [num |-> a, den |-> b].num = a /\ [num |-> a, den |-> b].den = b
  BY Zenon
<1>7. operator = "+" => exact.num = n1.value * P2 + n2.value * P1 /\ exact.den = P1 * P2
  BY <1>1, <1>6, Zenon
<1>8. operator = "-" => exact.num = n1.value * P2 - n2.value * P1 /\ exact.den = P1 * P2
  BY <1>2, <1>6, Zenon
<1>9. operator = "*" => exact.num = n1.value * n2.value /\ exact.den = P1 * P2
  BY <1>3, <1>6, Zenon
<1>10. operator = "/" => exact.num = n1.value * P2 /\ exact.den = n2.value * P1
  BY <1>4, <1>6, Zenon
<1>11. operator = "%" => /\ exact.num = n1.value - n2.value * quot(n1.value, n2.value)
                         /\ exact.den = 1
  BY <1>5, <1>6, Zenon
<1> QED
  BY <1>7, <1>8, <1>9, <1>10, <1>11, Zenon DEF P1, P2

LEMMA Product ==
  ASSUME NEW a \in Int, NEW b \in Int
  PROVE  a * b \in Int /\ (a \in Nat \ {0} /\ b \in Nat \ {0} => a * b \in Nat \ {0})
         /\ (a # 0 /\ b \in Nat \ {0} => a * b # 0)
<1>1. a * b \in Int
  BY SMT
<1>2. a \in Nat \ {0} /\ b \in Nat \ {0} => a * b \in Nat \ {0}
  BY SMT
<1>3. a # 0 /\ b \in Nat \ {0} => a * b # 0
  BY AbsScale
<1> QED
  BY <1>1, <1>2, <1>3

(* What the operands are: numbers that an operator can be applied to. *)
Operands == n1 \in Numbers /\ n2 \in Numbers /\ operator \in Operators /\ ~impossible

LEMMA OperandsAre ==
  ASSUME Operands
  PROVE  /\ n1.value \in Int /\ n1.dp \in 0 .. MAX_7SEG_SIZE - 1
         /\ n2.value \in Int /\ n2.dp \in 0 .. MAX_7SEG_SIZE - 1
         /\ n1.dp \in 0 .. MaxPower /\ n2.dp \in 0 .. MaxPower
         /\ Base^n1.dp \in Nat \ {0} /\ Base^n2.dp \in Nat \ {0}
         /\ operator \in {"/", "%"} => n2.value # 0
         /\ raw \in Long(Digits) /\ raw.value \in Int /\ raw.dp \in 0 .. Digits
         /\ raw.dp \in 0 .. MaxPower /\ raw.dp \in Nat
<1>1. /\ n1.value \in Int /\ n1.dp \in 0 .. MAX_7SEG_SIZE - 1
      /\ n2.value \in Int /\ n2.dp \in 0 .. MAX_7SEG_SIZE - 1
  BY NumberIs, Zenon DEF Operands
<1>2. n1.dp \in 0 .. MaxPower /\ n2.dp \in 0 .. MaxPower
  BY <1>1, Sizes, SMT
<1>3. Base^n1.dp \in Nat \ {0} /\ Base^n2.dp \in Nat \ {0}
  BY <1>2, Power, Zenon
<1>4. operator \in {"/", "%"} => n2.value # 0
  BY Zenon DEF Operands, impossible
<1>5. raw \in Long(Digits) /\ raw.value \in Int /\ raw.dp \in 0 .. Digits
  BY RawTyped, NumberIs, DigitsFit, Zenon DEF Operands
<1>6. raw.dp \in 0 .. MaxPower /\ raw.dp \in Nat
  BY <1>5, DigitsFit, Sizes, SMT
<1> QED
  BY <1>1, <1>2, <1>3, <1>4, <1>5, <1>6, Zenon

LEMMA ExactTyped ==
  ASSUME Operands
  PROVE  /\ exact.num \in Int /\ exact.den \in Int /\ exact.den # 0
         /\ operator # "/" => exact.den \in Nat \ {0}
<1> DEFINE P1 == Base^n1.dp  P2 == Base^n2.dp  v1 == n1.value  v2 == n2.value
<1>1. /\ v1 \in Int /\ v2 \in Int /\ P1 \in Nat \ {0} /\ P2 \in Nat \ {0}
      /\ operator \in {"/", "%"} => v2 # 0
      /\ operator \in Operators
  BY OperandsAre, Zenon DEF Operands
<1>2. /\ operator = "+" => exact.num = v1 * P2 + v2 * P1 /\ exact.den = P1 * P2
      /\ operator = "-" => exact.num = v1 * P2 - v2 * P1 /\ exact.den = P1 * P2
      /\ operator = "*" => exact.num = v1 * v2 /\ exact.den = P1 * P2
      /\ operator = "/" => exact.num = v1 * P2 /\ exact.den = v2 * P1
      /\ operator = "%" => exact.num = v1 - v2 * quot(v1, v2) /\ exact.den = 1
  BY ExactCases, Zenon
<1> HIDE DEF P1, P2, v1, v2
<1>3. /\ v1 * P2 \in Int /\ v2 * P1 \in Int /\ v1 * v2 \in Int /\ P1 * P2 \in Nat \ {0}
      /\ P1 * P2 \in Int /\ P1 * P2 # 0 /\ P1 \in Int /\ P2 \in Int
  <2>1. P1 \in Int /\ P2 \in Int
    BY <1>1, SMT
  <2>2. /\ v1 * P2 \in Int /\ v2 * P1 \in Int /\ v1 * v2 \in Int /\ P1 * P2 \in Nat \ {0}
    BY <1>1, <2>1, Product, Zenon
  <2> QED
    BY <2>1, <2>2, SMT
<1>4. v1 * P2 + v2 * P1 \in Int /\ v1 * P2 - v2 * P1 \in Int /\ 1 \in Nat \ {0} /\ 1 \in Int
      /\ 1 # 0
  BY <1>3, SMT
<1>5. operator = "/" => v2 * P1 # 0
  BY <1>1, <1>3, Product, Zenon
<1>6. operator = "%" => v1 - v2 * quot(v1, v2) \in Int
  <2> SUFFICES ASSUME operator = "%" PROVE v1 - v2 * quot(v1, v2) \in Int
    OBVIOUS
  <2>1. quot(v1, v2) \in Int
    BY <1>1, QuotTyped, Zenon
  <2> QED
    BY <1>1, <2>1, SMT
<1>7. "/" # "+" /\ "/" # "-" /\ "/" # "*" /\ "/" # "%"
  OBVIOUS
<1> QED
  BY <1>1, <1>2, <1>3, <1>4, <1>5, <1>6, <1>7, Zenon DEF Operators

(* With p digits after the point nothing is known but those digits: a cut  *)
(* after fewer of them can be made later.                                  *)
LEMMA CutCut ==
  ASSUME Operands, NEW p \in 0 .. Digits, NEW q \in 0 .. p
  PROVE  /\ cut(p) \in Int /\ cut(q) = quot(cut(p), Base^(p - q))
         /\ p - q \in 0 .. MaxPower /\ Base^(p - q) \in Nat \ {0}
         /\ InRange(cut(p)) => InRange(cut(q))
<1>1. /\ p \in Nat /\ q \in Nat /\ p - q \in Nat /\ q + (p - q) = p /\ p <= MaxPower
      /\ p - q \in 0 .. MaxPower /\ q \in 0 .. MaxPower /\ q + (p - q) <= MaxPower
  BY DigitsFit, Sizes, SMT
<1> DEFINE N == exact.num  D == exact.den  Q == Base^q  R == Base^(p - q)
<1>2. N \in Int /\ D \in Int /\ D # 0
  BY ExactTyped, Zenon
<1>3. Q \in Nat \ {0} /\ R \in Nat \ {0} /\ Base^p = Q * R
  <2>1. Base^(q + (p - q)) = Q * R
    BY <1>1, PowerSum, Zenon
  <2> QED
    BY <1>1, <2>1, Power, Zenon
<1>4. cut(p) = quot(N * (Q * R), D) /\ cut(q) = quot(N * Q, D)
  BY <1>3, Zenon DEF cut
<1> HIDE DEF N, D, Q, R
<1>5. N * (Q * R) = (N * Q) * R /\ N * Q \in Int /\ (N * Q) * R \in Int
  BY <1>2, <1>3, SMT
<1>6. quot(N * (Q * R), D) \in Int
  BY <1>2, <1>5, QuotTyped, Zenon
<1>7. quot(quot(N * (Q * R), D), R) = quot((N * Q) * R, D * R)
  <2> DEFINE X == (N * Q) * R
  <2>1. X \in Int /\ N * (Q * R) = X
    BY <1>5
  <2>2. quot(quot(X, D), R) = quot(X, D * R)
    <3> HIDE DEF X
    <3> QED
      BY <1>2, <1>3, <2>1, QuotQuot, Zenon
  <2> QED
    BY <2>1, <2>2
<1>8. quot((N * Q) * R, D * R) = quot(N * Q, D)
  BY <1>2, <1>3, <1>5, QuotScale, Zenon
<1>9. cut(p) \in Int /\ cut(q) = quot(cut(p), R)
  BY <1>4, <1>6, <1>7, <1>8, Zenon
<1>10. InRange(cut(p)) => InRange(cut(q))
  BY <1>3, <1>9, QuotInRange, Zenon
<1> QED
  BY <1>1, <1>3, <1>9, <1>10, Zenon DEF R

LEMMA RawFields ==
  /\ operator = "+" => /\ raw.value = aligned(n1, max_dp) + aligned(n2, max_dp)
                       /\ raw.dp = max_dp
  /\ operator = "-" => /\ raw.value = aligned(n1, max_dp) - aligned(n2, max_dp)
                       /\ raw.dp = max_dp
  /\ operator = "*" => raw.value = n1.value * n2.value /\ raw.dp = n1.dp + n2.dp
  /\ operator = "/" => /\ raw.value = quot(n1.value * SCALE, n2.value)
                       /\ raw.dp = n1.dp - n2.dp + DIV_ACCURACY
  /\ operator = "%" => /\ raw.value = n1.value - n2.value * quot(n1.value, n2.value)
                       /\ raw.dp = 0
<1>0. ASSUME NEW v, NEW d, raw = num(v, d) PROVE raw.value = v /\ raw.dp = d
  BY <1>0, Zenon DEF num
<1>1. operator = "+" => /\ raw.value = aligned(n1, max_dp) + aligned(n2, max_dp)
                        /\ raw.dp = max_dp
  BY <1>0, RawCases, Zenon
<1>2. operator = "-" => /\ raw.value = aligned(n1, max_dp) - aligned(n2, max_dp)
                        /\ raw.dp = max_dp
  BY <1>0, RawCases, Zenon
<1>3. operator = "*" => raw.value = n1.value * n2.value /\ raw.dp = n1.dp + n2.dp
  BY <1>0, RawCases, Zenon
<1>4. operator = "/" => /\ raw.value = quot(n1.value * SCALE, n2.value)
                        /\ raw.dp = n1.dp - n2.dp + DIV_ACCURACY
  BY <1>0, RawCases, Zenon
<1>5. operator = "%" => /\ raw.value = n1.value - n2.value * quot(n1.value, n2.value)
                        /\ raw.dp = 0
  BY <1>0, RawCases, Zenon
<1> QED
  BY <1>1, <1>2, <1>3, <1>4, <1>5, Zenon

(* But for a quotient the result is exact before it is cut. *)
LEMMA RawExact ==
  ASSUME Operands, operator # "/"
  PROVE  exact.num * Base^raw.dp = raw.value * exact.den
<1> DEFINE P1 == Base^n1.dp  P2 == Base^n2.dp  v1 == n1.value  v2 == n2.value
<1>1. /\ v1 \in Int /\ v2 \in Int /\ P1 \in Nat \ {0} /\ P2 \in Nat \ {0}
      /\ n1.dp \in Nat /\ n2.dp \in Nat
  BY OperandsAre, SMT
<1>2. /\ n1 \in Numbers /\ n2 \in Numbers /\ operator \in {"+", "-", "*", "%"}
  BY Zenon DEF Operands, Operators
<1>3. CASE operator \in {"+", "-"}
  <2> DEFINE Z1 == Base^(max_dp - n1.dp)  Z2 == Base^(max_dp - n2.dp)  P == Base^max_dp
  <2>1. /\ max_dp \in 0 .. MAX_7SEG_SIZE - 1 /\ n1.dp <= max_dp /\ n2.dp <= max_dp
    BY <1>2, MaxDp, Zenon
  <2>2. /\ max_dp - n1.dp \in Nat /\ n1.dp + (max_dp - n1.dp) = max_dp
        /\ max_dp - n2.dp \in Nat /\ n2.dp + (max_dp - n2.dp) = max_dp
        /\ max_dp <= MaxPower
    BY <1>1, <2>1, Sizes, SMT
  <2>3. P = P1 * Z1 /\ P = P2 * Z2
    <3>1. Base^(n1.dp + (max_dp - n1.dp)) = P1 * Z1
      BY <1>1, <2>2, PowerSum, Zenon
    <3>2. Base^(n2.dp + (max_dp - n2.dp)) = P2 * Z2
      BY <1>1, <2>2, PowerSum, Zenon
    <3> QED
      BY <2>2, <3>1, <3>2, Zenon
  <2>4. /\ aligned(n1, max_dp) = v1 * Z1 /\ aligned(n2, max_dp) = v2 * Z2
        /\ Z1 \in Nat \ {0} /\ Z2 \in Nat \ {0}
    BY <1>2, <2>1, Aligned, Zenon
  <2>5. raw.dp = max_dp
    BY <1>3, RawFields, Zenon
  <2> HIDE DEF P, P1, P2, v1, v2, Z1, Z2
  <2>6. /\ (v1 * P2) * P = (v1 * Z1) * (P1 * P2) /\ (v2 * P1) * P = (v2 * Z2) * (P1 * P2)
        /\ v1 * P2 \in Int /\ v2 * P1 \in Int /\ P \in Int /\ P1 * P2 \in Int
        /\ v1 * Z1 \in Int /\ v2 * Z2 \in Int
    <3>1. (v1 * P2) * (P1 * Z1) = (v1 * Z1) * (P1 * P2)
      BY <1>1, <2>4, SMT
    <3>2. (v2 * P1) * (P2 * Z2) = (v2 * Z2) * (P1 * P2)
      BY <1>1, <2>4, SMT
    <3>3. v1 * P2 \in Int /\ v2 * P1 \in Int /\ P \in Int /\ P1 * P2 \in Int
          /\ v1 * Z1 \in Int /\ v2 * Z2 \in Int
      BY <1>1, <2>3, <2>4, SMT
    <3> QED
      BY <2>3, <3>1, <3>2, <3>3, Zenon
  <2>8. CASE operator = "+"
    <3>1. raw.value = v1 * Z1 + v2 * Z2
      BY <2>4, <2>8, RawFields, Zenon
    <3>2. exact.num = v1 * P2 + v2 * P1 /\ exact.den = P1 * P2
      BY <2>8, ExactCases, Zenon DEF P1, P2, v1, v2
    <3>3. (v1 * P2 + v2 * P1) * P = (v1 * Z1 + v2 * Z2) * (P1 * P2)
      <4> DEFINE a == v1 * P2  b == v2 * P1  c == v1 * Z1  d == v2 * Z2  D == P1 * P2
      <4> SUFFICES (a + b) * P = (c + d) * D
        OBVIOUS
      <4>1. a * P = c * D /\ b * P = d * D /\ a \in Int /\ b \in Int /\ c \in Int /\ d \in Int
            /\ D \in Int /\ P \in Int
        BY <2>6
      <4> HIDE DEF a, b, c, d, D
      <4>2. (a + b) * P = a * P + b * P /\ (c + d) * D = c * D + d * D
        BY <4>1, SMT
      <4> QED
        BY <4>1, <4>2, Zenon
    <3> QED
      BY <2>5, <3>1, <3>2, <3>3, Zenon DEF P
  <2>9. CASE operator = "-"
    <3>1. raw.value = v1 * Z1 - v2 * Z2
      BY <2>4, <2>9, RawFields, Zenon
    <3>2. exact.num = v1 * P2 - v2 * P1 /\ exact.den = P1 * P2
      BY <2>9, ExactCases, Zenon DEF P1, P2, v1, v2
    <3>3. (v1 * P2 - v2 * P1) * P = (v1 * Z1 - v2 * Z2) * (P1 * P2)
      <4> DEFINE a == v1 * P2  b == v2 * P1  c == v1 * Z1  d == v2 * Z2  D == P1 * P2
      <4> SUFFICES (a - b) * P = (c - d) * D
        OBVIOUS
      <4>1. a * P = c * D /\ b * P = d * D /\ a \in Int /\ b \in Int /\ c \in Int /\ d \in Int
            /\ D \in Int /\ P \in Int
        BY <2>6
      <4> HIDE DEF a, b, c, d, D
      <4>2. (a - b) * P = a * P - b * P /\ (c - d) * D = c * D - d * D
        BY <4>1, SMT
      <4> QED
        BY <4>1, <4>2, Zenon
    <3> QED
      BY <2>5, <3>1, <3>2, <3>3, Zenon DEF P
  <2> QED
    BY <1>3, <2>8, <2>9
<1>4. CASE operator = "*"
  <2>1. raw.value = v1 * v2 /\ raw.dp = n1.dp + n2.dp
    BY <1>4, RawFields, Zenon
  <2>2. exact.num = v1 * v2 /\ exact.den = P1 * P2
    BY <1>4, ExactCases, Zenon
  <2>3. n1.dp + n2.dp <= MaxPower
    BY OperandsAre, Sizes, SMT
  <2>4. Base^(n1.dp + n2.dp) = P1 * P2
    BY <1>1, <2>3, PowerSum, Zenon
  <2> QED
    BY <2>1, <2>2, <2>4, Zenon
<1>5. CASE operator = "%"
  <2>1. raw.value = v1 - v2 * quot(v1, v2) /\ raw.dp = 0
    BY <1>5, RawFields, Zenon
  <2>2. exact.num = v1 - v2 * quot(v1, v2) /\ exact.den = 1
    BY <1>5, ExactCases, Zenon
  <2>3. Base^0 = 1
    BY Power, Zenon
  <2> QED
    BY <2>1, <2>2, <2>3, Zenon
<1> QED
  BY <1>2, <1>3, <1>4, <1>5, Zenon

(* What calc_result has before it cuts is the exact result, cut after as   *)
(* many digits as it has.                                                  *)
LEMMA RawIsCut ==
  ASSUME Operands
  PROVE  cut(raw.dp) = raw.value
<1> DEFINE E == Base^raw.dp
<1>0. cut(raw.dp) = quot(exact.num * E, exact.den) /\ E \in Nat \ {0}
  BY OperandsAre, Power, Zenon DEF cut
<1>1. CASE operator # "/"
  <2>1. exact.num * E = raw.value * exact.den
    BY <1>1, RawExact, Zenon
  <2>2. quot(raw.value * exact.den, exact.den) = raw.value
    BY <1>1, ExactTyped, OperandsAre, QuotExact, Zenon
  <2> QED
    BY <1>0, <2>1, <2>2, Zenon
<1>2. CASE operator = "/"
  <2> DEFINE P1 == Base^n1.dp  P2 == Base^n2.dp  v1 == n1.value  v2 == n2.value
  <2>1. /\ v1 \in Int /\ v2 \in Int /\ P1 \in Nat \ {0} /\ P2 \in Nat \ {0} /\ v2 # 0
        /\ n1.dp \in Nat /\ n2.dp \in Nat /\ raw.dp \in Nat
    BY <1>2, OperandsAre, SMT
  <2>2. raw.value = quot(v1 * Top, v2) /\ raw.dp = n1.dp - n2.dp + DIV_ACCURACY
    BY <1>2, RawFields, Ranges, Zenon
  <2>3. exact.num = v1 * P2 /\ exact.den = v2 * P1
    BY <1>2, ExactCases, Zenon
  <2>4. P2 * E = Top * P1
    <3>1. n2.dp + raw.dp = DIV_ACCURACY + n1.dp /\ DIV_ACCURACY \in Nat
          /\ n2.dp + raw.dp <= MaxPower
      BY <2>1, <2>2, OperandsAre, Sizes, SMT
    <3>2. Base^(n2.dp + raw.dp) = P2 * E
      BY <2>1, <3>1, PowerSum, Zenon
    <3>3. Base^(DIV_ACCURACY + n1.dp) = Base^DIV_ACCURACY * P1
      BY <2>1, <3>1, PowerSum, Zenon
    <3>4. Base^DIV_ACCURACY = Top
      BY Ranges, Zenon DEF SCALE
    <3> QED
      BY <3>1, <3>2, <3>3, <3>4, Zenon
  <2> HIDE DEF P1, P2, v1, v2, E
  <2>5. (v1 * P2) * E = (v1 * Top) * P1 /\ v1 * Top \in Int
    <3>1. (v1 * P2) * E = v1 * (P2 * E)
      BY <1>0, <2>1, SMT
    <3>2. (v1 * Top) * P1 = v1 * (Top * P1) /\ v1 * Top \in Int
      BY <2>1, Ranges, SMT
    <3> QED
      BY <2>4, <3>1, <3>2, Zenon
  <2>6. quot((v1 * Top) * P1, v2 * P1) = quot(v1 * Top, v2)
    BY <2>1, <2>5, QuotScale, Zenon
  <2> QED
    BY <1>0, <2>2, <2>3, <2>5, <2>6, Zenon
<1> QED
  BY <1>1, <1>2

(* A result that is exact only gets zeros after its last digit. *)
LEMMA CutBeyond ==
  ASSUME Operands, operator # "/", NEW p \in Nat, raw.dp <= p, p <= MAX_7SEG_SIZE - 1
  PROVE  cut(p) = raw.value * Base^(p - raw.dp)
<1> DEFINE E == Base^raw.dp  F == Base^(p - raw.dp)  N == exact.num  D == exact.den
           R == raw.value
<1>1. /\ raw.dp \in Nat /\ p - raw.dp \in Nat /\ raw.dp + (p - raw.dp) = p /\ p <= MaxPower
      /\ raw.dp \in 0 .. MaxPower /\ p - raw.dp \in 0 .. MaxPower
  BY OperandsAre, Sizes, SMT
<1>2. Base^(raw.dp + (p - raw.dp)) = E * F
  BY <1>1, PowerSum, Zenon
<1>3. E \in Nat \ {0} /\ F \in Nat \ {0} /\ Base^p = E * F
  BY <1>1, <1>2, Power, Zenon
<1>4. N \in Int /\ D \in Nat \ {0} /\ R \in Int /\ N * E = R * D
  BY ExactTyped, OperandsAre, RawExact, Zenon
<1>5. cut(p) = quot(N * (E * F), D)
  BY <1>3, Zenon DEF cut
<1> HIDE DEF E, F, N, D, R
<1>6. N * (E * F) = (R * F) * D /\ R * F \in Int
  <2>1. N * (E * F) = (N * E) * F
    BY <1>3, <1>4, SMT
  <2>2. (R * D) * F = (R * F) * D /\ R * F \in Int
    BY <1>3, <1>4, SMT
  <2> QED
    BY <1>4, <2>1, <2>2, Zenon
<1>7. quot((R * F) * D, D) = R * F
  BY <1>4, <1>6, QuotExact, Zenon
<1> QED
  BY <1>5, <1>6, <1>7, Zenon DEF R, F

-----------------------------------------------------------------------------
(* The result is the exact one, cut off. *)

LEMMA MaxIs ==
  ASSUME NEW n \in Nat, NEW S \in SUBSET (0 .. n), S # {}
  PROVE  Max(S) \in S /\ \A y \in S : y <= Max(S)
<1> DEFINE T == {k \in 0 .. n : n - k \in S}
<1>1. T \in SUBSET Nat /\ T # {}
  <2>1. PICK x \in S : TRUE
    OBVIOUS
  <2>2. x \in 0 .. n /\ n - x \in 0 .. n /\ n - (n - x) = x
    BY SMT
  <2>3. n - x \in T
    BY <2>1, <2>2, Zenon
  <2>4. \A k \in 0 .. n : k \in Nat
    BY SMT
  <2>5. T \in SUBSET Nat
    BY <2>4, Zenon
  <2> QED
    BY <2>3, <2>5, Zenon
<1>2. PICK t \in T : \A y \in T : t <= y
  <2> HIDE DEF T
  <2> QED
    BY <1>1, Least, Zenon
<1>3. n - t \in S /\ t \in 0 .. n
  BY <1>2
<1>4. \A y \in S : n - t >= y
  <2> SUFFICES ASSUME NEW y \in S PROVE n - t >= y
    OBVIOUS
  <2>1. y \in 0 .. n /\ n - y \in 0 .. n /\ n - (n - y) = y
    BY SMT
  <2>2. n - y \in T
    BY <2>1, Zenon
  <2>3. t <= n - y
    BY <1>2, <2>2, Zenon
  <2> QED
    BY <1>3, <2>1, <2>3, SMT
<1>5. Max(S) \in S /\ \A y \in S : Max(S) >= y
  BY <1>3, <1>4, Zenon DEF Max
<1>6. \A y \in S : y <= Max(S)
  <2> HIDE DEF T
  <2> SUFFICES ASSUME NEW y \in S PROVE y <= Max(S)
    OBVIOUS
  <2>1. Max(S) \in 0 .. n /\ y \in 0 .. n /\ Max(S) >= y
    BY <1>5, Zenon
  <2> DEFINE m == Max(S)
  <2> HIDE DEF m
  <2>2. m \in 0 .. n /\ m >= y => y <= m
    BY <2>1, SMT
  <2> QED
    BY <2>1, <2>2, Zenon DEF m
<1> QED
  BY <1>5, <1>6

LEMMA AccuracyIs ==
  ASSUME Operands
  PROVE  /\ accuracy \in 0 .. MAX_7SEG_SIZE - 1
         /\ operator # "/" => accuracy = MAX_7SEG_SIZE - 1
         /\ operator = "/" => accuracy <= raw.dp
         /\ accuracy = MAX_7SEG_SIZE - 1 \/ accuracy = raw.dp
<1> DEFINE S == {MAX_7SEG_SIZE - 1} \union
                  (IF operator = "/" THEN {n1.dp - n2.dp + DIV_ACCURACY} ELSE {})
<1>0. raw.dp \in Nat /\ MAX_7SEG_SIZE - 1 \in Nat
  BY OperandsAre, DigitsFit, Zenon
<1>1. operator = "/" => S = {MAX_7SEG_SIZE - 1, raw.dp}
  BY RawFields, Zenon
<1>2. operator # "/" => S = {MAX_7SEG_SIZE - 1}
  BY Zenon
<1>3. S \in SUBSET Nat /\ S # {} /\ MAX_7SEG_SIZE - 1 \in S
  BY <1>0, <1>1, <1>2, Zenon
<1>4. Min(S) \in S /\ \A y \in S : Min(S) <= y
  <2> HIDE DEF S
  <2> QED
    BY <1>3, MinIs, Zenon
<1>5. accuracy = Min(S)
  BY Zenon DEF accuracy
<1> HIDE DEF S
<1>6. accuracy \in Nat /\ accuracy <= MAX_7SEG_SIZE - 1
      /\ (operator # "/" => accuracy = MAX_7SEG_SIZE - 1)
      /\ (operator = "/" => accuracy <= raw.dp)
      /\ (accuracy = MAX_7SEG_SIZE - 1 \/ accuracy = raw.dp)
  <2>1. accuracy \in Nat /\ accuracy <= MAX_7SEG_SIZE - 1 /\ accuracy \in S
    BY <1>3, <1>4, <1>5, Zenon
  <2>2. CASE operator = "/"
    <3>1. raw.dp \in S /\ (accuracy = MAX_7SEG_SIZE - 1 \/ accuracy = raw.dp)
      BY <1>1, <2>1, <2>2, Zenon
    <3>2. accuracy <= raw.dp
      BY <1>4, <1>5, <3>1, Zenon
    <3> QED
      BY <2>1, <2>2, <3>1, <3>2, Zenon
  <2>3. CASE operator # "/"
    <3>1. accuracy = MAX_7SEG_SIZE - 1
      BY <1>2, <2>1, <2>3, Zenon
    <3> QED
      BY <2>1, <2>3, <3>1, Zenon
  <2> QED
    BY <2>2, <2>3
<1>7. accuracy \in 0 .. MAX_7SEG_SIZE - 1
  BY <1>0, <1>6, SMT
<1> QED
  BY <1>6, <1>7, Zenon

(* The zeros that normalised drops are zeros. *)
LEMMA ZerosDropped ==
  ASSUME NEW m \in Nat, m <= Digits, NEW t \in Long(m)
  PROVE  drop(t, zeros(t)).value * Base^(zeros(t)) = t.value
<1> DEFINE S == {j \in Nat : j <= zeros(t) => drop(t, j).value * Base^j = t.value}
<1>0. \A k \in 0 .. t.dp : drop(t, k).value % Base # 0 => zeros(t) <= k
  BY Loops, Zenon
<1>1. t.value \in Int /\ t.dp \in Nat /\ t.dp \in 0 .. m /\ zeros(t) \in 0 .. t.dp
  BY NumberIs, Loops, Zenon
<1>2. zeros(t) \in Nat /\ zeros(t) <= MaxPower /\ zeros(t) <= t.dp
  <2> DEFINE k == zeros(t)
  <2> HIDE DEF k
  <2>1. k \in 0 .. t.dp => k \in Nat /\ k <= MaxPower /\ k <= t.dp
    BY <1>1, DigitsFit, Sizes, SMT
  <2> QED
    BY <1>1, <2>1, Zenon DEF k
<1>3. 0 \in S
  <2>1. 0 \in 0 .. t.dp /\ 0 \in Nat
    BY <1>1, SMT
  <2>2. drop(t, 0).value = quot(t.value, Base^0) /\ Base^0 = 1
    BY <2>1, Dropped, Power, Zenon
  <2>3. t.value * 1 = t.value /\ 1 \in Nat \ {0}
    BY <1>1, SMT
  <2>4. quot(t.value, 1) = t.value
    BY <1>1, <2>3, QuotExact, Zenon
  <2> QED
    BY <2>1, <2>2, <2>3, <2>4, Zenon
<1>4. ASSUME NEW j \in Nat, j \in S PROVE j + 1 \in S
  <2> SUFFICES ASSUME j + 1 <= zeros(t)
               PROVE  drop(t, j + 1).value * Base^(j + 1) = t.value
    BY SMT
  <2>1. j <= zeros(t) /\ j \in 0 .. t.dp /\ j + 1 \in 0 .. t.dp /\ ~(zeros(t) <= j)
        /\ j \in 0 .. MaxPower
    <3> DEFINE k == zeros(t)
    <3>1. k \in Nat /\ k <= MaxPower /\ k <= t.dp /\ j + 1 <= k
      BY <1>2
    <3> HIDE DEF k
    <3>2. j <= k /\ j \in 0 .. t.dp /\ j + 1 \in 0 .. t.dp /\ ~(k <= j) /\ j \in 0 .. MaxPower
      BY <1>1, <3>1, Sizes, SMT
    <3> QED
      BY <3>2, Zenon DEF k
  <2> DEFINE x == drop(t, j).value  y == drop(t, j + 1).value  P == Base^j
  <2>2. x * P = t.value
    BY <1>4, <2>1, Zenon
  <2>3. x % Base = 0
    BY <1>0, <2>1, Zenon
  <2>4. P \in Nat \ {0} /\ Base^(j + 1) = Base * P /\ Base \in Nat \ {0}
    BY <2>1, Power, Sizes, SMT
  <2>5. x = quot(t.value, P) /\ y = quot(t.value, Base^(j + 1)) /\ x \in Int
    <3>1. drop(t, j) \in Long(m)
      BY <2>1, Dropped, Zenon
    <3> QED
      BY <2>1, <3>1, Dropped, NumberIs, Zenon
  <2> HIDE DEF x, y, P
  <2>6. y = quot(x, Base)
    <3>1. P \in Int /\ P # 0 /\ P * Base = Base * P
      BY <2>4, SMT
    <3>2. quot(quot(t.value, P), Base) = quot(t.value, P * Base)
      BY <1>1, <2>4, <3>1, QuotQuot, Zenon
    <3> QED
      BY <2>4, <2>5, <3>1, <3>2, Zenon
  <2>7. y * Base = x
    <3> DEFINE z == x \div Base
    <3>1. z \in Int /\ x = Base * z + (x % Base)
      BY <2>4, <2>5, DivMod, Zenon
    <3> HIDE DEF z
    <3>2. x = z * Base
      BY <2>3, <2>4, <3>1, SMT
    <3>3. quot(z * Base, Base) = z
      BY <2>4, <3>1, QuotExact, Zenon
    <3> QED
      BY <2>6, <3>2, <3>3, Zenon
  <2>8. y * (Base * P) = (y * Base) * P
    <3>1. y \in Int
      BY <2>4, <2>5, <2>6, Quot, Zenon
    <3> QED
      BY <2>4, <3>1, SMT
  <2> QED
    BY <2>2, <2>4, <2>7, <2>8, Zenon DEF y
<1>5. \A j \in Nat : j \in S
  <2> HIDE DEF S
  <2> QED
    BY <1>3, <1>4, Induction, Zenon
<1>6. \A k \in Nat : k <= k
  BY SMT
<1> QED
  BY <1>2, <1>5, <1>6, Zenon

LEMMA ShortIsCut ==
  ASSUME Operands
  PROVE  LET s == shortened(raw)
         IN  /\ s \in Long(MAX_7SEG_SIZE - 1) /\ s.dp \in 0 .. MAX_7SEG_SIZE - 1
             /\ s.dp <= raw.dp /\ (s.dp = raw.dp \/ s.dp = MAX_7SEG_SIZE - 1)
             /\ \A j \in 0 .. s.dp : /\ drop(s, j).value = cut(s.dp - j)
                                     /\ drop(s, j).dp = s.dp - j /\ s.dp - j \in 0 .. s.dp
<1> DEFINE k == Max({0, raw.dp - (MAX_7SEG_SIZE - 1)})  s == shortened(raw)
<1>1. /\ raw \in Long(Digits) /\ raw.value \in Int /\ raw.dp \in 0 .. Digits /\ raw.dp \in Nat
  BY OperandsAre, Zenon
<1>2. k = IF 0 >= raw.dp - (MAX_7SEG_SIZE - 1) THEN 0 ELSE raw.dp - (MAX_7SEG_SIZE - 1)
  <2>1. raw.dp - (MAX_7SEG_SIZE - 1) \in Int /\ 0 \in Int
    BY <1>1, Sizes, SMT
  <2> QED
    BY <2>1, MaxOfTwo, Zenon
<1>3. s = drop(raw, k)
  BY Zenon DEF shortened
<1> HIDE DEF k
<1>4. k \in 0 .. raw.dp /\ Digits <= Digits
  BY <1>1, <1>2, DigitsFit, SMT
<1>5. s.dp = raw.dp - k /\ s.value = quot(raw.value, Base^k)
  BY <1>1, <1>3, <1>4, Dropped, DigitsFit, Zenon
<1>6. s \in Long(MAX_7SEG_SIZE - 1)
  BY <1>1, Shortened, Zenon
<1> HIDE DEF s
<1>7. /\ s.dp \in 0 .. MAX_7SEG_SIZE - 1 /\ s.dp <= raw.dp /\ s.dp \in 0 .. raw.dp
      /\ raw.dp - s.dp = k /\ (s.dp = raw.dp \/ s.dp = MAX_7SEG_SIZE - 1)
      /\ s.dp \in 0 .. Digits /\ s.dp \in Nat
  BY <1>1, <1>2, <1>4, <1>5, DigitsFit, SMT
<1>8. s.value = cut(s.dp)
  <2>1. cut(s.dp) = quot(cut(raw.dp), Base^(raw.dp - s.dp))
    BY <1>1, <1>7, CutCut, Zenon
  <2> QED
    BY <1>5, <1>7, <2>1, RawIsCut, Zenon
<1>9. ASSUME NEW j \in 0 .. s.dp
      PROVE  /\ drop(s, j).value = cut(s.dp - j)
             /\ drop(s, j).dp = s.dp - j /\ s.dp - j \in 0 .. s.dp
  <2>1. s.dp - j \in 0 .. s.dp /\ s.dp - (s.dp - j) = j
    BY <1>7, SMT
  <2>2. cut(s.dp - j) = quot(cut(s.dp), Base^j)
    BY <1>7, <2>1, CutCut, Zenon
  <2>3. drop(s, j).value = quot(s.value, Base^j) /\ drop(s, j).dp = s.dp - j
    BY <1>6, Dropped, DigitsFit, Zenon
  <2> QED
    BY <1>8, <2>1, <2>2, <2>3, Zenon
<1> QED
  BY <1>6, <1>7, <1>9, Zenon DEF s

(* The digits after the point that fit the display. *)
fitting == Max({q \in 0 .. accuracy : InRange(cut(q))})

LEMMA Fitting ==
  ASSUME Operands, InRange(cut(0))
  PROVE  /\ fitting \in 0 .. accuracy /\ InRange(cut(fitting))
         /\ \A q \in 0 .. accuracy : InRange(cut(q)) => q <= fitting
<1> DEFINE S == {q \in 0 .. accuracy : InRange(cut(q))}
<1>1. accuracy \in Nat /\ 0 \in 0 .. accuracy
  BY AccuracyIs, Sizes, SMT
<1>2. 0 \in S /\ S \in SUBSET (0 .. accuracy)
  BY <1>1, Zenon
<1>3. Max(S) \in S /\ \A y \in S : y <= Max(S)
  <2> HIDE DEF S
  <2> QED
    BY <1>1, <1>2, MaxIs, Zenon
<1> QED
  BY <1>3, Zenon DEF fitting

(* The loops keep the exact result, cut after the digits that are left. *)
LEMMA ResultCut ==
  ASSUME Operands
  PROVE  /\ ~InRange(cut(0)) => ~InRange(result.value)
         /\ InRange(cut(0)) =>
              /\ InRange(result.value) /\ result.dp <= fitting
              /\ result.value * Base^(fitting - result.dp) = cut(fitting)
<1> DEFINE s == shortened(raw)
<1>1. /\ s \in Long(MAX_7SEG_SIZE - 1) /\ s.dp \in 0 .. MAX_7SEG_SIZE - 1
      /\ s.dp <= raw.dp /\ (s.dp = raw.dp \/ s.dp = MAX_7SEG_SIZE - 1)
      /\ \A j \in 0 .. s.dp : /\ drop(s, j).value = cut(s.dp - j)
                              /\ drop(s, j).dp = s.dp - j /\ s.dp - j \in 0 .. s.dp
  BY ShortIsCut, Zenon
<1> HIDE DEF s
<1> DEFINE K == narrow(s)  t == narrowed(s)  u == t.dp
<1>2. /\ K \in 0 .. s.dp /\ (K = s.dp \/ InRange(drop(s, K).value))
      /\ \A k \in 0 .. s.dp : InRange(drop(s, k).value) => K <= k
  BY <1>1, Loops, DigitsFit, Zenon
<1>3. t = drop(s, K)
  BY Zenon DEF narrowed, narrow
<1>4. t \in Long(MAX_7SEG_SIZE - 1) /\ u = s.dp - K /\ t.value = cut(u)
  <2> HIDE DEF K, t
  <2>1. drop(s, K).value = cut(s.dp - K) /\ drop(s, K).dp = s.dp - K
    BY <1>1, <1>2, Zenon
  <2>2. drop(s, K) \in Long(MAX_7SEG_SIZE - 1)
    BY <1>1, <1>2, Dropped, DigitsFit, Zenon
  <2>3. t.dp = s.dp - K /\ t.value = cut(s.dp - K)
    BY <1>3, <2>1, Zenon
  <2>4. t.value = cut(t.dp)
    BY <2>3, Zenon
  <2> QED
    BY <1>3, <2>2, <2>3, <2>4, Zenon
<1> HIDE DEF K, t
<1> DEFINE z == zeros(t)  r == normalised(t)
<1>5. z \in 0 .. t.dp /\ r.value * Base^z = t.value /\ r.value = quot(t.value, Base^z)
      /\ r.dp = t.dp - z
  <2>1. r = drop(t, z)
    BY Zenon DEF normalised, zeros
  <2>2. z \in 0 .. t.dp
    BY <1>4, Loops, DigitsFit, Zenon
  <2> QED
    BY <1>4, <2>1, <2>2, Dropped, ZerosDropped, DigitsFit, Zenon
<1>6. result = r
  BY Zenon DEF result, r, s, t
<1> HIDE DEF z, r
<1>7. /\ u \in 0 .. MAX_7SEG_SIZE - 1 /\ u \in Nat /\ z \in 0 .. MaxPower /\ u \in 0 .. Digits
      /\ 0 \in 0 .. u /\ u <= s.dp /\ s.dp \in Nat
  BY <1>1, <1>2, <1>4, <1>5, DigitsFit, Sizes, SMT
<1>8. Base^z \in Nat \ {0} /\ t.value \in Int
  BY <1>4, <1>7, Power, NumberIs, DigitsFit, Zenon
<1>9. CASE ~InRange(cut(0))
  <2>1. ~InRange(cut(u))
    BY <1>7, <1>9, CutCut, Zenon
  <2>2. K = s.dp
    BY <1>2, <1>3, <1>4, <2>1, Zenon
  <2>3. u = 0 /\ z = 0
    BY <1>2, <1>4, <1>5, <1>7, <2>2, SMT
  <2>4. r.value = cut(0)
    <3>1. Base^z = 1
      BY <2>3, Power, Zenon
    <3>2. 1 \in Nat \ {0} /\ t.value * 1 = t.value
      BY <1>8, SMT
    <3>3. quot(t.value, 1) = t.value
      BY <1>8, <3>2, QuotExact, Zenon
    <3> QED
      BY <1>4, <1>5, <2>3, <3>1, <3>3, Zenon
  <2> QED
    BY <1>6, <1>9, <2>4, Zenon
<1>10. CASE InRange(cut(0))
  <2> DEFINE p == fitting
  <2>1. p \in 0 .. accuracy /\ InRange(cut(p))
        /\ \A q \in 0 .. accuracy : InRange(cut(q)) => q <= p
    BY <1>10, Fitting, Zenon
  <2>2. /\ accuracy \in 0 .. MAX_7SEG_SIZE - 1
        /\ (operator # "/" => accuracy = MAX_7SEG_SIZE - 1)
        /\ (operator = "/" => accuracy <= raw.dp)
        /\ (accuracy = MAX_7SEG_SIZE - 1 \/ accuracy = raw.dp)
    BY AccuracyIs, Zenon
  <2> HIDE DEF p
  <2>3. InRange(cut(u))
    <3>1. CASE K = s.dp
      <4>1. u = 0
        BY <1>4, <1>7, <3>1, SMT
      <4> QED
        BY <1>10, <4>1
    <3>2. CASE K # s.dp
      BY <1>2, <1>3, <1>4, <3>2, Zenon
    <3> QED
      BY <3>1, <3>2
  <2>4. InRange(r.value)
    BY <1>4, <1>5, <1>8, <2>3, QuotInRange, Zenon
  <2>5. p \in Nat /\ p \in 0 .. Digits /\ p <= MAX_7SEG_SIZE - 1 /\ accuracy \in Nat
        /\ p <= accuracy
    BY <2>1, <2>2, DigitsFit, SMT
  <2>6. u \in 0 .. accuracy /\ u <= p
    <3>1. u \in 0 .. accuracy
      BY <1>1, <1>7, <2>2, OperandsAre, SMT
    <3> QED
      BY <2>1, <2>3, <3>1, Zenon
  <2>7. r.dp \in Nat /\ r.dp <= p /\ p - r.dp = z + (p - u) /\ p - u \in Nat /\ z \in Nat
        /\ z + (p - u) <= MaxPower /\ p - u \in 0 .. MaxPower
    BY <1>5, <1>7, <2>5, <2>6, DigitsFit, Sizes, SMT
  (* A digit more was dropped only because it did not fit. *)
  <2>8. cut(p) = cut(u) * Base^(p - u)
    <3>1. CASE p = u
      <4>1. p - u = 0 /\ cut(u) \in Int
        BY <1>4, <1>8, <2>5, <3>1, SMT
      <4>2. Base^(p - u) = 1 /\ cut(u) * 1 = cut(u)
        <5>1. cut(u) * 1 = cut(u)
          BY <4>1, SMT
        <5> QED
          BY <4>1, <5>1, Power, Zenon
      <4> QED
        BY <3>1, <4>2, Zenon
    <3>2. CASE p # u
      <4>1. u + 1 \in 0 .. p /\ u + 1 \in 0 .. MAX_7SEG_SIZE - 1
        <5> HIDE DEF u
        <5> QED
          BY <1>7, <2>5, <2>6, <3>2, Sizes, SMT
      <4>2. InRange(cut(u + 1))
        BY <2>1, <2>5, <4>1, CutCut, Zenon
      <4>3. K = 0
        <5> SUFFICES ASSUME K # 0 PROVE FALSE
          OBVIOUS
        <5>1. K - 1 \in 0 .. s.dp /\ s.dp - (K - 1) = u + 1 /\ ~(K <= K - 1)
          BY <1>2, <1>4, <1>7, SMT
        <5>2. drop(s, K - 1).value = cut(u + 1)
          BY <1>1, <5>1, Zenon
        <5> QED
          BY <1>2, <4>2, <5>1, <5>2, Zenon
      <4>4. u = s.dp /\ s.dp = raw.dp /\ operator # "/"
        <5>1. u = s.dp
          BY <1>4, <1>7, <4>3, SMT
        <5>2. s.dp < accuracy /\ accuracy <= MAX_7SEG_SIZE - 1
          BY <1>7, <2>2, <2>5, <4>1, <5>1, SMT
        <5>3. s.dp = raw.dp
          <6>1. s.dp # MAX_7SEG_SIZE - 1
            BY <1>7, <2>5, <5>2, Sizes, SMT
          <6> QED
            BY <1>1, <6>1, Zenon
        <5>4. operator # "/"
          BY <1>7, <2>2, <2>5, <5>2, <5>3, SMT
        <5> QED
          BY <5>1, <5>3, <5>4
      <4>5. cut(p) = raw.value * Base^(p - raw.dp)
        <5>1. raw.dp <= p
          BY <2>6, <4>4
        <5> QED
          BY <2>5, <4>4, <5>1, CutBeyond, Zenon
      <4> QED
        BY <4>4, <4>5, RawIsCut, Zenon
    <3> QED
      BY <3>1, <3>2
  <2>9. r.value * Base^(p - r.dp) = cut(p)
    <3> DEFINE Z == Base^z  F == Base^(p - u)  v == r.value
    <3>1. Base^(p - r.dp) = Z * F
      BY <2>7, PowerSum, Zenon
    <3>2. Z \in Nat \ {0} /\ F \in Nat \ {0}
      BY <1>8, <2>7, Power, Zenon
    <3>3. v \in Int
      BY <1>5, <1>8, Quot, Zenon
    <3>4. v * (Z * F) = (v * Z) * F
      <4> HIDE DEF Z, F, v
      <4> QED
        BY <3>2, <3>3, SMT
    <3> QED
      BY <1>4, <1>5, <2>8, <3>1, <3>4, Zenon
  <2> QED
    BY <1>6, <1>10, <2>4, <2>7, <2>9, Zenon DEF p
<1> QED
  BY <1>9, <1>10

ResultOfKey ==
  (/\ current_state \in Input /\ ~impossible
   /\ (Equal \/ \E op \in Operators : Operator(op))) => Calculated

LEMMA ResultStep ==
  ASSUME TypeOK /\ StateFits, [Next]_vars
  PROVE  ResultOfKey
<1> SUFFICES ASSUME current_state \in Input, ~impossible,
                    Equal \/ \E op \in Operators : Operator(op)
             PROVE  Calculated
  BY Zenon DEF ResultOfKey
<1>1. Operands
  BY InvIs, Zenon DEF Operands, Left, Entered
<1>2. PICK next : calc_result(next)
  BY StatesDiffer, Zenon DEF Equal, Operator, Input
<1>3. IF InRange(result.value) THEN n1' = result
      ELSE n1' = num(OVERFLOW_VALUE, 0) /\ current_state' = "Q_ER"
  BY <1>2, Zenon DEF calc_result
<1>4. CASE ~InRange(cut(0))
  <2>1. n1' = num(OVERFLOW_VALUE, 0) /\ current_state' = "Q_ER"
    BY <1>1, <1>3, <1>4, ResultCut, Zenon
  <2>2. n1'.value = OVERFLOW_VALUE
    BY <2>1, NumIs, Zenon
  <2> QED
    BY <1>4, <2>1, <2>2, Zenon DEF Calculated
<1>5. CASE InRange(cut(0))
  <2>1. /\ n1' = result /\ result.dp <= fitting
        /\ result.value * Base^(fitting - result.dp) = cut(fitting)
    BY <1>1, <1>3, <1>5, ResultCut, Zenon
  <2>2. n1'.dp <= fitting /\ n1'.value * Base^(fitting - n1'.dp) = cut(fitting)
    BY <2>1, Zenon
  <2> QED
    BY <1>5, <2>2, Zenon DEF Calculated, fitting
<1> QED
  BY <1>4, <1>5

(* Whatever the loops of calc_result drop, one digit after the other, the  *)
(* result is the exact one, cut off once after as many digits as there is  *)
(* room for, and an overflow exactly when the digits before the point are  *)
(* too many: the points of the operands are put in line without an error,  *)
(* truncations do not add up, and no digit is dropped that would have fit. *)
THEOREM ResultIsExact == Spec => ResultExact
<1>1. Spec => [](TypeOK /\ StateFits)
  BY Initially, Step, PTL DEF Spec
<1>2. (TypeOK /\ StateFits) /\ [Next]_vars => ResultOfKey
  BY ResultStep
<1>3. Spec => [][ResultOfKey]_vars
  BY <1>1, <1>2, PTL DEF Spec
<1> QED
  BY <1>3, Zenon DEF ResultExact, ResultOfKey

-----------------------------------------------------------------------------
(* The display.  The terms of a reading can be added up in any order: w    *)
(* gives the sum of each set of places, whichever place is taken out.      *)
Places == 0 .. MAX_7SEG_SIZE - 1

term(f, k) == Base^k * f[k]

Adds(w, f, M) ==
  /\ w[{}] = 0
  /\ \A s \in SUBSET M : \A i \in s : w[s] = term(f, i) + w[s \ {i}]
  /\ \A s \in SUBSET M : w[s] \in Int

(* The digit of v at the place k. *)
figure(v, k) == (v \div Base^k) % Base

LEMMA Figure ==
  ASSUME NEW v \in Nat, NEW k \in Places
  PROVE  /\ figure(v, k) \in Nat /\ figure(v, k) < Base /\ Base^k \in Nat \ {0}
         /\ v \div Base^k \in Nat
         /\ v % Base^(k + 1) = Base^k * figure(v, k) + (v % Base^k)
         /\ v \div Base^k = 0 => figure(v, k) = 0
<1>1. k \in 0 .. MaxPower
  BY Sizes, SMT DEF Places
<1> DEFINE P == Base^k
<1>2. P \in Nat \ {0} /\ Base^(k + 1) = Base * P
  BY <1>1, Power, Zenon
<1> DEFINE q == v \div P  r == v % P  q2 == q \div Base  d == q % Base
<1>3. q \in Nat
  BY <1>2, DivNat, Zenon
<1> HIDE DEF P
<1>4. r \in Int /\ 0 <= r /\ r < P /\ v = P * q + r
  BY <1>2, SMT
<1>5. q2 \in Int /\ d \in Int /\ 0 <= d /\ d < Base /\ q = Base * q2 + d
  <2>1. q \in Int /\ Base \in Nat \ {0}
    BY <1>3, Sizes, SMT
  <2> HIDE DEF q
  <2>2. q2 \in Int /\ d \in 0 .. Base - 1 /\ q = Base * q2 + d
    BY <2>1, DivMod, Zenon
  <2> HIDE DEF q2, d
  <2> QED
    BY <2>2, Sizes, SMT
<1>6. q = 0 => d = 0
  <2> HIDE DEF q
  <2>1. q = 0 => q = 0 * Base + 0
    BY Sizes, SMT
  <2>2. 0 \in Int /\ 0 <= 0 /\ 0 < Base /\ Base \in Nat \ {0} /\ q \in Int
    BY <1>3, Sizes, SMT
  <2> QED
    BY <2>1, <2>2, DivUnique, Zenon
<1>7. v % (Base * P) = P * d + r
  <2> HIDE DEF q, r, q2, d
  <2>1. P * (Base * q2 + d) = q2 * (Base * P) + P * d
    BY <1>2, <1>5, Sizes, SMT
  <2>2. v = q2 * (Base * P) + (P * d + r)
    BY <1>2, <1>4, <1>5, <2>1, Sizes, SMT
  <2>3. 0 <= P * d /\ P * d <= P * (Base - 1) /\ P * (Base - 1) = Base * P - P
    BY <1>2, <1>5, Sizes, SMT
  <2>4. P * d + r \in Int /\ Base * P \in Nat \ {0} /\ 0 <= P * d + r /\ P * d + r < Base * P
        /\ v \in Int
    BY <1>2, <1>4, <1>5, <2>3, Sizes, SMT
  <2> QED
    BY <1>5, <2>2, <2>4, DivUnique, Zenon
<1>8. d \in Nat
  <2> HIDE DEF d
  <2> QED
    BY <1>5, SMT
<1> QED
  BY <1>2, <1>3, <1>5, <1>6, <1>7, <1>8, Zenon DEF figure, P

(* The sum of the places below m, those that show nothing left out, is     *)
(* what the digits below m make up.                                        *)
LEMMA SumBelow ==
  ASSUME NEW v \in Nat, NEW N \in SUBSET Places, NEW f,
         \A k \in N : f[k] = figure(v, k),
         \A k \in Places : k \notin N => figure(v, k) = 0
  PROVE  \A m \in Nat : m <= MAX_7SEG_SIZE =>
           \E w : Adds(w, f, {k \in N : k < m}) /\ w[{k \in N : k < m}] = v % Base^m
<1> DEFINE Below(m) == {k \in N : k < m}
           T == {m \in Nat : m <= MAX_7SEG_SIZE =>
                   \E w : Adds(w, f, Below(m)) /\ w[Below(m)] = v % Base^m}
<1>0. \A k \in N : k \in Places /\ k \in Nat /\ ~(k < 0)
  BY Sizes, SMT DEF Places
<1>1. 0 \in T
  <2> DEFINE w == [s \in SUBSET {} |-> 0]
  <2>1. Below(0) = {}
    BY <1>0, Zenon
  <2>2. v % Base^0 = 0
    <3>1. v % 1 = 0
      BY SMT
    <3> QED
      BY <3>1, Power, Zenon
  <2>3. Adds(w, f, {}) /\ w[{}] = 0
    <3>1. 0 \in Int
      OBVIOUS
    <3> QED
      BY <3>1, Zenon DEF Adds
  <2> HIDE DEF w
  <2>4. 0 \in Nat
    OBVIOUS
  <2> QED
    BY <2>1, <2>2, <2>3, <2>4, Zenon
<1>2. ASSUME NEW m \in Nat, m \in T PROVE m + 1 \in T
  <2>1. SUFFICES ASSUME m + 1 <= MAX_7SEG_SIZE
                 PROVE  \E w : Adds(w, f, Below(m + 1)) /\ w[Below(m + 1)] = v % Base^(m + 1)
    BY SMT
  <2>2. m \in Places /\ m <= MAX_7SEG_SIZE
    BY <2>1, Sizes, SMT DEF Places
  <2>3. PICK w : Adds(w, f, Below(m)) /\ w[Below(m)] = v % Base^m
    BY <1>2, <2>2, Zenon
  <2>4. \A k \in N : k < m + 1 <=> (k < m \/ k = m)
    BY <1>0, SMT
  <2>5. v % Base^(m + 1) = Base^m * figure(v, m) + (v % Base^m)
        /\ figure(v, m) \in Nat /\ Base^m \in Nat \ {0} /\ v % Base^m \in Int
    <3>1. Base^m \in Nat \ {0} => v % Base^m \in Int
      BY DivMod, SMT
    <3> QED
      BY <2>2, <3>1, Figure, Zenon
  <2>6. CASE m \notin N
    <3>1. Below(m + 1) = Below(m)
      BY <2>4, <2>6, Zenon
    <3>2. figure(v, m) = 0
      BY <2>2, <2>6, Zenon
    <3>3. \A P \in Nat, r \in Int : P * 0 + r = r
      BY SMT
    <3>4. v % Base^(m + 1) = v % Base^m
      BY <2>5, <3>2, <3>3, Zenon
    <3> QED
      BY <2>3, <3>1, <3>4, Zenon
  <2>7. CASE m \in N
    <3> DEFINE A == Below(m)  B == Below(m + 1)  t == term(f, m)
               u == [s \in SUBSET B |-> IF m \in s THEN t + w[s \ {m}] ELSE w[s]]
    <3>1. B = A \union {m} /\ m \notin A /\ B \ {m} = A /\ m \in B
      <4>1. ~(m < m)
        OBVIOUS
      <4> QED
        BY <2>4, <2>7, <4>1, Zenon
    <3>2. t = Base^m * figure(v, m) /\ t \in Int
      <4>1. t = Base^m * figure(v, m)
        BY <2>7, Zenon DEF term
      <4>2. \A P \in Nat, d \in Nat : P * d \in Int
        BY SMT
      <4> QED
        BY <2>5, <4>1, <4>2, Zenon
    <3>3. \A i \in B : i # m => i \in A
      BY <3>1, Zenon
    <3>4. \A s \in SUBSET B : s \ {m} \in SUBSET A /\ (m \notin s => s \in SUBSET A)
      BY <3>1, Zenon
    <3> HIDE DEF A, B, t
    <3>5. \A s \in SUBSET B : u[s] = IF m \in s THEN t + w[s \ {m}] ELSE w[s]
      BY Zenon
    <3> HIDE DEF u
    <3>6. /\ w[{}] = 0
          /\ \A s \in SUBSET A : \A i \in s : w[s] = term(f, i) + w[s \ {i}]
          /\ \A s \in SUBSET A : w[s] \in Int
      BY <2>3, Zenon DEF Adds, A
    <3>7. u[{}] = 0
      BY <3>5, <3>6, Zenon
    <3>8. ASSUME NEW s \in SUBSET B, NEW i \in s PROVE u[s] = term(f, i) + u[s \ {i}]
      <4>0. s \ {i} \in SUBSET B
        OBVIOUS
      <4>1. CASE i = m
        <5>1. u[s] = t + w[s \ {m}]
          BY <3>5, <4>1, Zenon
        <5>2. u[s \ {i}] = w[s \ {m}]
          BY <3>5, <4>0, <4>1, Zenon
        <5> QED
          BY <4>1, <5>1, <5>2, Zenon DEF t
      <4>2. CASE i # m /\ m \notin s
        <5>1. u[s] = w[s] /\ u[s \ {i}] = w[s \ {i}]
          BY <3>5, <4>0, <4>2, Zenon
        <5> QED
          BY <3>4, <3>6, <4>2, <5>1, Zenon
      <4>3. CASE i # m /\ m \in s
        <5>1. u[s] = t + w[s \ {m}] /\ u[s \ {i}] = t + w[(s \ {i}) \ {m}]
          BY <3>5, <4>0, <4>3, Zenon
        <5>2. (s \ {i}) \ {m} = (s \ {m}) \ {i} /\ i \in s \ {m} /\ s \ {m} \in SUBSET A
          BY <3>4, <4>3, Zenon
        <5>3. w[s \ {m}] = term(f, i) + w[(s \ {m}) \ {i}]
          BY <3>6, <5>2, Zenon
        <5>4. (s \ {m}) \ {i} \in SUBSET A
          BY <5>2, Zenon
        <5>5. w[(s \ {m}) \ {i}] \in Int
          BY <3>6, <5>4, Zenon
        <5>6. term(f, i) \in Int
          <6>1. i \in N /\ f[i] = figure(v, i) /\ i \in Places
            BY <1>0, Zenon DEF B
          <6>2. \A P \in Nat, d \in Nat : P * d \in Int
            BY SMT
          <6> QED
            BY <6>1, <6>2, Figure, Zenon DEF term
        <5> DEFINE b == term(f, i)  c == w[(s \ {m}) \ {i}]
        <5>7. u[s] = t + (b + c) /\ u[s \ {i}] = t + c
          BY <5>1, <5>2, <5>3, Zenon
        <5>8. b \in Int /\ c \in Int
          BY <5>5, <5>6, Zenon
        <5> HIDE DEF b, c
        <5>9. t + (b + c) = b + (t + c)
          BY <3>2, <5>8, SMT
        <5> QED
          BY <5>7, <5>9, Zenon DEF b
      <4> QED
        BY <4>1, <4>2, <4>3, Zenon
    <3>9. ASSUME NEW s \in SUBSET B PROVE u[s] \in Int
      <4>1. CASE m \in s
        <5>1. u[s] = t + w[s \ {m}] /\ w[s \ {m}] \in Int
          BY <3>4, <3>5, <3>6, <4>1, Zenon
        <5> QED
          BY <3>2, <5>1, SMT
      <4>2. CASE m \notin s
        BY <3>4, <3>5, <3>6, <4>2, Zenon
      <4> QED
        BY <4>1, <4>2
    <3>10. u[B] = v % Base^(m + 1)
      <4>1. u[B] = t + w[A]
        BY <3>1, <3>5, Zenon
      <4> QED
        BY <2>3, <2>5, <3>2, <4>1, Zenon DEF A
    <3>11. Adds(u, f, B)
      BY <3>7, <3>8, <3>9, Zenon DEF Adds
    <3> QED
      BY <3>10, <3>11, Zenon DEF B
  <2> QED
    BY <2>6, <2>7
<1>3. \A m \in Nat : m \in T
  <2> HIDE DEF T
  <2> QED
    BY <1>1, <1>2, Induction, Zenon
<1> QED
  BY <1>3, Zenon

(* MapThenSumSet takes the places out in an order of its own. *)
Folds(g, f, N) ==
  g = [s \in SUBSET N |-> IF s = {} THEN 0
                          ELSE term(f, CHOOSE i \in s : TRUE) + g[s \ {CHOOSE i \in s : TRUE}]]

LEMMA SumFolds ==
  ASSUME NEW f, NEW N
  PROVE  MapThenSumSet(LAMBDA k : Base^k * f[k], N) = (CHOOSE g : Folds(g, f, N))[N]
  BY DEF MapThenSumSet, MapThenFoldSet, Folds, term

(* The order is of no importance: the sum is the one that Adds gives. *)
LEMMA SumIs ==
  ASSUME NEW N \in SUBSET Places, NEW f, NEW w, Adds(w, f, N)
  PROVE  MapThenSumSet(LAMBDA k : Base^k * f[k], N) = w[N]
<1> DEFINE first(s) == CHOOSE i \in s : TRUE
           h == [s \in SUBSET N |-> w[s]]
           g == CHOOSE e : Folds(e, f, N)
<1>0. \A s \in SUBSET N : s # {} => first(s) \in s
  OBVIOUS
<1>1. Folds(h, f, N)
  <2>1. ASSUME NEW s \in SUBSET N
        PROVE  w[s] = IF s = {} THEN 0 ELSE term(f, first(s)) + h[s \ {first(s)}]
    <3>1. CASE s = {}
      BY <3>1, Zenon DEF Adds
    <3>2. CASE s # {}
      <4>1. s \ {first(s)} \in SUBSET N
        OBVIOUS
      <4>2. h[s \ {first(s)}] = w[s \ {first(s)}]
        BY <4>1, Zenon
      <4>3. w[s] = term(f, first(s)) + w[s \ {first(s)}]
        BY <1>0, <3>2, Zenon DEF Adds
      <4> QED
        BY <3>2, <4>2, <4>3, Zenon
    <3> QED
      BY <3>1, <3>2
  <2>2. h = [s \in SUBSET N |-> IF s = {} THEN 0 ELSE term(f, first(s)) + h[s \ {first(s)}]]
    BY <2>1, Zenon
  <2> HIDE DEF h
  <2> QED
    BY <2>2, Zenon DEF Folds
<1>2. Folds(g, f, N)
  <2> HIDE DEF h
  <2> QED
    BY <1>1, Zenon
<1> HIDE DEF g, h
<1>3. \A s \in SUBSET N :
        g[s] = IF s = {} THEN 0 ELSE term(f, first(s)) + g[s \ {first(s)}]
  BY <1>2, Zenon DEF Folds
<1> HIDE DEF first
<1>4. \A s \in SUBSET N : IsFiniteSet(s) /\ Cardinality(s) \in Nat
  <2>1. IsFiniteSet(Places)
    BY FS_Interval, Sizes, SMT DEF Places
  <2>2. ASSUME NEW s \in SUBSET N PROVE IsFiniteSet(s) /\ Cardinality(s) \in Nat
    <3>1. s \in SUBSET Places
      OBVIOUS
    <3>2. IsFiniteSet(s)
      BY <2>1, <3>1, FS_Subset, Zenon
    <3> QED
      BY <3>2, FS_CardinalityType, Zenon
  <2> QED
    BY <2>2, Zenon
<1> DEFINE C == {c \in Nat : \A s \in SUBSET N : Cardinality(s) = c => g[s] = w[s]}
<1>5. 0 \in C
  <2>1. ASSUME NEW s \in SUBSET N, Cardinality(s) = 0 PROVE g[s] = w[s]
    <3>1. s = {}
      BY <1>4, <2>1, FS_EmptySet, Zenon
    <3> QED
      BY <1>3, <3>1, Zenon DEF Adds
  <2> QED
    BY <2>1
<1>6. ASSUME NEW c \in Nat, c \in C PROVE c + 1 \in C
  <2>1. SUFFICES ASSUME NEW s \in SUBSET N, Cardinality(s) = c + 1 PROVE g[s] = w[s]
    OBVIOUS
  <2>2. s # {}
    <3>1. c + 1 # 0
      OBVIOUS
    <3> QED
      BY <2>1, <3>1, FS_EmptySet, Zenon
  <2> DEFINE i == first(s)
  <2>3. i \in s
    BY <1>0, <2>2, Zenon
  <2>4. s \ {i} \in SUBSET N
    OBVIOUS
  <2>5. Cardinality(s \ {i}) = c
    <3>1. IsFiniteSet(s)
      BY <1>4, Zenon
    <3>2. Cardinality(s \ {i}) = Cardinality(s) - 1
      BY <2>3, <3>1, FS_RemoveElement, Zenon
    <3>3. (c + 1) - 1 = c
      OBVIOUS
    <3> QED
      BY <2>1, <3>2, <3>3, Zenon
  <2>6. g[s \ {i}] = w[s \ {i}]
    BY <1>6, <2>4, <2>5, Zenon
  <2>7. g[s] = term(f, i) + g[s \ {i}]
    BY <1>3, <2>2, Zenon
  <2>8. w[s] = term(f, i) + w[s \ {i}]
    BY <2>3, Zenon DEF Adds
  <2> QED
    BY <2>6, <2>7, <2>8, Zenon
<1>7. g[N] = w[N]
  <2> HIDE DEF C
  <2>1. \A c \in Nat : c \in C
    BY <1>5, <1>6, Induction, Zenon
  <2> QED
    BY <1>4, <2>1, Zenon DEF C
<1> QED
  BY <1>7, SumFolds, Zenon DEF g

-----------------------------------------------------------------------------
(* The positions of the display show every digit that is not zero, those   *)
(* up to the point, and no digit that is not the number's own.             *)
LEMMA DisplayDigits ==
  ASSUME NEW n \in Numbers, InRange(n.value), NEW k \in Places
  PROVE  LET v == Abs(n.value)
             d == display_num(n).digit
         IN  /\ d[k] # Blank => d[k] = figure(v, k)
             /\ d[k] = Blank => figure(v, k) = 0
             /\ k <= n.dp /\ k <= MAX_7SEG_SIZE - 2 => d[k] # Blank
<1> DEFINE v == Abs(n.value)
           d == display_num(n).digit
           plain == k < MAX_7SEG_SIZE - 1 /\ (k = 0 \/ v \div Base^k > 0)
<1>1. v \in Nat /\ v < Top
  <2>1. n.value \in Int
    BY NumberIs, Zenon
  <2>2. -Top < n.value /\ n.value < Top
    BY <2>1, Shown, Zenon
  <2> QED
    BY <2>1, <2>2, Ranges, SMT DEF Abs
<1>2. digits(n)[k] = IF plain THEN figure(v, k) ELSE IF k <= n.dp THEN 0 ELSE Blank
  BY Zenon DEF digits, Places, figure
<1>3. d = IF n.value < 0 THEN [digits(n) EXCEPT ![MAX_7SEG_SIZE - 1] = Blank] ELSE digits(n)
  BY Zenon DEF display_num
<1>4. d[k] = IF n.value < 0 /\ k = MAX_7SEG_SIZE - 1 THEN Blank ELSE digits(n)[k]
  <2>1. digits(n) = [j \in Places |-> digits(n)[j]]
    BY Zenon DEF digits, Places
  <2> DEFINE e == digits(n)
  <2>2. e = [j \in Places |-> e[j]]
    BY <2>1
  <2> HIDE DEF e
  <2>3. [e EXCEPT ![MAX_7SEG_SIZE - 1] = Blank][k]
          = IF k = MAX_7SEG_SIZE - 1 THEN Blank ELSE e[k]
    BY <2>2
  <2> QED
    BY <1>3, <2>3, Zenon DEF e
<1>5. k \in Nat /\ k <= MAX_7SEG_SIZE - 1 /\ (k < MAX_7SEG_SIZE - 1 \/ k = MAX_7SEG_SIZE - 1)
      /\ ~(k < MAX_7SEG_SIZE - 1 /\ k = MAX_7SEG_SIZE - 1)
      /\ (k <= MAX_7SEG_SIZE - 2 => k < MAX_7SEG_SIZE - 1)
  BY Sizes, SMT DEF Places
<1>6. figure(v, k) \in Nat /\ v \div Base^k \in Nat /\ (v \div Base^k = 0 => figure(v, k) = 0)
  BY <1>1, Figure, Zenon
<1>7. figure(v, k) # Blank /\ 0 # Blank
  <2> DEFINE x == figure(v, k)
  <2> HIDE DEF x
  <2>1. x \in Nat => x # -1 /\ 0 # -1
    BY SMT
  <2> QED
    BY <1>6, <2>1, Zenon DEF Blank, x
<1>8. k = MAX_7SEG_SIZE - 1 => v \div Base^k = 0
  <2>1. k = MAX_7SEG_SIZE - 1 => Base^k = Top
    BY Zenon DEF Top
  <2>2. v = 0 * Top + v /\ 0 <= v /\ 0 \in Int /\ v \in Int
    BY <1>1, Ranges, SMT
  <2>3. v \div Top = 0
    BY <1>1, <2>2, Ranges, DivUnique, Zenon
  <2> QED
    BY <2>1, <2>3, Zenon
<1>9. ~plain => figure(v, k) = 0
  <2>1. \A q \in Nat : ~(q > 0) => q = 0
    BY SMT
  <2> QED
    BY <1>5, <1>6, <1>8, <2>1, Zenon
<1> HIDE DEF v, d
<1>10. CASE plain
  BY <1>2, <1>4, <1>5, <1>7, <1>10, Zenon DEF v, d
<1>11. CASE ~plain
  BY <1>2, <1>4, <1>5, <1>7, <1>9, <1>11, Zenon DEF v, d
<1> QED
  BY <1>10, <1>11

LEMMA PointIs ==
  ASSUME NEW n \in Numbers
  PROVE  Max(display_num(n).point \union {0}) = n.dp
<1>1. n.dp \in Nat /\ n.dp \in Int /\ 0 \in Int
  BY NumberIs, SMT
<1>2. display_num(n).point = {k \in {n.dp} : k > 0 \/ prev_state = "Q_DEC"}
  BY Zenon DEF display_num
<1>3. CASE n.dp > 0
  <2>1. display_num(n).point \union {0} = {n.dp, 0}
    BY <1>2, <1>3, Zenon
  <2>2. n.dp >= 0
    BY <1>3, <1>1, SMT
  <2> QED
    BY <1>1, <2>1, <2>2, MaxOfTwo, Zenon
<1>4. CASE ~(n.dp > 0)
  <2>1. n.dp = 0 /\ 0 >= 0
    BY <1>1, <1>4, SMT
  <2>2. display_num(n).point \union {0} = {0, 0}
    BY <1>2, <2>1, Zenon
  <2> QED
    BY <1>1, <2>1, <2>2, MaxOfTwo, Zenon
<1> QED
  BY <1>3, <1>4

LEMMA ReadingIs ==
  ASSUME NEW n \in Numbers, InRange(n.value)
  PROVE  reading(display_num(n)) = n
<1> DEFINE e == display_num(n)
           f == e.digit
           N == {k \in DOMAIN f : f[k] # Blank}
           v == Abs(n.value)
<1>1. n.value \in Int /\ v \in Nat /\ v < Top /\ n = num(n.value, n.dp)
  <2>1. n.value \in Int /\ n = num(n.value, n.dp)
    BY NumberIs, Zenon
  <2>2. -Top < n.value /\ n.value < Top
    BY <2>1, Shown, Zenon
  <2> QED
    BY <2>1, <2>2, Ranges, SMT DEF Abs
<1>2. DOMAIN f = Places
  <2>1. f = IF n.value < 0 THEN [digits(n) EXCEPT ![MAX_7SEG_SIZE - 1] = Blank] ELSE digits(n)
    BY Zenon DEF display_num
  <2>2. DOMAIN digits(n) = Places
    BY Zenon DEF digits, Places
  <2>3. DOMAIN [digits(n) EXCEPT ![MAX_7SEG_SIZE - 1] = Blank] = DOMAIN digits(n)
    OBVIOUS
  <2> QED
    BY <2>1, <2>2, <2>3, Zenon
<1>3. e.minus <=> n.value < 0
  BY Zenon DEF display_num
<1>4. \A k \in Places : /\ f[k] # Blank => f[k] = figure(v, k)
                        /\ f[k] = Blank => figure(v, k) = 0
  BY DisplayDigits, Zenon
<1>5. Max(e.point \union {0}) = n.dp
  BY PointIs, Zenon
<1> HIDE DEF v
<1>6. reading(e) = num(IF e.minus THEN -MapThenSumSet(LAMBDA k : Base^k * f[k], N)
                       ELSE MapThenSumSet(LAMBDA k : Base^k * f[k], N), n.dp)
  <2>1. reading(e) = num(IF e.minus THEN -MapThenSumSet(LAMBDA k : Base^k * f[k], N)
                         ELSE MapThenSumSet(LAMBDA k : Base^k * f[k], N),
                         Max(e.point \union {0}))
    BY DEF reading
  <2> HIDE DEF f, N, e
  <2> QED
    BY <1>5, <2>1
<1> HIDE DEF e
<1>7. N \in SUBSET Places /\ N = {k \in N : k < MAX_7SEG_SIZE}
  <2>1. \A k \in Places : k < MAX_7SEG_SIZE
    BY Sizes, SMT DEF Places
  <2> HIDE DEF f
  <2> QED
    BY <1>2, <2>1, Zenon
<1>8. (\A k \in N : f[k] = figure(v, k)) /\ (\A k \in Places : k \notin N => figure(v, k) = 0)
  <2> HIDE DEF f
  <2> QED
    BY <1>2, <1>4, Zenon
<1> HIDE DEF N, f
<1>9. \A m \in Nat : m <= MAX_7SEG_SIZE =>
        \E w : Adds(w, f, {k \in N : k < m}) /\ w[{k \in N : k < m}] = v % Base^m
  BY <1>1, <1>7, <1>8, SumBelow, Zenon
<1>10. PICK w : Adds(w, f, N) /\ w[N] = v % Base^MAX_7SEG_SIZE
  <2>1. MAX_7SEG_SIZE \in Nat /\ MAX_7SEG_SIZE <= MAX_7SEG_SIZE
    BY Sizes, SMT
  <2> QED
    BY <1>7, <1>9, <2>1, Zenon
<1>11. MapThenSumSet(LAMBDA k : Base^k * f[k], N) = w[N]
  BY <1>7, <1>10, SumIs
<1>12. v % Base^MAX_7SEG_SIZE = v
  <2>1. MAX_7SEG_SIZE - 1 \in 0 .. MaxPower /\ (MAX_7SEG_SIZE - 1) + 1 = MAX_7SEG_SIZE
    BY Sizes, SMT
  <2>2. Base^MAX_7SEG_SIZE = Base * Top
    BY <2>1, Power, Zenon DEF Top
  <2>3. Top <= Base * Top /\ Base * Top \in Nat \ {0}
    BY Ranges, Sizes, SMT
  <2>4. v < Base * Top /\ v = 0 * (Base * Top) + v /\ 0 <= v /\ 0 \in Int /\ v \in Int
    BY <1>1, <2>3, Ranges, SMT
  <2> QED
    BY <2>2, <2>3, <2>4, DivUnique, Zenon
<1>13. MapThenSumSet(LAMBDA k : Base^k * f[k], N) = v
  BY <1>10, <1>11, <1>12
<1>14. reading(e) = num(IF n.value < 0 THEN -v ELSE v, n.dp)
  BY <1>3, <1>6, <1>13
<1>15. (IF n.value < 0 THEN -v ELSE v) = n.value
  BY <1>1, SMT DEF v, Abs
<1>16. reading(e) = num(n.value, n.dp)
  BY <1>14, <1>15
<1> QED
  BY <1>1, <1>16 DEF e

Readable ==
  current_state # "Q_ER" /\ InRange(inUse.value) =>
    /\ reading(display) = inUse
    /\ \A k \in 0 .. Min({inUse.dp, MAX_7SEG_SIZE - 2}) : display.digit[k] # Blank

LEMMA AlwaysReadable == TypeOK => Readable
<1> SUFFICES ASSUME TypeOK, current_state # "Q_ER", InRange(inUse.value)
             PROVE  /\ reading(display) = inUse
                    /\ \A k \in 0 .. Min({inUse.dp, MAX_7SEG_SIZE - 2}) : display.digit[k] # Blank
  BY Zenon DEF Readable
<1>1. display = display_num(inUse)
  BY Zenon DEF display, inUse
<1>2. inUse \in Numbers
  BY Zenon DEF TypeOK, inUse
<1>3. reading(display_num(inUse)) = inUse
  BY <1>2, ReadingIs, Zenon
<1>4. ASSUME NEW k \in 0 .. Min({inUse.dp, MAX_7SEG_SIZE - 2})
      PROVE  display.digit[k] # Blank
  <2>1. inUse.dp \in Nat /\ MAX_7SEG_SIZE - 2 \in Nat
    <3>1. inUse.dp \in Nat
      BY <1>2, NumberIs, Zenon
    <3> QED
      BY <3>1, Sizes, SMT
  <2> DEFINE S == {inUse.dp, MAX_7SEG_SIZE - 2}
  <2>2. S \in SUBSET Nat /\ S # {} /\ inUse.dp \in S /\ MAX_7SEG_SIZE - 2 \in S
    BY <2>1, Zenon
  <2> HIDE DEF S
  <2>3. Min(S) \in Nat /\ Min(S) <= inUse.dp /\ Min(S) <= MAX_7SEG_SIZE - 2
    BY <2>2, MinIs, Zenon
  <2>4. k \in 0 .. Min(S)
    BY Zenon DEF S
  <2>5. k \in Places /\ k <= inUse.dp /\ k <= MAX_7SEG_SIZE - 2
    <3> DEFINE x == Min(S)  y == inUse.dp
    <3> HIDE DEF x, y
    <3>1. x \in Nat /\ y \in Nat /\ x <= y /\ x <= MAX_7SEG_SIZE - 2 /\ k \in 0 .. x
      BY <2>1, <2>3, <2>4 DEF x, y
    <3>2. k \in Places /\ k <= y /\ k <= MAX_7SEG_SIZE - 2
      BY <3>1, Sizes, SMT DEF Places
    <3> QED
      BY <3>2, Zenon DEF y
  <2> QED
    BY <1>1, <1>2, <2>5, DisplayDigits, Zenon
<1> QED
  BY <1>1, <1>3, <1>4, Zenon

DisplayRead ==
  current_state' # "Q_ER" /\ InRange(inUse'.value) /\ ~Restart =>
    /\ reading(display') = inUse'
    /\ \A k \in 0 .. Min({inUse'.dp, MAX_7SEG_SIZE - 2}) : display'.digit[k] # Blank

(* The display shows the number in use, as long as it is one that fits:    *)
(* every digit in its place, the zeros between the point and the number    *)
(* too, the sign where it hides none, and the point before the digits that *)
(* follow it.                                                              *)
THEOREM DisplayIsRead == Spec => DisplayReads
<1>1. Spec => []TypeOK
  BY TypeCorrect
<1>2. Readable' => DisplayRead
  BY Zenon DEF Readable, DisplayRead
<1>3. Spec => [][DisplayRead]_vars
  BY <1>1, <1>2, AlwaysReadable, PTL
<1> QED
  BY <1>3, Zenon DEF DisplayReads, DisplayRead
=============================================================================

--------------------------- MODULE Datapath_proofs ---------------------------
(***************************************************************************)
(* The datapath of src/rv32.cpp, for every word width: its two ALUs and    *)
(* their shifters agree, the shift-and-add multiplier of the core          *)
(* multiplies, stores and loads put bytes where they belong, the decoder   *)
(* puts immediates together; and what the CSR operators return.            *)
(***************************************************************************)
EXTENDS Csr, Decoder, FiniteSetTheorems, WellFoundedInduction, TLAPS

(* Division by a number that is not a literal. *)
LEMMA ModUnique ==
  ASSUME NEW n \in Int, NEW M \in Nat \ {0}, NEW q \in Int, NEW r \in Int,
         n = q * M + r, 0 <= r, r < M
  PROVE  n % M = r
  BY SMT

LEMMA DivMod ==
  ASSUME NEW n \in Int, NEW M \in Nat \ {0}
  PROVE  /\ n \div M \in Int /\ n % M \in 0 .. M - 1
         /\ n = M * (n \div M) + (n % M)
  BY SMT

LEMMA ModShift ==
  ASSUME NEW n \in Int, NEW M \in Nat \ {0}, NEW k \in Int
  PROVE  (n + k * M) % M = n % M
<1> DEFINE q == n \div M  r == n % M
<1>1. q \in Int /\ r \in Int /\ 0 <= r /\ r < M /\ n = M * q + r
  BY DivMod, SMT
<1> HIDE DEF q, r
<1>2. n + k * M \in Int /\ q + k \in Int /\ n + k * M = (q + k) * M + r
  BY <1>1, SMT
<1>3. (n + k * M) % M = r
  BY <1>1, <1>2, ModUnique, SMT
<1> QED
  BY <1>3, Zenon DEF r

LEMMA DivUnique ==
  ASSUME NEW n \in Int, NEW M \in Nat \ {0}, NEW q \in Int, NEW r \in Int,
         n = q * M + r, 0 <= r, r < M
  PROVE  n \div M = q
  BY SMT

LEMMA DivShift ==
  ASSUME NEW n \in Int, NEW M \in Nat \ {0}, NEW k \in Int
  PROVE  (n + k * M) \div M = (n \div M) + k
<1> DEFINE q == n \div M  r == n % M
<1>1. q \in Int /\ r \in Int /\ 0 <= r /\ r < M /\ n = M * q + r
  BY DivMod, SMT
<1> HIDE DEF q, r
<1>2. n + k * M \in Int /\ q + k \in Int /\ n + k * M = (q + k) * M + r
  BY <1>1, SMT
<1>3. (n + k * M) \div M = q + k
  BY <1>1, <1>2, DivUnique, Zenon
<1> QED
  BY <1>3, Zenon DEF q

LEMMA DivDiv ==
  ASSUME NEW n \in Int, NEW A \in Nat \ {0}, NEW B \in Nat \ {0}
  PROVE  (n \div A) \div B = n \div (A * B)
<1> DEFINE q == n \div A  r == n % A  q2 == q \div B  r2 == q % B
<1>1. q \in Int /\ r \in Int /\ 0 <= r /\ r < A /\ n = A * q + r
  BY DivMod, SMT
<1>2. q2 \in Int /\ r2 \in Int /\ 0 <= r2 /\ r2 < B /\ q = B * q2 + r2
  BY <1>1, DivMod, SMT
<1>3. (n \div A) \div B = q2
  OBVIOUS
<1> HIDE DEF q, r, q2, r2
<1>4. n = A * (B * q2 + r2) + r /\ A * (B * q2 + r2) = q2 * (A * B) + A * r2
  BY <1>1, <1>2, SMT
<1>5. A * B \in Nat \ {0} /\ A * r2 + r \in Int /\ n = q2 * (A * B) + (A * r2 + r)
  BY <1>1, <1>2, <1>4, SMT
<1>6. 0 <= A * r2 + r /\ A * r2 + r < A * B
  <2>1. 0 <= A * r2 /\ A * r2 <= A * (B - 1) /\ A * (B - 1) = A * B - A
    BY <1>2, SMT
  <2> QED
    BY <1>1, <1>2, <1>5, <2>1, SMT
<1>7. n \div (A * B) = q2
  BY <1>2, <1>5, <1>6, DivUnique, Zenon
<1> QED
  BY <1>3, <1>7

(* The least member of a set of numbers, which stands for an induction.    *)
Less == {p \in Nat \X Nat : p[1] < p[2]}

LEMMA LessWF == IsWellFoundedOn(Less, Nat)
<1>1. Less = OpToRel(<, Nat)
  BY Zenon DEF Less, OpToRel
<1> QED
  BY <1>1, NatLessThanWellFounded, Zenon

LEMMA Least ==
  ASSUME NEW S \in SUBSET Nat, S # {}
  PROVE  \E x \in S : \A y \in S : x <= y
<1>1. PICK x \in S : \A y \in S : ~(<<y, x>> \in Less)
  BY LessWF, WFMin, Zenon
<1>2. ASSUME NEW y \in S PROVE x <= y
  <2>1. <<y, x>> \in Nat \X Nat /\ <<y, x>>[1] = y /\ <<y, x>>[2] = x
    OBVIOUS
  <2>2. ~(y < x)
    BY <1>1, <2>1, Zenon DEF Less
  <2> QED
    BY <2>2, SMT
<1> QED
  BY <1>2

LEMMA Induction ==
  ASSUME NEW S, 0 \in S, \A n \in Nat : n \in S => n + 1 \in S
  PROVE  \A n \in Nat : n \in S
<1>1. SUFFICES ASSUME {n \in Nat : n \notin S} # {} PROVE FALSE
  OBVIOUS
<1>2. PICK x \in {n \in Nat : n \notin S} : \A y \in {n \in Nat : n \notin S} : x <= y
  BY <1>1, Least
<1>3. x # 0 /\ x - 1 \in Nat /\ (x - 1) + 1 = x /\ ~(x <= x - 1)
  BY <1>2, SMT
<1> QED
  BY <1>2, <1>3

(* Powers of two, up to the widest word. *)
LEMMA Powers ==
  /\ 2^0 = 1
  /\ \A k \in 0 .. 31 : 2^(k + 1) = 2 * 2^k
  /\ \A k \in 0 .. 32 : 2^k \in Nat \ {0}
  BY SMT

LEMMA PowerSum ==
  ASSUME NEW a \in 0 .. 32, NEW b \in 0 .. 32, a + b <= 32
  PROVE  2^(a + b) = 2^a * 2^b
<1> DEFINE S == {n \in Nat : a + n <= 32 => 2^(a + n) = 2^a * 2^n}
<1>1. 0 \in S
  <2>1. 2^a \in Nat \ {0} /\ 2^0 = 1
    BY Powers, Zenon
  <2>2. a + 0 = a
    BY SMT
  <2> QED
    BY <2>1, <2>2, SMT
<1>2. ASSUME NEW n \in Nat, n \in S PROVE n + 1 \in S
  <2>1. SUFFICES ASSUME a + (n + 1) <= 32 PROVE 2^(a + (n + 1)) = 2^a * 2^(n + 1)
    OBVIOUS
  <2>2. a + n \in 0 .. 31 /\ n \in 0 .. 31 /\ a + (n + 1) = (a + n) + 1 /\ a + n <= 32
    BY <2>1, SMT
  <2>3. 2^((a + n) + 1) = 2 * 2^(a + n) /\ 2^(n + 1) = 2 * 2^n /\ 2^(a + n) = 2^a * 2^n
    BY <1>2, <2>2, Powers
  <2>4. 2^a \in Nat \ {0} /\ 2^n \in Nat \ {0}
    <3>1. n \in 0 .. 32
      BY <2>2, SMT
    <3> QED
      BY <3>1, Powers, Zenon
  <2> QED
    BY <2>2, <2>3, <2>4, SMT
<1>3. \A n \in Nat : n \in S
  <2> HIDE DEF S
  <2> QED
    BY <1>1, <1>2, Induction
<1> QED
  BY <1>3, SMT

LEMMA Width == XLEN \in 4 .. 32
  BY ByteAssumption, SMT DEF XLEN

LEMMA PowersOfWord ==
  /\ 2^XLEN \in Nat \ {0}
  /\ \A i \in 0 .. XLEN - 1 : 2^i \in Nat \ {0} /\ 2^i < 2^XLEN
<1>1. XLEN \in 0 .. 32
  BY Width, SMT
<1>2. ASSUME NEW i \in 0 .. XLEN - 1 PROVE 2^i \in Nat \ {0} /\ 2^i < 2^XLEN
  <2>1. i \in 0 .. 32 /\ XLEN - i \in 0 .. 32 /\ i + (XLEN - i) <= 32 /\ i + (XLEN - i) = XLEN
    BY <1>1, SMT
  <2>2. 2^XLEN = 2^i * 2^(XLEN - i)
    BY <2>1, PowerSum, Zenon
  <2>3. XLEN - i - 1 \in 0 .. 31 /\ XLEN - i - 1 \in 0 .. 32 /\ (XLEN - i - 1) + 1 = XLEN - i
    BY <1>1, SMT
  <2>4. 2^(XLEN - i) = 2 * 2^(XLEN - i - 1) /\ 2^(XLEN - i - 1) \in Nat \ {0} /\ 2^i \in Nat \ {0}
    BY <2>1, <2>3, Powers, Zenon
  <2> QED
    BY <2>2, <2>4, SMT
<1> QED
  BY <1>1, <1>2, Powers, Zenon

(* Bit i of a number, by what stays of it above and below the bit.  *)
LEMMA BitAdd ==
  ASSUME NEW x \in Int, NEW i \in 0 .. 31, NEW j \in 0 .. 31, NEW d \in {-1, 1},
         isSet(x, i) <=> d = -1
  PROVE  isSet(x + d * 2^i, j) <=> IF j = i THEN d = 1 ELSE isSet(x, j)
<1> DEFINE P == 2^i  q == x \div P
<1>1. P \in Nat \ {0} /\ 2^j \in Nat \ {0} /\ x + d * P \in Int
  <2>1. i \in 0 .. 32 /\ j \in 0 .. 32
    BY SMT
  <2>2. P \in Nat \ {0} /\ 2^j \in Nat \ {0}
    BY <2>1, Powers, Zenon
  <2> QED
    BY <2>2, SMT
<1>2. q \in Int /\ (x + d * P) \div P = q + d
  BY <1>1, DivMod, DivShift, d \in Int, Zenon
<1>3. isSet(x, i) <=> q % 2 = 1
  BY Zenon DEF isSet
<1>4. CASE j = i
  <2>1. isSet(x + d * 2^i, j) <=> (q + d) % 2 = 1
    BY <1>2, <1>4, Zenon DEF isSet
  <2> HIDE DEF q, P
  <2>2. (q + d) % 2 = 1 <=> d = 1
    BY <1>2, <1>3, SMT
  <2> QED
    BY <2>1, <2>2, <1>4, Zenon
<1>5. CASE i < j
  <2> DEFINE Q == 2^(j - i - 1)
  <2>1. Q \in Nat \ {0} /\ 2^j = (P * 2) * Q
    <3>1. /\ j - i - 1 \in 0 .. 31 /\ j - i - 1 \in 0 .. 32 /\ j - i \in 0 .. 32 /\ i \in 0 .. 32
          /\ i + (j - i) = j /\ i + (j - i) <= 32 /\ (j - i - 1) + 1 = j - i
      BY <1>5, SMT
    <3>2. 2^j = P * 2^(j - i) /\ 2^(j - i) = 2 * Q /\ Q \in Nat \ {0}
      BY <3>1, Powers, PowerSum, Zenon
    <3> HIDE DEF P, Q
    <3> QED
      BY <1>1, <3>2, SMT
  <2> HIDE DEF P, Q
  <2>2. P * 2 \in Nat \ {0} /\ 2 \in Nat \ {0}
    BY <1>1, SMT
  <2>3. ASSUME NEW z \in Int PROVE z \div 2^j = ((z \div P) \div 2) \div Q
    <3>1. (z \div P) \div 2 = z \div (P * 2)
      BY <1>1, <2>2, DivDiv, Zenon
    <3>2. (z \div (P * 2)) \div Q = z \div ((P * 2) * Q)
      BY <2>1, <2>2, DivDiv, Zenon
    <3> QED
      BY <2>1, <3>1, <3>2, Zenon
  <2>4. /\ x \div 2^j = ((x \div P) \div 2) \div Q
        /\ (x + d * P) \div 2^j = (((x + d * P) \div P) \div 2) \div Q
    BY <1>1, <2>3, Zenon
  <2> HIDE DEF q
  <2>5. (q + d) \div 2 = q \div 2
    BY <1>2, <1>3, SMT
  <2>6. (x + d * P) \div 2^j = x \div 2^j
    BY <1>2, <2>4, <2>5, Zenon DEF q
  <2>7. j # i
    BY <1>5, SMT
  <2> QED
    BY <2>6, <2>7, Zenon DEF isSet, P
<1>6. CASE j < i
  <2> DEFINE Q == 2^(i - j - 1)
  <2>1. Q \in Nat \ {0} /\ P = 2^j * (2 * Q)
    <3>1. /\ i - j - 1 \in 0 .. 31 /\ i - j - 1 \in 0 .. 32 /\ i - j \in 0 .. 32 /\ j \in 0 .. 32
          /\ j + (i - j) = i /\ j + (i - j) <= 32 /\ (i - j - 1) + 1 = i - j
      BY <1>6, SMT
    <3>2. 2^i = 2^j * 2^(i - j) /\ 2^(i - j) = 2 * Q /\ Q \in Nat \ {0}
      BY <3>1, Powers, PowerSum, Zenon
    <3> QED
      BY <3>2, Zenon
  <2> HIDE DEF P, Q
  <2>2. d * (2 * Q) \in Int /\ d * P = (d * (2 * Q)) * 2^j
    BY <1>1, <2>1, SMT
  <2>3. (x + (d * (2 * Q)) * 2^j) \div 2^j = (x \div 2^j) + d * (2 * Q)
    BY <1>1, <2>2, DivShift, Zenon
  <2>4. x \div 2^j \in Int
    BY <1>1, DivMod, Zenon
  <2> DEFINE y == x \div 2^j
  <2> HIDE DEF y
  <2>5. (y + d * (2 * Q)) % 2 = y % 2
    <3>1. y \in Int /\ d * Q \in Int /\ y + d * (2 * Q) = y + (d * Q) * 2
      BY <2>1, <2>4, SMT DEF y
    <3>2. (y + (d * Q) * 2) % 2 = y % 2
      <4> DEFINE e == d * Q
      <4> HIDE DEF e
      <4>1. (y + e * 2) % 2 = y % 2
        BY <3>1, SMT DEF e
      <4> QED
        BY <4>1 DEF e
    <3> QED
      BY <3>1, <3>2, Zenon
  <2>6. ((x + d * P) \div 2^j) % 2 = (x \div 2^j) % 2
    BY <2>2, <2>3, <2>5, Zenon DEF y
  <2>7. j # i
    BY <1>6, SMT
  <2> QED
    BY <2>6, <2>7, Zenon DEF isSet, P
<1>7. j = i \/ i < j \/ j < i
  BY SMT
<1> QED
  BY <1>4, <1>5, <1>6, <1>7, Zenon

(* A word is the sum of its bits: what a bit adds, and that no two words   *)
(* have the same bits.                                                     *)
LEMMA BitOut ==
  ASSUME NEW x \in Word, NEW i \in Bits(x)
  PROVE  x - 2^i \in Word /\ Bits(x - 2^i) = Bits(x) \ {i}
<1>1. i \in 0 .. XLEN - 1 /\ isSet(x, i) /\ x \in Int
  BY SMT DEF Bits, Word
<1>2. 2^i \in Nat \ {0} /\ 2^XLEN \in Nat \ {0}
  BY <1>1, PowersOfWord, Zenon
<1>3. x - 2^i = x + (-1) * 2^i
  BY <1>1, <1>2, SMT
<1>4. \A j \in 0 .. XLEN - 1 : isSet(x - 2^i, j) <=> j # i /\ isSet(x, j)
  <2>1. ASSUME NEW j \in 0 .. XLEN - 1
        PROVE  isSet(x - 2^i, j) <=> j # i /\ isSet(x, j)
    <3>1. i \in 0 .. 31 /\ j \in 0 .. 31 /\ -1 \in {-1, 1} /\ ~(-1 = 1)
      BY <1>1, Width, SMT
    <3>2. isSet(x + (-1) * 2^i, j) <=> IF j = i THEN -1 = 1 ELSE isSet(x, j)
      BY <1>1, <3>1, BitAdd, Zenon
    <3> QED
      BY <1>3, <3>1, <3>2, Zenon
  <2> QED
    BY <2>1
<1>5. Bits(x - 2^i) = Bits(x) \ {i}
  BY <1>4, Zenon DEF Bits
<1>6. x - 2^i \in Word
  <2>1. x >= 2^i
    <3> DEFINE P == 2^i
    <3>1. isSet(x, i) <=> (x \div P) % 2 = 1
      BY Zenon DEF isSet
    <3>2. P \in Nat \ {0} /\ x \in Nat
      BY <1>2, PowersOfWord, SMT DEF Word
    <3> HIDE DEF P
    <3>3. x < P => x \div P = 0
      BY <3>2, SMT
    <3>4. x >= P
      BY <1>1, <3>1, <3>2, <3>3, SMT
    <3> QED
      BY <3>4 DEF P
  <2>2. x \in 0 .. 2^XLEN - 1
    BY Zenon DEF Word
  <2>3. x - 2^i \in 0 .. 2^XLEN - 1
    BY <1>2, <2>1, <2>2, SMT
  <2> QED
    BY <2>3, Zenon DEF Word
<1> QED
  BY <1>5, <1>6

LEMMA NoBits ==
  ASSUME NEW x \in Word, Bits(x) = {}
  PROVE  x = 0
<1> DEFINE S == {n \in Nat : n <= XLEN => \E y \in Nat : x = y * 2^n}
<1>0. x \in Nat /\ x < 2^XLEN /\ 2^XLEN \in Nat \ {0}
  BY PowersOfWord, SMT DEF Word
<1>1. 0 \in S
  <2>1. 2^0 = 1
    BY Powers
  <2>2. x = x * 2^0
    BY <1>0, <2>1, SMT
  <2> QED
    BY <1>0, <2>2
<1>2. ASSUME NEW n \in Nat, n \in S PROVE n + 1 \in S
  <2>1. SUFFICES ASSUME n + 1 <= XLEN PROVE \E y \in Nat : x = y * 2^(n + 1)
    BY SMT
  <2>2. n \in 0 .. XLEN - 1 /\ n \in 0 .. 31 /\ n <= XLEN
    BY <2>1, Width, SMT
  <2>3. PICK y \in Nat : x = y * 2^n
    BY <1>2, <2>2
  <2>4. ~isSet(x, n)
    BY <2>2, Zenon DEF Bits
  <2> DEFINE P == 2^n
  <2>5. P \in Nat \ {0} /\ 2^(n + 1) = 2 * P
    BY <2>2, PowersOfWord, Powers, Zenon
  <2>6. ~((x \div P) % 2 = 1)
    BY <2>4, Zenon DEF isSet
  <2>7. x = y * P
    BY <2>3
  <2> HIDE DEF P
  <2>8. x \div P = y
    <3>1. x = y * P + 0 /\ 0 < P /\ 0 <= 0 /\ x \in Int /\ y \in Int /\ 0 \in Int
      BY <1>0, <2>5, <2>7, SMT
    <3> QED
      BY <2>5, <3>1, DivUnique, Zenon
  <2>9. y = 2 * (y \div 2) /\ y \div 2 \in Nat
    BY <2>6, <2>8, SMT
  <2> DEFINE z == y \div 2
  <2> HIDE DEF z
  <2>10. z \in Nat /\ x = z * (2 * P)
    BY <2>5, <2>7, <2>9, SMT DEF z
  <2> QED
    BY <2>5, <2>10
<1>3. \A n \in Nat : n \in S
  <2> HIDE DEF S
  <2> QED
    BY <1>1, <1>2, Induction
<1>4. PICK y \in Nat : x = y * 2^XLEN
  <2>1. XLEN \in Nat /\ XLEN <= XLEN
    BY Width, SMT
  <2> QED
    BY <1>3, <2>1, Zenon
<1> DEFINE M == 2^XLEN
<1>5. M \in Nat \ {0} /\ x = y * M /\ x < M
  BY <1>0, <1>4
<1> HIDE DEF M
<1> QED
  BY <1>5, SMT

LEMMA BitsInjective ==
  ASSUME NEW x \in Word, NEW y \in Word, Bits(x) = Bits(y)
  PROVE  x = y
<1> DEFINE T == {n \in Nat : \E u \in Word : u # n /\ n \in Word /\ Bits(u) = Bits(n)}
<1>0. Word \subseteq Nat
  BY PowersOfWord, SMT DEF Word
<1>1. SUFFICES ASSUME x # y PROVE FALSE
  OBVIOUS
<1>2. x \in T
  BY <1>0, <1>1, Zenon
<1>3. PICK n \in T : \A k \in T : n <= k
  <2> HIDE DEF T
  <2>1. T \subseteq Nat /\ T # {}
    BY <1>2, Zenon DEF T
  <2> QED
    BY <2>1, Least
<1>4. PICK u \in Word : u # n /\ n \in Word /\ Bits(u) = Bits(n)
  BY <1>3
<1>5. CASE Bits(n) = {}
  BY <1>4, <1>5, NoBits
<1>6. ASSUME NEW i \in Bits(n) PROVE FALSE
  <2>1. /\ n - 2^i \in Word /\ Bits(n - 2^i) = Bits(n) \ {i}
        /\ u - 2^i \in Word /\ Bits(u - 2^i) = Bits(n) \ {i}
    BY <1>4, BitOut
  <2>2. i \in 0 .. XLEN - 1
    BY Zenon DEF Bits
  <2>3. 2^i \in Nat \ {0}
    BY <2>2, PowersOfWord, Zenon
  <2>4. u - 2^i # n - 2^i
    BY <1>0, <1>4, <2>3, SMT
  <2>5. n - 2^i \in T
    BY <1>0, <2>1, <2>4, Zenon
  <2>6. n <= n - 2^i
    BY <1>3, <2>5, Zenon
  <2> QED
    BY <1>0, <1>4, <2>3, <2>6, SMT
<1> QED
  BY <1>5, <1>6

(* Every set of bits is a word: the least n that no word makes up for the  *)
(* bits below n would have a word for those below n - 1.                   *)
LEMMA BitsSurjective ==
  ASSUME NEW S \in SUBSET (0 .. XLEN - 1)
  PROVE  \E x \in Word : Bits(x) = S
<1> DEFINE Below(n) == {i \in S : i < n}
           T == {n \in Nat : n <= XLEN => \E x \in 0 .. 2^n - 1 : Bits(x) = Below(n)}
<1>0. /\ \A i \in S : ~(i < 0) /\ i < XLEN
      /\ \A n \in Nat, i \in S : i < n + 1 <=> (i < n \/ i = n)
  BY Width, SMT
<1>1. 0 \in T
  <2>1. 0 \in 0 .. 2^0 - 1
    BY Powers, SMT
  <2>2. Below(0) = {}
    BY <1>0, Zenon
  <2>3. Bits(0) = {}
    <3>1. ASSUME NEW i \in 0 .. XLEN - 1 PROVE ~isSet(0, i)
      <4>1. 2^i \in Nat \ {0}
        BY PowersOfWord, Zenon
      <4> DEFINE P == 2^i
      <4> HIDE DEF P
      <4>2. ~((0 \div P) % 2 = 1)
        BY <4>1, SMT DEF P
      <4> QED
        BY <4>2, Zenon DEF isSet, P
    <3> QED
      BY <3>1, Zenon DEF Bits
  <2> QED
    BY <2>1, <2>2, <2>3
<1>2. ASSUME NEW n \in Nat, n \in T PROVE n + 1 \in T
  <2>1. SUFFICES ASSUME n + 1 <= XLEN
                 PROVE  \E x \in 0 .. 2^(n + 1) - 1 : Bits(x) = Below(n + 1)
    BY SMT
  <2>2. n \in 0 .. XLEN - 1 /\ n \in 0 .. 31 /\ n <= XLEN
    BY <2>1, Width, SMT
  <2>3. PICK x \in 0 .. 2^n - 1 : Bits(x) = Below(n)
    BY <1>2, <2>2
  <2> DEFINE P == 2^n
  <2>4. P \in Nat \ {0} /\ 2^(n + 1) = 2 * P
    BY <2>2, PowersOfWord, Powers, Zenon
  <2>5. x \in 0 .. P - 1 /\ x \in Int /\ x \in 0 .. 2^(n + 1) - 1
    BY <2>3, <2>4, SMT
  <2>6. CASE n \notin S
    <3>1. Below(n + 1) = Below(n)
      BY <1>0, <2>6, Zenon
    <3> QED
      BY <2>3, <2>5, <3>1, Zenon
  <2>7. CASE n \in S
    <3>1. ~isSet(x, n)
      <4>1. ~((x \div P) % 2 = 1)
        <5> HIDE DEF P
        <5>1. x \div P = 0
          BY <2>4, <2>5, SMT
        <5> QED
          BY <5>1, SMT
      <4> QED
        BY <4>1, Zenon DEF isSet
    <3>2. \A j \in 0 .. XLEN - 1 : isSet(x + 1 * 2^n, j) <=> (j = n \/ isSet(x, j))
      <4>1. ASSUME NEW j \in 0 .. XLEN - 1
            PROVE  isSet(x + 1 * 2^n, j) <=> (j = n \/ isSet(x, j))
        <5>1. j \in 0 .. 31 /\ 1 \in {-1, 1} /\ ~(1 = -1)
          BY Width, SMT
        <5>2. isSet(x + 1 * 2^n, j) <=> IF j = n THEN 1 = 1 ELSE isSet(x, j)
          BY <2>2, <2>5, <3>1, <5>1, BitAdd, Zenon
        <5> QED
          BY <5>2, Zenon
      <4> QED
        BY <4>1, Zenon
    <3>3. Bits(x + 1 * 2^n) = Bits(x) \union {n}
      BY <2>2, <3>2, Zenon DEF Bits
    <3>4. Below(n + 1) = Below(n) \union {n}
      BY <1>0, <2>7, Zenon
    <3>5. x + 1 * P \in 0 .. 2^(n + 1) - 1
      <4> HIDE DEF P
      <4> QED
        BY <2>4, <2>5, SMT
    <3> QED
      BY <2>3, <3>3, <3>4, <3>5, Zenon
  <2> QED
    BY <2>6, <2>7
<1>3. XLEN \in T
  <2>1. XLEN \in Nat
    BY Width, SMT
  <2> HIDE DEF T
  <2>2. \A n \in Nat : n \in T
    BY <1>1, <1>2, Induction
  <2> QED
    BY <2>1, <2>2, Zenon
<1>4. XLEN <= XLEN /\ Below(XLEN) = S
  <2>1. XLEN <= XLEN
    BY Width, SMT
  <2>2. Below(XLEN) = S
    BY <1>0, Zenon
  <2> QED
    BY <2>1, <2>2
<1> QED
  BY <1>3, <1>4, Zenon DEF Word
-----------------------------------------------------------------------------
(* Num adds up the powers of two of a set, in an order of its own. *)
Sums(g, S) ==
  g = [s \in SUBSET S |-> IF s = {} THEN 0
                          ELSE 2^(CHOOSE i \in s : TRUE) + g[s \ {CHOOSE i \in s : TRUE}]]

LEMMA NumSums ==
  ASSUME NEW S
  PROVE  Num(S) = (CHOOSE g : Sums(g, S))[S]
  BY DEF Num, MapThenSumSet, MapThenFoldSet, Sums

(* Num and Bits are inverses of each other: a word is the set of its bits. *)
THEOREM WordIsItsBits ==
  /\ \A S \in SUBSET (0 .. XLEN - 1) : Num(S) \in Word /\ Bits(Num(S)) = S
  /\ \A x \in Word : Bits(x) \in SUBSET (0 .. XLEN - 1) /\ Num(Bits(x)) = x
<1> DEFINE wordOf(s) == CHOOSE x \in Word : Bits(x) = s
           first(s)  == CHOOSE i \in s : TRUE
<1>0. Word \subseteq Nat
  BY PowersOfWord, SMT DEF Word
<1>1. ASSUME NEW s \in SUBSET (0 .. XLEN - 1)
      PROVE  wordOf(s) \in Word /\ Bits(wordOf(s)) = s
  BY BitsSurjective
<1>2. ASSUME NEW s \in SUBSET (0 .. XLEN - 1), s # {}
      PROVE  /\ first(s) \in s
             /\ wordOf(s) = 2^first(s) + wordOf(s \ {first(s)})
             /\ wordOf(s \ {first(s)}) < wordOf(s)
  <2> DEFINE i == first(s)  x == wordOf(s)  y == wordOf(s \ {i})
  <2>1. i \in s
    BY <1>2
  <2>2. s \ {i} \in SUBSET (0 .. XLEN - 1) /\ i \in 0 .. XLEN - 1
    BY <2>1
  <2>3. x \in Word /\ Bits(x) = s /\ y \in Word /\ Bits(y) = s \ {i}
    BY <1>1, <2>2
  <2>4. 2^i \in Nat \ {0}
    BY <2>2, PowersOfWord, Zenon
  <2> HIDE DEF x, y, i
  <2>5. x - 2^i \in Word /\ Bits(x - 2^i) = Bits(x) \ {i}
    BY <2>1, <2>3, BitOut
  <2>6. x - 2^i = y
    BY <2>3, <2>5, BitsInjective
  <2>7. x \in Nat /\ y \in Nat
    BY <1>0, <2>3
  <2>8. x = 2^i + y /\ y < x
    BY <2>4, <2>6, <2>7, SMT
  <2> QED
    BY <2>1, <2>8 DEF x, y, i
<1> HIDE DEF wordOf, first
<1>3. ASSUME NEW S \in SUBSET (0 .. XLEN - 1)
      PROVE  Num(S) = wordOf(S)
  <2> DEFINE h == [s \in SUBSET S |-> wordOf(s)]
  <2>1. \A s \in SUBSET S : s \in SUBSET (0 .. XLEN - 1) /\ s \ {first(s)} \in SUBSET S
    OBVIOUS
  <2>2. wordOf({}) = 0
    <3>1. wordOf({}) \in Word /\ Bits(wordOf({})) = {}
      BY <1>1
    <3> QED
      BY <3>1, NoBits
  <2>3. Sums(h, S)
    <3>1. ASSUME NEW s \in SUBSET S
          PROVE  wordOf(s) = IF s = {} THEN 0 ELSE 2^first(s) + h[s \ {first(s)}]
      <4>1. CASE s = {}
        BY <2>2, <4>1, Zenon
      <4>2. CASE s # {}
        <5>1. wordOf(s) = 2^first(s) + wordOf(s \ {first(s)})
          BY <1>2, <2>1, <4>2
        <5>2. h[s \ {first(s)}] = wordOf(s \ {first(s)})
          BY <2>1
        <5> QED
          BY <4>2, <5>1, <5>2, Zenon
      <4> QED
        BY <4>1, <4>2
    <3>2. h = [s \in SUBSET S |-> IF s = {} THEN 0 ELSE 2^first(s) + h[s \ {first(s)}]]
      BY <3>1, Zenon
    <3> HIDE DEF h
    <3> QED
      BY <3>2, Zenon DEF Sums, first
  <2> DEFINE g == CHOOSE f : Sums(f, S)
  <2>4. Sums(g, S)
    <3> HIDE DEF h
    <3> QED
      BY <2>3
  <2> HIDE DEF g
  <2> DEFINE T == {n \in Nat : \E s \in SUBSET S : wordOf(s) = n /\ g[s] # wordOf(s)}
  <2>5. ASSUME T # {} PROVE FALSE
    <3>1. PICK n \in T : \A k \in T : n <= k
      <4> HIDE DEF T
      <4>1. T \subseteq Nat
        BY DEF T
      <4> QED
        BY <2>5, <4>1, Least
    <3>2. PICK s \in SUBSET S : wordOf(s) = n /\ g[s] # wordOf(s)
      BY <3>1
    <3>3. g[s] = IF s = {} THEN 0 ELSE 2^first(s) + g[s \ {first(s)}]
      BY <2>4, Zenon DEF Sums, first
    <3>4. s # {}
      BY <2>2, <3>2, <3>3, Zenon
    <3>5. /\ wordOf(s) = 2^first(s) + wordOf(s \ {first(s)})
          /\ wordOf(s \ {first(s)}) < wordOf(s)
          /\ wordOf(s) \in Word /\ wordOf(s \ {first(s)}) \in Word
      BY <1>1, <1>2, <2>1, <3>4
    <3>6. g[s \ {first(s)}] # wordOf(s \ {first(s)})
      BY <3>2, <3>3, <3>4, <3>5, Zenon
    <3>7. wordOf(s \ {first(s)}) \in T
      <4>1. s \ {first(s)} \in SUBSET S /\ wordOf(s \ {first(s)}) \in Nat
        BY <1>0, <2>1, <3>5
      <4> QED
        BY <3>6, <4>1, Zenon
    <3>8. n <= wordOf(s \ {first(s)})
      BY <3>1, <3>7
    <3> DEFINE u == wordOf(s)  v == wordOf(s \ {first(s)})
    <3>9. v < u /\ u \in Nat /\ v \in Nat /\ u <= v
      BY <1>0, <3>2, <3>5, <3>8, Zenon
    <3> HIDE DEF u, v
    <3> QED
      BY <3>9, SMT
  <2>6. S \in SUBSET S /\ wordOf(S) \in Nat
    BY <1>0, <1>1
  <2>7. g[S] = wordOf(S)
    BY <2>5, <2>6, Zenon
  <2>8. Num(S) = g[S]
    BY NumSums, Zenon DEF g
  <2> QED
    BY <2>7, <2>8, Zenon
<1>4. ASSUME NEW x \in Word
      PROVE  Bits(x) \in SUBSET (0 .. XLEN - 1) /\ Num(Bits(x)) = x
  <2>1. Bits(x) \in SUBSET (0 .. XLEN - 1)
    BY Zenon DEF Bits
  <2>2. Num(Bits(x)) \in Word /\ Bits(Num(Bits(x))) = Bits(x)
    BY <1>1, <1>3, <2>1, Zenon
  <2> QED
    BY <2>1, <2>2, BitsInjective, Zenon
<1> QED
  BY <1>1, <1>3, <1>4, Zenon


(* The number of words, and of those without a sign. *)
LEMMA Halves ==
  /\ 2^(XLEN - 1) \in Nat \ {0}
  /\ 2^XLEN = 2 * 2^(XLEN - 1)
<1>1. CASE ByteBits = 1
  BY <1>1, SMT DEF XLEN
<1>2. CASE ByteBits = 2
  BY <1>2, SMT DEF XLEN
<1>3. CASE ByteBits = 4
  BY <1>3, SMT DEF XLEN
<1>4. CASE ByteBits = 8
  BY <1>4, SMT DEF XLEN
<1> QED
  BY ByteAssumption, <1>1, <1>2, <1>3, <1>4, Zenon
-----------------------------------------------------------------------------
(* The adder, which subtracts by adding the complement and one. *)
Carry(x, y) == x + Not(y) + 1 >= 2^XLEN

LEMMA Adder ==
  ASSUME NEW x \in Word, NEW y \in Word
  PROVE  /\ x + y + 0 = x + y
         /\ Wrap(x + Not(y) + 1) = Wrap(x - y)
         /\ Carry(x, y) <=> ~(x < y)
<1> DEFINE M == 2^XLEN
<1>1. M \in Nat \ {0}
  BY Halves, SMT
<1>2. x \in 0 .. M - 1 /\ y \in 0 .. M - 1 /\ Not(y) = M - 1 - y
  BY Zenon DEF Word, Not
<1>3. Carry(x, y) = (x + (M - 1 - y) + 1 >= M)
  BY <1>2, Zenon DEF Carry
<1> HIDE DEF M
<1>4. x + y + 0 = x + y /\ x - y \in Int /\ x + (M - 1 - y) + 1 = (x - y) + 1 * M
  BY <1>1, <1>2, SMT
<1>5. ((x - y) + 1 * M) % M = (x - y) % M
  BY <1>1, <1>4, 1 \in Int, ModShift, Zenon
<1>6. x + (M - 1 - y) + 1 >= M <=> ~(x < y)
  BY <1>1, <1>2, SMT
<1>7. Wrap(x + Not(y) + 1) = Wrap(x - y)
  BY <1>2, <1>4, <1>5, Zenon DEF Wrap, M
<1> QED
  BY <1>3, <1>4, <1>6, <1>7, Zenon

(* With the same signs, the carry and the order of numbers are opposites. *)
LEMMA Signs ==
  ASSUME NEW x \in Word, NEW y \in Word
  PROVE  ((Carry(x, y) # SignOf(x)) # SignOf(y)) <=> ~(((x < y) # SignOf(x)) # SignOf(y))
<1>1. /\ 2^(XLEN - 1) \in Nat \ {0} /\ 2^XLEN = 2 * 2^(XLEN - 1)
      /\ x \in 0 .. 2^XLEN - 1 /\ y \in 0 .. 2^XLEN - 1
  BY Halves, Zenon DEF Word
<1> QED
  BY <1>1, SMT DEF Carry, SignOf, Not

(* Addition, subtraction and the four comparisons: the carry and the signs *)
(* of the operands order words, signed and unsigned, as compute does.      *)
THEOREM AdderIsExact ==
  ASSUME NEW x \in Word, NEW y \in Word,
         NEW op \in {"add", "sub", "lt", "ltu", "ge", "geu"}
  PROVE  ALUcompute(x, y, op) = compute(x, y, op)
<1>1. CASE op = "add"
  BY <1>1, Adder, Zenon DEF ALUcompute, compute, Bit
<1>2. CASE op = "sub"
  BY <1>2, Adder, Zenon DEF ALUcompute, compute, Bit
<1>3. CASE op = "ltu"
  BY <1>3, Adder, Zenon DEF ALUcompute, compute, Bit, Carry
<1>4. CASE op = "geu"
  BY <1>4, Adder, Zenon DEF ALUcompute, compute, Bit, Carry
<1> DEFINE slt == ((x < y) # SignOf(x)) # SignOf(y)
           ge  == (Carry(x, y) # SignOf(x)) # SignOf(y)
<1>0. ge <=> ~slt
  BY Signs, Zenon
<1>5. CASE op = "lt"
  <2>1. (~ge => ALUcompute(x, y, op) = 1) /\ (ge => ALUcompute(x, y, op) = 0)
    BY <1>5, Zenon DEF ALUcompute, Bit, Carry
  <2>2. (slt => compute(x, y, op) = 1) /\ (~slt => compute(x, y, op) = 0)
    BY <1>5, Zenon DEF compute, Bit
  <2> HIDE DEF ge, slt
  <2> QED
    BY <1>0, <2>1, <2>2, Zenon
<1>6. CASE op = "ge"
  <2>1. (ge => ALUcompute(x, y, op) = 1) /\ (~ge => ALUcompute(x, y, op) = 0)
    BY <1>6, Zenon DEF ALUcompute, Bit, Carry
  <2>2. (~slt => compute(x, y, op) = 1) /\ (slt => compute(x, y, op) = 0)
    BY <1>6, Zenon DEF compute, Bit
  <2> HIDE DEF ge, slt
  <2> QED
    BY <1>0, <2>1, <2>2, Zenon
<1> QED
  BY <1>1, <1>2, <1>3, <1>4, <1>5, <1>6, Zenon

-----------------------------------------------------------------------------
(* Powers of two grow. *)
LEMMA PowerOrder ==
  ASSUME NEW a \in 0 .. 32, NEW b \in 0 .. 32
  PROVE  /\ a < b => 2^a < 2^b
         /\ 2^a < 2^b => a < b
<1>1. ASSUME NEW i \in 0 .. 32, NEW j \in 0 .. 32, i < j PROVE 2^i < 2^j
  <2>1. /\ j - i - 1 \in 0 .. 31 /\ j - i - 1 \in 0 .. 32 /\ j - i \in 0 .. 32
        /\ i + (j - i) = j /\ i + (j - i) <= 32 /\ (j - i - 1) + 1 = j - i
    BY <1>1, SMT
  <2>2. 2^j = 2^i * 2^(j - i) /\ 2^(j - i) = 2 * 2^(j - i - 1)
    BY <2>1, Powers, PowerSum, Zenon
  <2>3. 2^i \in Nat \ {0} /\ 2^(j - i - 1) \in Nat \ {0}
    BY <2>1, Powers, Zenon
  <2> DEFINE A == 2^i  B == 2^(j - i - 1)
  <2>4. 2^j = A * (2 * B)
    BY <2>2, Zenon
  <2> HIDE DEF A, B
  <2>5. A < A * (2 * B)
    BY <2>3, SMT DEF A, B
  <2> QED
    BY <2>4, <2>5, Zenon DEF A
<1>2. 2^a \in Nat /\ 2^b \in Nat
  BY Powers, Zenon
<1>3. a < b \/ a = b \/ b < a
  BY SMT
<1>4. ASSUME 2^a < 2^b, ~(a < b) PROVE FALSE
  <2>1. a = b \/ 2^b < 2^a
    BY <1>1, <1>3, <1>4
  <2> DEFINE A == 2^a  B == 2^b
  <2>2. A \in Nat /\ B \in Nat /\ A < B /\ (A = B \/ B < A)
    BY <1>2, <1>4, <2>1, Zenon
  <2> HIDE DEF A, B
  <2> QED
    BY <2>2, SMT
<1> QED
  BY <1>1, <1>4

(* The shifters have a stage for each bit of a shift amount. *)
LEMMA ShiftStages ==
  \E n \in 2 .. 5 : XLEN = 2^n /\ Stages = 0 .. n - 1 /\ Cardinality(Stages) = n
<1>1. PICK n \in 2 .. 5 : XLEN = 2^n
  <2>1. 4 = 2^2 /\ 8 = 2^3 /\ 16 = 2^4 /\ 32 = 2^5
    BY SMT
  <2>2. XLEN \in {4, 8, 16, 32}
    BY ByteAssumption, SMT DEF XLEN
  <2>3. 2 \in 2 .. 5 /\ 3 \in 2 .. 5 /\ 4 \in 2 .. 5 /\ 5 \in 2 .. 5
    BY SMT
  <2> QED
    BY <2>1, <2>2, <2>3, Zenon
<1>2. Stages = 0 .. n - 1
  <2>1. \A k \in 0 .. XLEN : 2^k < 2^n <=> k < n
    <3>1. ASSUME NEW k \in 0 .. XLEN PROVE 2^k < 2^n <=> k < n
      <4>1. k \in 0 .. 32 /\ n \in 0 .. 32
        BY Width, SMT
      <4> QED
        BY <4>1, PowerOrder, Zenon
    <3> QED
      BY <3>1
  <2>2. \A k \in Int : (k \in 0 .. XLEN /\ k < n) <=> k \in 0 .. n - 1
    <3>1. n \in Int /\ n <= XLEN + 1
      <4>1. XLEN \in {4, 8, 16, 32}
        BY ByteAssumption, SMT DEF XLEN
      <4>2. XLEN = 4 => n < 3
        <5>1. 4 < 2^3 /\ 3 \in 0 .. 32 /\ n \in 0 .. 32
          BY SMT
        <5> QED
          BY <1>1, <5>1, PowerOrder, Zenon
      <4> QED
        BY <4>1, <4>2, SMT
    <3> QED
      BY <3>1, Width, SMT
  <2>3. \A k \in 0 .. XLEN : k \in Int
    BY SMT
  <2>4. \A k \in 0 .. n - 1 : k \in Int
    BY SMT
  <2> QED
    BY <1>1, <2>1, <2>2, <2>3, <2>4, Zenon DEF Stages
<1>3. Cardinality(0 .. n - 1) = n
  <2>1. 0 \in Int /\ n - 1 \in Int /\ ~(0 > n - 1) /\ n - 1 - 0 + 1 = n
    BY SMT
  <2> QED
    BY <2>1, FS_Interval, SMT
<1> QED
  BY <1>1, <1>2, <1>3
-----------------------------------------------------------------------------
(* Bits of a word that is cut off, and of a word shifted to either side. *)
LEMMA BitOfMod ==
  ASSUME NEW z \in Nat, NEW n \in 0 .. 32, NEW j \in 0 .. 31, j < n
  PROVE  isSet(z % 2^n, j) <=> isSet(z, j)
<1> DEFINE M == 2^n  P == 2^j  Q == 2^(n - j - 1)
<1>1. M \in Nat \ {0} /\ P \in Nat \ {0} /\ Q \in Nat \ {0} /\ M = P * (2 * Q)
  <2>1. /\ n - j - 1 \in 0 .. 31 /\ n - j - 1 \in 0 .. 32 /\ n - j \in 0 .. 32 /\ j \in 0 .. 32
        /\ j + (n - j) = n /\ j + (n - j) <= 32 /\ (n - j - 1) + 1 = n - j
    BY SMT
  <2>2. 2^n = 2^j * 2^(n - j) /\ 2^(n - j) = 2 * 2^(n - j - 1)
    BY <2>1, Powers, PowerSum, Zenon
  <2> QED
    BY <2>1, <2>2, Powers, Zenon
<1> HIDE DEF M, P, Q
<1> DEFINE q == z \div M  r == z % M
<1>2. q \in Int /\ r \in Int /\ z = M * q + r
  <2>1. q \in Int /\ r \in 0 .. M - 1 /\ z = M * q + r
    BY <1>1, DivMod, z \in Int, Zenon
  <2> HIDE DEF q, r
  <2> QED
    BY <1>1, <2>1, SMT
<1> HIDE DEF q, r
<1>3. (q * Q) \in Int /\ (q * (2 * Q)) \in Int /\ q * (2 * Q) = (q * Q) * 2
      /\ z = r + (q * (2 * Q)) * P
  BY <1>1, <1>2, SMT
<1>4. z \div P = (r \div P) + (q * Q) * 2
  <2>1. (r + (q * (2 * Q)) * P) \div P = (r \div P) + q * (2 * Q)
    BY <1>1, <1>2, <1>3, DivShift, Zenon
  <2> QED
    BY <1>3, <2>1, Zenon
<1>5. r \div P \in Int
  BY <1>1, <1>2, DivMod, Zenon
<1> DEFINE y == r \div P  e == q * Q
<1> HIDE DEF y, e
<1>6. (y + e * 2) % 2 = y % 2
  BY <1>3, <1>5, SMT DEF y, e
<1>7. (z \div P) % 2 = (r \div P) % 2
  BY <1>4, <1>6, Zenon DEF y, e
<1> QED
  BY <1>7, Zenon DEF isSet, r, M, P

LEMMA BitOfShifted ==
  ASSUME NEW x \in Nat, NEW s \in 0 .. 31, NEW j \in 0 .. 31
  PROVE  isSet(x * 2^s, j) <=> (s <= j /\ isSet(x, j - s))
<1> DEFINE S == 2^s  P == 2^j
<1>0. s \in 0 .. 32 /\ j \in 0 .. 32
  BY SMT
<1>1. S \in Nat \ {0} /\ P \in Nat \ {0}
  BY <1>0, Powers, Zenon
<1>2. CASE s <= j
  <2>1. j - s \in 0 .. 32 /\ s + (j - s) = j /\ s + (j - s) <= 32
    BY <1>2, SMT
  <2>2. 2^(j - s) \in Nat \ {0} /\ P = S * 2^(j - s)
    BY <1>0, <2>1, Powers, PowerSum, Zenon
  <2> DEFINE Q == 2^(j - s)
  <2>3. (x * S) \div P = ((x * S) \div S) \div Q
    <3> HIDE DEF S, P, Q
    <3>1. x * S \in Int
      BY <1>1, SMT
    <3> QED
      BY <1>1, <2>2, <3>1, DivDiv, Zenon DEF Q
  <2>4. (x * S) \div S = x
    <3> HIDE DEF S
    <3>1. x * S \in Int /\ x \in Int /\ 0 \in Int /\ x * S = x * S + 0 /\ 0 <= 0 /\ 0 < S
      BY <1>1, SMT
    <3> QED
      BY <1>1, <3>1, DivUnique, Zenon
  <2> QED
    BY <1>2, <2>3, <2>4, Zenon DEF isSet
<1>3. CASE ~(s <= j)
  <2>1. /\ s - j - 1 \in 0 .. 31 /\ s - j - 1 \in 0 .. 32 /\ s - j \in 0 .. 32
        /\ j + (s - j) = s /\ j + (s - j) <= 32 /\ (s - j - 1) + 1 = s - j
    BY <1>3, SMT
  <2> DEFINE Q == 2^(s - j - 1)
  <2>2. Q \in Nat \ {0} /\ S = P * (2 * Q)
    <3>1. 2^s = 2^j * 2^(s - j) /\ 2^(s - j) = 2 * 2^(s - j - 1)
      BY <1>0, <2>1, Powers, PowerSum, Zenon
    <3> QED
      BY <2>1, <3>1, Powers, Zenon
  <2> HIDE DEF S, P, Q
  <2>3. x * Q \in Int /\ (x * Q) * 2 \in Int /\ x * S = ((x * Q) * 2) * P + 0 /\ x * S \in Int
        /\ 0 < P /\ 0 <= 0 /\ 0 \in Int
    BY <1>1, <2>2, SMT
  <2>4. (x * S) \div P = (x * Q) * 2
    BY <1>1, <2>3, DivUnique, Zenon
  <2> DEFINE e == x * Q
  <2> HIDE DEF e
  <2>5. ~((e * 2) % 2 = 1)
    BY <2>3, SMT DEF e
  <2> QED
    BY <1>3, <2>4, <2>5, Zenon DEF isSet, e, S, P
<1> QED
  BY <1>2, <1>3

LEMMA BitOfQuotient ==
  ASSUME NEW x \in Nat, NEW s \in 0 .. 31, NEW j \in 0 .. 31, s + j <= 31
  PROVE  isSet(x \div 2^s, j) <=> isSet(x, s + j)
<1>1. s \in 0 .. 32 /\ j \in 0 .. 32 /\ s + j <= 32
  BY SMT
<1>2. 2^s \in Nat \ {0} /\ 2^j \in Nat \ {0} /\ 2^(s + j) = 2^s * 2^j
  BY <1>1, Powers, PowerSum, Zenon
<1>3. (x \div 2^s) \div 2^j = x \div (2^s * 2^j)
  BY <1>2, DivDiv, x \in Int, Zenon
<1> QED
  BY <1>2, <1>3, Zenon DEF isSet

LEMMA NoBitAbove ==
  ASSUME NEW x \in Word, NEW i \in 0 .. 31, XLEN <= i
  PROVE  ~isSet(x, i)
<1>1. x \in Nat /\ x < 2^XLEN
  BY PowersOfWord, SMT DEF Word
<1>2. 2^i \in Nat \ {0} /\ (2^XLEN < 2^i \/ XLEN = i)
  <2>1. i \in 0 .. 32 /\ XLEN \in 0 .. 32 /\ (XLEN < i \/ XLEN = i)
    BY Width, SMT
  <2> QED
    BY <2>1, Powers, PowerOrder, Zenon
<1> DEFINE P == 2^i  M == 2^XLEN
<1>3. P \in Nat \ {0} /\ (M < P \/ M = P) /\ M \in Nat /\ x < M
  BY <1>1, <1>2, PowersOfWord, Zenon
<1> HIDE DEF P, M
<1>4. x \div P = 0
  BY <1>1, <1>3, SMT
<1>5. ~((x \div P) % 2 = 1)
  BY <1>4, SMT
<1> QED
  BY <1>5, Zenon DEF isSet, P

(* The sets of bits that the shifters are about. *)
Up(B, s)   == {i + s : i \in {j \in B : j + s < XLEN}}
Down(B, s) == {i - s : i \in {j \in B : j >= s}}
SignFill(s)    == XLEN - s .. XLEN - 1

LEMMA BitsUp ==
  ASSUME NEW x \in Word, NEW s \in 0 .. XLEN - 1
  PROVE  /\ Wrap(x * 2^s) \in Word
         /\ Bits(Wrap(x * 2^s)) = Up(Bits(x), s)
<1>0. x \in Nat /\ s \in 0 .. 31 /\ s \in 0 .. 32 /\ XLEN \in 0 .. 32
  BY PowersOfWord, Width, SMT DEF Word
<1>1. 2^s \in Nat \ {0} /\ 2^XLEN \in Nat \ {0}
  BY <1>0, Powers, Zenon
<1>2. x * 2^s \in Nat
  BY <1>0, <1>1, SMT
<1>3. Wrap(x * 2^s) \in Word
  <2> DEFINE z == x * 2^s  M == 2^XLEN
  <2> HIDE DEF z, M
  <2>1. z % M \in 0 .. M - 1
    BY <1>1, <1>2, SMT DEF z, M
  <2> QED
    BY <2>1, Zenon DEF Wrap, Word, z, M
<1>4. ASSUME NEW j \in 0 .. XLEN - 1
      PROVE  isSet(Wrap(x * 2^s), j) <=> j \in Up(Bits(x), s)
  <2>1. j \in 0 .. 31 /\ j < XLEN /\ j \in Int /\ s \in Int
    BY Width, SMT
  <2>2. isSet(Wrap(x * 2^s), j) <=> isSet(x * 2^s, j)
    BY <1>0, <1>2, <2>1, BitOfMod, Zenon DEF Wrap
  <2>3. isSet(x * 2^s, j) <=> (s <= j /\ isSet(x, j - s))
    BY <1>0, <2>1, BitOfShifted, Zenon
  <2>4. \A i \in 0 .. XLEN - 1 : i + s = j <=> i = j - s
    BY <2>1, Width, SMT
  <2>5. s <= j <=> j - s \in 0 .. XLEN - 1
    BY <2>1, Width, SMT
  <2> QED
    BY <2>1, <2>2, <2>3, <2>4, <2>5, Zenon DEF Up, Bits
<1>5. Up(Bits(x), s) \subseteq 0 .. XLEN - 1
  <2>1. \A i \in 0 .. XLEN - 1 : i + s < XLEN => i + s \in 0 .. XLEN - 1
    BY Width, SMT
  <2> QED
    BY <2>1, Zenon DEF Up, Bits
<1>6. Bits(Wrap(x * 2^s)) = {i \in 0 .. XLEN - 1 : isSet(Wrap(x * 2^s), i)}
  BY Zenon DEF Bits
<1> QED
  BY <1>3, <1>4, <1>5, <1>6, Zenon

LEMMA BitsDown ==
  ASSUME NEW x \in Word, NEW s \in 0 .. XLEN - 1
  PROVE  /\ x \div 2^s \in Word
         /\ Bits(x \div 2^s) = Down(Bits(x), s)
<1>0. x \in Nat /\ s \in 0 .. 31 /\ s \in 0 .. 32 /\ XLEN \in 0 .. 32
  BY PowersOfWord, Width, SMT DEF Word
<1>1. 2^s \in Nat \ {0} /\ 2^XLEN \in Nat \ {0}
  BY <1>0, Powers, Zenon
<1>3. x \div 2^s \in Word
  <2> DEFINE P == 2^s  M == 2^XLEN
  <2>1. x \in 0 .. M - 1
    BY Zenon DEF Word
  <2> HIDE DEF P, M
  <2>2. x \div P \in 0 .. M - 1
    BY <1>0, <1>1, <2>1, SMT DEF P, M
  <2> QED
    BY <2>2, Zenon DEF Word, P, M
<1>4. ASSUME NEW j \in 0 .. XLEN - 1
      PROVE  isSet(x \div 2^s, j) <=> j \in Down(Bits(x), s)
  <2>1. j \in 0 .. 31 /\ j \in Int /\ s \in Int
    BY Width, SMT
  <2>2. \A i \in 0 .. XLEN - 1 : i - s = j <=> i = s + j
    BY <2>1, Width, SMT
  <2>3. s + j >= s
    BY <2>1, SMT
  <2>4. CASE s + j <= XLEN - 1
    <3>1. s + j <= 31 /\ s + j \in 0 .. XLEN - 1
      BY <2>1, <2>4, Width, SMT
    <3>2. isSet(x \div 2^s, j) <=> isSet(x, s + j)
      BY <1>0, <2>1, <3>1, BitOfQuotient, Zenon
    <3> QED
      BY <2>2, <2>3, <3>1, <3>2, Zenon DEF Down, Bits
  <2>5. CASE ~(s + j <= XLEN - 1)
    <3>1. s + j \notin 0 .. XLEN - 1
      BY <2>5, SMT
    <3>2. j \notin Down(Bits(x), s)
      BY <2>2, <3>1, Zenon DEF Down, Bits
    <3> DEFINE t == XLEN - s
    <3>3. t \in 0 .. 32 /\ s + t <= 32 /\ s + t = XLEN /\ j \in 0 .. 32 /\ (t < j \/ t = j)
      BY <1>0, <2>1, <2>5, SMT
    <3>4. 2^XLEN = 2^s * 2^t /\ 2^t \in Nat \ {0} /\ 2^j \in Nat \ {0} /\ (2^t < 2^j \/ 2^t = 2^j)
      BY <1>0, <3>3, Powers, PowerSum, PowerOrder, Zenon
    <3>5. ~isSet(x \div 2^s, j)
      <4> DEFINE S == 2^s  T == 2^t  J == 2^j  M == 2^XLEN  q == x \div S
      <4>1. /\ x \in 0 .. M - 1 /\ M = S * T /\ (T < J \/ T = J)
            /\ S \in Nat \ {0} /\ T \in Nat \ {0} /\ J \in Nat \ {0}
        BY <1>1, <3>4, Zenon DEF Word
      <4>2. q \in Int /\ x % S \in 0 .. S - 1 /\ x = S * q + (x % S)
        <5> HIDE DEF S, T, J, M
        <5> QED
          BY <1>0, <4>1, DivMod, x \in Int, Zenon
      <4>3. x \in Nat /\ x <= S * T - 1
        BY <4>1, SMT
      <4> HIDE DEF S, T, J, M, q
      <4>4. q \in Nat /\ q < T
        <5>1. S * q <= x /\ x - S < S * q
          BY <4>1, <4>2, <4>3, SMT
        <5>2. q >= 0
          BY <4>1, <4>2, <4>3, <5>1, SMT
        <5>3. ~(q >= T)
          <6>1. SUFFICES ASSUME q >= T PROVE FALSE
            OBVIOUS
          <6>2. S * q >= S * T
            BY <4>1, <4>2, <6>1, SMT
          <6>3. S * T \in Int /\ S * q \in Int
            BY <4>1, <4>2, SMT
          <6> QED
            BY <4>3, <5>1, <6>2, <6>3, SMT
        <5> QED
          BY <4>1, <4>2, <5>2, <5>3, SMT
      <4>5. q \div J = 0
        BY <4>1, <4>4, SMT
      <4>6. ~((q \div J) % 2 = 1)
        BY <4>5, SMT
      <4> QED
        BY <4>6, Zenon DEF isSet, q, S, J
    <3> QED
      BY <3>2, <3>5
  <2> QED
    BY <2>4, <2>5
<1>5. Down(Bits(x), s) \subseteq 0 .. XLEN - 1
  <2>1. \A i \in 0 .. XLEN - 1 : i >= s => i - s \in 0 .. XLEN - 1
    BY Width, SMT
  <2> QED
    BY <2>1, Zenon DEF Down, Bits
<1>6. Bits(x \div 2^s) = {i \in 0 .. XLEN - 1 : isSet(x \div 2^s, i)}
  BY Zenon DEF Bits
<1> QED
  BY <1>3, <1>4, <1>5, <1>6, Zenon
-----------------------------------------------------------------------------
(* The barrel shifters.  After the stages below k the bits have moved by   *)
(* the low k bits of the shift amount, and the last stage leaves it all.   *)
LEMMA LowBits ==
  ASSUME NEW y \in Nat, NEW k \in 0 .. 31
  PROVE  /\ y % 2^k \in Nat /\ y % 2^k < 2^k
         /\ y % 2^(k + 1) = (y % 2^k) + (IF isSet(y, k) THEN 2^k ELSE 0)
<1> DEFINE P == 2^k  q == y \div P  r == y % P
<1>1. P \in Nat \ {0} /\ 2^(k + 1) = 2 * P
  <2>1. k \in 0 .. 32
    BY SMT
  <2> QED
    BY <2>1, Powers, Zenon
<1> HIDE DEF P
<1>2. q \in Int /\ r \in 0 .. P - 1 /\ y = P * q + r
  BY <1>1, DivMod, y \in Int, Zenon
<1> HIDE DEF q, r
<1>3. r \in Nat /\ r < P /\ q = 2 * (q \div 2) + (q % 2) /\ q % 2 \in {0, 1} /\ q \div 2 \in Int
  BY <1>1, <1>2, SMT
<1> DEFINE h == q \div 2  b == q % 2
<1> HIDE DEF h, b
<1>4. h \in Int /\ b \in {0, 1} /\ y = h * (2 * P) + (P * b + r) /\ P * b + r \in Int
  BY <1>1, <1>2, <1>3, SMT DEF h, b
<1>5. 0 <= P * b + r /\ P * b + r < 2 * P /\ 2 * P \in Nat \ {0}
  BY <1>1, <1>3, <1>4, SMT
<1>6. y % (2 * P) = P * b + r
  BY <1>4, <1>5, ModUnique, y \in Int, Zenon
<1>7. isSet(y, k) <=> b = 1
  BY Zenon DEF isSet, q, b, P
<1>8. P * b + r = r + (IF b = 1 THEN P ELSE 0)
  BY <1>1, <1>3, <1>4, SMT
<1> QED
  BY <1>1, <1>3, <1>6, <1>7, <1>8, Zenon DEF r, P

(* What shifting twice does. *)
LEMMA UpTwice ==
  ASSUME NEW B \in SUBSET (0 .. XLEN - 1), NEW s \in Nat, NEW t \in Nat
  PROVE  /\ Up(B, 0) = B /\ Up(B, s) \subseteq 0 .. XLEN - 1
         /\ {i + t : i \in {j \in Up(B, s) : j + t < XLEN}} = Up(B, s + t)
<1>0. XLEN \in Nat
  BY Width, SMT
<1>1. Up(B, 0) = B
  <2>1. \A i \in B : i + 0 = i /\ i + 0 < XLEN
    BY <1>0, SMT
  <2> QED
    BY <2>1, Zenon DEF Up
<1>2. \A i \in B : i + s < XLEN => i + s \in 0 .. XLEN - 1
  BY <1>0, SMT
<1>3. \A i \in B : (i + s) + t = i + (s + t) /\ (i + (s + t) < XLEN => i + s < XLEN)
  BY <1>0, SMT
<1> DEFINE L == {i + t : i \in {j \in Up(B, s) : j + t < XLEN}}
<1>4. ASSUME NEW v \in L PROVE v \in Up(B, s + t)
  <2>1. PICK w \in Up(B, s) : w + t < XLEN /\ v = w + t
    OBVIOUS
  <2>2. PICK i \in B : i + s < XLEN /\ w = i + s
    BY <2>1 DEF Up
  <2>3. i + (s + t) < XLEN /\ v = i + (s + t)
    BY <1>3, <2>1, <2>2, Zenon
  <2> QED
    BY <2>3, Zenon DEF Up
<1>5. ASSUME NEW v \in Up(B, s + t) PROVE v \in L
  <2>1. PICK i \in B : i + (s + t) < XLEN /\ v = i + (s + t)
    BY DEF Up
  <2>2. i + s < XLEN /\ ((i + s) + t < XLEN) /\ v = (i + s) + t
    BY <1>3, <2>1, Zenon
  <2>3. i + s \in Up(B, s)
    BY <2>2, Zenon DEF Up
  <2> QED
    BY <2>2, <2>3, Zenon
<1>6. L = Up(B, s + t)
  BY <1>4, <1>5, Zenon
<1> QED
  BY <1>1, <1>2, <1>6, Zenon DEF Up

LEMMA DownTwice ==
  ASSUME NEW B \in SUBSET (0 .. XLEN - 1), NEW s \in Nat, NEW t \in Nat
  PROVE  /\ Down(B, 0) = B /\ Down(B, s) \subseteq 0 .. XLEN - 1
         /\ {i - t : i \in {j \in Down(B, s) : j >= t}} = Down(B, s + t)
<1>0. XLEN \in Nat
  BY Width, SMT
<1>1. Down(B, 0) = B
  <2>1. \A i \in B : i - 0 = i /\ i >= 0
    BY <1>0, SMT
  <2> QED
    BY <2>1, Zenon DEF Down
<1>2. \A i \in B : i >= s => i - s \in 0 .. XLEN - 1
  BY <1>0, SMT
<1>3. \A i \in B : (i - s) - t = i - (s + t) /\ ((i >= s /\ i - s >= t) <=> i >= s + t)
  BY <1>0, SMT
<1> DEFINE L == {i - t : i \in {j \in Down(B, s) : j >= t}}
<1>4. ASSUME NEW v \in L PROVE v \in Down(B, s + t)
  <2>1. PICK w \in Down(B, s) : w >= t /\ v = w - t
    OBVIOUS
  <2>2. PICK i \in B : i >= s /\ w = i - s
    BY <2>1 DEF Down
  <2>3. i >= s + t /\ v = i - (s + t)
    BY <1>3, <2>1, <2>2, Zenon
  <2> QED
    BY <2>3, Zenon DEF Down
<1>5. ASSUME NEW v \in Down(B, s + t) PROVE v \in L
  <2>1. PICK i \in B : i >= s + t /\ v = i - (s + t)
    BY DEF Down
  <2>2. i >= s /\ (i - s) >= t /\ v = (i - s) - t
    BY <1>3, <2>1, Zenon
  <2>3. i - s \in Down(B, s)
    BY <2>2, Zenon DEF Down
  <2> QED
    BY <2>2, <2>3, Zenon
<1>6. L = Down(B, s + t)
  BY <1>4, <1>5, Zenon
<1> QED
  BY <1>1, <1>2, <1>6, Zenon DEF Down

LEMMA SignTwice ==
  ASSUME NEW s \in Nat, NEW t \in Nat, s + t < XLEN
  PROVE  /\ SignFill(0) = {} /\ SignFill(s) \subseteq 0 .. XLEN - 1
         /\ SignFill(t) \union {i - t : i \in {j \in SignFill(s) : j >= t}} = SignFill(s + t)
<1>0. XLEN \in Nat
  BY Width, SMT
<1>1. \A i \in Int : i \in SignFill(s) <=> XLEN - s <= i /\ i <= XLEN - 1
  BY <1>0, SMT DEF SignFill
<1>2. \A i \in Int : i \in SignFill(t) <=> XLEN - t <= i /\ i <= XLEN - 1
  BY <1>0, SMT DEF SignFill
<1>3. \A i \in Int : i \in SignFill(s + t) <=> XLEN - (s + t) <= i /\ i <= XLEN - 1
  BY <1>0, SMT DEF SignFill
<1>4. SignFill(s) \subseteq Int /\ SignFill(t) \subseteq Int /\ SignFill(s + t) \subseteq Int
  BY <1>0, SMT DEF SignFill
<1>5. SignFill(0) = {} /\ SignFill(s) \subseteq 0 .. XLEN - 1
  BY <1>0, SMT DEF SignFill
<1> DEFINE D == {i - t : i \in {j \in SignFill(s) : j >= t}}
<1>6. \A i \in Int : i \in D <=> XLEN - (s + t) <= i /\ i <= XLEN - 1 - t
  <2>1. ASSUME NEW i \in Int
        PROVE  i \in D <=> XLEN - (s + t) <= i /\ i <= XLEN - 1 - t
    <3>1. i + t \in Int /\ (i + t) - t = i
      BY SMT
    <3>2. \A j \in Int : j - t = i <=> j = i + t
      BY SMT
    <3>3. i \in D <=> (i + t \in SignFill(s) /\ i + t >= t)
      BY <1>4, <3>1, <3>2, Zenon
    <3>4. i + t \in SignFill(s) <=> XLEN - s <= i + t /\ i + t <= XLEN - 1
      BY <1>1, <3>1
    <3> HIDE DEF D
    <3> QED
      BY <1>0, <3>3, <3>4, SMT
  <2> QED
    BY <2>1
<1>7. D \subseteq Int
  <2>1. \A j \in Int : j - t \in Int
    BY SMT
  <2> QED
    BY <1>4, <2>1, Zenon
<1> HIDE DEF D
<1>8. \A i \in Int : (i \in SignFill(t) \/ i \in D) <=> i \in SignFill(s + t)
  <2>1. ASSUME NEW i \in Int PROVE (i \in SignFill(t) \/ i \in D) <=> i \in SignFill(s + t)
    BY <1>0, <1>2, <1>3, <1>6, SMT
  <2> QED
    BY <2>1
<1>9. SignFill(t) \union D = SignFill(s + t)
  BY <1>4, <1>7, <1>8, Zenon
<1> QED
  BY <1>5, <1>9, Zenon DEF D

(* The rows of a shifter, and why there is one and no more of each. *)
LeftRow(xL, x, y, n) ==
  xL = [k \in 0 .. n |->
          IF k = 0 THEN Bits(x)
          ELSE IF isSet(y, k - 1)
                 THEN {i + 2^(k - 1) : i \in {j \in xL[k - 1] : j + 2^(k - 1) < XLEN}}
                 ELSE xL[k - 1]]

LEMMA LeftStages ==
  ASSUME NEW x \in Word, NEW y \in Nat, NEW n \in 2 .. 5, y < 2^n,
         XLEN = 2^n, Cardinality(Stages) = n
  PROVE  sll(x, y) = Num(Up(Bits(x), y))
<1>0. Bits(x) \in SUBSET (0 .. XLEN - 1)
  BY Zenon DEF Bits
<1>1. \A k \in 1 .. n : /\ k - 1 \in 0 .. n /\ k - 1 \in 0 .. 31 /\ k # 0 /\ (k - 1) + 1 = k
                        /\ k - 1 \in 0 .. 32
  BY SMT
<1> DEFINE moved(k) == Up(Bits(x), y % 2^k)
           h == [k \in 0 .. n |-> moved(k)]
<1>2. moved(0) = Bits(x)
  <2>1. y % 2^0 = 0
    BY Powers, SMT
  <2>2. Up(Bits(x), 0) = Bits(x)
    BY <1>0, UpTwice, 0 \in Nat, Zenon
  <2> QED
    BY <2>1, <2>2, Zenon
<1>3. ASSUME NEW k \in 1 .. n
      PROVE  moved(k) = IF isSet(y, k - 1)
                 THEN {i + 2^(k - 1) : i \in {j \in moved(k - 1) : j + 2^(k - 1) < XLEN}}
                 ELSE moved(k - 1)
  <2>1. k - 1 \in 0 .. 31 /\ (k - 1) + 1 = k /\ k - 1 \in 0 .. 32
    BY <1>1
  <2>2. /\ y % 2^(k - 1) \in Nat
        /\ y % 2^k = (y % 2^(k - 1)) + (IF isSet(y, k - 1) THEN 2^(k - 1) ELSE 0)
    BY <2>1, LowBits, Zenon
  <2>3. 2^(k - 1) \in Nat
    BY <2>1, Powers, Zenon
  <2>4. CASE isSet(y, k - 1)
    <3>1. y % 2^k = (y % 2^(k - 1)) + 2^(k - 1)
      BY <2>2, <2>4, Zenon
    <3>2. {i + 2^(k - 1) : i \in {j \in Up(Bits(x), y % 2^(k - 1)) : j + 2^(k - 1) < XLEN}}
            = Up(Bits(x), (y % 2^(k - 1)) + 2^(k - 1))
      <4> DEFINE B == Bits(x)  r == y % 2^(k - 1)  P == 2^(k - 1)
      <4>1. r \in Nat /\ P \in Nat /\ B \in SUBSET (0 .. XLEN - 1)
        BY <1>0, <2>2, <2>3, Zenon
      <4> HIDE DEF B, r, P
      <4>2. {i + P : i \in {j \in Up(B, r) : j + P < XLEN}} = Up(B, r + P)
        BY <4>1, UpTwice
      <4> QED
        BY <4>2, Zenon DEF B, r, P
    <3> QED
      BY <2>4, <3>1, <3>2, Zenon
  <2>5. CASE ~isSet(y, k - 1)
    <3>1. y % 2^k = y % 2^(k - 1)
      <4> DEFINE r == y % 2^(k - 1)
      <4>1. y % 2^k = r + 0 /\ r \in Nat
        BY <2>2, <2>5, Zenon
      <4> HIDE DEF r
      <4>2. r + 0 = r
        BY <4>1, SMT
      <4> QED
        BY <4>1, <4>2, Zenon DEF r
    <3> QED
      BY <2>5, <3>1, Zenon
  <2> QED
    BY <2>4, <2>5
<1> HIDE DEF moved
<1>4. LeftRow(h, x, y, n)
  <2>1. ASSUME NEW k \in 0 .. n
        PROVE  moved(k) = IF k = 0 THEN Bits(x)
                 ELSE IF isSet(y, k - 1)
                   THEN {i + 2^(k - 1) : i \in {j \in h[k - 1] : j + 2^(k - 1) < XLEN}}
                   ELSE h[k - 1]
    <3>1. CASE k = 0
      BY <1>2, <3>1, Zenon
    <3>2. CASE k # 0
      <4>1. k \in 1 .. n
        BY <3>2, SMT
      <4>2. h[k - 1] = moved(k - 1)
        BY <1>1, <4>1, Zenon
      <4> HIDE DEF h
      <4> QED
        BY <1>3, <3>2, <4>1, <4>2, Zenon
    <3> QED
      BY <3>1, <3>2
  <2>2. h = [k \in 0 .. n |-> IF k = 0 THEN Bits(x)
                 ELSE IF isSet(y, k - 1)
                   THEN {i + 2^(k - 1) : i \in {j \in h[k - 1] : j + 2^(k - 1) < XLEN}}
                   ELSE h[k - 1]]
    BY <2>1, Zenon
  <2> HIDE DEF h
  <2> QED
    BY <2>2, Zenon DEF LeftRow
<1> DEFINE g == CHOOSE xL : LeftRow(xL, x, y, n)
<1>5. LeftRow(g, x, y, n)
  <2> HIDE DEF h
  <2> QED
    BY <1>4, Zenon
<1>6. sll(x, y) = Num(g[n])
  BY Zenon DEF sll, LeftRow
<1> HIDE DEF g
<1> DEFINE T == {k \in Nat : k <= n => g[k] = moved(k)}
<1>7. 0 \in T
  <2>1. 0 \in 0 .. n
    BY SMT
  <2>2. g[0] = Bits(x)
    BY <1>5, <2>1, Zenon DEF LeftRow
  <2> QED
    BY <1>2, <2>2, Zenon
<1>8. ASSUME NEW k \in Nat, k \in T PROVE k + 1 \in T
  <2>1. SUFFICES ASSUME k + 1 <= n PROVE g[k + 1] = moved(k + 1)
    BY SMT
  <2>2. k + 1 \in 1 .. n /\ k + 1 \in 0 .. n /\ (k + 1) - 1 = k /\ k <= n /\ k + 1 # 0
    BY <2>1, SMT
  <2>3. g[k + 1] = IF isSet(y, (k + 1) - 1)
                   THEN {i + 2^((k + 1) - 1) :
                           i \in {j \in g[(k + 1) - 1] : j + 2^((k + 1) - 1) < XLEN}}
                   ELSE g[(k + 1) - 1]
    BY <1>5, <2>2, Zenon DEF LeftRow
  <2>4. g[(k + 1) - 1] = moved((k + 1) - 1)
    BY <1>8, <2>2, Zenon
  <2> QED
    BY <1>3, <2>2, <2>3, <2>4, Zenon
<1>9. g[n] = moved(n)
  <2>1. n \in Nat /\ n <= n
    BY SMT
  <2> HIDE DEF T
  <2>2. \A k \in Nat : k \in T
    BY <1>7, <1>8, Induction
  <2> QED
    BY <2>1, <2>2, Zenon DEF T
<1>10. y % 2^n = y
  <2>1. 2^n \in Nat \ {0}
    <3>1. n \in 0 .. 32
      BY SMT
    <3> QED
      BY <3>1, Powers, Zenon
  <2> DEFINE M == 2^n
  <2>2. y < M
    OBVIOUS
  <2> HIDE DEF M
  <2>3. y % M = y
    BY <2>1, <2>2, SMT DEF M
  <2> QED
    BY <2>3, Zenon DEF M
<1> QED
  BY <1>6, <1>9, <1>10, Zenon DEF moved

RightRow(xR, x, y, sra, n) ==
  xR = [k \in 0 .. n |->
          IF k = 0 THEN Bits(x)
          ELSE IF isSet(y, k - 1)
                 THEN fill(x, sra, k - 1)
                        \union {i - 2^(k - 1) : i \in {j \in xR[k - 1] : j >= 2^(k - 1)}}
                 ELSE xR[k - 1]]

(* The bits a shift to the right brings in at the top. *)
Filled(x, sra, s) == IF sra /\ SignOf(x) THEN SignFill(s) ELSE {}

LEMMA RightStages ==
  ASSUME NEW x \in Word, NEW y \in Nat, NEW n \in 2 .. 5, y < 2^n, NEW sra \in BOOLEAN,
         XLEN = 2^n, Cardinality(Stages) = n
  PROVE  srx(x, y, sra) = Num(Filled(x, sra, y) \union Down(Bits(x), y))
<1>0. Bits(x) \in SUBSET (0 .. XLEN - 1)
  BY Zenon DEF Bits
<1>1. \A k \in 1 .. n : /\ k - 1 \in 0 .. n /\ k - 1 \in 0 .. 31 /\ k # 0 /\ (k - 1) + 1 = k
                        /\ k - 1 \in 0 .. 32 /\ k \in 0 .. 32 /\ n \in 0 .. 32 /\ (k < n \/ k = n)
  BY SMT
<1> DEFINE moved(k) == Filled(x, sra, y % 2^k) \union Down(Bits(x), y % 2^k)
           h == [k \in 0 .. n |-> moved(k)]
<1>2. moved(0) = Bits(x)
  <2>1. y % 2^0 = 0
    BY Powers, SMT
  <2>2. Down(Bits(x), 0) = Bits(x)
    BY <1>0, DownTwice, 0 \in Nat, Zenon
  <2>3. SignFill(0) = {}
    BY Width, SMT DEF SignFill
  <2> QED
    BY <2>1, <2>2, <2>3, Zenon DEF Filled
<1>3. ASSUME NEW k \in 1 .. n
      PROVE  moved(k) = IF isSet(y, k - 1)
                 THEN fill(x, sra, k - 1)
                        \union {i - 2^(k - 1) : i \in {j \in moved(k - 1) : j >= 2^(k - 1)}}
                 ELSE moved(k - 1)
  <2>1. k - 1 \in 0 .. 31 /\ (k - 1) + 1 = k /\ k - 1 \in 0 .. 32
    BY <1>1
  <2>2. /\ y % 2^(k - 1) \in Nat
        /\ y % 2^k = (y % 2^(k - 1)) + (IF isSet(y, k - 1) THEN 2^(k - 1) ELSE 0)
    BY <2>1, LowBits, Zenon
  <2>3. 2^(k - 1) \in Nat
    BY <2>1, Powers, Zenon
  <2> DEFINE r == y % 2^(k - 1)  P == 2^(k - 1)
  <2>4. CASE isSet(y, k - 1)
    <3>1. y % 2^k = r + P
      BY <2>2, <2>4, Zenon
    <3>2. {i - P : i \in {j \in Down(Bits(x), r) : j >= P}} = Down(Bits(x), r + P)
      <4> HIDE DEF r, P, moved
      <4>1. r \in Nat /\ P \in Nat
        BY <2>2, <2>3, Zenon DEF r, P
      <4> DEFINE B == Bits(x)
      <4>2. B \in SUBSET (0 .. XLEN - 1)
        BY <1>0
      <4> HIDE DEF B
      <4>3. {i - P : i \in {j \in Down(B, r) : j >= P}} = Down(B, r + P)
        BY <4>1, <4>2, DownTwice
      <4> QED
        BY <4>3, Zenon DEF B
    <3>3. CASE sra /\ SignOf(x)
      <4>1. r + P < XLEN
        <5>1. y \in Nat /\ 2^k \in Nat \ {0} /\ (2^k < 2^n \/ 2^k = 2^n)
          BY <1>1, Powers, PowerOrder, Zenon
        <5> DEFINE M == 2^k  N == 2^n
        <5>2. M \in Nat \ {0} /\ (M < N \/ M = N) /\ XLEN = N
          BY <5>1, Zenon
        <5> HIDE DEF M, N
        <5>3. y % M < XLEN
          BY <5>2, Width, SMT
        <5> QED
          BY <3>1, <5>3, Zenon DEF M
      <4>2. SignFill(P) \union {i - P : i \in {j \in SignFill(r) : j >= P}} = SignFill(r + P)
        BY <2>2, <2>3, <4>1, SignTwice, Zenon
      <4>3. fill(x, sra, k - 1) = SignFill(P)
        BY <3>3, Zenon DEF fill, SignFill
      <4>4. moved(k) = SignFill(r + P) \union Down(Bits(x), r + P)
        BY <3>1, <3>3, Zenon DEF Filled
      <4>5. moved(k - 1) = SignFill(r) \union Down(Bits(x), r)
        BY <3>3, Zenon DEF Filled
      <4> HIDE DEF P, r, moved
      <4>6. {i - P : i \in {j \in moved(k - 1) : j >= P}}
              = {i - P : i \in {j \in SignFill(r) : j >= P}}
                  \union {i - P : i \in {j \in Down(Bits(x), r) : j >= P}}
        <5> DEFINE A == SignFill(r)  B == Down(Bits(x), r)
        <5> HIDE DEF A, B
        <5>1. {i - P : i \in {j \in A \union B : j >= P}}
                = {i - P : i \in {j \in A : j >= P}} \union {i - P : i \in {j \in B : j >= P}}
          OBVIOUS
        <5> QED
          BY <4>5, <5>1, Zenon DEF A, B
      <4>7. fill(x, sra, k - 1) \union {i - P : i \in {j \in moved(k - 1) : j >= P}} = moved(k)
        BY <3>2, <4>2, <4>3, <4>4, <4>6, Zenon
      <4> QED
        BY <2>4, <4>7, Zenon DEF P
    <3>4. CASE ~(sra /\ SignOf(x))
      <4>1. moved(k) = Down(Bits(x), r + P) /\ moved(k - 1) = Down(Bits(x), r)
        BY <3>1, <3>4, Zenon DEF Filled
      <4>2. fill(x, sra, k - 1) = {}
        BY <3>4, Zenon DEF fill
      <4> HIDE DEF P, r, moved
      <4>3. fill(x, sra, k - 1) \union {i - P : i \in {j \in moved(k - 1) : j >= P}} = moved(k)
        BY <3>2, <4>1, <4>2, Zenon
      <4> QED
        BY <2>4, <4>3, Zenon DEF P
    <3> QED
      BY <3>3, <3>4
  <2>5. CASE ~isSet(y, k - 1)
    <3>1. y % 2^k = y % 2^(k - 1)
      <4>1. y % 2^k = r + 0 /\ r \in Nat
        BY <2>2, <2>5, Zenon
      <4> HIDE DEF r
      <4>2. r + 0 = r
        BY <4>1, SMT
      <4> QED
        BY <4>1, <4>2, Zenon DEF r
    <3> QED
      BY <2>5, <3>1, Zenon
  <2> QED
    BY <2>4, <2>5
<1> HIDE DEF moved
<1>4. RightRow(h, x, y, sra, n)
  <2>1. ASSUME NEW k \in 0 .. n
        PROVE  moved(k) = IF k = 0 THEN Bits(x)
                 ELSE IF isSet(y, k - 1)
                   THEN fill(x, sra, k - 1)
                          \union {i - 2^(k - 1) : i \in {j \in h[k - 1] : j >= 2^(k - 1)}}
                   ELSE h[k - 1]
    <3>1. CASE k = 0
      BY <1>2, <3>1, Zenon
    <3>2. CASE k # 0
      <4>1. k \in 1 .. n
        BY <3>2, SMT
      <4>2. h[k - 1] = moved(k - 1)
        BY <1>1, <4>1, Zenon
      <4> HIDE DEF h
      <4> QED
        BY <1>3, <3>2, <4>1, <4>2, Zenon
    <3> QED
      BY <3>1, <3>2
  <2>2. h = [k \in 0 .. n |-> IF k = 0 THEN Bits(x)
                 ELSE IF isSet(y, k - 1)
                   THEN fill(x, sra, k - 1)
                          \union {i - 2^(k - 1) : i \in {j \in h[k - 1] : j >= 2^(k - 1)}}
                   ELSE h[k - 1]]
    BY <2>1, Zenon
  <2> HIDE DEF h
  <2> QED
    BY <2>2, Zenon DEF RightRow
<1> DEFINE g == CHOOSE xR : RightRow(xR, x, y, sra, n)
<1>5. RightRow(g, x, y, sra, n)
  <2> HIDE DEF h
  <2> QED
    BY <1>4, Zenon
<1>6. srx(x, y, sra) = Num(g[n])
  BY Zenon DEF srx, RightRow
<1> HIDE DEF g
<1> DEFINE T == {k \in Nat : k <= n => g[k] = moved(k)}
<1>7. 0 \in T
  <2>1. 0 \in 0 .. n
    BY SMT
  <2>2. g[0] = Bits(x)
    BY <1>5, <2>1, Zenon DEF RightRow
  <2> QED
    BY <1>2, <2>2, Zenon
<1>8. ASSUME NEW k \in Nat, k \in T PROVE k + 1 \in T
  <2>1. SUFFICES ASSUME k + 1 <= n PROVE g[k + 1] = moved(k + 1)
    BY SMT
  <2>2. k + 1 \in 1 .. n /\ k + 1 \in 0 .. n /\ (k + 1) - 1 = k /\ k <= n /\ k + 1 # 0
    BY <2>1, SMT
  <2>3. g[k + 1] = IF isSet(y, (k + 1) - 1)
                   THEN fill(x, sra, (k + 1) - 1)
                          \union {i - 2^((k + 1) - 1) :
                                   i \in {j \in g[(k + 1) - 1] : j >= 2^((k + 1) - 1)}}
                   ELSE g[(k + 1) - 1]
    BY <1>5, <2>2, Zenon DEF RightRow
  <2>4. g[(k + 1) - 1] = moved((k + 1) - 1)
    BY <1>8, <2>2, Zenon
  <2> QED
    BY <1>3, <2>2, <2>3, <2>4, Zenon
<1>9. g[n] = moved(n)
  <2>1. n \in Nat /\ n <= n
    BY SMT
  <2> HIDE DEF T
  <2>2. \A k \in Nat : k \in T
    BY <1>7, <1>8, Induction
  <2> QED
    BY <2>1, <2>2, Zenon DEF T
<1>10. y % 2^n = y
  <2>1. 2^n \in Nat \ {0}
    <3>1. n \in 0 .. 32
      BY SMT
    <3> QED
      BY <3>1, Powers, Zenon
  <2> DEFINE M == 2^n
  <2>2. y < M
    OBVIOUS
  <2> HIDE DEF M
  <2>3. y % M = y
    BY <2>1, <2>2, SMT DEF M
  <2> QED
    BY <2>3, Zenon DEF M
<1> QED
  BY <1>6, <1>9, <1>10, Zenon DEF moved

LEMMA TopBit ==
  ASSUME NEW x \in Word
  PROVE  SignOf(x) <=> XLEN - 1 \in Bits(x)
<1> DEFINE P == 2^(XLEN - 1)
<1>1. XLEN - 1 \in 0 .. 31 /\ (XLEN - 1) + 1 = XLEN /\ XLEN - 1 \in 0 .. XLEN - 1
  BY Width, SMT
<1>2. P \in Nat \ {0} /\ 2^XLEN = 2 * P
  BY <1>1, Powers, PowersOfWord, Zenon
<1>3. x \in 0 .. 2 * P - 1
  BY <1>2, Zenon DEF Word
<1>4. SignOf(x) <=> x >= P
  BY Zenon DEF SignOf
<1>5. XLEN - 1 \in Bits(x) <=> (x \div P) % 2 = 1
  BY <1>1, Zenon DEF Bits, isSet
<1> HIDE DEF P
<1>6. x >= P <=> (x \div P) % 2 = 1
  <2>1. x < P => x \div P = 0
    BY <1>2, <1>3, SMT
  <2>2. x >= P => x \div P = 1
    BY <1>2, <1>3, SMT
  <2>3. ~(0 % 2 = 1) /\ 1 % 2 = 1 /\ (x < P \/ x >= P) /\ ~(x < P /\ x >= P)
    BY <1>2, <1>3, SMT
  <2> QED
    BY <2>1, <2>2, <2>3, Zenon
<1> QED
  BY <1>4, <1>5, <1>6, Zenon

(* The barrel shifters of the core shift as the simulator does. *)
THEOREM ShiftersAreExact ==
  ASSUME NEW x \in Word, NEW y \in Word, NEW op \in ShiftOps
  PROVE  /\ ALUcompute(x, y, op) = compute(x, y, op)
         /\ compute(x, y, op) \in Word
<1> DEFINE s == y % XLEN
<1>1. s \in 0 .. XLEN - 1 /\ s \in Nat /\ s < XLEN
  <2>1. y \in Nat /\ XLEN \in Nat \ {0}
    BY PowersOfWord, Width, SMT DEF Word
  <2> QED
    BY <2>1, SMT
<1> HIDE DEF s
<1>2. PICK n \in 2 .. 5 : XLEN = 2^n /\ Cardinality(Stages) = n
  BY ShiftStages
<1>3. s < 2^n
  BY <1>1, <1>2
<1>4. Up(Bits(x), s) = Bits(Wrap(x * 2^s)) /\ Wrap(x * 2^s) \in Word
  BY <1>1, BitsUp
<1>5. Down(Bits(x), s) = Bits(x \div 2^s) /\ x \div 2^s \in Word
  BY <1>1, BitsDown
<1>6. Bits(x \div 2^s) \in SUBSET (0 .. XLEN - 1)
  BY Zenon DEF Bits
<1>7. CASE op = "sll"
  <2>1. ALUcompute(x, y, op) = sll(x, s)
    BY <1>7, Zenon DEF ALUcompute, s
  <2>2. compute(x, y, op) = Wrap(x * 2^s)
    BY <1>7, Zenon DEF compute, s
  <2>3. sll(x, s) = Num(Up(Bits(x), s))
    BY <1>1, <1>2, <1>3, LeftStages
  <2> QED
    BY <1>4, <2>1, <2>2, <2>3, WordIsItsBits, Zenon
<1>8. CASE op = "srl"
  <2>1. ALUcompute(x, y, op) = srx(x, s, FALSE)
    BY <1>8, Zenon DEF ALUcompute, s
  <2>2. compute(x, y, op) = x \div 2^s
    BY <1>8, Zenon DEF compute, s
  <2>3. srx(x, s, FALSE) = Num(Filled(x, FALSE, s) \union Down(Bits(x), s))
    BY <1>1, <1>2, <1>3, FALSE \in BOOLEAN, RightStages
  <2>4. Filled(x, FALSE, s) \union Down(Bits(x), s) = Bits(x \div 2^s)
    BY <1>5, Zenon DEF Filled
  <2> QED
    BY <1>5, <2>1, <2>2, <2>3, <2>4, WordIsItsBits, Zenon
<1>9. CASE op = "sra"
  <2> DEFINE sign == IF SignOf(x) THEN {i \in 0 .. XLEN - 1 : i >= XLEN - 1 - s} ELSE {}
  <2>1. ALUcompute(x, y, op) = srx(x, s, TRUE)
    BY <1>9, Zenon DEF ALUcompute, s
  <2>2. compute(x, y, op) = Num(sign \union Bits(x \div 2^s))
    BY <1>9, Zenon DEF compute, s
  <2>3. srx(x, s, TRUE) = Num(Filled(x, TRUE, s) \union Down(Bits(x), s))
    BY <1>1, <1>2, <1>3, TRUE \in BOOLEAN, RightStages
  <2>4. ASSUME SignOf(x) PROVE ALUcompute(x, y, op) = compute(x, y, op)
    <3>1. XLEN - 1 \in Bits(x) /\ XLEN - 1 >= s
      <4>1. XLEN - 1 >= s
        BY <1>1, Width, SMT
      <4> QED
        BY <2>4, <4>1, TopBit
    <3>2. (XLEN - 1) - s \in Down(Bits(x), s)
      BY <3>1, Zenon DEF Down
    <3>3. {i \in 0 .. XLEN - 1 : i >= XLEN - 1 - s} = SignFill(s) \union {(XLEN - 1) - s}
      BY <1>1, Width, SMT DEF SignFill
    <3>4. sign \union Bits(x \div 2^s) = Filled(x, TRUE, s) \union Down(Bits(x), s)
      BY <1>5, <2>4, <3>2, <3>3, Zenon DEF Filled
    <3> QED
      BY <2>1, <2>2, <2>3, <3>4, Zenon
  <2>5. ASSUME ~SignOf(x) PROVE ALUcompute(x, y, op) = compute(x, y, op)
    <3>1. sign = {} /\ Filled(x, TRUE, s) = {}
      BY <2>5, Zenon DEF Filled
    <3> HIDE DEF sign
    <3>2. sign \union Bits(x \div 2^s) = Filled(x, TRUE, s) \union Down(Bits(x), s)
      BY <1>5, <3>1, Zenon
    <3> QED
      BY <2>1, <2>2, <2>3, <3>2, Zenon
  <2>6. sign \subseteq 0 .. XLEN - 1
    BY Zenon
  <2>7. compute(x, y, op) \in Word
    <3> HIDE DEF sign
    <3>1. sign \union Bits(x \div 2^s) \in SUBSET (0 .. XLEN - 1)
      BY <1>6, <2>6, Zenon
    <3> QED
      BY <2>2, <3>1, WordIsItsBits, Zenon
  <2> QED
    BY <2>4, <2>5, <2>7
<1> QED
  BY <1>7, <1>8, <1>9, Zenon DEF ShiftOps

-----------------------------------------------------------------------------
(* Bit by bit, and the two ALUs together. *)
LEMMA Logic ==
  ASSUME NEW x \in Word, NEW y \in Word
  PROVE  /\ And(x, y) \in Word /\ Or(x, y) \in Word /\ Xor(x, y) \in Word /\ Not(x) \in Word
         /\ Xor(x, y) = 0 <=> x = y
<1>1. Bits(x) \in SUBSET (0 .. XLEN - 1) /\ Bits(y) \in SUBSET (0 .. XLEN - 1)
  BY Zenon DEF Bits
<1> DEFINE D == (Bits(x) \ Bits(y)) \union (Bits(y) \ Bits(x))
<1>2. /\ Bits(x) \intersect Bits(y) \in SUBSET (0 .. XLEN - 1)
      /\ Bits(x) \union Bits(y) \in SUBSET (0 .. XLEN - 1)
      /\ D \in SUBSET (0 .. XLEN - 1)
  BY <1>1
<1>3. And(x, y) \in Word /\ Or(x, y) \in Word /\ Xor(x, y) \in Word
  BY <1>2, WordIsItsBits, Zenon DEF And, Or, Xor
<1>4. Not(x) \in Word
  <2> DEFINE M == 2^XLEN
  <2>1. M \in Nat \ {0} /\ x \in 0 .. M - 1
    BY PowersOfWord, Zenon DEF Word
  <2> HIDE DEF M
  <2>2. M - 1 - x \in 0 .. M - 1
    BY <2>1, SMT
  <2> QED
    BY <2>2, Zenon DEF Not, Word, M
<1>5. {} \in SUBSET (0 .. XLEN - 1)
  OBVIOUS
<1>6. 0 \in Word /\ Bits(0) = {}
  <2>1. PICK z \in Word : Bits(z) = {}
    BY <1>5, BitsSurjective
  <2> QED
    BY <2>1, NoBits
<1>7. Xor(x, y) = Num(D) /\ Bits(Num(D)) = D
  BY <1>2, WordIsItsBits, Zenon DEF Xor
<1>8. Xor(x, y) = 0 => x = y
  <2>1. SUFFICES ASSUME Xor(x, y) = 0 PROVE x = y
    OBVIOUS
  <2>2. D = {}
    BY <1>6, <1>7, <2>1, Zenon
  <2>3. Bits(x) = Bits(y)
    BY <2>2
  <2> QED
    BY <2>3, BitsInjective
<1>9. x = y => Xor(x, y) = 0
  <2>1. SUFFICES ASSUME x = y PROVE Xor(x, y) = 0
    OBVIOUS
  <2>2. D = {}
    BY <2>1
  <2>3. Num({}) = 0
    BY <1>6, WordIsItsBits, Zenon
  <2> QED
    BY <1>7, <2>2, <2>3, Zenon
<1> QED
  BY <1>3, <1>4, <1>8, <1>9

LEMMA BitIsWord ==
  ASSUME NEW b \in BOOLEAN
  PROVE  Bit(b) \in Word /\ 0 \in Word
<1> DEFINE M == 2^XLEN  P == 2^(XLEN - 1)
<1>1. P \in Nat \ {0} /\ M = 2 * P
  BY Halves, Zenon
<1> HIDE DEF M, P
<1>2. 0 \in 0 .. M - 1 /\ 1 \in 0 .. M - 1
  BY <1>1, SMT
<1> QED
  BY <1>2, Zenon DEF Bit, Word, M

LEMMA WrapIsWord ==
  ASSUME NEW n \in Int
  PROVE  Wrap(n) \in Word
<1> DEFINE M == 2^XLEN
<1>1. M \in Nat \ {0}
  BY PowersOfWord, Zenon
<1> HIDE DEF M
<1>2. n % M \in 0 .. M - 1
  BY <1>1, SMT
<1> QED
  BY <1>2, Zenon DEF Wrap, Word, M

(* The ALU of the core computes what the simulator's does, for any two     *)
(* words and every operation of the decoder.                               *)
THEOREM ALUsAreEqual ==
  ASSUME NEW x \in Word, NEW y \in Word, NEW op \in CompOps
  PROVE  ALUcompute(x, y, op) = compute(x, y, op)
<1>1. CASE op \in {"add", "sub", "lt", "ltu", "ge", "geu"}
  BY <1>1, AdderIsExact
<1>2. CASE op \in ShiftOps
  BY <1>2, ShiftersAreExact
<1>3. CASE op \in {"and", "or", "xor"}
  <2>1. ALUcompute(x, y, "and") = compute(x, y, "and")
    BY Zenon DEF ALUcompute, compute
  <2>2. ALUcompute(x, y, "or") = compute(x, y, "or")
    BY Zenon DEF ALUcompute, compute
  <2>3. ALUcompute(x, y, "xor") = compute(x, y, "xor")
    BY Zenon DEF ALUcompute, compute
  <2> QED
    BY <1>3, <2>1, <2>2, <2>3, Zenon
<1>4. CASE op \in {"eq", "ne"}
  <2>1. /\ ALUcompute(x, y, "eq") = Bit(Xor(x, y) = 0)
        /\ ALUcompute(x, y, "ne") = Bit(~(Xor(x, y) = 0))
    BY Zenon DEF ALUcompute, Bit
  <2>2. compute(x, y, "eq") = Bit(x = y) /\ compute(x, y, "ne") = Bit(x # y)
    BY Zenon DEF compute
  <2>3. Xor(x, y) = 0 <=> x = y
    BY Logic
  <2> QED
    BY <1>4, <2>1, <2>2, <2>3, Zenon DEF Bit
<1> QED
  BY <1>1, <1>2, <1>3, <1>4, Zenon DEF CompOps, ArithOps, ShiftOps, OrderOps

(* Whatever it is asked to do, the ALU of the core returns a word. *)
LEMMA ALUIsWord ==
  ASSUME NEW x \in Word, NEW y \in Word, NEW op
  PROVE  ALUcompute(x, y, op) \in Word
<1>0. x \in Int /\ y \in Int /\ Not(y) \in Int
  <2>1. \A z \in Word : z \in Int
    BY PowersOfWord, SMT DEF Word
  <2> QED
    BY <2>1, Logic
<1>1. CASE op \in {"add", "sub"}
  <2> DEFINE sub == op \in {"sub", "ltu", "geu", "lt", "ge"}
             as64 == x + (IF sub THEN Not(y) ELSE y) + Bit(sub)
  <2>1. ALUcompute(x, y, op) = Wrap(as64)
    BY <1>1, Zenon DEF ALUcompute
  <2>2. as64 \in Int
    BY <1>0, SMT DEF Bit
  <2> QED
    BY <2>1, <2>2, WrapIsWord, Zenon
<1>2. CASE op \in ShiftOps
  BY <1>2, ShiftersAreExact
<1>3. CASE op \in {"and", "or", "xor"}
  <2>1. CASE op = "and"
    BY <2>1, Logic, Zenon DEF ALUcompute
  <2>2. CASE op = "or"
    BY <2>2, Logic, Zenon DEF ALUcompute
  <2>3. CASE op = "xor"
    BY <2>3, Logic, Zenon DEF ALUcompute
  <2> QED
    BY <1>3, <2>1, <2>2, <2>3, Zenon
<1>4. CASE op \notin {"add", "sub", "and", "or", "xor"} /\ op \notin ShiftOps
  <2>1. \E b \in BOOLEAN : ALUcompute(x, y, op) = Bit(b)
    <3>1. op # "add" /\ op # "sub" /\ op # "and" /\ op # "or" /\ op # "xor" /\ op # "sll"
          /\ op # "srl" /\ op # "sra"
      BY <1>4, Zenon DEF ShiftOps
    <3> QED
      BY <3>1, Zenon DEF ALUcompute
  <2> QED
    BY <2>1, BitIsWord, Zenon
<1> QED
  BY <1>1, <1>2, <1>3, <1>4, Zenon

-----------------------------------------------------------------------------
(* The registers of Csr hold words, whatever an instruction, a trap or     *)
(* mret does to them.                                                      *)
CSRs == [CSR_RW -> Word]

LEMMA CsrBits ==
  /\ \A b \in {3, 7, 8, 11, 12} : b \in 0 .. XLEN - 1
  /\ 0 \in Word /\ 3 * 2^11 \in Word /\ 3 * 2^11 + 2^7 \in Word
  /\ 2^3 \in Word /\ 2^7 \in Word
  /\ 2^(XLEN - 1) + 7 \in Word /\ 2^(XLEN - 1) + 11 \in Word /\ 2^(XLEN - 2) + 2^8 \in Word
<1>1. XLEN = 16 \/ XLEN = 32
  BY ByteAssumption, WidthAssumption, SMT DEF XLEN
<1> DEFINE Q == 2^(XLEN - 2)  P == 2^(XLEN - 1)  M == 2^XLEN
<1>2. Q \in Nat \ {0} /\ P = 2 * Q /\ M = 2 * P
  <2>1. /\ XLEN - 2 \in 0 .. 31 /\ XLEN - 2 \in 0 .. 32 /\ XLEN - 1 \in 0 .. 31
        /\ (XLEN - 2) + 1 = XLEN - 1 /\ (XLEN - 1) + 1 = XLEN
    BY <1>1, SMT
  <2> QED
    BY <2>1, Powers, Zenon
<1>3. 2^14 < Q \/ 2^14 = Q
  <2>1. 14 \in 0 .. 32 /\ XLEN - 2 \in 0 .. 32 /\ (14 < XLEN - 2 \/ 14 = XLEN - 2)
    BY <1>1, SMT
  <2> QED
    BY <2>1, PowerOrder, Zenon
<1> DEFINE A == 2^11  B == 2^7  C == 2^3  D == 2^8
<1>4. 2^14 = 16384 /\ A = 2048 /\ B = 128 /\ C = 8 /\ D = 256
  BY SMT
<1> HIDE DEF P, Q, M, A, B, C, D
<1>5. /\ 0 \in 0 .. M - 1 /\ 3 * A \in 0 .. M - 1 /\ 3 * A + B \in 0 .. M - 1
      /\ C \in 0 .. M - 1 /\ B \in 0 .. M - 1
      /\ P + 7 \in 0 .. M - 1 /\ P + 11 \in 0 .. M - 1 /\ Q + D \in 0 .. M - 1
  BY <1>2, <1>3, <1>4, SMT
<1>6. Word = 0 .. M - 1
  BY Zenon DEF Word, M
<1>7. \A b \in {3, 7, 8, 11, 12} : b \in 0 .. XLEN - 1
  BY <1>1, SMT
<1> QED
  BY <1>5, <1>6, <1>7, Zenon DEF P, Q, A, B, C, D

LEMMA NumIsWord ==
  ASSUME NEW S, S \subseteq {3, 7, 8, 11, 12} \/ S \subseteq 0 .. XLEN - 1
  PROVE  Num(S) \in Word
<1>1. S \in SUBSET (0 .. XLEN - 1)
  BY CsrBits
<1> QED
  BY <1>1, WordIsItsBits, Zenon

LEMMA InitTyped == csrInit \in CSRs
<1>1. 0 \in Word
  BY CsrBits
<1> QED
  BY <1>1, Zenon DEF csrInit, CSRs

LEMMA ReadTyped ==
  ASSUME NEW c \in CSRs, NEW mip \in SUBSET Causes, NEW addr
  PROVE  read(c, mip, addr) \in Word
<1>1. c[csrName(addr)] \in Word \/ csrName(addr) \notin CSR_RW
  BY Zenon DEF CSRs
<1>2. Num(mip) \in Word
  BY NumIsWord DEF Causes, Timer, External
<1>3. 2^(XLEN - 2) + 2^8 \in Word /\ 0 \in Word
  BY CsrBits
<1>4. "mip" \notin CSR_RW /\ "misa" \notin CSR_RW
  BY SMT DEF CSR_RW
<1> DEFINE n == csrName(addr)
<1>5. CASE n \in CSR_RW
  <2>1. read(c, mip, addr) = c[n]
    <3>1. n # "mip" /\ n # "misa"
      BY <1>4, <1>5, Zenon
    <3> QED
      BY <1>5, <3>1, Zenon DEF read
  <2> QED
    BY <1>1, <1>5, <2>1, Zenon
<1>6. CASE n = "mip"
  <2>1. read(c, mip, addr) = Num(mip)
    <3>1. n \notin CSR_RW /\ n # "misa"
      BY <1>4, <1>6, SMT
    <3> QED
      BY <1>6, <3>1, Zenon DEF read
  <2> QED
    BY <1>2, <2>1, Zenon
<1>7. CASE n = "misa"
  <2>1. read(c, mip, addr) = 2^(XLEN - 2) + 2^8
    <3>1. n \notin CSR_RW /\ n # "mip"
      BY <1>4, <1>7, SMT
    <3> QED
      BY <1>7, <3>1, Zenon DEF read
  <2> QED
    BY <1>3, <2>1, Zenon
<1>8. CASE n \notin CSR_RW /\ n # "mip" /\ n # "misa"
  <2>1. read(c, mip, addr) = 0
    BY <1>8, Zenon DEF read
  <2> QED
    BY <1>3, <2>1, Zenon
<1> QED
  BY <1>5, <1>6, <1>7, <1>8

LEMMA WriteTyped ==
  ASSUME NEW c \in CSRs, NEW addr, NEW wdata
  PROVE  write(c, addr, wdata) \in CSRs
<1>1. Num(Bits(wdata) \intersect WriteMask(csrName(addr))) \in Word
  <2>1. Bits(wdata) \intersect WriteMask(csrName(addr)) \subseteq 0 .. XLEN - 1
    BY Zenon DEF Bits
  <2> QED
    BY <2>1, NumIsWord
<1> QED
  BY <1>1, Zenon DEF write, CSRs

LEMMA CsrWritten ==
  ASSUME NEW c \in CSRs, NEW old \in Word, NEW rs1 \in Word, NEW addr, NEW csr_op, NEW rs1ID
  PROVE  writeback(c, old, rs1, addr, csr_op, rs1ID) \in CSRs
  BY WriteTyped, Zenon DEF writeback

LEMMA TrapTyped ==
  ASSUME NEW c \in CSRs, NEW mip, NEW pc \in Word
  PROVE  do_trap(c, mip, pc) \in CSRs
<1> DEFINE cause  == IF External \in irq_vec(c, mip) THEN interruptCause(External)
                     ELSE IF Timer \in irq_vec(c, mip) THEN interruptCause(Timer)
                     ELSE c["mcause"]
           status == 3 * 2^11 + (IF isSet(c["mstatus"], MIE) THEN 2^MPIE ELSE 0)
<1>1. "mcause" \in CSR_RW /\ "mtval" \in CSR_RW /\ "mstatus" \in CSR_RW /\ "mepc" \in CSR_RW
  BY DEF CSR_RW
<1>2. cause \in Word
  <2>1. 2^(XLEN - 1) + 7 \in Word /\ 2^(XLEN - 1) + 11 \in Word
    BY CsrBits
  <2>2. c["mcause"] \in Word
    BY <1>1, Zenon DEF CSRs
  <2> QED
    BY <2>1, <2>2, Zenon DEF interruptCause, External, Timer
<1>3. status \in Word
  <2>1. 3 * 2^11 \in Word /\ 3 * 2^11 + 2^7 \in Word /\ 3 * 2^11 + 0 = 3 * 2^11
    <3>1. 3 * 2^11 + 0 = 3 * 2^11
      BY SMT
    <3> QED
      BY <3>1, CsrBits
  <2> QED
    BY <2>1, Zenon DEF MPIE
<1>4. 0 \in Word
  BY CsrBits
<1> HIDE DEF cause, status
<1>5. do_trap(c, mip, pc) = [c EXCEPT !["mcause"] = cause, !["mtval"] = 0,
                                      !["mstatus"] = status, !["mepc"] = pc]
  BY Zenon DEF do_trap, cause, status
<1> QED
  BY <1>1, <1>2, <1>3, <1>4, <1>5, Zenon DEF CSRs

LEMMA MretTyped ==
  ASSUME NEW c \in CSRs
  PROVE  do_mret(c) \in CSRs
<1> DEFINE status == Num({MPIE} \union (IF isSet(c["mstatus"], MPIE) THEN {MIE} ELSE {}))
<1>1. status \in Word
  <2>1. {MPIE} \union (IF isSet(c["mstatus"], MPIE) THEN {MIE} ELSE {}) \subseteq {3, 7, 8, 11, 12}
    BY Zenon DEF MPIE, MIE
  <2> QED
    BY <2>1, NumIsWord, Zenon
<1> HIDE DEF status
<1>2. do_mret(c) = [c EXCEPT !["mstatus"] = status]
  BY Zenon DEF do_mret, status
<1> QED
  BY <1>1, <1>2, Zenon DEF CSRs

-----------------------------------------------------------------------------
(* What the multiplier still has to deliver: the sum so far and the rest   *)
(* of the product.                                                         *)
Due(md) == Wrap(md.c + md.a * md.b)

MD == [a : Word, b : Word, c : Word, stt : {0, 1}]

(* A step halves b and doubles a, and adds a when it drops a bit of b.     *)
LEMMA ShiftAndAdd ==
  ASSUME NEW M \in Nat \ {0}, NEW a \in Int, NEW b \in Int, NEW c \in Int
  PROVE  LET c1 == IF b % 2 = 1 THEN (c + a) % M ELSE c
         IN  (c1 + ((2 * a) % M) * (b \div 2)) % M = (c + a * b) % M
<1> DEFINE b1 == b \div 2
           a1 == (2 * a) % M
           k  == (2 * a) \div M
           s  == (c + a) % M
           j  == (c + a) \div M
<1>1. /\ a1 \in Int /\ k \in Int /\ a1 = 2 * a - M * k
      /\ s \in Int /\ j \in Int /\ s = c + a - M * j
  <2>1. 2 * a \in Int /\ c + a \in Int
    BY SMT
  <2>2. a1 \in 0 .. M - 1 /\ k \in Int /\ 2 * a = M * k + a1
    BY <2>1, DivMod, Zenon
  <2>3. s \in 0 .. M - 1 /\ j \in Int /\ c + a = M * j + s
    BY <2>1, DivMod, Zenon
  <2> HIDE DEF a1, k, s, j
  <2> QED
    BY <2>2, <2>3, SMT
<1>2. b1 \in Int /\ (b % 2 = 1 => b = 2 * b1 + 1) /\ (b % 2 # 1 => b = 2 * b1)
  BY SMT
<1> HIDE DEF b1, a1, k, s, j
<1>3. CASE b % 2 = 1
  <2> DEFINE n == c + a * b  q == -(j + k * b1)
  <2>0. M \in Nat \ {0}
    OBVIOUS
  <2>1. s + a1 * b1 = n + q * M /\ n \in Int /\ q \in Int
    BY <1>1, <1>2, <1>3, SMT
  <2> HIDE DEF n, q
  <2>2. (n + q * M) % M = n % M
    BY <2>0, <2>1, ModShift, Zenon
  <2>3. (s + a1 * b1) % M = (c + a * b) % M
    BY <2>1, <2>2, Zenon DEF n
  <2> QED
    BY <2>3, <1>3, Zenon DEF s, a1, b1
<1>4. CASE b % 2 # 1
  <2> DEFINE n == c + a * b  q == -(k * b1)
  <2>0. M \in Nat \ {0}
    OBVIOUS
  <2>1. c + a1 * b1 = n + q * M /\ n \in Int /\ q \in Int
    BY <1>1, <1>2, <1>4, SMT
  <2> HIDE DEF n, q
  <2>2. (n + q * M) % M = n % M
    BY <2>0, <2>1, ModShift, Zenon
  <2>3. (c + a1 * b1) % M = (c + a * b) % M
    BY <2>1, <2>2, Zenon DEF n
  <2> QED
    BY <2>3, <1>4, Zenon DEF a1, b1
<1> QED
  BY <1>3, <1>4, Zenon

LEMMA WrapsIntoWord ==
  ASSUME NEW n \in Int
  PROVE  Wrap(n) \in Word
<1> DEFINE M == 2^XLEN
<1>1. M \in Nat \ {0}
  BY Halves, SMT
<1>2. n % M \in 0 .. M - 1
  BY <1>1, DivMod, Zenon
<1> QED
  BY <1>2, Zenon DEF Wrap, Word

LEMMA WrapOfWord ==
  ASSUME NEW x \in Word
  PROVE  Wrap(x) = x
<1>1. 2^XLEN \in Nat \ {0}
  BY Halves, SMT
<1> QED
  BY <1>1, SMT DEF Wrap, Word

(* The first cycle of mul loads the operands: all of the product is due.   *)
THEOREM MultiplierStarts ==
  ASSUME NEW md \in MD, md.stt = 0, NEW i1 \in Word, NEW i2 \in Word
  PROVE  /\ Due(mdStep(md, i1, i2)) = Wrap(i1 * i2)
         /\ mdPending(mdStep(md, i1, i2))
<1>1. mdStep(md, i1, i2) = [a |-> i1, b |-> i2, c |-> 0, stt |-> 1]
  BY Zenon DEF mdStep
<1>2. 0 + i1 * i2 = i1 * i2
  BY Halves, SMT DEF Word
<1> QED
  BY <1>1, <1>2, SMT DEF Due, mdPending

(* What is due stays what it is in every later cycle and, when the core    *)
(* may go on, is the output: mul is the product modulo the word size, for  *)
(* every width of a word and all operands.                                 *)
THEOREM MultiplierExact ==
  ASSUME NEW md \in MD, md.stt = 1, NEW i1, NEW i2
  PROVE  LET next == mdStep(md, i1, i2)
         IN  /\ next \in MD
             /\ Due(next) = Due(md)
             /\ ~mdPending(next) => mdOut(md, next) = Due(md)
<1> DEFINE M  == 2^XLEN
           b1 == md.b \div 2
           a1 == Wrap(2 * md.a)
           c1 == IF md.b % 2 = 1 THEN Wrap(md.c + md.a) ELSE md.c
           next == mdStep(md, i1, i2)
<1>1. M \in Nat \ {0} /\ M = 2 * 2^(XLEN - 1)
  BY Halves, SMT
<1>2. md.a \in Word /\ md.b \in Word /\ md.c \in Word
  BY Zenon DEF MD
<1>3. md.a \in Int /\ md.b \in Int /\ md.c \in Int
  BY <1>2, <1>1, SMT DEF Word
<1>4. next = [a |-> a1, b |-> b1, c |-> c1, stt |-> Bit(b1 # 0)]
  <2>1. md.stt # 0
    BY SMT
  <2> QED
    BY <2>1, Zenon DEF mdStep
<1>0. next.a = a1 /\ next.b = b1 /\ next.c = c1 /\ next.stt = Bit(b1 # 0)
  <2> HIDE DEF next, a1, b1, c1
  <2> QED
    BY <1>4, Zenon
<1>5. a1 \in Word /\ c1 \in Word
  BY <1>2, <1>3, WrapsIntoWord, SMT
<1>6. b1 \in Word
  <2> DEFINE b == md.b
  <2>1. b \in 0 .. M - 1
    BY <1>2, Zenon DEF Word
  <2> HIDE DEF b, M
  <2>2. b \div 2 \in 0 .. M - 1
    BY <2>1, <1>1, SMT
  <2> QED
    BY <2>2, Zenon DEF b, M, Word
<1>7. Due(next) = Due(md)
  <2>1. (c1 + a1 * b1) % M = (md.c + md.a * md.b) % M
    BY <1>1, <1>3, ShiftAndAdd, Zenon DEF Wrap
  <2> HIDE DEF next, a1, b1, c1
  <2> QED
    BY <2>1, <1>0, Zenon DEF Due, Wrap
<1>8. next \in MD
  <2>1. Bit(b1 # 0) \in {0, 1}
    BY Zenon DEF Bit
  <2> HIDE DEF next, a1, b1, c1
  <2> QED
    BY <2>1, <1>4, <1>5, <1>6, Zenon DEF MD
<1>9. ASSUME ~mdPending(next) PROVE mdOut(md, next) = Due(md)
  <2>1. b1 = 0
    BY <1>9, <1>4, SMT DEF mdPending, Bit
  <2>2. a1 * b1 = 0 /\ c1 + 0 = c1
    BY <2>1, <1>5, <1>1, SMT DEF Word
  <2>3. Due(next) = Wrap(c1)
    BY <2>2, <1>0, Zenon DEF Due
  <2>4. Due(next) = c1
    BY <2>3, <1>5, WrapOfWord, Zenon
  <2>5. mdOut(md, next) = c1
    BY <1>4, SMT DEF mdOut
  <2> QED
    BY <2>4, <2>5, <1>7, Zenon
<1> QED
  BY <1>7, <1>8, <1>9, Zenon

-----------------------------------------------------------------------------
(***************************************************************************)
(* What the immediates of the decoder stand for, for every instruction     *)
(* word.  The comment after RV32ISim::execute in src/rv32.cpp gives their  *)
(* layout: the top bit is the sign, and the other bits are put together    *)
(* from the fields.                                                        *)
(***************************************************************************)

Negative(ir) == ir.f7 >= 64
Sign(ir, weight) == IF Negative(ir) THEN weight ELSE 0

(* The bits of an offset below its sign. *)
low_S(f7, rd) == (f7 % 64) * 32 + rd
low_B(f7, rd) == (rd % 2) * 2048 + (f7 % 64) * 32 + (rd \div 2) * 2
low_J(rs1, rs2, f3, f7) ==
  (rs1 * 8 + f3) * 4096 + (rs2 % 2) * 2048 + ((f7 * 32 + rs2) \div 2 % 1024) * 2

(* The offsets as the layout says. *)
offset_S(ir) == low_S(ir.f7, ir.rd) - Sign(ir, 2^11)
offset_B(ir) == low_B(ir.f7, ir.rd) - Sign(ir, 2 * 2^11)
offset_J(ir) == low_J(ir.rs1, ir.rs2, ir.f3, ir.f7) - Sign(ir, 2 * 2^19)

LEMMA FieldTypes ==
  ASSUME NEW ir \in Instruction
  PROVE  /\ ir.f7 \in 0 .. 127 /\ ir.rd \in 0 .. 31 /\ ir.f3 \in 0 .. 7
         /\ ir.rs1 \in 0 .. 31 /\ ir.rs2 \in 0 .. 31
  BY DEF Instruction

(* Facts about numbers only. *)
LEMMA LowEleven ==
  ASSUME NEW f7 \in 0 .. 127, NEW rd \in 0 .. 31
  PROVE  /\ low_S(f7, rd) \in 0 .. 2^11 - 1
         /\ ~(f7 >= 64) => f7 * 32 + rd = low_S(f7, rd)
         /\ f7 >= 64 => (f7 * 32 + rd) % 2^11 = low_S(f7, rd)
<1>1. low_S(f7, rd) \in 0 .. 2^11 - 1
  BY SMT DEF low_S
<1>2. ASSUME ~(f7 >= 64) PROVE f7 * 32 + rd = low_S(f7, rd)
  BY <1>2, SMT DEF low_S
<1>3. ASSUME f7 >= 64 PROVE (f7 * 32 + rd) % 2^11 = low_S(f7, rd)
  BY <1>3, SMT DEF low_S
<1> QED
  BY <1>1, <1>2, <1>3, Zenon

LEMMA LowTwelve ==
  ASSUME NEW f7 \in 0 .. 127, NEW rd \in 0 .. 31
  PROVE  low_B(f7, rd) \in 0 .. 2 * 2^11 - 1
  BY SMT DEF low_B

LEMMA LowTwenty ==
  ASSUME NEW rs1 \in 0 .. 31, NEW rs2 \in 0 .. 31, NEW f3 \in 0 .. 7, NEW f7 \in 0 .. 127
  PROVE  low_J(rs1, rs2, f3, f7) \in 0 .. 2 * 2^19 - 1
  BY SMT DEF low_J

(* The sign fills a bit more than it should. *)
LEMMA FillsBit11 ==
  ASSUME NEW y \in 0 .. 2 * 2^11 - 1
  PROVE  -(2^11) + (y % 2^11) = y - 2 * 2^11 <=> y - 2 * 2^11 >= -(2^11)
  BY SMT

LEMMA FillsBit19 ==
  ASSUME NEW y \in 0 .. 2 * 2^19 - 1
  PROVE  -(2^19) + (y % 2^19) = y - 2 * 2^19 <=> y - 2 * 2^19 >= -(2^19)
  BY SMT

LEMMA Reach11 ==
  ASSUME NEW y \in 0 .. 2 * 2^11 - 1
  PROVE  /\ y - 0 = y /\ y >= -(2^11)
         /\ y \in -(2^11) .. 2 * 2^11 - 1
         /\ -(2^11) + (y % 2^11) \in -(2^11) .. 2 * 2^11 - 1
  BY SMT

LEMMA Reach19 ==
  ASSUME NEW y \in 0 .. 2 * 2^19 - 1
  PROVE  y - 0 = y /\ y >= -(2^19)
  BY SMT

LEMMA SignBit == /\ -(2^(31 - 20)) = -(2^11) /\ -(2^11) # 0
                 /\ -(2^(31 - 12)) = -(2^19) /\ -(2^19) # 0
  BY SMT

-----------------------------------------------------------------------------
(* imm_Stype is the offset of the layout, for every store. *)
THEOREM StoreOffset ==
  ASSUME NEW ir \in Instruction
  PROVE  imm_Stype(ir) = offset_S(ir)
<1> DEFINE f7 == ir.f7  rd == ir.rd  y == low_S(f7, rd)
<1>1. y \in 0 .. 2^11 - 1 /\ y - 0 = y /\ -(2^11) + y = y - 2^11
  <2>1. y \in 0 .. 2^11 - 1
    BY FieldTypes, LowEleven, Zenon
  <2> HIDE DEF y
  <2> QED
    BY <2>1, SMT
<1>2. ~(f7 >= 64) => f7 * 32 + rd = y
  BY FieldTypes, LowEleven, Zenon
<1>3. f7 >= 64 => (f7 * 32 + rd) % 2^11 = y
  BY FieldTypes, LowEleven, Zenon
<1>4. CASE f7 >= 64
  <2>1. imm_Stype(ir) = -(2^11) + y
    BY <1>3, <1>4, SignBit, Zenon DEF imm_Stype, orSign, IR_SEXT
  <2> QED
    BY <2>1, <1>1, <1>4, Zenon DEF offset_S, Sign, Negative
<1>5. CASE ~(f7 >= 64)
  <2>1. imm_Stype(ir) = y
    BY <1>2, <1>5, Zenon DEF imm_Stype, orSign, IR_SEXT
  <2> QED
    BY <2>1, <1>1, <1>5, Zenon DEF offset_S, Sign, Negative
<1> QED
  BY <1>4, <1>5, Zenon

-----------------------------------------------------------------------------
LEMMA BranchImmediate ==
  ASSUME NEW ir \in Instruction
  PROVE  LET y == low_B(ir.f7, ir.rd)
         IN  /\ y \in 0 .. 2 * 2^11 - 1
             /\ ~Negative(ir) => offset_B(ir) = y /\ imm_Btype(ir) = y
             /\ Negative(ir) => /\ offset_B(ir) = y - 2 * 2^11
                                /\ imm_Btype(ir) = -(2^11) + (y % 2^11)
<1> DEFINE y == low_B(ir.f7, ir.rd)
<1>1. y \in 0 .. 2 * 2^11 - 1
  BY FieldTypes, LowTwelve, Zenon
<1>2. imm_Btype(ir) = orSign(IR_SEXT(ir, 20), y, 11)
  BY SMT DEF imm_Btype, low_B
<1>3. ~Negative(ir) => offset_B(ir) = y /\ imm_Btype(ir) = y
  BY <1>1, <1>2, Reach11, Zenon DEF orSign, IR_SEXT, offset_B, Sign, Negative
<1>4. Negative(ir) => offset_B(ir) = y - 2 * 2^11 /\ imm_Btype(ir) = -(2^11) + (y % 2^11)
  BY <1>2, SignBit, Zenon DEF orSign, IR_SEXT, offset_B, Sign, Negative
<1> QED
  BY <1>1, <1>3, <1>4, Zenon

(* imm_Btype is the offset of the layout for every branch forwards, and    *)
(* for a branch backwards exactly when it goes no further than 2^11.       *)
THEOREM BranchOffset ==
  ASSUME NEW ir \in Instruction
  PROVE  imm_Btype(ir) = offset_B(ir) <=> offset_B(ir) >= -(2^11)
<1>1. CASE ~Negative(ir)
  BY <1>1, BranchImmediate, Reach11, Zenon
<1>2. CASE Negative(ir)
  BY <1>2, BranchImmediate, FillsBit11, Zenon
<1> QED
  BY <1>1, <1>2, Zenon

(* No branch goes further back than 2^11, whatever its word says, although *)
(* the layout reaches -2^12.                                               *)
THEOREM BranchReach ==
  ASSUME NEW ir \in Instruction
  PROVE  imm_Btype(ir) \in -(2^11) .. 2 * 2^11 - 1
  BY BranchImmediate, Reach11, Zenon

-----------------------------------------------------------------------------
LEMMA JumpImmediate ==
  ASSUME NEW ir \in Instruction
  PROVE  LET y == low_J(ir.rs1, ir.rs2, ir.f3, ir.f7)
         IN  /\ y \in 0 .. 2 * 2^19 - 1
             /\ ~Negative(ir) => offset_J(ir) = y /\ imm_Jtype(ir) = y
             /\ Negative(ir) => /\ offset_J(ir) = y - 2 * 2^19
                                /\ imm_Jtype(ir) = -(2^19) + (y % 2^19)
<1> DEFINE y == low_J(ir.rs1, ir.rs2, ir.f3, ir.f7)
<1>1. y \in 0 .. 2 * 2^19 - 1
  BY FieldTypes, LowTwenty, Zenon
<1>2. imm_Jtype(ir) = orSign(IR_SEXT(ir, 12), y, 19)
  BY SMT DEF imm_Jtype, low_J, imm12
<1>3. ~Negative(ir) => offset_J(ir) = y /\ imm_Jtype(ir) = y
  BY <1>1, <1>2, Reach19, Zenon DEF orSign, IR_SEXT, offset_J, Sign, Negative
<1>4. Negative(ir) => offset_J(ir) = y - 2 * 2^19 /\ imm_Jtype(ir) = -(2^19) + (y % 2^19)
  BY <1>2, SignBit, Zenon DEF orSign, IR_SEXT, offset_J, Sign, Negative
<1> QED
  BY <1>1, <1>3, <1>4, Zenon

(* imm_Jtype is the offset of the layout for every jump forwards, and for  *)
(* a jump backwards exactly when it goes no further than 2^19.             *)
THEOREM JumpOffset ==
  ASSUME NEW ir \in Instruction
  PROVE  imm_Jtype(ir) = offset_J(ir) <=> offset_J(ir) >= -(2^19)
<1>1. CASE ~Negative(ir)
  BY <1>1, JumpImmediate, Reach19, Zenon
<1>2. CASE Negative(ir)
  BY <1>2, JumpImmediate, FillsBit19, Zenon
<1> QED
  BY <1>1, <1>2, Zenon

-----------------------------------------------------------------------------
(***************************************************************************)
(* The byte lanes of loads and stores.                                     *)
(***************************************************************************)

(* The sum of four numbers that MapThenSumSet picks one by one. *)
FourSums(g, f) ==
  g = [s \in SUBSET (0 .. 3) |-> IF s = {} THEN 0
                                 ELSE f[CHOOSE i \in s : TRUE] + g[s \ {CHOOSE i \in s : TRUE}]]

LEMMA SumOfFour ==
  ASSUME NEW f \in [0 .. 3 -> Int]
  PROVE  /\ \E g : FourSums(g, f)
         /\ \A g : FourSums(g, f) => g[0 .. 3] = f[0] + f[1] + f[2] + f[3]
<1> DEFINE part(s, k) == IF k \in s THEN f[k] ELSE 0
           one(s, k)  == IF k \in s THEN 1 ELSE 0
           sum(s)     == part(s, 0) + part(s, 1) + part(s, 2) + part(s, 3)
           size(s)    == one(s, 0) + one(s, 1) + one(s, 2) + one(s, 3)
           first(s)   == CHOOSE i \in s : TRUE
           h          == [s \in SUBSET (0 .. 3) |-> sum(s)]
<1>1. ASSUME NEW s \in SUBSET (0 .. 3), NEW i \in s
      PROVE  sum(s) = f[i] + sum(s \ {i}) /\ size(s) = 1 + size(s \ {i})
  BY SMT
<1>2. \A s \in SUBSET (0 .. 3) : s # {} => first(s) \in s
  OBVIOUS
<1>3. \A s \in SUBSET (0 .. 3) : s \ {first(s)} \in SUBSET (0 .. 3)
  OBVIOUS
<1>4. sum({}) = 0 /\ \A s \in SUBSET (0 .. 3) : size(s) \in Nat
  BY SMT
<1>5. sum(0 .. 3) = f[0] + f[1] + f[2] + f[3]
  BY SMT
<1> HIDE DEF sum, size, first
<1>6. FourSums(h, f)
  <2>1. ASSUME NEW s \in SUBSET (0 .. 3)
        PROVE  sum(s) = IF s = {} THEN 0 ELSE f[first(s)] + h[s \ {first(s)}]
    <3>1. h[s \ {first(s)}] = sum(s \ {first(s)})
      BY <1>3, Zenon
    <3> QED
      BY <1>1, <1>2, <1>4, <3>1, Zenon
  <2>2. h = [s \in SUBSET (0 .. 3) |-> IF s = {} THEN 0 ELSE f[first(s)] + h[s \ {first(s)}]]
    BY <2>1, Zenon
  <2> HIDE DEF h
  <2> QED
    BY <2>2, Zenon DEF FourSums, first
<1>7. ASSUME NEW g, FourSums(g, f)
      PROVE  g[0 .. 3] = sum(0 .. 3)
  <2> DEFINE T == {n \in Nat : \E s \in SUBSET (0 .. 3) : size(s) = n /\ g[s] # sum(s)}
  <2>1. ASSUME T # {} PROVE FALSE
    <3>1. PICK n \in T : \A k \in T : n <= k
      <4> HIDE DEF T
      <4>1. T \subseteq Nat
        BY DEF T
      <4> QED
        BY <2>1, <4>1, Least
    <3>2. PICK s \in SUBSET (0 .. 3) : size(s) = n /\ g[s] # sum(s)
      BY <3>1
    <3>3. g[s] = IF s = {} THEN 0 ELSE f[first(s)] + g[s \ {first(s)}]
      BY <1>7, Zenon DEF FourSums, first
    <3>4. s # {}
      BY <1>4, <3>2, <3>3, Zenon
    <3> DEFINE t == s \ {first(s)}
    <3>5. sum(s) = f[first(s)] + sum(t) /\ size(s) = 1 + size(t)
      BY <1>1, <1>2, <3>4, Zenon
    <3>6. g[t] # sum(t)
      BY <3>2, <3>3, <3>4, <3>5, Zenon
    <3>7. t \in SUBSET (0 .. 3) /\ size(t) \in Nat
      BY <1>3, <1>4, Zenon
    <3>8. size(t) \in T
      BY <3>6, <3>7, Zenon
    <3>9. n <= size(t)
      BY <3>1, <3>8, Zenon
    <3> HIDE DEF t, T
    <3> QED
      BY <3>2, <3>5, <3>7, <3>9, SMT
  <2>2. 0 .. 3 \in SUBSET (0 .. 3)
    OBVIOUS
  <2> QED
    BY <1>4, <2>1, <2>2, Zenon
<1> QED
  BY <1>5, <1>6, <1>7, Zenon

(* A stored word, byte by byte. *)
newLane(w, din, lanes, k) == lane(IF k \in lanes THEN din ELSE w, k)

LEMMA FourLanes ==
  ASSUME NEW w \in Word, NEW din \in Word, NEW lanes
  PROVE  /\ \A k \in 0 .. 3 : newLane(w, din, lanes, k) \in Byte
         /\ storeMemByteEnable(w, din, lanes) =
              2^(ByteBits * 0) * newLane(w, din, lanes, 0)
                + 2^(ByteBits * 1) * newLane(w, din, lanes, 1)
                + 2^(ByteBits * 2) * newLane(w, din, lanes, 2)
                + 2^(ByteBits * 3) * newLane(w, din, lanes, 3)
<1> DEFINE v(k) == 2^(ByteBits * k) * lane(IF k \in lanes THEN din ELSE w, k)
           first(s) == CHOOSE i \in s : TRUE
           f == [k \in 0 .. 3 |-> v(k)]
<1>1. ASSUME NEW k \in 0 .. 3
      PROVE  newLane(w, din, lanes, k) \in Byte /\ 2^(ByteBits * k) \in Nat
  <2> DEFINE D == 2^(ByteBits * k)  B == 2^ByteBits  x == IF k \in lanes THEN din ELSE w
  <2>1. ByteBits * k \in 0 .. 32 /\ ByteBits \in 0 .. 32
    BY ByteAssumption, SMT
  <2>2. D \in Nat \ {0} /\ B \in Nat \ {0}
    BY <2>1, Powers, Zenon
  <2>3. x \in Int
    <3>1. \A z \in Word : z \in Int
      BY PowersOfWord, SMT DEF Word
    <3> QED
      BY <3>1, Zenon
  <2> HIDE DEF D, B, x
  <2>4. x \div D % B \in 0 .. B - 1
    BY <2>2, <2>3, DivMod, Zenon
  <2> QED
    BY <2>2, <2>4, Zenon DEF newLane, lane, Byte, D, B, x
<1>2. \A k \in 0 .. 3 : v(k) = 2^(ByteBits * k) * newLane(w, din, lanes, k)
  BY Zenon DEF newLane
<1>3. \A k \in 0 .. 3 : v(k) \in Int
  <2> HIDE DEF v
  <2>1. \A x \in Byte : x \in Int
    BY ByteAssumption, SMT DEF Byte
  <2> QED
    BY <1>1, <1>2, <2>1, SMT
<1>4. storeMemByteEnable(w, din, lanes) =
        (CHOOSE g : g = [s \in SUBSET (0 .. 3) |-> IF s = {} THEN 0
                                                   ELSE v(first(s)) + g[s \ {first(s)}]])[0 .. 3]
  BY Zenon DEF storeMemByteEnable, MapThenSumSet, MapThenFoldSet
<1>5. \A s \in SUBSET (0 .. 3) : s # {} => v(first(s)) = f[first(s)]
  <2>1. \A s \in SUBSET (0 .. 3) : s # {} => first(s) \in 0 .. 3
    OBVIOUS
  <2> HIDE DEF v, first
  <2> QED
    BY <2>1, Zenon
<1>6. f \in [0 .. 3 -> Int]
  <2> HIDE DEF v
  <2> QED
    BY <1>3, Zenon
<1> HIDE DEF v, f, first
<1> DEFINE W(g) == [s \in SUBSET (0 .. 3) |-> IF s = {} THEN 0
                                               ELSE v(first(s)) + g[s \ {first(s)}]]
           picked  == CHOOSE g : g = W(g)
<1>7. \A g : g = W(g) <=> FourSums(g, f)
  <2>1. ASSUME NEW g
        PROVE  W(g) = [s \in SUBSET (0 .. 3) |->
                        IF s = {} THEN 0 ELSE f[first(s)] + g[s \ {first(s)}]]
    BY <1>5, Zenon
  <2> HIDE DEF W
  <2> QED
    BY <2>1, Zenon DEF FourSums, first
<1>8. storeMemByteEnable(w, din, lanes) = picked[0 .. 3]
  BY <1>4, Zenon
<1> HIDE DEF W
<1>9. picked = W(picked)
  BY <1>6, <1>7, SumOfFour, Zenon
<1> HIDE DEF picked
<1>10. storeMemByteEnable(w, din, lanes) = f[0] + f[1] + f[2] + f[3]
  BY <1>6, <1>7, <1>8, <1>9, SumOfFour, Zenon
<1>11. f[0] = v(0) /\ f[1] = v(1) /\ f[2] = v(2) /\ f[3] = v(3)
  <2>1. 0 \in 0 .. 3 /\ 1 \in 0 .. 3 /\ 2 \in 0 .. 3 /\ 3 \in 0 .. 3
    OBVIOUS
  <2> QED
    BY <2>1, Zenon DEF f
<1>12. /\ v(0) = 2^(ByteBits * 0) * newLane(w, din, lanes, 0)
       /\ v(1) = 2^(ByteBits * 1) * newLane(w, din, lanes, 1)
       /\ v(2) = 2^(ByteBits * 2) * newLane(w, din, lanes, 2)
       /\ v(3) = 2^(ByteBits * 3) * newLane(w, din, lanes, 3)
  BY Zenon DEF v, newLane
<1> QED
  BY <1>1, <1>10, <1>11, <1>12, Zenon

(* A word is made of the lanes as of digits, from the lowest on. *)
LEMMA Digit ==
  ASSUME NEW B \in Nat \ {0}, NEW M \in Nat \ {0}, NEW l \in 0 .. B - 1, NEW x \in 0 .. M - 1
  PROVE  /\ l + B * x \in 0 .. B * M - 1
         /\ (l + B * x) % B = l /\ (l + B * x) \div B = x
         /\ B * M \in Nat \ {0}
<1>1. /\ l \in Int /\ x \in Int /\ l + B * x \in Int /\ l + B * x = x * B + l /\ 0 <= l /\ l < B
      /\ B * M \in Nat \ {0}
  BY SMT
<1>2. (l + B * x) % B = l /\ (l + B * x) \div B = x
  BY <1>1, ModUnique, DivUnique, Zenon
<1>3. B * x <= B * (M - 1) /\ B * (M - 1) = B * M - B /\ B * x >= 0
  <2> DEFINE d == M - 1 - x
  <2>1. d \in Nat /\ B * d \in Nat /\ x = M - 1 - d
    BY SMT
  <2>2. B * (M - 1) = B * x + B * d
    BY <2>1, SMT
  <2>3. B * (M - 1) = B * M - B
    BY SMT
  <2>4. B * x \in Nat
    BY SMT
  <2> DEFINE p == B * x  q == B * d  r == B * (M - 1)
  <2> HIDE DEF p, q, r, d
  <2>5. p \in Nat /\ q \in Nat /\ r = p + q
    BY <2>1, <2>2, <2>4 DEF p, q, r
  <2>6. p <= r /\ p >= 0
    BY <2>5, SMT
  <2> QED
    BY <2>3, <2>6 DEF p, q, r
<1> DEFINE p == B * x  r == B * M
<1>4. p \in Int /\ r \in Int /\ p <= r - B /\ p >= 0
  BY <1>3, SMT
<1> HIDE DEF p, r
<1>5. l + p \in 0 .. r - 1
  BY <1>4, SMT
<1> QED
  BY <1>1, <1>2, <1>5 DEF p, r

Digits(B, x0, x1, x2, x3) == x0 + B * (x1 + B * (x2 + B * x3))

LEMMA DigitsOfWord ==
  ASSUME NEW B \in Nat \ {0}, NEW x0 \in 0 .. B - 1, NEW x1 \in 0 .. B - 1,
         NEW x2 \in 0 .. B - 1, NEW x3 \in 0 .. B - 1
  PROVE  /\ Digits(B, x0, x1, x2, x3) \in 0 .. B * (B * (B * B)) - 1
         /\ Digits(B, x0, x1, x2, x3) \div 1 % B = x0
         /\ Digits(B, x0, x1, x2, x3) \div B % B = x1
         /\ Digits(B, x0, x1, x2, x3) \div (B * B) % B = x2
         /\ Digits(B, x0, x1, x2, x3) \div (B * (B * B)) % B = x3
<1> DEFINE y3 == x3  y2 == x2 + B * y3  y1 == x1 + B * y2  x == x0 + B * y1
           M2 == B * B  M3 == B * M2
<1>1. y2 \in 0 .. M2 - 1 /\ y2 % B = x2 /\ y2 \div B = x3 /\ M2 \in Nat \ {0}
  BY Digit
<1> HIDE DEF y2
<1>2. y1 \in 0 .. M3 - 1 /\ y1 % B = x1 /\ y1 \div B = y2 /\ M3 \in Nat \ {0}
  <2> HIDE DEF M2
  <2> QED
    BY <1>1, Digit
<1> HIDE DEF y1
<1>3. x \in 0 .. B * M3 - 1 /\ x % B = x0 /\ x \div B = y1 /\ x \in Int
  <2> HIDE DEF M3
  <2>1. x \in 0 .. B * M3 - 1 /\ x % B = x0 /\ x \div B = y1
    BY <1>2, Digit
  <2> QED
    BY <2>1, SMT
<1> HIDE DEF x
<1>4. x \div (B * B) = y2
  BY <1>2, <1>3, DivDiv, Zenon
<1>5. x \div (B * (B * B)) = x3
  <2>1. (x \div B) \div M2 = x \div (B * M2)
    BY <1>1, <1>3, DivDiv, Zenon
  <2>2. y1 \in Int /\ (y1 \div B) \div B = y1 \div M2
    <3>1. y1 \in Int
      BY <1>2, SMT
    <3> QED
      BY <3>1, DivDiv, Zenon
  <2> QED
    BY <1>1, <1>2, <1>3, <2>1, <2>2, Zenon
<1>6. x \div 1 = x
  BY <1>3, SMT
<1>7. x3 % B = x3
  BY SMT
<1> QED
  BY <1>1, <1>2, <1>3, <1>4, <1>5, <1>6, <1>7, Zenon DEF Digits, x, y1, y2

(* The powers of two that move a lane. *)
LEMMA LanePowers ==
  LET B == 2^ByteBits
  IN  /\ B \in Nat \ {0} /\ Byte = 0 .. B - 1
      /\ 2^(ByteBits * 0) = 1 /\ 2^(ByteBits * 1) = B
      /\ 2^(ByteBits * 2) = B * B /\ 2^(ByteBits * 3) = B * (B * B)
      /\ 2^XLEN = B * (B * (B * B)) /\ Word = 0 .. B * (B * (B * B)) - 1
<1> DEFINE B == 2^ByteBits
<1>1. /\ ByteBits \in 0 .. 32 /\ ByteBits * 2 \in 0 .. 32 /\ ByteBits * 3 \in 0 .. 32
      /\ ByteBits + ByteBits = ByteBits * 2 /\ ByteBits + ByteBits * 2 = ByteBits * 3
      /\ ByteBits + ByteBits * 3 = XLEN /\ ByteBits * 0 = 0 /\ ByteBits * 1 = ByteBits
      /\ ByteBits + ByteBits <= 32 /\ ByteBits + ByteBits * 2 <= 32
      /\ ByteBits + ByteBits * 3 <= 32
  BY ByteAssumption, SMT DEF XLEN
<1>2. B \in Nat \ {0} /\ 2^0 = 1
  BY <1>1, Powers, Zenon
<1>3. 2^(ByteBits * 2) = B * B /\ 2^(ByteBits * 3) = B * (B * B) /\ 2^XLEN = B * (B * (B * B))
  <2>1. 2^(ByteBits + ByteBits) = B * B
    BY <1>1, PowerSum, Zenon
  <2>2. 2^(ByteBits + ByteBits * 2) = B * 2^(ByteBits * 2)
    BY <1>1, PowerSum, Zenon
  <2>3. 2^(ByteBits + ByteBits * 3) = B * 2^(ByteBits * 3)
    BY <1>1, PowerSum, Zenon
  <2> QED
    BY <1>1, <2>1, <2>2, <2>3, Zenon
<1> QED
  BY <1>1, <1>2, <1>3, Zenon DEF Byte, Word

LEMMA LanesStored ==
  ASSUME NEW w \in Word, NEW din \in Word, NEW lanes
  PROVE  /\ storeMemByteEnable(w, din, lanes) \in Word
         /\ \A k \in 0 .. 3 : k \in lanes =>
              lane(storeMemByteEnable(w, din, lanes), k) = lane(din, k)
         /\ \A k \in 0 .. 3 : k \notin lanes =>
              lane(storeMemByteEnable(w, din, lanes), k) = lane(w, k)
<1> DEFINE B == 2^ByteBits
           x(k) == newLane(w, din, lanes, k)
           s == storeMemByteEnable(w, din, lanes)
           x0 == x(0)  x1 == x(1)  x2 == x(2)  x3 == x(3)
<1>0. \A k : k \in 0 .. 3 => k = 0 \/ k = 1 \/ k = 2 \/ k = 3
  BY SMT
<1>1. x0 \in 0 .. B - 1 /\ x1 \in 0 .. B - 1 /\ x2 \in 0 .. B - 1 /\ x3 \in 0 .. B - 1
      /\ B \in Nat \ {0}
  <2>1. 0 \in 0 .. 3 /\ 1 \in 0 .. 3 /\ 2 \in 0 .. 3 /\ 3 \in 0 .. 3
    OBVIOUS
  <2> QED
    BY <2>1, FourLanes, LanePowers, Zenon
<1>2. s = 1 * x0 + B * x1 + (B * B) * x2 + (B * (B * B)) * x3
  BY FourLanes, LanePowers, Zenon
<1> HIDE DEF x0, x1, x2, x3, B
<1>3. s = Digits(B, x0, x1, x2, x3)
  <2>1. /\ x0 \in Int /\ x1 \in Int /\ x2 \in Int /\ x3 \in Int /\ B \in Int
    BY <1>1, SMT
  <2>2. 1 * x0 + B * x1 + (B * B) * x2 + (B * (B * B)) * x3 = x0 + B * (x1 + B * (x2 + B * x3))
    BY <2>1, SMT
  <2> QED
    BY <1>2, <2>2, Zenon DEF Digits
<1> HIDE DEF s
<1>4. s \in Word /\ lane(s, 0) = x0 /\ lane(s, 1) = x1 /\ lane(s, 2) = x2 /\ lane(s, 3) = x3
  <2>1. /\ s \in 0 .. B * (B * (B * B)) - 1
        /\ s \div 1 % B = x0 /\ s \div B % B = x1
        /\ s \div (B * B) % B = x2 /\ s \div (B * (B * B)) % B = x3
    BY <1>1, <1>3, DigitsOfWord, SMT
  <2>2. /\ Word = 0 .. B * (B * (B * B)) - 1
        /\ 2^(ByteBits * 0) = 1 /\ 2^(ByteBits * 1) = B
        /\ 2^(ByteBits * 2) = B * B /\ 2^(ByteBits * 3) = B * (B * B) /\ 2^ByteBits = B
    BY LanePowers, Zenon DEF B
  <2>3. s \in Word
    BY <2>1, <2>2, Zenon
  <2>4. lane(s, 0) = x0 /\ lane(s, 1) = x1
    BY <2>1, <2>2, Zenon DEF lane
  <2>5. lane(s, 2) = x2 /\ lane(s, 3) = x3
    BY <2>1, <2>2, Zenon DEF lane
  <2> QED
    BY <2>3, <2>4, <2>5, Zenon
<1>5. \A k \in 0 .. 3 : lane(s, k) = x(k)
  BY <1>0, <1>4, Zenon DEF x0, x1, x2, x3
<1>6. ASSUME NEW k \in 0 .. 3
      PROVE  /\ k \in lanes => lane(s, k) = lane(din, k)
             /\ k \notin lanes => lane(s, k) = lane(w, k)
  BY <1>5, Zenon DEF newLane
<1> QED
  BY <1>4, <1>6, Zenon DEF s

LEMMA StoreIsWord ==
  ASSUME NEW w \in Word, NEW din \in Word, NEW lanes
  PROVE  storeMemByteEnable(w, din, lanes) \in Word
  BY LanesStored

(* A store changes the lanes it enables to those of the data, and no other *)
(* one: storeMemByteEnable, for all words and all sets of lanes.           *)
THEOREM StoreWritesItsLanes ==
  ASSUME NEW w \in Word, NEW din \in Word, NEW lanes, NEW k \in 0 .. 3
  PROVE  lane(storeMemByteEnable(w, din, lanes), k)
           = lane(IF k \in lanes THEN din ELSE w, k)
<1> DEFINE s == storeMemByteEnable(w, din, lanes)
<1>1. /\ \A j \in 0 .. 3 : j \in lanes => lane(s, j) = lane(din, j)
      /\ \A j \in 0 .. 3 : j \notin lanes => lane(s, j) = lane(w, j)
  BY LanesStored
<1> HIDE DEF s
<1>2. k \in lanes => lane(s, k) = lane(din, k)
  BY <1>1, Zenon
<1>3. k \notin lanes => lane(s, k) = lane(w, k)
  BY <1>1, Zenon
<1> QED
  BY <1>2, <1>3, Zenon DEF s

LEMMA LaneNumbers ==
  ASSUME NEW x \in Word
  PROVE  LET B == 2^ByteBits
         IN  /\ \A k \in 0 .. 3 : lane(x, k) \in 0 .. B - 1
             /\ x = Digits(B, lane(x, 0), lane(x, 1), lane(x, 2), lane(x, 3))
<1> DEFINE B == 2^ByteBits  B2 == B * B  B3 == B * (B * B)
           d1 == x \div B  d2 == x \div B2  d3 == x \div B3
<1>1. /\ B \in Nat \ {0} /\ x \in 0 .. B * B3 - 1
      /\ lane(x, 0) = x \div 1 % B /\ lane(x, 1) = d1 % B
      /\ lane(x, 2) = d2 % B /\ lane(x, 3) = d3 % B
  BY LanePowers, Zenon DEF lane
<1>2. \A k \in 0 .. 3 : lane(x, k) \in 0 .. B - 1
  <2>1. ASSUME NEW k \in 0 .. 3 PROVE lane(x, k) \in 0 .. B - 1
    <3>1. newLane(x, x, {}, k) \in Byte
      BY FourLanes
    <3> QED
      BY <3>1, LanePowers, Zenon DEF newLane
  <2> QED
    BY <2>1, Zenon
<1> HIDE DEF B
<1>3. x \in Int /\ B2 \in Nat \ {0} /\ B3 \in Nat \ {0} /\ x \div 1 = x
  <2>1. B2 \in Nat \ {0}
    BY <1>1, SMT
  <2>2. B3 \in Nat \ {0}
    <3> HIDE DEF B2
    <3>1. B * B2 \in Nat \ {0}
      BY <1>1, <2>1, SMT
    <3> QED
      BY <3>1 DEF B2
  <2> HIDE DEF B3
  <2>3. x \in Int /\ x \div 1 = x
    <3> DEFINE h == B * B3 - 1
    <3>1. h \in Int
      BY <1>1, <2>2, SMT
    <3> HIDE DEF h
    <3>2. x \in 0 .. h
      BY <1>1 DEF h
    <3> QED
      BY <3>1, <3>2, SMT
  <2> QED
    BY <2>1, <2>2, <2>3
<1>4. d1 \div B = d2 /\ d2 = x \div (B * B) /\ d1 \div (B * B) = d3
  BY <1>1, <1>3, DivDiv, Zenon
<1> HIDE DEF B2, B3
<1>5. d1 \in Int /\ d2 \in Int /\ d3 \in Int
  BY <1>1, <1>3, DivMod, Zenon
<1>6. d2 \div B = d3
  <2>1. (d1 \div B) \div B = d1 \div (B * B)
    BY <1>1, <1>5, DivDiv, Zenon
  <2> QED
    BY <1>4, <2>1, Zenon
<1>7. d3 \in 0 .. B - 1
  <2>1. x = B3 * d3 + (x % B3) /\ x % B3 \in 0 .. B3 - 1
    BY <1>3, DivMod, Zenon
  <2>2. 0 <= x /\ x < B * B3
    <3> DEFINE h == B * B3
    <3>1. h \in Int
      BY <1>1, <1>3, SMT
    <3> HIDE DEF h
    <3>2. x \in 0 .. h - 1
      BY <1>1 DEF h, B3
    <3>3. 0 <= x /\ x < h
      BY <3>1, <3>2, <1>3, SMT
    <3> QED
      BY <3>3 DEF h
  <2> DEFINE r == x % B3
  <2>3. r \in Nat /\ r < B3
    BY <1>3, <2>1, SMT
  <2> HIDE DEF d3, r
  <2>4. d3 >= 0
    <3>1. CASE d3 <= -1
      <4> DEFINE e == -1 - d3  p == B3 * e
      <4>1. e \in Nat
        BY <1>5, <3>1, SMT
      <4>2. p \in Nat
        BY <1>3, <4>1, SMT
      <4>3. B3 * d3 = -B3 - p
        BY <1>3, <1>5, SMT
      <4> HIDE DEF p
      <4> QED
        BY <1>3, <2>1, <2>2, <2>3, <4>2, <4>3, SMT DEF r
    <3> QED
      BY <1>5, <3>1, SMT
  <2>5. d3 < B
    <3>1. CASE d3 >= B
      <4> DEFINE e == d3 - B  p == B3 * e  q == B * B3
      <4>1. e \in Nat
        BY <1>1, <1>5, <3>1, SMT
      <4>2. p \in Nat /\ q \in Nat
        BY <1>1, <1>3, <4>1, SMT
      <4>3. B3 * d3 = q + p
        BY <1>1, <1>3, <1>5, SMT
      <4>4. x < q
        BY <2>2
      <4> HIDE DEF p, q
      <4> QED
        BY <1>3, <2>1, <2>3, <4>2, <4>3, <4>4, SMT DEF r
    <3> QED
      BY <1>1, <1>5, <3>1, SMT
  <2> QED
    BY <1>1, <1>5, <2>4, <2>5, SMT
<1>8. /\ x = B * d1 + (x % B) /\ d1 = B * d2 + (d1 % B) /\ d2 = B * d3 + (d2 % B)
      /\ x % B \in Int /\ d1 % B \in Int /\ d2 % B \in Int
  <2>1. x = B * (x \div B) + (x % B) /\ x % B \in 0 .. B - 1
    BY <1>1, <1>3, DivMod, Zenon
  <2>2. d1 = B * (d1 \div B) + (d1 % B) /\ d1 % B \in 0 .. B - 1
    BY <1>1, <1>5, DivMod, Zenon
  <2>3. d2 = B * (d2 \div B) + (d2 % B) /\ d2 % B \in 0 .. B - 1
    BY <1>1, <1>5, DivMod, Zenon
  <2>4. \A z \in 0 .. B - 1 : z \in Int
    BY <1>1, SMT
  <2> QED
    BY <1>4, <1>6, <2>1, <2>2, <2>3, <2>4, Zenon
<1>9. d3 % B = d3
  BY <1>1, <1>7, SMT
<1>10. x = Digits(B, x % B, d1 % B, d2 % B, d3)
  <2> DEFINE m0 == x % B  m1 == d1 % B  m2 == d2 % B
  <2>1. x = B * d1 + m0 /\ d1 = B * d2 + m1 /\ d2 = B * d3 + m2
    BY <1>8
  <2>2. m0 \in Int /\ m1 \in Int /\ m2 \in Int /\ B \in Int
    BY <1>1, <1>8, SMT
  <2> HIDE DEF m0, m1, m2, d1, d2, d3
  <2>3. m2 + B * d3 = d2
    BY <1>5, <2>1, <2>2, SMT
  <2>4. m1 + B * d2 = d1
    BY <1>5, <2>1, <2>2, SMT
  <2>5. m0 + B * d1 = x
    BY <1>3, <1>5, <2>1, <2>2, SMT
  <2>6. x = m0 + B * (m1 + B * (m2 + B * d3))
    BY <2>3, <2>4, <2>5, Zenon
  <2> QED
    BY <2>6, Zenon DEF Digits, m0, m1, m2
<1> QED
  BY <1>1, <1>2, <1>3, <1>9, <1>10, Zenon DEF B

(* Half a word is two lanes. *)
LEMMA TwoLanes ==
  ASSUME NEW B \in Nat \ {0}, NEW x0 \in 0 .. B - 1, NEW x1 \in 0 .. B - 1,
         NEW x2 \in 0 .. B - 1, NEW x3 \in 0 .. B - 1
  PROVE  /\ Digits(B, x0, x1, x2, x3) \div 1 % (B * B) = x0 + B * x1
         /\ Digits(B, x0, x1, x2, x3) \div (B * B) % (B * B) = x2 + B * x3
<1> DEFINE M == B * B  low == x0 + B * x1  high == x2 + B * x3  x == Digits(B, x0, x1, x2, x3)
<1>1. low \in 0 .. M - 1 /\ high \in 0 .. M - 1 /\ M \in Nat \ {0}
  BY Digit
<1>2. x = low + M * high
  <2>1. x0 \in Int /\ x1 \in Int /\ x2 \in Int /\ x3 \in Int /\ B \in Int
    BY SMT
  <2>2. x0 + B * (x1 + B * (x2 + B * x3)) = (x0 + B * x1) + (B * B) * (x2 + B * x3)
    BY <2>1, SMT
  <2> QED
    BY <2>2, Zenon DEF Digits
<1> HIDE DEF M, low, high, x
<1>3. x % M = low /\ x \div M = high
  BY <1>1, <1>2, Digit
<1>4. x \div 1 = x /\ high % M = high
  BY <1>1, <1>2, SMT
<1> QED
  BY <1>3, <1>4, Zenon DEF M, low, high, x

(* What Wrap leaves of a word that is moved up by whole lanes. *)
LEMMA Moved ==
  ASSUME NEW B \in Nat \ {0}, NEW x0 \in 0 .. B - 1, NEW x1 \in 0 .. B - 1,
         NEW x2 \in 0 .. B - 1, NEW x3 \in 0 .. B - 1
  PROVE  LET x == Digits(B, x0, x1, x2, x3)
             M == B * (B * (B * B))
         IN  /\ (x * 1) % M = x
             /\ (x * B) % M = Digits(B, 0, x0, x1, x2)
             /\ (x * (B * B)) % M = Digits(B, 0, 0, x0, x1)
             /\ (x * (B * (B * B))) % M = Digits(B, 0, 0, 0, x0)
<1> DEFINE x  == Digits(B, x0, x1, x2, x3)
           M  == B * (B * (B * B))
           y1 == Digits(B, 0, x0, x1, x2)
           y2 == Digits(B, 0, 0, x0, x1)
           y3 == Digits(B, 0, 0, 0, x0)
           c2 == x2 + B * x3
           c3 == x1 + B * (x2 + B * x3)
<1>0. 0 \in 0 .. B - 1 /\ B \in Int
      /\ x0 \in Int /\ x1 \in Int /\ x2 \in Int /\ x3 \in Int
  BY SMT
<1>1. x \in 0 .. M - 1 /\ y1 \in 0 .. M - 1 /\ y2 \in 0 .. M - 1 /\ y3 \in 0 .. M - 1
  <2>1. x \in 0 .. M - 1
    BY DigitsOfWord, SMT
  <2>2. y1 \in 0 .. M - 1
    BY <1>0, DigitsOfWord, SMT
  <2>3. y2 \in 0 .. M - 1
    BY <1>0, DigitsOfWord, SMT
  <2>4. y3 \in 0 .. M - 1
    BY <1>0, DigitsOfWord, SMT
  <2> QED
    BY <2>1, <2>2, <2>3, <2>4
<1>2. x * B = x3 * M + y1
  <2>1. (x0 + B * (x1 + B * (x2 + B * x3))) * B
          = x3 * (B * (B * (B * B))) + (0 + B * (x0 + B * (x1 + B * x2)))
    BY <1>0, SMT
  <2> QED
    BY <2>1, Zenon DEF Digits
<1>3. x * (B * B) = c2 * M + y2
  <2>1. (x0 + B * (x1 + B * (x2 + B * x3))) * (B * B)
          = (x2 + B * x3) * (B * (B * (B * B))) + (0 + B * (0 + B * (x0 + B * x1)))
    BY <1>0, SMT
  <2> QED
    BY <2>1, Zenon DEF Digits
<1>4. x * (B * (B * B)) = c3 * M + y3
  <2>1. (x0 + B * (x1 + B * (x2 + B * x3))) * (B * (B * B))
          = (x1 + B * (x2 + B * x3)) * (B * (B * (B * B))) + (0 + B * (0 + B * (0 + B * x0)))
    BY <1>0, SMT
  <2> QED
    BY <2>1, Zenon DEF Digits
<1>5. M \in Nat \ {0} /\ c2 \in Int /\ c3 \in Int
  <2> DEFINE b2 == B * B  b3 == B * b2
  <2>1. b2 \in Nat \ {0}
    BY SMT
  <2> HIDE DEF b2
  <2>2. b3 \in Nat \ {0}
    BY <2>1, SMT
  <2> HIDE DEF b3
  <2>3. B * b3 \in Nat \ {0}
    BY <2>2, SMT
  <2>4. c2 \in Int /\ c3 \in Int
    BY <1>0, SMT
  <2> QED
    BY <2>3, <2>4 DEF b2, b3
<1> DEFINE p1 == x * B  p2 == x * (B * B)  p3 == x * (B * (B * B))
<1>6. x \in Int /\ p1 \in Int /\ p2 \in Int /\ p3 \in Int /\ x * 1 = x
      /\ y1 \in Int /\ y2 \in Int /\ y3 \in Int
  <2>1. x \in Int /\ y1 \in Int /\ y2 \in Int /\ y3 \in Int
    BY <1>0, SMT DEF Digits
  <2> HIDE DEF x
  <2> QED
    BY <1>0, <2>1, SMT
<1>7. p1 = x3 * M + y1 /\ p2 = c2 * M + y2 /\ p3 = c3 * M + y3
  BY <1>2, <1>3, <1>4
<1> HIDE DEF x, y1, y2, y3, c2, c3, M, p1, p2, p3
<1>8. x % M = x
  BY <1>1, <1>5, SMT
<1>9. ASSUME NEW n \in Int, NEW q \in Int, NEW r \in 0 .. M - 1, n = q * M + r
      PROVE  n % M = r
  <2>1. r \in Int /\ 0 <= r /\ r < M
    BY <1>5, SMT
  <2> QED
    BY <1>5, <1>9, <2>1, ModUnique, Zenon
<1>10. p1 % M = y1
  BY <1>0, <1>1, <1>6, <1>7, <1>9, Zenon
<1>11. p2 % M = y2
  BY <1>1, <1>5, <1>6, <1>7, <1>9, Zenon
<1>12. p3 % M = y3
  BY <1>1, <1>5, <1>6, <1>7, <1>9, Zenon
<1> QED
  BY <1>6, <1>8, <1>10, <1>11, <1>12, Zenon DEF x, y1, y2, y3, M, p1, p2, p3

(* The lanes of data that shiftedData has moved for a store. *)
LEMMA ShiftedLanes ==
  ASSUME NEW x \in Word, NEW a \in Int
  PROVE  LET y == shiftedData(a, x)
             B == 2^ByteBits
         IN  /\ y \in Word
             /\ a % 4 = 0 => y = x
             /\ a % 4 = 1 => y = Digits(B, 0, lane(x, 0), lane(x, 1), lane(x, 2))
             /\ a % 4 = 2 => y = Digits(B, 0, 0, lane(x, 0), lane(x, 1))
             /\ a % 4 = 3 => y = Digits(B, 0, 0, 0, lane(x, 0))
<1> DEFINE B == 2^ByteBits  P == 2^(ByteBits * (a % 4))
           x0 == lane(x, 0)  x1 == lane(x, 1)  x2 == lane(x, 2)  x3 == lane(x, 3)
<1>1. /\ x = Digits(B, x0, x1, x2, x3) /\ B \in Nat \ {0}
      /\ x0 \in 0 .. B - 1 /\ x1 \in 0 .. B - 1 /\ x2 \in 0 .. B - 1 /\ x3 \in 0 .. B - 1
  <2>1. 0 \in 0 .. 3 /\ 1 \in 0 .. 3 /\ 2 \in 0 .. 3 /\ 3 \in 0 .. 3
    OBVIOUS
  <2> QED
    BY <2>1, LaneNumbers, LanePowers, Zenon
<1>2. shiftedData(a, x) = (x * P) % (B * (B * (B * B)))
  BY LanePowers, Zenon DEF shiftedData, Wrap
<1>3. /\ a % 4 = 0 => P = 1
      /\ a % 4 = 1 => P = B
      /\ a % 4 = 2 => P = B * B
      /\ a % 4 = 3 => P = B * (B * B)
  BY LanePowers, Zenon
<1>4. x * P \in Int
  <2>1. ByteBits * (a % 4) \in 0 .. 32
    BY ByteAssumption, SMT
  <2>2. P \in Nat \ {0}
    BY <2>1, Powers, Zenon
  <2>3. x \in Int
    BY PowersOfWord, SMT DEF Word
  <2> HIDE DEF P
  <2> QED
    BY <2>2, <2>3, SMT
<1>5. shiftedData(a, x) \in Word
  BY <1>4, WrapIsWord, Zenon DEF shiftedData
<1> HIDE DEF B, P, x0, x1, x2, x3
<1>6. /\ (x * 1) % (B * (B * (B * B))) = x
      /\ (x * B) % (B * (B * (B * B))) = Digits(B, 0, x0, x1, x2)
      /\ (x * (B * B)) % (B * (B * (B * B))) = Digits(B, 0, 0, x0, x1)
      /\ (x * (B * (B * B))) % (B * (B * (B * B))) = Digits(B, 0, 0, 0, x0)
  <2> DEFINE z == Digits(B, x0, x1, x2, x3)
  <2>1. /\ (z * 1) % (B * (B * (B * B))) = z
        /\ (z * B) % (B * (B * (B * B))) = Digits(B, 0, x0, x1, x2)
        /\ (z * (B * B)) % (B * (B * (B * B))) = Digits(B, 0, 0, x0, x1)
        /\ (z * (B * (B * B))) % (B * (B * (B * B))) = Digits(B, 0, 0, 0, x0)
    BY <1>1, Moved
  <2> QED
    BY <1>1, <2>1
<1> QED
  BY <1>2, <1>3, <1>5, <1>6, Zenon DEF B, x0, x1, x2, x3

(* What a load of a type makes of the value that was stored: its low bytes, *)
(* with their sign when the type has one.                                   *)
cut(t, x) ==
  LET n   == 2^(ByteBits * ld_size(t))
      low == x % n
  IN  IF ld_sext(t) /\ low >= 2^(ByteBits * ld_size(t) - 1) THEN Wrap(low - n) ELSE low

Sizes == {<<"lb", "sb">>, <<"lbu", "sb">>, <<"lh", "sh">>, <<"lhu", "sh">>, <<"lw", "sw">>}

(* What has been stored is loaded again, by a load of the same size from   *)
(* the same aligned address, for all words: shiftedData, byteEnable and    *)
(* formatRead agree about the lanes.                                       *)
THEOREM LoadReadsBack ==
  ASSUME NEW w \in Word, NEW x \in Word, NEW a \in Int, NEW s \in Sizes, Aligned(a, ld_size(s[1]))
  PROVE  formatRead(a, s[1], storeMemByteEnable(w, shiftedData(a, x), byteEnable(a, s[2])))
           = cut(s[1], x)
<1> DEFINE B == 2^ByteBits
           L == byteEnable(a, s[2])
           y == shiftedData(a, x)
           m == storeMemByteEnable(w, y, L)
           x0 == lane(x, 0)  x1 == lane(x, 1)  x2 == lane(x, 2)  x3 == lane(x, 3)
           y0 == lane(y, 0)  y1 == lane(y, 1)  y2 == lane(y, 2)  y3 == lane(y, 3)
           m0 == lane(m, 0)  m1 == lane(m, 1)  m2 == lane(m, 2)  m3 == lane(m, 3)
           back(n) == m \div 2^(ByteBits * (a % 4)) % 2^(ByteBits * n)
           low(n)  == x % 2^(ByteBits * n)
<1>0. 0 \in 0 .. 3 /\ 1 \in 0 .. 3 /\ 2 \in 0 .. 3 /\ 3 \in 0 .. 3
  OBVIOUS
<1>1. y \in Word /\ m \in Word
  BY ShiftedLanes, StoreIsWord
<1>2. /\ B \in Nat \ {0} /\ 0 \in 0 .. B - 1
      /\ x0 \in 0 .. B - 1 /\ x1 \in 0 .. B - 1 /\ x2 \in 0 .. B - 1 /\ x3 \in 0 .. B - 1
      /\ x = Digits(B, x0, x1, x2, x3)
  <2>1. /\ B \in Nat \ {0}
        /\ x0 \in 0 .. B - 1 /\ x1 \in 0 .. B - 1 /\ x2 \in 0 .. B - 1 /\ x3 \in 0 .. B - 1
        /\ x = Digits(B, x0, x1, x2, x3)
    BY <1>0, LaneNumbers, LanePowers, Zenon
  <2> HIDE DEF B
  <2>2. 0 \in 0 .. B - 1
    BY <2>1, SMT
  <2> QED
    BY <2>1, <2>2
<1>3. /\ m0 \in 0 .. B - 1 /\ m1 \in 0 .. B - 1 /\ m2 \in 0 .. B - 1 /\ m3 \in 0 .. B - 1
      /\ m = Digits(B, m0, m1, m2, m3)
  BY <1>0, <1>1, LaneNumbers, Zenon
<1>4. /\ (0 \in L => m0 = y0) /\ (1 \in L => m1 = y1)
      /\ (2 \in L => m2 = y2) /\ (3 \in L => m3 = y3)
  <2> HIDE DEF L, y
  <2>1. \A k \in 0 .. 3 : k \in L => lane(m, k) = lane(y, k)
    <3>1. ASSUME NEW k \in 0 .. 3, k \in L PROVE lane(m, k) = lane(y, k)
      BY <1>1, <3>1, StoreWritesItsLanes, Zenon
    <3> QED
      BY <3>1, Zenon
  <2> HIDE DEF m
  <2> QED
    BY <1>0, <2>1, Zenon
<1>5. /\ 2^(ByteBits * 0) = 1 /\ 2^(ByteBits * 1) = B
      /\ 2^(ByteBits * 2) = B * B /\ 2^(ByteBits * 3) = B * (B * B)
      /\ 2^(ByteBits * 4) = B * (B * (B * B))
  <2>1. ByteBits * 4 = XLEN
    BY ByteAssumption, SMT DEF XLEN
  <2> QED
    BY <2>1, LanePowers, Zenon
<1>6. /\ a % 4 = 0 => y0 = x0 /\ y1 = x1 /\ y = x
      /\ a % 4 = 1 => y1 = x0
      /\ a % 4 = 2 => y2 = x0 /\ y3 = x1
      /\ a % 4 = 3 => y3 = x0
  <2>1. a % 4 = 0 => y0 = x0 /\ y1 = x1 /\ y = x
    BY ShiftedLanes, Zenon
  <2>2. ASSUME a % 4 = 1 PROVE y1 = x0
    <3>1. y = Digits(B, 0, x0, x1, x2)
      BY <2>2, ShiftedLanes, Zenon
    <3>2. Digits(B, 0, x0, x1, x2) \div B % B = x0
      <4> HIDE DEF B, x0, x1, x2
      <4> QED
        BY <1>2, DigitsOfWord, SMT
    <3> QED
      BY <1>5, <2>2, <3>1, <3>2, Zenon DEF lane
  <2>3. ASSUME a % 4 = 2 PROVE y2 = x0 /\ y3 = x1
    <3>1. y = Digits(B, 0, 0, x0, x1)
      BY <2>3, ShiftedLanes, Zenon
    <3>2. Digits(B, 0, 0, x0, x1) \div (B * B) % B = x0
          /\ Digits(B, 0, 0, x0, x1) \div (B * (B * B)) % B = x1
      <4> HIDE DEF B, x0, x1
      <4> QED
        BY <1>2, DigitsOfWord, SMT
    <3> QED
      BY <1>5, <2>3, <3>1, <3>2, Zenon DEF lane
  <2>4. ASSUME a % 4 = 3 PROVE y3 = x0
    <3>1. y = Digits(B, 0, 0, 0, x0)
      BY <2>4, ShiftedLanes, Zenon
    <3>2. Digits(B, 0, 0, 0, x0) \div (B * (B * B)) % B = x0
      <4> HIDE DEF B, x0
      <4> QED
        BY <1>2, DigitsOfWord, SMT
    <3> QED
      BY <1>5, <2>4, <3>1, <3>2, Zenon DEF lane
  <2> QED
    BY <2>1, <2>2, <2>3, <2>4, Zenon
<1>7. /\ back(1) = lane(m, a % 4)
      /\ a % 4 = 0 => back(2) = m0 + B * m1
      /\ a % 4 = 2 => back(2) = m2 + B * m3
  <2>1. back(1) = lane(m, a % 4)
    BY <1>5, Zenon DEF lane
  <2>2. /\ Digits(B, m0, m1, m2, m3) \div 1 % (B * B) = m0 + B * m1
        /\ Digits(B, m0, m1, m2, m3) \div (B * B) % (B * B) = m2 + B * m3
    <3> HIDE DEF B, m0, m1, m2, m3
    <3> QED
      BY <1>2, <1>3, TwoLanes, SMT
  <2> QED
    BY <1>3, <1>5, <2>1, <2>2, Zenon
<1>8. low(1) = x0 /\ low(2) = x0 + B * x1
  <2>1. /\ Digits(B, x0, x1, x2, x3) \div 1 % (B * B) = x0 + B * x1
        /\ Digits(B, x0, x1, x2, x3) \div 1 % B = x0
    <3> HIDE DEF B, x0, x1, x2, x3
    <3> QED
      BY <1>2, TwoLanes, DigitsOfWord, SMT
  <2>2. x \div 1 = x
    BY PowersOfWord, SMT DEF Word
  <2> QED
    BY <1>2, <1>5, <2>1, <2>2, Zenon
<1>9. CASE s[2] = "sb"
  <2>1. a % 4 \in L
    <3>1. st_size("sb") = 1
      BY Zenon DEF st_size
    <3>2. a % 4 = (a % 4) + 0
      BY SMT
    <3> QED
      BY <1>9, <3>1, <3>2, SMT DEF byteEnable
  <2>2. a % 4 = 0 \/ a % 4 = 1 \/ a % 4 = 2 \/ a % 4 = 3
    BY SMT
  <2>3. lane(m, a % 4) = x0
    <3> HIDE DEF L, m, y
    <3> QED
      BY <1>4, <1>6, <2>1, <2>2, Zenon
  <2>4. back(1) = low(1)
    BY <1>7, <1>8, <2>3, Zenon
  <2>5. ld_size(s[1]) = 1
    BY <1>9, SMT DEF Sizes, ld_size
  <2>6. formatRead(a, s[1], m) = cut(s[1], x)
    <3> HIDE DEF m
    <3> QED
      BY <2>4, <2>5, Zenon DEF formatRead, cut
  <2> QED
    BY <2>6
<1>10. CASE s[2] = "sh"
  <2>1. ld_size(s[1]) = 2
    BY <1>10, SMT DEF Sizes, ld_size
  <2>2. a % 4 = 0 \/ a % 4 = 2
    BY <2>1, SMT DEF Aligned
  <2>3. a % 4 \in L /\ (a % 4) + 1 \in L
    <3>1. st_size("sh") = 2
      BY Zenon DEF st_size
    <3>2. a % 4 = (a % 4) + 0 /\ 0 \in 0 .. 2 - 1 /\ 1 \in 0 .. 2 - 1
      BY SMT
    <3> QED
      BY <1>10, <3>1, <3>2, Zenon DEF byteEnable
  <2>4. back(2) = x0 + B * x1
    <3>1. 0 + 1 = 1 /\ 2 + 1 = 3
      OBVIOUS
    <3> HIDE DEF L, m, y, back
    <3> QED
      BY <1>4, <1>6, <1>7, <2>2, <2>3, <3>1, Zenon
  <2>5. back(2) = low(2)
    BY <1>8, <2>4, Zenon
  <2>6. formatRead(a, s[1], m) = cut(s[1], x)
    <3> HIDE DEF m
    <3> QED
      BY <2>1, <2>5, Zenon DEF formatRead, cut
  <2> QED
    BY <2>6
<1>11. CASE s[2] = "sw"
  <2>1. ld_size(s[1]) = 4
    BY <1>11, SMT DEF Sizes, ld_size
  <2>2. a % 4 = 0
    BY <2>1, SMT DEF Aligned
  <2>3. 0 \in L /\ 1 \in L /\ 2 \in L /\ 3 \in L
    <3>1. st_size("sw") = 4
      BY Zenon DEF st_size
    <3>2. 0 + 0 = 0 /\ 0 + 1 = 1 /\ 0 + 2 = 2 /\ 0 + 3 = 3 /\ 0 \in 0 .. 4 - 1
          /\ 1 \in 0 .. 4 - 1 /\ 2 \in 0 .. 4 - 1 /\ 3 \in 0 .. 4 - 1
      BY SMT
    <3> QED
      BY <1>11, <2>2, <3>1, <3>2, Zenon DEF byteEnable
  <2>4. m = x
    <3>1. y = x
      BY <1>6, <2>2
    <3> HIDE DEF L, m, y
    <3>2. m0 = x0 /\ m1 = x1 /\ m2 = x2 /\ m3 = x3
      BY <1>4, <2>3, <3>1, Zenon
    <3> QED
      BY <1>2, <1>3, <3>2, Zenon
  <2>5. back(4) = low(4)
    <3>1. x \div 1 = x
      BY PowersOfWord, SMT DEF Word
    <3> HIDE DEF m
    <3> QED
      BY <1>5, <2>2, <2>4, <3>1, Zenon
  <2>6. formatRead(a, s[1], m) = cut(s[1], x)
    <3> HIDE DEF m
    <3> QED
      BY <2>1, <2>5, Zenon DEF formatRead, cut
  <2> QED
    BY <2>6
<1>12. s[2] \in {"sb", "sh", "sw"}
  BY SMT DEF Sizes
<1> QED
  BY <1>9, <1>10, <1>11, <1>12, Zenon

(* A load returns a word. *)
LEMMA LoadIsWord ==
  ASSUME NEW a \in Int, NEW t, NEW dout \in Word
  PROVE  formatRead(a, t, dout) \in Word
<1> DEFINE n == ld_size(t)  W == 2^(ByteBits * n)  P == 2^(ByteBits * (a % 4))
           low == dout \div P % W
<1>1. n \in {1, 2, 4}
  BY Zenon DEF ld_size
<1>2. ByteBits * n \in 0 .. 32 /\ ByteBits * (a % 4) \in 0 .. 32 /\ ByteBits * n <= XLEN
      /\ XLEN \in 0 .. 32 /\ (ByteBits * n < XLEN \/ ByteBits * n = XLEN)
  <2> HIDE DEF n
  <2> QED
    BY <1>1, ByteAssumption, SMT DEF XLEN
<1>3. W \in Nat \ {0} /\ P \in Nat \ {0} /\ 2^XLEN \in Nat
  BY <1>2, Powers, PowersOfWord, Zenon
<1>4. W < 2^XLEN \/ W = 2^XLEN
  BY <1>2, PowerOrder, Zenon
<1>5. dout \in Int
  BY PowersOfWord, SMT DEF Word
<1> DEFINE M == 2^XLEN
<1> HIDE DEF W, P, M
<1>6. low \in 0 .. W - 1
  BY <1>3, <1>5, DivMod, Zenon
<1>7. low \in 0 .. M - 1 /\ low - W \in Int
  <2> HIDE DEF low
  <2> QED
    BY <1>3, <1>4, <1>6, SMT DEF M
<1>8. low \in Word /\ Wrap(low - W) \in Word
  BY <1>7, WrapIsWord, Zenon DEF Word, M
<1> QED
  BY <1>8, Zenon DEF formatRead, W, P
=============================================================================

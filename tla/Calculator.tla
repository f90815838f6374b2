------------------------------ MODULE Calculator ------------------------------
(***************************************************************************)
(* The calculator of src/rv_test/test_calculator_ver2.c: what each key     *)
(* does to the numbers, the memory and the display.  A step is a key that  *)
(* get_valid_key lets through, up to the display that shows its effect.    *)
(*                                                                         *)
(* A number is an int and the count of its digits after the point.  In the *)
(* source the digits are decimal, the display has eight of them, the first *)
(* for the sign, and an int has 32 bits, which wrap.  The long long of     *)
(* calc_result is wide enough for every step of it and does not wrap.      *)
(***************************************************************************)
EXTENDS Integers, FiniteSetsExt

CONSTANTS Base,            \* of the digits: 10
          MAX_7SEG_SIZE,   \* digits of the display, with the sign: 8
          DIV_ACCURACY,    \* the digits after the point a quotient starts with: 7
          IntBits          \* the width of an int: 32

(* An int has room for one digit more than the display. *)
ASSUME CalculatorAssumption ==
  /\ Base \in Nat \ {0, 1} /\ MAX_7SEG_SIZE \in Nat \ {0, 1}
  /\ DIV_ACCURACY = MAX_7SEG_SIZE - 1
  /\ IntBits \in Nat \ {0} /\ 2^(IntBits - 1) >= Base^MAX_7SEG_SIZE

(* What the powers that occur are: arithmetic, that no choice of the       *)
(* constants can break.  The proofs know of a power only what this says.   *)
ASSUME PowersAreProducts ==
  /\ Base^0 = 1
  /\ \A k \in 0 .. 4 * MAX_7SEG_SIZE : Base^(k + 1) = Base * Base^k
  /\ 2^(IntBits - 1) \in Nat /\ 2^IntBits = 2 * 2^(IntBits - 1)

MAX_VALUE == Base^(MAX_7SEG_SIZE - 1) - 1
OVERFLOW_VALUE == MAX_VALUE + 1
SCALE == Base^DIV_ACCURACY

VARIABLES current_state, prev_state,  \* Q_N, Q_ZERO, Q_DEC: a number is entered;
                                      \* Q_OP: an operator; Q_RE: a result; Q_ER
          n1,          \* the left operand, and the result
          n2,          \* the number that is entered
          operator,
          memory       \* [n, last_changed_state]

vars == <<current_state, prev_state, n1, n2, operator, memory>>

Operators == {"+", "-", "*", "/", "%"}
Input     == {"Q_N", "Q_ZERO", "Q_DEC"}
States    == Input \union {"Q_OP", "Q_RE", "Q_ER"}

num(value, dp) == [value |-> value, dp |-> dp]
Zero == num(0, 0)

(* Arithmetic of an int, and division that rounds towards zero. *)
int(v) == ((v + 2^(IntBits - 1)) % 2^IntBits) - 2^(IntBits - 1)
Abs(v) == IF v < 0 THEN -v ELSE v
quot(a, b) == IF (a < 0) = (b < 0) THEN Abs(a) \div Abs(b) ELSE -(Abs(a) \div Abs(b))

InRange(v) == -MAX_VALUE <= v /\ v <= MAX_VALUE

memory_clear == [n |-> Zero, last_changed_state |-> "Q_ZERO"]

Init == /\ current_state = "Q_OP" /\ prev_state = "Q_OP"
        /\ n1 = Zero /\ n2 = Zero /\ operator = "+"
        /\ memory = memory_clear

-----------------------------------------------------------------------------
(* calc_result *)

max_dp == Max({n1.dp, n2.dp})
aligned(n, dp) == n.value * Base^(dp - n.dp)

(* A faulty form that puts the point of neither operand in line. *)
raw_unaligned ==
  CASE operator = "+" -> num(n1.value + n2.value, max_dp)
    [] operator = "-" -> num(n1.value - n2.value, max_dp)
    [] operator = "*" -> num(n1.value * n2.value, n1.dp + n2.dp)
    [] operator = "/" -> num(quot(n1.value * SCALE, n2.value), n1.dp - n2.dp + DIV_ACCURACY)
    [] operator = "%" -> num(n1.value - n2.value * quot(n1.value, n2.value), 0)

(* The result before it is cut to the display. *)
raw ==
  CASE operator = "+" -> num(aligned(n1, max_dp) + aligned(n2, max_dp), max_dp)
    [] operator = "-" -> num(aligned(n1, max_dp) - aligned(n2, max_dp), max_dp)
    [] operator = "*" -> num(n1.value * n2.value, n1.dp + n2.dp)
    [] operator = "/" -> num(quot(n1.value * SCALE, n2.value), n1.dp - n2.dp + DIV_ACCURACY)
    [] operator = "%" -> num(n1.value - n2.value * quot(n1.value, n2.value), 0)

impossible == \/ operator \in {"/", "%"} /\ n2.value = 0
              \/ operator = "%" /\ max_dp > 0

(* The last k digits dropped, as the loops do one by one, and the loops:   *)
(* to the digits the display has after the point, to its range, and to the *)
(* last digit that is not zero.                                            *)
drop(n, k) == num(quot(n.value, Base^k), n.dp - k)

shortened(n)  == drop(n, Max({0, n.dp - (MAX_7SEG_SIZE - 1)}))
narrowed(n)   == drop(n, Min({k \in 0 .. n.dp : k = n.dp \/ InRange(drop(n, k).value)}))
normalised(n) == drop(n, Min({k \in 0 .. n.dp : k = n.dp \/ drop(n, k).value % Base # 0}))
result        == normalised(narrowed(shortened(raw)))

(* The state it leads to is next, unless the result cannot be had or shown. *)
calc_result(next) ==
  IF impossible THEN current_state' = "Q_ER" /\ UNCHANGED <<n1, n2>>
  ELSE /\ n2' = Zero
       /\ IF InRange(result.value) THEN n1' = result /\ current_state' = next
          ELSE n1' = num(OVERFLOW_VALUE, 0) /\ current_state' = "Q_ER"

-----------------------------------------------------------------------------
(* The keys.  In Q_ER all but Clear and the end are ignored. *)

(* A faulty form of NextDigit, without the test of the digits after the point. *)
NextDigit_unlimited(d) ==
  /\ current_state \in {"Q_N", "Q_DEC"}
  /\ LET value == int(n2.value * Base + d)
     IN  IF value > MAX_VALUE THEN n2' = Zero /\ current_state' = "Q_ER"
         ELSE /\ n2' = num(value, IF current_state = "Q_DEC" THEN n2.dp + 1 ELSE n2.dp)
              /\ UNCHANGED current_state
  /\ UNCHANGED <<n1, operator, memory>>

(* A digit after the first: an error when the display has no room for it. *)
NextDigit(d) ==
  /\ current_state \in {"Q_N", "Q_DEC"}
  /\ LET value == int(n2.value * Base + d)
         dp    == IF current_state = "Q_DEC" THEN n2.dp + 1 ELSE n2.dp
     IN  IF value > MAX_VALUE \/ dp > MAX_7SEG_SIZE - 1
         THEN n2' = Zero /\ current_state' = "Q_ER"
         ELSE n2' = num(value, dp) /\ UNCHANGED current_state
  /\ UNCHANGED <<n1, operator, memory>>

(* The first digit of a number.  After a result it starts a new calculation. *)
FirstDigit(d) ==
  /\ current_state \in {"Q_ZERO", "Q_OP", "Q_RE"}
  /\ current_state' = IF d = 0 THEN "Q_ZERO" ELSE "Q_N"
  /\ IF current_state = "Q_RE"
       THEN n1' = Zero /\ n2' = num(d, 0) /\ operator' = "+"
       ELSE n2' = [n2 EXCEPT !.value = d] /\ UNCHANGED <<n1, operator>>
  /\ UNCHANGED memory

Period == /\ current_state # "Q_ER"
          /\ current_state' = IF current_state \in {"Q_N", "Q_ZERO"} THEN "Q_DEC" ELSE "Q_ER"
          /\ UNCHANGED <<n1, n2, operator, memory>>

Operator(op) ==
  /\ \/ /\ current_state \in Input
        /\ calc_result("Q_OP")
        /\ operator' = IF current_state' = "Q_OP" THEN op ELSE operator
     \/ /\ current_state = "Q_OP"
        /\ current_state' = "Q_ER"
        /\ UNCHANGED <<n1, n2, operator>>
     \/ /\ current_state = "Q_RE"
        /\ current_state' = "Q_OP" /\ n2' = Zero /\ operator' = op
        /\ UNCHANGED n1
  /\ UNCHANGED memory

Equal ==
  /\ \/ current_state \in Input /\ calc_result("Q_RE")
     \/ current_state = "Q_OP" /\ current_state' = "Q_ER" /\ UNCHANGED <<n1, n2>>
     \/ current_state = "Q_RE" /\ UNCHANGED <<current_state, n1, n2>>
  /\ UNCHANGED <<operator, memory>>

(* Backspace in the middle of a number: what becomes of a state and n2.  A *)
(* number of one digit goes, and so does every negative one without point. *)
erased_point(state, n) ==
  CASE state = "Q_DEC" /\ n.dp > 0 -> [state |-> "Q_DEC", n |-> num(quot(n.value, Base), n.dp)]
    [] state = "Q_DEC" /\ n.dp = 0 -> [state |-> "Q_N", n |-> n]
    [] state = "Q_N" /\ n.value >= Base -> [state |-> "Q_N", n |-> num(n.value \div Base, n.dp)]
    [] OTHER -> [state |-> "Q_OP", n |-> Zero]

(* Faulty forms: above, the point stays; below, the last digit does. *)
erased_digit(state, n) ==
  CASE state = "Q_DEC" /\ n.dp > 0 -> [state |-> "Q_DEC", n |-> drop(n, 1)]
    [] state = "Q_DEC" /\ n.dp = 0 -> [state |-> "Q_N", n |-> n]
    [] state = "Q_N" /\ n.value >= Base -> [state |-> "Q_N", n |-> num(n.value \div Base, n.dp)]
    [] OTHER -> [state |-> "Q_OP", n |-> n]

erased(state, n) ==
  CASE state = "Q_DEC" /\ n.dp > 0 -> [state |-> "Q_DEC", n |-> drop(n, 1)]
    [] state = "Q_DEC" /\ n.dp = 0 -> [state |-> "Q_N", n |-> n]
    [] state = "Q_N" /\ n.value >= Base -> [state |-> "Q_N", n |-> num(n.value \div Base, n.dp)]
    [] OTHER -> [state |-> "Q_OP", n |-> Zero]

(* Backspace after an operator: the number before it is entered again.     *)
(* prev_state is Q_OP by then, so a point without digits is forgotten.     *)
reentered == IF n1.dp > 0 THEN "Q_DEC" ELSE IF n1.value = 0 THEN "Q_ZERO" ELSE "Q_N"

Backspace ==
  /\ \/ /\ current_state \in Input
        /\ current_state' = erased(current_state, n2).state
        /\ n2' = erased(current_state, n2).n
        /\ UNCHANGED <<n1, operator>>
     \/ /\ current_state = "Q_OP"
        /\ current_state' = reentered
        /\ n1' = Zero /\ n2' = n1 /\ operator' = "+"
     \/ /\ current_state = "Q_RE"
        /\ current_state' = "Q_ER"
        /\ UNCHANGED <<n1, n2, operator>>
  /\ UNCHANGED memory

(* memory_add and memory_subtract, with the test for an overflow that      *)
(* comes after the sum has been made in an int.                            *)
memorised(n, sign) ==
  LET dp    == Max({memory.n.dp, n.dp})
      value == int(int(aligned(memory.n, dp)) + sign * int(aligned(n, dp)))
  IN  IF ~InRange(value) THEN memory_clear
      ELSE [n |-> num(value, dp),
            last_changed_state |-> IF dp > 0 THEN "Q_DEC"
                                   ELSE IF value = 0 THEN "Q_ZERO" ELSE "Q_N"]

Memorise(sign) ==
  /\ current_state # "Q_ER"
  /\ memory' = memorised(IF current_state \in Input THEN n2 ELSE n1, sign)
  /\ UNCHANGED <<current_state, n1, n2, operator>>

MemoryRecall ==
  /\ current_state # "Q_ER"
  /\ n2' = memory.n /\ current_state' = memory.last_changed_state
  /\ IF current_state = "Q_RE" THEN n1' = Zero /\ operator' = "+"
                               ELSE UNCHANGED <<n1, operator>>
  /\ UNCHANGED memory

MemoryClear == /\ current_state # "Q_ER"
               /\ memory' = memory_clear
               /\ UNCHANGED <<current_state, n1, n2, operator>>

Ignored == current_state = "Q_ER" /\ UNCHANGED <<current_state, n1, n2, operator, memory>>

Key == \/ \E d \in 0 .. Base - 1 : NextDigit(d) \/ FirstDigit(d)
       \/ \E op \in Operators : Operator(op)
       \/ \E sign \in {1, -1} : Memorise(sign)
       \/ Period \/ Equal \/ Backspace \/ MemoryRecall \/ MemoryClear \/ Ignored

clear_process == /\ current_state' = "Q_OP" /\ prev_state' = "Q_OP"
                 /\ n1' = Zero /\ n2' = Zero /\ operator' = "+"

Clear == clear_process /\ memory' = memory_clear

(* The key that ends main, after which entry.S starts it over.  It clears  *)
(* .bss, but memory is in .data (it starts in M_ZERO, which is not 0), so  *)
(* the memory of the calculator outlives the program.                      *)
Restart == clear_process /\ UNCHANGED memory

Next == \/ Key /\ prev_state' = current_state
        \/ Clear
        \/ Restart

Spec == Init /\ [][Next]_vars

-----------------------------------------------------------------------------
(* update_display, as the function of the state that it is: an error keeps  *)
(* what was shown when it arose.  A position shows a digit or nothing.      *)
(* Before the first key nothing is written, and an earlier display stays.   *)

Blank == -1

(* A faulty form of digits, without the zeros between point and number. *)
digits_unpadded(n) ==
  [k \in 0 .. MAX_7SEG_SIZE - 1 |->
     IF k < MAX_7SEG_SIZE - 1 /\ (k = 0 \/ Abs(n.value) \div Base^k > 0)
     THEN (Abs(n.value) \div Base^k) % Base ELSE Blank]

digits(n) ==
  [k \in 0 .. MAX_7SEG_SIZE - 1 |->
     IF k < MAX_7SEG_SIZE - 1 /\ (k = 0 \/ Abs(n.value) \div Base^k > 0)
     THEN (Abs(n.value) \div Base^k) % Base
     ELSE IF k <= n.dp THEN 0 ELSE Blank]

(* The sign takes the first position, whatever is there. *)
display_num(n) == [text  |-> "number",
                   minus |-> n.value < 0,
                   digit |-> IF n.value < 0 THEN [digits(n) EXCEPT ![MAX_7SEG_SIZE - 1] = Blank]
                                            ELSE digits(n),
                   point |-> {k \in {n.dp} : k > 0 \/ prev_state = "Q_DEC"}]

message(s) == [text |-> s, minus |-> FALSE, digit |-> [k \in 0 .. MAX_7SEG_SIZE - 1 |-> Blank],
               point |-> {}]

display == IF current_state = "Q_ER"
           THEN message(IF n1.value = OVERFLOW_VALUE THEN "overflow" ELSE "error")
           ELSE display_num(IF current_state \in Input THEN n2 ELSE n1)

-----------------------------------------------------------------------------
Int32   == -(2^(IntBits - 1)) .. 2^(IntBits - 1) - 1
Numbers == [value : Int32, dp : 0 .. MAX_7SEG_SIZE - 1]

TypeOK == /\ {current_state, prev_state} \subseteq States /\ operator \in Operators
          /\ {n1, n2, memory.n} \subseteq Numbers /\ memory.last_changed_state \in Input

(* The state says what the numbers are, however it was reached: by keys,   *)
(* by erasing or by a recall.  The handlers rely on it: a first digit      *)
(* keeps the digits after the point, and the operator that follows a       *)
(* result takes n1 as it is.                                               *)
tells(state, n) == CASE state = "Q_ZERO" -> n = Zero
                     [] state = "Q_N"    -> n.dp = 0
                     [] state = "Q_DEC"  -> TRUE
                     [] OTHER            -> n = Zero

StateFits ==
  /\ current_state # "Q_ER" => tells(current_state, n2) /\ InRange(n1.value)
  /\ n2.value <= MAX_VALUE
  /\ n1.dp > 0 => n1.value % Base # 0
  /\ tells(memory.last_changed_state, memory.n) /\ InRange(memory.n.value)

(* A result is the exact one cut off after as many digits as the display   *)
(* and, for a quotient, the accuracy of the division have room for; it is  *)
(* an overflow exactly when the digits before the point are too many.      *)
exact ==
  LET den == Base^n1.dp * Base^n2.dp
  IN  CASE operator = "+" -> [num |-> n1.value * Base^n2.dp + n2.value * Base^n1.dp, den |-> den]
        [] operator = "-" -> [num |-> n1.value * Base^n2.dp - n2.value * Base^n1.dp, den |-> den]
        [] operator = "*" -> [num |-> n1.value * n2.value, den |-> den]
        [] operator = "/" -> [num |-> n1.value * Base^n2.dp, den |-> n2.value * Base^n1.dp]
        [] operator = "%" -> [num |-> n1.value - n2.value * quot(n1.value, n2.value), den |-> 1]

cut(p) == quot(exact.num * Base^p, exact.den)

accuracy == Min({MAX_7SEG_SIZE - 1} \union
                  (IF operator = "/" THEN {n1.dp - n2.dp + DIV_ACCURACY} ELSE {}))

Calculated ==
  IF ~InRange(cut(0)) THEN n1'.value = OVERFLOW_VALUE /\ current_state' = "Q_ER"
  ELSE LET p == Max({q \in 0 .. accuracy : InRange(cut(q))})
       IN  n1'.dp <= p /\ n1'.value * Base^(p - n1'.dp) = cut(p)

ResultExact ==
  [][(/\ current_state \in Input /\ ~impossible
      /\ (Equal \/ \E op \in Operators : Operator(op))) => Calculated]_vars

(* Whatever number is in use, as long as it is in the range of the         *)
(* display, a reader of the display reads that number after the key: no    *)
(* digit is cut off or hidden by the sign, and the point is where it       *)
(* belongs.                                                                *)
reading(d) ==
  LET value == MapThenSumSet(LAMBDA k : Base^k * d.digit[k],
                             {k \in DOMAIN d.digit : d.digit[k] # Blank})
  IN  num(IF d.minus THEN -value ELSE value, Max(d.point \union {0}))

inUse == IF current_state \in Input THEN n2 ELSE n1

DisplayReads ==
  [][current_state' # "Q_ER" /\ InRange(inUse'.value) /\ ~Restart =>
       /\ reading(display') = inUse'
       /\ \A k \in 0 .. Min({inUse'.dp, MAX_7SEG_SIZE - 2}) : display'.digit[k] # Blank]_vars

(* Backspace takes back the digit entered last, and nothing else, for all  *)
(* numbers but those that a recall or a backspace made negative.           *)
DigitTakenBack ==
  [][(/\ \E d \in 0 .. Base - 1 : NextDigit(d)
      /\ current_state' # "Q_ER"
      /\ n2.value > 0 \/ (n2.value = 0 /\ current_state = "Q_DEC"))
     => erased(current_state', n2') = [state |-> current_state, n |-> n2]]_vars
=============================================================================

-------------------------- MODULE ArithmeticProofs --------------------------
(***************************************************************************)
(* What the models' arithmetic does for every size: the bit fields of a    *)
(* word (BitField) and the indices of a ring of n slots, which the rings   *)
(* of TwoBuf and SemShare advance with  (i + 1) % n .                      *)
(***************************************************************************)
EXTENDS BitField, TLAPS

\* bit_opc_set of a number that is not negative leaves every bit outside
\* the field as it was, whether it accepts the number or not.
THEOREM NeighboursKept ==
  ASSUME NEW W \in Nat \ {0}, NEW w \in Word(W), NEW val \in Word(W),
         NEW bit \in Nat, NEW size \in Nat, NEW signed \in BOOLEAN,
         bit + size =< W, ~Negative(W, val, signed),
         NEW i \in (0 .. W - 1) \ Field(bit, size)
  PROVE  BitOpcSet(W, w, bit, size, val, signed)[i] = w[i]
<1>1. CASE TooBig(W, val, size, signed)
  BY <1>1 DEF BitOpcSet
<1>2. CASE ~TooBig(W, val, size, signed)
  <2>1. \A j \in size .. W - 1 : val[j] = 0
    BY <1>2 DEF TooBig, Word
  <2>2. ShiftLeft(W, val, bit)[i] = 0
    <3>1. CASE i < bit
      BY <3>1 DEF ShiftLeft
    <3>2. CASE i >= bit + size
      <4>1. i - bit \in size .. W - 1
        BY <3>2
      <4> QED  BY <2>1, <3>2, <4>1 DEF ShiftLeft
    <3> QED  BY <3>1, <3>2 DEF Field
  <2>3. BitOpclear(W, w, bit, size)[i] = w[i]
    BY DEF BitOpclear
  <2>4. w[i] \in {0, 1}
    BY DEF Word
  <2> QED  BY <1>2, <2>2, <2>3, <2>4 DEF BitOpcSet, BitOr
<1> QED  BY <1>1, <1>2

\* A number bit_opc_set accepts stands in the field afterwards, whatever
\* was there before: the field is cleared first.
THEOREM FieldHoldsValue ==
  ASSUME NEW W \in Nat \ {0}, NEW w \in Word(W), NEW val \in Word(W),
         NEW bit \in Nat, NEW size \in Nat, NEW signed \in BOOLEAN,
         bit + size =< W, ~TooBig(W, val, size, signed),
         NEW i \in Field(bit, size)
  PROVE  BitOpcSet(W, w, bit, size, val, signed)[i] = val[i - bit]
<1>1. i \in 0 .. W - 1 /\ i >= bit /\ i - bit \in 0 .. W - 1
  BY DEF Field
<1>2. ShiftLeft(W, val, bit)[i] = val[i - bit]
  BY <1>1 DEF ShiftLeft
<1>3. BitOpclear(W, w, bit, size)[i] = 0
  BY <1>1 DEF BitOpclear
<1>4. val[i - bit] \in {0, 1}
  BY <1>1 DEF Word
<1> QED  BY <1>1, <1>2, <1>3, <1>4 DEF BitOpcSet, BitOr

\* What bit_opc_set stores is a word again.
LEMMA SetGivesWord ==
  ASSUME NEW W \in Nat \ {0}, NEW w \in Word(W), NEW val \in Word(W),
         NEW bit \in Nat, NEW size \in Nat, NEW signed \in BOOLEAN
  PROVE  BitOpcSet(W, w, bit, size, val, signed) \in Word(W)
BY DEF BitOpcSet, BitOr, Word

\* A number that needs no more bits than the field is accepted, unless the
\* field is the whole word or all of a signed word but its sign.
THEOREM FittingIsAccepted ==
  ASSUME NEW W \in Nat \ {0}, NEW val \in Word(W), NEW size \in Nat,
         NEW signed \in BOOLEAN, size < W - 1,
         \A j \in size .. W - 1 : val[j] = 0
  PROVE  ~TooBig(W, val, size, signed)
BY DEF TooBig

-----------------------------------------------------------------------------
(* The indices of a ring.                                                  *)

\* Advancing an index of a ring stays in the ring.
LEMMA SlotStep ==
  ASSUME NEW n \in Nat \ {0}, NEW i \in 0 .. n - 1
  PROVE  (i + 1) % n \in 0 .. n - 1
OBVIOUS

\* The remainder of a number below 2 n.
LEMMA Wrap ==
  ASSUME NEW n \in Nat \ {0}, NEW a \in 0 .. 2 * n - 1
  PROVE  a % n = IF a < n THEN a ELSE a - n
<1>1. CASE a < n
  BY <1>1
<1>2. CASE a >= n
  BY <1>2
<1>3. QED
  BY <1>1, <1>2

\* A step of the read index shifts the slots behind it by one.
LEMMA WrapShift ==
  ASSUME NEW n \in Nat \ {0}, NEW r \in 0 .. n - 1, NEW i \in 1 .. n - 1
  PROVE  (r + (i + 1) - 1) % n = (((r + 1) % n) + i - 1) % n
<1> DEFINE a == r + (i + 1) - 1
           b == ((r + 1) % n) + i - 1
<1>1. (r + 1) % n = IF r + 1 < n THEN r + 1 ELSE r + 1 - n
  OBVIOUS
<1>2. a \in 0 .. 2 * n - 1 /\ b \in 0 .. 2 * n - 1
  BY <1>1
<1>3. b = a \/ (a >= n /\ b = a - n)
  BY <1>1
<1> HIDE DEF a, b
<1>4. a % n = (IF a < n THEN a ELSE a - n) /\ b % n = (IF b < n THEN b ELSE b - n)
  BY <1>2, Wrap
<1>5. a % n = b % n
  BY <1>2, <1>3, <1>4
<1>6. QED
  BY <1>5 DEF a, b

\* Two places less than n apart are different slots.
LEMMA SlotAhead ==
  ASSUME NEW n \in Nat \ {0}, NEW r \in 0 .. n - 1,
         NEW k \in 0 .. n - 1, NEW i \in 1 .. k
  PROVE  (r + i - 1) % n # (r + k) % n
<1> DEFINE a == r + i - 1
           b == r + k
<1>1. a \in 0 .. 2 * n - 1 /\ b \in 0 .. 2 * n - 1 /\ a < b /\ b < a + n
  OBVIOUS
<1> HIDE DEF a, b
<1>2. a % n = (IF a < n THEN a ELSE a - n) /\ b % n = (IF b < n THEN b ELSE b - n)
  BY <1>1, Wrap
<1>3. a % n # b % n
  BY <1>1, <1>2
<1>4. QED
  BY <1>3 DEF a, b

\* The remainder of x is followed by that of x + 1.
LEMMA WrapNext ==
  ASSUME NEW n \in Nat \ {0}, NEW x \in 0 .. 2 * n - 2
  PROVE  (x + 1) % n = ((x % n) + 1) % n
<1>1. CASE x < n - 1
  BY <1>1
<1>2. CASE x = n - 1
  BY <1>2
<1>3. CASE x > n - 1
  <2>1. x % n = x - n
    BY <1>3
  <2>2. (x + 1) % n = x + 1 - n
    BY <1>3
  <2>3. (x - n + 1) % n = x - n + 1
    BY <1>3
  <2>4. QED
    BY <2>1, <2>2, <2>3
<1>4. QED
  BY <1>1, <1>2, <1>3

\* A read moves the index and the count; their sum points to the same slot.
LEMMA WrapRead ==
  ASSUME NEW n \in Nat \ {0}, NEW r \in 0 .. n - 1, NEW k \in 1 .. n
  PROVE  (((r + 1) % n) + k - 1) % n = (r + k) % n
<1>1. CASE k = n
  <2>1. (r + 1) % n = IF r + 1 < n THEN r + 1 ELSE 0
    OBVIOUS
  <2>2. (r + n) % n = r
    OBVIOUS
  <2>3. (((r + 1) % n) + n - 1) % n = r
    <3>1. CASE r + 1 < n
      <4>1. ((r + 1) % n) + n - 1 = r + n
        BY <2>1, <3>1
      <4>2. QED
        BY <4>1, <2>2
    <3>2. CASE r + 1 = n
      <4>1. ((r + 1) % n) + n - 1 = r
        BY <2>1, <3>2
      <4>2. r % n = r
        OBVIOUS
      <4>3. QED
        BY <4>1, <4>2
    <3>3. QED
      BY <3>1, <3>2
  <2>4. QED
    BY <1>1, <2>2, <2>3
<1>2. CASE k # n
  <2>1. k \in 1 .. n - 1 /\ r + (k + 1) - 1 = r + k
    BY <1>2
  <2>2. QED
    BY <2>1, WrapShift
<1>3. QED
  BY <1>1, <1>2

=============================================================================

------------------------------ MODULE BitField ------------------------------
(***************************************************************************)
(* bit_opclear and bit_opc_set (reflect/reflect.h) on a word of W bits, a  *)
(* function from bit numbers to bits, the lowest bit first.  T, the type   *)
(* of the word, is signed or not.  Both functions shift the int 1: a size  *)
(* of 32 and more is undefined there and not modelled.                     *)
(***************************************************************************)
EXTENDS Integers

Word(W) == [0 .. W - 1 -> {0, 1}]

\* The numbers of the `size` bits from `bit` on.
Field(bit, size) == bit .. bit + size - 1

Negative(W, val, signed) == signed /\ val[W - 1] = 1

\* val >= (T)(1 << size): the right side is 0 when the bit is behind the
\* word and the least number of a signed T when it is the sign.
TooBig(W, val, size, signed) ==
  \/ size >= W /\ ~Negative(W, val, signed)
  \/ size = W - 1 /\ signed
  \/ /\ ~Negative(W, val, signed)
     /\ \E i \in size .. W - 1 : val[i] = 1

\* Mutant of BitOpclear: the mask is not shifted to the field.
BitOpclear_low(W, w, bit, size) ==
  [i \in 0 .. W - 1 |-> IF i < size THEN 0 ELSE w[i]]

BitOpclear(W, w, bit, size) ==
  [i \in 0 .. W - 1 |-> IF i \in Field(bit, size) THEN 0 ELSE w[i]]

ShiftLeft(W, val, bit) ==
  [i \in 0 .. W - 1 |-> IF i >= bit THEN val[i - bit] ELSE 0]

BitOr(W, v, w) == [i \in 0 .. W - 1 |-> IF v[i] = 1 \/ w[i] = 1 THEN 1 ELSE 0]

BitOpcSet(W, w, bit, size, val, signed) ==
  IF TooBig(W, val, size, signed)
  THEN w
  ELSE BitOr(W, BitOpclear(W, w, bit, size), ShiftLeft(W, val, bit))

=============================================================================

--------------------------- MODULE X64Arithmetic ---------------------------
(* The arithmetic of the x64 emulator (src/emulator/x64): unsigned words     *)
(* of one width that wrap around, their signed reading, and the four status  *)
(* flags x64_execution_context and the inc/dec handler derive from an        *)
(* operation.  A width is given by half, the weight of its sign bit: the     *)
(* words are 0 .. 2*half-1.  C++ writes each flag helper once for 64 and     *)
(* once for 32 bits through is_64_bit; here that choice is the value of half.*)
EXTENDS Integers

Word(half) == 0 .. 2 * half - 1

(* The number with the digits digits[0], the lowest, to digits[n - 1].       *)
Number(digits, n, base) ==
  LET value[k \in 0 .. n] == IF k = 0 THEN 0 ELSE digits[n - k] + base * value[k - 1]
  IN  value[n]

(* The n-th power of the base is a one with n zeros.                         *)
Power(base, n) == Number([k \in 0 .. n |-> IF k = n THEN 1 ELSE 0], n + 1, base)

(* The wrap-around of uint32_t and uint64_t addition and subtraction.        *)
Plus(a, b, half) == IF a + b >= 2 * half THEN a + b - 2 * half ELSE a + b

Minus(a, b, half) == IF a >= b THEN a - b ELSE a + 2 * half - b

(* static_cast<int32_t> and static_cast<int64_t> of an unsigned word.        *)
Signed(a, half) == IF a >= half THEN a - 2 * half ELSE a

(* static_cast<uint64_t>(static_cast<int64_t>(v)) of a narrower signed v.    *)
SignExtended(a, narrow, wide) == IF a >= narrow THEN a + 2 * (wide - narrow) ELSE a

HasSign(a, half) == a >= half

Flags == [carry : BOOLEAN, zero : BOOLEAN, sign : BOOLEAN, overflow : BOOLEAN]

(* The bits of RFLAGS other than these four are never read by the emulator.  *)
SetLogicFlags(value, half) ==
  [carry |-> FALSE, zero |-> value = 0, sign |-> HasSign(value, half), overflow |-> FALSE]

SetCompareFlags(lhs, rhs, result, half) ==
  [carry    |-> lhs < rhs,
   zero     |-> result = 0,
   sign     |-> HasSign(result, half),
   overflow |-> /\ HasSign(lhs, half) # HasSign(rhs, half)
                /\ HasSign(lhs, half) # HasSign(result, half)]

SetAddFlags(lhs, rhs, result, half) ==
  [carry    |-> result < lhs,
   zero     |-> result = 0,
   sign     |-> HasSign(result, half),
   overflow |-> /\ HasSign(lhs, half) = HasSign(rhs, half)
                /\ HasSign(lhs, half) # HasSign(result, half)]

(* inc and dec keep the carry flag they find.                                *)
SetIncDecFlags(carry, lhs, result, is_decrement, half) ==
  [carry    |-> carry,
   zero     |-> result = 0,
   sign     |-> HasSign(result, half),
   overflow |-> IF is_decrement THEN HasSign(lhs, half) /\ ~HasSign(result, half)
                                ELSE ~HasSign(lhs, half) /\ HasSign(result, half)]

(* The bitwise operators of C++ on words of the given number of bits.        *)
BitByBit(bit(_, _), a, b, bits) ==
  LET at(v, k) == (v \div Power(2, k)) % 2
  IN  Number([k \in 0 .. bits - 1 |-> bit(at(a, k), at(b, k))], bits, 2)

BitAnd(a, b, bits) == LET both(x, y) == x * y IN BitByBit(both, a, b, bits)
BitOr(a, b, bits) == LET either(x, y) == IF x + y > 0 THEN 1 ELSE 0 IN BitByBit(either, a, b, bits)
BitXor(a, b, bits) == LET one(x, y) == (x + y) % 2 IN BitByBit(one, a, b, bits)
=============================================================================

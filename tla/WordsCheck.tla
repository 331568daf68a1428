----------------------------- MODULE WordsCheck -----------------------------
(***************************************************************************)
(* The arithmetic of Words and CpuDefs against reference definitions, for  *)
(* every pair of operands.  The state is the pair; the two actions step    *)
(* through all of them.                                                    *)
(***************************************************************************)
EXTENDS CpuDefs

CONSTANT Probe    \* the words that a third operand, or b in LogicExact, may be

VARIABLES a, b

Init == a = 0 /\ b = 0

NextA == a' = Wrap(a + 1) /\ b' = b
NextB == b' = Wrap(b + 1) /\ a' = a

Next == NextA \/ NextB

Spec == Init /\ [][Next]_<<a, b>>

(***************************************************************************)
(* Shifts and logic.                                                       *)
(***************************************************************************)
\* The three shifts of cpu.c:214-237 multiply by, divide by, and divide as a
\* signed number (rounding down) by a power of two.
ShiftsExact ==
  b \in Bit =>
    /\ Sll(a, b) = Wrap(a * 2^b)
    /\ Srl(a, b) = a \div 2^b
    /\ Signed(Sra(a, b)) = Signed(a) \div 2^b

\* AND, OR, XOR and NOR (cpu.c:377-391) against the carry identities of
\* addition.
LogicExact ==
  b \in Probe =>
    /\ And(a, b) + Or(a, b) = a + b
    /\ Xor(a, b) = Or(a, b) - And(a, b)
    /\ Nor(a, b) = WordMax - Or(a, b)

(***************************************************************************)
(* Signed arithmetic.                                                      *)
(***************************************************************************)
\* ADD, SUB and ADDI raise an overflow exactly when the sign of the wrapped
\* result is impossible for the signs of the operands, the rule of an adder.
OverflowExact ==
  /\ Overflows(Signed(a) + Signed(b)) <=>
       /\ Negative(a) = Negative(b)
       /\ Negative(Wrap(a + b)) # Negative(a)
  /\ Overflows(Signed(a) - Signed(b)) <=>
       /\ Negative(a) # Negative(b)
       /\ Negative(Wrap(a - b)) # Negative(a)

\* The remainder and quotient after the top i bits of n were divided by d,
\* one bit at a time, with no test for d = 0.
Radix2(n, d) ==
  LET step[i \in 0 .. WordBits] ==
        IF i = 0 THEN [q |-> 0, r |-> 0]
        ELSE LET r == 2 * step[i - 1].r + ((n \div 2^(WordBits - i)) % 2)
             IN  IF r >= d THEN [q |-> 2 * step[i - 1].q + 1, r |-> r - d]
                           ELSE [q |-> 2 * step[i - 1].q, r |-> r]
  IN  step[WordBits]

Radix2Signed(n, d) ==
  LET abs(w) == IF Negative(w) THEN WordSize - w ELSE w
      u == Radix2(abs(n), abs(d))
  IN  [lo |-> Wrap(IF Negative(n) = Negative(d) THEN u.q ELSE -u.q),
       hi |-> Wrap(IF Negative(n) THEN -u.r ELSE u.r)]

\* "consistent with the result of a simple radix-2 implementation"
\* (cpu.c:301): DIV and DIVU give what the bit-serial divider gives, for
\* every dividend and divisor, zero and INT32_MIN / -1 included.
DivisionRadix2 ==
  /\ div(a, b) = Radix2Signed(a, b)
  /\ divu(a, b) = [lo |-> Radix2(a, b).q, hi |-> Radix2(a, b).r]

\* The 64-bit products of MULT and MULTU have the same low word and high
\* words that differ by the operands of the negative factors.
MultSigned ==
  /\ mult(a, b).lo = multu(a, b).lo
  /\ mult(a, b).hi = Wrap(multu(a, b).hi - (IF Negative(a) THEN b ELSE 0)
                                         - (IF Negative(b) THEN a ELSE 0))
  /\ multu(a, b).hi * WordSize + multu(a, b).lo = a * b

(***************************************************************************)
(* Unaligned accesses: b and a are the words at an aligned address and the *)
(* next one, v is a register, k the misalignment of the access.            *)
(***************************************************************************)
Pair == b + a * WordSize

\* The word and the byte offset that the LWL or SWL at address k + 3 finds.
UpperWord(k) == IF k = 0 THEN b ELSE a
UpperByte(k) == IF k = 0 THEN 3 ELSE k - 1

\* LWR at an address and LWL three bytes on, in either order, load the four
\* bytes at that address, whatever the register held before.
UnalignedLoad ==
  \A k \in 0 .. 3, v \in Probe \cap Word :
    LET wanted == Wrap(Pair \div ByteWeight(k)) IN
    /\ lwl_merge(lwr_merge(v, b, k), UpperWord(k), UpperByte(k)) = wanted
    /\ lwr_merge(lwl_merge(v, UpperWord(k), UpperByte(k)), b, k) = wanted

\* SWR and SWL, in the same places, store the four bytes of the register
\* there and change no other byte.
UnalignedStore ==
  \A k \in 0 .. 3, v \in Probe \cap Word :
    LET first == swr_merge(v, b, k)
        after == IF k = 0 THEN swl_merge(v, first, 3) + a * WordSize
                          ELSE first + swl_merge(v, a, k - 1) * WordSize
        below == Pair % ByteWeight(k)
        above == Pair \div (ByteWeight(k) * WordSize)
    IN  after = below + ByteWeight(k) * (v + WordSize * above)

(***************************************************************************)
(* Addresses and the status register.                                      *)
(***************************************************************************)
\* A branch offset whose byte distance fits 16 bits is taken relative to the
\* delay slot; a larger one loses its upper bits (cpu-defs.h:186).
BranchTarget ==
  LET imm == b % HalfSize
      off == IF 2 * imm >= HalfSize THEN imm - HalfSize ELSE imm
  IN  8 * off \in -HalfSize .. HalfSize - 1 =>
        calc_branch_addr(imm, a) = Wrap(a + 4 + 4 * off)

\* RFE undoes the push of an exception: the current and previous pairs of SR
\* come back, and no bit above the stack changes on the way.
SrRoundTrip ==
  /\ sr_pop(sr_push(a)) % 16 = a % 16
  /\ sr_pop(sr_push(a)) \div 64 = a \div 64
  /\ sr_push(sr_push(a)) % 16 = 0
=============================================================================

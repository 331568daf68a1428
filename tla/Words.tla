------------------------------- MODULE Words -------------------------------
(***************************************************************************)
(* The machine words of psycho and what the CPU computes with them: the    *)
(* conversions of core/util.h and the arithmetic of the instruction cases  *)
(* of psycho_cpu_step (core/cpu.c).                                        *)
(*                                                                         *)
(* A byte holds ByteBits bits; a halfword is two bytes, a word four.  The  *)
(* console has ByteBits = 8; TLC checks ByteBits = 2, where every operand  *)
(* can be enumerated.  A word is its unsigned value (u32); Signed is the   *)
(* (s32) cast.  Shifts and logic work on the set of 1-bits of a word, so   *)
(* that no operator of this module is recursive.                           *)
(***************************************************************************)
EXTENDS Integers

CONSTANTS
  ByteBits,   \* bits of a u8
  ByteSize    \* number of u8 values, 2^ByteBits

ASSUME ByteAssumption ==
  /\ ByteBits \in Nat \ {0}
  /\ ByteSize \in Nat \ {0, 1}
  /\ ByteSize = 2^ByteBits /\ ByteSize % 2 = 0

\* The recursion that defines the powers of two, for the bits of a word: a
\* fact of arithmetic, stated here because the provers know 2^i for literals
\* only.
ASSUME PowerAssumption ==
  2^0 = 1 /\ \A i \in 0 .. 4 * ByteBits - 1 : 2^(i + 1) = 2 * 2^i

HalfSize == ByteSize * ByteSize
WordSize == HalfSize * HalfSize
WordBits == 4 * ByteBits

Byte == 0 .. ByteSize - 1
Half == 0 .. HalfSize - 1
Word == 0 .. WordSize - 1
Bit  == 0 .. WordBits - 1

WordMax == WordSize - 1     \* UINT32_MAX
SignBit == WordBits - 1

(***************************************************************************)
(* Conversions.                                                            *)
(***************************************************************************)
Wrap(x) == x % WordSize                          \* assignment to a u32

Negative(w) == w >= WordSize \div 2

Signed(w) == IF Negative(w) THEN w - WordSize ELSE w     \* (s32)w

\* Mutant: the sign-extended value is left negative.
MutSignExt(x, size) == IF 2 * x >= size THEN x - size ELSE x

SignExt(x, size) == Wrap(IF 2 * x >= size THEN x - size ELSE x)

sign_ext_16_32(x) == SignExt(x, HalfSize)

sign_ext_8_32(x) == SignExt(x, ByteSize)

BitsOf(w) == {i \in Bit : (w \div 2^i) % 2 = 1}

\* The word whose 1-bits are S (there is exactly one when S \subseteq Bit).
FromBits(S) ==
  LET words == {w \in Word : BitsOf(w) = S}
  IN  IF words = {} THEN 0 ELSE CHOOSE w \in words : TRUE

Bool(p) == IF p THEN 1 ELSE 0                    \* a C comparison as u32

(***************************************************************************)
(* Shifts and logic.                                                       *)
(***************************************************************************)
Sll(w, s) == FromBits({i \in Bit : i - s \in BitsOf(w)})

Srl(w, s) == FromBits({i \in Bit : i + s \in BitsOf(w)})

\* Mutant: an arithmetic shift that fills with zeros.
MutSra(w, s) == Srl(w, s)

Sra(w, s) ==
  FromBits({i \in Bit : (IF i + s > SignBit THEN SignBit ELSE i + s) \in BitsOf(w)})

And(a, b) == FromBits(BitsOf(a) \cap BitsOf(b))
Or(a, b)  == FromBits(BitsOf(a) \cup BitsOf(b))
Nor(a, b) == FromBits(Bit \ (BitsOf(a) \cup BitsOf(b)))

\* Mutant: XOR computes OR.
MutXor(a, b) == Or(a, b)

Xor(a, b) ==
  FromBits((BitsOf(a) \cup BitsOf(b)) \ (BitsOf(a) \cap BitsOf(b)))

\* Mutant: the largest positive value plus one is accepted.
MutOverflows(x) == x < -(WordSize \div 2) \/ x > WordSize \div 2

(***************************************************************************)
(* __builtin_sadd_overflow and __builtin_ssub_overflow: does the exact     *)
(* result x of a signed operation fail to fit an s32?                      *)
(***************************************************************************)
Overflows(x) == x < -(WordSize \div 2) \/ x >= WordSize \div 2

(***************************************************************************)
(* Multiplication and division: the new values of HI and LO.               *)
(***************************************************************************)
\* Mutant: the high word of a negative product is not wrapped.
MutHiLo(prod) == [hi |-> prod \div WordSize, lo |-> Wrap(prod)]

HiLo(prod) == [hi |-> Wrap(prod \div WordSize), lo |-> Wrap(prod)]

\* Mutant: only the first factor is sign-extended.
MutMult(a, b) == HiLo(Signed(a) * b)

mult(a, b) == HiLo(Signed(a) * Signed(b))

multu(a, b) == HiLo(a * b)

\* C division truncates towards zero, \div rounds down.
TruncDiv(n, d) ==
  LET abs(x) == IF x < 0 THEN -x ELSE x
      q == abs(n) \div abs(d)
  IN  IF (n < 0) = (d < 0) THEN q ELSE -q

\* Mutant: the quotient rounded down instead of truncated.
MutDiv(dividend, divisor) ==
  LET n == Signed(dividend)  d == Signed(divisor) IN
  IF d = 0
  THEN [lo |-> IF n < 0 THEN 1 ELSE WordMax, hi |-> dividend]
  ELSE LET q == IF d < 0 THEN (-n) \div (-d) ELSE n \div d
       IN [lo |-> Wrap(q), hi |-> Wrap(n - d * q)]

div(dividend, divisor) ==
  LET n == Signed(dividend)  d == Signed(divisor) IN
  CASE d = 0 -> [lo |-> IF n < 0 THEN 1 ELSE WordMax, hi |-> dividend]
    [] d # 0 /\ dividend = WordSize \div 2 /\ divisor = WordMax ->
         [lo |-> dividend, hi |-> 0]
    [] OTHER -> [lo |-> Wrap(TruncDiv(n, d)),
                 hi |-> Wrap(n - d * TruncDiv(n, d))]

divu(dividend, divisor) ==
  IF divisor = 0 THEN [lo |-> WordMax, hi |-> dividend]
                 ELSE [lo |-> dividend \div divisor, hi |-> dividend % divisor]

(***************************************************************************)
(* The two halves of an unaligned access.  k is the byte offset of the     *)
(* address in its word (m_paddr & 3), ByteWeight(k) the weight of byte k.  *)
(***************************************************************************)
ByteWeight(k) == CASE k = 0 -> 1
                   [] k = 1 -> ByteSize
                   [] k = 2 -> HalfSize
                   [] OTHER -> HalfSize * ByteSize

\* LWL keeps the low 3-k bytes of val, LWR the high k bytes.
lwl_merge(val, word, k) ==
  Wrap((val % ByteWeight(3 - k)) + (word * ByteWeight(3 - k)))

\* Mutant: LWR forgets the bytes the register already holds.
MutLwrMerge(val, word, k) == word \div ByteWeight(k)

lwr_merge(val, word, k) ==
  LET kept == IF k = 0 THEN 0 ELSE val - (val % ByteWeight(4 - k))
  IN  Wrap(kept + (word \div ByteWeight(k)))

\* SWL replaces the low k+1 bytes of the memory word, SWR the high 4-k.
swl_merge(reg, word, k) ==
  LET kept == IF k = 3 THEN 0 ELSE word - (word % ByteWeight(k + 1))
  IN  Wrap(kept + (reg \div ByteWeight(3 - k)))

\* Mutant: the shift of SWR one byte short.
MutSwrMerge(reg, word, k) ==
  Wrap((word % ByteWeight(k)) + (reg * ByteWeight(IF k = 0 THEN 0 ELSE k - 1)))

swr_merge(reg, word, k) ==
  Wrap((word % ByteWeight(k)) + (reg * ByteWeight(k)))

(***************************************************************************)
(* The results of the register-register and register-immediate             *)
(* instructions; a is gpr[rs], b is gpr[rt], sh the shift amount field,    *)
(* imm the 16-bit immediate.                                               *)
(***************************************************************************)
AluRegOps == {"SLL", "SRL", "SRA", "SLLV", "SRLV", "SRAV", "ADDU", "SUBU",
              "AND", "OR", "XOR", "NOR", "SLT", "SLTU"}

AluImmOps == {"ADDIU", "SLTI", "SLTIU", "ANDI", "ORI", "XORI", "LUI"}

alu_reg(op, a, b, sh) ==
  CASE op = "SLL"  -> Sll(b, sh)
    [] op = "SRL"  -> Srl(b, sh)
    [] op = "SRA"  -> Sra(b, sh)
    [] op = "SLLV" -> Sll(b, a % WordBits)
    [] op = "SRLV" -> Srl(b, a % WordBits)
    [] op = "SRAV" -> Sra(b, a % WordBits)
    [] op = "ADDU" -> Wrap(a + b)
    [] op = "SUBU" -> Wrap(a - b)
    [] op = "AND"  -> And(a, b)
    [] op = "OR"   -> Or(a, b)
    [] op = "XOR"  -> Xor(a, b)
    [] op = "NOR"  -> Nor(a, b)
    [] op = "SLT"  -> Bool(Signed(a) < Signed(b))
    [] OTHER       -> Bool(a < b)                                 \* SLTU

alu_imm(op, a, imm) ==
  CASE op = "ADDIU" -> Wrap(sign_ext_16_32(imm) + a)
    [] op = "SLTI"  -> Bool(Signed(a) < Signed(sign_ext_16_32(imm)))
    [] op = "SLTIU" -> Bool(a < sign_ext_16_32(imm))
    [] op = "ANDI"  -> And(a, imm)
    [] op = "ORI"   -> Or(a, imm)
    [] op = "XORI"  -> Xor(a, imm)
    [] OTHER        -> Wrap(imm * HalfSize)                       \* LUI
=============================================================================

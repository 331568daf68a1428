---------------------------- MODULE WordsProofs ----------------------------
(***************************************************************************)
(* The arithmetic of Words and CpuDefs meets its reference definitions for *)
(* every size of a byte.  TLC enumerates the operands of small words; here *)
(* the size is a parameter, and 8-bit bytes are one of its values.         *)
(***************************************************************************)
EXTENDS WordsCheck, WellFoundedInduction, TLAPS

(***************************************************************************)
(* Arithmetic modulo n, where the provers need the quotient spelled out.   *)
(***************************************************************************)
\* Quotient and remainder.
LEMMA DivMod ==
  ASSUME NEW n \in Nat \ {0}, NEW x \in Int
  PROVE  x \div n \in Int /\ x % n \in 0 .. n - 1 /\ x = n * (x \div n) + (x % n)
PROOF
  OBVIOUS

\* There is no other quotient and no other remainder.
LEMMA ModUnique ==
  ASSUME NEW n \in Nat \ {0}, NEW x \in Int, NEW q \in Int, NEW k \in 0 .. n - 1, x = n * q + k
  PROVE  x % n = k /\ x \div n = q
PROOF
<1> DEFINE r == x \div n
           m == x % n
<1>1. r \in Int /\ m \in 0 .. n - 1
  OBVIOUS
<1>2. x = n * r + m
  OBVIOUS
<1> HIDE DEF r, m
<1>3. m - k = n * (q - r) /\ k - m = n * (r - q)
  BY <1>1, <1>2
<1>4. ASSUME NEW d \in Int, d > 0 PROVE n * d >= n
  BY <1>4
<1>5. CASE q = r
  BY <1>1, <1>3, <1>5 DEF m, r
<1>6. CASE q > r
  <2>1. n * (q - r) >= n
    BY <1>1, <1>4, <1>6
  <2> QED
    BY <1>1, <1>3, <2>1
<1>7. CASE r > q
  <2>1. n * (r - q) >= n
    BY <1>1, <1>4, <1>7
  <2> QED
    BY <1>1, <1>3, <2>1
<1> QED
  BY <1>1, <1>5, <1>6, <1>7

\* A multiple of n more adds to the quotient only.
LEMMA ModShift ==
  ASSUME NEW n \in Nat \ {0}, NEW x \in Int, NEW k \in Int
  PROVE  (x + n * k) % n = x % n /\ (x + n * k) \div n = (x \div n) + k
PROOF
<1> DEFINE q == x \div n
           r == x % n
           y == x + n * k
<1>1. q \in Int /\ r \in 0 .. n - 1 /\ x = n * q + r
  BY DivMod
<1> HIDE DEF q, r
<1>2. y \in Int /\ y = n * (q + k) + r
  BY <1>1
<1>3. q + k \in Int
  BY <1>1
<1> HIDE DEF y
<1>4. y % n = r /\ y \div n = q + k
  BY <1>1, <1>2, <1>3, ModUnique
<1> QED
  BY <1>4 DEF q, r, y

\* Adding to the remainder or to the number leaves the same remainder.
LEMMA ModAdd ==
  ASSUME NEW n \in Nat \ {0}, NEW x \in Int, NEW k \in Int
  PROVE  ((x % n) + k) % n = (x + k) % n
PROOF
<1> DEFINE q == x \div n
           r == x % n
<1>1. q \in Int /\ r \in 0 .. n - 1 /\ x = n * q + r
  BY DivMod
<1> HIDE DEF q, r
<1>2. r + k \in Int /\ x + k = (r + k) + n * q
  BY <1>1
<1>3. ((r + k) + n * q) % n = (r + k) % n
  BY <1>1, <1>2, ModShift
<1> QED
  BY <1>2, <1>3 DEF r

\* A number below n is its own remainder.
LEMMA ModSmall ==
  ASSUME NEW n \in Nat \ {0}, NEW x \in 0 .. n - 1
  PROVE  x % n = x
PROOF
  OBVIOUS

\* The sizes of words, and of half of the words.
LEMMA Sizes ==
  /\ HalfSize \in Nat \ {0} /\ WordSize \in Nat \ {0}
  /\ WordSize \div 2 \in Nat \ {0} /\ WordSize = 2 * (WordSize \div 2)
PROOF
<1>1. HalfSize \in Nat \ {0}
  BY ByteAssumption DEF HalfSize
<1>2. WordSize \in Nat \ {0}
  BY <1>1 DEF WordSize
<1>3. WordSize = 2 * (WordSize \div 2)
  <2> DEFINE m == ByteSize \div 2
             j == m * (ByteSize * HalfSize)
  <2>1. m \in Nat /\ ByteSize = 2 * m /\ ByteSize \in Nat
    BY ByteAssumption
  <2>2. WordSize = (2 * m) * (ByteSize * HalfSize)
    BY <1>1, <2>1 DEF WordSize, HalfSize
  <2> HIDE DEF m
  <2>3. j \in Int /\ WordSize = 2 * j
    BY <1>1, <2>1, <2>2
  <2> HIDE DEF j
  <2> QED
    BY <2>3
<1> QED
  BY <1>2, <1>3, <1>1

(***************************************************************************)
(* Induction over the bits of a word.  The claim is a set of indexes, and  *)
(* the least index outside it leads to a contradiction.                    *)
(***************************************************************************)
\* A nonempty set of natural numbers has a least element.
LEMMA LeastElement ==
  ASSUME NEW I \in SUBSET Nat, I # {}
  PROVE  \E n \in I : \A m \in I : n <= m
PROOF
<1>1. \E n \in I : \A m \in I : <<m, n>> \notin OpToRel(<, Nat)
  BY NatLessThanWellFounded, WFMin
<1>2. ASSUME NEW m \in Nat, NEW n \in Nat, ~ (n <= m) PROVE <<m, n>> \in OpToRel(<, Nat)
  <2>1. m < n
    BY <1>2
  <2> QED
    BY <2>1 DEF OpToRel
<1> QED
  BY <1>1, <1>2

\* From 0 up to n.
LEMMA Upward ==
  ASSUME NEW n \in Nat, NEW S, 0 \in S, \A i \in 0 .. n - 1 : i \in S => i + 1 \in S
  PROVE  0 .. n \subseteq S
PROOF
<1> DEFINE I == (0 .. n) \ S
<1> SUFFICES ASSUME I # {} PROVE FALSE
  OBVIOUS
<1>1. I \in SUBSET Nat
  OBVIOUS
<1> HIDE DEF I
<1>2. PICK m \in I : \A k \in I : m <= k
  BY <1>1, LeastElement
<1>3. m \in 0 .. n /\ m \notin S /\ m # 0
  BY <1>2 DEF I
<1>4. m - 1 \in 0 .. n - 1 /\ m - 1 \notin I
  BY <1>2, <1>3
<1> QED
  BY <1>3, <1>4 DEF I

\* From n down to 0.
LEMMA Downward ==
  ASSUME NEW n \in Nat, NEW S, n \in S, \A i \in 0 .. n - 1 : i + 1 \in S => i \in S
  PROVE  0 \in S
PROOF
<1> DEFINE I == {k \in 0 .. n : n - k \in S}
<1>1. 0 \in I
  OBVIOUS
<1>2. ASSUME NEW i \in 0 .. n - 1, i \in I PROVE i + 1 \in I
  <2>1. n - (i + 1) \in 0 .. n - 1 /\ (n - (i + 1)) + 1 = n - i
    OBVIOUS
  <2> QED
    BY <1>2, <2>1
<1> HIDE DEF I
<1>3. 0 .. n \subseteq I
  BY <1>1, <1>2, Upward
<1> QED
  BY <1>3 DEF I

(***************************************************************************)
(* Powers of two.                                                          *)
(***************************************************************************)
LEMMA Powers ==
  /\ WordBits \in Nat \ {0}
  /\ \A i \in 0 .. WordBits : 2^i \in Nat \ {0}
  /\ \A i \in Bit : 2^(i + 1) = 2 * 2^i
  /\ 2^0 = 1
PROOF
<1>1. WordBits \in Nat \ {0} /\ WordBits = 4 * ByteBits
  BY ByteAssumption DEF WordBits
<1>2. 2^0 = 1 /\ \A i \in 0 .. WordBits - 1 : 2^(i + 1) = 2 * 2^i
  BY <1>1, PowerAssumption
<1> DEFINE S == {k \in 0 .. WordBits : 2^k \in Nat \ {0}}
<1>3. 0 \in S
  BY <1>1, <1>2
<1>4. \A k \in 0 .. WordBits - 1 : k \in S => k + 1 \in S
  BY <1>1, <1>2
<1> HIDE DEF S
<1>5. 0 .. WordBits \subseteq S
  BY <1>1, <1>3, <1>4, Upward
<1>6. \A i \in 0 .. WordBits : 2^i \in Nat \ {0}
  BY <1>5 DEF S
<1> QED
  BY <1>1, <1>2, <1>6 DEF Bit

\* Exponents add.
LEMMA PowersAdd ==
  ASSUME NEW i \in Nat, NEW j \in Nat, i + j <= WordBits
  PROVE  2^(i + j) = 2^i * 2^j
PROOF
<1> DEFINE n == WordBits - j
           S == {k \in 0 .. n : 2^(k + j) = 2^k * 2^j}
<1>1. n \in Nat /\ i \in 0 .. n /\ j \in 0 .. WordBits
  BY Powers
<1>2. 2^j \in Nat
  BY <1>1, Powers
<1>3. 0 \in S
  BY <1>1, <1>2, Powers
<1>4. ASSUME NEW k \in 0 .. n - 1, k \in S PROVE k + 1 \in S
  <2>1. k \in Bit /\ k + j \in Bit /\ k \in 0 .. WordBits /\ k + 1 \in 0 .. n
    BY <1>1, Powers DEF Bit
  <2>2. 2^(k + 1) = 2 * 2^k /\ 2^((k + j) + 1) = 2 * 2^(k + j) /\ 2^k \in Nat
    BY <2>1, Powers
  <2>3. 2^(k + j) = 2^k * 2^j
    BY <1>4
  <2>4. (k + j) + 1 = (k + 1) + j
    BY <1>1, <2>1
  <2>5. 2^((k + 1) + j) = 2 * 2^(k + j)
    BY <2>2, <2>4
  <2>6. 2 * (2^k * 2^j) = (2 * 2^k) * 2^j
    BY <1>2, <2>2
  <2>7. 2^((k + 1) + j) = 2^(k + 1) * 2^j
    BY <2>2, <2>3, <2>5, <2>6
  <2> QED
    BY <2>1, <2>7
<1> HIDE DEF S
<1>5. 0 .. n \subseteq S
  BY <1>1, <1>3, <1>4, Upward
<1> QED
  BY <1>1, <1>5 DEF S

\* The size of a word, and of half of the words.
LEMMA WordPower ==
  WordSize = 2^WordBits /\ WordSize \div 2 = 2^SignBit /\ SignBit \in Bit /\ SignBit + 1 = WordBits
PROOF
<1>1. ByteBits \in Nat \ {0} /\ WordBits = 4 * ByteBits /\ ByteSize = 2^ByteBits /\ ByteSize \in Nat
  BY ByteAssumption DEF WordBits
<1> DEFINE n == 2 * ByteBits
<1>2. n \in Nat /\ n = ByteBits + ByteBits /\ n + n = WordBits /\ n <= WordBits
  BY <1>1
<1>3. 2^n = 2^ByteBits * 2^ByteBits
  BY <1>1, <1>2, PowersAdd
<1>4. 2^(n + n) = 2^n * 2^n
  <2>1. PICK m \in Nat : m = n
    BY <1>2
  <2>2. m + m <= WordBits
    BY <1>1, <1>2, <2>1
  <2>3. 2^(m + m) = 2^m * 2^m
    BY <2>2, PowersAdd
  <2> QED
    BY <2>1, <2>3
<1>5. WordSize = 2^WordBits
  BY <1>1, <1>2, <1>3, <1>4 DEF WordSize, HalfSize
<1>6. SignBit \in Bit /\ SignBit + 1 = WordBits
  BY Powers DEF SignBit, Bit
<1>7. WordSize = 2 * 2^SignBit /\ 2^SignBit \in Nat
  <2>1. SignBit \in 0 .. WordBits
    BY <1>6, Powers DEF Bit
  <2> QED
    BY <1>5, <1>6, <2>1, Powers
<1>8. WordSize \div 2 = 2^SignBit
  BY <1>7
<1> QED
  BY <1>5, <1>6, <1>8

(***************************************************************************)
(* The operands.                                                           *)
(***************************************************************************)
Operands == a \in Word /\ b \in Word

\* Stepping through the words stays in the words.
LEMMA OperandsType == Spec => []Operands
PROOF
<1>1. Init => Operands
  BY Sizes DEF Init, Operands, Word
<1>2. Operands /\ [Next]_<<a, b>> => Operands'
  BY Sizes DEF Operands, Next, NextA, NextB, Word, Wrap
<1> QED
  BY <1>1, <1>2, PTL DEF Spec

(***************************************************************************)
(* Signed arithmetic.                                                      *)
(***************************************************************************)
\* ADD, ADDI and SUB of cpu.c overflow exactly when an adder would say so.
THEOREM OverflowRule == Spec => []OverflowExact
PROOF
<1>1. Operands => OverflowExact
  <2> SUFFICES ASSUME Operands PROVE OverflowExact
    OBVIOUS
  <2> DEFINE W == WordSize
             h == WordSize \div 2
  <2>1. W \in Nat /\ h \in Nat \ {0} /\ W = 2 * h /\ a \in 0 .. W - 1 /\ b \in 0 .. W - 1
    BY Sizes DEF Operands, Word
  <2>2. /\ \A x \in 0 .. W - 1 : Wrap(x) = x
        /\ \A x \in W .. 2 * W - 1 : Wrap(x) = x - W
        /\ \A x \in -W .. -1 : Wrap(x) = x + W
    <3>1. ASSUME NEW x \in W .. 2 * W - 1 PROVE x % W = x - W
      <4>1. x = W * 1 + (x - W) /\ x - W \in 0 .. W - 1 /\ 1 \in Int /\ x \in Int /\ W \in Nat \ {0}
        BY <2>1
      <4> QED
        BY <4>1, ModUnique
    <3>2. ASSUME NEW x \in -W .. -1 PROVE x % W = x + W
      <4>1. x = W * (-1) + (x + W) /\ x + W \in 0 .. W - 1 /\ -1 \in Int /\ x \in Int /\ W \in Nat \ {0}
        BY <2>1
      <4> QED
        BY <4>1, ModUnique
    <3> QED
      BY <2>1, <3>1, <3>2, ModSmall DEF Wrap
  <2>3. /\ Signed(a) = (IF a >= h THEN a - W ELSE a) /\ Signed(b) = (IF b >= h THEN b - W ELSE b)
        /\ \A x : Overflows(x) <=> x < -h \/ x >= h
    BY DEF Signed, Negative, Overflows
  <2> HIDE DEF W, h
  <2>4. Overflows(Signed(a) + Signed(b)) <=>
          Negative(a) = Negative(b) /\ Negative(Wrap(a + b)) # Negative(a)
    <3>1. Wrap(a + b) = IF a + b < W THEN a + b ELSE (a + b) - W
      BY <2>1, <2>2
    <3>2. Overflows(Signed(a) + Signed(b)) <=>
            (a >= h <=> b >= h) /\ ~ (Wrap(a + b) >= h <=> a >= h)
      BY <2>1, <2>3, <3>1
    <3>3. (Negative(a) = Negative(b)) <=> (a >= h <=> b >= h)
      BY DEF Negative, h
    <3>4. (Negative(Wrap(a + b)) # Negative(a)) <=> ~ (Wrap(a + b) >= h <=> a >= h)
      BY DEF Negative, h
    <3> QED
      BY <3>2, <3>3, <3>4
  <2>5. Overflows(Signed(a) - Signed(b)) <=>
          Negative(a) # Negative(b) /\ Negative(Wrap(a - b)) # Negative(a)
    <3>1. Wrap(a - b) = IF a >= b THEN a - b ELSE (a - b) + W
      BY <2>1, <2>2
    <3>2. Overflows(Signed(a) - Signed(b)) <=>
            ~ (a >= h <=> b >= h) /\ ~ (Wrap(a - b) >= h <=> a >= h)
      BY <2>1, <2>3, <3>1
    <3>3. (Negative(a) # Negative(b)) <=> ~ (a >= h <=> b >= h)
      BY DEF Negative, h
    <3>4. (Negative(Wrap(a - b)) # Negative(a)) <=> ~ (Wrap(a - b) >= h <=> a >= h)
      BY DEF Negative, h
    <3> QED
      BY <3>2, <3>3, <3>4
  <2> QED
    BY <2>4, <2>5 DEF OverflowExact
<1> QED
  BY <1>1, OperandsType, PTL

\* MULT and MULTU leave the 64-bit products: the unsigned one exactly, and
\* the signed one as the textbook correction of its high word.
THEOREM Products == Spec => []MultSigned
PROOF
<1>1. Operands => MultSigned
  <2> SUFFICES ASSUME Operands PROVE MultSigned
    OBVIOUS
  <2> DEFINE W == WordSize
             x == a * b
             q == x \div W
             na == IF Negative(a) THEN 1 ELSE 0
             nb == IF Negative(b) THEN 1 ELSE 0
             c == -(na * b) - (nb * a)
             k == c + W * (na * nb)
  <2>1. W \in Nat \ {0} /\ a \in 0 .. W - 1 /\ b \in 0 .. W - 1
    BY Sizes DEF Operands, Word
  <2>2. na \in {0, 1} /\ nb \in {0, 1}
    OBVIOUS
  <2>3. Signed(a) = a - W * na /\ Signed(b) = b - W * nb
    BY <2>1 DEF Signed
  <2>4. c = (0 - (IF Negative(a) THEN b ELSE 0)) - (IF Negative(b) THEN a ELSE 0)
    BY <2>1
  <2> HIDE DEF W, na, nb
  <2>5. x \in Nat /\ c \in Int /\ k \in Int
    <3>1. na * b \in Int /\ nb * a \in Int /\ W * (na * nb) \in Int
      BY <2>1, <2>2
    <3> QED
      BY <2>1, <3>1
  <2>6. Signed(a) * Signed(b) = x + W * k
    <3>1. CASE na = 0 /\ nb = 0
      BY <2>1, <2>3, <3>1
    <3>2. CASE na = 1 /\ nb = 0
      BY <2>1, <2>3, <3>2
    <3>3. CASE na = 0 /\ nb = 1
      BY <2>1, <2>3, <3>3
    <3>4. CASE na = 1 /\ nb = 1
      BY <2>1, <2>3, <3>4
    <3> QED
      BY <2>2, <3>1, <3>2, <3>3, <3>4
  <2>7. q \in 0 .. W - 1 /\ x = W * q + (x % W)
    <3>1. q \in Int /\ x % W \in 0 .. W - 1 /\ x = W * q + (x % W)
      BY <2>1, <2>5, DivMod
    <3>2. x < W * W
      <4>1. a * b <= a * W /\ a * W < W * W
        BY <2>1
      <4> QED
        BY <2>1, <4>1
    <3> HIDE DEF q, x
    <3>3. q >= 0
      <4>1. ASSUME q <= -1 PROVE W * q <= -W
        BY <2>1, <3>1, <4>1
      <4> QED
        BY <2>1, <2>5, <3>1, <4>1
    <3>4. q < W
      <4>1. ASSUME q >= W PROVE W * q >= W * W
        BY <2>1, <3>1, <4>1
      <4>2. W * W \in Int /\ W * q \in Int
        BY <2>1, <3>1
      <4> QED
        BY <2>1, <2>5, <3>1, <3>2, <4>1, <4>2
    <3> QED
      BY <2>1, <3>1, <3>3, <3>4
  <2>8. HiLo(x) = [hi |-> q, lo |-> x % W]
    <3>1. Wrap(q) = q
      BY <2>1, <2>7, ModSmall DEF Wrap, W
    <3> QED
      BY <3>1 DEF HiLo, Wrap, W
  <2> HIDE DEF x, q, k, c
  <2>9. (x + W * k) % W = x % W /\ (x + W * k) \div W = (x \div W) + k
    <3>1. x \in Int
      BY <2>5
    <3> QED
      BY <2>1, <2>5, <3>1, ModShift
  <2>10. Wrap(q + k) = Wrap(q + c)
    <3>1. q + k = (q + c) + W * (na * nb)
      BY <2>1, <2>2, <2>5, <2>7 DEF k
    <3>2. q + c \in Int /\ na * nb \in Int
      BY <2>2, <2>5, <2>7
    <3>3. ((q + c) + W * (na * nb)) % W = (q + c) % W
      BY <2>1, <3>2, ModShift
    <3> QED
      BY <3>1, <3>3 DEF Wrap, W
  <2>11. mult(a, b) = [hi |-> Wrap(q + c), lo |-> x % W]
    BY <2>6, <2>9, <2>10 DEF mult, HiLo, Wrap, W, q
  <2>12. multu(a, b) = [hi |-> q, lo |-> x % W]
    BY <2>8 DEF multu, x
  <2>13. q + c = q - (IF Negative(a) THEN b ELSE 0) - (IF Negative(b) THEN a ELSE 0)
    BY <2>1, <2>4, <2>7
  <2>14. q * W + (x % W) = x
    BY <2>1, <2>7
  <2> QED
    BY <2>11, <2>12, <2>13, <2>14 DEF MultSigned, W, x
<1> QED
  BY <1>1, OperandsType, PTL

(***************************************************************************)
(* Addresses and the status register.                                      *)
(***************************************************************************)
\* A branch of cpu.c goes where its offset says, backwards and forwards and
\* around the end of the address space, as long as the distance fits.
THEOREM BranchArithmetic == Spec => []BranchTarget
PROOF
<1>1. Operands => BranchTarget
  <2> SUFFICES ASSUME Operands PROVE BranchTarget
    OBVIOUS
  <2> DEFINE W == WordSize
             H == HalfSize
             imm == b % H
             off == IF 2 * imm >= H THEN imm - H ELSE imm
  <2>1. W \in Nat \ {0} /\ H \in Nat \ {0} /\ a \in Nat /\ b \in Nat
    BY Sizes DEF Operands, Word
  <2>2. imm \in 0 .. H - 1
    BY <2>1
  <2> SUFFICES ASSUME 8 * off \in -H .. H - 1
               PROVE  calc_branch_addr(imm, a) = Wrap(a + 4 + 4 * off)
    BY DEF BranchTarget
  <2> HIDE DEF W, H, imm
  <2>3. sign_ext_16_32((imm * 4) % H) = Wrap(4 * off)
    <3>1. CASE 2 * imm >= H
      <4>1. off = imm - H /\ 4 * off + H \in 0 .. H - 1 /\ 2 * (4 * off + H) >= H
        BY <2>1, <2>2, <3>1
      <4>2. imm * 4 = (4 * off + H) + H * 3 /\ 4 * off + H \in Int
        BY <2>1, <2>2, <4>1
      <4>3. (imm * 4) % H = 4 * off + H
        <5> DEFINE y == 4 * off + H
        <5>1. y \in 0 .. H - 1 /\ y \in Int /\ 3 \in Int /\ imm * 4 = y + H * 3
          BY <4>1, <4>2
        <5> HIDE DEF y
        <5>2. (y + H * 3) % H = y % H
          BY <2>1, <5>1, ModShift
        <5> QED
          BY <2>1, <5>1, <5>2, ModSmall DEF y
      <4> QED
        BY <2>1, <2>2, <4>1, <4>3 DEF sign_ext_16_32, SignExt, H
    <3>2. CASE ~ (2 * imm >= H)
      <4>1. off = imm /\ imm * 4 \in 0 .. H - 1 /\ ~ (2 * (imm * 4) >= H) /\ 4 * off = imm * 4
        BY <2>1, <2>2, <3>2
      <4>2. (imm * 4) % H = imm * 4
        BY <2>1, <4>1, ModSmall
      <4> QED
        BY <4>1, <4>2 DEF sign_ext_16_32, SignExt, H
    <3> QED
      BY <3>1, <3>2
  <2>4. off \in Int
    BY <2>1, <2>2
  <2> HIDE DEF off
  <2>5. (((4 * off) % W) + (a + 4)) % W = (4 * off + (a + 4)) % W
    <3>1. 4 * off \in Int /\ a + 4 \in Int
      BY <2>1, <2>4
    <3> QED
      BY <2>1, <3>1, ModAdd
  <2>6. Wrap(4 * off) + a + 4 = ((4 * off) % W) + (a + 4) /\ a + 4 + 4 * off = 4 * off + (a + 4)
    BY <2>1, <2>4 DEF Wrap, W
  <2> QED
    BY <2>3, <2>5, <2>6 DEF calc_branch_addr, Wrap, W, H
<1> QED
  BY <1>1, OperandsType, PTL

\* raise_exception and RFE are inverse on the current and previous pairs of
\* SR and leave every bit above the stack alone.  A word must have room for
\* the six bits of the stack: bytes of two bits or more.
THEOREM StatusStack ==
  ASSUME ByteBits >= 2
  PROVE  Spec => []SrRoundTrip
PROOF
<1>1. WordSize \in Nat \ {0} /\ WordSize % 64 = 0
  <2> DEFINE m == 2^(ByteBits - 2)
             j == (m * m) * (m * m)
  <2>1. m \in Nat /\ ByteSize = 4 * m
    <3>1. PICK i \in Bit : i = ByteBits - 2 /\ i + 1 \in Bit /\ i \in 0 .. WordBits /\ (i + 1) + 1 = ByteBits
      BY ByteAssumption DEF Bit, WordBits
    <3>2. 2^i \in Nat /\ 2^(i + 1) = 2 * 2^i /\ 2^((i + 1) + 1) = 2 * 2^(i + 1)
      BY <3>1, Powers
    <3> QED
      BY <3>1, <3>2, ByteAssumption
  <2> HIDE DEF m
  <2>2. WordSize = ((4 * m) * (4 * m)) * ((4 * m) * (4 * m))
    BY <2>1 DEF WordSize, HalfSize
  <2>3. m * m \in Nat /\ (4 * m) * (4 * m) = 16 * (m * m)
    BY <2>1
  <2>4. j \in Nat /\ WordSize = 256 * j
    BY <2>2, <2>3
  <2> HIDE DEF j
  <2> QED
    BY <2>4, Sizes
<1>2. Operands => SrRoundTrip
  <2> SUFFICES ASSUME Operands PROVE SrRoundTrip
    OBVIOUS
  <2> DEFINE Pushed(x) == (x - (x % 64)) + 4 * (x % 16)
             Popped(x) == (x - (x % 16)) + ((x % 64) \div 4)
  <2>1. \A x \in Word : Pushed(x) \in Word /\ Popped(x) \in Word
    BY <1>1 DEF Word
  <2>2. \A x \in Word : sr_push(x) = Pushed(x) /\ sr_pop(x) = Popped(x)
    BY <1>1, <2>1, ModSmall DEF sr_push, sr_pop, Wrap, Word
  <2>3. \A x \in Int : /\ Popped(Pushed(x)) % 16 = x % 16
                       /\ Popped(Pushed(x)) \div 64 = x \div 64
                       /\ Pushed(Pushed(x)) % 16 = 0
    OBVIOUS
  <2>4. a \in Word /\ a \in Int
    BY <1>1 DEF Operands, Word
  <2> HIDE DEF Pushed, Popped
  <2>5. /\ Popped(Pushed(a)) % 16 = a % 16
        /\ Popped(Pushed(a)) \div 64 = a \div 64
        /\ Pushed(Pushed(a)) % 16 = 0
    BY <2>3, <2>4
  <2>6. sr_pop(sr_push(a)) = Popped(Pushed(a)) /\ sr_push(sr_push(a)) = Pushed(Pushed(a))
    BY <2>1, <2>2, <2>4
  <2> QED
    BY <2>5, <2>6 DEF SrRoundTrip
<1> QED
  BY <1>2, OperandsType, PTL

(***************************************************************************)
(* Unaligned accesses.  A word of W = c * d values is split into its low   *)
(* part, below c, and its high part, and likewise at d.                    *)
(***************************************************************************)
\* Weights of the bytes around a misalignment.
LEMMA Weights ==
  /\ \A k \in 0 .. 3 : ByteWeight(k) \in Nat \ {0}
  /\ \A k \in 1 .. 3 : WordSize = ByteWeight(k) * ByteWeight(4 - k)
  /\ ByteWeight(0) = 1
PROOF
<1> DEFINE s == ByteSize
<1>1. s \in Nat \ {0} /\ s * s \in Nat \ {0} /\ (s * s) * s \in Nat \ {0}
  BY ByteAssumption
<1>2. /\ ByteWeight(0) = 1 /\ ByteWeight(1) = s
      /\ ByteWeight(2) = s * s /\ ByteWeight(3) = (s * s) * s
      /\ WordSize = (s * s) * (s * s)
  BY DEF ByteWeight, HalfSize, WordSize
<1> HIDE DEF s
<1>3. (s * s) * (s * s) = s * ((s * s) * s) /\ (s * s) * (s * s) = ((s * s) * s) * s
  BY <1>1
<1>4. ASSUME NEW k \in 0 .. 3 PROVE k = 0 \/ k = 1 \/ k = 2 \/ k = 3
  OBVIOUS
<1>5. /\ 4 - 1 = 3 /\ 4 - 2 = 2 /\ 4 - 3 = 1
  OBVIOUS
<1> QED
  BY <1>1, <1>2, <1>3, <1>4, <1>5

\* The part of a word above c, below d and at a multiple of d.
LEMMA Split ==
  ASSUME NEW c \in Nat \ {0}, NEW d \in Nat \ {0}, NEW x \in 0 .. (c * d) - 1
  PROVE  /\ x \div c \in 0 .. d - 1 /\ x % c \in 0 .. c - 1
         /\ x = c * (x \div c) + (x % c)
PROOF
<1> DEFINE q == x \div c
           r == x % c
<1>1. c * d \in Nat /\ x \in Nat
  OBVIOUS
<1>2. q \in Int /\ r \in 0 .. c - 1 /\ x = c * q + r
  BY <1>1, DivMod
<1> HIDE DEF q, r
<1>3. q >= 0
  <2>1. ASSUME q <= -1 PROVE c * q <= -c
    BY <1>2, <2>1
  <2> QED
    BY <1>1, <1>2, <2>1
<1>4. q < d
  <2>1. ASSUME q >= d PROVE c * q >= c * d
    BY <1>2, <2>1
  <2>2. c * q \in Int
    BY <1>2
  <2> QED
    BY <1>1, <1>2, <2>1, <2>2
<1> QED
  BY <1>2, <1>3, <1>4 DEF q, r

\* Two parts make a word again, which has them as its parts.
LEMMA Join ==
  ASSUME NEW c \in Nat \ {0}, NEW d \in Nat \ {0}, NEW q \in 0 .. d - 1, NEW r \in 0 .. c - 1
  PROVE  /\ c * q + r \in 0 .. (c * d) - 1
         /\ (c * q + r) % c = r /\ (c * q + r) \div c = q
PROOF
<1>1. c * q \in Nat /\ c * d \in Nat
  OBVIOUS
<1>2. c * q <= c * (d - 1) /\ c * (d - 1) = (c * d) - c
  OBVIOUS
<1>3. c * q + r \in 0 .. (c * d) - 1
  BY <1>1, <1>2
<1> DEFINE x == c * q + r
<1>4. x \in Int /\ x = c * q + r /\ q \in Int
  BY <1>1
<1> HIDE DEF x
<1>5. x % c = r /\ x \div c = q
  BY <1>4, ModUnique
<1> QED
  BY <1>3, <1>5 DEF x

\* A word moved up by d loses its part above c.
LEMMA Shifted ==
  ASSUME NEW c \in Nat \ {0}, NEW d \in Nat \ {0}, NEW q \in 0 .. d - 1, NEW x \in Nat
  PROVE  (q + x * d) % (c * d) = d * (x % c) + q
PROOF
<1> DEFINE h == x \div c
           r == x % c
           y == d * r + q
<1>1. h \in Int /\ r \in 0 .. c - 1 /\ x = c * h + r
  BY DivMod
<1> HIDE DEF h, r
<1>2. y \in 0 .. (d * c) - 1
  BY <1>1, Join
<1>3. c * d \in Nat \ {0} /\ d * c = c * d
  OBVIOUS
<1>4. q + x * d = y + (c * d) * h
  <2>1. x * d = (c * h) * d + r * d
    BY <1>1
  <2>2. (c * h) * d = (c * d) * h /\ r * d = d * r
    BY <1>1
  <2>3. (c * h) * d \in Int /\ r * d \in Int
    BY <1>1
  <2> QED
    BY <2>1, <2>2, <2>3
<1>5. PICK n \in Nat \ {0} : n = c * d
  BY <1>3
<1> HIDE DEF y
<1>6. y \in Int /\ y \in 0 .. n - 1 /\ (y + n * h) % n = y % n
  BY <1>1, <1>2, <1>3, <1>5, ModShift
<1>7. y % n = y
  BY <1>6, ModSmall
<1> QED
  BY <1>4, <1>5, <1>6, <1>7 DEF y, r

\* The four bytes at offset k of two consecutive words.
Merged(lo, hi, k) ==
  IF k = 0 THEN lo
  ELSE ByteWeight(4 - k) * (hi % ByteWeight(k)) + (lo \div ByteWeight(k))

\* LWR at offset k and LWL in the next word, in either order, leave those
\* bytes whatever the register held.
LEMMA LoadsMerge ==
  ASSUME NEW lo \in Word, NEW hi \in Word, NEW v \in Word, NEW k \in 1 .. 3
  PROVE  /\ lwl_merge(lwr_merge(v, lo, k), hi, k - 1) = Merged(lo, hi, k)
         /\ lwr_merge(lwl_merge(v, hi, k - 1), lo, k) = Merged(lo, hi, k)
         /\ Merged(lo, hi, k) \in Word
PROOF
<1> DEFINE c == ByteWeight(k)
           d == ByteWeight(4 - k)
           q == lo \div c
           low == v % d
           high == v \div d
<1>1. c \in Nat \ {0} /\ d \in Nat \ {0} /\ WordSize = c * d /\ d * c = c * d
  <2>1. k \in 0 .. 3 /\ 4 - k \in 0 .. 3
    OBVIOUS
  <2>2. c \in Nat \ {0} /\ d \in Nat \ {0} /\ WordSize = c * d
    BY <2>1, Weights
  <2> HIDE DEF c, d
  <2> QED
    BY <2>2
<1>2. 3 - (k - 1) = 4 - k /\ k # 0
  OBVIOUS
<1>3. /\ \A x, w : lwl_merge(x, w, k - 1) = ((x % d) + (w * d)) % (c * d)
      /\ \A x, w : lwr_merge(x, w, k) = ((x - (x % d)) + (w \div c)) % (c * d)
      /\ Merged(lo, hi, k) = d * (hi % c) + q
  BY <1>1, <1>2 DEF lwl_merge, lwr_merge, Wrap, Merged
<1>4. lo \in 0 .. (c * d) - 1 /\ hi \in 0 .. (c * d) - 1 /\ v \in 0 .. (d * c) - 1 /\ hi \in Nat
  BY <1>1 DEF Word
<1> HIDE DEF c, d
<1>5. q \in 0 .. d - 1 /\ low \in 0 .. d - 1 /\ high \in 0 .. c - 1 /\ v = d * high + low
  BY <1>1, <1>4, Split
<1>6. hi % c \in 0 .. c - 1
  BY <1>1, <1>4
<1>7. c * d \in Nat \ {0}
  BY <1>1
<1>8. \A x \in 0 .. c - 1, y \in 0 .. d - 1 :
        /\ d * x + y \in 0 .. (c * d) - 1
        /\ (d * x + y) % d = y
        /\ ((d * x + y) - y) + q = d * x + q
        /\ (d * x + q) % (c * d) = d * x + q
  <2> SUFFICES ASSUME NEW x \in 0 .. c - 1, NEW y \in 0 .. d - 1
               PROVE  /\ d * x + y \in 0 .. (c * d) - 1
                      /\ (d * x + y) % d = y
                      /\ ((d * x + y) - y) + q = d * x + q
                      /\ (d * x + q) % (c * d) = d * x + q
    OBVIOUS
  <2>1. /\ d * x + y \in 0 .. (c * d) - 1 /\ (d * x + y) % d = y
        /\ d * x + q \in 0 .. (c * d) - 1
    BY <1>1, <1>5, Join
  <2>2. d * x \in Int
    BY <1>1
  <2> QED
    BY <1>5, <1>7, <2>1, <2>2, ModSmall
<1> HIDE DEF q, low, high
<1>9. lwr_merge(v, lo, k) = d * high + q /\ (d * high + q) % d = q
  BY <1>3, <1>5, <1>8 DEF low, q
<1>10. lwl_merge(v, hi, k - 1) = d * (hi % c) + low
  <2>1. (low + hi * d) % (c * d) = d * (hi % c) + low
    BY <1>1, <1>4, <1>5, Shifted
  <2> QED
    BY <1>3, <2>1 DEF low
<1>11. lwl_merge(lwr_merge(v, lo, k), hi, k - 1) = d * (hi % c) + q
  <2>1. (q + hi * d) % (c * d) = d * (hi % c) + q
    BY <1>1, <1>4, <1>5, Shifted
  <2> QED
    BY <1>3, <1>9, <2>1
<1>12. lwr_merge(lwl_merge(v, hi, k - 1), lo, k) = d * (hi % c) + q
  BY <1>3, <1>5, <1>6, <1>8, <1>10 DEF q
<1> QED
  BY <1>1, <1>3, <1>5, <1>6, <1>8, <1>11, <1>12 DEF Word

\* At an aligned address either of the two loads the whole word.
LEMMA LoadsWhole ==
  ASSUME NEW lo \in Word, NEW v \in Word
  PROVE  lwl_merge(v, lo, 3) = lo /\ lwr_merge(v, lo, 0) = lo
PROOF
<1>1. lo \in 0 .. WordSize - 1 /\ WordSize \in Nat \ {0} /\ v \in Nat
  BY Sizes DEF Word
<1>2. ByteWeight(0) = 1 /\ 3 - 3 = 0
  BY Weights
<1>3. (v % 1) + (lo * 1) = lo /\ 0 + (lo \div 1) = lo
  BY <1>1
<1>4. Wrap(lo) = lo
  BY <1>1, ModSmall DEF Wrap
<1> QED
  BY <1>2, <1>3, <1>4 DEF lwl_merge, lwr_merge

\* LWR and LWL (cpu.c:540, 595) load the four bytes at any address, in either
\* order and whatever the register held.
THEOREM UnalignedLoads == Spec => []UnalignedLoad
PROOF
<1>1. Operands => UnalignedLoad
  <2> SUFFICES ASSUME Operands, NEW k \in 0 .. 3, NEW v \in Word
               PROVE  LET wanted == Wrap(Pair \div ByteWeight(k)) IN
                      /\ lwl_merge(lwr_merge(v, b, k), UpperWord(k), UpperByte(k)) = wanted
                      /\ lwr_merge(lwl_merge(v, UpperWord(k), UpperByte(k)), b, k) = wanted
    BY DEF UnalignedLoad
  <2>1. a \in Word /\ b \in Word
    BY DEF Operands
  <2>2. a \in Nat /\ b \in 0 .. WordSize - 1 /\ WordSize \in Nat \ {0}
    BY <2>1, Sizes DEF Word
  <2>3. CASE k = 0
    <3>1. Wrap(Pair \div ByteWeight(k)) = b
      <4>1. ByteWeight(0) = 1
        BY Weights
      <4>2. a * WordSize = WordSize * a /\ WordSize * a \in Int
        BY <2>2
      <4>3. Pair \in Int /\ Pair \div 1 = Pair /\ Pair = b + WordSize * a
        BY <2>2, <4>2 DEF Pair
      <4>4. (b + WordSize * a) % WordSize = b % WordSize
        BY <2>2, ModShift
      <4> QED
        BY <2>2, <2>3, <4>1, <4>3, <4>4, ModSmall DEF Wrap
    <3>2. lwr_merge(v, b, 0) = b /\ lwl_merge(v, b, 3) = b /\ lwl_merge(b, b, 3) = b
          /\ lwr_merge(b, b, 0) = b
      BY <2>1, LoadsWhole
    <3> QED
      BY <2>3, <3>1, <3>2 DEF UpperWord, UpperByte
  <2>4. CASE k \in 1 .. 3
    <3> DEFINE c == ByteWeight(k)
               d == ByteWeight(4 - k)
               q == b \div c
               r == b % c
               p == Pair
    <3>1. c \in Nat \ {0} /\ d \in Nat \ {0} /\ WordSize = c * d
      <4>1. k \in 0 .. 3 /\ 4 - k \in 0 .. 3
        BY <2>4
      <4> QED
        BY <2>4, <4>1, Weights
    <3>2. p = b + a * WordSize
      BY DEF Pair
    <3> HIDE DEF c, d, p
    <3>3. q \in 0 .. d - 1 /\ r \in 0 .. c - 1 /\ b = c * q + r
      BY <2>2, <3>1, Split
    <3> HIDE DEF q, r
    <3>4. p \in Int /\ p = c * (q + a * d) + r /\ q + a * d \in Int
      <4>1. a * (c * d) = c * (a * d) /\ c * (q + a * d) = c * q + c * (a * d)
        BY <2>2, <3>1, <3>3
      <4>2. a * d \in Int /\ c * q \in Int /\ c * (a * d) \in Int
        BY <2>2, <3>1, <3>3
      <4> QED
        BY <2>2, <3>1, <3>2, <3>3, <4>1, <4>2
    <3>5. p \div c = q + a * d
      BY <3>1, <3>3, <3>4, ModUnique
    <3>6. (q + a * d) % (c * d) = d * (a % c) + q
      <4>1. c \in Nat \ {0} /\ d \in Nat \ {0} /\ q \in 0 .. d - 1 /\ a \in Nat
        BY <2>2, <3>1, <3>3
      <4> QED
        BY <4>1, Shifted
    <3>7. Wrap(Pair \div ByteWeight(k)) = Merged(b, a, k)
      BY <2>4, <3>1, <3>5, <3>6 DEF Wrap, Merged, c, d, p, q
    <3>8. UpperWord(k) = a /\ UpperByte(k) = k - 1
      BY <2>4 DEF UpperWord, UpperByte
    <3> QED
      BY <2>1, <2>4, <3>7, <3>8, LoadsMerge
  <2>5. k = 0 \/ k \in 1 .. 3
    OBVIOUS
  <2> QED
    BY <2>3, <2>4, <2>5
<1> QED
  BY <1>1, OperandsType, PTL

\* SWR and SWL place the two parts of a register beside what they keep of
\* the two words.
LEMMA StoresMerge ==
  ASSUME NEW lo \in Word, NEW hi \in Word, NEW v \in Word, NEW k \in 1 .. 3
  PROVE  /\ swr_merge(v, lo, k) = ByteWeight(k) * (v % ByteWeight(4 - k)) + (lo % ByteWeight(k))
         /\ swl_merge(v, hi, k - 1) =
              ByteWeight(k) * (hi \div ByteWeight(k)) + (v \div ByteWeight(4 - k))
PROOF
<1> DEFINE c == ByteWeight(k)
           d == ByteWeight(4 - k)
           h == hi \div c
           u == v \div d
<1>1. c \in Nat \ {0} /\ d \in Nat \ {0} /\ WordSize = c * d /\ d * c = c * d
  <2>1. k \in 0 .. 3 /\ 4 - k \in 0 .. 3
    OBVIOUS
  <2>2. c \in Nat \ {0} /\ d \in Nat \ {0} /\ WordSize = c * d
    BY <2>1, Weights
  <2> HIDE DEF c, d
  <2> QED
    BY <2>2
<1>2. 3 - (k - 1) = 4 - k /\ (k - 1) + 1 = k /\ k - 1 # 3
  OBVIOUS
<1>3. /\ swr_merge(v, lo, k) = ((lo % c) + (v * c)) % (d * c)
      /\ swl_merge(v, hi, k - 1) = ((hi - (hi % c)) + u) % (c * d)
  BY <1>1, <1>2 DEF swr_merge, swl_merge, Wrap
<1>4. /\ lo \in 0 .. (c * d) - 1 /\ hi \in 0 .. (c * d) - 1 /\ v \in 0 .. (d * c) - 1
      /\ v \in Nat /\ lo \in Nat
  BY <1>1 DEF Word
<1> HIDE DEF c, d
<1>5. h \in 0 .. d - 1 /\ hi % c \in 0 .. c - 1 /\ hi = c * h + (hi % c) /\ u \in 0 .. c - 1
  BY <1>1, <1>4, Split
<1> HIDE DEF h, u
<1>6. lo % c \in 0 .. c - 1
  BY <1>1, <1>4
<1>7. ((lo % c) + (v * c)) % (d * c) = c * (v % d) + (lo % c)
  <2>1. PICK z \in 0 .. c - 1 : z = lo % c
    BY <1>6
  <2>2. (z + v * c) % (d * c) = c * (v % d) + z
    BY <1>1, <1>4, Shifted
  <2> QED
    BY <2>1, <2>2
<1>8. (hi - (hi % c)) + u = c * h + u
  <2>1. c * h \in Int
    BY <1>1, <1>5
  <2> QED
    BY <1>5, <2>1
<1>9. (c * h + u) % (c * d) = c * h + u
  <2>1. c * h + u \in 0 .. (c * d) - 1
    BY <1>1, <1>5, Join
  <2>2. PICK n \in Nat \ {0} : n = c * d
    BY <1>1
  <2> QED
    BY <2>1, <2>2, ModSmall
<1> QED
  BY <1>3, <1>7, <1>8, <1>9 DEF c, d, h, u

\* SWR and SWL (cpu.c:633, 661) store the register at any address and leave
\* the bytes around it alone.
THEOREM UnalignedStores == Spec => []UnalignedStore
PROOF
<1> DEFINE First(v, k) == swr_merge(v, b, k)
           After(v, k) == IF k = 0 THEN swl_merge(v, First(v, k), 3) + a * WordSize
                          ELSE First(v, k) + swl_merge(v, a, k - 1) * WordSize
<1>1. Operands => UnalignedStore
  <2> SUFFICES ASSUME Operands, NEW k \in 0 .. 3, NEW v \in Word
               PROVE  After(v, k) =
                        (Pair % ByteWeight(k)) +
                          ByteWeight(k) * (v + WordSize * (Pair \div (ByteWeight(k) * WordSize)))
    BY DEF UnalignedStore
  <2> DEFINE W == WordSize
             p == Pair
  <2>1. a \in Word /\ b \in Word
    BY DEF Operands
  <2>2. a \in 0 .. W - 1 /\ b \in 0 .. W - 1 /\ v \in 0 .. W - 1 /\ W \in Nat \ {0}
    BY <2>1, Sizes DEF Word
  <2>3. p = b + a * W
    BY DEF Pair
  <2>4. a * W = W * a /\ W * a \in Int /\ p \in Int
    BY <2>2, <2>3
  <2>5. CASE k = 0
    <3>1. ByteWeight(0) = 1
      BY Weights
    <3>2. First(v, 0) = v /\ swl_merge(v, v, 3) = v
      <4>1. (b % 1) + (v * 1) = v /\ 0 + (v \div 1) = v /\ 3 - 3 = 0
        BY <2>2
      <4>2. v % W = v
        BY <2>2, ModSmall
      <4> QED
        BY <3>1, <4>1, <4>2 DEF swr_merge, swl_merge, Wrap
    <3>3. p % 1 = 0 /\ p \div (1 * W) = a
      <4>1. p = W * a + b /\ a \in Int
        BY <2>2, <2>3, <2>4
      <4> HIDE DEF p, W
      <4>2. p \div W = a
        BY <2>2, <2>4, <4>1, ModUnique
      <4>3. 1 * W = W /\ p % 1 = 0
        BY <2>2, <2>4
      <4> QED
        BY <4>2, <4>3
    <3>4. v + W * a = 0 + 1 * (v + W * a)
      BY <2>2, <2>4
    <3> QED
      BY <2>4, <2>5, <3>1, <3>2, <3>3, <3>4
  <2>6. CASE k \in 1 .. 3
    <3> DEFINE c == ByteWeight(k)
               d == ByteWeight(4 - k)
               h == a \div c
               r == a % c
               low == b % c
               g == b \div c
               vh == v \div d
               vl == v % d
    <3>1. c \in Nat \ {0} /\ d \in Nat \ {0} /\ W = c * d
      <4>1. k \in 0 .. 3 /\ 4 - k \in 0 .. 3
        BY <2>6
      <4> QED
        BY <2>6, <4>1, Weights
    <3>2. After(v, k) = (c * vl + low) + (c * h + vh) * W
      BY <2>1, <2>6, StoresMerge
    <3> HIDE DEF W, p, c, d, After
    <3>3. /\ h \in Int /\ r \in 0 .. c - 1 /\ a = c * h + r
          /\ vh \in Int /\ vl \in 0 .. d - 1 /\ v = d * vh + vl
          /\ g \in Int /\ low \in 0 .. c - 1 /\ b = c * g + low
      <4>1. a \in Int /\ b \in Int /\ v \in Int
        BY <2>2
      <4> QED
        BY <3>1, <4>1, DivMod
    <3> HIDE DEF h, r, low, g, vh, vl
    <3>4. p % c = low
      <4> DEFINE m == g + d * a
      <4>1. d * a \in Int /\ c * g \in Int /\ c * (d * a) \in Int /\ c * (d * a) = (c * d) * a
        BY <2>2, <3>1, <3>3
      <4>2. m \in Int /\ c * m = c * g + c * (d * a)
        BY <3>1, <3>3, <4>1
      <4>3. p = c * m + low
        BY <2>2, <2>3, <2>4, <3>1, <3>3, <4>1, <4>2
      <4> HIDE DEF m
      <4>4. c \in Nat \ {0} /\ p \in Int /\ m \in Int /\ low \in 0 .. c - 1 /\ p = c * m + low
        BY <2>4, <3>1, <3>3, <4>2, <4>3
      <4> QED
        BY <4>4, ModUnique
    <3>5. p \div (c * W) = h
      <4> DEFINE y == W * r + b
      <4>1. y \in 0 .. (W * c) - 1 /\ W * c = c * W /\ c * W \in Nat \ {0}
        BY <2>2, <3>1, <3>3, Join
      <4>2. W * a = (c * W) * h + W * r /\ (c * W) * h \in Int /\ W * r \in Int
        BY <2>2, <3>1, <3>3
      <4>3. p = (c * W) * h + y
        BY <2>2, <2>3, <2>4, <4>2
      <4>4. PICK n \in Nat \ {0} : n = c * W
        BY <4>1
      <4> HIDE DEF y
      <4>5. y \in 0 .. n - 1 /\ p = n * h + y
        BY <4>1, <4>3, <4>4
      <4>6. p \div n = h
        BY <2>4, <3>3, <4>5, ModUnique
      <4> QED
        BY <4>4, <4>6
    <3>6. (c * vl + low) + (c * h + vh) * W = low + c * (v + W * h)
      <4>1. c * (v + W * h) = c * v + c * (W * h) /\ c * (W * h) = (c * h) * W
        BY <2>2, <3>1, <3>3
      <4>2. c * v = c * (d * vh) + c * vl /\ c * (d * vh) = vh * W
        BY <2>2, <3>1, <3>3
      <4>3. (c * h + vh) * W = (c * h) * W + vh * W
        BY <2>2, <3>1, <3>3
      <4>4. (c * h) * W \in Int /\ vh * W \in Int /\ c * vl \in Int
        BY <2>2, <3>1, <3>3
      <4> QED
        BY <3>3, <4>1, <4>2, <4>3, <4>4
    <3> QED
      BY <3>2, <3>4, <3>5, <3>6 DEF W, p, c
  <2>7. k = 0 \/ k \in 1 .. 3
    OBVIOUS
  <2> QED
    BY <2>5, <2>6, <2>7
<1> QED
  BY <1>1, OperandsType, PTL

\* The word of four bytes, the low one first.
FourBytes(x0, x1, x2, x3) ==
  x0 + x1 * ByteSize + x2 * (ByteSize * ByteSize) + x3 * ((ByteSize * ByteSize) * ByteSize)

\* The parts of a word of four bytes above and below each of them.
LEMMA BytesSplit ==
  ASSUME NEW x0 \in Byte, NEW x1 \in Byte, NEW x2 \in Byte, NEW x3 \in Byte
  PROVE  LET s == ByteSize
             x == FourBytes(x0, x1, x2, x3)
         IN  /\ x % s = x0 /\ x \div s = x1 + x2 * s + x3 * (s * s)
             /\ x % (s * s) = x0 + x1 * s /\ x \div (s * s) = x2 + x3 * s
             /\ x % ((s * s) * s) = x0 + x1 * s + x2 * (s * s) /\ x \div ((s * s) * s) = x3
PROOF
<1> DEFINE s == ByteSize
           x == FourBytes(x0, x1, x2, x3)
<1>1. /\ s \in Nat \ {0} /\ x0 \in 0 .. s - 1 /\ x1 \in 0 .. s - 1
      /\ x2 \in 0 .. s - 1 /\ x3 \in 0 .. s - 1
  BY ByteAssumption DEF Byte
<1>2. x = x0 + x1 * s + x2 * (s * s) + x3 * ((s * s) * s)
  BY DEF FourBytes
<1> HIDE DEF s, x
<1>3. PICK t \in Nat \ {0} : t = s * s
  BY <1>1
<1>4. PICK u \in Nat \ {0} : u = t * s
  BY <1>1
<1>5. u = s * t /\ u = t * s /\ u = (s * s) * s
  BY <1>1, <1>3, <1>4
<1>6. x1 * s \in Nat /\ x2 * t \in Nat /\ x3 * u \in Nat /\ x2 * s \in Nat /\ x3 * t \in Nat
      /\ x3 * s \in Nat
  BY <1>1, <1>3, <1>4
<1>7. x = x0 + x1 * s + x2 * t + x3 * u /\ x \in Int
  BY <1>1, <1>2, <1>3, <1>5, <1>6
<1>8. x % s = x0 /\ x \div s = x1 + x2 * s + x3 * t
  <2> DEFINE q == x1 + x2 * s + x3 * t
  <2>1. s * q = s * x1 + s * (x2 * s) + s * (x3 * t)
    BY <1>1, <1>3, <1>6
  <2>2. s * x1 = x1 * s /\ s * (x2 * s) = x2 * t /\ s * (x3 * t) = x3 * u
    BY <1>1, <1>3, <1>5
  <2>3. q \in Int /\ x = s * q + x0
    BY <1>1, <1>6, <1>7, <2>1, <2>2
  <2> HIDE DEF q
  <2>4. x % s = x0 /\ x \div s = q
    BY <1>1, <1>7, <2>3, ModUnique
  <2> QED
    BY <2>4 DEF q
<1>9. x0 + x1 * s \in 0 .. t - 1
  <2>1. s * x1 + x0 \in 0 .. (s * s) - 1
    BY <1>1, Join
  <2> QED
    BY <1>1, <1>3, <1>6, <2>1
<1>10. x % t = x0 + x1 * s /\ x \div t = x2 + x3 * s
  <2> DEFINE q == x2 + x3 * s
             r == x0 + x1 * s
  <2>1. t * q = x2 * t + x3 * u
    BY <1>1, <1>5, <1>6
  <2>2. q \in Int /\ r \in 0 .. t - 1 /\ x = t * q + r
    BY <1>1, <1>6, <1>7, <1>9, <2>1
  <2> HIDE DEF q, r
  <2>3. x % t = r /\ x \div t = q
    BY <1>7, <2>2, ModUnique
  <2> QED
    BY <2>3 DEF q, r
<1>11. x % u = x0 + x1 * s + x2 * t /\ x \div u = x3
  <2> DEFINE r == x0 + x1 * s + x2 * t
  <2>1. t * x2 + (x0 + x1 * s) \in 0 .. (t * s) - 1
    BY <1>1, <1>9, Join
  <2>2. r = t * x2 + (x0 + x1 * s) /\ u * x3 = x3 * u
    BY <1>1, <1>6
  <2>3. r \in 0 .. u - 1 /\ x = u * x3 + r /\ x3 \in Int
    BY <1>1, <1>4, <1>6, <1>7, <2>1, <2>2
  <2> HIDE DEF r
  <2>4. x % u = r /\ x \div u = x3
    BY <1>7, <2>3, ModUnique
  <2> QED
    BY <2>4 DEF r
<1> QED
  BY <1>3, <1>5, <1>8, <1>10, <1>11 DEF s, x

\* The four bytes at offset k, byte by byte.
LEMMA MergedBytes ==
  ASSUME NEW x \in [0 .. 7 -> Byte]
  PROVE  LET lo == FourBytes(x[0], x[1], x[2], x[3])
             hi == FourBytes(x[4], x[5], x[6], x[7])
         IN  /\ Merged(lo, hi, 1) = FourBytes(x[1], x[2], x[3], x[4])
             /\ Merged(lo, hi, 2) = FourBytes(x[2], x[3], x[4], x[5])
             /\ Merged(lo, hi, 3) = FourBytes(x[3], x[4], x[5], x[6])
PROOF
<1> DEFINE s == ByteSize
           l0 == x[0]
           l1 == x[1]
           l2 == x[2]
           l3 == x[3]
           h0 == x[4]
           h1 == x[5]
           h2 == x[6]
           h3 == x[7]
           lo == FourBytes(l0, l1, l2, l3)
           hi == FourBytes(h0, h1, h2, h3)
<1>0. /\ l0 \in Byte /\ l1 \in Byte /\ l2 \in Byte /\ l3 \in Byte
      /\ h0 \in Byte /\ h1 \in Byte /\ h2 \in Byte /\ h3 \in Byte
  OBVIOUS
<1> HIDE DEF l0, l1, l2, l3, h0, h1, h2, h3
<1>1. /\ s \in Nat \ {0}
      /\ l0 \in Nat /\ l1 \in Nat /\ l2 \in Nat /\ l3 \in Nat
      /\ h0 \in Nat /\ h1 \in Nat /\ h2 \in Nat
  BY <1>0, ByteAssumption DEF Byte
<1>2. /\ lo \div s = l1 + l2 * s + l3 * (s * s)
      /\ lo \div (s * s) = l2 + l3 * s
      /\ lo \div ((s * s) * s) = l3
      /\ hi % s = h0 /\ hi % (s * s) = h0 + h1 * s
      /\ hi % ((s * s) * s) = h0 + h1 * s + h2 * (s * s)
  BY <1>0, BytesSplit
<1>3. /\ Merged(lo, hi, 1) = ((s * s) * s) * (hi % s) + (lo \div s)
      /\ Merged(lo, hi, 2) = (s * s) * (hi % (s * s)) + (lo \div (s * s))
      /\ Merged(lo, hi, 3) = s * (hi % ((s * s) * s)) + (lo \div ((s * s) * s))
  <2>1. 4 - 1 = 3 /\ 4 - 2 = 2 /\ 4 - 3 = 1
    OBVIOUS
  <2> QED
    BY <2>1 DEF Merged, ByteWeight, HalfSize
<1>4. \A y0, y1, y2, y3 : FourBytes(y0, y1, y2, y3) =
        y0 + y1 * s + y2 * (s * s) + y3 * ((s * s) * s)
  BY DEF FourBytes
<1> HIDE DEF s, lo, hi
<1>5. PICK t \in Nat \ {0} : t = s * s
  BY <1>1
<1>6. PICK u \in Nat \ {0} : u = t * s
  BY <1>1
<1>7. /\ l2 * s \in Nat /\ l3 * t \in Nat /\ l3 * s \in Nat
      /\ h1 * s \in Nat /\ h2 * t \in Nat
  BY <1>1
<1>8. u * h0 + (l1 + l2 * s + l3 * t) = l1 + l2 * s + l3 * t + h0 * u
  <2>1. u * h0 = h0 * u /\ h0 * u \in Nat
    BY <1>1
  <2> QED
    BY <1>1, <1>7, <2>1
<1>9. t * (h0 + h1 * s) + (l2 + l3 * s) = l2 + l3 * s + h0 * t + h1 * u
  <2>1. t * (h0 + h1 * s) = h0 * t + h1 * u /\ h0 * t \in Nat /\ h1 * u \in Nat
    BY <1>1, <1>6
  <2> QED
    BY <1>1, <1>7, <2>1
<1>10. s * (h0 + h1 * s + h2 * t) + l3 = l3 + h0 * s + h1 * t + h2 * u
  <2>1. s * (h0 + h1 * s + h2 * t) = s * h0 + s * (h1 * s) + s * (h2 * t)
    BY <1>1, <1>7
  <2>2. s * h0 = h0 * s /\ s * (h1 * s) = h1 * t /\ s * (h2 * t) = h2 * u
    BY <1>1, <1>5, <1>6
  <2>3. h0 * s \in Nat /\ h1 * t \in Nat /\ h2 * u \in Nat
    BY <1>1
  <2> QED
    BY <1>1, <2>1, <2>2, <2>3
<1>11. /\ Merged(lo, hi, 1) = FourBytes(l1, l2, l3, h0)
       /\ Merged(lo, hi, 2) = FourBytes(l2, l3, h0, h1)
       /\ Merged(lo, hi, 3) = FourBytes(l3, h0, h1, h2)
  BY <1>2, <1>3, <1>4, <1>5, <1>6, <1>8, <1>9, <1>10
<1> QED
  BY <1>11 DEF lo, hi, l0, l1, l2, l3, h0, h1, h2, h3

(***************************************************************************)
(* The bits of a number.                                                   *)
(***************************************************************************)
BitAt(x, i) == (x \div 2^i) % 2

\* Dividing by a product is dividing twice.
LEMMA DivTwice ==
  ASSUME NEW c \in Nat \ {0}, NEW d \in Nat \ {0}, NEW x \in Int
  PROVE  (x \div c) \div d = x \div (c * d)
PROOF
<1> DEFINE q == x \div c
           r == x % c
           t == q \div d
           u == q % d
<1>1. q \in Int /\ r \in 0 .. c - 1 /\ x = c * q + r
  BY DivMod
<1> HIDE DEF q, r
<1>2. t \in Int /\ u \in 0 .. d - 1 /\ q = d * t + u
  BY <1>1, DivMod
<1> HIDE DEF t, u
<1>3. PICK n \in Nat \ {0} : n = c * d
  OBVIOUS
<1>4. x = n * t + (c * u + r)
  <2>1. c * (d * t + u) = (c * d) * t + c * u
    BY <1>2
  <2> QED
    BY <1>1, <1>2, <1>3, <2>1
<1>5. c * u + r \in 0 .. n - 1
  <2>1. c * u \in Nat /\ c * u <= c * (d - 1)
    BY <1>2
  <2>2. c * (d - 1) = n - c
    BY <1>3
  <2> QED
    BY <1>1, <2>1, <2>2
<1>6. PICK k \in 0 .. n - 1 : k = c * u + r
  BY <1>5
<1>7. x \div n = t
  BY <1>2, <1>4, <1>6, ModUnique
<1> QED
  BY <1>3, <1>7 DEF q, t

\* The number above bit i is twice the one above bit i + 1, and bit i.
LEMMA NextBit ==
  ASSUME NEW x \in Int, NEW i \in Bit
  PROVE  /\ x \div 2^i \in Int /\ x \div 2^(i + 1) \in Int /\ BitAt(x, i) \in {0, 1}
         /\ x \div 2^i = 2 * (x \div 2^(i + 1)) + BitAt(x, i)
PROOF
<1>1. i \in 0 .. WordBits /\ i + 1 \in 0 .. WordBits
  BY Powers DEF Bit
<1>2. PICK p \in Nat \ {0} : p = 2^i
  BY <1>1, Powers
<1>3. 2^(i + 1) = 2 * p
  BY <1>2, Powers
<1>4. (x \div p) \div 2 = x \div (p * 2) /\ p * 2 = 2^(i + 1)
  <2>1. PICK two \in Nat \ {0} : two = 2
    OBVIOUS
  <2>2. (x \div p) \div two = x \div (p * two)
    BY DivTwice
  <2> QED
    BY <1>3, <2>1, <2>2
<1> DEFINE y == x \div p
<1>5. y \in Int
  OBVIOUS
<1> HIDE DEF y
<1>6. y % 2 \in {0, 1} /\ y = 2 * (y \div 2) + (y % 2) /\ y \div 2 \in Int
  BY <1>5
<1> QED
  BY <1>2, <1>4, <1>5, <1>6 DEF BitAt, y

\* Nothing is above the last bit of a word.
LEMMA TopOfWord ==
  ASSUME NEW x \in Word
  PROVE  x \in Int /\ x \div 2^WordBits = 0 /\ x \div 2^0 = x
PROOF
<1>1. x \in Int /\ x = WordSize * 0 + x /\ x \in 0 .. WordSize - 1 /\ 0 \in Int
  BY Sizes DEF Word
<1>2. x \div WordSize = 0
  BY <1>1, Sizes, ModUnique
<1> QED
  BY <1>1, <1>2, WordPower, Powers

\* Words whose bits add up in pairs add up.
LEMMA BitSums ==
  ASSUME NEW x \in Word, NEW y \in Word, NEW u \in Word, NEW v \in Word,
         \A i \in Bit : BitAt(x, i) + BitAt(y, i) = BitAt(u, i) + BitAt(v, i)
  PROVE  x + y = u + v
PROOF
<1> DEFINE S == {i \in 0 .. WordBits :
                   (x \div 2^i) + (y \div 2^i) = (u \div 2^i) + (v \div 2^i)}
<1>1. WordBits \in S
  BY TopOfWord, Powers
<1>2. ASSUME NEW i \in 0 .. WordBits - 1, i + 1 \in S PROVE i \in S
  <2>1. i \in Bit /\ i \in 0 .. WordBits /\ x \in Int /\ y \in Int /\ u \in Int /\ v \in Int
    BY Powers, TopOfWord DEF Bit
  <2>2. /\ x \div 2^i = 2 * (x \div 2^(i + 1)) + BitAt(x, i) /\ x \div 2^(i + 1) \in Int
        /\ y \div 2^i = 2 * (y \div 2^(i + 1)) + BitAt(y, i) /\ y \div 2^(i + 1) \in Int
        /\ u \div 2^i = 2 * (u \div 2^(i + 1)) + BitAt(u, i) /\ u \div 2^(i + 1) \in Int
        /\ v \div 2^i = 2 * (v \div 2^(i + 1)) + BitAt(v, i) /\ v \div 2^(i + 1) \in Int
        /\ BitAt(x, i) \in {0, 1} /\ BitAt(y, i) \in {0, 1}
        /\ BitAt(u, i) \in {0, 1} /\ BitAt(v, i) \in {0, 1}
    BY <2>1, NextBit
  <2>3. BitAt(x, i) + BitAt(y, i) = BitAt(u, i) + BitAt(v, i)
    BY <2>1
  <2>4. (x \div 2^(i + 1)) + (y \div 2^(i + 1)) = (u \div 2^(i + 1)) + (v \div 2^(i + 1))
    BY <1>2
  <2>5. (x \div 2^i) + (y \div 2^i) = (u \div 2^i) + (v \div 2^i)
    BY <2>2, <2>3, <2>4
  <2> QED
    BY <2>1, <2>5
<1> HIDE DEF S
<1>3. 0 \in S
  BY <1>1, <1>2, Powers, Downward
<1> QED
  BY <1>3, TopOfWord DEF S

\* 0 has no bits.
LEMMA ZeroBits ==
  0 \in Word /\ \A i \in Bit : BitAt(0, i) = 0
PROOF
<1>1. 0 \in Word
  BY Sizes DEF Word
<1>2. ASSUME NEW i \in Bit PROVE BitAt(0, i) = 0
  <2>1. PICK p \in Nat \ {0} : p = 2^i
    BY Powers DEF Bit
  <2>2. 0 \div p = 0
    OBVIOUS
  <2> QED
    BY <2>1, <2>2 DEF BitAt
<1> QED
  BY <1>1, <1>2

\* A word is determined by its bits.
LEMMA SameBits ==
  ASSUME NEW x \in Word, NEW y \in Word, \A i \in Bit : BitAt(x, i) = BitAt(y, i)
  PROVE  x = y
PROOF
<1>1. PICK z \in Word : z = 0
  BY ZeroBits
<1>2. \A i \in Bit : BitAt(x, i) + BitAt(z, i) = BitAt(y, i) + BitAt(z, i)
  OBVIOUS
<1>3. x + z = y + z
  BY <1>2, BitSums
<1> QED
  BY <1>1, <1>3, TopOfWord

\* Every set of bits is the set of some word: n bits give a number below 2^n,
\* the lowest bit last.
LEMMA SomeWord ==
  ASSUME NEW S \in SUBSET Bit
  PROVE  \E w \in Word : \A i \in Bit : BitAt(w, i) = IF i \in S THEN 1 ELSE 0
PROOF
<1> DEFINE Spells(w, T, n) == \A i \in 0 .. n - 1 : BitAt(w, i) = IF i \in T THEN 1 ELSE 0
           N == {n \in 0 .. WordBits :
                   \A T \in SUBSET Nat : \E w \in 0 .. 2^n - 1 : Spells(w, T, n)}
<1>1. 0 \in N
  <2>1. 0 \in 0 .. WordBits /\ 0 \in 0 .. 2^0 - 1
    BY Powers
  <2>2. \A T \in SUBSET Nat : Spells(0, T, 0)
    OBVIOUS
  <2> QED
    BY <2>1, <2>2
<1>2. ASSUME NEW n \in 0 .. WordBits - 1, n \in N PROVE n + 1 \in N
  <2>1. n \in Bit /\ n + 1 \in 0 .. WordBits /\ n \in 0 .. WordBits
    BY Powers DEF Bit
  <2>2. 2^(n + 1) = 2 * 2^n /\ 2^n \in Nat
    BY <2>1, Powers
  <2> SUFFICES ASSUME NEW T \in SUBSET Nat
               PROVE  \E w \in 0 .. 2^(n + 1) - 1 : Spells(w, T, n + 1)
    <3> HIDE DEF Spells
    <3> QED
      BY <2>1
  <2>0. PICK U \in SUBSET Nat : \A k \in Nat : k \in U <=> k + 1 \in T
    <3>1. {k \in Nat : k + 1 \in T} \in SUBSET Nat
      OBVIOUS
    <3> QED
      BY <3>1
  <2>3. PICK w \in 0 .. 2^n - 1 : Spells(w, U, n)
    <3> HIDE DEF Spells
    <3> QED
      BY <1>2
  <2>4. PICK e \in {0, 1} : e = IF 0 \in T THEN 1 ELSE 0
    OBVIOUS
  <2>5. PICK x \in 0 .. 2^(n + 1) - 1 : x = 2 * w + e
    BY <2>2
  <2>6. x \in Int /\ x \div 2 = w /\ x % 2 = e
    BY <2>2, <2>5
  <2>7. ASSUME NEW i \in 0 .. (n + 1) - 1 PROVE BitAt(x, i) = IF i \in T THEN 1 ELSE 0
    <3>1. CASE i = 0
      <4>1. 2^i = 1 /\ x \div 1 = x
        BY <2>6, <3>1, Powers
      <4> QED
        BY <2>4, <2>6, <3>1, <4>1 DEF BitAt
    <3>2. CASE i # 0
      <4>1. PICK k \in 0 .. n - 1 : i = k + 1
        <5>1. n \in Nat /\ i - 1 \in 0 .. n - 1 /\ i = (i - 1) + 1
          BY <2>1, <3>2, Powers
        <5> QED
          BY <5>1
      <4>2. k \in Bit /\ k \in 0 .. WordBits
        BY <2>1, Powers DEF Bit
      <4>3. PICK p \in Nat \ {0} : p = 2^k /\ 2^i = 2 * p
        BY <4>1, <4>2, Powers
      <4>4. PICK two \in Nat \ {0} : two = 2
        OBVIOUS
      <4>5. (x \div two) \div p = x \div (two * p)
        BY <2>6, DivTwice
      <4>6. BitAt(x, i) = BitAt(w, k)
        BY <2>6, <4>3, <4>4, <4>5 DEF BitAt
      <4>7. BitAt(w, k) = IF k \in U THEN 1 ELSE 0
        BY <2>3
      <4>8. k \in U <=> i \in T
        BY <2>0, <4>1
      <4> QED
        BY <4>6, <4>7, <4>8
    <3> QED
      BY <3>1, <3>2
  <2> QED
    BY <2>7
<1> HIDE DEF N
<1>3. 0 .. WordBits \subseteq N
  BY <1>1, <1>2, Powers, Upward
<1>4. WordBits \in N /\ S \in SUBSET Nat
  BY <1>3, Powers DEF Bit
<1>5. \E w \in 0 .. 2^WordBits - 1 : Spells(w, S, WordBits)
  BY <1>4 DEF N
<1> QED
  BY <1>5, WordPower DEF Word, Bit

\* FromBits takes that word: the bits of the word of a set are the set.
LEMMA WordOfBits ==
  ASSUME NEW S \in SUBSET Bit
  PROVE  /\ FromBits(S) \in Word
         /\ \A i \in Bit : BitAt(FromBits(S), i) = IF i \in S THEN 1 ELSE 0
PROOF
<1> DEFINE words == {w \in Word : BitsOf(w) = S}
<1>1. PICK w \in Word : \A i \in Bit : BitAt(w, i) = IF i \in S THEN 1 ELSE 0
  BY SomeWord
<1>2. BitsOf(w) = S
  BY <1>1 DEF BitsOf, BitAt
<1>3. w \in words
  BY <1>2
<1>4. FromBits(S) \in words
  BY <1>3 DEF FromBits
<1>5. ASSUME NEW i \in Bit PROVE BitAt(FromBits(S), i) = IF i \in S THEN 1 ELSE 0
  <2>1. PICK v \in Word : v = FromBits(S) /\ BitsOf(v) = S
    BY <1>4
  <2>2. BitAt(v, i) \in {0, 1}
    BY NextBit, TopOfWord
  <2>3. i \in S <=> BitAt(v, i) = 1
    BY <2>1 DEF BitsOf, BitAt
  <2> QED
    BY <2>1, <2>2, <2>3
<1> QED
  BY <1>4, <1>5

\* A word is the word of its bits.
LEMMA BitsOfWord ==
  ASSUME NEW w \in Word, NEW S \in SUBSET Bit, \A i \in Bit : BitAt(w, i) = 1 <=> i \in S
  PROVE  FromBits(S) = w
PROOF
<1>1. PICK v \in Word : v = FromBits(S) /\ \A i \in Bit : BitAt(v, i) = IF i \in S THEN 1 ELSE 0
  BY WordOfBits
<1>2. \A i \in Bit : BitAt(w, i) \in {0, 1}
  BY NextBit, TopOfWord
<1>3. \A i \in Bit : BitAt(v, i) = BitAt(w, i)
  BY <1>1, <1>2
<1>4. v = w
  BY <1>3, SameBits
<1> QED
  BY <1>1, <1>4

(***************************************************************************)
(* Logic.                                                                  *)
(***************************************************************************)
\* The bits of the largest word are all set.
LEMMA MaxBits ==
  WordMax \in Word /\ \A i \in Bit : BitAt(WordMax, i) = 1
PROOF
<1>1. WordMax \in Word
  BY Sizes DEF Word, WordMax
<1>2. ASSUME NEW i \in Bit PROVE BitAt(WordMax, i) = 1
  <2> DEFINE j == SignBit - i
  <2>1. j \in Nat /\ i \in Nat /\ i \in 0 .. WordBits /\ j \in 0 .. WordBits /\ SignBit = i + j
        /\ i + j <= WordBits
    BY Powers DEF Bit, SignBit
  <2> HIDE DEF j
  <2>2. PICK p \in Nat \ {0} : p = 2^i
    BY <2>1, Powers
  <2>3. PICK h \in Nat \ {0} : h = 2^j
    BY <2>1, Powers
  <2>4. 2^SignBit = p * h
    BY <2>1, <2>2, <2>3, PowersAdd
  <2>5. WordMax = 2 * (p * h) - 1
    BY <2>4, Sizes, WordPower DEF WordMax
  <2>6. WordMax = p * (2 * h - 1) + (p - 1)
    <3>1. p * (2 * h - 1) = 2 * (p * h) - p
      OBVIOUS
    <3> QED
      BY <2>5, <3>1
  <2>7. 2 * h - 1 \in Int /\ p - 1 \in 0 .. p - 1 /\ WordMax \in Int
    BY Sizes DEF WordMax
  <2>8. WordMax \div p = 2 * h - 1
    BY <2>6, <2>7, ModUnique
  <2>9. (2 * h - 1) % 2 = 1
    OBVIOUS
  <2> QED
    BY <2>2, <2>8, <2>9 DEF BitAt
<1> QED
  BY <1>1, <1>2

\* AND, OR, XOR and NOR of two words obey the carry identities.
LEMMA LogicIdentities ==
  ASSUME NEW x \in Word, NEW y \in Word
  PROVE  /\ And(x, y) + Or(x, y) = x + y
         /\ Xor(x, y) = Or(x, y) - And(x, y)
         /\ Nor(x, y) = WordMax - Or(x, y)
PROOF
<1> DEFINE X == BitsOf(x)
           Y == BitsOf(y)
<1>1. X \in SUBSET Bit /\ Y \in SUBSET Bit
  BY DEF BitsOf
<1>2. \A i \in Bit : BitAt(x, i) \in {0, 1} /\ BitAt(y, i) \in {0, 1}
  BY NextBit, TopOfWord
<1>3. \A i \in Bit : (i \in X <=> BitAt(x, i) = 1) /\ (i \in Y <=> BitAt(y, i) = 1)
  BY DEF BitsOf, BitAt
<1>4. PICK m \in Word : m = And(x, y) /\ \A i \in Bit : BitAt(m, i) = IF i \in X \cap Y THEN 1 ELSE 0
  <2>1. X \cap Y \in SUBSET Bit /\ And(x, y) = FromBits(X \cap Y)
    BY <1>1 DEF And
  <2> HIDE DEF X, Y
  <2> QED
    BY <2>1, WordOfBits
<1>5. PICK o \in Word : o = Or(x, y) /\ \A i \in Bit : BitAt(o, i) = IF i \in X \cup Y THEN 1 ELSE 0
  <2>1. X \cup Y \in SUBSET Bit /\ Or(x, y) = FromBits(X \cup Y)
    BY <1>1 DEF Or
  <2> HIDE DEF X, Y
  <2> QED
    BY <2>1, WordOfBits
<1>6. PICK d \in Word : /\ d = Xor(x, y)
                        /\ \A i \in Bit : BitAt(d, i) = IF i \in (X \cup Y) \ (X \cap Y) THEN 1 ELSE 0
  <2>1. (X \cup Y) \ (X \cap Y) \in SUBSET Bit /\ Xor(x, y) = FromBits((X \cup Y) \ (X \cap Y))
    BY <1>1 DEF Xor
  <2> HIDE DEF X, Y
  <2> QED
    BY <2>1, WordOfBits
<1>7. PICK c \in Word : c = Nor(x, y) /\ \A i \in Bit : BitAt(c, i) = IF i \in Bit \ (X \cup Y) THEN 1 ELSE 0
  <2>1. Bit \ (X \cup Y) \in SUBSET Bit /\ Nor(x, y) = FromBits(Bit \ (X \cup Y))
    BY <1>1 DEF Nor
  <2> HIDE DEF X, Y
  <2> QED
    BY <2>1, WordOfBits
<1> HIDE DEF X, Y
<1>8. PICK z \in Word : z = 0 /\ \A i \in Bit : BitAt(z, i) = 0
  BY ZeroBits
<1>9. PICK f \in Word : f = WordMax /\ \A i \in Bit : BitAt(f, i) = 1
  BY MaxBits
<1>10. m + o = x + y
  <2>1. \A i \in Bit : BitAt(m, i) + BitAt(o, i) = BitAt(x, i) + BitAt(y, i)
    BY <1>2, <1>3, <1>4, <1>5
  <2> QED
    BY <2>1, BitSums
<1>11. d + m = o + z
  <2>1. \A i \in Bit : BitAt(d, i) + BitAt(m, i) = BitAt(o, i) + BitAt(z, i)
    BY <1>4, <1>5, <1>6, <1>8
  <2> QED
    BY <2>1, BitSums
<1>12. c + o = f + z
  <2>1. \A i \in Bit : BitAt(c, i) + BitAt(o, i) = BitAt(f, i) + BitAt(z, i)
    BY <1>5, <1>7, <1>8, <1>9
  <2> QED
    BY <2>1, BitSums
<1>13. m \in Int /\ o \in Int /\ d \in Int /\ c \in Int /\ f \in Int
  BY TopOfWord
<1> QED
  BY <1>4, <1>5, <1>6, <1>7, <1>8, <1>9, <1>10, <1>11, <1>12, <1>13

\* AND, OR, XOR and NOR, defined on the bits of the registers, satisfy the
\* identities of addition with carry for every pair of words.
THEOREM LogicRules == Spec => []LogicExact
PROOF
<1>1. Operands => LogicExact
  BY LogicIdentities DEF Operands, LogicExact
<1> QED
  BY <1>1, OperandsType, PTL

(***************************************************************************)
(* Shifts.                                                                 *)
(***************************************************************************)
\* A multiple of a higher power of two does not reach bit i.
LEMMA BitBelow ==
  ASSUME NEW x \in Int, NEW h \in Int, NEW m \in 0 .. WordBits, NEW i \in 0 .. m - 1
  PROVE  BitAt(x + h * 2^m, i) = BitAt(x, i)
PROOF
<1> DEFINE j == m - 1 - i
<1>1. /\ i \in Nat /\ i \in 0 .. WordBits /\ j \in Nat /\ j \in 0 .. WordBits
      /\ i + j \in Bit /\ i + j <= WordBits /\ (i + j) + 1 = m
  BY Powers DEF Bit
<1> HIDE DEF j
<1>2. PICK p \in Nat \ {0} : p = 2^i
  BY <1>1, Powers
<1>3. PICK e \in Nat \ {0} : e = 2^j
  BY <1>1, Powers
<1>4. 2^m = 2 * (p * e)
  BY <1>1, <1>2, <1>3, Powers, PowersAdd
<1>5. PICK k \in Int : k = 2 * (h * e)
  BY <1>3
<1>6. h * 2^m = p * k
  <2>1. h * (2 * (p * e)) = p * (2 * (h * e))
    OBVIOUS
  <2> QED
    BY <1>4, <1>5, <2>1
<1>7. (x + p * k) \div p = (x \div p) + k
  BY ModShift
<1>8. ASSUME NEW y \in Int, NEW t \in Int PROVE (y + 2 * t) % 2 = y % 2
  BY <1>8
<1>9. x \div p \in Int /\ h * e \in Int
  OBVIOUS
<1>10. ((x \div p) + 2 * (h * e)) % 2 = (x \div p) % 2
  BY <1>8, <1>9
<1> QED
  BY <1>2, <1>5, <1>6, <1>7, <1>10 DEF BitAt

\* The bits of a multiple of 2^s are those of the factor, s places up.
LEMMA BitAbove ==
  ASSUME NEW x \in Int, NEW s \in Bit, NEW i \in Bit
  PROVE  BitAt(x * 2^s, i) = IF i < s THEN 0 ELSE BitAt(x, i - s)
PROOF
<1>1. s \in 0 .. WordBits /\ s \in Nat /\ i \in 0 .. WordBits /\ i \in Nat
  BY Powers DEF Bit
<1>2. CASE i < s
  <2>1. i \in 0 .. s - 1 /\ 0 \in Int
    BY <1>1, <1>2
  <2>2. PICK z \in Int : z = 0
    BY <2>1
  <2>3. BitAt(z + x * 2^s, i) = BitAt(z, i)
    BY <1>1, <2>1, BitBelow
  <2>4. x * 2^s \in Int
    BY <1>1, Powers
  <2> QED
    BY <1>2, <2>2, <2>3, <2>4, ZeroBits
<1>3. CASE i >= s
  <2>1. PICK j \in Nat : i = s + j
    <3>1. i - s \in Nat /\ i = s + (i - s)
      BY <1>1, <1>3
    <3> QED
      BY <3>1
  <2>2. j \in 0 .. WordBits /\ s + j <= WordBits /\ i - s = j /\ ~ (i < s)
    BY <1>1, <2>1, Powers
  <2>3. PICK p \in Nat \ {0} : p = 2^s
    BY <1>1, Powers
  <2>4. PICK e \in Nat \ {0} : e = 2^j
    BY <2>2, Powers
  <2>5. 2^i = p * e
    BY <1>1, <2>1, <2>2, <2>3, <2>4, PowersAdd
  <2>6. PICK y \in Int : y = x * p
    OBVIOUS
  <2>7. (y \div p) \div e = y \div (p * e)
    BY DivTwice
  <2>8. y \div p = x
    <3>1. y = p * x + 0 /\ 0 \in 0 .. p - 1
      BY <2>6
    <3> QED
      BY <3>1, ModUnique
  <2> QED
    BY <2>2, <2>3, <2>4, <2>5, <2>6, <2>7, <2>8 DEF BitAt
<1> QED
  BY <1>1, <1>2, <1>3

\* A number shifted down loses its lowest bits, as far as there are bits.
LEMMA BitShifted ==
  ASSUME NEW x \in Int, NEW s \in Bit, NEW i \in Bit, i + s <= WordBits
  PROVE  BitAt(x \div 2^s, i) = BitAt(x, i + s)
PROOF
<1>1. s \in 0 .. WordBits /\ s \in Nat /\ i \in 0 .. WordBits /\ i \in Nat /\ i + s = s + i
      /\ s + i <= WordBits
  BY Powers DEF Bit
<1>2. PICK p \in Nat \ {0} : p = 2^s
  BY <1>1, Powers
<1>3. PICK e \in Nat \ {0} : e = 2^i
  BY <1>1, Powers
<1>4. 2^(i + s) = p * e
  BY <1>1, <1>2, <1>3, PowersAdd
<1>5. (x \div p) \div e = x \div (p * e)
  BY DivTwice
<1> QED
  BY <1>2, <1>3, <1>4, <1>5 DEF BitAt

\* What is left of a number above bit m, when it is 0 or -1, is left above
\* every higher bit.
LEMMA BitBeyond ==
  ASSUME NEW x \in Int, NEW m \in 0 .. WordBits, x \div 2^m \in {0, -1},
         NEW s \in Bit, NEW i \in Bit, i + s >= m, s <= m
  PROVE  BitAt(x \div 2^s, i) = (x \div 2^m) % 2
PROOF
<1> DEFINE j == m - s
           k == i - j
<1>1. /\ s \in Nat /\ j \in Nat /\ k \in Nat /\ s + j = m /\ j + k = i
      /\ m <= WordBits /\ i <= WordBits
      /\ s \in 0 .. WordBits /\ j \in 0 .. WordBits /\ k \in 0 .. WordBits
  BY Powers DEF Bit
<1> HIDE DEF j, k
<1>2. PICK p \in Nat \ {0} : p = 2^s
  BY <1>1, Powers
<1>3. PICK e \in Nat \ {0} : e = 2^j
  BY <1>1, Powers
<1>4. PICK f \in Nat \ {0} : f = 2^k
  BY <1>1, Powers
<1>5. 2^m = p * e /\ 2^i = e * f
  BY <1>1, <1>2, <1>3, <1>4, PowersAdd
<1>6. PICK y \in Int : y = x \div p
  OBVIOUS
<1>7. y \div e = x \div 2^m
  <2>1. (x \div p) \div e = x \div (p * e)
    BY DivTwice
  <2> QED
    BY <1>5, <1>6, <2>1
<1>8. PICK t \in {0, -1} : t = y \div e
  BY <1>7
<1>9. t \div f = t
  <2>1. CASE t = 0
    BY <2>1
  <2>2. CASE t = -1
    <3>1. t = f * (-1) + (f - 1) /\ -1 \in Int /\ f - 1 \in 0 .. f - 1 /\ t \in Int
      BY <2>2
    <3> QED
      BY <2>2, <3>1, ModUnique
  <2> QED
    BY <2>1, <2>2
<1>10. y \div 2^i = t
  <2>1. (y \div e) \div f = y \div (e * f)
    BY DivTwice
  <2> QED
    BY <1>5, <1>8, <1>9, <2>1
<1> QED
  BY <1>2, <1>6, <1>7, <1>8, <1>10 DEF BitAt

\* The logical shifts multiply and divide.
LEMMA LogicalShifts ==
  ASSUME NEW x \in Word, NEW s \in Bit
  PROVE  Sll(x, s) = Wrap(x * 2^s) /\ Srl(x, s) = x \div 2^s
PROOF
<1>1. x \in Int /\ x \div 2^WordBits = 0 /\ s \in 0 .. WordBits /\ s \in Nat /\ WordBits \in 0 .. WordBits
  BY TopOfWord, Powers DEF Bit
<1>2. PICK p \in Nat \ {0} : p = 2^s
  BY <1>1, Powers
<1>3. Sll(x, s) = Wrap(x * 2^s)
  <2> DEFINE S == {i \in Bit : i - s \in BitsOf(x)}
  <2>1. PICK y \in Int : y = x * 2^s
    BY <1>1, <1>2
  <2> DEFINE h == -(y \div WordSize)
  <2>2. PICK w \in Word : w = y % WordSize
    BY Sizes DEF Word
  <2>3. h \in Int /\ w = y + h * 2^WordBits
    <3>1. PICK n \in Nat \ {0} : n = WordSize /\ n = 2^WordBits
      BY Sizes, WordPower
    <3>2. PICK q \in Int : q = y \div n /\ y = n * q + (y % n)
      BY DivMod
    <3>3. n * q + (-q) * n = 0 /\ n * q \in Int /\ y % n \in Int
      OBVIOUS
    <3> QED
      BY <2>2, <3>1, <3>2, <3>3
  <2> HIDE DEF h
  <2>4. ASSUME NEW i \in Bit PROVE BitAt(w, i) = 1 <=> i \in S
    <3>1. i \in 0 .. WordBits - 1
      BY DEF Bit
    <3>2. BitAt(w, i) = BitAt(y, i)
      BY <1>1, <2>3, <3>1, BitBelow
    <3>3. BitAt(y, i) = IF i < s THEN 0 ELSE BitAt(x, i - s)
      BY <1>1, <2>1, BitAbove
    <3>4. CASE i < s
      <4>1. i - s \notin Bit
        BY <1>1, <3>1, <3>4, Powers DEF Bit
      <4> QED
        BY <3>2, <3>3, <3>4, <4>1 DEF BitsOf
    <3>5. CASE ~ (i < s)
      <4>1. i - s \in Bit
        BY <1>1, <3>1, <3>5, Powers DEF Bit
      <4>2. i \in S <=> BitAt(x, i - s) = 1
        BY <4>1 DEF BitsOf, BitAt
      <4> QED
        BY <3>2, <3>3, <3>5, <4>2
    <3> QED
      BY <3>4, <3>5
  <2>5. S \in SUBSET Bit /\ Sll(x, s) = FromBits(S)
    BY DEF Sll
  <2> HIDE DEF S
  <2>6. FromBits(S) = w
    BY <2>4, <2>5, BitsOfWord
  <2> QED
    BY <2>1, <2>2, <2>5, <2>6 DEF Wrap
<1>4. Srl(x, s) = x \div 2^s
  <2> DEFINE S == {i \in Bit : i + s \in BitsOf(x)}
  <2>1. PICK w \in Word : w = x \div 2^s
    <3>1. x \div p \in 0 .. x
      <4>1. x \in Nat
        BY Sizes DEF Word
      <4>2. x \div p \in Int /\ x % p \in 0 .. p - 1 /\ x = p * (x \div p) + (x % p)
        BY <1>1, DivMod
      <4> DEFINE q == x \div p
                 r == x % p
      <4> HIDE DEF q, r
      <4>3. q \in Int /\ r \in 0 .. p - 1 /\ x = p * q + r
        BY <4>2 DEF q, r
      <4>4. q >= 0
        <5>1. ASSUME q <= -1 PROVE FALSE
          <6>1. p * q <= -p
            BY <4>3, <5>1
          <6> QED
            BY <4>1, <4>3, <6>1
        <5> QED
          BY <4>3, <5>1
      <4>5. p * q >= q
        BY <4>3, <4>4
      <4> QED
        BY <4>1, <4>3, <4>4, <4>5 DEF q
    <3> QED
      BY <1>2, <3>1, Sizes DEF Word
  <2>2. ASSUME NEW i \in Bit PROVE BitAt(w, i) = 1 <=> i \in S
    <3>1. i \in Nat /\ i + s \in Nat
      BY <1>1, Powers DEF Bit
    <3>2. CASE i + s < WordBits
      <4>1. i + s \in Bit
        BY <1>1, <3>1, <3>2, Powers DEF Bit
      <4>2. BitAt(w, i) = BitAt(x, i + s)
        BY <1>1, <2>1, <3>1, <3>2, Powers, BitShifted
      <4>3. i \in S <=> BitAt(x, i + s) = 1
        BY <4>1 DEF BitsOf, BitAt
      <4> QED
        BY <4>2, <4>3
    <3>3. CASE i + s >= WordBits
      <4>1. i + s \notin Bit
        BY <1>1, <3>1, <3>3, Powers DEF Bit
      <4>2. PICK m \in 0 .. WordBits : m = WordBits
        BY <1>1
      <4>3. x \div 2^m \in {0, -1} /\ i + s >= m /\ s <= m
        BY <1>1, <3>1, <3>3, <4>2
      <4>4. BitAt(w, i) = (x \div 2^m) % 2
        BY <1>1, <2>1, <4>3, BitBeyond
      <4>5. BitAt(w, i) = 0
        <5>1. x \div 2^m = 0 /\ 0 % 2 = 0
          BY <1>1, <4>2
        <5> QED
          BY <4>4, <5>1
      <4> QED
        BY <4>1, <4>5 DEF BitsOf
    <3> QED
      BY <3>1, <3>2, <3>3, Powers
  <2>3. S \in SUBSET Bit /\ Srl(x, s) = FromBits(S)
    BY DEF Srl
  <2> HIDE DEF S
  <2>4. FromBits(S) = w
    BY <2>2, <2>3, BitsOfWord
  <2> QED
    BY <2>1, <2>3, <2>4
<1> QED
  BY <1>3, <1>4

\* A quotient is not further from 0 than the number.
LEMMA DivBound ==
  ASSUME NEW n \in Nat \ {0}, NEW h \in Nat \ {0}, NEW x \in -h .. h - 1
  PROVE  x \div n \in -h .. h - 1
PROOF
<1> DEFINE q == x \div n
           r == x % n
<1>1. q \in Int /\ r \in 0 .. n - 1 /\ x = n * q + r
  BY DivMod
<1> HIDE DEF q, r
<1>2. ASSUME q < -h PROVE FALSE
  <2>1. n * q <= n * (-h - 1)
    BY <1>1, <1>2
  <2>2. n * (-h - 1) = -(n * h) - n /\ n * h >= h
    OBVIOUS
  <2> QED
    BY <1>1, <2>1, <2>2
<1>3. ASSUME q >= h PROVE FALSE
  <2>1. n * q >= n * h
    BY <1>1, <1>3
  <2>2. n * h >= h
    OBVIOUS
  <2> QED
    BY <1>1, <2>1, <2>2
<1>4. q \in -h .. h - 1
  BY <1>1, <1>2, <1>3
<1> QED
  BY <1>4 DEF q

\* The arithmetic shift divides the signed number and rounds down.
LEMMA ArithmeticShift ==
  ASSUME NEW x \in Word, NEW s \in Bit
  PROVE  Signed(Sra(x, s)) = Signed(x) \div 2^s
PROOF
<1> DEFINE S == {i \in Bit : (IF i + s > SignBit THEN SignBit ELSE i + s) \in BitsOf(x)}
<1>1. /\ x \in Int /\ s \in 0 .. WordBits /\ s \in Nat
      /\ SignBit \in Nat /\ SignBit \in Bit /\ SignBit \in 0 .. WordBits /\ s <= SignBit
      /\ WordBits \in 0 .. WordBits /\ SignBit + 1 = WordBits
  BY TopOfWord, Powers, WordPower DEF Bit
<1>2. PICK p \in Nat \ {0} : p = 2^s
  BY <1>1, Powers
<1>3. PICK h \in Nat \ {0} : h = WordSize \div 2 /\ h = 2^SignBit /\ WordSize = 2 * h /\ 2^WordBits = 2 * h
  BY Sizes, WordPower
<1>4. PICK v \in -h .. h - 1 : v = Signed(x)
  <2>1. x \in 0 .. 2 * h - 1
    BY <1>3 DEF Word
  <2>2. CASE x >= h
    BY <1>3, <2>1, <2>2 DEF Signed, Negative
  <2>3. CASE ~ (x >= h)
    BY <1>3, <2>1, <2>3 DEF Signed, Negative
  <2> QED
    BY <2>2, <2>3
<1>5. PICK c \in Int : v = x + c * 2^WordBits
  <2>1. v = x + 0 * (2 * h) \/ v = x + (-1) * (2 * h)
    BY <1>1, <1>3, <1>4 DEF Signed
  <2> QED
    BY <1>3, <2>1
<1>6. v \in Int /\ v \div h \in {0, -1}
  <2>1. CASE v >= 0
    <3>1. v = h * 0 + v /\ v \in 0 .. h - 1 /\ 0 \in Int /\ v \in Int
      BY <2>1
    <3> QED
      BY <3>1, ModUnique
  <2>2. CASE v < 0
    <3>1. PICK k \in 0 .. h - 1 : v = h * (-1) + k
      BY <2>2
    <3>2. v \in Int /\ -1 \in Int
      OBVIOUS
    <3> QED
      BY <3>1, <3>2, ModUnique
  <2> QED
    BY <2>1, <2>2
<1>7. PICK u \in -h .. h - 1 : u = v \div p
  BY DivBound
<1>8. PICK w \in Word : w = IF u < 0 THEN u + 2 * h ELSE u
  BY <1>3 DEF Word
<1>9. Signed(w) = u
  BY <1>3, <1>8 DEF Signed, Negative
<1>10. PICK d \in Int : w = u + d * 2^WordBits
  <2>1. w = u + 0 * (2 * h) \/ w = u + 1 * (2 * h)
    BY <1>8
  <2> QED
    BY <1>3, <2>1
<1>11. ASSUME NEW i \in 0 .. WordBits - 1 PROVE BitAt(v, i) = BitAt(x, i) /\ BitAt(w, i) = BitAt(u, i)
  <2>1. u \in Int
    OBVIOUS
  <2> QED
    BY <1>1, <1>5, <1>10, <2>1, BitBelow
<1>12. ASSUME NEW i \in Bit PROVE BitAt(w, i) = 1 <=> i \in S
  <2>1. i \in Nat /\ i \in 0 .. WordBits - 1 /\ i + s \in Nat
    BY <1>1, Powers DEF Bit
  <2>2. CASE i + s <= SignBit
    <3>1. i + s \in 0 .. WordBits - 1 /\ i + s \in Bit /\ i + s <= WordBits
      BY <1>1, <2>1, <2>2 DEF Bit
    <3>2. BitAt(v \div 2^s, i) = BitAt(v, i + s)
      BY <1>6, <3>1, BitShifted
    <3>3. BitAt(w, i) = BitAt(x, i + s)
      BY <1>2, <1>7, <1>11, <2>1, <3>1, <3>2
    <3>4. i \in S <=> BitAt(x, i + s) = 1
      BY <1>1, <2>1, <2>2, <3>1 DEF BitsOf, BitAt
    <3> QED
      BY <3>3, <3>4
  <2>3. CASE i + s > SignBit
    <3>1. PICK m \in 0 .. WordBits : m = SignBit
      BY <1>1
    <3>2. v \div 2^m \in {0, -1} /\ i + s >= m /\ s <= m
      BY <1>1, <1>3, <1>6, <2>1, <2>3, <3>1
    <3>3. BitAt(v \div 2^s, i) = (v \div 2^m) % 2
      BY <1>6, <3>2, BitBeyond
    <3>4. (v \div 2^m) % 2 = BitAt(v, SignBit)
      BY <3>1 DEF BitAt
    <3>5. BitAt(v, SignBit) = BitAt(x, SignBit)
      BY <1>1, <1>11 DEF Bit
    <3>6. BitAt(w, i) = BitAt(x, SignBit)
      BY <1>2, <1>7, <1>11, <2>1, <3>3, <3>4, <3>5
    <3>7. i \in S <=> BitAt(x, SignBit) = 1
      BY <1>1, <2>3 DEF BitsOf, BitAt
    <3> QED
      BY <3>6, <3>7
  <2> QED
    BY <1>1, <2>1, <2>2, <2>3
<1>13. S \in SUBSET Bit /\ Sra(x, s) = FromBits(S)
  BY DEF Sra
<1> HIDE DEF S
<1>14. FromBits(S) = w
  BY <1>12, <1>13, BitsOfWord
<1> QED
  BY <1>2, <1>4, <1>7, <1>9, <1>13, <1>14

\* Shifting the set of bits of a word multiplies it, divides it, or divides
\* the signed number rounding down, for every word and every shift amount.
THEOREM ShiftRules == Spec => []ShiftsExact
PROOF
<1>1. Operands => ShiftsExact
  BY LogicalShifts, ArithmeticShift DEF Operands, ShiftsExact
<1> QED
  BY <1>1, OperandsType, PTL

(***************************************************************************)
(* Division.  After i steps the bit-serial divider has divided the top i   *)
(* bits of the dividend; with a divisor of 0 every step sets a bit of the  *)
(* quotient and subtracts nothing.                                         *)
(***************************************************************************)
Top(n, i) == n \div 2^(WordBits - i)

Divided(n, d, i) ==
  [q |-> IF d = 0 THEN 2^i - 1 ELSE Top(n, i) \div d,
   r |-> IF d = 0 THEN Top(n, i) ELSE Top(n, i) % d]

\* One step of the divider, from the quotient and remainder so far.
SerialStep(n, d, i, before) ==
  LET r == 2 * before.r + ((n \div 2^(WordBits - i)) % 2)
  IN  IF r >= d THEN [q |-> 2 * before.q + 1, r |-> r - d]
                ELSE [q |-> 2 * before.q, r |-> r]

\* A step of the divider divides one more bit.
LEMMA SerialDivision ==
  ASSUME NEW n \in Word, NEW d \in Nat
  PROVE  /\ Divided(n, d, 0) = [q |-> 0, r |-> 0]
         /\ \A i \in 1 .. WordBits : SerialStep(n, d, i, Divided(n, d, i - 1)) = Divided(n, d, i)
PROOF
<1>1. WordBits \in Nat /\ n \in Int /\ n \div 2^WordBits = 0
  BY Powers, TopOfWord
<1>2. Divided(n, d, 0) = [q |-> 0, r |-> 0]
  <2>1. WordBits - 0 = WordBits /\ 2^0 = 1
    BY <1>1, Powers
  <2>2. Top(n, 0) = 0
    BY <1>1, <2>1 DEF Top
  <2>3. CASE d = 0
    BY <2>1, <2>2, <2>3 DEF Divided
  <2>4. CASE d # 0
    <3>1. 0 \div d = 0 /\ 0 % d = 0
      BY <2>4
    <3> QED
      BY <2>2, <2>4, <3>1 DEF Divided
  <2> QED
    BY <2>3, <2>4
<1>3. ASSUME NEW i \in 1 .. WordBits
      PROVE  SerialStep(n, d, i, Divided(n, d, i - 1)) = Divided(n, d, i)
  <2> DEFINE k == WordBits - i
  <2>1. k \in Bit /\ WordBits - (i - 1) = k + 1 /\ i - 1 \in Bit /\ (i - 1) + 1 = i
        /\ i - 1 \in 0 .. WordBits
    BY <1>1 DEF Bit
  <2>2. PICK t \in Int : t = Top(n, i) /\ t = n \div 2^k
    BY <1>1, <2>1, NextBit DEF Top
  <2>3. PICK u \in Int : u = Top(n, i - 1) /\ u = n \div 2^(k + 1)
    BY <1>1, <2>1, NextBit DEF Top
  <2>4. PICK e \in {0, 1} : e = (n \div 2^k) % 2 /\ t = 2 * u + e
    BY <1>1, <2>1, <2>2, <2>3, NextBit DEF BitAt
  <2>5. PICK p \in Nat : p = 2^(i - 1) /\ 2^i = 2 * p
    <3>1. 2^(i - 1) \in Nat /\ 2^((i - 1) + 1) = 2 * 2^(i - 1)
      BY <2>1, Powers
    <3> QED
      BY <2>1, <3>1
  <2>6. u >= 0
    <3>1. k + 1 \in 0 .. WordBits
      BY <2>1, <1>1 DEF Bit
    <3>2. PICK c \in Nat \ {0} : c = 2^(k + 1)
      BY <3>1, Powers
    <3>3. n \in Nat /\ u = n \div c
      BY <2>3, <3>2, Sizes DEF Word
    <3> QED
      BY <3>3
  <2>7. CASE d = 0
    <3>1. Divided(n, d, i - 1) = [q |-> p - 1, r |-> u]
      BY <2>3, <2>5, <2>7 DEF Divided
    <3>2. Divided(n, d, i) = [q |-> 2 * p - 1, r |-> t]
      BY <2>2, <2>5, <2>7 DEF Divided
    <3>3. 2 * u + e >= d /\ 2 * (p - 1) + 1 = 2 * p - 1 /\ 2 * u + e - d = t
      BY <2>4, <2>6, <2>7
    <3>4. SerialStep(n, d, i, [q |-> p - 1, r |-> u]) = [q |-> 2 * (p - 1) + 1, r |-> (2 * u + e) - d]
      BY <2>4, <3>3 DEF SerialStep
    <3> QED
      BY <3>1, <3>2, <3>3, <3>4
  <2>8. CASE d # 0
    <3>1. PICK x \in Int, y \in 0 .. d - 1 : x = u \div d /\ y = u % d /\ u = d * x + y
      BY <2>8, DivMod
    <3>2. Divided(n, d, i - 1) = [q |-> x, r |-> y]
      BY <2>3, <2>8, <3>1 DEF Divided
    <3>3. Divided(n, d, i) = [q |-> t \div d, r |-> t % d]
      BY <2>2, <2>8 DEF Divided
    <3>4. t = 2 * (d * x) + (2 * y + e) /\ d * x \in Int
      BY <2>4, <3>1
    <3>5. CASE 2 * y + e >= d
      <4>1. PICK z \in 0 .. d - 1 : z = (2 * y + e) - d
        <5>1. (2 * y + e) - d \in 0 .. d - 1
          BY <3>5
        <5> QED
          BY <5>1
      <4>2. t = d * (2 * x + 1) + z /\ 2 * x + 1 \in Int
        <5>1. d * (2 * x + 1) = 2 * (d * x) + d
          BY <3>1
        <5> QED
          BY <3>1, <3>4, <4>1, <5>1
      <4>3. t % d = z /\ t \div d = 2 * x + 1
        BY <2>8, <4>1, <4>2, ModUnique
      <4>4. SerialStep(n, d, i, [q |-> x, r |-> y]) = [q |-> 2 * x + 1, r |-> z]
        BY <2>4, <3>5, <4>1 DEF SerialStep
      <4> QED
        BY <3>2, <3>3, <4>3, <4>4
    <3>6. CASE ~ (2 * y + e >= d)
      <4>1. PICK z \in 0 .. d - 1 : z = 2 * y + e
        BY <3>1, <3>6
      <4>2. t = d * (2 * x) + z /\ 2 * x \in Int
        <5>1. d * (2 * x) = 2 * (d * x)
          BY <3>1
        <5> QED
          BY <3>1, <3>4, <4>1, <5>1
      <4>3. t % d = z /\ t \div d = 2 * x
        BY <2>8, <4>1, <4>2, ModUnique
      <4>4. SerialStep(n, d, i, [q |-> x, r |-> y]) = [q |-> 2 * x, r |-> z]
        BY <2>4, <3>6, <4>1 DEF SerialStep
      <4> QED
        BY <3>2, <3>3, <4>3, <4>4
    <3> QED
      BY <3>5, <3>6
  <2> QED
    BY <2>7, <2>8
<1> QED
  BY <1>2, <1>3

\* The function that Radix2 defines by recursion is Divided, which satisfies
\* its equation and, by induction, is the only one that does.
LEMMA RadixIsDivided ==
  ASSUME NEW n \in Word, NEW d \in Nat
  PROVE  Radix2(n, d) = Divided(n, d, WordBits)
PROOF
<1> DEFINE Body(f, i) == IF i = 0 THEN [q |-> 0, r |-> 0] ELSE SerialStep(n, d, i, f[i - 1])
           step == CHOOSE f : f = [i \in 0 .. WordBits |-> Body(f, i)]
           g == [i \in 0 .. WordBits |-> Divided(n, d, i)]
<1>1. WordBits \in Nat
  BY Powers
<1>2. g = [i \in 0 .. WordBits |-> Body(g, i)]
  <2>1. ASSUME NEW i \in 0 .. WordBits PROVE Divided(n, d, i) = Body(g, i)
    <3>1. CASE i = 0
      BY <3>1, SerialDivision
    <3>2. CASE i # 0
      <4>1. i \in 1 .. WordBits /\ i - 1 \in 0 .. WordBits
        BY <1>1, <3>2
      <4>2. g[i - 1] = Divided(n, d, i - 1)
        BY <4>1
      <4> HIDE DEF g
      <4> QED
        BY <3>2, <4>1, <4>2, SerialDivision
    <3> QED
      BY <3>1, <3>2
  <2> QED
    BY <2>1
<1> HIDE DEF g
<1>3. step = [i \in 0 .. WordBits |-> Body(step, i)]
  <2> HIDE DEF Body
  <2>1. \E f : f = [i \in 0 .. WordBits |-> Body(f, i)]
    BY <1>2
  <2> QED
    BY <2>1
<1>4. Radix2(n, d) = step[WordBits]
  BY DEF Radix2, SerialStep
<1> HIDE DEF step
<1>5. ASSUME NEW i \in 0 .. WordBits PROVE step[i] = Body(step, i)
  <2> HIDE DEF Body
  <2> QED
    BY <1>3
<1> DEFINE S == {i \in 0 .. WordBits : step[i] = Divided(n, d, i)}
<1>6. 0 \in S
  BY <1>1, <1>5, SerialDivision
<1>7. ASSUME NEW i \in 0 .. WordBits - 1, i \in S PROVE i + 1 \in S
  <2>1. i + 1 \in 1 .. WordBits /\ i + 1 \in 0 .. WordBits /\ (i + 1) - 1 = i /\ i + 1 # 0
    BY <1>1
  <2>2. step[i + 1] = SerialStep(n, d, i + 1, step[i])
    BY <1>5, <2>1
  <2>3. SerialStep(n, d, i + 1, Divided(n, d, i)) = Divided(n, d, i + 1)
    BY <2>1, SerialDivision
  <2>4. step[i] = Divided(n, d, i)
    BY <1>7
  <2> QED
    BY <2>1, <2>2, <2>3, <2>4
<1> HIDE DEF S
<1>8. 0 .. WordBits \subseteq S
  BY <1>1, <1>6, <1>7, Upward
<1> QED
  BY <1>1, <1>4, <1>8 DEF S

\* What the bit-serial divider computes, with any divisor.
LEMMA RadixResult ==
  ASSUME NEW n \in Word, NEW d \in Nat
  PROVE  /\ Radix2(n, d).q = IF d = 0 THEN WordMax ELSE n \div d
         /\ Radix2(n, d).r = IF d = 0 THEN n ELSE n % d
PROOF
<1>1. WordBits - WordBits = 0 /\ n \div 2^0 = n
  BY Powers, TopOfWord
<1>2. Top(n, WordBits) = n
  BY <1>1 DEF Top
<1>3. 2^WordBits - 1 = WordMax
  BY WordPower DEF WordMax
<1>4. Divided(n, d, WordBits) = [q |-> IF d = 0 THEN WordMax ELSE n \div d,
                                 r |-> IF d = 0 THEN n ELSE n % d]
  BY <1>2, <1>3 DEF Divided
<1> QED
  BY <1>4, RadixIsDivided

\* A word taken modulo the size of a word, and the negative of one.
LEMMA WrapWord ==
  ASSUME NEW x \in Word
  PROVE  Wrap(x) = x /\ Wrap(x - WordSize) = x
PROOF
<1>1. PICK n \in Nat \ {0} : n = WordSize
  BY Sizes
<1>2. x \in 0 .. n - 1 /\ x \in Int /\ x - n \in Int /\ 0 \in Int /\ -1 \in Int
  BY <1>1 DEF Word
<1>3. x = n * 0 + x /\ x - n = n * (-1) + x
  BY <1>2
<1>4. x % n = x
  BY <1>2, <1>3, ModUnique
<1>5. PICK y \in Int : y = x - n
  BY <1>2
<1>6. y % n = x
  <2>1. y = n * (-1) + x
    BY <1>3, <1>5
  <2> QED
    BY <1>2, <2>1, ModUnique
<1> QED
  BY <1>1, <1>4, <1>5, <1>6 DEF Wrap

\* DIV against the divider.
LEMMA SignedDivision ==
  ASSUME NEW x \in Word, NEW y \in Word
  PROVE  div(x, y) = Radix2Signed(x, y)
PROOF
<1> DEFINE n == Signed(x)
           d == Signed(y)
           abs(w) == IF Negative(w) THEN WordSize - w ELSE w
<1>1. PICK h \in Nat \ {0} : h = WordSize \div 2 /\ WordSize = 2 * h
  BY Sizes
<1>2. x \in 0 .. 2 * h - 1 /\ y \in 0 .. 2 * h - 1 /\ WordMax = 2 * h - 1
  BY <1>1 DEF Word, WordMax
<1>3. PICK u \in Word : u = abs(x) /\ u = IF x >= h THEN 2 * h - x ELSE x
  BY <1>1, <1>2 DEF Negative, Word
<1>4. PICK v \in Nat : v = abs(y) /\ v = IF y >= h THEN 2 * h - y ELSE y
  BY <1>1, <1>2 DEF Negative
<1>5. u \in 0 .. h /\ v \in 0 .. h
  BY <1>2, <1>3, <1>4
<1>6. n = (IF x >= h THEN -u ELSE u) /\ d = (IF y >= h THEN -v ELSE v)
  BY <1>1, <1>2, <1>3, <1>4 DEF Signed, Negative
<1>7. (Negative(x) <=> x >= h) /\ (Negative(y) <=> y >= h)
  BY <1>1 DEF Negative
<1>8. (x >= h => u > 0) /\ (y >= h => v > 0)
  BY <1>2, <1>3, <1>4
<1>9. PICK q, r : /\ q = Radix2(u, v).q /\ q = IF v = 0 THEN WordMax ELSE u \div v
                  /\ r = Radix2(u, v).r /\ r = IF v = 0 THEN u ELSE u % v
  BY RadixResult
<1>10. Radix2Signed(x, y) = [lo |-> Wrap(IF (x >= h) = (y >= h) THEN q ELSE -q),
                             hi |-> Wrap(IF x >= h THEN -r ELSE r)]
  <2>1. Negative(x) = (x >= h) /\ Negative(y) = (y >= h)
    BY <1>1 DEF Negative
  <2> QED
    BY <1>3, <1>4, <1>9, <2>1 DEF Radix2Signed
<1> HIDE DEF n, d, abs
<1>11. CASE v = 0
  <2>1. d = 0 /\ ~ (y >= h) /\ q = WordMax /\ r = u
    BY <1>6, <1>8, <1>9, <1>11
  <2>2. div(x, y) = [lo |-> IF n < 0 THEN 1 ELSE WordMax, hi |-> x]
    BY <2>1 DEF div, n, d
  <2>3. CASE x >= h
    <3>1. n < 0
      BY <1>5, <1>6, <1>8, <2>3
    <3>2. -r = x - WordSize /\ -q = 1 - WordSize
      BY <1>1, <1>2, <1>3, <2>1, <2>3
    <3>3. PICK one \in Word : one = 1
      BY <1>1, <1>2 DEF Word
    <3>4. Wrap(-r) = x /\ Wrap(-q) = 1
      BY <3>2, <3>3, WrapWord
    <3> QED
      BY <1>10, <2>1, <2>2, <2>3, <3>1, <3>4
  <2>4. CASE ~ (x >= h)
    <3>1. ~ (n < 0) /\ r = x
      BY <1>3, <1>5, <1>6, <2>1, <2>4
    <3>2. Wrap(r) = x /\ Wrap(q) = WordMax
      BY <2>1, <3>1, WrapWord, MaxBits
    <3> QED
      BY <1>10, <2>1, <2>2, <2>4, <3>1, <3>2
  <2> QED
    BY <2>3, <2>4
<1>12. CASE v # 0
  <2>1. d # 0
    BY <1>5, <1>6, <1>12
  <2>2. /\ q = u \div v /\ r = u % v /\ q \in Nat /\ r \in 0 .. v - 1
        /\ u = v * q + r
    <3>1. q = u \div v /\ r = u % v
      BY <1>9, <1>12
    <3>2. u \in Nat /\ v \in Nat \ {0}
      BY <1>5, <1>12
    <3> QED
      BY <3>1, <3>2
  <2>3. CASE x = WordSize \div 2 /\ y = WordMax
    <3>1. div(x, y) = [lo |-> x, hi |-> 0]
      BY <2>1, <2>3 DEF div, d
    <3>2. x >= h /\ y >= h /\ u = h /\ v = 1
      BY <1>1, <1>2, <1>3, <1>4, <2>3
    <3>3. q = x /\ r = 0
      BY <1>1, <2>2, <2>3, <3>2
    <3>4. Wrap(q) = x /\ Wrap(-r) = 0
      BY <3>3, WrapWord, ZeroBits
    <3> QED
      BY <1>10, <3>1, <3>2, <3>4
  <2>4. CASE ~ (x = WordSize \div 2 /\ y = WordMax)
    <3>1. div(x, y) = [lo |-> Wrap(TruncDiv(n, d)), hi |-> Wrap(n - d * TruncDiv(n, d))]
      BY <2>1, <2>4 DEF div, n, d
    <3>2. (n < 0) = (x >= h) /\ (d < 0) = (y >= h)
      BY <1>5, <1>6, <1>8
    <3>3. (IF n < 0 THEN -n ELSE n) = u /\ (IF d < 0 THEN -d ELSE d) = v
      BY <1>5, <1>6, <1>8
    <3>4. TruncDiv(n, d) = IF (x >= h) = (y >= h) THEN q ELSE -q
      BY <2>2, <3>2, <3>3 DEF TruncDiv
    <3>5. n - d * TruncDiv(n, d) = IF x >= h THEN -r ELSE r
      <4>1. v * q \in Int /\ (-v) * q = -(v * q) /\ v * (-q) = -(v * q) /\ (-v) * (-q) = v * q
        BY <2>2
      <4>2. CASE x >= h /\ y >= h
        BY <1>6, <2>2, <3>4, <4>1, <4>2
      <4>3. CASE x >= h /\ ~ (y >= h)
        BY <1>6, <2>2, <3>4, <4>1, <4>3
      <4>4. CASE ~ (x >= h) /\ y >= h
        BY <1>6, <2>2, <3>4, <4>1, <4>4
      <4>5. CASE ~ (x >= h) /\ ~ (y >= h)
        BY <1>6, <2>2, <3>4, <4>1, <4>5
      <4> QED
        BY <4>2, <4>3, <4>4, <4>5
    <3> QED
      BY <1>10, <3>1, <3>4, <3>5
  <2> QED
    BY <2>3, <2>4
<1> QED
  BY <1>11, <1>12

\* DIV and DIVU give what a bit-serial divider without a test for zero gives,
\* for every dividend and divisor, as the comment at cpu.c:301 says of the
\* results it hard-codes.
THEOREM DivisionRule == Spec => []DivisionRadix2
PROOF
<1>1. ASSUME NEW x \in Word, NEW y \in Word
      PROVE  divu(x, y) = [lo |-> Radix2(x, y).q, hi |-> Radix2(x, y).r]
  <2>1. y \in Nat
    BY Sizes DEF Word
  <2> QED
    BY <2>1, RadixResult DEF divu
<1>2. Operands => DivisionRadix2
  BY <1>1, SignedDivision DEF Operands, DivisionRadix2
<1> QED
  BY <1>2, OperandsType, PTL

(***************************************************************************)
(* The bytes of a word, and those that the stores write.                   *)
(***************************************************************************)
ByteOf(x, j) == (x \div ByteWeight(j)) % ByteSize

\* The bytes of four bytes.
LEMMA ByteOfFour ==
  ASSUME NEW x0 \in Byte, NEW x1 \in Byte, NEW x2 \in Byte, NEW x3 \in Byte
  PROVE  LET x == FourBytes(x0, x1, x2, x3)
         IN  ByteOf(x, 0) = x0 /\ ByteOf(x, 1) = x1 /\ ByteOf(x, 2) = x2 /\ ByteOf(x, 3) = x3
PROOF
<1> DEFINE s == ByteSize
           x == FourBytes(x0, x1, x2, x3)
<1>1. /\ s \in Nat \ {0} /\ x0 \in 0 .. s - 1 /\ x1 \in 0 .. s - 1
      /\ x2 \in 0 .. s - 1 /\ x3 \in 0 .. s - 1
  BY ByteAssumption DEF Byte
<1>2. /\ x % s = x0 /\ x \div s = x1 + x2 * s + x3 * (s * s)
      /\ x \div (s * s) = x2 + x3 * s /\ x \div ((s * s) * s) = x3
  BY BytesSplit
<1>3. /\ ByteOf(x, 0) = (x \div 1) % s /\ ByteOf(x, 1) = (x \div s) % s
      /\ ByteOf(x, 2) = (x \div (s * s)) % s /\ ByteOf(x, 3) = (x \div ((s * s) * s)) % s
  BY DEF ByteOf, ByteWeight, HalfSize
<1>4. x \in Int
  <2>1. s * s \in Nat
    BY <1>1
  <2>2. (s * s) * s \in Nat /\ x1 * s \in Nat /\ x2 * (s * s) \in Nat
    BY <1>1, <2>1
  <2>3. x3 * ((s * s) * s) \in Nat
    BY <1>1, <2>2
  <2>4. x = x0 + x1 * s + x2 * (s * s) + x3 * ((s * s) * s)
    BY DEF FourBytes
  <2> HIDE DEF x, s
  <2> QED
    BY <1>1, <2>2, <2>3, <2>4
<1> HIDE DEF s, x
<1>5. x \div 1 = x
  BY <1>4
<1>6. (x1 + x2 * s + x3 * (s * s)) % s = x1
  <2>1. s * (x2 + x3 * s) = x2 * s + x3 * (s * s) /\ x2 + x3 * s \in Int
    BY <1>1
  <2>2. PICK n \in Int : n = x2 + x3 * s
    BY <2>1
  <2>3. x2 * s \in Int /\ x3 * (s * s) \in Int
    <3>1. s * s \in Nat
      BY <1>1
    <3> QED
      BY <1>1, <3>1
  <2>4. x1 + x2 * s + x3 * (s * s) = s * n + x1
    BY <1>1, <2>1, <2>2, <2>3
  <2>5. s * n + x1 \in Int
    BY <1>1
  <2> QED
    BY <1>1, <2>2, <2>4, <2>5, ModUnique
<1>7. (x2 + x3 * s) % s = x2
  <2>1. x2 + x3 * s = s * x3 + x2 /\ s * x3 + x2 \in Int /\ x3 \in Int
    BY <1>1
  <2> QED
    BY <1>1, <2>1, ModUnique
<1>8. x3 % s = x3
  BY <1>1, ModSmall
<1> QED
  BY <1>2, <1>3, <1>5, <1>6, <1>7, <1>8 DEF x

\* A word is made of its bytes.
LEMMA WordBytes ==
  ASSUME NEW x \in Word
  PROVE  /\ \A j \in 0 .. 3 : ByteOf(x, j) \in Byte
         /\ x = FourBytes(ByteOf(x, 0), ByteOf(x, 1), ByteOf(x, 2), ByteOf(x, 3))
PROOF
<1> DEFINE s == ByteSize
<1>1. s \in Nat \ {0} /\ x \in Nat /\ Byte = 0 .. s - 1
  BY ByteAssumption, Sizes DEF Word, Byte
<1>2. PICK t \in Nat \ {0} : t = s * s
  BY <1>1
<1>3. PICK u \in Nat \ {0} : u = t * s
  BY <1>1
<1>4. /\ ByteOf(x, 0) = (x \div 1) % s /\ ByteOf(x, 1) = (x \div s) % s
      /\ ByteOf(x, 2) = (x \div t) % s /\ ByteOf(x, 3) = (x \div u) % s
  BY <1>2, <1>3 DEF ByteOf, ByteWeight, HalfSize
<1>5. WordSize = u * s
  <2>1. WordSize = t * t
    BY <1>2 DEF WordSize, HalfSize
  <2>2. u * s = t * (s * s)
    BY <1>1, <1>3
  <2> QED
    BY <1>2, <2>1, <2>2
<1> DEFINE q1 == x \div s
           q2 == x \div t
           q3 == x \div u
<1>6. q3 \in 0 .. s - 1
  <2>1. x \in 0 .. (u * s) - 1
    BY <1>5 DEF Word
  <2> HIDE DEF s
  <2> QED
    BY <1>1, <2>1, Split
<1> HIDE DEF s
<1>7. x \div 1 = x /\ q3 % s = q3
  BY <1>1, <1>6, ModSmall
<1>8. q1 \in Nat /\ x % s \in 0 .. s - 1 /\ x = s * q1 + (x % s)
  BY <1>1
<1>9. q1 \div s = q2 /\ q2 \div s = q3
  <2>1. s \in Nat \ {0} /\ t \in Nat \ {0} /\ x \in Int
    BY <1>1
  <2>2. (x \div s) \div s = x \div (s * s)
    BY <2>1, DivTwice
  <2>3. (x \div t) \div s = x \div (t * s)
    BY <2>1, DivTwice
  <2> QED
    BY <1>2, <1>3, <2>2, <2>3
<1>10. q1 % s \in 0 .. s - 1 /\ q1 = s * q2 + (q1 % s)
  <2> HIDE DEF q1, q2
  <2> QED
    BY <1>1, <1>8, <1>9
<1>11. q2 \in Nat /\ q2 % s \in 0 .. s - 1 /\ q2 = s * q3 + (q2 % s)
  <2>1. q2 \in Nat
    BY <1>1
  <2> HIDE DEF q2, q3
  <2> QED
    BY <1>1, <1>9, <2>1
<1> HIDE DEF q1, q2, q3
<1>12. PICK x0 \in 0 .. s - 1 : x0 = x % s
  BY <1>8
<1>13. PICK x1 \in 0 .. s - 1 : x1 = q1 % s
  BY <1>10
<1>14. PICK x2 \in 0 .. s - 1 : x2 = q2 % s
  BY <1>11
<1>15. x = x0 + x1 * s + x2 * t + q3 * u
  <2>1. s * q3 \in Int /\ s * q2 \in Int /\ q3 \in Int
    BY <1>1, <1>6, <1>11
  <2>2. s * q2 = q3 * t + x2 * s
    BY <1>1, <1>2, <1>6, <1>11, <1>14
  <2>3. q3 * t \in Int /\ x2 * s \in Int /\ x1 \in Int
    BY <1>1, <1>6
  <2>4. q1 = q3 * t + x2 * s + x1
    BY <1>10, <1>13, <2>2, <2>3
  <2>5. s * q1 = s * (q3 * t) + s * (x2 * s) + s * x1
    BY <1>1, <2>3, <2>4
  <2>6. s * (q3 * t) = q3 * u /\ s * (x2 * s) = x2 * t /\ s * x1 = x1 * s
    BY <1>1, <1>2, <1>3, <1>6
  <2>7. q3 * u \in Int /\ x2 * t \in Int /\ x1 * s \in Int
    BY <1>1, <1>6
  <2> QED
    BY <1>8, <1>12, <2>5, <2>6, <2>7
<1>16. ByteOf(x, 0) = x0 /\ ByteOf(x, 1) = x1 /\ ByteOf(x, 2) = x2 /\ ByteOf(x, 3) = q3
  BY <1>4, <1>7, <1>12, <1>13, <1>14 DEF q1, q2, q3
<1>17. x = FourBytes(x0, x1, x2, q3)
  BY <1>2, <1>3, <1>15 DEF FourBytes, s
<1>18. \A j \in 0 .. 3 : ByteOf(x, j) \in Byte
  <2>1. ASSUME NEW j \in 0 .. 3 PROVE j = 0 \/ j = 1 \/ j = 2 \/ j = 3
    OBVIOUS
  <2> QED
    BY <1>1, <1>6, <1>16, <2>1
<1> QED
  BY <1>16, <1>17, <1>18

\* SWR and SWL of k bytes and of the others, byte by byte.
LEMMA MergedStores ==
  ASSUME NEW r \in [0 .. 3 -> Byte], NEW w \in [0 .. 3 -> Byte]
  PROVE  LET v == FourBytes(r[0], r[1], r[2], r[3])
             m == FourBytes(w[0], w[1], w[2], w[3])
         IN  v \in Word /\ m \in Word =>
             /\ swr_merge(v, m, 0) = v
             /\ swr_merge(v, m, 1) = FourBytes(w[0], r[0], r[1], r[2])
             /\ swr_merge(v, m, 2) = FourBytes(w[0], w[1], r[0], r[1])
             /\ swr_merge(v, m, 3) = FourBytes(w[0], w[1], w[2], r[0])
             /\ swl_merge(v, m, 0) = FourBytes(r[3], w[1], w[2], w[3])
             /\ swl_merge(v, m, 1) = FourBytes(r[2], r[3], w[2], w[3])
             /\ swl_merge(v, m, 2) = FourBytes(r[1], r[2], r[3], w[3])
             /\ swl_merge(v, m, 3) = v
PROOF
<1> DEFINE s == ByteSize
           r0 == r[0]
           r1 == r[1]
           r2 == r[2]
           r3 == r[3]
           w0 == w[0]
           w1 == w[1]
           w2 == w[2]
           w3 == w[3]
           v == FourBytes(r0, r1, r2, r3)
           m == FourBytes(w0, w1, w2, w3)
<1>0. /\ r0 \in Byte /\ r1 \in Byte /\ r2 \in Byte /\ r3 \in Byte
      /\ w0 \in Byte /\ w1 \in Byte /\ w2 \in Byte /\ w3 \in Byte
  OBVIOUS
<1> HIDE DEF r0, r1, r2, r3, w0, w1, w2, w3
<1>a. SUFFICES ASSUME v \in Word, m \in Word
               PROVE  /\ swr_merge(v, m, 0) = v
                      /\ swr_merge(v, m, 1) = FourBytes(w0, r0, r1, r2)
                      /\ swr_merge(v, m, 2) = FourBytes(w0, w1, r0, r1)
                      /\ swr_merge(v, m, 3) = FourBytes(w0, w1, w2, r0)
                      /\ swl_merge(v, m, 0) = FourBytes(r3, w1, w2, w3)
                      /\ swl_merge(v, m, 1) = FourBytes(r2, r3, w2, w3)
                      /\ swl_merge(v, m, 2) = FourBytes(r1, r2, r3, w3)
                      /\ swl_merge(v, m, 3) = v
  BY DEF r0, r1, r2, r3, w0, w1, w2, w3
<1>1. /\ s \in Nat \ {0}
      /\ r0 \in Nat /\ r1 \in Nat /\ r2 \in Nat /\ r3 \in Nat
      /\ w0 \in Nat /\ w1 \in Nat /\ w2 \in Nat /\ w3 \in Nat
  BY <1>0, ByteAssumption DEF Byte
<1>2. /\ v % s = r0 /\ v \div s = r1 + r2 * s + r3 * (s * s)
      /\ v % (s * s) = r0 + r1 * s /\ v \div (s * s) = r2 + r3 * s
      /\ v % ((s * s) * s) = r0 + r1 * s + r2 * (s * s) /\ v \div ((s * s) * s) = r3
  BY <1>0, BytesSplit
<1>3. /\ m % s = w0 /\ m \div s = w1 + w2 * s + w3 * (s * s)
      /\ m % (s * s) = w0 + w1 * s /\ m \div (s * s) = w2 + w3 * s
      /\ m % ((s * s) * s) = w0 + w1 * s + w2 * (s * s) /\ m \div ((s * s) * s) = w3
  BY <1>0, BytesSplit
<1>4. \A y0, y1, y2, y3 : FourBytes(y0, y1, y2, y3) =
        y0 + y1 * s + y2 * (s * s) + y3 * ((s * s) * s)
  BY DEF FourBytes
<1> HIDE DEF v, m
<1>5. /\ swr_merge(v, m, 1) = s * (v % ((s * s) * s)) + (m % s)
      /\ swr_merge(v, m, 2) = (s * s) * (v % (s * s)) + (m % (s * s))
      /\ swr_merge(v, m, 3) = ((s * s) * s) * (v % s) + (m % ((s * s) * s))
      /\ swl_merge(v, m, 0) = s * (m \div s) + (v \div ((s * s) * s))
      /\ swl_merge(v, m, 1) = (s * s) * (m \div (s * s)) + (v \div (s * s))
      /\ swl_merge(v, m, 2) = ((s * s) * s) * (m \div ((s * s) * s)) + (v \div s)
  <2>1. /\ ByteWeight(1) = s /\ ByteWeight(2) = s * s /\ ByteWeight(3) = (s * s) * s
    BY DEF ByteWeight, HalfSize
  <2>2. /\ 4 - 1 = 3 /\ 4 - 2 = 2 /\ 4 - 3 = 1 /\ 1 - 1 = 0 /\ 2 - 1 = 1 /\ 3 - 1 = 2
        /\ 1 \in 1 .. 3 /\ 2 \in 1 .. 3 /\ 3 \in 1 .. 3
    OBVIOUS
  <2>3. \A k \in 1 .. 3 :
          /\ swr_merge(v, m, k) = ByteWeight(k) * (v % ByteWeight(4 - k)) + (m % ByteWeight(k))
          /\ swl_merge(v, m, k - 1) =
               ByteWeight(k) * (m \div ByteWeight(k)) + (v \div ByteWeight(4 - k))
    BY <1>a, StoresMerge
  <2> HIDE DEF s
  <2> QED
    BY <2>1, <2>2, <2>3
<1>6. swr_merge(v, m, 0) = v /\ swl_merge(v, m, 3) = v
  <2>1. m % 1 = 0 /\ v * 1 = v /\ v \div 1 = v /\ 0 + v = v /\ 3 - 3 = 0
    BY <1>a, Sizes DEF Word
  <2>2. v % WordSize = v
    BY <1>a, Sizes, ModSmall DEF Word
  <2> QED
    BY <2>1, <2>2 DEF swr_merge, swl_merge, Wrap, ByteWeight
<1> HIDE DEF s
<1>7. PICK t \in Nat \ {0} : t = s * s
  BY <1>1
<1>8. PICK u \in Nat \ {0} : u = t * s
  BY <1>1
<1>9. ASSUME NEW y \in Nat
      PROVE  /\ y * s \in Nat /\ y * t \in Nat /\ y * u \in Nat
             /\ s * y = y * s /\ t * y = y * t /\ u * y = y * u
             /\ s * (y * s) = y * t /\ s * (y * t) = y * u /\ t * (y * s) = y * u
  <2>1. y * s \in Nat /\ y * t \in Nat /\ y * u \in Nat
    BY <1>1
  <2>2. s * y = y * s /\ t * y = y * t /\ u * y = y * u
    BY <1>1
  <2>3. s * (y * s) = y * (s * s) /\ s * (y * t) = y * (t * s) /\ t * (y * s) = y * (t * s)
    BY <1>1
  <2> QED
    BY <1>7, <1>8, <2>1, <2>2, <2>3
<1> DEFINE all(x0, x1, x2, x3)   == x0 + x1 * s + x2 * t + x3 * u
           one(x0, x1, x2, x3)   == s * (x1 + x2 * s + x3 * t) + x0
           two(x0, x1, x2, x3)   == t * (x2 + x3 * s) + (x0 + x1 * s)
           three(x0, x1, x2, x3) == u * x3 + (x0 + x1 * s + x2 * t)
<1>10. ASSUME NEW x0 \in Nat, NEW x1 \in Nat, NEW x2 \in Nat, NEW x3 \in Nat
       PROVE  /\ one(x0, x1, x2, x3) = all(x0, x1, x2, x3)
              /\ two(x0, x1, x2, x3) = all(x0, x1, x2, x3)
              /\ three(x0, x1, x2, x3) = all(x0, x1, x2, x3)
  <2>1. /\ x1 * s \in Nat /\ x2 * s \in Nat /\ x3 * s \in Nat /\ x2 * t \in Nat /\ x3 * t \in Nat
        /\ x3 * u \in Nat
    BY <1>9
  <2>2. s * (x1 + x2 * s + x3 * t) = s * x1 + s * (x2 * s) + s * (x3 * t)
    BY <1>1, <2>1
  <2>3. t * (x2 + x3 * s) = t * x2 + t * (x3 * s)
    BY <2>1
  <2>4. /\ s * x1 = x1 * s /\ s * (x2 * s) = x2 * t /\ s * (x3 * t) = x3 * u
        /\ t * x2 = x2 * t /\ t * (x3 * s) = x3 * u /\ u * x3 = x3 * u
    BY <1>9
  <2> QED
    BY <2>1, <2>2, <2>3, <2>4
<1>11. /\ swr_merge(v, m, 1) = one(w0, r0, r1, r2)
       /\ swr_merge(v, m, 2) = two(w0, w1, r0, r1)
       /\ swr_merge(v, m, 3) = three(w0, w1, w2, r0)
       /\ swl_merge(v, m, 0) = one(r3, w1, w2, w3)
       /\ swl_merge(v, m, 1) = two(r2, r3, w2, w3)
       /\ swl_merge(v, m, 2) = three(r1, r2, r3, w3)
  BY <1>2, <1>3, <1>5, <1>7, <1>8
<1>12. \A y0, y1, y2, y3 : FourBytes(y0, y1, y2, y3) = all(y0, y1, y2, y3)
  BY <1>4, <1>7, <1>8
<1> HIDE DEF all, one, two, three
<1>13. /\ swr_merge(v, m, 1) = FourBytes(w0, r0, r1, r2)
       /\ swr_merge(v, m, 2) = FourBytes(w0, w1, r0, r1)
       /\ swr_merge(v, m, 3) = FourBytes(w0, w1, w2, r0)
  BY <1>1, <1>10, <1>11, <1>12
<1>14. /\ swl_merge(v, m, 0) = FourBytes(r3, w1, w2, w3)
       /\ swl_merge(v, m, 1) = FourBytes(r2, r3, w2, w3)
       /\ swl_merge(v, m, 2) = FourBytes(r1, r2, r3, w3)
  BY <1>1, <1>10, <1>11, <1>12
<1> QED
  BY <1>6, <1>13, <1>14

\* The bytes of what SB, SH, SWL and SWR store: those of the register, from
\* the byte that belongs at the address on, and what they keep of the word.
LEMMA StoredBytes ==
  ASSUME NEW v \in Word, NEW m \in Word
  PROVE  /\ ByteOf(v % ByteSize, 0) = ByteOf(v, 0)
         /\ \A j \in 0 .. 1 : ByteOf(v % HalfSize, j) = ByteOf(v, j)
         /\ \A k, j \in 0 .. 3 :
              /\ ByteOf(swr_merge(v, m, k), j) = IF j < k THEN ByteOf(m, j) ELSE ByteOf(v, j - k)
              /\ ByteOf(swl_merge(v, m, k), j) = IF j > k THEN ByteOf(m, j) ELSE ByteOf(v, j + 3 - k)
PROOF
<1> DEFINE r == [j \in 0 .. 3 |-> ByteOf(v, j)]
           w == [j \in 0 .. 3 |-> ByteOf(m, j)]
<1>1. r \in [0 .. 3 -> Byte] /\ w \in [0 .. 3 -> Byte]
  BY WordBytes
<1>2. v = FourBytes(r[0], r[1], r[2], r[3]) /\ m = FourBytes(w[0], w[1], w[2], w[3])
  BY WordBytes
<1>3. \A j \in 0 .. 3 : r[j] = ByteOf(v, j) /\ w[j] = ByteOf(m, j)
  OBVIOUS
<1> HIDE DEF r, w
<1>4. /\ swr_merge(v, m, 0) = v
      /\ swr_merge(v, m, 1) = FourBytes(w[0], r[0], r[1], r[2])
      /\ swr_merge(v, m, 2) = FourBytes(w[0], w[1], r[0], r[1])
      /\ swr_merge(v, m, 3) = FourBytes(w[0], w[1], w[2], r[0])
      /\ swl_merge(v, m, 0) = FourBytes(r[3], w[1], w[2], w[3])
      /\ swl_merge(v, m, 1) = FourBytes(r[2], r[3], w[2], w[3])
      /\ swl_merge(v, m, 2) = FourBytes(r[1], r[2], r[3], w[3])
      /\ swl_merge(v, m, 3) = v
  BY <1>1, <1>2, MergedStores
<1>5. /\ r[0] \in Byte /\ r[1] \in Byte /\ r[2] \in Byte /\ r[3] \in Byte
      /\ w[0] \in Byte /\ w[1] \in Byte /\ w[2] \in Byte /\ w[3] \in Byte /\ 0 \in Byte
  BY <1>1, ByteAssumption DEF Byte
<1>6. ByteOf(v % ByteSize, 0) = ByteOf(v, 0) /\ \A j \in 0 .. 1 : ByteOf(v % HalfSize, j) = ByteOf(v, j)
  <2>1. v % ByteSize = r[0] /\ v % HalfSize = r[0] + r[1] * ByteSize
    BY <1>2, <1>5, BytesSplit DEF HalfSize
  <2>2. \A x0, x1 \in Byte : FourBytes(x0, x1, 0, 0) = x0 + x1 * ByteSize
    <3> DEFINE s == ByteSize
    <3>1. s \in Nat /\ s * s \in Nat /\ (s * s) * s \in Nat /\ \A x1 \in Byte : x1 * s \in Nat
      BY ByteAssumption DEF Byte
    <3>2. \A x0, x1 : FourBytes(x0, x1, 0, 0) = x0 + x1 * s + 0 * (s * s) + 0 * ((s * s) * s)
      BY DEF FourBytes
    <3>3. Byte \subseteq Nat
      BY ByteAssumption DEF Byte
    <3> HIDE DEF s
    <3>4. 0 * (s * s) = 0 /\ 0 * ((s * s) * s) = 0
      BY <3>1
    <3>5. \A x0, x1 \in Byte : FourBytes(x0, x1, 0, 0) = x0 + x1 * s
      BY <3>1, <3>2, <3>3, <3>4
    <3> QED
      BY <3>5 DEF s
  <2>3. v % ByteSize = FourBytes(r[0], 0, 0, 0)
    <3>1. r[0] + 0 * ByteSize = r[0]
      BY <1>5, ByteAssumption DEF Byte
    <3> QED
      BY <1>5, <2>1, <2>2, <3>1
  <2>4. v % HalfSize = FourBytes(r[0], r[1], 0, 0)
    BY <1>5, <2>1, <2>2
  <2>5. /\ ByteOf(v % ByteSize, 0) = r[0]
        /\ ByteOf(v % HalfSize, 0) = r[0] /\ ByteOf(v % HalfSize, 1) = r[1]
    BY <1>5, <2>3, <2>4, ByteOfFour
  <2>6. \A j \in 0 .. 1 : j = 0 \/ j = 1
    OBVIOUS
  <2> QED
    BY <1>3, <2>5, <2>6
<1>7. ASSUME NEW j \in 0 .. 3 PROVE j = 0 \/ j = 1 \/ j = 2 \/ j = 3
  OBVIOUS
<1>8. ASSUME NEW x0 \in Byte, NEW x1 \in Byte, NEW x2 \in Byte, NEW x3 \in Byte, NEW x, x = FourBytes(x0, x1, x2, x3)
      PROVE  ByteOf(x, 0) = x0 /\ ByteOf(x, 1) = x1 /\ ByteOf(x, 2) = x2 /\ ByteOf(x, 3) = x3
  BY <1>8, ByteOfFour
<1>9. ASSUME NEW k \in 0 .. 3, NEW j \in 0 .. 3
      PROVE  ByteOf(swr_merge(v, m, k), j) = IF j < k THEN ByteOf(m, j) ELSE ByteOf(v, j - k)
  <2>1. CASE k = 0
    <3>1. j - k = j /\ ~ (j < k)
      BY <2>1
    <3> QED
      BY <1>4, <2>1, <3>1
  <2>2. CASE k = 1
    <3>1. /\ ByteOf(swr_merge(v, m, 1), 0) = w[0] /\ ByteOf(swr_merge(v, m, 1), 1) = r[0]
          /\ ByteOf(swr_merge(v, m, 1), 2) = r[1] /\ ByteOf(swr_merge(v, m, 1), 3) = r[2]
      BY <1>4, <1>5, <1>8
    <3> QED
      BY <1>3, <1>7, <2>2, <3>1
  <2>3. CASE k = 2
    <3>1. /\ ByteOf(swr_merge(v, m, 2), 0) = w[0] /\ ByteOf(swr_merge(v, m, 2), 1) = w[1]
          /\ ByteOf(swr_merge(v, m, 2), 2) = r[0] /\ ByteOf(swr_merge(v, m, 2), 3) = r[1]
      BY <1>4, <1>5, <1>8
    <3> QED
      BY <1>3, <1>7, <2>3, <3>1
  <2>4. CASE k = 3
    <3>1. /\ ByteOf(swr_merge(v, m, 3), 0) = w[0] /\ ByteOf(swr_merge(v, m, 3), 1) = w[1]
          /\ ByteOf(swr_merge(v, m, 3), 2) = w[2] /\ ByteOf(swr_merge(v, m, 3), 3) = r[0]
      BY <1>4, <1>5, <1>8
    <3> QED
      BY <1>3, <1>7, <2>4, <3>1
  <2> QED
    BY <2>1, <2>2, <2>3, <2>4
<1>10. ASSUME NEW k \in 0 .. 3, NEW j \in 0 .. 3
       PROVE  ByteOf(swl_merge(v, m, k), j) = IF j > k THEN ByteOf(m, j) ELSE ByteOf(v, j + 3 - k)
  <2>1. CASE k = 0
    <3>1. /\ ByteOf(swl_merge(v, m, 0), 0) = r[3] /\ ByteOf(swl_merge(v, m, 0), 1) = w[1]
          /\ ByteOf(swl_merge(v, m, 0), 2) = w[2] /\ ByteOf(swl_merge(v, m, 0), 3) = w[3]
      BY <1>4, <1>5, <1>8
    <3> QED
      BY <1>3, <1>7, <2>1, <3>1
  <2>2. CASE k = 1
    <3>1. /\ ByteOf(swl_merge(v, m, 1), 0) = r[2] /\ ByteOf(swl_merge(v, m, 1), 1) = r[3]
          /\ ByteOf(swl_merge(v, m, 1), 2) = w[2] /\ ByteOf(swl_merge(v, m, 1), 3) = w[3]
      BY <1>4, <1>5, <1>8
    <3> QED
      BY <1>3, <1>7, <2>2, <3>1
  <2>3. CASE k = 2
    <3>1. /\ ByteOf(swl_merge(v, m, 2), 0) = r[1] /\ ByteOf(swl_merge(v, m, 2), 1) = r[2]
          /\ ByteOf(swl_merge(v, m, 2), 2) = r[3] /\ ByteOf(swl_merge(v, m, 2), 3) = w[3]
      BY <1>4, <1>5, <1>8
    <3> QED
      BY <1>3, <1>7, <2>3, <3>1
  <2>4. CASE k = 3
    <3>1. j + 3 - k = j /\ ~ (j > k)
      BY <2>4
    <3> QED
      BY <1>4, <2>4, <3>1
  <2> QED
    BY <2>1, <2>2, <2>3, <2>4
<1> QED
  BY <1>6, <1>9, <1>10
=============================================================================

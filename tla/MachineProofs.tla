--------------------------- MODULE MachineProofs ---------------------------
(***************************************************************************)
(* The CPU on its memory, for every memory map: what the lemmas about Cpu  *)
(* and those about Bus say of a step of both.  The CPU asks for aligned    *)
(* accesses (BusEffect), an aligned access stays inside its region         *)
(* (StoreSparesPointers), and what it returns is a word again.             *)
(***************************************************************************)
EXTENDS Machine, CpuAccessProofs

\* The lemmas about Bus, on the memory of Machine.
P == INSTANCE BusProofs WITH
       Zero <- 0, Ones <- ByteSize - 1,
       PhysAddr <- 0 .. PhysSize - 1,
       BiosImage <- [k \in 0 .. BIOS_ADDR_END - BIOS_ADDR_START - 1 |-> 0],
       last <- [kind |-> "load", addr |-> 0, val |-> << >>]

\* The arithmetic, which does not depend on the operands of WordsCheck.
W == INSTANCE WordsProofs WITH Probe <- Word, a <- 0, b <- 0

\* Adding to the remainder or to the number leaves the same remainder.
LEMMA ModAdd ==
  ASSUME NEW n \in Nat \ {0}, NEW x \in Int, NEW k \in Int
  PROVE  ((x % n) + k) % n = (x + k) % n
PROOF
<1>1. W!ByteAssumption /\ W!CpuDefsAssumption /\ W!PowerAssumption
  BY ByteAssumption, CpuDefsAssumption, PowerAssumption
     DEF W!ByteAssumption, W!CpuDefsAssumption, W!PowerAssumption, W!Word, W!WordSize, W!HalfSize,
         Word, WordSize, HalfSize
<1> QED
  BY <1>1, W!ModAdd DEF W!ByteAssumption, W!CpuDefsAssumption, W!PowerAssumption

\* There is no other quotient and no other remainder.
LEMMA ModUnique ==
  ASSUME NEW n \in Nat \ {0}, NEW x \in Int, NEW q \in Int, NEW k \in 0 .. n - 1, x = n * q + k
  PROVE  x % n = k /\ x \div n = q
PROOF
<1>1. W!ByteAssumption /\ W!CpuDefsAssumption /\ W!PowerAssumption
  BY ByteAssumption, CpuDefsAssumption, PowerAssumption
     DEF W!ByteAssumption, W!CpuDefsAssumption, W!PowerAssumption, W!Word, W!WordSize, W!HalfSize,
         Word, WordSize, HalfSize
<1> QED
  BY <1>1, W!ModUnique DEF W!ByteAssumption, W!CpuDefsAssumption, W!PowerAssumption

Memory == host \in [B!HostCell -> Byte]

\* Both instances of Bus are the same bus.
LEMMA OneBus ==
  /\ P!BusAssumption
  /\ P!HostCell = B!HostCell /\ P!pointers = B!pointers /\ P!Width = {1, 2, 4}
  /\ P!PointersIntact = B!PointersIntact
  /\ \A paddr, len, regions : P!load(paddr, len, regions) = B!load(paddr, len, regions)
  /\ \A paddr, val : P!Stored(paddr, val) = B!Stored(paddr, val)
PROOF
<1> USE DEF B!RAM_SIZE, P!RAM_SIZE, B!BIOS_SIZE, P!BIOS_SIZE, B!SCRATCHPAD_SIZE,
            P!SCRATCHPAD_SIZE, B!bios, P!bios, B!scratchpad, P!scratchpad,
            B!pointers, P!pointers, B!ram, P!ram, B!HostCell, P!HostCell
<1>1. P!BusAssumption
  BY MachineAssumption DEF B!BusAssumption, P!BusAssumption
<1>2. P!HostCell = B!HostCell /\ P!pointers = B!pointers /\ P!Width = {1, 2, 4}
  BY DEF P!Width
<1>3. P!PointersIntact = B!PointersIntact
  BY DEF P!PointersIntact, B!PointersIntact
<1>4. \A paddr : P!Region(paddr) = B!Region(paddr)
  BY DEF P!Region, B!Region
<1>5. \A paddr : P!Cell(paddr) = B!Cell(paddr)
  BY <1>4 DEF P!Cell, B!Cell
<1>6. \A paddr, len, regions : P!load(paddr, len, regions) = B!load(paddr, len, regions)
  BY <1>4, <1>5 DEF P!load, B!load
<1>7. \A paddr, val : P!Stored(paddr, val) = B!Stored(paddr, val)
  BY <1>4, <1>5 DEF P!Stored, B!Stored, P!Writable, B!Writable
<1> QED
  BY <1>1, <1>2, <1>3, <1>6, <1>7

(***************************************************************************)
(* Values and their bytes.                                                 *)
(***************************************************************************)
\* Up to four bytes make a word.
LEMMA ValueType ==
  ASSUME NEW len \in {1, 2, 4}, NEW bytes \in [1 .. len -> Byte]
  PROVE  ValueOf(bytes) \in Word
PROOF
<1>1. Len(bytes) = len
  OBVIOUS
<1> DEFINE S == ByteSize
<1>2. S \in Nat /\ S > 1
  BY ByteAssumption
<1>3. /\ ByteWeight(0) = 1 /\ ByteWeight(1) = S /\ ByteWeight(2) = S * S
      /\ ByteWeight(3) = (S * S) * S
  BY DEF ByteWeight, HalfSize
<1>4. \A k \in 1 .. len : bytes[k] \in 0 .. S - 1
  BY DEF Byte
<1>5. WordSize = ((S * S) * S) * S
  BY <1>2 DEF WordSize, HalfSize
<1> HIDE DEF S
<1>6. ASSUME NEW m \in Nat, NEW x \in 0 .. m - 1, NEW b \in 0 .. S - 1
      PROVE  x + b * m \in 0 .. (m * S) - 1
  <2>1. b * m <= (S - 1) * m
    BY <1>2
  <2>2. (S - 1) * m = (m * S) - m
    BY <1>2
  <2>3. b * m \in Nat /\ m * S \in Nat /\ (S - 1) * m \in Int
    BY <1>2
  <2> QED
    BY <1>2, <2>1, <2>2, <2>3
<1>7. S * S \in Nat /\ (S * S) * S \in Nat /\ S <= S * S /\ S * S <= (S * S) * S
  <2>1. S * S \in Nat /\ S <= S * S
    BY <1>2
  <2> QED
    BY <1>2, <2>1
<1>8. (S * S) * S <= ((S * S) * S) * S /\ ((S * S) * S) * S \in Nat
  <2> DEFINE C == (S * S) * S
  <2>1. C \in Nat
    BY <1>7
  <2> HIDE DEF C
  <2>2. C <= C * S /\ C * S \in Nat
    BY <1>2, <2>1
  <2> QED
    BY <2>2 DEF C
<1>9. CASE len = 1
  <2>1. ValueOf(bytes) = bytes[1] * 1
    BY <1>1, <1>3, <1>9 DEF ValueOf
  <2>2. bytes[1] \in 0 .. S - 1
    BY <1>4, <1>9
  <2> QED
    BY <1>2, <1>5, <1>7, <1>8, <2>1, <2>2 DEF Word
<1>10. CASE len = 2
  <2>1. ValueOf(bytes) = bytes[1] * 1 + bytes[2] * S
    BY <1>1, <1>3, <1>10 DEF ValueOf
  <2>2. bytes[1] \in 0 .. S - 1 /\ bytes[2] \in 0 .. S - 1
    BY <1>4, <1>10
  <2>3. bytes[1] + bytes[2] * S \in 0 .. (S * S) - 1
    BY <1>2, <1>6, <2>2
  <2> QED
    BY <1>2, <1>5, <1>7, <1>8, <2>1, <2>2, <2>3 DEF Word
<1>11. CASE len = 4
  <2>1. ValueOf(bytes) = bytes[1] * 1 + bytes[2] * S + bytes[3] * (S * S) + bytes[4] * ((S * S) * S)
    BY <1>1, <1>3, <1>11 DEF ValueOf
  <2>2. /\ bytes[1] \in 0 .. S - 1 /\ bytes[2] \in 0 .. S - 1
        /\ bytes[3] \in 0 .. S - 1 /\ bytes[4] \in 0 .. S - 1
    BY <1>4, <1>11
  <2>3. bytes[1] * 1 = bytes[1]
    BY <1>2, <2>2
  <2>4. bytes[1] + bytes[2] * S \in 0 .. (S * S) - 1
    BY <1>2, <1>6, <2>2
  <2>5. (bytes[1] + bytes[2] * S) + bytes[3] * (S * S) \in 0 .. ((S * S) * S) - 1
    BY <1>6, <1>7, <2>2, <2>4
  <2>6. ((bytes[1] + bytes[2] * S) + bytes[3] * (S * S)) + bytes[4] * ((S * S) * S)
          \in 0 .. (((S * S) * S) * S) - 1
    BY <1>6, <1>7, <2>2, <2>5
  <2> QED
    BY <1>5, <2>1, <2>3, <2>6 DEF Word
<1> QED
  BY <1>9, <1>10, <1>11

\* The bytes of a value.
LEMMA BytesType ==
  ASSUME NEW val \in Word, NEW len \in {1, 2, 4}
  PROVE  BytesOf(val, len) \in P!Bytes(len)
PROOF
<1>1. ASSUME NEW k \in 1 .. len PROVE (val \div ByteWeight(k - 1)) % ByteSize \in Byte
  <2>1. ByteWeight(k - 1) \in Nat \ {0}
    <3>1. HalfSize * ByteSize \in Nat \ {0}
      BY SizeFacts, ByteAssumption
    <3> QED
      BY <3>1, SizeFacts, ByteAssumption DEF ByteWeight
  <2>2. val \in Nat
    BY WordFacts
  <2>3. val \div ByteWeight(k - 1) \in Nat
    BY <2>1, <2>2
  <2> QED
    BY <2>3, ByteAssumption DEF Byte
<1> QED
  BY <1>1 DEF BytesOf, P!Bytes

\* What the bus returns to the CPU is a word, wherever it reads.
LEMMA LoadValueType ==
  ASSUME Memory, NEW paddr \in Nat, NEW len \in {1, 2, 4}
  PROVE  LoadValue(paddr, len) \in Word
PROOF
<1> DEFINE all == {"ram", "scratchpad", "bios"}
           two == {"ram", "scratchpad"}
<1>1. host \in [P!HostCell -> Byte] /\ len \in P!Width
  BY OneBus DEF Memory
<1>2. \A regions \in SUBSET all : P!load(paddr, len, regions) \in P!Bytes(len)
  BY <1>1, OneBus, P!LoadType DEF P!BusAssumption
<1>3. \A regions \in SUBSET all : B!load(paddr, len, regions) \in [1 .. len -> Byte]
  BY <1>2, OneBus DEF P!Bytes
<1>4. \E regions \in SUBSET all : LoadValue(paddr, len) = ValueOf(B!load(paddr, len, regions))
  <2>1. all \in SUBSET all /\ two \in SUBSET all
    OBVIOUS
  <2> QED
    BY <2>1 DEF LoadValue, B!psycho_bus_load_word, B!psycho_bus_load_halfword,
                B!psycho_bus_load_byte
<1> QED
  BY <1>3, <1>4, ValueType

\* An instruction, mapped or not.
LEMMA InstrAtType ==
  ASSUME Memory, NEW paddr \in Nat
  PROVE  InstrAt(paddr) \in InstrType
PROOF
  BY LoadValueType, MachineAssumption DEF InstrAt

(***************************************************************************)
(* A step.                                                                 *)
(***************************************************************************)
Stepped == InstrAt(vaddr_to_paddr(FetchPc))

\* A step of the machine executes the instruction in memory, on words.
LEMMA StepOnMemory ==
  ASSUME TypeOK, Memory, psycho_cpu_step
  PROVE  /\ Stepped \in InstrType
         /\ \E words \in SUBSET Word : Execute(Stepped, words)
         /\ host' = AfterStores(bus')
PROOF
<1>1. vaddr_to_paddr(FetchPc) \in Nat
  <2>1. FetchPc \in Word
    BY CpuDefsAssumption DEF FetchPc, TypeOK, CpuType
  <2> QED
    BY <2>1, AddrType, WordFacts
<1>2. Stepped \in InstrType
  BY <1>1, InstrAtType DEF Stepped
<1>3. LoadValue(BusAddr(Stepped), AccessLen(Stepped.op)) \in Word
  <2>1. AccessLen(Stepped.op) \in {1, 2, 4}
    BY DEF AccessLen
  <2>2. Paddr(Stepped) \in Nat
    BY <1>2, HeadType, AddrType, WordFacts DEF Paddr, Vaddr, TypeOK
  <2>3. BusAddr(Stepped) \in Nat
    <3>1. Paddr(Stepped) % 4 <= Paddr(Stepped) /\ Paddr(Stepped) % 4 \in Nat
      BY <2>2
    <3> QED
      BY <2>2, <3>1 DEF BusAddr, ByteInWord
  <2> QED
    BY <2>1, <2>3, LoadValueType
<1>4. PICK words : /\ words = {LoadValue(BusAddr(Stepped), AccessLen(Stepped.op))}
                   /\ Execute(Stepped, words) /\ host' = AfterStores(bus')
  BY DEF psycho_cpu_step, Stepped
<1> QED
  BY <1>2, <1>3, <1>4

\* The calls of a step, as the bus sees them.
LEMMA StepCalls ==
  ASSUME TypeOK, Memory, psycho_cpu_step
  PROVE  TypeOK' /\ BusAligned'
PROOF
<1>1. Stepped \in InstrType
  BY StepOnMemory
<1>2. PICK words \in SUBSET Word : Execute(Stepped, words)
  BY StepOnMemory
<1>3. TypeOK'
  BY <1>1, <1>2, ExecuteType
<1>4. BusStep(Stepped)
  BY <1>1, <1>2, BusEffect
<1>5. BusAligned'
  BY <1>1, <1>4, StepAligned
<1> QED
  BY <1>3, <1>5

\* The store of a step keeps memory a memory and spares the pointers.
LEMMA StepMemory ==
  ASSUME TypeOK, Memory, B!PointersIntact, psycho_cpu_step
  PROVE  Memory' /\ B!PointersIntact'
PROOF
<1> DEFINE stores == {n \in DOMAIN bus' : bus'[n].kind = "store"}
           call == bus'[CHOOSE n \in stores : TRUE]
<1>1. TypeOK' /\ BusAligned' /\ host' = AfterStores(bus')
  BY StepCalls, StepOnMemory
<1>2. CASE stores = {}
  <2>1. host' = host
    BY <1>1, <1>2 DEF AfterStores
  <2> QED
    BY <2>1 DEF Memory, B!PointersIntact
<1>3. CASE stores # {}
  <2>1. PICK n \in DOMAIN bus' : call = bus'[n]
    BY <1>3
  <2>2. host' = B!Stored(call.addr, BytesOf(call.val, call.len))
    BY <1>1, <1>3 DEF AfterStores
  <2> HIDE DEF call
  <2>3. call \in BusCall
    BY <1>1, <2>1 DEF TypeOK
  <2>4. /\ call.addr \in Nat /\ call.len \in {1, 2, 4} /\ call.val \in Word
        /\ call.addr % call.len = 0
    BY <1>1, <2>1, <2>3, WordFacts DEF BusCall, BusAligned
  <2> DEFINE a == call.addr
             len == call.len
             val == BytesOf(call.val, call.len)
  <2>5. a \in Nat /\ len \in P!Width /\ a % len = 0 /\ val \in P!Bytes(len)
    BY <2>4, BytesType, OneBus
  <2> HIDE DEF a, len, val
  <2>6. host \in [P!HostCell -> Byte] /\ P!PointersIntact
    BY OneBus DEF Memory
  <2>7. P!Stored(a, val) \in [P!HostCell -> Byte]
    BY <2>5, <2>6, OneBus, P!StoredType DEF P!BusAssumption
  <2>8. \A c \in P!HostCell : c >= P!pointers => P!Stored(a, val)[c] = ByteSize - 1
    BY <2>5, <2>6, OneBus, P!StoreSparesPointers DEF P!BusAssumption
  <2>9. host' = P!Stored(a, val)
    BY <2>2, OneBus DEF a, val
  <2> QED
    BY <2>7, <2>8, <2>9, OneBus DEF Memory, B!PointersIntact
<1> QED
  BY <1>2, <1>3

(***************************************************************************)
(* Addresses within one aligned word.                                      *)
(***************************************************************************)
\* What WordsProofs says of the arithmetic holds of the arithmetic here.
LEMMA OneArithmetic ==
  /\ W!ByteAssumption /\ W!CpuDefsAssumption /\ W!PowerAssumption
  /\ W!Word = Word /\ W!Byte = Byte
  /\ \A v, w, k : /\ W!lwl_merge(v, w, k) = lwl_merge(v, w, k)
                  /\ W!lwr_merge(v, w, k) = lwr_merge(v, w, k)
PROOF
<1> USE DEF W!Word, W!WordSize, W!HalfSize, Word, WordSize, HalfSize
<1>1. W!ByteAssumption /\ W!CpuDefsAssumption /\ W!PowerAssumption
  BY ByteAssumption, CpuDefsAssumption, PowerAssumption DEF W!ByteAssumption, W!CpuDefsAssumption, W!PowerAssumption
<1>2. W!Word = Word /\ W!Byte = Byte
  BY DEF W!Byte, Byte
<1>3. \A k : W!ByteWeight(k) = ByteWeight(k)
  BY DEF W!ByteWeight, ByteWeight
<1>4. \A x : W!Wrap(x) = Wrap(x)
  BY DEF W!Wrap, Wrap
<1>5. \A v, w, k : W!lwl_merge(v, w, k) = lwl_merge(v, w, k)
  BY <1>3, <1>4 DEF W!lwl_merge, lwl_merge
<1>6. \A v, w, k : W!lwr_merge(v, w, k) = lwr_merge(v, w, k)
  BY <1>3, <1>4 DEF W!lwr_merge, lwr_merge
<1> QED
  BY <1>1, <1>2, <1>5, <1>6

\* A modulus of whole words keeps the bytes of a word together.
LEMMA ModWord ==
  ASSUME NEW n \in Nat \ {0}, n % 4 = 0, NEW x \in Nat, NEW j \in 0 .. 3, (x % 4) + j <= 3
  PROVE  /\ (x + j) % n = (x % n) + j
         /\ (x % n) % 4 = x % 4
         /\ (x + j) % 4 = (x % 4) + j
PROOF
<1> DEFINE q == x \div n
           r == x % n
           m == n \div 4
           t == r \div 4
           s == r % 4
<1>1. q \in Int /\ r \in 0 .. n - 1 /\ x = n * q + r
  OBVIOUS
<1>2. m \in Nat /\ n = 4 * m
  OBVIOUS
<1>3. t \in Int /\ s \in 0 .. 3 /\ r = 4 * t + s
  BY <1>1
<1> HIDE DEF q, r, m, t, s
<1>5. x % 4 = s
  <2>1. m * q \in Int /\ x = r + 4 * (m * q)
    BY <1>1, <1>2
  <2>2. PICK k \in Int : x = r + 4 * k
    BY <2>1
  <2>3. x = 4 * (k + t) + s /\ k + t \in Int
    BY <1>3, <2>2
  <2>4. 4 \in Nat \ {0} /\ x \in Int /\ k + t \in Int /\ s \in 0 .. 4 - 1
    BY <1>3, <2>3
  <2> QED
    BY <2>3, <2>4, ModUnique
<1>6. s + j <= 3
  BY <1>5
<1>7. r + j \in 0 .. n - 1
  BY <1>1, <1>2, <1>3, <1>6
<1>8. (x + j) % n = r + j
  <2>1. x + j = n * q + (r + j) /\ n \in Nat \ {0} /\ x + j \in Int /\ q \in Int
    <3>1. n * q \in Int
      BY <1>1
    <3> QED
      BY <1>1, <3>1
  <2> QED
    BY <1>7, <2>1, ModUnique
<1>9. (x + j) % 4 = (x % 4) + j
  OBVIOUS
<1> QED
  BY <1>5, <1>8, <1>9 DEF r, s

\* It keeps the byte offset.
LEMMA ModFour ==
  ASSUME NEW n \in Nat \ {0}, n % 4 = 0, NEW x \in Nat
  PROVE  (x % n) % 4 = x % 4 /\ x % n \in Nat
PROOF
<1>1. PICK j \in 0 .. 3 : j = 0
  OBVIOUS
<1>2. (x % 4) + j <= 3
  BY <1>1
<1>3. (x % n) % 4 = x % 4
  BY <1>2, ModWord
<1> QED
  BY <1>3

(***************************************************************************)
(* Words and bytes at virtual addresses.                                   *)
(***************************************************************************)
ByteAt(paddr) == B!psycho_bus_load_byte(paddr)[1]

\* The aligned word that LWL and LWR read.
WordOf(vaddr) == LoadValue(DataPaddr(vaddr) - (DataPaddr(vaddr) % 4), 4)

\* A byte load returns a byte.
LEMMA ByteAtType ==
  ASSUME Memory, NEW paddr \in Nat
  PROVE  ByteAt(paddr) \in Byte
PROOF
<1> DEFINE all == {"ram", "scratchpad", "bios"}
<1>1. host \in [P!HostCell -> Byte] /\ 1 \in P!Width /\ all \in SUBSET all
  BY OneBus DEF Memory
<1>2. P!load(paddr, 1, all) \in P!Bytes(1)
  BY <1>1, OneBus, P!LoadType DEF P!BusAssumption
<1>3. B!load(paddr, 1, all) \in [1 .. 1 -> Byte]
  BY <1>2, OneBus DEF P!Bytes
<1> QED
  BY <1>3 DEF ByteAt, B!psycho_bus_load_byte

\* The value of four bytes.
LEMMA ValueInBytes ==
  ASSUME NEW word, Len(word) = 4, word[1] \in Nat
  PROVE  ValueOf(word) = W!FourBytes(word[1], word[2], word[3], word[4])
PROOF
<1>1. /\ ByteWeight(0) = 1 /\ ByteWeight(1) = ByteSize /\ ByteWeight(2) = ByteSize * ByteSize
      /\ ByteWeight(3) = (ByteSize * ByteSize) * ByteSize
  BY DEF ByteWeight, HalfSize
<1>2. ValueOf(word) = word[1] * 1 + word[2] * ByteSize + word[3] * (ByteSize * ByteSize)
                        + word[4] * ((ByteSize * ByteSize) * ByteSize)
  BY <1>1 DEF ValueOf
<1>3. word[1] * 1 = word[1]
  OBVIOUS
<1> QED
  BY <1>2, <1>3 DEF W!FourBytes

\* An aligned word consists of the bytes that byte loads return.
LEMMA WordInBytes ==
  ASSUME Memory, NEW p \in Nat, p % 4 = 0, p # RAM_ADDR_END
  PROVE  LoadValue(p, 4) = W!FourBytes(ByteAt(p), ByteAt(p + 1), ByteAt(p + 2), ByteAt(p + 3))
PROOF
<1> DEFINE all == {"ram", "scratchpad", "bios"}
           word == B!psycho_bus_load_word(p)
<1>1. host \in [P!HostCell -> Byte]
  BY OneBus DEF Memory
<1>2. \A k \in 0 .. 3 : P!psycho_bus_load_word(p)[k + 1] = P!psycho_bus_load_byte(p + k)[1]
  BY <1>1, OneBus, P!WordBytes DEF P!BusAssumption
<1>3. P!psycho_bus_load_word(p) = word
  BY OneBus DEF P!psycho_bus_load_word, B!psycho_bus_load_word
<1>4. \A x : P!psycho_bus_load_byte(x)[1] = ByteAt(x)
  BY OneBus DEF P!psycho_bus_load_byte, B!psycho_bus_load_byte, ByteAt
<1>5. \A k \in 0 .. 3 : word[k + 1] = ByteAt(p + k)
  BY <1>2, <1>3, <1>4
<1>6. /\ word[1] = ByteAt(p) /\ word[2] = ByteAt(p + 1)
      /\ word[3] = ByteAt(p + 2) /\ word[4] = ByteAt(p + 3)
  <2>1. /\ word[0 + 1] = ByteAt(p + 0) /\ word[1 + 1] = ByteAt(p + 1)
        /\ word[2 + 1] = ByteAt(p + 2) /\ word[3 + 1] = ByteAt(p + 3)
    BY <1>5
  <2>2. p + 0 = p
    OBVIOUS
  <2> QED
    BY <2>1, <2>2
<1>7. LoadValue(p, 4) = ValueOf(word)
  BY DEF LoadValue
<1>8. Len(word) = 4
  BY DEF B!psycho_bus_load_word, B!load
<1> HIDE DEF word
<1>9. ValueOf(word) = W!FourBytes(word[1], word[2], word[3], word[4])
  <2>1. word[1] \in Nat
    BY <1>6, ByteAtType, ByteAssumption DEF Byte
  <2> QED
    BY <1>8, <2>1, ValueInBytes
<1> QED
  BY <1>6, <1>7, <1>9

\* The physical address a virtual one stands for, without the exception
\* that vaddr_to_paddr makes for CACHE_CTRL.
Plain(vaddr) == (IF vaddr <= HackLimit THEN vaddr % HackSize ELSE vaddr) % PhysSize

\* That exception is not visible in what loads return.
LEMMA PlainLoads ==
  ASSUME NEW x \in Word
  PROVE  /\ Plain(x) \in Nat /\ DataPaddr(x) \in Nat
         /\ DataPaddr(x) % 4 = x % 4 /\ Plain(x) % 4 = x % 4
         /\ ByteAt(DataPaddr(x)) = ByteAt(Plain(x))
         /\ WordOf(x) = LoadValue(Plain(x) - (x % 4), 4)
         /\ \/ DataPaddr(x) = Plain(x)
            \/ /\ DataPaddr(x) = CACHE_CTRL /\ Plain(x) = CACHE_CTRL % PhysSize
               /\ Plain(x) > BIOS_ADDR_END
PROOF
<1> DEFINE f == IF x <= HackLimit THEN x % HackSize ELSE x
           d == DataPaddr(x)
           p == Plain(x)
<1>1. x \in Nat /\ f \in Nat /\ f % 4 = x % 4
  <2>1. x \in Nat
    BY WordFacts
  <2>2. HackSize \in Nat \ {0} /\ HackSize % 4 = 0
    BY CpuDefsAssumption
  <2>3. (x % HackSize) % 4 = x % 4 /\ x % HackSize \in Nat
    BY <2>1, <2>2, ModFour
  <2> QED
    BY <2>1, <2>3
<1>2. p = f % PhysSize /\ d = IF f = CACHE_CTRL THEN f ELSE f % PhysSize
  BY DEF Plain, DataPaddr, vaddr_to_paddr
<1> HIDE DEF f, d, p
<1>3. PhysSize \in Nat \ {0} /\ PhysSize % 4 = 0
  BY CpuDefsAssumption
<1>4. p \in Nat /\ d \in Nat /\ p % 4 = x % 4 /\ d % 4 = x % 4
  <2>1. (f % PhysSize) % 4 = f % 4 /\ f % PhysSize \in Nat
    BY <1>1, <1>3, ModFour
  <2> QED
    BY <1>1, <1>2, <2>1
<1>5. CASE d = p
  BY <1>4, <1>5 DEF d, p, WordOf
<1>6. CASE d # p
  <2>1. f = CACHE_CTRL /\ d = CACHE_CTRL /\ p = CACHE_CTRL % PhysSize
    BY <1>2, <1>6
  <2>2. /\ d % 4 = 0 /\ x % 4 = 0 /\ p > BIOS_ADDR_END /\ p <= d
    <3>1. CACHE_CTRL \in Nat /\ CACHE_CTRL % 4 = 0 /\ CACHE_CTRL % PhysSize <= CACHE_CTRL
      BY <1>1, <1>3, <2>1, CpuDefsAssumption
    <3>2. BIOS_ADDR_END < CACHE_CTRL % PhysSize
      BY MachineAssumption
    <3> QED
      BY <1>4, <2>1, <3>1, <3>2
  <2>3. /\ RAM_ADDR_END \in Nat /\ SCRATCHPAD_ADDR_END \in Nat /\ BIOS_ADDR_END \in Nat
        /\ RAM_ADDR_END < BIOS_ADDR_END /\ SCRATCHPAD_ADDR_END < BIOS_ADDR_END
        /\ SCRATCHPAD_ADDR_START \in Nat /\ BIOS_ADDR_START \in Nat
    BY MachineAssumption DEF B!BusAssumption, B!BIOS_SIZE, B!SCRATCHPAD_SIZE
  <2>4. \A a \in Nat : a > BIOS_ADDR_END => B!Region(a) = "unknown"
    BY <2>3 DEF B!Region
  <2>5. B!Region(p) = "unknown" /\ B!Region(d) = "unknown"
    BY <1>4, <2>2, <2>3, <2>4
  <2>6. ByteAt(d) = ByteAt(p)
    BY <2>5 DEF ByteAt, B!psycho_bus_load_byte, B!load
  <2>7. B!psycho_bus_load_word(d) = B!psycho_bus_load_word(p)
    BY <2>5 DEF B!psycho_bus_load_word, B!load
  <2>8. LoadValue(d, 4) = LoadValue(p, 4)
    BY <2>7 DEF LoadValue
  <2>9. d - (d % 4) = d /\ p - (x % 4) = p
    <3>1. d - 0 = d /\ p - 0 = p
      BY <1>4
    <3> QED
      BY <2>2, <3>1
  <2> QED
    BY <1>4, <2>1, <2>2, <2>6, <2>8, <2>9 DEF d, p, WordOf
<1> QED
  BY <1>5, <1>6

\* Within an aligned word physical addresses follow the virtual ones.
LEMMA PlainNext ==
  ASSUME NEW x \in Nat, NEW j \in 0 .. 3, (x % 4) + j <= 3
  PROVE  Plain(x + j) = Plain(x) + j
PROOF
<1> DEFINE g(y) == IF y <= HackLimit THEN y % HackSize ELSE y
<1>1. HackSize \in Nat \ {0} /\ HackSize % 4 = 0 /\ PhysSize \in Nat \ {0} /\ PhysSize % 4 = 0
  BY CpuDefsAssumption
<1>2. HackLimit \in Nat /\ (HackLimit + 1) % 4 = 0
  BY CpuDefsAssumption, WordFacts
<1>3. x <= HackLimit <=> x + j <= HackLimit
  BY <1>2
<1>4. (x + j) % HackSize = (x % HackSize) + j
  BY <1>1, ModWord
<1>5. x % HackSize \in Nat /\ (x % HackSize) % 4 = x % 4
  BY <1>1, ModFour
<1>6. g(x) \in Nat /\ g(x) % 4 = x % 4 /\ g(x + j) = g(x) + j
  BY <1>3, <1>4, <1>5
<1>7. Plain(x) = g(x) % PhysSize /\ Plain(x + j) = g(x + j) % PhysSize
  BY DEF Plain
<1> HIDE DEF g
<1>8. (g(x) + j) % PhysSize = (g(x) % PhysSize) + j
  BY <1>1, <1>6, ModWord
<1> QED
  BY <1>6, <1>7, <1>8

\* WordSize is a number of aligned words.
LEMMA WordSizeFour == WordSize \in Nat \ {0} /\ WordSize % 4 = 0
PROOF
<1> DEFINE m == ByteSize \div 2
<1>1. m \in Nat /\ ByteSize = 2 * m
  BY ByteAssumption
<1> HIDE DEF m
<1>2. HalfSize = 4 * (m * m) /\ m * m \in Nat
  BY <1>1 DEF HalfSize
<1>3. PICK h \in Nat : HalfSize = 4 * h
  BY <1>2
<1>4. WordSize = 4 * (h * HalfSize) /\ h * HalfSize \in Nat
  BY <1>3, SizeFacts DEF WordSize
<1>5. PICK k \in Nat : WordSize = 4 * k
  BY <1>4
<1> QED
  BY <1>5, SizeFacts

\* The four bytes from at on, when its first and last lie three apart.
LEMMA PlainFour ==
  ASSUME NEW at \in Word, NEW j \in 0 .. 3,
         DataPaddr(Wrap(at + 3)) = DataPaddr(at) + 3
  PROVE  Wrap(at + j) \in Word /\ Plain(Wrap(at + j)) = Plain(at) + j
PROOF
<1> DEFINE at3 == Wrap(at + 3)
           y == Wrap(at + j)
           k == at % 4
<1>1. at \in Nat /\ at < WordSize /\ WordSize \in Nat \ {0} /\ WordSize % 4 = 0
  BY WordSizeFour, WordFacts DEF Word
<1>2. at3 \in Word /\ y \in Word
  BY <1>1, WrapType
<1>3. at3 \in Nat /\ y \in Nat
  BY <1>2, WordFacts
<1>4. /\ at3 = IF at + 3 < WordSize THEN at + 3 ELSE at + 3 - WordSize
      /\ y = IF at + j < WordSize THEN at + j ELSE at + j - WordSize
  <2>1. ASSUME NEW i \in 0 .. 3
        PROVE  (at + i) % WordSize = IF at + i < WordSize THEN at + i ELSE at + i - WordSize
    <3>1. PICK n \in Nat \ {0} : n = WordSize /\ n % 4 = 0
      BY <1>1
    <3>2. n >= 4 /\ at < n
      BY <1>1, <3>1
    <3>3. CASE at + i < n
      BY <1>1, <3>1, <3>3
    <3>4. CASE at + i >= n
      <4>1. at + i = n * 1 + (at + i - n) /\ at + i - n \in 0 .. n - 1 /\ at + i \in Int /\ 1 \in Int
        BY <1>1, <3>2, <3>4
      <4>2. (at + i) % n = at + i - n
        BY <4>1, ModUnique
      <4> QED
        BY <1>1, <3>1, <3>4, <4>2
    <3> QED
      BY <1>1, <3>1, <3>3, <3>4
  <2>2. \A i \in 0 .. 3 : Wrap(at + i) = IF at + i < WordSize THEN at + i ELSE at + i - WordSize
    BY <2>1 DEF Wrap
  <2>3. 3 \in 0 .. 3
    OBVIOUS
  <2> QED
    BY <2>2, <2>3
<1> HIDE DEF at3, y
<1>5. Plain(at3) = Plain(at) + 3
  <2>1. DataPaddr(at3) = DataPaddr(at) + 3
    BY DEF at3
  <2>2. /\ Plain(at) \in Nat /\ DataPaddr(at) \in Nat
        /\ \/ DataPaddr(at) = Plain(at)
           \/ /\ DataPaddr(at) = CACHE_CTRL /\ Plain(at) = CACHE_CTRL % PhysSize
              /\ Plain(at) > BIOS_ADDR_END
    BY PlainLoads
  <2>3. /\ Plain(at3) \in Nat /\ DataPaddr(at3) \in Nat
        /\ \/ DataPaddr(at3) = Plain(at3)
           \/ /\ DataPaddr(at3) = CACHE_CTRL /\ Plain(at3) = CACHE_CTRL % PhysSize
              /\ Plain(at3) > BIOS_ADDR_END
    BY <1>2, PlainLoads
  <2>4. Plain(at) < PhysSize /\ Plain(at3) < PhysSize
    <3>1. \A x \in Nat : x % PhysSize < PhysSize /\ x % HackSize \in Nat
      BY CpuDefsAssumption
    <3> QED
      BY <1>1, <1>3, <3>1 DEF Plain
  <2>5. CACHE_CTRL \in Nat /\ PhysSize \in Nat \ {0} /\ PhysSize % 4 = 0 /\ BIOS_ADDR_END \in Nat
        /\ BIOS_ADDR_END >= 3
    BY CpuDefsAssumption, WordFacts, MachineAssumption DEF B!BusAssumption, B!BIOS_SIZE, B!SCRATCHPAD_SIZE
  <2>6. CACHE_CTRL < PhysSize => CACHE_CTRL % PhysSize = CACHE_CTRL
    BY <2>5
  <2>7. CASE DataPaddr(at) = Plain(at) /\ DataPaddr(at3) = Plain(at3)
    BY <2>1, <2>7
  <2>8. CASE DataPaddr(at) # Plain(at)
    <3>1. DataPaddr(at) = CACHE_CTRL /\ DataPaddr(at3) = CACHE_CTRL + 3
      BY <2>1, <2>2, <2>8
    <3>2. DataPaddr(at3) = Plain(at3)
      BY <2>3, <2>5, <3>1
    <3>3. CACHE_CTRL < PhysSize
      BY <2>3, <2>4, <2>5, <3>1, <3>2
    <3> QED
      BY <2>2, <2>6, <2>8, <3>1, <3>3
  <2>9. CASE DataPaddr(at) = Plain(at) /\ DataPaddr(at3) # Plain(at3)
    <3>1. CACHE_CTRL = Plain(at) + 3 /\ Plain(at3) = CACHE_CTRL % PhysSize /\ Plain(at3) > BIOS_ADDR_END
      BY <2>1, <2>3, <2>9
    <3>2. CASE CACHE_CTRL < PhysSize
      BY <2>6, <3>1, <3>2
    <3>3. CASE CACHE_CTRL >= PhysSize
      <4> DEFINE r == CACHE_CTRL - PhysSize
      <4>1. r \in 0 .. 2 /\ PhysSize >= 4
        BY <2>2, <2>4, <2>5, <3>1, <3>3
      <4>2. CACHE_CTRL = PhysSize * 1 + r /\ r \in 0 .. PhysSize - 1 /\ CACHE_CTRL \in Int /\ 1 \in Int
        BY <2>5, <4>1
      <4> HIDE DEF r
      <4>3. CACHE_CTRL % PhysSize = r
        BY <2>5, <4>2, ModUnique
      <4> QED
        BY <2>5, <3>1, <4>1, <4>3
    <3> QED
      BY <2>2, <2>5, <3>2, <3>3
  <2> QED
    BY <2>7, <2>8, <2>9
<1>6. CASE k + j <= 3
  <2>1. Plain(at + j) = Plain(at) + j
    BY <1>1, <1>6, PlainNext
  <2>2. at + j < WordSize
    BY <1>1, <1>6
  <2> QED
    BY <1>2, <1>4, <2>1, <2>2 DEF y
<1>7. CASE k + j > 3
  <2>1. y % 4 = k + j - 4 /\ y + (3 - j) = at3
    BY <1>1, <1>3, <1>4, <1>7
  <2>2. 3 - j \in 0 .. 3 /\ (y % 4) + (3 - j) <= 3
    BY <1>1, <2>1
  <2>3. Plain(y + (3 - j)) = Plain(y) + (3 - j)
    BY <1>3, <2>2, PlainNext
  <2>4. Plain(y) \in Nat /\ Plain(at) \in Nat
    BY <1>2, PlainLoads
  <2>5. Plain(y) = Plain(at) + j
    BY <1>5, <2>1, <2>3, <2>4
  <2> QED
    BY <1>2, <2>5 DEF y
<1> QED
  BY <1>1, <1>6, <1>7

\* The four bytes at an address of any alignment, physically.
LEMMA UnalignedBytes ==
  ASSUME Memory, NEW at \in Word, DataPaddr(Wrap(at + 3)) = DataPaddr(at) + 3
  PROVE  UnalignedWord(at) = W!FourBytes(ByteAt(Plain(at)), ByteAt(Plain(at) + 1),
                                         ByteAt(Plain(at) + 2), ByteAt(Plain(at) + 3))
PROOF
<1> DEFINE p == Plain(at)
           word == [k \in 1 .. 4 |-> ByteAt(DataPaddr(Wrap(at + k - 1)))]
<1>1. \A j \in 0 .. 3 : ByteAt(DataPaddr(Wrap(at + j))) = ByteAt(p + j)
  <2>1. ASSUME NEW j \in 0 .. 3 PROVE ByteAt(DataPaddr(Wrap(at + j))) = ByteAt(p + j)
    <3>1. Wrap(at + j) \in Word /\ Plain(Wrap(at + j)) = p + j
      BY PlainFour
    <3> QED
      BY <3>1, PlainLoads
  <2> QED
    BY <2>1
<1>2. at \in Nat /\ p \in Nat
  BY WordFacts, PlainLoads
<1> HIDE DEF p
<1>3. \A k \in 1 .. 4 : word[k] = ByteAt(p + (k - 1))
  <2>1. ASSUME NEW k \in 1 .. 4 PROVE word[k] = ByteAt(p + (k - 1))
    <3>1. at + k - 1 = at + (k - 1) /\ k - 1 \in 0 .. 3
      BY <1>2
    <3> QED
      BY <1>1, <3>1
  <2> QED
    BY <2>1
<1>4. /\ word[1] = ByteAt(p) /\ word[2] = ByteAt(p + 1)
      /\ word[3] = ByteAt(p + 2) /\ word[4] = ByteAt(p + 3)
  <2>1. /\ word[1] = ByteAt(p + (1 - 1)) /\ word[2] = ByteAt(p + (2 - 1))
        /\ word[3] = ByteAt(p + (3 - 1)) /\ word[4] = ByteAt(p + (4 - 1))
    BY <1>3
  <2>2. p + (1 - 1) = p /\ p + (2 - 1) = p + 1 /\ p + (3 - 1) = p + 2 /\ p + (4 - 1) = p + 3
    BY <1>2
  <2> QED
    BY <2>1, <2>2
<1>5. UnalignedWord(at) = ValueOf(word)
  BY DEF UnalignedWord, ByteAt
<1>6. Len(word) = 4
  OBVIOUS
<1> HIDE DEF word
<1>7. ValueOf(word) = W!FourBytes(word[1], word[2], word[3], word[4])
  <2>1. word[1] \in Nat
    BY <1>2, <1>4, ByteAtType, ByteAssumption DEF Byte
  <2> QED
    BY <1>6, <2>1, ValueInBytes
<1> QED
  BY <1>4, <1>5, <1>7 DEF p

\* LWR at an address and LWL three bytes on, in either order, load the four
\* bytes there, whatever the register held.
LEMMA UnalignedValue ==
  ASSUME Memory, NEW at \in Word, NEW v \in Word,
         DataPaddr(Wrap(at + 3)) = DataPaddr(at) + 3,
         RAM_ADDR_END - DataPaddr(at) \notin -3 .. 3
  PROVE  LET at3 == Wrap(at + 3)
             low == DataPaddr(at) % 4
             top == DataPaddr(at3) % 4
         IN  /\ lwl_merge(lwr_merge(v, WordOf(at), low), WordOf(at3), top) = UnalignedWord(at)
             /\ lwr_merge(lwl_merge(v, WordOf(at3), top), WordOf(at), low) = UnalignedWord(at)
PROOF
<1> DEFINE at3 == Wrap(at + 3)
           p == Plain(at)
           k == at % 4
           q == p - k
           b(n) == ByteAt(q + n)
<1>1. at3 \in Word /\ Plain(at3) = p + 3
  <2>1. 3 \in 0 .. 3
    OBVIOUS
  <2> QED
    BY <2>1, PlainFour
<1>2. /\ p \in Nat /\ p % 4 = k /\ DataPaddr(at) % 4 = k /\ WordOf(at) = LoadValue(q, 4)
      /\ \/ DataPaddr(at) = p
         \/ p > BIOS_ADDR_END
  BY PlainLoads
<1>3. /\ (p + 3) % 4 = at3 % 4 /\ DataPaddr(at3) % 4 = at3 % 4
      /\ WordOf(at3) = LoadValue((p + 3) - (at3 % 4), 4)
  BY <1>1, PlainLoads
<1> DEFINE low == DataPaddr(at) % 4
           top == DataPaddr(at3) % 4
           full == UnalignedWord(at)
<1>4. full = W!FourBytes(ByteAt(p), ByteAt(p + 1), ByteAt(p + 2), ByteAt(p + 3))
  BY UnalignedBytes
<1>5. at3 \in Nat /\ at \in Nat
  BY <1>1, WordFacts
<1>6. k \in 0 .. 3 /\ q \in Nat /\ q = p - k /\ q % 4 = 0 /\ (q + 4) % 4 = 0
  BY <1>2, <1>5
<1> HIDE DEF p, k, q
<1>7. q # RAM_ADDR_END /\ (k # 0 => q + 4 # RAM_ADDR_END)
  <2>1. /\ RAM_ADDR_END \in Nat /\ BIOS_ADDR_END \in Nat /\ RAM_ADDR_END + 3 < BIOS_ADDR_END
    BY MachineAssumption DEF B!BusAssumption, B!BIOS_SIZE, B!SCRATCHPAD_SIZE
  <2>2. p > BIOS_ADDR_END => q # RAM_ADDR_END /\ q + 4 # RAM_ADDR_END
    BY <1>2, <1>6, <2>1
  <2>3. ASSUME DataPaddr(at) = p PROVE q # RAM_ADDR_END /\ (k # 0 => q + 4 # RAM_ADDR_END)
    <3>1. RAM_ADDR_END - p \notin -3 .. 3
      BY <2>3
    <3> QED
      BY <1>2, <1>6, <2>1, <3>1
  <2> QED
    BY <1>2, <2>2, <2>3
<1>8. low = k /\ top = (p + 3) % 4
  BY <1>2, <1>3
<1>9. WordOf(at3) = LoadValue((p + 3) - top, 4)
  BY <1>3
<1>10. \A n \in 0 .. 7 : b(n) \in Byte
  <2>1. \A n \in 0 .. 7 : q + n \in Nat
    BY <1>6
  <2> QED
    BY <2>1, ByteAtType
<1>11. LoadValue(q, 4) = W!FourBytes(b(0), b(1), b(2), b(3))
  <2>1. LoadValue(q, 4) = W!FourBytes(ByteAt(q), b(1), b(2), b(3))
    BY <1>6, <1>7, WordInBytes
  <2>2. q + 0 = q
    BY <1>6
  <2> QED
    BY <2>1, <2>2
<1>12. LoadValue(q, 4) \in Word /\ LoadValue(q + 4, 4) \in Word
  BY <1>6, LoadValueType
<1> HIDE DEF full, low, top, at3
<1>13. CASE k = 0
  <2>1. q = p /\ top = 3 /\ low = 0 /\ (p + 3) - top = p
    BY <1>2, <1>6, <1>8, <1>13
  <2>2. /\ WordOf(at) = LoadValue(p, 4) /\ WordOf(at3) = LoadValue(p, 4)
        /\ LoadValue(p, 4) \in Word
    BY <1>2, <1>9, <1>12, <2>1
  <2>3. LoadValue(p, 4) = full
    BY <1>2, <1>6, <1>7, <1>4, <2>1, WordInBytes
  <2>4. lwr_merge(v, full, 0) \in Word /\ lwl_merge(v, full, 3) \in Word
    BY <2>2, <2>3, MergeType
  <2>5. \A u \in Word : lwl_merge(u, full, 3) = full /\ lwr_merge(u, full, 0) = full
    BY <2>2, <2>3, OneArithmetic, W!LoadsWhole DEF W!ByteAssumption, W!CpuDefsAssumption, W!PowerAssumption
  <2> QED
    BY <2>1, <2>2, <2>3, <2>4, <2>5 DEF full, low, top, at3
<1>14. CASE k \in 1 .. 3
  <2> DEFINE lo == LoadValue(q, 4)
             hi == LoadValue(q + 4, 4)
  <2>1. top = k - 1 /\ (p + 3) - top = q + 4
    BY <1>2, <1>6, <1>8, <1>14
  <2>2. WordOf(at) = lo /\ WordOf(at3) = hi
    BY <1>2, <1>9, <2>1
  <2>3. hi = W!FourBytes(b(4), b(5), b(6), b(7))
    <3>1. q + 4 \in Nat /\ (q + 4) + 1 = q + 5 /\ (q + 4) + 2 = q + 6 /\ (q + 4) + 3 = q + 7
      BY <1>6
    <3>2. q + 4 # RAM_ADDR_END
      BY <1>7, <1>14
    <3>3. hi = W!FourBytes(ByteAt(q + 4), ByteAt((q + 4) + 1), ByteAt((q + 4) + 2), ByteAt((q + 4) + 3))
      BY <1>6, <3>1, <3>2, WordInBytes
    <3> QED
      BY <3>1, <3>3
  <2> HIDE DEF lo, hi
  <2>4. /\ W!lwl_merge(W!lwr_merge(v, lo, k), hi, k - 1) = W!Merged(lo, hi, k)
        /\ W!lwr_merge(W!lwl_merge(v, hi, k - 1), lo, k) = W!Merged(lo, hi, k)
    <3>1. lo \in W!Word /\ hi \in W!Word /\ v \in W!Word /\ k \in 1 .. 3
      BY <1>12, <1>14, OneArithmetic DEF lo, hi
    <3> QED
      BY <3>1, OneArithmetic, W!LoadsMerge DEF W!ByteAssumption, W!CpuDefsAssumption, W!PowerAssumption
  <2>5. W!Merged(lo, hi, k) = full
    <3>1. p = q + k
      BY <1>2, <1>6
    <3>2. /\ k = 1 => full = W!FourBytes(b(1), b(2), b(3), b(4))
          /\ k = 2 => full = W!FourBytes(b(2), b(3), b(4), b(5))
          /\ k = 3 => full = W!FourBytes(b(3), b(4), b(5), b(6))
      <4>1. \A m, n \in 0 .. 3 : (q + m) + n = q + (m + n)
        BY <1>6
      <4>2. CASE k = 1
        BY <1>4, <1>6, <3>1, <4>2
      <4>3. CASE k = 2
        BY <1>4, <1>6, <3>1, <4>3
      <4>4. CASE k = 3
        BY <1>4, <1>6, <3>1, <4>4
      <4> QED
        BY <4>2, <4>3, <4>4
    <3>3. lo = W!FourBytes(b(0), b(1), b(2), b(3)) /\ hi = W!FourBytes(b(4), b(5), b(6), b(7))
      BY <1>11, <2>3 DEF lo
    <3>4. [n \in 0 .. 7 |-> b(n)] \in [0 .. 7 -> W!Byte]
      BY <1>10, OneArithmetic
    <3>5. PICK x \in [0 .. 7 -> W!Byte] : \A n \in 0 .. 7 : x[n] = b(n)
      BY <3>4
    <3> HIDE DEF b
    <3>6. LET l == W!FourBytes(x[0], x[1], x[2], x[3])
              u == W!FourBytes(x[4], x[5], x[6], x[7])
          IN  /\ W!Merged(l, u, 1) = W!FourBytes(x[1], x[2], x[3], x[4])
              /\ W!Merged(l, u, 2) = W!FourBytes(x[2], x[3], x[4], x[5])
              /\ W!Merged(l, u, 3) = W!FourBytes(x[3], x[4], x[5], x[6])
      BY OneArithmetic, W!MergedBytes DEF W!ByteAssumption, W!CpuDefsAssumption, W!PowerAssumption
    <3>7. /\ W!Merged(lo, hi, 1) = W!FourBytes(b(1), b(2), b(3), b(4))
          /\ W!Merged(lo, hi, 2) = W!FourBytes(b(2), b(3), b(4), b(5))
          /\ W!Merged(lo, hi, 3) = W!FourBytes(b(3), b(4), b(5), b(6))
      BY <3>3, <3>5, <3>6
    <3> QED
      BY <1>14, <3>2, <3>7
  <2> QED
    BY <1>8, <2>1, <2>2, <2>4, <2>5, OneArithmetic DEF full, low, top, at3
<1> QED
  BY <1>6, <1>13, <1>14

(***************************************************************************)
(* Unaligned words.                                                        *)
(***************************************************************************)
Part(op, v, w, k) == IF op = "LWL" THEN lwl_merge(v, w, k) ELSE lwr_merge(v, w, k)

\* Three bytes on in the offset is three bytes on in the address, as long
\* as the offset is positive.
LEMMA VaddrNext ==
  ASSUME NEW off \in Nat, 2 * (off + 3) < HalfSize, NEW val \in Word
  PROVE  get_vaddr(off + 3, val) = Wrap(get_vaddr(off, val) + 3)
PROOF
<1>1. HalfSize \in Nat \ {0} /\ WordSize \in Nat \ {0} /\ val \in Nat
  BY SizeFacts, WordFacts
<1>2. HalfSize <= WordSize
  BY <1>1 DEF WordSize
<1>3. PICK n \in Nat \ {0} : n = WordSize
  BY <1>1
<1>4. sign_ext_16_32(off) = off /\ sign_ext_16_32(off + 3) = off + 3
  <2>1. off \in 0 .. n - 1 /\ off + 3 \in 0 .. n - 1
    BY <1>1, <1>2, <1>3
  <2>2. off % n = off /\ (off + 3) % n = off + 3
    BY <2>1
  <2>3. ~ (2 * off >= HalfSize) /\ ~ (2 * (off + 3) >= HalfSize)
    BY <1>1
  <2> QED
    BY <1>3, <2>2, <2>3 DEF sign_ext_16_32, SignExt, Wrap
<1>5. off + val \in Int /\ 3 \in Int /\ n \in Nat \ {0}
  BY <1>1
<1>6. (((off + val) % n) + 3) % n = ((off + val) + 3) % n
  BY <1>5, ModAdd
<1>7. (off + 3) + val = (off + val) + 3
  BY <1>1
<1> QED
  BY <1>3, <1>4, <1>6, <1>7 DEF get_vaddr, Wrap

\* LWL and LWR merge the aligned word with what the register holds or is
\* about to, put the result in flight and change nothing else.
LEMMA UnalignedStep ==
  ASSUME TypeOK, ZeroInv, Memory, psycho_cpu_step,
         NEW i, i = cpu'.instr, i.op \in {"LWL", "LWR"}, i.rt # 0, cpu'.raised = << >>,
         NEW x, x = get_vaddr(i.arg, Visible(cpu)[i.rs])
  PROVE  /\ i \in InstrType /\ x \in Word /\ Visible(cpu) \in [Reg -> Word]
         /\ host' = host
         /\ cpu'.gpr = Visible(cpu)
         /\ \E v \in Word :
              /\ cpu'.ld_pend = [dst |-> i.rt, val |-> Part(i.op, v, WordOf(x), DataPaddr(x) % 4)]
              /\ cpu.ld_pend.dst = i.rt => v = cpu.ld_pend.val
PROOF
<1>1. cpu \in CpuType
  BY DEF TypeOK
<1>2. PICK s \in InstrType : s = Stepped
  BY StepOnMemory
<1>3. PICK words \in SUBSET Word : Execute(s, words)
  BY <1>2, StepOnMemory
<1>4. i = s /\ i \in InstrType
  <2>1. FlowStep(s)
    BY <1>3, ControlEffect
  <2> QED
    BY <2>1 DEF FlowStep
<1>5. PICK w : /\ w = LoadValue(BusAddr(i), AccessLen(i.op))
               /\ Execute(i, {w}) /\ host' = AfterStores(bus')
  BY <1>2, <1>4 DEF psycho_cpu_step, Stepped
<1>6. /\ F(i) \in CpuType /\ Rs(i) \in Word /\ Rt(i) \in Word
      /\ i.rs \in Reg /\ i.rt \in Reg /\ i.arg \in Nat
  BY <1>1, <1>4, HeadType
<1>7. F(i).gpr = Visible(cpu) /\ F(i).ld_next = cpu.ld_pend /\ F(i).raised = << >>
  BY <1>1, <1>4, fetch_Frame DEF F
<1>8. Visible(cpu) \in [Reg -> Word] /\ Visible(cpu)[0] = 0
  <2>1. cpu.gpr \in [Reg -> Word] /\ cpu.ld_next \in LoadSlot /\ 0 \in Reg
    BY <1>1, NoLoadType DEF CpuType
  <2> QED
    BY <2>1 DEF Visible, LoadSlot, ZeroInv, SlotsClean, GprZero
<1>9. x = Vaddr(i) /\ x \in Word
  BY <1>6, <1>7, AddrType DEF Vaddr, Rs
<1>10. Load(i, w)
  <2>1. ~ Misaligned(i)
    BY DEF Misaligned, Unaligned
  <2> QED
    BY <1>5, <2>1 DEF Execute, AluReg, AluImm, AddSub, AddSubOverflow, MulDiv, HiLoMove, Jump,
         Branch, Trap, Cop0, Illegal, LoadAddressError, Store, StoreIsolated, StoreAddressError,
         Isolated, AluRegOps, AluImmOps, OverflowOps, MulDivOps, BranchOps, StoreOps
<1>11. w = WordOf(x) /\ w \in Word /\ ByteInWord(i) = DataPaddr(x) % 4 /\ DataPaddr(x) % 4 \in 0 .. 3
  <2>1. AccessLen(i.op) = 4 /\ BusAddr(i) = DataPaddr(x) - (DataPaddr(x) % 4)
    BY <1>9 DEF AccessLen, BusAddr, Unaligned, Paddr, ByteInWord
  <2>2. DataPaddr(x) \in Nat
    BY <1>9, AddrType, WordFacts
  <2>3. DataPaddr(x) - (DataPaddr(x) % 4) \in Nat /\ DataPaddr(x) % 4 \in 0 .. 3
    BY <2>2
  <2> QED
    BY <1>5, <1>9, <2>1, <2>3, LoadValueType DEF WordOf, ByteInWord, Paddr
<1>12. MergeBase(i) \in Word /\ (cpu.ld_pend.dst = i.rt => MergeBase(i) = cpu.ld_pend.val)
  BY <1>1, <1>6, <1>7, CpuFields DEF MergeBase
<1>13. load_value(i, w) = Part(i.op, MergeBase(i), w, ByteInWord(i)) /\ load_value(i, w) \in Word
  <2>1. load_value(i, w) = Part(i.op, MergeBase(i), w, ByteInWord(i))
    BY DEF load_value, Part
  <2> QED
    BY <1>11, <1>12, <2>1, MergeType DEF Part
<1> DEFINE c == Checked(i)
           d == gpr_set_delayed(c, i.rt, load_value(i, w))
<1>14. c = F(i)
  <2>1. c = F(i) \/ Redirected(c, F(i), DBG_PC)
    BY <1>6, dbg_data_bp_chk_Frame DEF Checked
  <2>2. c \in CpuType
    BY <1>1, <1>4, <1>11, AccessType
  <2>3. SameFlow(d, c) /\ d \in CpuType
    BY <1>6, <1>13, <2>2, gpr_set_delayed_Frame, gpr_set_delayed_Type
  <2>4. cpu' = Retire(d)
    BY <1>10 DEF Load
  <2> HIDE DEF d, c
  <2>5. SameFlow(Retire(d), d)
    BY <2>3, Retire_Frame
  <2>6. c.raised = << >>
    BY <2>3, <2>4, <2>5 DEF SameFlow
  <2> QED
    BY <2>1, <2>6 DEF Redirected
<1>15. d \in CpuType /\ d.gpr = Visible(cpu) /\ d.ld_pend = [dst |-> i.rt, val |-> load_value(i, w)]
  BY <1>6, <1>7, <1>13, <1>14, gpr_set_delayed_Frame, gpr_set_delayed_Type
<1>16. cpu' = Retire(d) /\ bus' = << Call("load", i, w) >>
  BY <1>10 DEF Load
<1> HIDE DEF d, c
<1>17. cpu'.gpr = Visible(cpu) /\ cpu'.ld_pend = [dst |-> i.rt, val |-> load_value(i, w)]
  <2>1. Retire(d).gpr = [Visible(cpu) EXCEPT ![0] = 0] /\ Retire(d).ld_pend = d.ld_pend
    BY <1>15, Retire_Frame
  <2> QED
    BY <1>8, <1>15, <1>16, <2>1
<1>18. host' = host
  <2>1. \A n \in DOMAIN bus' : bus'[n].kind = "load"
    BY <1>16 DEF Call
  <2> QED
    BY <1>5, <2>1 DEF AfterStores
<1> QED
  BY <1>4, <1>8, <1>9, <1>11, <1>12, <1>13, <1>17, <1>18

\* After a load of one part of an unaligned word, the part is in flight,
\* merged with some earlier value of the register.
FirstLoaded ==
  LET i == cpu.instr
      x == get_vaddr(i.arg, cpu.gpr[i.rs])
  IN  i.op \in {"LWL", "LWR"} /\ i.rt # 0 /\ cpu.raised = << >> =>
        \E v \in Word :
          cpu.ld_pend = [dst |-> i.rt, val |-> Part(i.op, v, WordOf(x), DataPaddr(x) % 4)]

\* Every step leaves that behind it.
LEMMA FirstStep ==
  ASSUME TypeOK, ZeroInv, Memory, psycho_cpu_step
  PROVE  FirstLoaded'
PROOF
<1>1. SUFFICES ASSUME cpu'.instr.op \in {"LWL", "LWR"}, cpu'.instr.rt # 0, cpu'.raised = << >>
               PROVE  FirstLoaded'
  BY DEF FirstLoaded
<1>2. PICK i : i = cpu'.instr
  OBVIOUS
<1>3. PICK x : x = get_vaddr(i.arg, Visible(cpu)[i.rs])
  OBVIOUS
<1>4. /\ host' = host /\ cpu'.gpr = Visible(cpu)
      /\ \E v \in Word :
           cpu'.ld_pend = [dst |-> i.rt, val |-> Part(i.op, v, WordOf(x), DataPaddr(x) % 4)]
  BY <1>1, <1>2, <1>3, UnalignedStep
<1>5. x = get_vaddr(i.arg, cpu'.gpr[i.rs])
  BY <1>3, <1>4
<1>6. \A paddr : B!load(paddr, 4, {"ram", "scratchpad", "bios"})' = B!load(paddr, 4, {"ram", "scratchpad", "bios"})
  BY <1>4 DEF B!load
<1>7. WordOf(x)' = WordOf(x)
  BY <1>6 DEF WordOf, LoadValue, B!psycho_bus_load_word
<1> QED
  BY <1>2, <1>4, <1>5, <1>7 DEF FirstLoaded

\* The second load of a pair finds the first part in flight and completes it.
LEMMA PairStep ==
  ASSUME TypeOK, ZeroInv, Memory, FirstLoaded, psycho_cpu_step
  PROVE  PairLoaded
PROOF
<1>1. PICK i : i = cpu.instr
  OBVIOUS
<1>2. PICK j : j = cpu'.instr
  OBVIOUS
<1>3. PICK r : r = Visible(cpu)[j.rs]
  OBVIOUS
<1>4. i \in InstrType /\ i.arg \in Nat /\ cpu.gpr \in [Reg -> Word] /\ cpu.ld_next.dst \in Reg
  BY <1>1, CpuFields DEF TypeOK, CpuType, InstrType
<1>5. ASSUME NEW first, NEW second, NEW x1, NEW x2, NEW skew,
             PairOf(cpu, cpu', first, second, skew),
             first \in {"LWL", "LWR"}, second \in {"LWL", "LWR"},
             x1 = get_vaddr(i.arg, r), x2 = get_vaddr(j.arg, r)
      PROVE  \E v \in Word :
               cpu'.ld_pend = [dst |-> j.rt,
                               val |-> Part(second, Part(first, v, WordOf(x1), DataPaddr(x1) % 4),
                                            WordOf(x2), DataPaddr(x2) % 4)]
  <2>1. /\ i.op = first /\ j.op = second /\ i.rs = j.rs /\ i.rt = j.rt /\ i.rt # 0
        /\ cpu.raised = << >> /\ cpu'.raised = << >> /\ cpu.ld_next.dst \notin {i.rs} \ {0}
    BY <1>1, <1>2, <1>5 DEF PairOf
  <2>2. r = cpu.gpr[i.rs]
    <3>1. i.rs \in Reg
      BY <1>4 DEF InstrType
    <3>2. CASE cpu.ld_next.dst # i.rs
      BY <1>3, <1>4, <2>1, <3>1, <3>2 DEF Visible
    <3>3. CASE cpu.ld_next.dst = 0 /\ i.rs = 0
      BY <1>3, <1>4, <2>1, <3>3 DEF Visible, ZeroInv, SlotsClean, GprZero
    <3> QED
      BY <2>1, <3>2, <3>3
  <2>3. PICK v \in Word :
          cpu.ld_pend = [dst |-> i.rt, val |-> Part(first, v, WordOf(x1), DataPaddr(x1) % 4)]
    BY <1>1, <1>5, <2>1, <2>2 DEF FirstLoaded
  <2>4. PICK u \in Word :
          /\ cpu'.ld_pend = [dst |-> j.rt, val |-> Part(j.op, u, WordOf(x2), DataPaddr(x2) % 4)]
          /\ cpu.ld_pend.dst = j.rt => u = cpu.ld_pend.val
    BY <1>2, <1>3, <1>5, <2>1, UnalignedStep
  <2>5. u = Part(first, v, WordOf(x1), DataPaddr(x1) % 4)
    BY <2>1, <2>3, <2>4
  <2> QED
    BY <2>1, <2>4, <2>5
<1>6. ASSUME NEW low \in {TRUE, FALSE},
             IF low THEN PairOf(cpu, cpu', "LWR", "LWL", 3) ELSE PairOf(cpu, cpu', "LWL", "LWR", -3),
             NEW at, at = get_vaddr(j.arg - (IF low THEN 3 ELSE 0), r),
             DataPaddr(Wrap(at + 3)) = DataPaddr(at) + 3,
             RAM_ADDR_END - DataPaddr(at) \notin -3 .. 3
      PROVE  cpu'.ld_pend = [dst |-> j.rt, val |-> UnalignedWord(at)]
  <2>1. r \in Word /\ j.arg \in Nat
    <3>1. j \in InstrType /\ Visible(cpu) \in [Reg -> Word]
      BY <1>2, <1>6, UnalignedStep DEF PairOf
    <3> QED
      BY <1>3, <3>1 DEF InstrType
  <2>2. CASE low
    <3>1. PairOf(cpu, cpu', "LWR", "LWL", 3)
      BY <1>6, <2>2
    <3>2. j.arg = i.arg + 3 /\ 2 * j.arg < HalfSize
      BY <1>1, <1>2, <3>1 DEF PairOf
    <3>3. at = get_vaddr(i.arg, r) /\ get_vaddr(j.arg, r) = Wrap(at + 3) /\ at \in Word
      <4>1. j.arg - 3 = i.arg
        BY <1>4, <3>2
      <4>2. at = get_vaddr(i.arg, r)
        BY <1>6, <2>2, <4>1
      <4> QED
        BY <1>4, <2>1, <3>2, <4>2, VaddrNext, AddrType
    <3>4. PICK v \in Word :
            cpu'.ld_pend = [dst |-> j.rt,
                            val |-> Part("LWL", Part("LWR", v, WordOf(at), DataPaddr(at) % 4),
                                         WordOf(Wrap(at + 3)), DataPaddr(Wrap(at + 3)) % 4)]
      BY <1>5, <3>1, <3>3
    <3> QED
      BY <1>6, <3>3, <3>4, UnalignedValue DEF Part
  <2>3. CASE ~ low
    <3>1. PairOf(cpu, cpu', "LWL", "LWR", -3)
      BY <1>6, <2>3
    <3>2. j.arg = i.arg + (-3) /\ 2 * i.arg < HalfSize
      BY <1>1, <1>2, <3>1 DEF PairOf
    <3>3. at = get_vaddr(j.arg, r) /\ get_vaddr(i.arg, r) = Wrap(at + 3) /\ at \in Word
      <4>1. j.arg - 0 = j.arg /\ i.arg = j.arg + 3
        BY <1>4, <2>1, <3>2
      <4>2. at = get_vaddr(j.arg, r)
        BY <1>6, <2>3, <4>1
      <4> QED
        BY <1>4, <2>1, <3>2, <4>1, <4>2, VaddrNext, AddrType
    <3>4. PICK v \in Word :
            cpu'.ld_pend = [dst |-> j.rt,
                            val |-> Part("LWR", Part("LWL", v, WordOf(Wrap(at + 3)),
                                                     DataPaddr(Wrap(at + 3)) % 4),
                                         WordOf(at), DataPaddr(at) % 4)]
      BY <1>5, <3>1, <3>3
    <3> QED
      BY <1>6, <3>3, <3>4, UnalignedValue DEF Part
  <2> QED
    BY <1>6, <2>2, <2>3
<1> QED
  BY <1>2, <1>3, <1>6 DEF PairLoaded

(***************************************************************************)
(* Stores.                                                                 *)
(***************************************************************************)
\* What WordsProofs says of the bytes of a store holds here.
LEMMA StoreArithmetic ==
  /\ \A v, w, k : /\ W!swl_merge(v, w, k) = swl_merge(v, w, k)
                  /\ W!swr_merge(v, w, k) = swr_merge(v, w, k)
  /\ \A x, j : W!ByteOf(x, j) = (x \div ByteWeight(j)) % ByteSize
  /\ W!HalfSize = HalfSize
PROOF
<1> USE DEF W!WordSize, W!HalfSize, WordSize, HalfSize
<1>1. \A k : W!ByteWeight(k) = ByteWeight(k)
  BY DEF W!ByteWeight, ByteWeight
<1>2. \A x : W!Wrap(x) = Wrap(x)
  BY DEF W!Wrap, Wrap
<1>3. \A v, w, k : W!swl_merge(v, w, k) = swl_merge(v, w, k)
  BY <1>1, <1>2 DEF W!swl_merge, swl_merge
<1>4. \A v, w, k : W!swr_merge(v, w, k) = swr_merge(v, w, k)
  BY <1>1, <1>2 DEF W!swr_merge, swr_merge
<1>5. \A x, j : W!ByteOf(x, j) = (x \div ByteWeight(j)) % ByteSize
  BY <1>1 DEF W!ByteOf
<1> QED
  BY <1>3, <1>4, <1>5

\* A store to an aligned address, except to the one behind RAM, changes the
\* bytes at its own addresses, where there is RAM or scratchpad, and no
\* other.
LEMMA StoredAt ==
  ASSUME Memory, NEW q \in Nat, NEW len \in {1, 2, 4}, q % len = 0, q # RAM_ADDR_END,
         NEW val \in Word, host' = B!Stored(q, BytesOf(val, len)), NEW p \in Nat
  PROVE  B!psycho_bus_load_byte(p)' =
           IF p - q \in 0 .. len - 1 /\ B!Writable(p) THEN << W!ByteOf(val, p - q) >>
           ELSE B!psycho_bus_load_byte(p)
PROOF
<1> DEFINE bytes == BytesOf(val, len)
<1>1. /\ host \in [P!HostCell -> Byte] /\ len \in P!Width /\ bytes \in P!Bytes(len)
      /\ host' = P!Stored(q, bytes)
  BY OneBus, BytesType DEF Memory
<1>2. /\ \A a : P!Region(a) = B!Region(a) /\ P!Cell(a) = B!Cell(a) /\ P!Writable(a) = B!Writable(a)
  <2> USE DEF B!RAM_SIZE, P!RAM_SIZE, B!BIOS_SIZE, P!BIOS_SIZE, B!SCRATCHPAD_SIZE,
              P!SCRATCHPAD_SIZE, B!bios, P!bios, B!scratchpad, P!scratchpad, B!ram, P!ram
  <2>1. \A a : P!Region(a) = B!Region(a)
    BY DEF P!Region, B!Region
  <2>2. \A a : P!Cell(a) = B!Cell(a)
    BY <2>1 DEF P!Cell, B!Cell
  <2> QED
    BY <2>1, <2>2 DEF P!Writable, B!Writable
<1>3. /\ B!psycho_bus_load_byte(p) =
           [k \in 1 .. 1 |-> IF P!Region(p) \in {"ram", "scratchpad", "bios"}
                             THEN host[P!Cell(p) + k - 1] ELSE ByteSize - 1]
      /\ B!psycho_bus_load_byte(p)' =
           [k \in 1 .. 1 |-> IF P!Region(p) \in {"ram", "scratchpad", "bios"}
                             THEN host'[P!Cell(p) + k - 1] ELSE ByteSize - 1]
  BY <1>2 DEF B!psycho_bus_load_byte, B!load
<1>4. \A j \in 0 .. len - 1 : bytes[j + 1] = W!ByteOf(val, j)
  <2>1. ASSUME NEW j \in 0 .. len - 1 PROVE bytes[j + 1] = W!ByteOf(val, j)
    <3>1. j + 1 \in 1 .. len /\ (j + 1) - 1 = j
      OBVIOUS
    <3> QED
      BY <3>1, StoreArithmetic DEF BytesOf
  <2> QED
    BY <2>1
<1> HIDE DEF bytes
<1>5. P!Region(p) \in {"ram", "scratchpad", "bios", "unknown"} /\ P!Region(q) \in {"ram", "scratchpad", "bios", "unknown"}
  BY OneBus, P!Cells DEF P!BusAssumption
<1>6. /\ P!Writable(p) <=> P!Region(p) \in {"ram", "scratchpad"}
      /\ P!Writable(q) <=> P!Region(q) \in {"ram", "scratchpad"}
  BY DEF P!Writable
<1>a. \A a \in Nat : P!Region(a) # "unknown" => P!Cell(a) \in Int
  <2>1. /\ P!scratchpad \in Int /\ P!bios \in Int
        /\ SCRATCHPAD_ADDR_START \in Int /\ BIOS_ADDR_START \in Int
    BY MachineAssumption DEF B!BusAssumption, P!scratchpad, P!bios, P!RAM_SIZE, P!BIOS_SIZE, B!BIOS_SIZE
  <2>2. ASSUME NEW a \in Nat, P!Region(a) # "unknown" PROVE P!Cell(a) \in Int
    <3>1. /\ P!Region(a) = "ram" => P!Cell(a) = a
          /\ P!Region(a) = "scratchpad" => P!Cell(a) = P!scratchpad + (a - SCRATCHPAD_ADDR_START)
          /\ P!Region(a) = "bios" => P!Cell(a) = P!bios + (a - BIOS_ADDR_START)
          /\ P!Region(a) \in {"ram", "scratchpad", "bios", "unknown"}
      BY OneBus, P!Cells DEF P!BusAssumption
    <3> QED
      BY <2>1, <2>2, <3>1
  <2> QED
    BY <2>2
<1>7. P!Region(p) # "unknown" => P!Cell(p) \in P!HostCell
  <2>1. PICK k \in 1 .. 4 : k = 1
    OBVIOUS
  <2>2. P!Region(p) # "unknown" => P!Cell(p) + k - 1 \in P!HostCell
    BY OneBus, P!LoadInside DEF P!BusAssumption
  <2>3. P!Region(p) # "unknown" => P!Cell(p) \in Int
    BY <1>a
  <2> QED
    BY <2>1, <2>2, <2>3
<1>8. CASE P!Region(p) = "unknown"
  BY <1>2, <1>3, <1>6, <1>8
<1>9. ASSUME P!Region(p) # "unknown", host'[P!Cell(p)] = host[P!Cell(p)]
      PROVE  B!psycho_bus_load_byte(p)' = B!psycho_bus_load_byte(p)
  <2>1. P!Cell(p) \in Int
    BY <1>a, <1>9
  <2>2. \A k \in 1 .. 1 : P!Cell(p) + k - 1 = P!Cell(p)
    BY <2>1
  <2> QED
    BY <1>3, <1>9, <2>2
<1>10. CASE P!Region(p) # "unknown" /\ p - q \notin 0 .. len - 1
  <2>1. CASE ~ P!Writable(q)
    <3>1. host' = host
      BY <1>1, <2>1 DEF P!Stored
    <3> QED
      BY <1>9, <1>10, <3>1
  <2>2. CASE P!Writable(q)
    <3>1. P!Cell(p) - P!Cell(q) \notin 0 .. len - 1
      BY <1>1, <1>10, <2>2, OneBus, P!StoreAliases DEF P!BusAssumption
    <3>2. host'[P!Cell(p)] = host[P!Cell(p)]
      BY <1>1, <1>7, <1>10, <2>2, <3>1, OneBus, P!StoredCells DEF P!BusAssumption
    <3> QED
      BY <1>9, <1>10, <3>2
  <2> QED
    BY <2>1, <2>2
<1>11. CASE P!Region(p) # "unknown" /\ p - q \in 0 .. len - 1
  <2>1. PICK j \in 0 .. len - 1 : j = p - q
    BY <1>11
  <2>2. p = q + j
    BY <2>1
  <2>3. P!Region(q) # "unknown"
    <3>1. /\ RAM_ADDR_END \in Nat /\ SCRATCHPAD_ADDR_START \in Nat /\ SCRATCHPAD_ADDR_END \in Nat
          /\ BIOS_ADDR_START \in Nat /\ BIOS_ADDR_END \in Nat
          /\ SCRATCHPAD_ADDR_START % 4 = 0 /\ BIOS_ADDR_START % 4 = 0
      BY MachineAssumption DEF B!BusAssumption
    <3>2. \/ p \in 0 .. RAM_ADDR_END
          \/ p \in SCRATCHPAD_ADDR_START .. SCRATCHPAD_ADDR_END
          \/ p \in BIOS_ADDR_START .. BIOS_ADDR_END
      BY <1>11, OneBus, P!Regions DEF P!BusAssumption
    <3>3. \A s \in Nat : s % 4 = 0 /\ p >= s => q >= s
      <4>1. ASSUME NEW s \in Nat, s % 4 = 0, p >= s PROVE q >= s
        <5>1. CASE len = 1
          BY <2>1, <2>2, <4>1, <5>1
        <5>2. CASE len = 2
          BY <2>1, <2>2, <4>1, <5>2
        <5>3. CASE len = 4
          BY <2>1, <2>2, <4>1, <5>3
        <5> QED
          BY <5>1, <5>2, <5>3
      <4> QED
        BY <4>1
    <3>4. \/ q \in 0 .. RAM_ADDR_END
          \/ q \in SCRATCHPAD_ADDR_START .. SCRATCHPAD_ADDR_END
          \/ q \in BIOS_ADDR_START .. BIOS_ADDR_END
      <4>1. q <= p
        BY <2>1, <2>2
      <4> QED
        BY <3>1, <3>2, <3>3, <4>1
    <3> QED
      BY <3>4, OneBus, P!Regions DEF P!BusAssumption
  <2>4. P!Region(q + j) = P!Region(q) /\ P!Cell(q + j) = P!Cell(q) + j
    BY <1>1, <2>3, OneBus, P!NextCells DEF P!BusAssumption
  <2>5. P!Region(p) = P!Region(q) /\ P!Cell(p) = P!Cell(q) + j
    BY <2>2, <2>4
  <2>6. CASE ~ P!Writable(q)
    <3>1. host' = host
      BY <1>1, <2>6 DEF P!Stored
    <3>2. ~ B!Writable(p)
      BY <1>2, <1>6, <2>5, <2>6
    <3> QED
      BY <1>9, <1>11, <3>1, <3>2
  <2>7. CASE P!Writable(q)
    <3>1. P!Cell(p) \in Int /\ P!Cell(q) \in Int
      BY <1>a, <1>11, <2>3
    <3>2. j + 1 \in 1 .. len /\ P!Cell(p) = P!Cell(q) + (j + 1) - 1
      BY <2>5, <3>1
    <3>3. PICK k \in 1 .. len : k = j + 1
      BY <3>2
    <3>4. P!Cell(p) = P!Cell(q) + k - 1
      BY <3>2, <3>3
    <3>5. P!Stored(q, bytes)[P!Cell(q) + k - 1] = bytes[k]
      BY <1>1, <2>7, OneBus, P!StoredReadBack DEF P!BusAssumption
    <3>6. host'[P!Cell(p)] = W!ByteOf(val, j)
      BY <1>1, <1>4, <3>3, <3>4, <3>5
    <3>7. B!psycho_bus_load_byte(p)' = << W!ByteOf(val, j) >>
      <4>1. \A n \in 1 .. 1 : P!Cell(p) + n - 1 = P!Cell(p)
        BY <3>1
      <4> QED
        BY <1>3, <1>5, <1>11, <3>6, <4>1
    <3> QED
      BY <1>2, <1>6, <1>11, <2>1, <2>5, <2>7, <3>7
  <2> QED
    BY <2>6, <2>7
<1> QED
  BY <1>8, <1>10, <1>11

\* The store that a step refuses.
Refused(i) ==
  \/ i.op = "SW" /\ SR_ISC_BIT \in BitsOf(F(i).cop0["SR"])
  \/ \E n \in DOMAIN cpu'.raised : cpu'.raised[n] = EXCEPTION_ADES

\* What a store writes, with the word that SWL and SWR read first.
StoredBy(i) ==
  B!Stored(BusAddr(i), BytesOf(store_value(i, LoadValue(BusAddr(i), AccessLen(i.op))),
                               AccessLen(i.op)))

\* A step carries out the store it executes, or refuses it, or has none.
LEMMA StoreOutcome ==
  ASSUME TypeOK, Memory, psycho_cpu_step, NEW i, i = cpu'.instr
  PROVE  /\ i \in InstrType
         /\ \/ host' = host /\ (i.op \in StoreOps => Refused(i))
            \/ i.op \in StoreOps /\ ~ Refused(i) /\ ~ Misaligned(i) /\ host' = StoredBy(i)
PROOF
<1>1. cpu \in CpuType
  BY DEF TypeOK
<1>2. PICK s \in InstrType : s = Stepped
  BY StepOnMemory
<1>3. PICK words \in SUBSET Word : Execute(s, words)
  BY <1>2, StepOnMemory
<1>4. i = s /\ i \in InstrType
  <2>1. FlowStep(s)
    BY <1>3, ControlEffect
  <2> QED
    BY <2>1 DEF FlowStep
<1>5. PICK w : /\ w = LoadValue(BusAddr(i), AccessLen(i.op))
               /\ Execute(i, {w}) /\ host' = AfterStores(bus')
  BY <1>2, <1>4 DEF psycho_cpu_step, Stepped
<1>6. F(i) \in CpuType /\ F(i).raised = << >>
  BY <1>1, <1>4, HeadType, fetch_Frame DEF F
<1>7. w \in Word
  <2>1. AccessLen(i.op) \in {1, 2, 4}
    BY DEF AccessLen
  <2>2. Paddr(i) \in Nat
    BY <1>1, <1>4, HeadType, AddrType, WordFacts DEF Paddr, Vaddr
  <2>3. BusAddr(i) \in Nat
    <3>1. Paddr(i) % 4 <= Paddr(i) /\ Paddr(i) % 4 \in Nat
      BY <2>2
    <3> QED
      BY <2>2, <3>1 DEF BusAddr, ByteInWord
  <2> QED
    BY <1>5, <2>1, <2>3, LoadValueType
<1>8. Checked(i) \in CpuType /\ (Checked(i) = F(i) \/ Checked(i).raised = << EXCEPTION_BP >>)
  <2>1. Checked(i) \in CpuType
    BY <1>1, <1>4, <1>7, AccessType
  <2>2. Checked(i) = F(i) \/ Checked(i).raised = raise_exception(F(i), EXCEPTION_BP).raised
    <3>1. raise_exception(F(i), EXCEPTION_BP) \in CpuType
      BY <1>6, raise_exception_Type DEF ExcCode
    <3> HIDE DEF raise_exception
    <3> QED
      BY <3>1 DEF Checked, dbg_data_bp_chk, CpuType
  <2>3. raise_exception(F(i), EXCEPTION_BP).raised = << EXCEPTION_BP >>
    BY <1>6 DEF raise_exception, CpuType
  <2> QED
    BY <2>1, <2>2, <2>3
<1>9. ASSUME \A n \in DOMAIN bus' : bus'[n].kind = "load" PROVE host' = host
  BY <1>5, <1>9 DEF AfterStores
<1>10. ASSUME NEW c \in CpuType, cpu' = Retire(c) PROVE cpu'.raised = c.raised
  BY <1>10, Retire_Frame DEF SameFlow
<1>11. CASE i.op \notin StoreOps
  <2>1. bus' = << >> \/ Load(i, w)
    BY <1>5, <1>11 DEF Execute, AluReg, AluImm, AddSub, AddSubOverflow, MulDiv, HiLoMove, Jump,
         Branch, Trap, Cop0, Illegal, LoadAddressError, Store, StoreIsolated, StoreAddressError,
         Isolated, StoreOps, Done
  <2>2. \A n \in DOMAIN bus' : bus'[n].kind = "load"
    BY <2>1 DEF Load, Call
  <2> QED
    BY <1>4, <1>9, <1>11, <2>2
<1>12. CASE i.op \in StoreOps
  <2>1. Store(i, w) \/ StoreIsolated(i) \/ StoreAddressError(i)
    BY <1>5, <1>12 DEF Execute, AluReg, AluImm, AddSub, AddSubOverflow, MulDiv, HiLoMove, Jump,
         Branch, Trap, Cop0, Illegal, Load, LoadAddressError, StoreOps, LoadOps,
         AluRegOps, AluImmOps, OverflowOps, MulDivOps, HiLoOps, JumpOps, BranchOps, TrapOps, Cop0Ops
  <2>2. CASE StoreIsolated(i)
    <3>1. host' = host /\ Refused(i)
      BY <1>9, <2>2 DEF StoreIsolated, Isolated, Refused, Done
    <3> QED
      BY <1>4, <3>1
  <2>3. CASE StoreAddressError(i)
    <3> DEFINE c == raise_exception(Checked(i), EXCEPTION_ADES)
    <3>1. c \in CpuType
      BY <1>8, raise_exception_Type DEF ExcCode
    <3>2. c.raised = Append(Checked(i).raised, EXCEPTION_ADES) /\ Checked(i).raised \in Seq(ExcCode)
      BY <1>8 DEF raise_exception, CpuType
    <3>3. cpu' = Retire(c) /\ bus' = << >>
      BY <2>3 DEF StoreAddressError, Done
    <3> HIDE DEF c
    <3>4. cpu'.raised = Append(Checked(i).raised, EXCEPTION_ADES)
      BY <1>10, <3>1, <3>2, <3>3
    <3>5. PICK r \in Seq(ExcCode) : r = Checked(i).raised
      BY <3>2
    <3>6. Len(r) + 1 \in DOMAIN cpu'.raised /\ cpu'.raised[Len(r) + 1] = EXCEPTION_ADES
      BY <3>4, <3>5 DEF ExcCode, EXCEPTION_ADES, EXCEPTION_ADEL, EXCEPTION_SYS, EXCEPTION_BP, EXCEPTION_OV
    <3>7. Refused(i)
      BY <3>6 DEF Refused
    <3> QED
      BY <1>4, <1>9, <3>3, <3>7
  <2>4. CASE Store(i, w)
    <3>1. cpu' = Retire(Checked(i)) /\ ~ Isolated(i) /\ ~ Misaligned(i)
      BY <2>4 DEF Store
    <3>2. cpu'.raised = << >> \/ cpu'.raised = << EXCEPTION_BP >>
      BY <1>6, <1>8, <1>10, <3>1
    <3>3. ~ Refused(i)
      BY <3>1, <3>2 DEF Refused, Isolated, EXCEPTION_BP, EXCEPTION_ADES
    <3> DEFINE stores == {n \in DOMAIN bus' : bus'[n].kind = "store"}
               v == store_value(i, w)
    <3>4. \/ bus' = << Call("load", i, w), Call("store", i, v) >>
          \/ bus' = << Call("store", i, v) >>
      BY <2>4 DEF Store
    <3> HIDE DEF v
    <3>5. stores # {} /\ \A n \in stores : bus'[n] = Call("store", i, v)
      <4>1. Call("load", i, w).kind = "load" /\ Call("store", i, v).kind = "store"
        BY DEF Call
      <4>2. CASE bus' = << Call("store", i, v) >>
        <5>1. DOMAIN bus' = {1} /\ bus'[1] = Call("store", i, v)
          BY <4>2
        <5> QED
          BY <4>1, <5>1
      <4>3. CASE bus' = << Call("load", i, w), Call("store", i, v) >>
        <5>1. DOMAIN bus' = {1, 2} /\ bus'[1] = Call("load", i, w) /\ bus'[2] = Call("store", i, v)
          BY <4>3
        <5> QED
          BY <4>1, <5>1
      <4> QED
        BY <3>4, <4>2, <4>3
    <3>6. bus'[CHOOSE n \in stores : TRUE] = Call("store", i, v)
      <4>1. (CHOOSE n \in stores : TRUE) \in stores
        BY <3>5
      <4> QED
        BY <3>5, <4>1
    <3>7. host' = B!Stored(BusAddr(i), BytesOf(v, AccessLen(i.op)))
      <4>1. host' = B!Stored(Call("store", i, v).addr,
                             BytesOf(Call("store", i, v).val, Call("store", i, v).len))
        BY <1>5, <3>5, <3>6 DEF AfterStores
      <4> QED
        BY <4>1 DEF Call
    <3> QED
      BY <1>4, <1>5, <1>12, <3>1, <3>3, <3>7 DEF StoredBy, v
  <2> QED
    BY <2>1, <2>2, <2>3, <2>4
<1> QED
  BY <1>11, <1>12

\* A store writes its register's bytes to its addresses and nothing else.
LEMMA StoreStep ==
  ASSUME TypeOK, Memory, psycho_cpu_step
  PROVE  StoreLands
PROOF
<1>1. PICK i : i = cpu'.instr
  OBVIOUS
<1>2. PICK reg : reg = Visible(cpu)[i.rt]
  OBVIOUS
<1>3. PICK at : at = DataPaddr(get_vaddr(i.arg, Visible(cpu)[i.rs]))
  OBVIOUS
<1>4. PICK lowest : lowest = IF i.op = "SWL" THEN at - 3 ELSE at
  OBVIOUS
<1>5. /\ i \in InstrType
      /\ \/ host' = host /\ (i.op \in StoreOps => Refused(i))
         \/ i.op \in StoreOps /\ ~ Refused(i) /\ ~ Misaligned(i) /\ host' = StoredBy(i)
  BY <1>1, StoreOutcome
<1>6. cpu \in CpuType
  BY DEF TypeOK
<1>7. at = Paddr(i) /\ reg = Rt(i) /\ at \in Nat /\ reg \in Word
  <2>1. F(i).gpr = Visible(cpu)
    BY <1>5, <1>6, fetch_Frame DEF F
  <2>2. Rt(i) \in Word /\ Paddr(i) \in Nat
    BY <1>5, <1>6, HeadType, AddrType, WordFacts DEF Paddr, Vaddr
  <2> QED
    BY <1>2, <1>3, <2>1, <2>2 DEF Rt, Rs, Paddr, Vaddr
<1>8. ASSUME i.op \in StoreOps, ~ Misaligned(i), host' = StoredBy(i), at - (at % 4) # RAM_ADDR_END,
             NEW p \in 0 .. PhysSize - 1
      PROVE  B!psycho_bus_load_byte(p)' =
               IF p \in WrittenBy(i.op, at) /\ B!Writable(p)
               THEN << (reg \div ByteWeight(p - lowest)) % ByteSize >>
               ELSE B!psycho_bus_load_byte(p)
  <2>1. PICK q : q = BusAddr(i)
    OBVIOUS
  <2>2. PICK len : len = AccessLen(i.op)
    OBVIOUS
  <2>3. PICK k : k = at % 4
    OBVIOUS
  <2>4. /\ q \in Nat /\ len \in {1, 2, 4} /\ k \in 0 .. 3
        /\ IF i.op \in {"SWL", "SWR"} THEN len = 4 /\ q = at - k ELSE q = at
    <3>1. at % 4 \in 0 .. 3 /\ at - (at % 4) \in Nat
      BY <1>7
    <3> QED
      BY <1>7, <1>8, <2>1, <2>2, <2>3, <3>1 DEF BusAddr, AccessLen, Unaligned, ByteInWord, StoreOps
  <2>5. q % len = 0
    BY <1>5, <1>6, <1>8, <2>1, <2>2, AccessAligned
  <2>6. q # RAM_ADDR_END
    <3>1. RAM_ADDR_END \in Nat /\ RAM_ADDR_END % 4 = 0
      BY MachineAssumption DEF B!BusAssumption
    <3> QED
      BY <1>7, <1>8, <2>3, <2>4, <3>1
  <2>7. PICK m \in Word : m = LoadValue(q, len)
    BY <2>4, LoadValueType
  <2>8. PICK val \in Word : val = store_value(i, m)
    BY <1>5, <1>6, AccessType
  <2>9. host' = B!Stored(q, BytesOf(val, len))
    BY <1>8, <2>1, <2>2, <2>7, <2>8 DEF StoredBy
  <2>10. p \in Nat
    BY CpuDefsAssumption
  <2>11. B!psycho_bus_load_byte(p)' =
           IF p - q \in 0 .. len - 1 /\ B!Writable(p) THEN << W!ByteOf(val, p - q) >>
           ELSE B!psycho_bus_load_byte(p)
    BY <2>4, <2>5, <2>6, <2>9, <2>10, StoredAt
  <2>12. \A x, j : W!ByteOf(x, j) = (x \div ByteWeight(j)) % ByteSize
    BY StoreArithmetic
  <2>13. /\ W!ByteOf(reg % ByteSize, 0) = W!ByteOf(reg, 0)
         /\ \A j \in 0 .. 1 : W!ByteOf(reg % HalfSize, j) = W!ByteOf(reg, j)
         /\ \A n, j \in 0 .. 3 :
              /\ W!ByteOf(swr_merge(reg, m, n), j) = IF j < n THEN W!ByteOf(m, j) ELSE W!ByteOf(reg, j - n)
              /\ W!ByteOf(swl_merge(reg, m, n), j) = IF j > n THEN W!ByteOf(m, j) ELSE W!ByteOf(reg, j + 3 - n)
    <3>1. reg \in W!Word /\ m \in W!Word
      BY <1>7, OneArithmetic
    <3>2. /\ W!ByteOf(reg % ByteSize, 0) = W!ByteOf(reg, 0)
          /\ \A j \in 0 .. 1 : W!ByteOf(reg % W!HalfSize, j) = W!ByteOf(reg, j)
          /\ \A n, j \in 0 .. 3 :
               /\ W!ByteOf(W!swr_merge(reg, m, n), j) = IF j < n THEN W!ByteOf(m, j) ELSE W!ByteOf(reg, j - n)
               /\ W!ByteOf(W!swl_merge(reg, m, n), j) = IF j > n THEN W!ByteOf(m, j) ELSE W!ByteOf(reg, j + 3 - n)
      BY <3>1, OneArithmetic, W!StoredBytes DEF W!ByteAssumption, W!CpuDefsAssumption, W!PowerAssumption
    <3> QED
      BY <3>2, StoreArithmetic
  <2>14. CASE i.op \in {"SB", "SH", "SW"}
    <3>1. q = at /\ lowest = at /\ WrittenBy(i.op, at) = at .. at + len - 1
      BY <1>4, <2>2, <2>4, <2>14 DEF WrittenBy
    <3>2. p \in WrittenBy(i.op, at) <=> p - q \in 0 .. len - 1
      BY <1>7, <2>4, <2>10, <3>1
    <3>3. ASSUME p - q \in 0 .. len - 1 PROVE W!ByteOf(val, p - q) = W!ByteOf(reg, p - q)
      <4>1. CASE i.op = "SB"
        <5>1. len = 1 /\ val = reg % ByteSize
          BY <1>7, <2>2, <2>8, <4>1 DEF AccessLen, store_value
        <5>2. p - q = 0
          BY <3>3, <5>1
        <5> QED
          BY <2>13, <5>1, <5>2
      <4>2. CASE i.op = "SH"
        <5>1. len = 2 /\ val = reg % HalfSize
          BY <1>7, <2>2, <2>8, <4>2 DEF AccessLen, store_value
        <5>2. p - q \in 0 .. 1
          BY <3>3, <5>1
        <5> QED
          BY <2>13, <5>1, <5>2
      <4>3. CASE i.op = "SW"
        BY <1>7, <2>8, <4>3 DEF store_value
      <4> QED
        BY <2>14, <4>1, <4>2, <4>3
    <3> QED
      BY <2>11, <2>12, <3>1, <3>2, <3>3
  <2>15. ASSUME p - q \in 0 .. 3, i.op \in {"SWL", "SWR"}
         PROVE  << W!ByteOf(m, p - q) >> = B!psycho_bus_load_byte(p)
    <3>1. PICK j \in 0 .. 3 : j = p - q
      BY <2>15
    <3>2. p = q + j /\ q + 0 = q /\ q % 4 = 0 /\ len = 4
      BY <2>4, <2>5, <2>10, <2>15, <3>1
    <3>3. m = W!FourBytes(ByteAt(q), ByteAt(q + 1), ByteAt(q + 2), ByteAt(q + 3))
      BY <2>4, <2>6, <2>7, <3>2, WordInBytes
    <3>4. /\ ByteAt(q) \in W!Byte /\ ByteAt(q + 1) \in W!Byte
          /\ ByteAt(q + 2) \in W!Byte /\ ByteAt(q + 3) \in W!Byte
      <4>1. q + 1 \in Nat /\ q + 2 \in Nat /\ q + 3 \in Nat
        BY <2>4
      <4> QED
        BY <2>4, <4>1, ByteAtType, OneArithmetic
    <3>5. /\ W!ByteOf(m, 0) = ByteAt(q) /\ W!ByteOf(m, 1) = ByteAt(q + 1)
          /\ W!ByteOf(m, 2) = ByteAt(q + 2) /\ W!ByteOf(m, 3) = ByteAt(q + 3)
      BY <3>3, <3>4, OneArithmetic, W!ByteOfFour DEF W!ByteAssumption, W!CpuDefsAssumption, W!PowerAssumption
    <3>6. j = 0 \/ j = 1 \/ j = 2 \/ j = 3
      OBVIOUS
    <3>7. W!ByteOf(m, j) = ByteAt(p)
      BY <3>2, <3>5, <3>6
    <3>8. << ByteAt(p) >> = B!psycho_bus_load_byte(p)
      BY DEF ByteAt, B!psycho_bus_load_byte, B!load
    <3> QED
      BY <3>1, <3>7, <3>8
  <2>16. CASE i.op = "SWL"
    <3>1. /\ q = at - k /\ lowest = at - 3 /\ len = 4 /\ val = swl_merge(reg, m, k)
          /\ WrittenBy(i.op, at) = at - (at % 4) .. at
      BY <1>4, <1>7, <2>3, <2>4, <2>8, <2>16 DEF WrittenBy, store_value, ByteInWord
    <3>2. p \in WrittenBy(i.op, at) <=> p - q \in 0 .. 3 /\ p - q <= k
      <4>1. WrittenBy(i.op, at) = at - k .. at
        BY <2>3, <3>1
      <4>2. at = q + k /\ at \in Int /\ q \in Int /\ k \in 0 .. 3
        BY <1>7, <2>4, <3>1
      <4>3. WrittenBy(i.op, at) = q .. q + k
        BY <4>1, <4>2
      <4> QED
        BY <2>10, <4>2, <4>3
    <3>3. p - lowest = p - q + 3 - k
      BY <1>7, <2>4, <2>10, <3>1
    <3>4. ASSUME p - q \in 0 .. 3
          PROVE  W!ByteOf(val, p - q) = IF p - q > k THEN W!ByteOf(m, p - q) ELSE W!ByteOf(reg, p - lowest)
      <4>1. PICK j \in 0 .. 3 : j = p - q
        BY <3>4
      <4>2. W!ByteOf(swl_merge(reg, m, k), j) = IF j > k THEN W!ByteOf(m, j) ELSE W!ByteOf(reg, j + 3 - k)
        BY <2>4, <2>13
      <4> QED
        BY <3>1, <3>3, <4>1, <4>2
    <3>5. CASE p - q \in 0 .. 3 /\ p - q > k
      <4>1. p \notin WrittenBy(i.op, at)
        BY <2>4, <3>2, <3>5
      <4> QED
        BY <2>11, <2>15, <2>16, <3>1, <3>4, <3>5, <4>1
    <3>6. CASE p - q \in 0 .. 3 /\ ~ (p - q > k)
      <4>1. p \in WrittenBy(i.op, at)
        BY <2>4, <3>2, <3>6
      <4> QED
        BY <2>11, <2>12, <3>1, <3>4, <3>6, <4>1
    <3>7. CASE p - q \notin 0 .. 3
      BY <2>11, <3>1, <3>2, <3>7
    <3> QED
      BY <3>5, <3>6, <3>7
  <2>17. CASE i.op = "SWR"
    <3>1. /\ q = at - k /\ lowest = at /\ len = 4 /\ val = swr_merge(reg, m, k)
          /\ WrittenBy(i.op, at) = at .. at - (at % 4) + 3
      BY <1>4, <1>7, <2>3, <2>4, <2>8, <2>17 DEF WrittenBy, store_value, ByteInWord
    <3>2. p \in WrittenBy(i.op, at) <=> p - q \in 0 .. 3 /\ ~ (p - q < k)
      <4>1. WrittenBy(i.op, at) = at .. at - k + 3
        BY <2>3, <3>1
      <4>2. at = q + k /\ at \in Int /\ q \in Int /\ k \in 0 .. 3
        BY <1>7, <2>4, <3>1
      <4>3. WrittenBy(i.op, at) = q + k .. q + 3
        BY <4>1, <4>2
      <4> QED
        BY <2>10, <4>2, <4>3
    <3>3. p - lowest = p - q - k
      BY <1>7, <2>4, <2>10, <3>1
    <3>4. ASSUME p - q \in 0 .. 3
          PROVE  W!ByteOf(val, p - q) = IF p - q < k THEN W!ByteOf(m, p - q) ELSE W!ByteOf(reg, p - lowest)
      <4>1. PICK j \in 0 .. 3 : j = p - q
        BY <3>4
      <4>2. W!ByteOf(swr_merge(reg, m, k), j) = IF j < k THEN W!ByteOf(m, j) ELSE W!ByteOf(reg, j - k)
        BY <2>4, <2>13
      <4> QED
        BY <3>1, <3>3, <4>1, <4>2
    <3>5. CASE p - q \in 0 .. 3 /\ p - q < k
      <4>1. p \notin WrittenBy(i.op, at)
        BY <2>4, <3>2, <3>5
      <4> QED
        BY <2>11, <2>15, <2>17, <3>1, <3>4, <3>5, <4>1
    <3>6. CASE p - q \in 0 .. 3 /\ ~ (p - q < k)
      <4>1. p \in WrittenBy(i.op, at)
        BY <2>4, <3>2, <3>6
      <4> QED
        BY <2>11, <2>12, <3>1, <3>4, <3>6, <4>1
    <3>7. CASE p - q \notin 0 .. 3
      BY <2>11, <3>1, <3>2, <3>7
    <3> QED
      BY <3>5, <3>6, <3>7
  <2> QED
    BY <1>8, <2>14, <2>16, <2>17 DEF StoreOps
<1>9. CASE i.op \in StoreOps /\ ~ Refused(i)
  BY <1>1, <1>2, <1>3, <1>4, <1>5, <1>8, <1>9 DEF StoreLands, Refused
<1>10. CASE ~ (i.op \in StoreOps /\ ~ Refused(i))
  BY <1>1, <1>5, <1>10 DEF StoreLands, Refused
<1> QED
  BY <1>9, <1>10
=============================================================================

----------------------------- MODULE BusProofs -----------------------------
(***************************************************************************)
(* Bus, for every size and place of the regions that BusAssumption allows. *)
(***************************************************************************)
EXTENDS Bus, SequenceTheorems, TLAPS

(***************************************************************************)
(* Arithmetic.                                                             *)
(***************************************************************************)
\* Masking an address with a window the region starts a multiple of leaves
\* the offset in the region.
LEMMA WindowOffset ==
  ASSUME NEW n \in Nat \ {0}, NEW b \in Nat, b % n = 0, NEW k \in 0 .. n - 1
  PROVE  (b + k) % n = k
PROOF
<1> DEFINE q == b \div n
           r == (b + k) \div n
           m == (b + k) % n
<1>1. q \in Int /\ r \in Int /\ m \in 0 .. n - 1
  OBVIOUS
<1>2. b = n * q /\ b + k = n * r + m
  OBVIOUS
<1> HIDE DEF q, r, m
<1>3. m - k = n * (q - r)
  BY <1>1, <1>2
<1>4. ASSUME NEW d \in Int, d > 0 PROVE n * d >= n
  BY <1>4
<1>5. CASE q = r
  BY <1>1, <1>3, <1>5 DEF m
<1>6. CASE q > r
  <2>1. n * (q - r) >= n
    BY <1>1, <1>4, <1>6
  <2> QED
    BY <1>1, <1>3, <2>1
<1>7. CASE r > q
  <2>1. n * (r - q) >= n
    BY <1>1, <1>4, <1>7
  <2>2. k - m = n * (r - q)
    BY <1>1, <1>2
  <2> QED
    BY <1>1, <2>1, <2>2
<1> QED
  BY <1>1, <1>5, <1>6, <1>7

(***************************************************************************)
(* The layout.                                                             *)
(***************************************************************************)
\* The places of the objects in the emu object, in order.
LEMMA Layout ==
  /\ RAM_SIZE \in Nat /\ RAM_SIZE % 4 = 0 /\ RAM_SIZE = RAM_ADDR_END
  /\ BIOS_SIZE \in Nat /\ BIOS_SIZE >= 3
  /\ SCRATCHPAD_SIZE \in Nat /\ SCRATCHPAD_SIZE >= 3
  /\ ram = 0 /\ bios = RAM_SIZE
  /\ scratchpad = RAM_SIZE + BIOS_SIZE + 1
  /\ pointers = RAM_SIZE + BIOS_SIZE + SCRATCHPAD_SIZE + 2
  /\ pointers \in Nat /\ PtrBytes \in Nat /\ PtrBytes >= 4
  /\ HostCell = 0 .. pointers + PtrBytes - 1
PROOF
<1>1. RAM_SIZE \in Nat /\ RAM_SIZE % 4 = 0
  BY BusAssumption DEF RAM_SIZE
<1>2. BIOS_SIZE \in Nat /\ BIOS_SIZE >= 3
  <2>1. BIOS_SIZE \in Nat /\ BIOS_SIZE % 4 = 3
    BY BusAssumption
  <2> QED
    BY <2>1
<1>3. SCRATCHPAD_SIZE \in Nat /\ SCRATCHPAD_SIZE >= 3
  <2>1. SCRATCHPAD_SIZE \in Nat /\ SCRATCHPAD_SIZE % 4 = 3
    BY BusAssumption
  <2> QED
    BY <2>1
<1>4. PtrBytes \in Nat /\ PtrBytes >= 4
  BY BusAssumption
<1> QED
  BY <1>1, <1>2, <1>3, <1>4 DEF ram, bios, scratchpad, pointers, HostCell, RAM_SIZE

\* The inclusive ends of the regions.
LEMMA RegionEnds ==
  /\ SCRATCHPAD_ADDR_START \in Nat /\ SCRATCHPAD_ADDR_START > RAM_ADDR_END
  /\ SCRATCHPAD_ADDR_START % 4 = 0
  /\ SCRATCHPAD_ADDR_END = SCRATCHPAD_ADDR_START + SCRATCHPAD_SIZE
  /\ SCRATCHPAD_SIZE % 4 = 3
  /\ BIOS_ADDR_START \in Nat /\ BIOS_ADDR_START > SCRATCHPAD_ADDR_END
  /\ BIOS_ADDR_START % 4 = 0
  /\ BIOS_ADDR_END = BIOS_ADDR_START + BIOS_SIZE
  /\ BIOS_SIZE % 4 = 3
  /\ RAM_ADDR_END \in Nat
PROOF
  BY BusAssumption DEF SCRATCHPAD_SIZE, BIOS_SIZE

\* The region of an address, whichever guard of Region comes first.
LEMMA Regions ==
  ASSUME NEW a \in Nat
  PROVE  /\ a \in 0 .. RAM_ADDR_END => Region(a) = "ram"
         /\ a \in SCRATCHPAD_ADDR_START .. SCRATCHPAD_ADDR_END => Region(a) = "scratchpad"
         /\ a \in BIOS_ADDR_START .. BIOS_ADDR_END => Region(a) = "bios"
         /\ \/ a \in 0 .. RAM_ADDR_END
            \/ a \in SCRATCHPAD_ADDR_START .. SCRATCHPAD_ADDR_END
            \/ a \in BIOS_ADDR_START .. BIOS_ADDR_END
            \/ Region(a) = "unknown"
PROOF
<1>1. /\ a \in 0 .. RAM_ADDR_END =>
           /\ a \notin SCRATCHPAD_ADDR_START .. SCRATCHPAD_ADDR_END
           /\ a \notin BIOS_ADDR_START .. BIOS_ADDR_END
      /\ a \in SCRATCHPAD_ADDR_START .. SCRATCHPAD_ADDR_END =>
           a \notin BIOS_ADDR_START .. BIOS_ADDR_END
  BY RegionEnds, Layout
<1> QED
  BY <1>1 DEF Region

\* The cell of each region's addresses.
LEMMA Cells ==
  ASSUME NEW a \in Nat
  PROVE  /\ Region(a) = "ram" => a <= RAM_ADDR_END /\ Cell(a) = a
         /\ Region(a) = "scratchpad" =>
              /\ a - SCRATCHPAD_ADDR_START \in 0 .. SCRATCHPAD_SIZE
              /\ Cell(a) = scratchpad + (a - SCRATCHPAD_ADDR_START)
         /\ Region(a) = "bios" =>
              /\ a - BIOS_ADDR_START \in 0 .. BIOS_SIZE
              /\ Cell(a) = bios + (a - BIOS_ADDR_START)
         /\ Region(a) \in {"ram", "scratchpad", "bios", "unknown"}
PROOF
<1>1. CASE a \in 0 .. RAM_ADDR_END
  <2>1. Region(a) = "ram"
    BY <1>1, Regions
  <2> QED
    BY <1>1, <2>1, Layout DEF Cell
<1>2. CASE a \in SCRATCHPAD_ADDR_START .. SCRATCHPAD_ADDR_END
  <2>1. Region(a) = "scratchpad"
    BY <1>2, Regions
  <2>2. a - SCRATCHPAD_ADDR_START \in 0 .. SCRATCHPAD_SIZE
    BY <1>2, RegionEnds, Layout
  <2>3. a % ScratchpadWindow = a - SCRATCHPAD_ADDR_START
    <3> DEFINE k == a - SCRATCHPAD_ADDR_START
    <3>1. /\ ScratchpadWindow \in Nat \ {0} /\ k \in 0 .. ScratchpadWindow - 1
          /\ SCRATCHPAD_ADDR_START % ScratchpadWindow = 0
      BY <2>2, Layout, RegionEnds, BusAssumption
    <3>2. SCRATCHPAD_ADDR_START + k = a
      BY RegionEnds
    <3> HIDE DEF k
    <3>3. (SCRATCHPAD_ADDR_START + k) % ScratchpadWindow = k
      BY <3>1, WindowOffset, RegionEnds
    <3> QED
      BY <3>2, <3>3 DEF k
  <2> QED
    BY <2>1, <2>2, <2>3 DEF Cell
<1>3. CASE a \in BIOS_ADDR_START .. BIOS_ADDR_END
  <2>1. Region(a) = "bios"
    BY <1>3, Regions
  <2>2. a - BIOS_ADDR_START \in 0 .. BIOS_SIZE
    BY <1>3, RegionEnds, Layout
  <2>3. a % BiosWindow = a - BIOS_ADDR_START
    <3> DEFINE k == a - BIOS_ADDR_START
    <3>1. /\ BiosWindow \in Nat \ {0} /\ k \in 0 .. BiosWindow - 1
          /\ BIOS_ADDR_START % BiosWindow = 0
      BY <2>2, Layout, RegionEnds, BusAssumption
    <3>2. BIOS_ADDR_START + k = a
      BY RegionEnds
    <3> HIDE DEF k
    <3>3. (BIOS_ADDR_START + k) % BiosWindow = k
      BY <3>1, WindowOffset, RegionEnds
    <3> QED
      BY <3>2, <3>3 DEF k
  <2> QED
    BY <2>1, <2>2, <2>3 DEF Cell
<1>4. CASE /\ a \notin 0 .. RAM_ADDR_END
           /\ a \notin SCRATCHPAD_ADDR_START .. SCRATCHPAD_ADDR_END
           /\ a \notin BIOS_ADDR_START .. BIOS_ADDR_END
  BY <1>4, Regions
<1> QED
  BY <1>1, <1>2, <1>3, <1>4

\* The three widths.
LEMMA AlignedEnd ==
  ASSUME NEW len \in Width, NEW a \in Nat, a % len = 0, NEW size \in Nat
  PROVE  /\ size % 4 = 3 /\ a <= size => a + len - 1 <= size
         /\ size % 4 = 0 /\ a < size  => a + len - 1 < size
         /\ \A b \in Nat : b % 4 = 0 /\ b <= a => (a - b) % len = 0
PROOF
<1>1. CASE len = 1
  BY <1>1
<1>2. CASE len = 2
  BY <1>2
<1>3. CASE len = 4
  BY <1>3
<1> QED
  BY <1>1, <1>2, <1>3 DEF Width

\* A load of up to four bytes at any address of a region, aligned or not,
\* reads cells of the emu object.
LEMMA LoadInside ==
  ASSUME NEW a \in Nat, Region(a) # "unknown", NEW k \in 1 .. 4
  PROVE  Cell(a) + k - 1 \in HostCell
PROOF
<1>1. CASE Region(a) = "ram"
  BY <1>1, Cells, Layout
<1>2. CASE Region(a) = "scratchpad"
  BY <1>2, Cells, Layout
<1>3. CASE Region(a) = "bios"
  BY <1>3, Cells, Layout
<1> QED
  BY <1>1, <1>2, <1>3, Cells

\* An aligned store writes cells in front of the pointers.
LEMMA StoreInside ==
  ASSUME NEW len \in Width, NEW a \in Nat, a % len = 0, Writable(a)
  PROVE  /\ Cell(a) \in Nat
         /\ Cell(a) + len - 1 < pointers
PROOF
<1>1. CASE Region(a) = "ram"
  BY <1>1, Cells, Layout DEF Width
<1>2. CASE Region(a) = "scratchpad"
  <2> DEFINE k == a - SCRATCHPAD_ADDR_START
  <2>1. k \in 0 .. SCRATCHPAD_SIZE /\ Cell(a) = scratchpad + k
    BY <1>2, Cells
  <2>2. k % len = 0
    <3>1. SCRATCHPAD_ADDR_START \in Nat /\ SCRATCHPAD_ADDR_START % 4 = 0
          /\ SCRATCHPAD_ADDR_START <= a
      BY <2>1, RegionEnds
    <3> QED
      BY <3>1, AlignedEnd
  <2> HIDE DEF k
  <2>3. k + len - 1 <= SCRATCHPAD_SIZE
    BY <2>1, <2>2, AlignedEnd, RegionEnds, Layout
  <2> QED
    BY <2>1, <2>3, Layout DEF Width
<1> QED
  BY <1>1, <1>2 DEF Writable

(***************************************************************************)
(* Loads and stores.                                                       *)
(***************************************************************************)
\* A value of some width is a sequence of that length.
LEMMA BytesLen ==
  ASSUME NEW len \in Width, NEW val \in Bytes(len)
  PROVE  /\ val \in Seq(Byte) /\ Len(val) = len /\ DOMAIN val = 1 .. len
         /\ len \in Nat
PROOF
  BY DEF Bytes, Width

\* What a load returns is bytes, wherever it reads.
LEMMA LoadType ==
  ASSUME host \in [HostCell -> Byte], NEW a \in Nat, NEW len \in Width,
         NEW regions \in SUBSET {"ram", "scratchpad", "bios"}
  PROVE  load(a, len, regions) \in Bytes(len)
PROOF
<1>1. SUFFICES ASSUME NEW k \in 1 .. len
               PROVE  (IF Region(a) \in regions THEN host[Cell(a) + k - 1] ELSE Ones) \in Byte
  BY DEF load, Bytes
<1>2. CASE Region(a) \in regions
  <2>1. Region(a) # "unknown" /\ k \in 1 .. 4
    BY <1>2 DEF Width
  <2>2. Cell(a) + k - 1 \in HostCell
    BY <2>1, LoadInside
  <2> QED
    BY <1>2, <2>2
<1>3. CASE Region(a) \notin regions
  BY <1>3, BusAssumption
<1> QED
  BY <1>2, <1>3

\* A store keeps host a memory of bytes.
LEMMA StoredType ==
  ASSUME host \in [HostCell -> Byte], NEW a \in Nat, NEW len \in Width,
         NEW val \in Bytes(len)
  PROVE  Stored(a, val) \in [HostCell -> Byte]
PROOF
<1>1. Len(val) = len /\ len \in Nat /\ DOMAIN val = 1 .. len
  BY BytesLen
<1>2. Writable(a) => Cell(a) \in Int
  BY Cells, Layout, RegionEnds DEF Writable
<1>3. ASSUME NEW c \in HostCell, Writable(a), c - Cell(a) \in 0 .. len - 1
      PROVE  val[c - Cell(a) + 1] \in Byte
  <2>1. c \in Int
    BY Layout
  <2>2. c - Cell(a) + 1 \in 1 .. len
    BY <1>1, <1>2, <1>3, <2>1
  <2> QED
    BY <2>2 DEF Bytes
<1> QED
  BY <1>1, <1>3 DEF Stored

\* Cells outside the store keep their bytes, and those inside get theirs.
LEMMA StoredCells ==
  ASSUME host \in [HostCell -> Byte], NEW a \in Nat, Writable(a), NEW len \in Width,
         NEW val \in Bytes(len), NEW c \in HostCell
  PROVE  /\ c - Cell(a) \notin 0 .. len - 1 => Stored(a, val)[c] = host[c]
         /\ \A k \in 1 .. len : c = Cell(a) + k - 1 => Stored(a, val)[c] = val[k]
PROOF
<1>1. Len(val) = len /\ len \in Nat
  BY BytesLen
<1>2. Cell(a) \in Int
  BY Cells, Layout, RegionEnds DEF Writable
<1>3. Stored(a, val)[c] = IF c - Cell(a) \in 0 .. len - 1
                          THEN val[c - Cell(a) + 1] ELSE host[c]
  BY <1>1 DEF Stored
<1>4. ASSUME NEW k \in 1 .. len, c = Cell(a) + k - 1
      PROVE  c - Cell(a) \in 0 .. len - 1 /\ c - Cell(a) + 1 = k
  BY <1>1, <1>2, <1>4
<1> QED
  BY <1>3, <1>4

(***************************************************************************)
(* Type correctness.                                                       *)
(***************************************************************************)
\* Every load and store of bus.c stays inside the emu object, whatever the
\* physical address, also where a region's end is one too far.
THEOREM TypeCorrect == Spec => []TypeOK
PROOF
<1>1. Init => TypeOK
  <2> SUFFICES ASSUME Init PROVE TypeOK
    OBVIOUS
  <2>1. ASSUME NEW c \in HostCell
        PROVE  (CASE c - bios \in 0 .. BIOS_SIZE - 1 -> BiosImage[c - bios]
                  [] c >= pointers -> Ones
                  [] OTHER -> Zero) \in Byte
    BY BusAssumption
  <2>2. host \in [HostCell -> Byte]
    BY <2>1 DEF Init
  <2> QED
    BY <2>2 DEF Init, TypeOK
<1>2. TypeOK /\ [Next]_vars => TypeOK'
  <2> SUFFICES ASSUME TypeOK, [Next]_vars PROVE TypeOK'
    OBVIOUS
  <2>1. host \in [HostCell -> Byte]
    BY DEF TypeOK
  <2>2. ASSUME NEW a \in PhysAddr, NEW len \in Width, NEW val \in Bytes(len),
               NEW kind \in {"load", "store"}, Access(kind, a, val),
               host' \in [HostCell -> Byte]
        PROVE  TypeOK'
    BY <2>2 DEF Access, TypeOK, Bytes
  <2>3. ASSUME NEW a \in PhysAddr, NEW len \in Width,
               NEW regions \in SUBSET {"ram", "scratchpad", "bios"},
               Access("load", a, load(a, len, regions)), UNCHANGED host
        PROVE  TypeOK'
    <3>1. load(a, len, regions) \in Bytes(len)
      BY <2>1, LoadType, BusAssumption
    <3> QED
      BY <2>1, <2>2, <2>3, <3>1
  <2>4. CASE UNCHANGED vars
    BY <2>4 DEF vars, TypeOK
  <2>5. ASSUME NEW a \in PhysAddr, LoadWord(a) \/ PeekWord(a) PROVE TypeOK'
    BY <2>3, <2>5 DEF LoadWord, PeekWord, psycho_bus_peek_word, psycho_bus_load_word, Width
  <2>6. ASSUME NEW a \in PhysAddr, LoadHalfword(a) PROVE TypeOK'
    BY <2>3, <2>6 DEF LoadHalfword, psycho_bus_load_halfword, Width
  <2>7. ASSUME NEW a \in PhysAddr, LoadByte(a) PROVE TypeOK'
    BY <2>3, <2>7 DEF LoadByte, psycho_bus_load_byte, Width
  <2>8. ASSUME NEW a \in PhysAddr, NEW len \in Width, Store(a, len) PROVE TypeOK'
    <3>1. PICK val \in Bytes(len) : Access("store", a, val) /\ host' = Stored(a, val)
      BY <2>8 DEF Store
    <3>2. host' \in [HostCell -> Byte]
      BY <3>1, <2>1, StoredType, BusAssumption
    <3> QED
      BY <3>1, <3>2, <2>2
  <2> QED
    BY <2>4, <2>5, <2>6, <2>7, <2>8 DEF Next
<1> QED
  BY <1>1, <1>2, PTL DEF Spec

(***************************************************************************)
(* The pointers behind the scratchpad.                                     *)
(***************************************************************************)
\* One aligned store does not reach them.
LEMMA StoreSparesPointers ==
  ASSUME host \in [HostCell -> Byte], PointersIntact, NEW a \in Nat, NEW len \in Width,
         a % len = 0, NEW val \in Bytes(len)
  PROVE  \A c \in HostCell : c >= pointers => Stored(a, val)[c] = Ones
PROOF
<1>1. CASE ~ Writable(a)
  BY <1>1 DEF Stored, PointersIntact
<1>2. CASE Writable(a)
  <2>1. SUFFICES ASSUME NEW c \in HostCell, c >= pointers
                 PROVE  Stored(a, val)[c] = host[c]
    BY DEF PointersIntact
  <2>2. Cell(a) \in Nat /\ Cell(a) + len - 1 < pointers
    BY <1>2, StoreInside
  <2>3. c \in Nat /\ pointers \in Nat /\ len \in Nat
    BY Layout DEF Width
  <2>4. c - Cell(a) \notin 0 .. len - 1
    BY <2>1, <2>2, <2>3
  <2> QED
    BY <1>2, <2>4, StoredCells
<1> QED
  BY <1>1, <1>2

\* No store of bus.c, however the region ends are counted, overwrites the
\* pointers bus.bios and bus.ram that follow the scratchpad in the context.
THEOREM PointersSafe == Spec => []PointersIntact
PROOF
<1>1. Init => PointersIntact
  <2> SUFFICES ASSUME Init, NEW c \in HostCell, c >= pointers PROVE host[c] = Ones
    BY DEF PointersIntact
  <2>1. c - bios \notin 0 .. BIOS_SIZE - 1
    BY Layout
  <2> QED
    BY <2>1 DEF Init
<1>2. TypeOK /\ PointersIntact /\ [Next]_vars => PointersIntact'
  <2> SUFFICES ASSUME TypeOK, PointersIntact, [Next]_vars PROVE PointersIntact'
    OBVIOUS
  <2>1. CASE UNCHANGED host
    BY <2>1 DEF PointersIntact
  <2>2. ASSUME NEW a \in PhysAddr, NEW len \in Width, Store(a, len)
        PROVE  PointersIntact'
    <3>1. PICK val \in Bytes(len) : host' = Stored(a, val)
      BY <2>2 DEF Store
    <3>2. a \in Nat /\ a % len = 0
      BY <2>2, BusAssumption DEF Store
    <3> QED
      BY <3>1, <3>2, StoreSparesPointers DEF TypeOK, PointersIntact
  <2> QED
    BY <2>1, <2>2 DEF Next, vars, LoadWord, LoadHalfword, LoadByte, PeekWord
<1> QED
  BY <1>1, <1>2, TypeCorrect, PTL DEF Spec

(***************************************************************************)
(* Reading back.                                                           *)
(***************************************************************************)
\* What a store to a writable address leaves in its cells.
LEMMA StoredReadBack ==
  ASSUME host \in [HostCell -> Byte], NEW a \in Nat, NEW len \in Width, Writable(a),
         NEW val \in Bytes(len), NEW k \in 1 .. len
  PROVE  Stored(a, val)[Cell(a) + k - 1] = val[k]
PROOF
<1>1. Region(a) # "unknown" /\ k \in 1 .. 4
  BY DEF Writable, Width
<1>2. Cell(a) + k - 1 \in HostCell
  BY <1>1, LoadInside
<1> QED
  BY <1>2, StoredCells

\* What bus.c stores in RAM or the scratchpad is what the load of the same
\* width returns, also where the store reaches past the region.
THEOREM StoresReadBack == Spec => []ReadBack
PROOF
<1>1. Init => ReadBack
  BY DEF Init, ReadBack
<1>2. TypeOK /\ ReadBack /\ [Next]_vars => ReadBack'
  <2> SUFFICES ASSUME TypeOK, ReadBack, [Next]_vars PROVE ReadBack'
    OBVIOUS
  <2>1. CASE UNCHANGED vars
    BY <2>1 DEF vars, ReadBack, psycho_bus_load_word, psycho_bus_load_halfword,
                psycho_bus_load_byte, load
  <2>2. CASE last'.kind = "load"
    BY <2>2 DEF ReadBack
  <2>3. ASSUME NEW a \in PhysAddr, NEW len \in Width, Store(a, len)
        PROVE  ReadBack'
    <3>1. PICK val \in Bytes(len) : Access("store", a, val) /\ host' = Stored(a, val)
      BY <2>3 DEF Store
    <3>2. a \in Nat /\ host \in [HostCell -> Byte]
      BY BusAssumption DEF TypeOK
    <3>3. last'.addr = a /\ last'.val = val
      BY <3>1 DEF Access
    <3>4. Len(val) = len /\ val = [k \in 1 .. len |-> val[k]]
      BY BytesLen DEF Bytes
    <3>5. ASSUME Writable(a), NEW regions, {"ram", "scratchpad"} \subseteq regions
          PROVE  load(a, len, regions)' = val
      <4>1. Region(a) \in regions
        BY <3>5 DEF Writable
      <4>2. load(a, len, regions)' = [k \in 1 .. len |-> Stored(a, val)[Cell(a) + k - 1]]
        BY <3>1, <4>1 DEF load
      <4>3. \A k \in 1 .. len : Stored(a, val)[Cell(a) + k - 1] = val[k]
        BY <3>2, <3>5, StoredReadBack
      <4> QED
        BY <4>2, <4>3, <3>4
    <3>6. CASE len = 4
      BY <3>3, <3>4, <3>5, <3>6 DEF ReadBack, psycho_bus_load_word
    <3>7. CASE len = 2
      BY <3>3, <3>4, <3>5, <3>7 DEF ReadBack, psycho_bus_load_halfword
    <3>8. CASE len = 1
      BY <3>3, <3>4, <3>5, <3>8 DEF ReadBack, psycho_bus_load_byte
    <3> QED
      BY <3>6, <3>7, <3>8 DEF Width
  <2>4. \/ UNCHANGED vars
        \/ last'.kind = "load"
        \/ \E a \in PhysAddr, len \in Width : Store(a, len)
    BY DEF Next, LoadWord, LoadHalfword, LoadByte, PeekWord, Access
  <2> QED
    BY <2>1, <2>2, <2>3, <2>4
<1> QED
  BY <1>1, <1>2, TypeCorrect, PTL DEF Spec

(***************************************************************************)
(* What a store leaves alone.                                              *)
(***************************************************************************)
\* A byte that a store changes is one of its own, or is seen through the
\* one address RAM has too many.
LEMMA StoreAliases ==
  ASSUME NEW len \in Width, NEW p \in Nat, p % len = 0, Writable(p),
         NEW a \in Nat, Region(a) # "unknown", Cell(a) - Cell(p) \in 0 .. len - 1
  PROVE  \/ a - p \in 0 .. len - 1
         \/ p = RAM_ADDR_END /\ a - BIOS_ADDR_START \in 0 .. len - 1
PROOF
<1>1. len \in 1 .. 4
  BY DEF Width
<1>2. CASE Region(p) = "ram"
  <2>1. p <= RAM_ADDR_END /\ Cell(p) = p
    BY <1>2, Cells
  <2>2. p < RAM_ADDR_END => p + len - 1 < RAM_ADDR_END
    BY AlignedEnd, Layout
  <2>3. CASE Region(a) = "ram"
    BY <2>1, <2>3, Cells
  <2>4. CASE Region(a) = "scratchpad"
    BY <1>1, <2>1, <2>4, Cells, Layout
  <2>5. CASE Region(a) = "bios"
    <3>1. a - BIOS_ADDR_START \in 0 .. BIOS_SIZE /\ Cell(a) = RAM_ADDR_END + (a - BIOS_ADDR_START)
      BY <2>5, Cells, Layout
    <3>2. p = RAM_ADDR_END
      BY <1>1, <2>1, <2>2, <3>1, Layout, RegionEnds
    <3> QED
      BY <2>1, <3>1, <3>2, RegionEnds
  <2> QED
    BY <2>3, <2>4, <2>5, Cells
<1>3. CASE Region(p) = "scratchpad"
  <2>1. /\ p - SCRATCHPAD_ADDR_START \in 0 .. SCRATCHPAD_SIZE
        /\ Cell(p) = scratchpad + (p - SCRATCHPAD_ADDR_START)
    BY <1>3, Cells
  <2>2. CASE Region(a) = "ram"
    BY <1>1, <2>1, <2>2, Cells, Layout, RegionEnds
  <2>3. CASE Region(a) = "scratchpad"
    BY <2>1, <2>3, Cells, Layout, RegionEnds
  <2>4. CASE Region(a) = "bios"
    BY <1>1, <2>1, <2>4, Cells, Layout, RegionEnds
  <2> QED
    BY <2>2, <2>3, <2>4, Cells
<1> QED
  BY <1>2, <1>3 DEF Writable

\* A store of bus.c changes the bytes at its own addresses and no other,
\* except that one at RAM_ADDR_END changes the BIOS.
THEOREM StoresFramed == Spec => StoreFrame
PROOF
<1> DEFINE P == \A a \in PhysAddr :
                  psycho_bus_load_byte(a)' # psycho_bus_load_byte(a) =>
                    \/ a - last'.addr \in 0 .. Len(last'.val) - 1
                    \/ /\ last'.addr = RAM_ADDR_END
                       /\ a - BIOS_ADDR_START \in 0 .. Len(last'.val) - 1
<1>1. TypeOK /\ [Next]_vars => [P]_vars
  <2> SUFFICES ASSUME TypeOK, Next PROVE P
    OBVIOUS
  <2>1. CASE UNCHANGED host
    BY <2>1 DEF psycho_bus_load_byte, load
  <2>2. ASSUME NEW p \in PhysAddr, NEW len \in Width, Store(p, len)
        PROVE  P
    <3> SUFFICES ASSUME NEW a \in PhysAddr,
                        psycho_bus_load_byte(a)' # psycho_bus_load_byte(a)
                 PROVE  \/ a - last'.addr \in 0 .. Len(last'.val) - 1
                        \/ /\ last'.addr = RAM_ADDR_END
                           /\ a - BIOS_ADDR_START \in 0 .. Len(last'.val) - 1
      OBVIOUS
    <3>1. PICK val \in Bytes(len) : Access("store", p, val) /\ host' = Stored(p, val)
      BY <2>2 DEF Store
    <3>2. last'.addr = p /\ Len(last'.val) = len
      BY <3>1, BytesLen DEF Access
    <3>3. /\ p \in Nat /\ a \in Nat /\ p % len = 0
          /\ host \in [HostCell -> Byte]
      BY <2>2, BusAssumption DEF Store, TypeOK
    <3>4. Region(a) # "unknown" /\ host'[Cell(a) + 1 - 1] # host[Cell(a) + 1 - 1]
      BY <3>3, Cells DEF psycho_bus_load_byte, load
    <3>5. Cell(a) + 1 - 1 \in HostCell
      BY <3>3, <3>4, LoadInside
    <3>6. Cell(a) + 1 - 1 = Cell(a)
      BY <3>3, <3>4, Cells, Layout, RegionEnds
    <3>7. Writable(p)
      BY <3>1, <3>4 DEF Stored
    <3>8. Cell(a) - Cell(p) \in 0 .. len - 1
      BY <3>1, <3>3, <3>4, <3>5, <3>6, <3>7, StoredCells
    <3> QED
      BY <3>2, <3>3, <3>4, <3>7, <3>8, StoreAliases
  <2> QED
    BY <2>1, <2>2 DEF Next, LoadWord, LoadHalfword, LoadByte, PeekWord
<1> QED
  BY <1>1, TypeCorrect, PTL DEF Spec, StoreFrame

(***************************************************************************)
(* The three widths.                                                       *)
(***************************************************************************)
\* Appending a single byte.
LEMMA JoinedByte ==
  ASSUME NEW s \in Seq(Byte), NEW t \in Bytes(1)
  PROVE  /\ s \o t \in Seq(Byte)
         /\ Len(s \o t) = Len(s) + 1
         /\ \A k \in 1 .. Len(s) : (s \o t)[k] = s[k]
         /\ (s \o t)[Len(s) + 1] = t[1]
PROOF
<1>1. t \in Seq(Byte) /\ Len(t) = 1
  BY BytesLen DEF Width
<1>2. Len(s) \in Nat
  BY LenProperties
<1>3. /\ s \o t \in Seq(Byte)
      /\ Len(s \o t) = Len(s) + Len(t)
      /\ \A i \in 1 .. Len(s) + Len(t) :
           (s \o t)[i] = IF i <= Len(s) THEN s[i] ELSE t[i - Len(s)]
  BY <1>1, ConcatProperties
<1>4. (s \o t)[Len(s) + 1] = t[(Len(s) + 1) - Len(s)]
  BY <1>1, <1>2, <1>3
<1>5. (Len(s) + 1) - Len(s) = 1
  BY <1>2
<1> QED
  BY <1>1, <1>2, <1>3, <1>4, <1>5

\* The addresses behind an aligned one are in its region, in the next cells.
LEMMA NextCells ==
  ASSUME NEW len \in Width, NEW a \in Nat, a % len = 0, a # RAM_ADDR_END,
         Region(a) # "unknown", NEW k \in 0 .. len - 1
  PROVE  Region(a + k) = Region(a) /\ Cell(a + k) = Cell(a) + k
PROOF
<1> DEFINE x == a + k
<1>1. k \in Nat /\ x \in Nat /\ x = a + k /\ len \in 1 .. 4 /\ k <= len - 1
  BY DEF Width
<1> HIDE DEF x
<1>2. CASE Region(a) = "ram"
  <2>1. a < RAM_ADDR_END /\ Cell(a) = a
    BY <1>2, Cells, RegionEnds
  <2>2. a + len - 1 < RAM_ADDR_END
    BY <2>1, AlignedEnd, Layout
  <2>3. x \in 0 .. RAM_ADDR_END
    BY <1>1, <2>2, RegionEnds
  <2>4. Region(x) = "ram"
    BY <1>1, <2>3, Regions
  <2> QED
    BY <1>1, <1>2, <2>1, <2>4, Cells DEF x
<1>3. CASE Region(a) = "scratchpad"
  <2> DEFINE s == a - SCRATCHPAD_ADDR_START
  <2>1. s \in 0 .. SCRATCHPAD_SIZE /\ Cell(a) = scratchpad + s
    BY <1>3, Cells
  <2>2. s % len = 0
    <3>1. SCRATCHPAD_ADDR_START <= a
      BY <2>1, RegionEnds
    <3> QED
      BY <3>1, AlignedEnd, RegionEnds
  <2>3. s + len - 1 <= SCRATCHPAD_SIZE
    <3> HIDE DEF s
    <3> QED
      BY <2>1, <2>2, AlignedEnd, RegionEnds, Layout
  <2>4. x \in SCRATCHPAD_ADDR_START .. SCRATCHPAD_ADDR_END
    BY <1>1, <2>1, <2>3, RegionEnds, Layout
  <2>5. Region(x) = "scratchpad" /\ Cell(x) = scratchpad + (x - SCRATCHPAD_ADDR_START)
    BY <1>1, <2>4, Regions, Cells
  <2> QED
    BY <1>1, <1>3, <2>1, <2>5, RegionEnds, Layout DEF x
<1>4. CASE Region(a) = "bios"
  <2> DEFINE s == a - BIOS_ADDR_START
  <2>1. s \in 0 .. BIOS_SIZE /\ Cell(a) = bios + s
    BY <1>4, Cells
  <2>2. s % len = 0
    <3>1. BIOS_ADDR_START <= a
      BY <2>1, RegionEnds
    <3> QED
      BY <3>1, AlignedEnd, RegionEnds
  <2>3. s + len - 1 <= BIOS_SIZE
    <3> HIDE DEF s
    <3> QED
      BY <2>1, <2>2, AlignedEnd, RegionEnds, Layout
  <2>4. x \in BIOS_ADDR_START .. BIOS_ADDR_END
    BY <1>1, <2>1, <2>3, RegionEnds, Layout
  <2>5. Region(x) = "bios" /\ Cell(x) = bios + (x - BIOS_ADDR_START)
    BY <1>1, <2>4, Regions, Cells
  <2> QED
    BY <1>1, <1>4, <2>1, <2>5, RegionEnds, Layout DEF x
<1> QED
  BY <1>2, <1>3, <1>4, Cells

\* Byte k of an aligned load is the byte load k addresses on, for a width
\* that knows the region.
LEMMA ByteOfLoad ==
  ASSUME host \in [HostCell -> Byte], NEW len \in Width, NEW a \in Nat, a % len = 0,
         a # RAM_ADDR_END, NEW regions \in SUBSET {"ram", "scratchpad", "bios"},
         Region(a) \in regions, NEW k \in 0 .. len - 1
  PROVE  /\ psycho_bus_load_byte(a + k) \in Bytes(1)
         /\ load(a, len, regions)[k + 1] = psycho_bus_load_byte(a + k)[1]
PROOF
<1>1. k \in Nat /\ a + k \in Nat /\ k + 1 \in 1 .. len
  BY DEF Width
<1>2. Region(a + k) = Region(a) /\ Cell(a + k) = Cell(a) + k
  BY NextCells
<1>3. Cell(a) \in Int
  BY Cells, Layout, RegionEnds
<1>4. psycho_bus_load_byte(a + k) \in Bytes(1)
  BY <1>1, LoadType DEF psycho_bus_load_byte, Width
<1>5. load(a, len, regions)[k + 1] = host[Cell(a) + (k + 1) - 1]
  BY <1>1 DEF load
<1>6. psycho_bus_load_byte(a + k)[1] = host[Cell(a + k) + 1 - 1]
  <2> DEFINE x == a + k
  <2>1. Region(x) \in {"ram", "scratchpad", "bios"}
    BY <1>2
  <2> HIDE DEF x
  <2>2. psycho_bus_load_byte(x)[1] = host[Cell(x) + 1 - 1]
    BY <2>1 DEF psycho_bus_load_byte, load
  <2> QED
    BY <2>2 DEF x
<1>7. Cell(a) + (k + 1) - 1 = Cell(a + k) + 1 - 1
  BY <1>1, <1>2, <1>3
<1> QED
  BY <1>4, <1>5, <1>6, <1>7

\* An aligned word and its bytes, in a region or outside of all of them.
LEMMA WordBytes ==
  ASSUME host \in [HostCell -> Byte], NEW a \in Nat, a % 4 = 0, a # RAM_ADDR_END, NEW k \in 0 .. 3
  PROVE  psycho_bus_load_word(a)[k + 1] = psycho_bus_load_byte(a + k)[1]
PROOF
<1> DEFINE all == {"ram", "scratchpad", "bios"}
           x == a + k
<1>1. CASE Region(a) \in all
  <2>1. 4 \in Width /\ k \in 0 .. 4 - 1
    BY DEF Width
  <2> QED
    BY <1>1, <2>1, ByteOfLoad DEF psycho_bus_load_word
<1>2. CASE Region(a) \notin all
  <2>1. /\ a \notin 0 .. RAM_ADDR_END
        /\ a \notin SCRATCHPAD_ADDR_START .. SCRATCHPAD_ADDR_END
        /\ a \notin BIOS_ADDR_START .. BIOS_ADDR_END
    BY <1>2, Regions
  <2>2. x \in Nat /\ x = a + k /\ k <= 3 /\ k >= 0
    OBVIOUS
  <2>3. /\ RAM_ADDR_END \in Nat
        /\ SCRATCHPAD_ADDR_START \in Nat /\ SCRATCHPAD_ADDR_START % 4 = 0
        /\ BIOS_ADDR_START \in Nat /\ BIOS_ADDR_START % 4 = 0
        /\ SCRATCHPAD_ADDR_END \in Nat /\ BIOS_ADDR_END \in Nat
    BY RegionEnds, Layout
  <2> HIDE DEF x
  <2>4. /\ x \notin 0 .. RAM_ADDR_END
        /\ x \notin SCRATCHPAD_ADDR_START .. SCRATCHPAD_ADDR_END
        /\ x \notin BIOS_ADDR_START .. BIOS_ADDR_END
    BY <2>1, <2>2, <2>3
  <2>5. Region(x) \notin all
    BY <2>2, <2>4, Regions
  <2>6. psycho_bus_load_byte(x)[1] = Ones
    BY <2>5 DEF psycho_bus_load_byte, load
  <2>7. psycho_bus_load_word(a)[k + 1] = Ones
    BY <1>2 DEF psycho_bus_load_word, load
  <2> QED
    BY <2>6, <2>7 DEF x
<1> QED
  BY <1>1, <1>2

\* The word, halfword and byte accesses of bus.c see one memory, in all of
\* which RAM, scratchpad and BIOS take part, except for halfwords in the BIOS.
THEOREM WidthsOfOneMemory == Spec => []WidthsAgree
PROOF
<1>1. TypeOK => WidthsAgree
  <2> SUFFICES ASSUME TypeOK, NEW a \in PhysAddr
               PROVE  /\ a % 2 = 0 /\ Region(a) \in {"ram", "scratchpad"} /\ a # RAM_ADDR_END =>
                           psycho_bus_load_halfword(a) =
                             psycho_bus_load_byte(a) \o psycho_bus_load_byte(a + 1)
                      /\ a % 4 = 0 /\ Region(a) # "unknown" /\ a # RAM_ADDR_END =>
                           psycho_bus_load_word(a) =
                             psycho_bus_load_byte(a) \o psycho_bus_load_byte(a + 1)
                               \o psycho_bus_load_byte(a + 2) \o psycho_bus_load_byte(a + 3)
    BY DEF WidthsAgree
  <2> DEFINE b(k) == psycho_bus_load_byte(a + k)
  <2>1. host \in [HostCell -> Byte] /\ a \in Nat /\ a + 0 = a
    BY BusAssumption DEF TypeOK
  <2>2. ASSUME a % 2 = 0, Region(a) \in {"ram", "scratchpad"}, a # RAM_ADDR_END
        PROVE  psycho_bus_load_halfword(a) = b(0) \o b(1)
    <3> DEFINE h == psycho_bus_load_halfword(a)
    <3>1. h \in Bytes(2)
      BY <2>1, LoadType DEF psycho_bus_load_halfword, Width
    <3>2. /\ b(0) \in Bytes(1) /\ h[0 + 1] = b(0)[1]
          /\ b(1) \in Bytes(1) /\ h[1 + 1] = b(1)[1]
      BY <2>1, <2>2, ByteOfLoad DEF psycho_bus_load_halfword, Width
    <3> HIDE DEF b, h
    <3>3. /\ h \in Seq(Byte) /\ Len(h) = 2
          /\ b(0) \in Seq(Byte) /\ Len(b(0)) = 1
      BY <3>1, <3>2, BytesLen DEF Width
    <3>4. /\ b(0) \o b(1) \in Seq(Byte) /\ Len(b(0) \o b(1)) = 2
          /\ (b(0) \o b(1))[1] = h[1] /\ (b(0) \o b(1))[2] = h[2]
      BY <3>2, <3>3, JoinedByte
    <3> QED
      BY <3>3, <3>4, SeqEqual DEF h
  <2>3. ASSUME a % 4 = 0, Region(a) # "unknown", a # RAM_ADDR_END
        PROVE  psycho_bus_load_word(a) = b(0) \o b(1) \o b(2) \o b(3)
    <3> DEFINE w == psycho_bus_load_word(a)
               s2 == b(0) \o b(1)
               s3 == s2 \o b(2)
               s4 == s3 \o b(3)
    <3>1. w \in Bytes(4) /\ Region(a) \in {"ram", "scratchpad", "bios"}
      BY <2>1, <2>3, LoadType, Cells DEF psycho_bus_load_word, Width
    <3>2. ASSUME NEW k \in 0 .. 3 PROVE b(k) \in Bytes(1) /\ w[k + 1] = b(k)[1]
      BY <2>1, <2>3, <3>1, ByteOfLoad DEF psycho_bus_load_word, Width
    <3>3. /\ b(0) \in Bytes(1) /\ b(0)[1] = w[1] /\ b(1) \in Bytes(1) /\ b(1)[1] = w[2]
          /\ b(2) \in Bytes(1) /\ b(2)[1] = w[3] /\ b(3) \in Bytes(1) /\ b(3)[1] = w[4]
      <4> HIDE DEF b, w
      <4>1. /\ b(0) \in Bytes(1) /\ w[0 + 1] = b(0)[1]
            /\ b(1) \in Bytes(1) /\ w[1 + 1] = b(1)[1]
            /\ b(2) \in Bytes(1) /\ w[2 + 1] = b(2)[1]
            /\ b(3) \in Bytes(1) /\ w[3 + 1] = b(3)[1]
        BY <3>2
      <4> QED
        BY <4>1
    <3> HIDE DEF b, w, s2, s3, s4
    <3>4. /\ w \in Seq(Byte) /\ Len(w) = 4
          /\ b(0) \in Seq(Byte) /\ Len(b(0)) = 1
      BY <3>1, <3>3, BytesLen DEF Width
    <3>5. s2 \in Seq(Byte) /\ Len(s2) = 2 /\ s2[1] = w[1] /\ s2[2] = w[2]
      <4>1. /\ s2 \in Seq(Byte) /\ Len(s2) = Len(b(0)) + 1
            /\ \A k \in 1 .. Len(b(0)) : s2[k] = b(0)[k]
            /\ s2[Len(b(0)) + 1] = b(1)[1]
        BY <3>3, <3>4, JoinedByte DEF s2
      <4> QED
        BY <3>3, <3>4, <4>1
    <3>6. /\ s3 \in Seq(Byte) /\ Len(s3) = 3
          /\ s3[1] = w[1] /\ s3[2] = w[2] /\ s3[3] = w[3]
      <4>1. /\ s3 \in Seq(Byte) /\ Len(s3) = Len(s2) + 1
            /\ \A k \in 1 .. Len(s2) : s3[k] = s2[k]
            /\ s3[Len(s2) + 1] = b(2)[1]
        BY <3>3, <3>5, JoinedByte DEF s3
      <4> QED
        BY <3>3, <3>5, <4>1
    <3>7. /\ s4 \in Seq(Byte) /\ Len(s4) = 4
          /\ s4[1] = w[1] /\ s4[2] = w[2] /\ s4[3] = w[3] /\ s4[4] = w[4]
      <4>1. /\ s4 \in Seq(Byte) /\ Len(s4) = Len(s3) + 1
            /\ \A k \in 1 .. Len(s3) : s4[k] = s3[k]
            /\ s4[Len(s3) + 1] = b(3)[1]
        BY <3>3, <3>6, JoinedByte DEF s4
      <4> QED
        BY <3>3, <3>6, <4>1
    <3>8. w = s4
      BY <3>4, <3>7, SeqEqual
    <3> QED
      BY <3>8 DEF w, s4, s3, s2
  <2> QED
    BY <2>1, <2>2, <2>3
<1> QED
  BY <1>1, TypeCorrect, PTL
=============================================================================

-------------------------------- MODULE Bus --------------------------------
(***************************************************************************)
(* The memory map of psycho, core/bus.c, on the host memory it runs in.    *)
(*                                                                         *)
(* host is the storage of the application's emu object (app/main.c:44):    *)
(* ram, bios, a padding byte, and the context, which starts with the       *)
(* scratchpad, a padding byte and the pointers bus.bios and bus.ram.  A    *)
(* load or store is a memcpy between it and a value, here the sequence of  *)
(* the value's bytes.  The region ends of bus.h are inclusive, so the      *)
(* sizes derived from them are one short and RAM has one address too many; *)
(* what those addresses reach is decided by the layout below.              *)
(***************************************************************************)
EXTENDS Integers, Sequences

CONSTANTS
  Byte, Zero, Ones,          \* the u8 values, 0x00 and 0xFF among them
  PhysAddr,                  \* the physical addresses tried
  RAM_ADDR_END,              \* 0x00200000; RAM_ADDR_START is 0
  BIOS_ADDR_START,           \* 0x1FC00000
  BIOS_ADDR_END,             \* 0x1FC7FFFF
  SCRATCHPAD_ADDR_START,     \* 0x1F800000
  SCRATCHPAD_ADDR_END,       \* 0x1F8003FF
  BiosWindow,                \* 0x00100000: paddr & 0x000FFFFF
  ScratchpadWindow,          \* 0x00001000: paddr & 0x00000FFF
  PtrBytes,                  \* the size of bus.bios and bus.ram together
  BiosImage                  \* what load_bios_file read into emu.bios

RAM_SIZE        == RAM_ADDR_END
BIOS_SIZE       == BIOS_ADDR_END - BIOS_ADDR_START
SCRATCHPAD_SIZE == SCRATCHPAD_ADDR_END - SCRATCHPAD_ADDR_START

ASSUME BusAssumption ==
  /\ Zero \in Byte /\ Ones \in Byte
  /\ PhysAddr \subseteq Nat
  /\ RAM_ADDR_END \in Nat \ {0} /\ RAM_ADDR_END % 4 = 0
  /\ SCRATCHPAD_ADDR_END \in Nat /\ BIOS_ADDR_END \in Nat
  /\ SCRATCHPAD_ADDR_START \in Nat /\ SCRATCHPAD_ADDR_START > RAM_ADDR_END
  /\ SCRATCHPAD_ADDR_START % 4 = 0
  /\ SCRATCHPAD_SIZE \in Nat /\ SCRATCHPAD_SIZE % 4 = 3
  /\ BIOS_ADDR_START \in Nat /\ BIOS_ADDR_START > SCRATCHPAD_ADDR_END
  /\ BIOS_ADDR_START % 4 = 0
  /\ BIOS_SIZE \in Nat /\ BIOS_SIZE % 4 = 3
  /\ ScratchpadWindow \in Nat /\ ScratchpadWindow > SCRATCHPAD_SIZE
  /\ SCRATCHPAD_ADDR_START % ScratchpadWindow = 0
  /\ BiosWindow \in Nat /\ BiosWindow > BIOS_SIZE
  /\ BIOS_ADDR_START % BiosWindow = 0
  /\ PtrBytes \in Nat /\ PtrBytes >= 4
  /\ BiosImage \in [0 .. BIOS_SIZE - 1 -> Byte]

VARIABLES
  host,   \* the bytes of the emu object
  last    \* ghost: the last access

vars == <<host, last>>

(***************************************************************************)
(* The layout of the emu object.                                           *)
(***************************************************************************)
ram        == 0
bios       == RAM_SIZE
scratchpad == bios + BIOS_SIZE + 1
pointers   == scratchpad + SCRATCHPAD_SIZE + 1

HostCell == 0 .. pointers + PtrBytes - 1

Region(paddr) ==
  CASE paddr \in 0 .. RAM_ADDR_END -> "ram"
    [] paddr \in SCRATCHPAD_ADDR_START .. SCRATCHPAD_ADDR_END -> "scratchpad"
    [] paddr \in BIOS_ADDR_START .. BIOS_ADDR_END -> "bios"
    [] OTHER -> "unknown"

\* Mutant: the scratchpad is indexed from one.
MutCell(paddr) ==
  CASE Region(paddr) = "scratchpad" -> scratchpad + (paddr % ScratchpadWindow) + 1
    [] Region(paddr) = "bios"       -> bios + (paddr % BiosWindow)
    [] OTHER                        -> ram + paddr

\* The cell that &ram[paddr], &scratchpad[...] or &bios[...] points to.
Cell(paddr) ==
  CASE Region(paddr) = "scratchpad" -> scratchpad + (paddr % ScratchpadWindow)
    [] Region(paddr) = "bios"       -> bios + (paddr % BiosWindow)
    [] OTHER                        -> ram + paddr

(***************************************************************************)
(* Loads: the regions each width knows, and all ones elsewhere.            *)
(***************************************************************************)
\* Mutant: an unknown load returns the uninitialised local.
MutLoad(paddr, len, regions) ==
  [k \in 1 .. len |->
     IF Region(paddr) \in regions THEN host[Cell(paddr) + k - 1] ELSE "uninitialised"]

load(paddr, len, regions) ==
  [k \in 1 .. len |->
     IF Region(paddr) \in regions THEN host[Cell(paddr) + k - 1] ELSE Ones]

psycho_bus_load_word(paddr) == load(paddr, 4, {"ram", "scratchpad", "bios"})

\* Mutant: a halfword load takes its second byte for a copy of the first.
MutLoadHalfword(paddr) ==
  [k \in 1 .. 2 |-> load(paddr, 2, {"ram", "scratchpad"})[1]]

\* Halfword loads do not know the BIOS.
psycho_bus_load_halfword(paddr) == load(paddr, 2, {"ram", "scratchpad"})

psycho_bus_load_byte(paddr) == load(paddr, 1, {"ram", "scratchpad", "bios"})

psycho_bus_peek_word(paddr) == psycho_bus_load_word(paddr)

(***************************************************************************)
(* Stores: to RAM and the scratchpad; ignored elsewhere.                   *)
(***************************************************************************)
Writable(paddr) == Region(paddr) \in {"ram", "scratchpad"}

\* Mutant: a store copies four bytes whatever its width.
MutStored(paddr, val) ==
  IF ~ Writable(paddr) THEN host
  ELSE [c \in HostCell |->
          IF c - Cell(paddr) \in 0 .. 3
          THEN val[((c - Cell(paddr)) % Len(val)) + 1] ELSE host[c]]

\* The host memory after memcpy(&region[...], &val, sizeof(val)).
Stored(paddr, val) ==
  IF ~ Writable(paddr) THEN host
  ELSE [c \in HostCell |->
          IF c - Cell(paddr) \in 0 .. Len(val) - 1
          THEN val[c - Cell(paddr) + 1] ELSE host[c]]

(***************************************************************************)
(* The calls.  The CPU only asks for aligned accesses (BusAligned in Cpu); *)
(* the disassembler peeks at whatever the PC is.                           *)
(***************************************************************************)
Width == {1, 2, 4}

Bytes(len) == [1 .. len -> Byte]

Access(kind, paddr, val) ==
  last' = [kind |-> kind, addr |-> paddr, val |-> val]

Init ==
  /\ host = [c \in HostCell |->
               CASE c - bios \in 0 .. BIOS_SIZE - 1 -> BiosImage[c - bios]
                 [] c >= pointers -> Ones
                 [] OTHER -> Zero]
  /\ last = [kind |-> "load", addr |-> 0, val |-> << >>]

LoadWord(paddr) ==
  /\ paddr % 4 = 0
  /\ Access("load", paddr, psycho_bus_load_word(paddr))
  /\ UNCHANGED host

LoadHalfword(paddr) ==
  /\ paddr % 2 = 0
  /\ Access("load", paddr, psycho_bus_load_halfword(paddr))
  /\ UNCHANGED host

LoadByte(paddr) ==
  /\ Access("load", paddr, psycho_bus_load_byte(paddr))
  /\ UNCHANGED host

PeekWord(paddr) ==
  /\ Access("load", paddr, psycho_bus_peek_word(paddr))
  /\ UNCHANGED host

Store(paddr, len) ==
  /\ paddr % len = 0
  /\ \E val \in Bytes(len) :
       /\ Access("store", paddr, val)
       /\ host' = Stored(paddr, val)

Next ==
  \E paddr \in PhysAddr :
    \/ LoadWord(paddr) \/ LoadHalfword(paddr) \/ LoadByte(paddr) \/ PeekWord(paddr)
    \/ \E len \in Width : Store(paddr, len)

Spec == Init /\ [][Next]_vars

(***************************************************************************)
(* Properties.                                                             *)
(***************************************************************************)
\* Type invariant: the emu object holds bytes and every access stayed
\* inside it.
TypeOK ==
  /\ host \in [HostCell -> Byte]
  /\ last.kind \in {"load", "store"}
  /\ last.addr \in PhysAddr \cup {0}
  /\ \A k \in DOMAIN last.val : last.val[k] \in Byte

\* The pointers that follow the scratchpad in the context survive every
\* store: the byte of padding and the alignment of the accesses make up for
\* the inclusive region end.
PointersIntact == \A c \in HostCell : c >= pointers => host[c] = Ones

\* What was stored in RAM or the scratchpad is what a load of the same width
\* returns next.
ReadBack ==
  last.kind = "store" /\ Writable(last.addr) =>
    last.val = CASE Len(last.val) = 4 -> psycho_bus_load_word(last.addr)
                 [] Len(last.val) = 2 -> psycho_bus_load_halfword(last.addr)
                 [] OTHER -> psycho_bus_load_byte(last.addr)

\* A store changes no byte outside its own addresses, with one exception:
\* at RAM_ADDR_END, the address behind RAM, it changes the first bytes of
\* the BIOS.
StoreFrame ==
  [][ \A a \in PhysAddr :
        psycho_bus_load_byte(a)' # psycho_bus_load_byte(a) =>
          \/ a - last'.addr \in 0 .. Len(last'.val) - 1
          \/ /\ last'.addr = RAM_ADDR_END
             /\ a - BIOS_ADDR_START \in 0 .. Len(last'.val) - 1
    ]_vars

\* The three widths see the same memory wherever they are mapped, except
\* that halfword loads never see the BIOS.
WidthsAgree ==
  \A a \in PhysAddr :
    /\ a % 2 = 0 /\ Region(a) \in {"ram", "scratchpad"} /\ a # RAM_ADDR_END =>
         psycho_bus_load_halfword(a) = psycho_bus_load_byte(a) \o psycho_bus_load_byte(a + 1)
    /\ a % 4 = 0 /\ Region(a) # "unknown" /\ a # RAM_ADDR_END =>
         psycho_bus_load_word(a) =
           psycho_bus_load_byte(a) \o psycho_bus_load_byte(a + 1)
             \o psycho_bus_load_byte(a + 2) \o psycho_bus_load_byte(a + 3)
=============================================================================

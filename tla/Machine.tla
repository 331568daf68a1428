------------------------------ MODULE Machine ------------------------------
(***************************************************************************)
(* The CPU on its memory: core/cpu.c composed with core/bus.c.             *)
(*                                                                         *)
(* Where Cpu lets memory return anything, here a fetch and a data load     *)
(* read the host memory of Bus, and a store writes it.  Values are words   *)
(* to the CPU and sequences of bytes to the bus, the low byte first, as    *)
(* the memcpys of a little-endian host have it.                            *)
(***************************************************************************)
EXTENDS Cpu

CONSTANTS
  Decode,                                    \* the instruction a word encodes
  RAM_ADDR_END, BIOS_ADDR_START, BIOS_ADDR_END,          \* see Bus
  SCRATCHPAD_ADDR_START, SCRATCHPAD_ADDR_END,
  BiosWindow, ScratchpadWindow, PtrBytes

VARIABLE host     \* the bytes of the emu object

\* Static storage: everything is zero until the BIOS file is read.
B == INSTANCE Bus WITH
       Zero <- 0, Ones <- ByteSize - 1,
       PhysAddr <- 0 .. PhysSize - 1,
       BiosImage <- [k \in 0 .. BIOS_ADDR_END - BIOS_ADDR_START - 1 |-> 0],
       last <- [kind |-> "load", addr |-> 0, val |-> << >>]

ASSUME MachineAssumption ==
  /\ B!BusAssumption
  /\ Decode \in [Word -> InstrType]
  /\ Decode[WordMax] = IllegalInstr
  /\ BIOS_ADDR_END < CACHE_CTRL % PhysSize      \* CACHE_CTRL shadows no memory

\* memcpy between a value and its bytes, of which there are 1, 2 or 4.
ValueOf(bytes) ==
  LET part(k) == bytes[k] * ByteWeight(k - 1)
  IN  CASE Len(bytes) = 1 -> part(1)
        [] Len(bytes) = 2 -> part(1) + part(2)
        [] OTHER          -> part(1) + part(2) + part(3) + part(4)

BytesOf(val, len) == [k \in 1 .. len |-> (val \div ByteWeight(k - 1)) % ByteSize]

\* What psycho_bus_load_word, _halfword and _byte return to the CPU.
LoadValue(paddr, len) ==
  ValueOf(CASE len = 4 -> B!psycho_bus_load_word(paddr)
            [] len = 2 -> B!psycho_bus_load_halfword(paddr)
            [] OTHER   -> B!psycho_bus_load_byte(paddr))

InstrAt(paddr) == Decode[LoadValue(paddr, 4)]

\* The store among the bus calls of a step, carried out; there is at most
\* one.
AfterStores(calls) ==
  LET stores == {n \in DOMAIN calls : calls[n].kind = "store"}
      done(call) == B!Stored(call.addr, BytesOf(call.val, call.len))
  IN  IF stores = {} THEN host ELSE done(calls[CHOOSE n \in stores : TRUE])

psycho_cpu_step ==
  \E i \in {InstrAt(vaddr_to_paddr(FetchPc))} :
    \E w \in {LoadValue(BusAddr(i), AccessLen(i.op))} :
      /\ Execute(i, {w})
      /\ host' = AfterStores(bus')

(***************************************************************************)
(* Properties.                                                             *)
(***************************************************************************)
\* The four bytes at a virtual address of any alignment, as byte loads see
\* them.
UnalignedWord(vaddr) ==
  ValueOf([k \in 1 .. 4 |-> B!psycho_bus_load_byte(DataPaddr(Wrap(vaddr + k - 1)))[1]])

\* Two loads, c.instr and then d.instr, of the two parts of one word, neither
\* of which raises anything, without a load of the base register before.
PairOf(c, d, first, second, skew) ==
  LET i == c.instr
      j == d.instr
  IN  /\ i.op = first /\ j.op = second
      /\ i.rs = j.rs /\ i.rt = j.rt /\ i.rt \notin {0, i.rs}
      /\ j.arg = i.arg + skew /\ 2 * j.arg < HalfSize /\ 2 * i.arg < HalfSize
      /\ c.raised = << >> /\ d.raised = << >>
      /\ c.ld_next.dst \notin {i.rs} \ {0}

\* A step that is the second of such a pair leaves the four bytes at the
\* address in flight.  The four bytes must not straddle the end of the
\* folded addresses, nor share an aligned word with RAM_ADDR_END, which
\* words read from the BIOS and bytes behind it do not.
PairLoaded ==
  \A low \in {TRUE, FALSE} :
    LET at == get_vaddr(cpu'.instr.arg - (IF low THEN 3 ELSE 0),
                        Visible(cpu)[cpu'.instr.rs])
    IN  /\ IF low THEN PairOf(cpu, cpu', "LWR", "LWL", 3)
                  ELSE PairOf(cpu, cpu', "LWL", "LWR", -3)
        /\ DataPaddr(Wrap(at + 3)) = DataPaddr(at) + 3
        /\ RAM_ADDR_END - DataPaddr(at) \notin -3 .. 3
        => cpu'.ld_pend = [dst |-> cpu'.instr.rt, val |-> UnalignedWord(at)]

\* The physical addresses that a store instruction at a physical address
\* writes: SWL the aligned word up to it, SWR the rest of that word from it.
WrittenBy(op, at) ==
  CASE op = "SWL" -> at - (at % 4) .. at
    [] op = "SWR" -> at .. at - (at % 4) + 3
    [] OTHER      -> at .. at + AccessLen(op) - 1

\* The bytes of memory after a step, as byte loads see them.  A store that is
\* not refused writes the bytes of its register to its addresses in RAM and
\* the scratchpad, and nothing else; any other step leaves memory alone.
\* Refused are a misaligned store and, with the cache isolated, SW: the
\* other stores write all the same (cpu.c:648).  Exempt is the address
\* behind RAM, where bytes of the BIOS change.
StoreLands ==
  LET i       == cpu'.instr
      reg     == Visible(cpu)[i.rt]
      at      == DataPaddr(get_vaddr(i.arg, Visible(cpu)[i.rs]))
      lowest  == IF i.op = "SWL" THEN at - 3 ELSE at    \* place of reg's low byte
      refused == \/ i.op = "SW" /\ SR_ISC_BIT \in BitsOf(F(i).cop0["SR"])
                 \/ \E n \in DOMAIN cpu'.raised : cpu'.raised[n] = EXCEPTION_ADES
  IN  IF i.op \in StoreOps /\ ~ refused
      THEN at - (at % 4) # RAM_ADDR_END =>
             \A p \in 0 .. PhysSize - 1 :
               B!psycho_bus_load_byte(p)' =
                 IF p \in WrittenBy(i.op, at) /\ B!Writable(p)
                 THEN << (reg \div ByteWeight(p - lowest)) % ByteSize >>
                 ELSE B!psycho_bus_load_byte(p)
      ELSE host' = host
=============================================================================

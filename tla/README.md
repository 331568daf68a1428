# A TLA+ verification of psycho

psycho is an interpreter for the CPU of a PlayStation: a core library
(`core/`) with the R3000 interpreter, the memory map, a disassembler, a BIOS
call tracer and a log, and a small host application (`app/main.c`) that owns
the memory, loads a BIOS and an EXE and calls `psycho_step` for ever. The
program is sequential: one thread, one context. What is hard in it is not
concurrency of threads but state that outlives a step: loads that complete two
instructions later, branches that take effect one instruction later,
exceptions that arrive in between, and address ranges whose ends are off by
one.

## 1. Inventory

| Component | State | Operations | Interacts with |
|---|---|---|---|
| CPU interpreter, `core/cpu.c` | `struct psycho_cpu`: `gpr`, `cop0`, `hi`, `lo`, `curr_pc`, `pc`, `next_pc`, `instr`, load slots `ld_next` and `ld_pend`, two delay-slot flags | `psycho_cpu_reset`, `psycho_cpu_step` (61 instruction cases), `raise_exception`, `dbg_data_bp_chk` | bus (loads, stores), host (illegal-instruction event), log |
| CPU definitions, `core/cpu-defs.h`, `core/util.h` | none | field extraction, sign extension, address computations | used by CPU, disassembler, context |
| Bus, `core/bus.c` | scratchpad; pointers to RAM and BIOS owned by the host | word, halfword and byte loads and stores, peek | CPU, disassembler; host memory |
| Context, `core/ctx.c` | all of the above | `psycho_init`, `psycho_reset`, `psycho_step`, `psycho_exe_load` | calls everything; called by the host |
| BIOS tracer, `core/bios-trace.c` | TTY line buffer (256 bytes and a length), current function, formatted result | `trace_begin` before a step, `trace_end` after it | reads `gpr` and `pc`; TTY and log events |
| Log, `core/log.c` | one level per module | set levels, filter, dispatch | host's event callback |
| Disassembler, `core/disasm.c` | enable flag, last result | decode and format, trace hooks around a step | bus (peek), log |
| Host, `app/main.c` | `emu` (RAM, BIOS, context), EXE image | load files, event handler, main loop | context |

What makes each component correct, and where it is hard:

* **CPU** - a load is visible exactly one instruction late, and is cancelled by
  a write in its delay slot; `$zero` is zero; an exception has no effect but
  itself, wherever it hits (a delay slot, a misaligned PC, a load in flight);
  the PC pair is never left half updated; the bus gets aligned addresses only.
* **Word arithmetic** - overflow, division by zero, INT32_MIN / -1, the masks
  of the unaligned accesses, truncated branch offsets.
* **Bus** - no access outside the host object, no store outside its own bytes;
  the region ends are inclusive and the sizes derived from them are one short.
* **BIOS tracer, log** - fixed buffers at their limit, and registers read
  before the load in flight completes.
* **Context, host** - the EXE loader moves the PC between two steps; its
  return code is never zero.

`PROJECT.json` lists these under `hazards`, each at its line.

## 2. Plan

1. `Words`, `CpuDefs`, `Cpu`, with the abstract `LoadDelay`; runs and proofs. *Done.*
2. `WordsCheck`: the arithmetic against reference definitions. *Done.*
3. `Bus` on the host object. *Done.*
4. `Machine`: Cpu and Bus composed, instructions and data in the same memory.
   *Done.*
5. `Log`, `BiosTrace`, with the abstract `TtyLine`; `Trace` puts them under any
   guest and any host. *Done.*
6. `Disasm` and `App`: `psycho_step` with its hooks, the EXE loader, `main`
   with the failures of its files. *Done.*
7. Proofs of the safety properties of every module. *Done.*
8. Proofs about the bits of a word: shifts, logic and the bit-serial divider.
   *Done.* What stays with TLC is liveness (section 5).

## 3. Modules

| Module | Models |
|---|---|
| `Words` | machine words, conversions (`util.h`), the arithmetic of the instruction cases |
| `CpuDefs` | registers, instructions as records, exception codes, addresses, the SR stack |
| `Cpu` | `cpu.c`: state, helpers, one action per kind of instruction, reset |
| `LoadDelay` | abstract: a register file with one load delay slot |
| `WordsCheck` | reference definitions for `Words` and `CpuDefs`, over all operand pairs |
| `Bus` | `bus.c` on the memory of `emu` |
| `Machine` | `Cpu` on the memory of `Bus` |
| `Log` | `log.c`: levels, the filter, the length of a message |
| `BiosTrace` | `bios-trace.c`: the hooks around a step, the TTY buffer |
| `TtyLine` | abstract: a line buffer that newlines empty |
| `Trace` | `BiosTrace` and `Log` under any guest and any host |
| `Disasm` | `disasm.c`: the mnemonic and the target shown for an instruction |
| `App` | `main.c` and `ctx.c`: `Machine`, `BiosTrace` and `Disasm` composed |
| `MCCpu`, `MCBus`, `MCApp` | instances for TLC: instruction sets, programs, files, addresses, a step bound |
| `WordsProofs` | theorems about the arithmetic |
| `CpuProofs`, `CpuSafetyProofs`, `CpuAccessProofs` | theorems about `Cpu`: types; registers and control flow; accesses and exceptions |
| `BusProofs`, `TraceProofs` | theorems about `Bus` and `Trace` |
| `MachineProofs`, `AppProofs` | `Machine` and `App`: the lemmas about `Cpu`, `Bus` and `Words` put together |

**Words.** A byte has `ByteBits` bits, a word four bytes. Nothing in the code
depends on bytes being eight bits wide except its constants, so small bytes
exercise the same cases with operands that can be enumerated. A word is its
unsigned value; assignment to a `u32` is `Wrap`, the `(s32)` cast `Signed`.
Masks and shifts of the C code that select bytes are written with `%`, `\div`
and `*`.

**Cpu.** `cpu` is `struct psycho_cpu` as a record. Each static helper of
`cpu.c` is an operator from the record to the updated record (`gpr_set`,
`gpr_set_delayed`, `load_delay_process`, `branch_if`, `jmp`,
`raise_exception`, `dbg_data_bp_chk`), and an action composes them in the order
of the code: `fetch` (head of `psycho_cpu_step`), the instruction case,
`Retire` (the final `gpr[0] = 0`). An illegal instruction skips `Retire`, as
the code's early `return` does, and `halted` records that the host's handler
trapped (`HostTraps`; a host may also return). Three ghost fields serve the
properties: `raised`, the exceptions of the instruction executed by the last
step, `via`, how the last step reached its instruction, and `wrote`, the
register it computed. Memory is the
environment: a fetch from a mapped address gives any instruction of `Instr`, an
unmapped one gives 0xFFFFFFFF, an illegal instruction; a load gives any word
of `MemWord`. The accesses of the last step are in `bus`, in order. `Instr`
holds decoded records; the case analysis on bit fields is not modelled. The
cop0 registers that no code interprets are represented by `PRID`.

**Bus.** `host` is the byte array of the static object `emu`: RAM, BIOS, a
byte of padding, and the context, which begins with the scratchpad, a byte of
padding and the two pointers. `Region` is the `switch` on the physical address,
`Cell` the element the code points to, `load` and `Stored` the `memcpy`s. The
layout is that of the application as a compiler for a 64-bit ABI lays it out;
another host may place RAM and BIOS elsewhere. The log messages for unknown
accesses are left out.

**Machine.** Extends `Cpu` and instantiates `Bus` on the same variables: the
instruction of a step is the word at `FetchPc`, decoded by the constant
function `Decode`; the word a load returns is read from `host`; the store
among the bus calls of a step is carried out in `host'`. `Execute` is the
switch of `psycho_cpu_step` in both modules; only what memory returns differs.

**Log, BiosTrace, Trace.** The part of the context these files use is a record
`t` that their functions take and return. `t.out` lists the events of the last
call, in order; the text of a message is the sequence of its variable parts,
and `len` is `msg_len`, the prefix included; its value is exact for TTY lines,
and for a fixed format it counts one for each conversion. The TTY buffer is read as the C
code reads it, as a string that ends at the first zero: in a full buffer
without one the string goes on into the bytes of `len`, which follow it in the
struct. `TTY_SIZE_MAX = CharSize` is the coincidence the code lives on (256
chars, and a length whose low byte is then zero). Ghost field `torn` marks a
line in which the buffer wrapped around, and ghost variable `call` the
character of the call the last step traced.

**Disasm.** The sets of instructions that have a case which returns. `srlv` and
`srav` fall out of the switch and are shown as illegal, `divu` is shown as
`div`, `bgezal`, `rfe`, `syscall` and `break` have no case: the model has all
of that, as the code does, and none of them is shown with a target. Operands
other than a target are left out.

**App.** `phase` is where `main` is. The loaders may fail at every place where
their code looks for a failure; `tty_file` may be null, which `main` does not
look for, and then the first TTY line ends the process (`Crash`). One action is
one iteration of the loop, or the half of it that loads the EXE (`ReachShell`,
with the log and disassembler calls that follow it) when the PC is that of the
shell. `psycho_init` only stores the addresses of RAM and BIOS, which are the
pointers at the end of `host` from the start, and resets the CPU (`SetUp`).
`psycho_step` composes `DisasmBegun`, `TraceBegun`, `psycho_cpu_step` of
`Machine` and the two end hooks in the order of `ctx.c`; when the host traps in
the middle, the end hooks are not reached. `ExeContract` is what
`psycho_exe_load` takes for granted about the header.

## 4. Runs

The only liveness property is `ExeRuns`. Its fairness, `WF_phase(MainGoesOn)`,
says that `main` leaves every phase that has no loop of its own: one thread
runs, every call in those phases returns (a file system that never answers is
left out), and nothing is assumed of the guest's program, which may loop for
ever or trap. It is stated about `phase` alone because that is all it has to
say, and because TLC would otherwise evaluate a whole step to decide `ENABLED`.
All other properties are safety properties. Deadlock is not checked in the
`MCCpu` and `MCBus` runs because they stop at `MaxSteps` steps, and in `app`
because the program really stops: it exits, crashes or traps. The step bounds are named `MaxSteps` and exceed the number of steps
any effect lasts: a load takes two steps, a branch two, an exception entry two,
and the longest chain of interest (load a misaligned target, wait for it, jump
to it, execute the delay slot, fault, handle the fault) six.

| Run | Checks | Shows |
|---|---|---|
| `cpu_loads` | `TypeOK`, `GprZero`, `LoadDelaySpec` | loads of every register, the writes and loads that cancel them, jumps, illegal instructions that do not stop the host, resets at any time |
| `cpu_control` | `NextPcSequential`, `DelaySlotAfterBranch`, `ExceptionEntry`, `FetchAligned`, `JumpLeavesNoLoad`, `PreciseExceptions` | jumps, branches, traps, overflow and misaligned targets in any order, also in delay slots |
| `cpu_data` | `BusAligned`, `ExceptionEntry`, `PreciseExceptions` | all loads and stores, data breakpoints, cache isolation |
| `words` | `ShiftsExact`, `LogicExact`, `OverflowExact`, `DivisionRadix2`, `MultSigned`, `UnalignedLoad`, `UnalignedStore`, `BranchTarget`, `SrRoundTrip` | all pairs of 8-bit words; where a property has a third word, ten of them (`Probe`), and so for the second operand of logic |
| `bus` | `TypeOK`, `PointersIntact`, `ReadBack`, `WidthsAgree`, `StoreFrame` | any three accesses at and around the region ends |
| `trace` | `TypeOK`, `MessagesFit`, `CallsReported`, `TtyLineSpec` | calls of putchar and other steps, levels and the TTY switch changed in between, without a bound on their number |
| `app` | `AppTypeOK`, `PointersIntact`, `ExeEntry`, `TraceFaithful`, `FetchSeesStores`, `UnalignedPair`, `StoresLand`, `ExeRuns` | the whole program from `main` on, for every BIOS program and EXE of `MCApp`, until it ends or repeats a state |
| `mode_saved`, `epc_misaligned`, `epc_delay_slot`, `tty_level`, `exe_failure` | one property each | violated: see the findings |

Bounds of the `MCCpu` runs: 8-bit words, three registers (`$zero`, one
general, `$ra`), 32 bytes of physical memory seen through eight virtual images,
distinct reset, exception and debug entry points that are all mapped, a folded
low data region (`HackLimit`, `HackSize`) and an untranslated address
(`CACHE_CTRL`). Each run restricts `Instr` to the instructions its question is
about; between them the sets contain every kind of instruction. `MaxSteps`
differs per run so that each ends in under two minutes.

Bounds of `trace`: four characters (NUL, two letters, newline) and a buffer of
four, so that a line can end, fill the buffer exactly with its newline, wrap
around, and contain a NUL, and the line after each of these can do so too. The
state space is finite without a step bound. `MSG_SIZE_MAX` leaves no room to
spare: the longest line, its prefix and the zero fill the message exactly.

Bounds of `app`: 8-bit words, seven registers, 32 bytes of RAM, 4 of
scratchpad, 56 of BIOS (64 to 119; the address of `CACHE_CTRL` lies behind). A BIOS is a program with free places, filled in every
way, of one of four families. One stores a stub at the traced entry point,
calls putchar through it with any kind of instruction in the delay slot, and
goes to the shell, or falls into it, with a load, a branch or a trap in the
last place; it meets each of five EXEs: a good one, one that starts at a
misaligned PC, one that lies over the shell, one that is no EXE and one that is
too short. One makes three accesses of every width and alignment in front of
the pointers behind the scratchpad. One computes with HI, LO and the ends of
the signed range. One isolates the cache, or arms a data breakpoint on every
address, and makes two stores of any kind, aligned or not. The good EXE jumps
back to the shell with a load of `$gp` in the delay slot, so that it is loaded
again and again.

Carve-outs stated in the properties themselves: `PreciseExceptions` exempts the
link register of a JALR with a misaligned target (the code links first) and
accesses that hit a data breakpoint (the code goes on with the access);
`BranchTarget` is limited to offsets whose byte distance fits 16 bits
(`cpu-defs.h:186` truncates the others); `StoreFrame` and `WidthsAgree` exempt
`RAM_ADDR_END`, which aliases the first bytes of the BIOS, and `WidthsAgree`
says nothing of halfword loads from the BIOS, which `bus.c` does not map.
`FetchSeesStores` exempts the addresses that only data accesses fold,
`UnalignedPair` words that straddle the end of the fold or share an aligned
word with `RAM_ADDR_END`, negative offsets, and a pair between which the EXE
is loaded, and `StoresLand` stores into the word of `RAM_ADDR_END`.

`TraceFaithful` compares what is shown with the instruction the step executes:
its address, its own name and where it goes. It exempts a misaligned PC, the
target of a branch in a delay slot, and the names of the seven instructions
that `disasm.c` misnames (`Misnamed`: SRLV, SRAV, DIVU, SYSCALL, BREAK, BGEZAL
and RFE). A case that went missing for any other instruction would violate it.

`ExeEntry` is about the first two instructions of the EXE. `psycho_exe_load`
sets `$gp`, `$sp` and `$fp` and leaves the load slots alone, so a load that was
in flight completes afterwards and overwrites what it has set. The property
says when: a load in `ld_next`, which only a fall-through into the shell has
(`LateLoad`), reaches the first instruction, and a load in `ld_pend`, which is
that of the delay slot when the shell was entered by a jump, reaches the
second. With the second exemption dropped TLC shows the case: `LW $gp` in the
delay slot of the jump to the shell, and the EXE's second instruction reads
the loaded value. Whether the loader should cancel such loads the repository
does not say, so this is a stated exemption and no finding. What `$sp` is when
the header's base is 0 the property leaves open: it is then the BIOS's.

An exemption documents a hazard and does not catch it; the hazards in
`PROJECT.json` that are only exempted say so.

### Findings

* `mode_saved`: the comment of `raise_exception` says the pre-existing mode
  flags are saved. A misaligned access that hits a data breakpoint raises two
  exceptions in one step and pushes the stack twice.
* `epc_misaligned`: the comment says EPC is the restart location. The exception
  of a misaligned PC is raised before `curr_pc` is updated; EPC is the address
  of the previous instruction.
* `epc_delay_slot`: in a delay slot EPC is the delay slot and the BD bit is not
  set; the branch cannot be restarted.
* `tty_level`: the log's header says every module has a controllable level. A
  TTY line is dispatched without the filter, whatever the level of its module.
* `exe_failure`: `main` traps if `psycho_exe_load` returns zero, which none of
  its return codes is; a failed load goes on into the shell.

## 5. Proofs

Every theorem holds for all values of the constants that satisfy the
assumptions, and without a bound on the number of steps. The assumptions, each
named in the module that declares the constants:

* `ByteAssumption`: `ByteSize = 2^ByteBits`, at least 2 and even.
* `PowerAssumption`: `2^0 = 1`, and `2^(i + 1) = 2 * 2^i` for the bits of a
  word. It restricts no constant: it is the recursion that defines `^`, which
  the provers know for literals only.
* `CpuDefsAssumption`: at least two registers; entry points and `CACHE_CTRL`
  aligned words; `PhysSize`, `HackSize` and `HackLimit + 1` multiples of four.
* `CpuAssumption`: `Instr` is a set of well-typed instructions, `MemWord` of words.
* `BusAssumption`: the regions are disjoint, ordered as in `bus.h` and aligned,
  each fits its window, and `RAM_ADDR_END` is a multiple of four.
* `MachineAssumption`: `Decode` maps words to instructions, an unmapped word to
  the illegal one; `CACHE_CTRL` is not the address of memory, translated or not.
* `BiosTraceAssumption`: `TTY_SIZE_MAX = CharSize`, and the message buffer
  holds the longest line with its prefix.
* `AppAssumption`: the five registers that the tracer and the loader use are
  not `$zero`, and `$gp`, `$sp` and `$fp` are distinct; the command line's EXE
  keeps `ExeContract`; the host's handler traps, as `main.c`'s does.

| Theorem | Property | Argument |
|---|---|---|
| `CpuProofs!TypeCorrect` | `TypeOK` | inductive as it stands: operators of `Words` return words, helpers of `cpu.c` keep `CpuType`, so does each action |
| `CpuSafetyProofs!ZeroRegister` | `GprZero` | `ZeroInv` |
| `ControlFlow`, `DelaySlots`, `EntryPoint`, `AlignedFetch` | `NextPcSequential`, `DelaySlotAfterBranch`, `ExceptionEntry`, `FetchAligned` | `ControlEffect` |
| `NoLoadAcrossJump` | `JumpLeavesNoLoad` | `RegEffect` and `ControlEffect`: a step that announces a delay slot issues no load |
| `LoadDelayRefinement` | `LoadDelaySpec` | `RegEffect`, `ZeroInv` |
| `CpuAccessProofs!AlignedAccess` | `BusAligned` | `BusEffect`; the physical size and the fold are multiples of four |
| `Precise` | `PreciseExceptions` | `HiLoFrame`, `ExceptionEffect` |
| `BusProofs!TypeCorrect`, `PointersSafe`, `StoresReadBack`, `StoresFramed`, `WidthsOfOneMemory` | `TypeOK`, `PointersIntact`, `ReadBack`, `StoreFrame`, `WidthsAgree` | an aligned access lies in one region, and in it cells follow addresses |
| `TraceProofs!TypeCorrect`, `NoOverrun`, `CallsAreReported`, `LineRefinement` | `TypeOK`, `MessagesFit`, `CallsReported`, `TtyLineSpec` | `Between` and `TailClean` |
| `WordsProofs!ShiftRules`, `LogicRules` | `ShiftsExact`, `LogicExact` | a word is determined by its bits, and every set of bits has a word (`WordOfBits`, `BitsOfWord`) |
| `WordsProofs!DivisionRule` | `DivisionRadix2` | a closed form of the divider after `i` bits (`Divided`) solves its recursion, and is the only solution (`RadixIsDivided`) |
| `WordsProofs!OverflowRule`, `Products`, `BranchArithmetic`, `StatusStack`, `UnalignedLoads`, `UnalignedStores` | `OverflowExact`, `MultSigned`, `BranchTarget`, `SrRoundTrip`, `UnalignedLoad`, `UnalignedStore` | uniqueness of quotient and remainder (`ModUnique`), a word as high part and low part (`Split`, `Join`) |
| `AppProofs!AppTypes`, `PointersSafe`, `FetchIsLoad` | `AppTypeOK`, `PointersIntact`, `FetchSeesStores` | `AppInv` |
| `AppProofs!TraceShowsStep` | `TraceFaithful` | `AppInv`; `OwnName`, by cases on the instruction; `JumpTarget`, `BranchGoes` |
| `AppProofs!EntersExe` | `ExeEntry` | `AppInv` and `Entered`; `RegisterKept`, from the class of a step |
| `AppProofs!PairsLoad` | `UnalignedPair` | `AppInv` and `PairInv` |
| `AppProofs!StoresWrite` | `StoresLand` | `AppInv`; `StoreOutcome`, `StoredAt` and `StoredBytes`, below |

The invariants that were found on the way:

* **`ZeroInv`** adds `SlotsClean` to `GprZero`, which is not inductive: an
  illegal instruction skips the final `gpr[0] = 0` after `load_delay_process`
  has written the older load slot, so an empty slot must hold 0.
* **`TailClean`** (`TraceProofs`): unless the line is torn, the TTY buffer is
  zero behind its length. It is what makes the string that the host is given
  end where the line ends.
* **`AppInv`** is the CPU's invariants, memory and pointers, and what `phase`
  says of them; of the EXE's entry it gives that `ld_next` is empty after a
  delay slot (`JumpLeavesNoLoad`). `NextPcSequential` holds only from the loop on, because
  `psycho_init` comes after the files have been read.
* **`Entered`**: what the loader leaves for the step after it, the EXE's word
  at the PC and the header's registers but for a load in `ld_next`. What that
  step then does to a register is `RegisterKept`: nothing, unless it computes
  it or the load in `ld_pend` was to it.
* **`PairInv`**: after an LWL or LWR that raised nothing, what is in flight is
  the merge of *some* word with the aligned word at its address, in terms of
  the state after the step. `UnalignedPair` relates two steps; this is what the
  first leaves for the second.

The proofs about the CPU look at its actions once per question: `RegEffect`
(no register, one write, or one load), `ControlEffect` (straight on, a jump or
branch, or an exception), `BusEffect` (which calls), `ExceptionEffect`. Each
theorem follows from the class of a step and not from the instruction. `Machine`
adds nothing to that but what memory returns, so `MachineProofs` uses the same
lemmas (`StepOnMemory`: a step of the machine is `Execute` on words), the lemmas
of `BusProofs` through an instance on the same memory (`P`, `OneBus`) and those
of `WordsProofs` (`W`, `OneArithmetic`).

`PairsLoad` puts all of them together. Within an aligned word, physical
addresses follow virtual ones (`PlainNext`: all moduli are multiples of four);
across the two aligned words they do because the property's hypothesis says so
of its ends (`PlainFour`); that `CACHE_CTRL` is not translated makes no
difference to what loads return (`PlainLoads`); an aligned word is the bytes
that byte loads see (`WordInBytes`); and the two merges take the right bytes
from each (`LoadsMerge`, `MergedBytes`).

`StoresWrite` is the same for stores, from the instruction to the byte. A step
carries out its store, refuses it or has none, and it refuses exactly what
raised an address error or is an SW with the cache isolated (`StoreOutcome`); a
`memcpy` to an aligned address changes the bytes at its own addresses and no
others, because a region holds whole words and, `RAM_ADDR_END` apart, no two
addresses share a cell (`StoredAt`); and of what SWL and SWR write back, each
byte is either the register's or the one that was there (`WordBytes`: a word is
its four bytes, `MergedStores`, `StoredBytes`).

`UnalignedLoads` and `UnalignedStores` hold for every `Probe`, all words
included, and `LogicRules` likewise. `StatusStack` has the hypothesis
`ByteBits >= 2` besides: a word must have room for the six bits of the SR's
stack, which excludes bytes of one bit.

Shifts, logic and the divider go bit by bit, and their proofs are inductions
over the bits. The library's induction rules take an operator, which the
provers cannot instantiate; the least-element principle takes a set. So an
induction here is a set of indexes for which the claim holds, and the least
index outside it is contradicted (`LeastElement`, `Upward`, `Downward`). What
is carried along is the number above bit `i`, `x \div 2^i`:

* `NextBit`: it is twice the number above bit `i + 1`, and bit `i`.
* `BitSums`, from the top bit down: words whose bits add up in pairs add up.
  It gives the carry identities at once, and that a word is determined by its
  bits (`SameBits`). `SomeWord`, from the empty word up: every set of bits has
  a word, so `FromBits` never takes its default.
* A shift is then a word with the right bits: `BitBelow` (a multiple of a
  higher power does not reach bit `i`), `BitAbove`, `BitShifted`, and
  `BitBeyond`, where the sign fills what SRA shifts in.
* `Radix2` is a recursive function, so it is the `CHOOSE` of a function that
  satisfies an equation. `SerialDivision` shows that `Divided` satisfies it:
  after `i` bits, the quotient and the remainder of the top `i` bits, or for a
  divisor of 0 the quotient `2^i - 1` and the bits themselves.
  `RadixIsDivided` shows by induction that nothing else does. `SignedDivision`
  compares `div`, with its hard-coded results, case by case.

Only model-checked:

* `ExeRuns`: liveness under fairness is out of the prover's reach.
* The five violated properties of section 4, which are false.

## 6. Not modelled

* Instruction encoding and decoding: `Cpu` has records for instructions, and
  `Machine` a constant function from words to them. The BCOND encodings that
  the CPU treats alike and the disassembler does not have one representative.
* Text: the wording of messages, operands in the disassembly, colours. The
  warnings that `cpu.c` and `bus.c` log, and the "null rd" message of MFC0 in
  the disassembler, change nothing but the host's output.
* A failed `malloc`, and an EXE header that lies about its file: undefined
  behaviour in the code, excluded by `ExeContract`.
* Build files and compiler attributes: no behaviour at run time.

`PROJECT.json` gives the status of every component.

------------------------------ MODULE CpuDefs ------------------------------
(***************************************************************************)
(* core/cpu-defs.h and core/include/core/cpu-defs.h: registers, decoded    *)
(* instructions, exception codes and address computations.                 *)
(*                                                                         *)
(* Decoding is left out: an instruction is a record of its operation and   *)
(* its fields.  Two encodings that every case of psycho_cpu_step treats    *)
(* alike are one operation: BLTZ, BGEZ, BLTZAL and BGEZAL stand for the    *)
(* 32 values of rt in the BCOND group (bit 0 selects the condition, the    *)
(* values 0x10 and 0x11 link), and ILLEGAL for every unassigned encoding.  *)
(***************************************************************************)
EXTENDS Words

CONSTANTS
  CPU_GPR_NUM,    \* 32
  CPU_GPR_RA,     \* 31
  PhysSize,       \* 0x20000000: vaddr & 0x1FFFFFFF keeps the address below it
  RegionSize,     \* 0x10000000: the part of a PC that J and JAL replace
  CACHE_CTRL,     \* 0xFFFE0130, the one virtual address left untranslated
  HackLimit,      \* 0x00FFFFFF: data addresses up to here ...
  HackSize,       \* 0x00100000: ... are folded into this many bytes
  RESET_PC,       \* 0xBFC00000
  EXC_PC,         \* 0x00000080, entry point of raise_exception
  DBG_PC,         \* 0x80000040, entry point of a data breakpoint
  SR_ISC_BIT,     \* 16, the bit of CPU_SR_ISC
  DCIC_BITS       \* {23, 25}, the bits of CPU_DCIC_DE and CPU_DCIC_DAE

ASSUME CpuDefsAssumption ==
  /\ CPU_GPR_NUM \in Nat \ {0}
  /\ CPU_GPR_RA \in 1 .. CPU_GPR_NUM - 1
  /\ PhysSize \in Nat \ {0} /\ PhysSize % 4 = 0
  /\ RegionSize \in Nat \ {0}
  /\ HackSize \in Nat \ {0} /\ HackSize % 4 = 0
  /\ HackLimit \in Word /\ (HackLimit + 1) % 4 = 0
  /\ CACHE_CTRL \in Word /\ CACHE_CTRL % 4 = 0
  /\ RESET_PC \in Word /\ EXC_PC \in Word /\ DBG_PC \in Word
  /\ RESET_PC % 4 = 0 /\ EXC_PC % 4 = 0 /\ DBG_PC % 4 = 0

Reg == 0 .. CPU_GPR_NUM - 1

\* The coprocessor-0 registers some code gives a meaning; PRID stands for
\* the others, which only MFC0 and MTC0 touch.
Cop0Reg == {"SR", "CAUSE", "EPC", "DCIC", "BDA", "BDAM", "PRID"}

EXCEPTION_ADEL == 4
EXCEPTION_ADES == 5
EXCEPTION_SYS  == 8
EXCEPTION_BP   == 9
EXCEPTION_OV   == 12

ExcCode == {EXCEPTION_ADEL, EXCEPTION_ADES, EXCEPTION_SYS, EXCEPTION_BP,
            EXCEPTION_OV}

(***************************************************************************)
(* Instructions.                                                           *)
(***************************************************************************)
OverflowOps == {"ADD", "SUB", "ADDI"}
MulDivOps   == {"MULT", "MULTU", "DIV", "DIVU"}
HiLoOps     == {"MFHI", "MFLO", "MTHI", "MTLO"}
JumpOps     == {"J", "JAL", "JR", "JALR"}
BranchOps   == {"BEQ", "BNE", "BLEZ", "BGTZ", "BLTZ", "BGEZ", "BLTZAL", "BGEZAL"}
TrapOps     == {"SYSCALL", "BREAK"}
Cop0Ops     == {"MFC0", "MTC0", "RFE"}
LoadOps     == {"LB", "LBU", "LH", "LHU", "LW", "LWL", "LWR"}
StoreOps    == {"SB", "SH", "SW", "SWL", "SWR"}

InstrOp == AluRegOps \cup AluImmOps \cup OverflowOps \cup MulDivOps \cup HiLoOps
             \cup JumpOps \cup BranchOps \cup TrapOps \cup Cop0Ops \cup LoadOps
             \cup StoreOps \cup {"ILLEGAL"}

\* arg is the shift amount, the immediate or the jump target, whichever the
\* operation has; cr is the rd field of MFC0 and MTC0, a cop0 register.
InstrType == [op : InstrOp, rs : Reg, rt : Reg, rd : Reg, cr : Cop0Reg, arg : Nat]

\* What a word load from an unmapped address (0xFFFFFFFF) decodes to.
IllegalInstr ==
  [op |-> "ILLEGAL", rs |-> 0, rt |-> 0, rd |-> 0, cr |-> "PRID", arg |-> 0]

(***************************************************************************)
(* Addresses.                                                              *)
(***************************************************************************)
get_vaddr(off, val) == Wrap(sign_ext_16_32(off) + val)

calc_jmp_addr(target, pc) == Wrap((target * 4) + (pc - (pc % RegionSize)))

\* Mutant: the offset relative to the branch, not to its delay slot.
MutBranchAddr(imm, pc) == Wrap(sign_ext_16_32((imm * 4) % HalfSize) + pc)

\* imm << 2 is truncated to u16 by the parameter of sign_ext_16_32.
calc_branch_addr(imm, pc) == Wrap(sign_ext_16_32((imm * 4) % HalfSize) + pc + 4)

vaddr_to_paddr(vaddr) == IF vaddr = CACHE_CTRL THEN vaddr ELSE vaddr % PhysSize

\* Mutant: every data address is folded, not only those up to HackLimit.
MutDataPaddr(vaddr) == vaddr_to_paddr(vaddr % HackSize)

\* The address part of get_phys_addr.
DataPaddr(vaddr) ==
  vaddr_to_paddr(IF vaddr <= HackLimit THEN vaddr % HackSize ELSE vaddr)

(***************************************************************************)
(* The status register's stack of three mode/interrupt-enable pairs and    *)
(* the exception code in Cause.                                            *)
(***************************************************************************)
sr_push(sr) == Wrap((sr - (sr % 64)) + 4 * (sr % 16))

\* Mutant: the pop shifts only the lower two pairs.
MutSrPop(sr) == Wrap((sr - (sr % 16)) + ((sr % 16) \div 4))

sr_pop(sr) == Wrap((sr - (sr % 16)) + ((sr % 64) \div 4))

cause_set(cause, exc) == Wrap(256 * ((cause \div 256) % 256) + 4 * exc)
=============================================================================

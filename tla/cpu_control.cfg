SPECIFICATION MCSpec
CONSTANTS
  ByteBits = 2
  ByteSize = 4
  CPU_GPR_NUM = 3
  CPU_GPR_RA = 2
  PhysSize = 32
  RegionSize = 16
  CACHE_CTRL = 252
  HackLimit = 15
  HackSize = 8
  RESET_PC = 184
  EXC_PC = 8
  DBG_PC = 128
  SR_ISC_BIT = 6
  DCIC_BITS = {5, 7}
  CodeAddr = {0, 4, 8, 12, 24, 28}
  Instr <- ControlInstrs
  MemWord = {6}
  HostTraps = TRUE
  MaxSteps = 6
CHECK_DEADLOCK FALSE
INVARIANTS NextPcSequential DelaySlotAfterBranch ExceptionEntry FetchAligned
INVARIANTS JumpLeavesNoLoad
PROPERTIES PreciseExceptions

SPECIFICATION AppSpec
CONSTANTS
  ByteBits = 2
  ByteSize = 4
  CPU_GPR_NUM = 7
  CPU_GPR_T1 = 1
  CPU_GPR_A0 = 2
  CPU_GPR_GP = 3
  CPU_GPR_SP = 4
  CPU_GPR_FP = 5
  CPU_GPR_RA = 6
  PhysSize = 128
  RegionSize = 128
  CACHE_CTRL = 252
  HackLimit = 39
  HackSize = 16
  RESET_PC = 192
  EXC_PC = 16
  DBG_PC = 148
  SR_ISC_BIT = 6
  DCIC_BITS = {5, 7}
  CodeAddr = {}
  Instr = {}
  MemWord = {}
  HostTraps = TRUE
  Decode <- MCDecode
  RAM_ADDR_END = 32
  SCRATCHPAD_ADDR_START = 40
  SCRATCHPAD_ADDR_END = 43
  BIOS_ADDR_START = 64
  BIOS_ADDR_END = 119
  ScratchpadWindow = 8
  BiosWindow = 64
  PtrBytes = 4
  MSG_SIZE_MAX = 24
  CharSize = 4
  NEWLINE = 3
  TTY_SIZE_MAX = 4
  TRACE_PC = 4
  PUTCHAR = 5
  SHELL_PC = 152
  EXE_MIN_SIZE = 8
  CommandLine <- MCCommandLine
CHECK_DEADLOCK FALSE
INVARIANTS AppTypeOK PointersIntact
PROPERTIES ExeEntry TraceFaithful FetchSeesStores UnalignedPair StoresLand ExeRuns

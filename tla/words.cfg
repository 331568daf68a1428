SPECIFICATION Spec
CONSTANTS
  ByteBits = 2
  ByteSize = 4
  CPU_GPR_NUM = 3
  CPU_GPR_RA = 2
  PhysSize = 8
  RegionSize = 8
  CACHE_CTRL = 12
  HackLimit = 3
  HackSize = 4
  RESET_PC = 12
  EXC_PC = 0
  DBG_PC = 8
  SR_ISC_BIT = 6
  DCIC_BITS = {5, 7}
  Probe = {0, 1, 27, 90, 128, 141, 165, 228, 254, 255}
INVARIANTS ShiftsExact LogicExact OverflowExact DivisionRadix2 MultSigned
INVARIANTS UnalignedLoad UnalignedStore BranchTarget SrRoundTrip

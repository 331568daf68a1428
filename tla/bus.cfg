SPECIFICATION MCSpec
CHECK_DEADLOCK FALSE
CONSTANTS
  Byte = {zero, ones}
  Zero = zero
  Ones = ones
  PhysAddr <- MCPhysAddr
  RAM_ADDR_END = 4
  SCRATCHPAD_ADDR_START = 16
  SCRATCHPAD_ADDR_END = 19
  BIOS_ADDR_START = 32
  BIOS_ADDR_END = 39
  ScratchpadWindow = 8
  BiosWindow = 16
  PtrBytes = 4
  MaxSteps = 3
  BiosImage <- MCBiosImage
INVARIANTS TypeOK PointersIntact ReadBack WidthsAgree
PROPERTIES StoreFrame

SPECIFICATION Spec
CONSTANTS
  MSG_SIZE_MAX = 24
  CharSize = 4
  NEWLINE = 3
  TTY_SIZE_MAX = 4
  TRACE_PC = 4
  PUTCHAR = 5
  GuestPc = {4, 8}
  GuestT1 = {4, 5}
  GuestA0 = {0, 1, 2, 7}
  HostLevel = {0, 1, 2}
  HostModule = {"BIOS", "TTY_STDOUT"}
INVARIANTS LevelsRespected

CONSTANTS
  TABLE_SZ = 16
  TRAMPOLINE = 31
  MEMORY_END = 40
  Elf = {2}
  InitElf = 1
  MaxPid = 3
  MaxThread = 4
  Budget = 3
SPECIFICATION Spec
INVARIANT WaitpidDeallocates
CHECK_DEADLOCK FALSE

SPECIFICATION Spec
CONSTANTS
  Tasks = {1, 2, 3}
  Codes = {1, 2}
  Vectors = {0, 32, 33}
  Commands <- MCCommands
  KERNEL_MAX_0x80_FUNCTIONS = 8
PROPERTIES
  InterruptTransparent
  SyscallReturns
  SwitchResumes

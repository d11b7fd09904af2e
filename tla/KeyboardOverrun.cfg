SPECIFICATION FairSpec
CONSTANTS
  PROCESS_MAX_KEYBOARD_BUFFER_SIZE = 2
  Processes <- MCProcesses
  Gshell = "gshell"
  Scancodes <- AllScancodes
  MaxUnread = 3
PROPERTIES
  KeysDelivered

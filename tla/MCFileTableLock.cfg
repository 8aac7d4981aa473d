SPECIFICATION Spec
CONSTANTS
  null = null
  uart = uart
  lcd = lcd
  disk = disk
  none = none
  ALT_MAX_FD = 6
  DevNull = null
  NoDev = none
  FileSystems = {disk}
  Registered <- MCRegistered
  Name <- MCName
  Driver <- MCDriver
  Streams <- MCStreams
  Paths <- MCPaths
  OpenFlags <- MCOpenFlags
  SetFlags <- MCSetFlags
INVARIANT LockedAlone
CHECK_DEADLOCK FALSE

SPECIFICATION FairSpec
CONSTANTS
  guestWindow = guestWindow
  hostWindow = hostWindow
  space = space
  Spaces = {space}
  NoSpace = NoSpace
  Windows = {guestWindow, hostWindow}
  NoWindow = NoWindow
  Unknown = Unknown
  Absent = Absent
  Owner <- OneEach
  Pidless = {}
  Untitled = {}
  ListStates = {"running", "stopped"}
  Outputs = {o1, o2}
  NoBar = NoBar
  Layers = {1, 2}
  Blank = Blank
  MaxStream = 2
  Faults = {}
INVARIANTS SettledStripIsTrue BarsAgree
PROPERTIES StreamEndIsFatal StripConverges
CHECK_DEADLOCK FALSE

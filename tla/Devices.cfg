SPECIFICATION FairSpec
CONSTANTS
  t1 = t1
  Task = {t1, t2}
  Nobody = Nobody
  NFile = 2
  NOpen = 2
  PAGE_SIZE = 4
  Byte = {0, 1}
  MaxCount = 2
  Faults = FALSE
  Drive = {0, 1}
  Track = {0, 1}
  SPIN = 2
  OFF = 2
  KEEP = 3
  TIME_REQUESTS = 2
  MAX_ERRORS = 2
  MaxRequests = 3
  MaxFaults = 3
  Overlap = FALSE
  Cols = 2
  Lines = 3
  Rows = 4
  Ega = TRUE
  TabStop = 2
  SEVEN = 3
  EIGHT = 1
  NPAR = 2
  Digit = {"1", "2", "4", "7"}
  MaxPar = 7
  Attr = {7, 15, 112}
  Sent <- Groups
  SIZE = 4
  Nearly = 1
  Setup <- Setups
  MaxNr = 2
  Mounter = {t1, t2, t3}
  Dev = {A, B, C}
  Dir = {d, e}
  None = None
  NR_SUPER = 2
  Program <- Mounting
CHECK_DEADLOCK FALSE
INVARIANT TypeOK
INVARIANT PipeExact
PROPERTY ImplementsFifo
 
PROPERTY Answered
PROPERTY ImplementsScreen
INVARIANT TerminalExact
 

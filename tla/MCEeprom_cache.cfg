\* A reader and a process that reads and writes; two slices, read word by word.
\* Five events: two calls and three ticks age a slice by more than half a wrap.
SPECIFICATION Spec
CONSTANTS
  r = r
  w = w
  a = a
  b = b
  Zero = Zero
  Nobody = Nobody
  Procs = {r, w}
  Writers = {w}
  Admins = {w}
  NSlices = 2
  Value = {a, b, Erased}
  Contents <- MCContents
  Ranges <- MCRanges
  Erased = Erased
  Hidden = {1}
  BlockRead = FALSE
  Lease = 0
  Retry = 1
  Jiffies = 4
  Boot = 3
  MaxEvents = 5
  MaxCalls = 3
INVARIANTS
  CoherentWhenCalm
  ReadSeesDevice
  NotOlderThanLease
  CountIsWritten
\* The number of calls is bounded.
CHECK_DEADLOCK FALSE
SYMMETRY Symmetry

CONSTANTS
  t1 = t1
  t2 = t2
  d1 = d1
  d2 = d2
  NoThread = NoThread
  Threads <- MCThreads
  Devices <- MCDevices
  Scales <- MCScales
  Requests <- MCRequests
  PageSize = 4
  MaxBuffers = 3
SPECIFICATION Spec
INVARIANTS
  ListsExact
  FitsRequest
SYMMETRY MCSymmetry
PROPERTIES
  GrowsOnlyWhenNeeded
  ImplementsAllocator
CHECK_DEADLOCK FALSE

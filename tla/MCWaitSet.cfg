CONSTANTS
  t1 = t1
  t2 = t2
  h1 = h1
  h2 = h2
  h3 = h3
  h4 = h4
  c1 = c1
  c2 = c2
  Invalid = Invalid
  Threads <- MCThreads
  HVals <- MCHVals
  Cookies <- MCCookies
  Waiters <- MCWaiters
  Vmos = {}
  ByteSizes = {1}
  MaxHandlesPerMsg = 0
  MaxMsgs = 1
  MaxRefs = 3
  MaxResults = 1
  Masks = {{"READABLE"}}

SYMMETRY MCSymmetry
INIT WInit
NEXT WNext
INVARIANT WTypeOK
 
CHECK_DEADLOCK FALSE

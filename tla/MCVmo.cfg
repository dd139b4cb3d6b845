CONSTANTS
  t1 = t1
  t2 = t2
  h1 = h1
  h2 = h2
  v1 = v1
  a = a
  b = b
  z = z
  Threads <- MCThreads
  HVals <- MCHVals
  Vmos <- MCVmos
  Bytes <- MCBytes
  Zero = z
  MaxHandlesPerMsg = 0
  MaxRefs = 2
  MaxSize = 2
  BufLen = 2
  RightsAsked <- MCRightsAsked

SYMMETRY MCSymmetry
INIT VInit
NEXT VNext
INVARIANT VTypeOK
INVARIANT RightsAttenuate

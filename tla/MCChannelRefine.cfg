CONSTANTS
  t1 = t1
  t2 = t2
  h1 = h1
  h2 = h2
  h3 = h3
  h4 = h4
  v1 = v1
  Invalid = Invalid
  Threads <- MCThreads
  HVals <- MCHVals
  Vmos <- MCVmos
  ByteSizes = {1}
  MaxHandlesPerMsg = 1
  MaxMsgs = 2
  MaxRefs = 3

SYMMETRY MCSymmetry
SPECIFICATION Spec
PROPERTY ChannelImplementsAbstract

CONSTANTS
  f1 = f1
  f2 = f2
  fDefault = fDefault
  bwInit = bwInit
  bwRest = bwRest
  srSearch = srSearch
  none = none
  NumProcessors = 2
  PrbSet <- MCPrbSet
  PhyInitPrb = 25
  Frequencies = {f1}
  DefaultFrequency = f1
  ConfigFrequencies <- MCSingleConfig
  RestBandwidths = {bwRest}
  InitBandwidth <- bwInit
  SearchRate <- srSearch
  NoCell <- none
  FileMode = FALSE
  FilePrb = 25
  MaxFrames = 2
  CounterWidth = 2
  TtiPeriod = 4
  CasPeriod = 4
  MaxQueued = 2
SPECIFICATION Spec
INVARIANT DecodingBufferLocked

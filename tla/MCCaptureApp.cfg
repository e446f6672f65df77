\* Two modes, both policies, every fault and the signal at any step; and files
\* with packets at every time in reach of the timeouts, undisturbed.
SPECIFICATION FairSpec
CONSTANTS
  Addresses <- MCAddresses
  Ports <- MCPorts
  CounterMax = 9
  Cutoffs = {}
  OutputSizes = {}
  IntMin <- MCIntMin
  IntMax = 40
  LiveIdle = 3
  ScanInterval = 2
  Capacity = 1
  DurationMax = 20000000
  Packets <- MCAllPackets
  Configs <- MCConfigs
  Environment <- MCEnvironment
INVARIANTS
  HandlerSeesOpenCapture
  EveryPacketInOneRow
  SummaryAddsUp
  NothingLeftOpen
  ExitStatusIsTruthful
PROPERTIES
  RunEnds
  SilentFlowHasEnded
  OneRecordPerBurst
CHECK_DEADLOCK FALSE

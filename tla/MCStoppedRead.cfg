\* A packet that is read while the stop signal comes.
SPECIFICATION Spec
CONSTANTS
  Addresses <- MCAddresses
  Ports <- MCPorts
  CounterMax = 9
  Cutoffs = {}
  OutputSizes = {}
  IntMin <- MCIntMin
  IntMax = 40
  LiveIdle = 3
  ScanInterval = 2
  Capacity = 2
  DurationMax = 20000000
  Packets <- MCAllPackets
  Configs <- MCStoppedConfigs
  Environment <- MCStopped
INVARIANT SummaryCountsEveryPacket
CHECK_DEADLOCK FALSE

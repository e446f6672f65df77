\* A flow that is silent for the idle timeout between two scans.
SPECIFICATION Spec
CONSTANTS
  Addresses <- MCAddresses
  Ports <- MCPorts
  CounterMax = 9
  Cutoffs = {}
  OutputSizes = {}
  IntMin <- MCIntMin
  IntMax = 40
  LiveIdle = 3
  ScanInterval = 2
  Capacity = 2
  DurationMax = 20000000
  Packets <- MCTimedPackets
  Configs <- MCQuietConfigs
  Environment <- MCQuiet
PROPERTY ReappearingFlowIsSplit
CHECK_DEADLOCK FALSE

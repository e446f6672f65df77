\* Three slots, four colliding flows, byte counters that overflow at once and
\* probe counters that saturate at five.
SPECIFICATION Spec
CONSTANTS
  Addresses <- MCAddresses
  Ports <- MCPorts
  CounterMax = 1
  StatisticsMax = 5
  Capacity = 3
  Hash <- MCHash
  Packets <- MCPackets
  Cutoffs <- MCCutoffs
  OutputSizes <- MCOutputSizes
INVARIANTS Structure GetEnumeratesAll StatisticsConsistent
PROPERTY ImplementsFlowMap

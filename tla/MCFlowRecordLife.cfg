\* Up to five packets per record, counters that overflow at 6 and durations
\* that overflow at two seconds.
SPECIFICATION Spec
CONSTANTS
  Addresses <- MCAddresses
  Ports <- MCPorts
  CounterMax = 5
  DurationMax = 2000000
  Traffics <- MCTraffics
  MaxAccepted = 5
INVARIANTS SummaryIsExact OneConversation RefusedOnlyWhenFull FeaturesMatchPackets HandshakeIsReal EndIsReal
PROPERTY PhaseNeverRegresses
CHECK_DEADLOCK FALSE

\* A SYN seen again after the SYN-ACK.
SPECIFICATION Spec
CONSTANTS
  Addresses <- MCAddresses
  Ports <- MCPorts
  CounterMax = 4
  DurationMax = 2000000
  Traffics <- MCTcpTraffics
  MaxAccepted = 4
INVARIANT RetransmissionRecognised
CHECK_DEADLOCK FALSE

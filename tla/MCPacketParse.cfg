\* Every frame, whole and cut at every length.
SPECIFICATION Spec
CONSTANTS
  Addresses <- MCAddresses
  Ports <- MCPorts
  Frames <- MCFrames
INVARIANTS VerdictNeverFatal CompleteIsJustified PayloadIsDeclared SnaplenOnlyTruncates
CHECK_DEADLOCK FALSE

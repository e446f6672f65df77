\* Two producers and two consumers on a ring of two, and up to four messages
\* over a connection that holds six cells; every call may fail.
SPECIFICATION LabsSpec
CONSTANTS
  Producers = {p1, p2}
  Consumers = {c1, c2}
  ItemCount = 3
  QUEUE_CAPACITY = 2
  Faults = {"init", "wait", "signal"}
  Scripts <- MCScripts
  MESSAGE_MAX_PAYLOAD_SIZE = 3
  PayloadBufferSize = 2
  SocketBuffer = 6
  NetworkFaults = {"socket", "bind", "connect", "accept", "send", "recv", "close", "kill"}
INVARIANTS EveryValueSeenOnce DescriptorsClosed ExitsAreTruthful
PROPERTIES ImplementsBoundedQueue RunEnds ImplementsMessageChannel BothEnd
CHECK_DEADLOCK FALSE

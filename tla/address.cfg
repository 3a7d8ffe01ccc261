CONSTANTS
  NoPort = NoPort
  Hosts <- MCHosts
  Ports <- MCPorts
  Paths <- MCPaths
SPECIFICATION Spec
INVARIANTS QuadsAccepted PortTaken
CHECK_DEADLOCK FALSE

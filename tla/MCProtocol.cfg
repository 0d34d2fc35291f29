CONSTANTS
  HeaderSize = 2
  MaxPacketSize = 3
  Clients = {c1}
  RequestSizes = {3, 4}
  ResponseSizes = {0, 3, 4}
  Capacity = 2
  MaxRequests = 2
  MaxConnections = 2
  NONE = NONE
SPECIFICATION Spec
INVARIANT TypeOK
PROPERTIES
  ImplementsRpc
  OvertakenOnlyIfAbandoned
  StuckUntilReconnect

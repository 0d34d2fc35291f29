CONSTANTS
  HeaderSize = 2
  MaxPacketSize = 3
  Clients = {c1, c2}
  RequestSizes = {3, 4}
  ResponseSizes = {3}
  Capacity = 2
  MaxRequests = 1
  MaxConnections = 1
  NONE = NONE
SPECIFICATION FairSpec
PROPERTY CallsEnd

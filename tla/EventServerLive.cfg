SPECIFICATION Spec
CONSTANTS
  t1 = t1
  h1 = h1
  TcpClients <- OneTcpClient
  HttpClients <- OneHttpClient
  Servers <- TwoServers
  Formats <- FirstFormats
  MaxRead = 1
  MaxRequests <- OneEach
PROPERTIES SignalStops EveryPieceAnswered
CHECK_DEADLOCK FALSE

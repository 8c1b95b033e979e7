CONSTANTS
  Pools <- MCPools
  Addrs <- MCAddrs
  IPv4 <- MCIPv4
  InitViews <- MCViews
  Orders <- MCOrders
  Requests <- MCNoPort
  KeyChars <- MCKeyChars
  Crc32 <- MCCrc32
  HashRange = 65536
  MaxChanges = 2
  MaxRequests = 1
SPECIFICATION Spec
INVARIANT MissingPortRejected
\* MaxRequests ends every behaviour.
CHECK_DEADLOCK FALSE

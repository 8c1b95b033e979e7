CONSTANTS
  Pools <- MCPools
  Addrs <- MCAddrs
  IPv4 <- MCIPv4
  InitViews <- MCViews
  Orders <- MCOrders
  Requests <- MCHelpExample
  KeyChars <- MCKeyChars
  Crc32 <- MCCrc32
  HashRange = 65536
  MaxChanges = 2
  MaxRequests = 1
SPECIFICATION Spec
INVARIANT HelpExampleSetsLogLevel
\* MaxRequests ends every behaviour.
CHECK_DEADLOCK FALSE

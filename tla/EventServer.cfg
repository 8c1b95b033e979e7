SPECIFICATION Spec
CONSTANTS
  t1 = t1
  h1 = h1
  TcpClients <- OneTcpClient
  HttpClients <- OneHttpClient
  Servers <- ThreeServers
  Formats <- SomeFormats
  MaxRead = 2
  MaxRequests <- TwoEach
INVARIANTS TypeOK InTurnServed HttpRepliesInStep ExitExplained AnswersCoverInput
PROPERTY TalksAsDialogue
CHECK_DEADLOCK FALSE

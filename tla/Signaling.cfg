SPECIFICATION FairSpec
CONSTANTS
  Requests <- MCRequests
  Acks <- MCAcks
  Gateways = 2
  QueueDepth = 1
  Size <- MCSize
  MaxWire = 2
  NoOne = NoOne
INVARIANTS EventsConserved AnswersReachTheirRequest
PROPERTIES LostLinkNoticed EventsHandled
CHECK_DEADLOCK FALSE

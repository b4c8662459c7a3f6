SPECIFICATION Spec
CONSTANTS
  Null = Null
  Base = 20
  Ascii = 10
  MaxRelay = 2
  Code <- MCCode
  RequestId <- MCRequestId
  Broadcasts <- MCBroadcasts
  Calls <- MCCalls
  Headers <- MCHeaders
  Data <- MCData
INVARIANTS NothingGarbled ReadsToTheEnd

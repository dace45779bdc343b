CONSTANTS
  s1 = s1
  s2 = s2
  c1 = c1
  c2 = c2
  k = k
  v1 = v1
  long = long
  Server = {s1, s2}
  Client = {c1, c2}
  Key = {k, Empty}
  Value = {v1, long, Empty}
  Empty = Empty
  Long = {long}
  NULL = NULL
  Walks <- MCWalks
  Args <- MCArgs
  CharMax = 127
  Calls <- MCCalls
  InOrder = FALSE
  Lossy = {"request", "reply"}
  MaxCrash = 1
  MaxCopies = 1
  MaxPackets = 2
SPECIFICATION ASpec
INVARIANTS TypeOK ReadsOnlyWhatWasPut Durable EverySendAccounted NotFoundIsTrue
PROPERTIES PutFailsOnlyByLoss EachStepNearsTheEnd OperationsReturn
CHECK_DEADLOCK FALSE

CONSTANTS
  operator = operator
  onlooker = onlooker
  a = a
  Callers = {operator, onlooker}
  Nobody = Nobody
  MaxBacklog = 2
  Ids = {a}
  NoId = NoId
  Requests <- MCRequests
  MayAsk <- MCMayAsk
  NoRequest = NoRequest
  Volumes = {a}
  MaxLines = 1
  Faults = {"volumes"}
  PanicSteps = {"volumes", "wait"}
SPECIFICATION FairSpec
INVARIANTS ReadsAreRegular CleanStopIsTrue
PROPERTIES NoAppAfterUnmount MutationsAreAtomic EveryRequestEnds
CHECK_DEADLOCK FALSE

SPECIFICATION FairSpec
CONSTANTS
  Ids = {1}
  Encryption = {FALSE}
  Images = {"ready"}
  Operations = {"stop", "destroy"}
  Pages = {"spaces"}
  Searches = {}
  Elsewhere = {"state", "create", "destroy"}
  Failures = {"read", "late", "partial"}
  MaxTrouble = 2
INVARIANTS ListFollowsActions EveryAnswerHasAnOwner
PROPERTIES ListConverges
CHECK_DEADLOCK FALSE

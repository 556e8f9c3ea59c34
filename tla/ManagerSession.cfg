SPECIFICATION Spec
CONSTANTS
  Ids = {1, 2}
  Encryption = {TRUE}
  Images = {"unbuilt"}
  Operations = {"create", "build", "update-image"}
  Pages = {"spaces", "images"}
  Searches = {{1}, {1, 2}}
  Elsewhere = {}
  Failures = {}
  MaxTrouble = 0
INVARIANTS DetailsOfSelected DetailsFollowActions ProfilesFollowActions NeverWithoutPassphrase
PROPERTIES CreatedSpaceIsSelected
CHECK_DEADLOCK FALSE

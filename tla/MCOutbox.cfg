CONSTANTS
  api = api
  j1 = j1
  None = None
  Jobs = {j1}
  Workers = {api}
  Api = api
  LastGroup = 1
  MaxAttempts = 2
  MaxCrashes = 1
SPECIFICATION FairSpec
INVARIANTS
  AtMostOnce
  OutcomesHonest
  FollowOnsAfterPrimary
  OkMeansAccepted
  OwedKept
PROPERTIES
  OutcomesAreFinal
  WorkSettles
  SentEventuallyFiled
  ImplementsOneShot

CONSTANTS
  api = api
  j1 = j1
  None = None
  Jobs = {j1}
  Workers = {api}
  Api = api
  LastGroup = 1
  MaxAttempts = 1
  MaxCrashes = 0
SPECIFICATION FairSpec
PROPERTY StaleUnclaimedEnds

CONSTANTS
  Servers = {s1, s2}
  Jobs <- MCJobs
  Kind <- MCFileAndUrl
  Pages = 2
  Contents = {c1}
  Limit = 2
  MaxCrashes = 1
  None = None
SPECIFICATION FairSpec
PROPERTIES ClaimInOrder RunOnce CancelledStays ImplementsQueue JobsSettle

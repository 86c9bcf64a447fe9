CONSTANTS
  Servers = {s1}
  Jobs <- MCJobs
  Kind <- MCUrls
  Pages = 1
  Contents = {c1}
  Limit = 2
  MaxCrashes = 0
  None = None
  Dispatches = {d1, d2}
  Editors = {}
  MaxEdits = 0
  PageErrors = FALSE
SPECIFICATION KbFairSpec
PROPERTIES  Spec 

CONSTANTS
  Servers = {s1}
  Jobs <- MCJobs
  Kind <- MCKinds
  Pages = 1
  Contents = {c1}
  Limit = 2
  MaxCrashes = 1
  None = None
  Dispatches = {d1}
  Editors = {e1}
  MaxEdits = 2
  PageErrors = TRUE
SPECIFICATION KbSpec
INVARIANTS KbTypeOK NoHollowCompletion PagesOwedToRepairs
PROPERTIES CompletedImportKeepsItsPage CancelledImportStays

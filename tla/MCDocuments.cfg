CONSTANTS
  Docs = {d1}
  Binary = {}
  DraftKeys = {k1}
  Texts = {t1, t2}
  Original = t1
  MaxDispatches = 2
  Users = {u1}
  MaxTries = 1
  MaxFaults = 1
  Capped = FALSE
  Units = 1
  None = None
SPECIFICATION FairSpec
INVARIANTS DocTypeOK StagedFileKept  
PROPERTIES CancelledRests IngestEnds
CHECK_DEADLOCK FALSE

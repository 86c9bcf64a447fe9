CONSTANTS
  Docs = {d1}
  Binary = {}
  DraftKeys = {k1}
  Texts = {t1, t2}
  Original = t1
  MaxDispatches = 2
  Users = {u1}
  MaxTries = 1
  MaxFaults = 0
  Capped = FALSE
  Units = 1
  None = None
SPECIFICATION Spec
PROPERTY CancelKept
CHECK_DEADLOCK FALSE

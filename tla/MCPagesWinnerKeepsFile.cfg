CONSTANTS
  Calls = {k1, k2, k3}
  r1 = r1
  r2 = r2
  r3 = r3
  Runs = {r1, r2, r3}
  Slugs <- MCSlugs
  Pages <- MCSlugs
  Target <- MCTarget
  Action <- MCAction
  Links <- MCLinks
  Live <- MCLive
  Named = {1}
  Ops = {"put", "create", "delete", "approve", "reject", "undo"}
  MaxTries = 2
  MaxCrashes = 0
  None = None
  Marked = Marked
SPECIFICATION Spec
INVARIANTS WinnerKeepsFile

CONSTANTS
  Servers = {s1, s2}
  Jobs <- MCThreeJobs
  Kind <- MCMixed
  Pages = 1
  Contents = {c1}
  Limit = 1
  MaxCrashes = 1
  None = None
SYMMETRY ServerSymmetry
SPECIFICATION Spec
INVARIANTS TypeOK ExclusiveRun BoundedOvershoot OrphansNeedCrashes

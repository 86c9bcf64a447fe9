CONSTANTS
  Runs = {r1, r2}
  Workers = {w1, w2}
  Triggers = {t1}
  Reviewers = {u1}
  Window = 0
  Cooldown = 2
  Lease = 1
  None = None
SYMMETRY RunSymmetry
SPECIFICATION Spec
INVARIANTS SynTypeOK OneWorker ReviewableRests
PROPERTY VerdictStays

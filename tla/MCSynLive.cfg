CONSTANTS
  Runs = {r1, r2}
  Workers = {w1}
  Triggers = {t1}
  Reviewers = {}
  Window = 0
  Cooldown = 1
  Lease = 1
  None = None
SPECIFICATION FairSpec
PROPERTIES  RunsEnd

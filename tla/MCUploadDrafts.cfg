CONSTANTS
  Drafts = {d1}
  Documents = {j1, j2}
  Imports = {i1}
  Users = {u1, u2}
  None = None
SYMMETRY RequestSymmetry
SPECIFICATION Spec
INVARIANTS DraftTypeOK LiveFileKept  OneLiveDocument

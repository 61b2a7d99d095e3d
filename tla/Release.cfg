CONSTANTS
  Runs = {r1, r2}
  Commits = {c1, c2}
  Hosts = {linux, windows}
  Patches = {additions}
  Flaws <- MCFlaws
  Builds <- MCBuilds
  CheapGates = {c2}
  MaxAttempts = 2
  None = None
SPECIFICATION Spec
SYMMETRY MCSymmetry
CONSTRAINT MCClaimed
INVARIANTS
  PublicIsWholeAndGated
  NoteNamesTheTag
CHECK_DEADLOCK FALSE

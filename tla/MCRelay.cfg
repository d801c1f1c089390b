CONSTANTS
  Builds = {b1, b2}
  Conns = {c1, c2}
  Files = {f1}
  Cap = 1
  None = None
  Failed = Failed
  IOErrors = TRUE
SPECIFICATION RelaySpec
SYMMETRY Symmetry
INVARIANTS RelayTypeOK ActiveJobsHaveArchive JobsAreSingle ResultsAreIntact
PROPERTY NoFileForgotten
CHECK_DEADLOCK FALSE

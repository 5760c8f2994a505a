SPECIFICATION Spec
CONSTANTS
  Users = {"a"}
  Hashes = {"g", "h"}
  MaxLogins = 2
  MaxLoads = 3
  SetsMayBeMissing = FALSE
INVARIANTS EndsOnce LatestIsPlayed
PROPERTIES LoadEnds
CHECK_DEADLOCK FALSE

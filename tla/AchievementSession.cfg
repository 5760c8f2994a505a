SPECIFICATION Spec
CONSTANTS
  Users <- MCUsers
  Hashes <- MCHashes
  MaxLogins = 2
  MaxLoads = 3
  SetsMayBeMissing = FALSE
  RingSize = 4
INVARIANTS PlaysTheRom TokenIsTheUsers ArchiveIsTrue
PROPERTY Settles

\* Tasks that overlap but never acquire at once, killed anywhere, with failing
\* stages and git calls: the lock is the holder's, no key is committed.
SPECIFICATION FairSpec
CONSTANTS
  None = None
  Chains = {a, b}
  Kinds <- AllKinds
  GitFails = {"status", "commit", "push"}
  StageFails = {"server", "report", "behavioral"}
  Spaced = TRUE
  Stale = 2
  Limit = 1
  Writers = {"behavioral"}
  Split = {}
  MaxClock = 3
INVARIANTS HolderOwnsLock KeyNeverCommitted ExitZeroPushed
PROPERTY LockFreed
CHECK_DEADLOCK FALSE

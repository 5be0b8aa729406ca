\* Two tasks that start at the same wake-up and interleave anywhere, every git call
\* able to fail: no finished evidence is lost.
SPECIFICATION Spec
CONSTANTS
  None = None
  Chains = {a, b}
  Kinds <- RealKinds
  GitFails = {"status", "add", "diff", "commit", "push"}
  StageFails = {"report"}
  Spaced = FALSE
  Stale = 2
  Limit = 1
  Writers = {"report"}
  Split = {}
  MaxClock = 1
PROPERTY EvidenceKept
CHECK_DEADLOCK FALSE

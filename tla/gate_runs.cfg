\* Level 2 quarantines and notices that come and go over three bundles on two
\* dates, one template edit, any crash: nothing is written twice, every resolution
\* has its evidence, one notice per trigger, and the page shows it.
SPECIFICATION Spec
CONSTANTS
  None = None
  Absent = Absent
  Triggers <- AllTriggers
  Flags <- Notices
  Inputs <- RunInputs
  Editable = {"template_hash"}
  ReviewRuns = 2
  MaxBlock = 3
  MaxDate = 2
  MaxEdits = 1
  MaxRuns = 3
INVARIANTS WrittenOnce HeavyEvidenced CleanNewBundlePublishes NoticesMatchRecord
PROPERTIES LifecycleKept SettleStable
CHECK_DEADLOCK FALSE

\* A failing stage of a bundle before the report, over a page that passes.
SPECIFICATION Spec
CONSTANTS
  None = None
  Absent = Absent
  Triggers <- AllTriggers
  Flags <- Notices
  Inputs <- PriorInputs
  Editable = {"template_hash"}
  ReviewRuns = 2
  MaxBlock = 3
  MaxDate = 2
  MaxEdits = 1
  MaxRuns = 3
INVARIANT LevelTwoWithholds
CHECK_DEADLOCK FALSE

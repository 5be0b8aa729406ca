\* One report run of two slots, judged or with the judge withdrawn, over every
\* answer of the model within the bounds.
SPECIFICATION FairSpec
CONSTANTS
  None = None
  NSlots = 2
  Parts <- TwoParts
  Section <- TwoSections
  Words <- AllWords
  Stray = {"stray"}
  Normal <- Printed
  Figures <- VerifiedFigures
  TemplateText <- Template
  Criteria = {"LLM-01", "LLM-03", "LLM-04"}
  Kinds = {"contradiction", "untraceable", "generic_span"}
  Drafts <- SomeDrafts
  Replacements <- SomeReplacements
  MaxReplacements = 2
  Findings <- SomeFindings
  MaxFindings = 2
  Failures = {{}, {"LLM-04"}}
  Inputs <- SomeInputs
INVARIANTS OnlyGuardedProse  PublishedIsClean WithheldIsLogged
PROPERTY LoopEnds
CHECK_DEADLOCK FALSE

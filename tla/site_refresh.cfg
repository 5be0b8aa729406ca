\* Two fetches over up to two pages and one report stage, two tokens, answers that do
\* not validate, any fetch or build cut short, and an edit of the wording: what pages,
\* selector and status say, and which pages take their rewrites.
SPECIFICATION Spec
CONSTANTS
  None = None
  Bad = Bad
  Order <- TwoTokens
  Depegs <- GoodDepegs
  Supplies = {"net"}
  Holders = {"full"}
  PageCap = 2
  MaxPages = 2
  MaxFetches = 2
  Reported = {"GHO"}
  MaxReports = 1
  MaxEdits = 1
CONSTRAINT EditsAlone
INVARIANTS RewritesApply StampEverywhere CardQuotesPage NoticeOnEveryPage ShownNotOlder

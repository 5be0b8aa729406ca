# A verification development of the stablecoin factory

The repository turns on-chain reads of four stablecoins (crvUSD, GHO, LUSD,
USDe) into one public report per token. Nothing in it is a server: it is a set of
batch stages that hand files to each other under `out/`, started unattended by Task
Scheduler, killed at 12 hours, restarted over whatever the last run left. What is
hard to test is therefore not one stage but what several runs, crashed runs and
overlapping runs leave behind, and what one read that failed makes of a report
that looks whole. That is what these modules model.

`eventlog.py:150` below is short for `src/factory/eventlog.py`, line 150.

## 1. Inventory

| component | code | state it keeps | operations | correct when |
|---|---|---|---|---|
| event log | `eventlog.py` | `out/logs/events_<token>.jsonl`, append-only | `append`, `open_entries`, `consecutive_quarantined_runs`, `plan_quarantine`, `resolve` | an entry is opened once and closed at most once, over any re-run |
| report gate | `report/__main__.py` `build`, `report/record.py`, `report/manifest.py` | gate record per block, `resolutions.jsonl`, the log, `out/site/<T>` | settlement (A-26), settle loop (B-12), outcome, six writes in a fixed order | nothing is announced over an open quarantine; each resolution has its evidence; a crash between two writes is repaired by a re-run |
| chain | `chain.py` | `chain.lock`, the git index and commits | tree check, lock, stages, key scan, commit, push | one chain at a time, no key in a commit, exit 0 means published |
| harness | `validate/harness.py` | none (results go into the record) | 96 checks in stages S0 to S3, each mapped to pass, fail, error or not evaluated | a check that raises blocks publication |
| LLM prose | `report/llm.py`, `build.generate_all`, `build.evaluate` | generation and judge records | generate, guard, re-ask, judge, one revision, remediation | bounded calls; only guarded text on the page; pass 2 touches nothing but the spans found; an outcome rests on the judgments it claims |
| run assembly | `run.py`, `adapters/crvusd.py`, `adapters/gho.py`, `reads.py`, `logs_pointer.py` | `out/bundles`, `out/raw`, `out/pointer` | assemble at one block, gate, write raw, promote | what a failed read, a short walk or a late log leaves is never more than the truth; nothing is promoted on a Level 3; first-run and prior agree |
| tree | `tree.py` | `out/trees` | fold the latest bundle, link the pair | each minter once; never folds stale inputs; a re-fold settles |
| frozen set | `freeze.py`, `discovery.py` | `frozen/<T>.toml` (owner-signed), the log | freeze, read at every run, DET-10/29(a) | shortest covering prefix; growth outside it stops promotion, a fall inside it is disclosed |
| stress | `stress.py`, `liquidation.py`, `llamma.py`, `gho_cells.py`, `lusd_cells.py`, `depth.py` | `out/stress` | exit-depth block, cells, checks, promotion or rehearsal | depth and target are the bundle's own; cells are monotone along their axes; a failed read never hides a loss |
| behavioral | `behavioral.py` | snapshots per token, `status.json` | paged fetch, validate all, write all | all tokens or none; status tells the last run |
| site | `site.py` | `out/site/*.html`, `site.json` | plan everything, then write | a page agrees with its record, log and snapshot |
| table, rendering, configuration, spot checks, tools, the LUSD and USDe adapters | the rest | none | straight-line assembly and formatting | not modelled, see section 8 |

How they interact: only through files. `chain` starts the stages as child
processes and reads their exit code and output; a stage finds its input as *the
latest file* of the stage before; the report gate reads and appends the one log
that the site renders; the chain commits and pushes everything under `out/`,
including what a failed stage left. The frozen set is read by three stages (run,
stress, report) at three times.

Hard behaviours: two tasks at one wake-up (`docs/scheduler.md`: a missed start
runs at the next wake-up); a kill between any two writes; re-runs over the same
bundle and several bundles on one UTC date, which share the keys of the log; rows
that read the log their own failure changes; stale lock files and reused process
ids; git calls that fail unnoticed; calls of a batch that fail one by one and
become a default, a zero or a missing row; a chain that moves between two reads; a
signed file that changes between two folds; a model that may answer anything, or
nothing. `PROJECT.json` lists each at its line.

## 2. Modules

| module | what it is | code |
|---|---|---|
| `EventLog` | log lines and the plan over them, as operators on sets | `eventlog.py` |
| `QuarantineLifecycle` | abstract: what a reader of the log and the site is promised | (specification) |
| `ReportGate` | the report stage as a state machine with crashes; refines `QuarantineLifecycle` | `report/__main__.py`, `report/record.py`, seven checks of `validate/harness.py` |
| `PromotedFlags` | `ReportGate` where passing checks fire notices only | what `run_harness` asks of a promoted bundle |
| `RevisionLoop` | one report run with the model: draft, guard, judge, one revision, judge again, remediate, outcome | `report/llm.py`, `build.evaluate`, `build.generate_all` |
| `Chain` | overlapping chains over one working copy | `chain.py` |
| `Behavioral` | fetch of the behavioral tier, cut short anywhere | `behavioral.py` |
| `Site` | site builds over snapshots, pages and records; EXTENDS `Behavioral` | `site.py`, `build_without_banner` |
| `Store` | bundles, raw files, trees, stress artifacts, reports by block number | `run.py`, `logbook.py`, `tree.py`, `stress.py` |
| `Totals` | a sum over a finite set | |
| `PoolWatch` | the freeze and the watch kept on it | `freeze.py`, `discovery.py`, DET-10, DET-29(a) |
| `ExitDepth` | the exit-depth block folded over what `PoolWatch` promoted | `stress.py`, DET-24, 29(b), 30, 31, 35, 50 |
| `CrashPath` | one liquidation pass: LLAMMA bands, Liquity troves, Aave positions | `liquidation.py`, `lusd_cells.py`, `aave.py`, `gho_cells.py` |
| `Cells` | a stress run over a book, with reverted calls and the checks over its cells | `stress.py`, `gho_cells.py`, `lusd_cells.py`, DET-40 to 44, 46, 48, 49, 51 |
| `Depth` | the solver of `pool_depth` | `depth.py` |
| `Assembly` | a GHO bundle from reads that fail one by one, its gate and tree | `adapters/gho.py`, `logs_pointer.py`, `rpc.py` |
| `Controllers` | a crvUSD bundle over a chain that moves, its gate, tree and keeper room | `run.py`, `reads.py`, `disclosure.py`, `tree.py`, `llamma.py` |
| `MC*` | the constants and the small worlds TLC is given | |
| `*_proofs` | theorems: `ReportGate`, `RevisionLoop`, `Chain`, `Site` (with `Behavioral`), `Store`, `Totals`, `ExitDepth` (with `PoolWatch`, `Depth` and `Cells`), `Assembly` (with `Controllers`) | |

**EventLog.** A log is a sequence. The readers take the *set* of quarantine
lines, because an entry is open or closed by which lines are present; only
DET-59's counter (lines after the last `published`) and DET-60's count look at
positions. A line's key leaves out the token (one log per token) and keeps date,
trigger, level: the fact that two bundles of one date share keys is in the model.

**ReportGate.** One `Report(in)` step is everything `build` does before its first
write. It is one step because until then the stage has only read files nobody
else changes (the chain's lock serialises stages; `Edit` and `NewBundle` wait for
`job = None`). The steps after it are the writes in the order of the source:
`WriteRecord` (781), `WriteEvidence` (784), `AppendLine` per line (788), `AppendPublished` (791),
`RemovePage` (803), `CopyPage` (805); `Crash` is enabled between any two. `Settle`
unrolls the four passes of the loop (467-512): a pass plans the log from the
failing rows of the pass before and re-runs the S3 rows over that plan. Hashes
are version numbers per artifact. The check rows that read the log, the record or
the site (DET-59, 60, 87, 13(a), 13(d), 80, 85) are computed; every other row is
an input of the run, so `Input` is all the model assumes about the 96 checks. `flags` are
the triggers that passing rows fire, of any stage, each with its level; they fire in every
pass. `PromotedFlags` says what is known of them: `run_harness` raises on anything above
Level 1 (`harness.py:872-873`), so a promoted bundle's fire notices, but for DET-62, which asks
its two sources again at the report (section 7). A row that takes no part in the
log or the site is one of the row `body`, DET-79 among them (213-215).

**RevisionLoop.** A text is a sequence of words, a span a run of them, and a missing slot
the empty text. `ReplaceSpan` applies one replacement of the model's answer: its span must
be one of the slot's defects and stand in the text *as the replacements before it left it*,
and the first place that reads like it there is cut, wherever that is
(`ReplaceFirstSubSeq`). `ReviseAccepted` normalises and guards what they leave. `Stray` stands
for the words the guard rejects, `Normal` for the two rewritings that come before it
(percentages to their printed form, dashes). The model's
answer is an arbitrary member of `Drafts`, `Replacements`, `Findings`,
and a failed call is always possible. A judgment is one step: its scoped calls do
not see each other's answers and only their union is used; a criterion of which a
call failed is in `erring`. `GuardVerified`, `Located` and `InScope` are the three
discards in the order of the code; a span that fails the second is *lost*, one that fails the
first or third is not. `Finish` is the last `settle` and the outcome rule; what then
is written is `ReportGate`'s part, where the failing rows are an input. `crashed` is
the KeyError of section 7.

**Chain.** `pc` labels stand for the points between two effects on shared files. `Probe` is
`Lock.acquire` up to its decision, `UnlinkDead`, `UnlinkStale` and `WriteLock` its separate
file operations, so a second process can come in between. A stage writes a change in two
halves (`StageWrites`, `EndStage`); a failed or killed stage leaves half of one, and any
change may carry a key. The behavioral and site files are one for all runs and are written
over; a token's carry its block (`SameFile`). `OnDisk` is the working tree over the index:
`git add` stages it, `git diff --cached` names what is staged, and `KeyHits` reads the files
of those names on disk, where a name with a space is in pieces (`Split`, 266) and no file.
`Exit` clears a process's variables when it ends. `Spaced` says whether two tasks may be
inside `Lock.acquire` at once.

**Behavioral.** A fetch goes through `depeg`, `supply`, `hci`, `trim`, `write`, `status`,
one answer a step; `HttpError` is BehavioralStop, `Abandon` an exception nobody
catches or a kill at any point. A stamp is the number of the fetch; a snapshot is
what a page tells apart in it.

**Site.** Every form that a build looks for is found by its words: `wording` has a version
of each of the four (the links, the tier sentence, the heading, the reader sentences),
`EditWording` changes one while no stage runs, and a page carries the versions it was
rendered or rewritten with. `Original` undoes what it finds in *today's* words only and
`Rewritable` asks what `apply_rewrites` must then find. `Plan` reads and checks everything
and computes every file, `WriteFile` writes one, `CutShort` ends a build between two.
`Report(t)` is what a report stage leaves behind of page, rehearsal page (`stages`) and
record, whole or half; `PublishByRuling` the owner's `--publish-without-banner`. No two of
them run at once (`Quiet`): the chain runs its stages one after the other.

**Store.** A bundle is its token, run number (its hash: the header holds the start
time), block, market count, first-run flag and sheet version. `Assemble` pins a
block and gates (DET-63, 77, 86); `WriteRaw` and `Promote` follow, or `StopRun`. `Tree`,
`Stress` and `Report` take the latest file by number and compare hashes as the code
does. Raw files have no token in their name.

**PoolWatch, ExitDepth.** The world lists pools and changes their value; a freeze is
`build_freeze`, a run reads rows (any of whose balance reads may fail), and
DET-10/29(a) decide over them. `ExitDepth` folds the promoted bundle with the set
file as it is at the fold: K-subsets by value, one shape per pool found by probing, venues
by fee, the Member-2 candidates and their target, the six checks, and `Fill`, by which the
owner copies a rehearsal's target into the file. A market (`Markets`) says how
`pool_depth` ends for each pool, each shape it may be taken for and each point of the curve:
at the bound, with no depth because the pool is below it already, cut by the pool's
balance, or with no bracket found (`DepthError`); and what the pool's own contract
pays for that size, or that it refuses `get_dy`. `WithinEpsilon` compares that payment with
the bound to 5 basis points, as `stress.py:395` and DET-31 do.

**CrashPath, Cells.** One step per part of the fold (`FoldCrash`, `FoldDepeg`, `FoldJoint`,
`FoldReport`), then `Emit`. `reverted` is the set of calls that reverted: a required one
stops the run, an optional one (a reserve's price or decimals, a position's eMode)
becomes a value. Prices and ratios are whole numbers of 1/`One`; every floor of the
code is a `\div`.

**Depth.** One step per iteration. The pricing function is an input: which sizes price
below the bound, which cannot be delivered; neither set need be an interval.

**Assembly.** A run is a sequence of batches, each with a set of calls that fail (at
most `MaxFails`); what a failure leaves (an unresolved class, a missing row, a zero, a
default) is in the operators that read it. `Window` cuts the event-log walk. Instances
have two orders in the code: they are read, and listed for a node, in the order of GHO's
facilitators (`Listed`), and asked for an asset nobody holds in that of their addresses.
`Near` is DET-82's comparison of the rows' sum with the debt token's, to one part in `Parts`
(10^9 in the code).

**Controllers.** The external chain moves (mint, burn, interest, fees, ceilings, the
factory's admin and the regulator's emergency admin) between runs and between a run and
its confirming legs; the keeper walk may end early, the logs lag, `totalSupply()` is
misread; only the pools of the keepers the walk came to are asked. The absence scans
(561-567) read code that does not change. The oracle window is computed over any address
graph.

## 3. Runs

| run | question | bounds |
|---|---|---|
| `gate_runs` | `WrittenOnce`, `HeavyEvidenced`, `CleanNewBundlePublishes`, `NoticesMatchRecord`, `SettleStable`, refinement `LifecycleKept` | 3 bundles on 2 dates, 1 template edit, 3 report runs, a crash between any two writes, `ReviewRuns = 2` |
| `gate_level_two` | `LevelTwoWithholds`, a sentence of the repository the code does not keep (section 7) | the same |
| `loop_judged` | `OnlyGuardedProse`, `OutsideSpansVerbatim`, `PublishedIsClean`, `WithheldIsLogged`, and that it ends: `LoopEnds` | 2 slots, the second in two parts; 4 words, one stray and one normalised to another; up to 2 replacements in an answer and 2 findings in a judgment |
| `chain_spaced` | `HolderOwnsLock`, `KeyNeverCommitted`, `ExitZeroPushed`, `LockFreed` under kills, failing stages and git calls | 2 chains, clock to 3, `Limit = 1 < Stale = 2`, the behavioral stage writes |
| `chain_race` | `EvidenceKept` with no assumption on how tasks interleave and every git call able to fail | 2 chains, the report stage writes |
| `site_refresh` | `RewritesApply`: only a page of before an edit stops a build at its rewrites; `StampEverywhere`, `CardQuotesPage`, `NoticeOnEveryPage`, `ShownNotOlder` | 2 tokens, 2 fetches of up to 2 pages, 1 report stage and 1 ruling of one token; 1 edit of any form, with 1 fetch |
| `store_runs` | `OneOrigin`, `NoUnseenLoss`, `RefoldSettles` | 2 tokens, blocks 9 to 11, 3 runs, 2 sheet versions |
| `exit_pools` | `FreezeIsShortest`, `GrowthIsNeverPromoted`, `FallIsDisclosed`; of the folds `StressInputsTrue`, `FoldHasCause` | 4 pools, 2 tokens, 2 moves or failed balance reads, 1 before a fold; 9 markets: a pool misread within the tolerance or past it, sunk, cut by its balance, not bracketed, deaf |
| `cells` | `OutcomeHasCause`: the checks over the cells fail, and the fold stops, only for a named cause; `LossNotHidden`: a failed read never hides a loss | some thousand books of three tokens, two pools |
| `depth` | `DepthBracketed`, `CurveRises` | 3 bounds, every smooth curve over 26 sizes, every uneven one over the 5 sizes the smallest pool's brackets ask for; 1 bound, every rough one over 9 |
| `assembly` | `NeverOverstated`, `GsmSideWhole`, `DebtIsComplete` | 2 instances, 2 borrowers, 4 reserves, 2 GSMs, 2 runs, 3 failing reads |
| `controllers` | `TreeCountsEach`, `HeadroomWithin`, `SupplyShownWithin`, `WindowIsMax` | 2 markets, 2 keepers, 2 runs, 3 moves and slips in all, 4913 oracle graphs |

Why the bounds are enough.

* *Gate.* Three bundles on two dates give both cases that matter: two bundles of one
  date (shared keys) and a bundle of a later date (which counts towards DET-59). Three
  report runs give fire, crash, re-run or fire, settle, fire again. `ReviewRuns` is 4 in the
  code; 2 reaches "Under review" within the three bundles, and nothing but the
  comparison reads it. No input has a failing S2 row, for the reason section 7 gives
  (an unrendered page settles without evidence).
* *Chain.* Two tasks are enough for every pairwise interleaving; the invariants are proved
  for any number. `chain_spaced` leaves `add` and `diff` out of `GitFails`: the code drops
  their result. With `add` a chain ends in "nothing to commit" and exit 0; with `diff` the
  words of git's message are taken for file names, none exists, and the index is committed
  unscanned. The theorems have the same hypotheses. What is written is a file that runs
  share where the scan is in question, since only such a file can differ between index and
  disk, and a token's evidence in `chain_race`. No stage of `PLAN` writes a name with a
  space, so `Split` is empty.
* *Loop.* Two replacements are what one takes that changes what the next finds: the first
  may end in a word that completes a span again, or bring in the words of another. Two slots
  in two sections are what carrying one and revising the other takes, and two findings what
  a judgment takes to have one confirmed and one not. The starting points cover a clean
  start, failing and erring earlier stages, an older entry this run can or cannot resolve, a
  report already published, and the judge withdrawn; the proofs take them all.
* *Site.* A second fetch meets the leftovers of a first; two pages give a token found
  on the second; report stages of one token (`Reported`) leave the other as the page
  nobody touched, and one ruling comes after the last report stage. One edit of
  any form comes at any moment no fetch or build runs, with one fetch in all (`EditsAlone`):
  a build then meets pages of before it, rebuilt, half rebuilt or not at all, and of after it.
  The theorem takes any number of edits and fetches. Versions never return to earlier words.
* *Store.* Three runs are what prior, stopped and next take; blocks 9 to 11 make the
  file names of unequal length (`latest` sorts by number, a sort by name would differ).
  The two tokens are exchangeable in every definition, so they are a symmetry set.
* *Exit pools.* The watch starts from every set of values and moves the world twice. Where
  folds are looked at (`mode`), each token's world moves once, from three sets of pools (in
  which each threshold can be crossed by one move), and stands still over every other. The
  constraint `ReadAgain` drops what follows a fold nothing reads again: only a rehearsal
  that names a target is read, by `Fill`; of rehearsals of one bundle that name the same
  target the one every probe answered stands for the others. One pool at a time is out
  of the ordinary; the proofs take any market.
* *Assembly.* One unit in fifty stands for DET-82's one in 10^9: a borrower owing 1 of 61 is
  below it, one owing 60 is not.
* *Cells.* Books are small enough to enumerate and have each borderline: a position in
  and between bands, a pool smaller than one trove, an empty pool, a closed GSM, a
  token without its builder.
* *Depth.* `MaxDoublings` 2 and `MaxIter` 3 let both run out; rough price functions are
  all subsets of the sizes, and the uneven ones put each bound at any of the sizes asked for.
* *Controllers.* Two of one kind of event and one of the other: a run between two moves,
  a slip in either run. The graphs are all those of three contracts with at most two
  neighbours.

`CHECK_DEADLOCK FALSE` in every run but those of the site and `depth`: these systems do stop,
when all tasks have ended or the bounds are used up.

## 4. Fairness

`RevisionLoop!FairSpec` asks weak fairness of `Next`: the report stage is one program
that runs on, and every call of the model ends with an answer or at its time limit
(`OllamaClient`, 3600 s). `LoopEnds` then says that no answer makes it ask for ever.

`Chain` has `LockFreed`. Its `FairSpec` asks weak fairness of
`Step(c)`, the moves a started process makes by itself: none of its calls waits for
another chain, and the stages' requests carry timeouts. Nothing is assumed of
kills, exceptions, the clock, the scheduler or the owner. Every other module is
checked for safety only: nothing obliges anybody to run a stage again.

## 5. What is proved

`tlapm` proves the following for every value of the constants that satisfies the
`ASSUME`s, which TLC evaluates in each run. Where a theorem has a hypothesis of its own
it is named; nothing else is assumed.

**Chain** (`Chain_proofs`). `TypeCorrect`; `LockIsTheHolders` (`HolderOwnsLock`),
`KeysStayPrivate` (`KeyNeverCommitted`), `ExitZeroIsPublic` (`ExitZeroPushed`) under
`Spaced`; `EvidenceSurvives` (`EvidenceKept`) without it. `HolderOwnsLock` is not inductive:
the invariant adds that at most one chain is acquiring, that a chain past its probe has seen
what it acts on, that the lock's time is not before its holder's start, and that no live
task is older than `Limit`. With `Limit < Stale` a live holder's lock is never stale, so
nobody but its holder removes it. For the keys: only the lock's holder writes and stages, so
while it is past `git add` the working tree is the index (`DiskIsIndex`), what it reads on
disk is what is staged, and that stays keyless until it commits (hypotheses: `git add` and
`git diff` work, no name is broken). Without the lock neither holds (section 7). For exit
0: the invariant says at each point of the program where the chain's own changes can be,
unstaged, staged, ahead or pushed (hypothesis: `git add` works). Evidence needs no lock: a
step can only remove the half-written changes of the stage it ends, and a token's files are
not written over.

**Report gate** (`ReportGate_proofs`). `GateTypeCorrect`, `NothingWrittenTwice`
(`WrittenOnce`), `LifecycleImplemented` (the refinement), `ResolutionsAreEvidenced`
(`HeavyEvidenced`), `NoticesAreTheRuns` (`NoticesMatchRecord`), `CleanRunsPublish`
(`CleanNewBundlePublishes`), `SettleLoopRests` (`SettleStable`). They are about
`PromotedFlags`; those that count notices or rows use that a passing check fires at Level 1
(`FlagsAreNotices`). `GateInv` adds to `TypeOK`: a resolution line's fire line is in the
log; what a running stage has left to write is what the plan over the *current* log would
still write (so appending a line takes exactly that line out of the plan); a stage that will
publish leaves no heavy entry open. The refinement follows step by step. Evidence: it is
written before the line it attests and superseded only for keys not closed yet. Notices: the
run's own DET-60 held its plan to one open notice per trigger, and the log phase only moves
lines from the plan to the log, so a bijection counts them. Clean runs: for a bundle not
reported before `bundle_hash` differs from every fire run, so a clean pass closes and
evidences every entry and counts one notice per flag; the next pass sees the same and the
loop is stable. Evidence and clean runs assume that every run renders its page (`in.ok`):
the code settles without evidence otherwise (section 7).

The settle loop: four passes are enough from every reachable state. The rows of a pass
depend on three things only (`PassRows`): the Level 1 pairs it fires, whether its page
stands under review (DET-13(a)), whether it would stand where this bundle's own page shows
(DET-13(d)). For DET-60 that takes `WrittenOnce` (an entry above Level 1 is counted
once), for DET-87 that what a green pass closes always has its evidence. A pass that sees
13(a) or 13(d) is not green and fires above Level 1 at least what the one before
fired (`PairsKept`), so what stood open stays open: a review never ends within the loop,
and the notices change only when one begins (T-28 over its emptied slots). A pass
held back by 13(d) might still fire enough for the next to stand under review, which ends
13(d); it does not, since `PageDated` says that what is open over this bundle's own page was
fired on this bundle's date, one date, while a review takes `ReviewRuns` of them (at least
2, by assumption; 4 in the code). `SettleInv` keeps
that through edits, new bundles and crashes; then two neighbours of four passes are alike
(`TwoAlike`).

**Revision loop** (`RevisionLoop_proofs`). `LoopTypeCorrect` and six safety properties, for
any number of slots, parts, words, criteria, findings and replacements and any answers.
`VerbatimOutsideSpans` (`OutsideSpansVerbatim`) carries a map from the pass-1 words in no
defect of the slot to their places in the text through every replacement (`ReplaceKeeps`):
the place that is cut reads like a defect's span, so none of those words stands in it,
wherever it is, and the others keep their order. `LoopInv` adds: every accepted text is made
of words normalisation leaves alone (a revised text is normalised as a whole),
pass-1 texts are kept exactly from the revision on, a verdict handed to the
remediation is well formed, and no outcome is there before the end. Normalisation being
idempotent is an assumption of `LoopAssumption`.

**Site** (`Site_proofs`). `StampsAreEverywhere` for fetches alone, then with builds and
report stages in between; `RewritesAlwaysApply`, `CardsQuoteTheirPages`,
`NoticesAreEverywhere`, `NeverOlderThanStatus`. `FetchInv` says what a fetch holds in each
phase and that every token's snapshot of the running fetch is written or still on its
list; no stamp is ahead of the fetches. `SiteInv` adds: until a build ends its plan
agrees with the pages it found (nothing else runs), each file is written as planned or
still on the list, and a finished build left what store, status and records say. For the
rewrites: whatever forms a page has, no version of them is ahead of today's; one that was
rendered in today's words has each form either as rendered or as a build of today's words
left it, which `Original` finds (`TodayReader`). That is kept by every cut build, edit and
publication (`AllKept`), so a build that stops has met a page of before the last edit.

**Store** (`Store_proofs`). `ReportsHaveOneOrigin`, `LossesAreSeen`, `OneRefoldSettles`. The
invariant: a bundle is filed under its own token and block, runs rise with blocks, a tree
lies beside a bundle of its run, and the gate a run passed is still true when it promotes (a
later bundle would have to be of a later block).

**Frozen set and exit block** (`ExitDepth_proofs`). `GrowthStopsPromotion`, `FallsAreNamed`,
`FreezesAreShortest`, `StressInputsAreTrue`, `FoldsFailForCause`. `WatchInv` relates the set
file, the last promoted bundle and the world. Growth and fall: the detectors of the
promoting run give the rest. Inputs: a promoted fold's K90 pools pass DET-31, so each meets
the headline bound to 5 basis points in the eyes of its own contract, whatever shape it was
solved as. A contract that pays no better price for a larger size then puts that depth
between its own at the points on either side (`AnswersOrdered`, `DepthsBetween`), and where
no pool was taken for another the depths are equal (`SameDepths`). `blind` names the pools
that were taken for another where nothing shows it: an NG pool of the K90 subset (the
multiplier of its fee is a matter of a few basis points), a pool of it that is at the bound
before anything is sold, a metapool outside it; a failing fee read only removes a venue;
DET-50 compares the target. Causes: K-subsets grow with K, so DET-30 holds; a curve rises
unless a pool's balance cuts it, and a pool solved at the headline bound by its own formula
pays it, so DET-31 fails only for one that is below the bound or cut. Shortest: the prefix
is a front of a total order (`Ahead`), and no set of the same size is worth more than a
front (`FrontIsWorthMost`, by exchanging one pool at a time). Three assumptions say what a
market is. `SolverAssumption`: what `Depth` shows of `pool_depth`. `ContractAssumption`: the
port of a pool's own formula is exact, its contract pays no better price for a larger size,
and no point of the curve is within 10 basis points of the headline. `BaseAssumption`: a
base LP is worth more than par by more than the tolerance (1.0398 in
`config/lusd_labels.toml`), so a metapool taken for a plain pool shows.

**Sums** (`Totals_proofs`). Facts about sums over finite sets (one element more, monotone,
bounded, exchange, join, term by term) on which the proofs of the exit block and of the
two assemblies stand. The folds of the community modules are defined by recursion on the
set; instead of an induction theorem, which needs an operator as a parameter, each fact is
proved from a *smallest counterexample* (strict inclusion is well founded on finite sets).

**Solver** (also in `ExitDepth_proofs`). `DepthIsBracketed` (`DepthBracketed`): `DepthInv`
says what each end of the bracket is known to be in each phase (the top is below the bound,
or cannot be delivered; the bottom sells), and an answer is the two ends at its return.
`CurvesRise` (`CurveRises`): two calls widen over the same edges and halve the same brackets
until the price at some size is below the narrower bound only; from there on the second
keeps to the right of what the first found. So `RiseInv` remembers, for the call that runs
and the one before, the edges it widened over (`Doubled`), the brackets it halved (`Trail`)
and how the two stand to each other (`Beyond`). Nothing is asked of the shape of the pricing
function but what `_below_bound` gives: one price is compared with every bound, and a size
`get_dy` refuses counts as below all of them, so what is below a wider bound is below a
narrower one (`DepthAssumption`).

**Cells** (also in `ExitDepth_proofs`). `LossesAreNotHidden` (`LossNotHidden`), for any GHO
book, sell sides, shocks and failed calls. A failed read lowers some ratios, so `crash_path`
takes the positions in another order, and each absorbs from what the ones before left; the
bad debt is the same in any order. The order is given by ranks (how many rows come
before one); no two rows have the same, so it is a permutation (`AscendingPermutes`). The
pass is a fold; whatever the capacity, what it books is the sum of what each position loses
by itself (`PassSums`, `OrderIsNoMatter`), and the sum of a permutation is the sum
(`TotalPermuted`, by `TotalInjection` both ways). A position read with a reserve missing or a
lower threshold is worth no more, falls below 1 where the whole one does, and leaves GHO no
smaller part (`HealthFalls`, `PartType`: every floor of the code keeps the order). So the
sums compare term by term. `BooksAssumption`: figures are numbers, and a category's threshold
is no lower than its reserves' (Aave's rule for a category; the code does not look. Were
one lower, a failed `getUserEMode` would read as the higher one and could hide a loss).

**Assembly** (`Assembly_proofs`). `NothingIsOverstated`, `GsmSidesAreWhole`,
`DebtsAreComplete`. A row read over failing calls is no more than the row every call would
have given (`TrueOf`): the same collateral or less, the same debts or zero. Rows map one to
one into true rows, so what is credited to a reserve is at most its true weight
(`WeightBelow`, by `TotalInjection`: each term has one of its own in the other sum that is
no smaller); a price is the true one or zero, and a unit that is not read is taken larger,
never smaller (`Unit[r] \in 1 .. DefaultUnit`: no reserve has more than 18 decimals, without
which the default would overstate). `JobInv` carries that through the batches: a borrower
has at most one row, rows are of instances already read, and a debt sum is compared with
zero or with the whole debt. The gate gives the rest: DET-82 lets the two sums differ by
its tolerance only, so the borrowers an instance's rows leave out owe no more than that
together (`Omitted`); DET-63 compares minters with the bundle before, DET-28 lets no box
without a price into a tree, whose value is then its full one.

**Controllers** (also in `Assembly_proofs`). `TreesCountEach` (`TreeCountsEach`),
`HeadroomIsWithin` (`HeadroomWithin`), `SuppliesAreWithin` (`SupplyShownWithin`),
`WindowsAreLargest` (`WindowIsMax`), over any markets, keepers, ceilings, parameters, oracle
graphs and moves of the chain. The first three are not inductive: what a bundle counts can
be held against what was minted only because the chain keeps its books. `Books` says so of
each address: what it holds and has put out is what was minted and given to it plus interest
not collected yet, a ceiling is never above what was minted, and only a listed market earns
interest or has debt. A cause of the residual is then at most what was minted and given
(`CausesBelow`), whatever part of the history was read, and so is the sum of the three ways
an address is counted (`CountedBelow`). DET-15 bounds what is left over (`UncountedWithin`),
and with it how far the supply a tree divides by can be above what was minted and given,
confirmed or not. Room: with fewer peers the sum of roots that bounds a keeper is smaller,
and so is every step of the integer arithmetic on it (`ProvidableGrows`); the adapter's own
minimum with the ceiling keeps a keeper within what it holds (`AllowedBelow`).
`MintersAssumption` is what it rests on: a ceiling that is granted is positive, and no
controller is also a keeper or another facilitator.

Windows: `resolve_ema_window` shares one `seen` over its whole recursion, so a branch may
return without what another has already found; the largest window is right all the same. A
call that has seen more oracles has fewer left, so the recursion is decided from the calls
with none left on (`ResolveExists`; a loop over candidates is a fold, unrolled by
`WalkRuns`), by smallest counterexample again. `Good` says what one call promises the call
that made it: what it returns is a window some chain reaches; and unless the run stops, each
oracle it came to has its candidates settled (a pool's window is no larger than the one
returned, a chained oracle is among those seen). At the top nothing was seen before, so the
settled addresses are closed under the getters and hold all that is reached
(`EmaWindowIsLargest`). `OraclesAssumption`: finitely many addresses, windows in Nat.

## 6. What is only model-checked

* Liveness: `LockFreed`, `LoopEnds` (fairness and ENABLED are out of the prover's reach).
* `OutcomeHasCause`: that DET-40 to 44 hold over every cell is a fact of the run's books and
  not of every book. In a book of a few units the floors alone can make a position worth
  more at a lower price (2 units in a band from 90 to 70: at 80 one unit converts and one is
  left, each worth less than a unit and floored to nothing; at 65 both convert together, for
  1), and bad debt would fall along the axis. Wei make that immaterial; the property as it
  stands has no proof for every book.

## 7. What the code does not promise

One run is one TLC must find violated, against a sentence of the repository.

- `gate_level_two`: an entry's key is (date, trigger, level). After it was resolved over one
  bundle, a second bundle of that date that fires the same trigger opens nothing
  (`eventlog.py:220`), and the report is published with a Level 2 trigger in its record.
  `README.md:34` says Level 2 withholds the report.

Seen while modelling; each shaped a definition, a hypothesis or a disjunct of a
property:

*Log and gate.*
- The settle loop resolves the open entries when no row of the last pass and no gate trigger
  stands (`report/__main__.py:472-478`); what passing checks fired is not looked at. DET-62
  asks its two sources again at the report and fires T-14 at Level 3 when one does not answer.
  If an artifact changed since that entry's run, the run that fires it resolves it and
  publishes. `README.md:35` says Level 3 halts the pipeline for the token (`PromotedFlags`
  leaves it out).
- A replacement that ends where the next word completes its span again, or brings in the
  words of another, makes the next one cut text outside every quoted place of the pass-1 text
  (`llm.py:940`), and the guard accepts it. `llm.py:80` says each names a span of the pass-1
  text, `revise.md:1` that nothing outside the spans changes. What does hold is
  `OutsideSpansVerbatim`: words in no defect of the slot survive in their order.
- The same key on a Level 1 notice: cleared and fired again on one date, it is not
  reopened (`eventlog.py:166`), DET-60 counts no open entry and blocks the report, where
  `README.md:33` says it publishes with a notice. `CleanNewBundlePublishes` therefore
  excludes logs with a cleared notice.
- When the table's S2 row fails, the settlement is logged without its evidence
  (`report/__main__.py:737`), which DET-87 then fails for ever.
- A lost span on a pass (quoted by the judge, not on the page) withholds a page whose rows
  all pass, and `gate_triggers` takes T-24 from failing rows only (110): nothing is logged.
- A slot whose generation failed in pass 1 (A-25: a notice, never a block) is unknown to
  the revision: `pass1[slot]` raises KeyError (650) and the attempt ends without a record.
- A second report over a published bundle appends a second `published` line; a notice
  cleared by `data_correction` needs no value to have changed.
- `publish_without_banner` replaces the page before it writes the record, writes no log
  line, raises on a page without a notices pill after `out/site/<T>` was already replaced,
  and takes the rehearsal of the latest record's block even when that run rendered
  nothing; the next site build then stops on the finding (D5).

*Site.*
- Undoing a reader sentence gives today's tier sentence (`site.py:131`), which need not be the
  rendered one, and `before` is then the hash of a page nobody rendered. `site.py:27` says
  `before` stays the report as rendered.

*Chain.*
- `Lock.acquire` is not atomic (126, 138): two tasks may both take the lock. The key scan
  reads staged files on disk (91); one of them may have written a shared file again since the
  other staged it, and the key is committed, where `chain.py:18` promises no staged file
  with a key is.
- `staged.split()` (266) breaks a name that holds a space into pieces that are no files: such
  a file is committed unscanned. No stage writes one (`Split`).
- The tree is read before the lock (214): a second chain stops with "working tree not
  clean" where `docs/scheduler.md:66` says "busy", and the tree is not read again later.
- `git add` (264) and `git diff` drop their result; a failed push is not retried (256).
- A page set half replaced by a stage that failed is pushed by the chain's tail.

*Reads and assembly.*
- `rpc.py:5` and 86-92 say a failed read never becomes a value; `gho.py` turns a failed
  price into 0, decimals into 18, a debt into a missing row, and a failed POOL() probe into
  an unresolved minter whose instance is dropped. DET-82 is vacuous for an instance without
  a live borrower row (`gho.py:758`, against `harness.py:585-588`), and passes a borrower
  whose debt read failed if it owes less than 10^-9 of the whole (`schema.py:88`). If every
  POOL() fails `read_oracle_rows` raises IndexError. `attribute_nodes`' docstring (840-842)
  gives an unread total debt ratio 1; the code skips it. A reserve without a label row is
  dropped silently (402). DET-65 compares no node that is new or gone (`rubic_v1.md:248`).
- `logs_pointer.py:138` re-anchors after a full window in the middle of a block; its
  docstring says no returned value is one the bundle carries, though `principal` is
  min(ledger, debt).
- A market without loans raises SlotLayoutError and stops the whole run, though
  `reads.py:10` "flags that market" and `rubic_v1.md:365` makes an addition Level 1. A
  cycle or diamond of oracles whose inner contract was seen raises AssemblyStop although
  other windows exist (`run.py:93-100`). A keeper behind a short walk leaves the
  stabilizer line understated and its cause labelled F_OTHER; |sum| of DET-15 can mask
  errors that offset. F_OTHER understates after a ceiling falls below what is deployed.
- `stabilizer_over_supply` divides by totalSupply while DET-16 replays it over
  `supply_ruled`; a non-zero burn-and-mint bridge would always fail it, and is in no cause.
- The exchange-rate disclosure row is never dated because `run.py` passes no `http_get`,
  so DET-76(e) is Level 3; a new admin without an `[[admin_delay]]` row stops the run; the
  confirming legs are read at the head and may reject a correct supply that moved again, or
  confirm a misread one: `SupplyShownWithin` shows that DET-15 then keeps one read too high
  out of a tree. One read too low passes where the keeper walk is short by as much.
- `is_first_run` counts any file, which makes DET-86 vacuous on a re-run; re-running the
  block of the only bundle is a Level 3 (`logbook.py:45`). Level 2 triggers block promotion
  (`harness.py:3872`), so the prior stays the older bundle.

*Frozen set and stress.*
- **A base pool missed behind a pool outside the modelled subset.** A failed `is_meta` probe
  of a metapool that the 90 % subset does not hold changes which base pool expands the
  composites (`member2_candidates` expands every composite by the first base pool read, as
  its comment at `stress.py:444-446` says) and can move the Member-2 target; DET-31's
  truth covers only that subset, though `det_31`'s docstring says "EVERY F pool". The proof
  of `StressInputsTrue` found it: there the property only places the depth (`blind`).
- DET-31 passes a difference of 5 basis points (`stress.py:395`, `harness.py:1726-1730`). An NG
  pool whose `offpeg_fee_multiplier()` probe failed is solved with the static fee, a few
  basis points off, and is promoted with that depth: between the points of the curve on
  either side, as `StressInputsTrue` has it, but not its own.
- A pool of the K90 subset that is below the headline bound already has depth 0
  (`depth.py:322`), one cut by its balance prices above the bound at its cap: both fail
  DET-31, though nothing was misread. A bracket that runs out (`DepthError`) or a pool that
  refuses `get_dy` stops the fold.
- DET-50 re-selects the target per run though `rubic_v1.md:235` says "not re-selected per
  run"; a target of None after a re-freeze fails DET-50 until the owner fills it.
- A failing `getBuyFee` makes the fee 1: the venue is understated in the curve and counted
  whole among the candidates. Candidates are ranked by (asset, basis) row, so an asset
  split over two bases is not summed. K-subsets are ranked by listed value while depth is
  on chain. A pool whose balance read fails at a run may grow unseen; one that returns
  from a baseline of 0 is not flagged; one absent from the API is promoted with value 0
  and T-10(ii) never fires. A structural pool created after the freeze can quarantine.
- `label_paired_assets` (`freeze.py:344`) is unused and `det_11` never raises T-18's level.
- The `cells` trigger is lost: the docstring (`harness.py:2358-2360`) promises it,
  `run_stress_checks` (2490-2494) keeps only string scopes. The crvUSD leg is netted twice
  (`liquidation.py:164`, memo 423). "Conservation is exact by construction"
  (`lusd_cells.py:137`), but a crash without survivors raises LusdError. The JOINT cell of
  GHO always takes the freezer as effective. DET-51 rejects a legitimate zero redemption
  capacity. `structural_zero` raises for GHO without Member-1 bad debt (`stress.py:1192`).
  The builder is chosen by what the bundle holds, not by its token: a GHO bundle without a
  live GSM goes to LUSD's. The LST axis is always built, DET-49 requires it absent when no
  LST backs anything. A failed price (`aave.py:100`), decimals or eMode read becomes a value
  and no check looks: the Member-1 loss only grows (`LossNotHidden`), the Member-2 numerator
  shrinks. `allocate` gives the rounding remainder to the last band.
- `pool_depth` tests the price bound before deliverability, so a capped depth may fall
  from one bound to the next; `CurveRises` leaves capped depths out.
- The USDe fold raises when no asset recurses; a staleness is divided by zero when its
  period is; a stray off-mainnet label raises after promotion; a debt of zero has health
  factor or ratio 0; coverage is rounded to four places.

## 8. Not modelled

Of the model's answers, paragraph breaks within a slot and spans that cut a word in two.
Rendering, tables, wording, configuration parsing, the schema, spot-check sheets and
owner tools: straight-line code over data, without state or order of steps. The LUSD and
USDe adapters and the synthetic token's cells: the same reads in the same shape as the
adapters that are modelled. Of the harness, the rows over fields of one bundle or one
tree: they are inputs of a run. Pool pricing formulas and LLAMMA's band arithmetic: inputs
of `Depth` and `CrashPath`. `PROJECT.json` says of each component what is left out.

## 9. Plan

1. Done: all modules of section 2 with their runs, and the theorems of section 5.
2. If a larger state allows it: `Store` composed with `Chain`, so that the stages of two
   chains that both took the lock meet over the same artifacts.

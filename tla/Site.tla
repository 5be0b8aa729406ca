--------------------------------- MODULE Site ---------------------------------
(***************************************************************************)
(* The static site (factory/site.py) over the behavioral snapshots: `plan` *)
(* checks every fail-closed condition and computes every file, `build`     *)
(* then writes the files that differ, one after the other.  The report     *)
(* stages replace pages and rewrite gate records between two builds, a     *)
(* build may be cut short after any file, and the next one starts from     *)
(* pages that are partly rewritten: the rewrites are undone first (D8),    *)
(* each form found by its words, which templates/wording.toml may have     *)
(* changed since the page was rendered or last built.                      *)
(***************************************************************************)
EXTENDS Behavioral

CONSTANTS Reported,     \* the tokens whose report stages run (model bound)
          MaxReports,   \* how many of them (model bound)
          MaxEdits      \* edits of wording.toml (model bound)

VARIABLES pages,     \* out/site/<T>: the page set
          stages,    \* out/rehearsal/<T>/<run_block>: the rendered page set
          wording,   \* templates/wording.toml: which version of each form it has
          records,   \* out/evaluation/<T>/<run_block>.json of the page's bundle
          site,      \* the files of the site's own: what each shows
          build,     \* the running build: what is planned and left to write
          stop,      \* why the build just run wrote nothing
          built,     \* nothing has changed since the last build ended
          reports    \* report stages so far (model bound)

siteVars == <<pages, stages, wording, records, site, build, stop, built, reports>>
vars == <<behavioralVars, siteVars>>

Outcomes == {"published", "published_without_banner_by_ruling", "withheld"}

\* What the templates put on a page (the hrefs and the nav, the sentence on the
\* behavioral tier, the specialists heading) and what the site puts there (the hrefs
\* and the nav, the reader sentences).  DET-59 fixes the words of the pending literal.
Forms == {"links", "tier", "heading", "reader"}

Wording == [Forms -> Nat]

\* The relative hrefs and the nav without the selector, which no template renders now.
OldLinks == 0

Block == [stamp : Stamps, notice : Status \cup {None}]

\* A page: is it whole, which report text it carries, the wording it was rendered
\* with (template_hash in its manifest), the version of its links, is the pending
\* literal under the heading, its reader sentence and the version of that, the
\* behavioral block by its snapshot.
Page == [whole : BOOLEAN, text : Nat, wording : Wording, links : Nat,
         literal : BOOLEAN, reader : [kind : {"tier", "full", "part"}, of : Nat],
         region : Block \cup {None}]

\* What the templates render.
RenderedPage(text) ==
    [whole |-> TRUE, text |-> text, wording |-> wording, links |-> wording["links"],
     literal |-> TRUE, reader |-> [kind |-> "tier", of |-> wording["tier"]],
     region |-> None]

\* site.css and site.json are written between them and the tokens' pages.
OwnFiles == <<"index.html", "methodology.html">>
ASSUME SiteAssumption ==
    /\ Reported \subseteq Tokens /\ MaxReports \in Nat /\ MaxEdits \in Nat
    /\ None \notin {"page set", "finding", "snapshot", "rewrite"} /\ None \notin Block
    /\ Tokens \cap ToSet(OwnFiles) = {}
-------------------------------------------------------------------------------
(***************************************************************************)
(* What a build reads and plans.                                           *)
(***************************************************************************)

\* Mutant: the notice stays after a refresh that worked.
NoticeKept == status

\* The sentence that says the last fetch failed, none when it did not.
NoticeOf == IF status = None \/ status.ok THEN None ELSE status

\* Mutant: the reader sentence with all four items is not looked for.
PartOnly(page) ==
    [page EXCEPT !.links = IF @ = wording["links"] THEN OldLinks ELSE @,
                 !.literal = @ \/ page.region # None, !.region = None,
                 !.reader = IF @ = [kind |-> "part", of |-> wording["reader"]]
                            THEN [kind |-> "tier", of |-> wording["tier"]] ELSE @]

\* apply_rewrites backwards: each form that is there in today's words of the site is
\* turned into today's words of the template, the block into the literal.
Original(page) ==
    [page EXCEPT !.links = IF @ = wording["links"] THEN OldLinks ELSE @,
                 !.literal = @ \/ page.region # None, !.region = None,
                 !.reader = IF @.kind \in {"part", "full"} /\ @.of = wording["reader"]
                            THEN [kind |-> "tier", of |-> wording["tier"]] ELSE @]

ReaderOf(t) ==
    IF LiquidityShown(store[t][Latest(t)]) /\ SupplyShown(store[t][Latest(t)])
    THEN "full" ELSE "part"

BlockOf(t) == [stamp |-> Latest(t), notice |-> NoticeOf]

\* What apply_rewrites and either_or require: today's heading where a block goes or
\* comes from, every form that is replaced once in its old shape, and a literal where
\* there is no block.  The reader sentence is looked at only for a block.
Rewritable(t, page) ==
    /\ page.region # None => page.wording["heading"] = wording["heading"]
    /\ Original(page).links = OldLinks /\ Original(page).literal
    /\ Latest(t) # None =>
          /\ page.wording["heading"] = wording["heading"]
          /\ Original(page).reader = [kind |-> "tier", of |-> wording["tier"]]

\* apply_rewrites forwards: links, then the block in place of the literal.
Rewritten(t, original) ==
    IF Latest(t) = None
    THEN [original EXCEPT !.links = wording["links"]]
    ELSE [original EXCEPT !.links = wording["links"], !.literal = FALSE,
                          !.region = BlockOf(t),
                          !.reader = [kind |-> ReaderOf(t), of |-> wording["reader"]]]

\* Mutant: the record's finding is not compared with the page (D5).
ComplaintWithoutFinding(t) ==
    CASE ~pages[t].whole -> "page set"
      [] Latest(t) # None /\ ~Renders(store[t][Latest(t)]) -> "snapshot"
      [] ~Rewritable(t, pages[t]) -> "rewrite"
      [] OTHER -> None

\* The fail-closed conditions of token_card, in their order.
Complaint(t) ==
    CASE ~pages[t].whole -> "page set"
      [] pages[t].text # records[t].text -> "finding"
      [] Latest(t) # None /\ ~Renders(store[t][Latest(t)]) -> "snapshot"
      [] ~Rewritable(t, pages[t]) -> "rewrite"
      [] OTHER -> None

Complaints == {t \in Tokens : Complaint(t) # None}

FirstComplaint ==
    Complaint(Order[Min({i \in 1 .. Len(Order) : Order[i] \in Complaints})])

Card(t) == [finding |-> records[t].text, outcome |-> records[t].outcome,
            snapshot |-> Latest(t)]

\* The notices sentence: who was published clean, who by a recorded ruling.
NoticesSentence ==
    [clean |-> {t \in Tokens : records[t].outcome = "published"},
     ruled |-> {t \in Tokens :
                  records[t].outcome = "published_without_banner_by_ruling"}]

\* index.html says the tier has landed when every token has a block.
Own == [cards |-> [t \in Tokens |-> Card(t)], sentence |-> NoticesSentence,
        landed |-> \A t \in Tokens : Latest(t) # None, notice |-> NoticeOf]

Files == OwnFiles \o Order

NoBuild == [left |-> <<>>, own |-> None, pages |-> <<>>]
-------------------------------------------------------------------------------
SiteInit ==
    /\ wording = [f \in Forms |-> 1]
    /\ pages = [t \in Tokens |-> RenderedPage(0)]
    /\ stages = [t \in Tokens |-> RenderedPage(0)]
    /\ records = [t \in Tokens |-> [text |-> 0, outcome |-> "published"]]
    /\ site = [f \in ToSet(OwnFiles) |-> None]
    /\ build = NoBuild
    /\ stop = None
    /\ built = FALSE
    /\ reports = 0

Init == BehavioralInit /\ SiteInit

\* One process at a time: the chain runs its stages one after the other.
Quiet == fetch.phase = "idle" /\ build.left = <<>>

(***************************************************************************)
(* A report stage of one token (see ReportGate): a page set is rendered in *)
(* rehearsal and, when it is published, copied to the site with its record *)
(* already written; a withheld run rewrites the record of the bundle and   *)
(* leaves the page, and one that fails before S3 renders nothing; one cut  *)
(* short leaves half a page set.                                           *)
(***************************************************************************)
Publish(t) ==
    /\ stages' = [stages EXCEPT ![t] = RenderedPage(reports')]
    /\ pages' = [pages EXCEPT ![t] = RenderedPage(reports')]
    /\ records' = [records EXCEPT ![t] = [text |-> reports', outcome |-> "published"]]

Withhold(t) ==
    /\ \E shown \in {stages[t], None, RenderedPage(reports')} :
          stages' = [stages EXCEPT ![t] = shown]
    /\ records' = [records EXCEPT ![t] = [text |-> reports', outcome |-> "withheld"]]
    /\ pages' = pages

BreakPage(t) ==
    /\ stages' = [stages EXCEPT ![t] = RenderedPage(reports')]
    /\ records' = [records EXCEPT ![t] = [text |-> reports', outcome |-> "published"]]
    /\ pages' = [pages EXCEPT ![t].whole = FALSE]

Report(t) ==
    /\ Quiet /\ reports < MaxReports
    /\ reports' = reports + 1
    /\ Publish(t) \/ Withhold(t) \/ BreakPage(t)
    /\ built' = FALSE /\ stop' = None
    /\ UNCHANGED <<behavioralVars, wording, site, build>>

\* --publish-without-banner: the rehearsal page set of the latest record, as its run
\* rendered it, becomes the page and then the record says so; the copy may be cut
\* short, or a page without a notices pill stop it before the record.  Once, after
\* the last report stage (model bound).
PublishByRuling(t) ==
    /\ Quiet /\ stages[t] # None
    /\ reports = MaxReports /\ reports' = reports + 1
    /\ \/ /\ pages' = [pages EXCEPT ![t] = stages[t]]
          /\ records' = [records EXCEPT ![t].outcome = "published_without_banner_by_ruling"]
       \/ pages' = [pages EXCEPT ![t] = stages[t]] /\ records' = records
       \/ pages' = [pages EXCEPT ![t].whole = FALSE] /\ records' = records
    /\ built' = FALSE /\ stop' = None
    /\ UNCHANGED <<behavioralVars, stages, wording, site, build>>

Edits == MapThenSumSet(LAMBDA f : wording[f] - 1, Forms)

\* wording.toml is edited and committed while no stage runs.
EditWording(f) ==
    /\ Quiet /\ Edits < MaxEdits
    /\ wording' = [wording EXCEPT ![f] = @ + 1]
    /\ built' = FALSE /\ stop' = None
    /\ UNCHANGED <<behavioralVars, pages, stages, records, site, build, reports>>

\* plan: everything is read and checked before the first write.
Plan ==
    /\ Quiet
    /\ \/ /\ Complaints # {}
          /\ stop' = FirstComplaint
          /\ build' = build
       \/ /\ Complaints = {}
          /\ stop' = None
          /\ build' = [left |-> Files, own |-> Own,
                       pages |-> [t \in Tokens |-> Rewritten(t, Original(pages[t]))]]
    /\ UNCHANGED <<behavioralVars, pages, stages, wording, records, site, built, reports>>

WriteFile ==
    /\ build.left # <<>>
    /\ LET f == Head(build.left)
       IN  IF f \in Tokens
           THEN pages' = [pages EXCEPT ![f] = build.pages[f]] /\ site' = site
           ELSE site' = [site EXCEPT ![f] = build.own] /\ pages' = pages
    /\ build' = IF Len(build.left) = 1 THEN NoBuild ELSE [build EXCEPT !.left = Tail(@)]
    /\ built' = (Len(build.left) = 1)
    /\ UNCHANGED <<behavioralVars, stages, wording, records, stop, reports>>

CutShort ==
    /\ build.left # <<>>
    /\ build' = NoBuild
    /\ UNCHANGED <<behavioralVars, pages, stages, wording, records, site, stop, built, reports>>

\* A fetch runs while no build does, and makes the site out of date.
Refresh ==
    /\ build.left = <<>>
    /\ FetchStep
    /\ built' = FALSE /\ stop' = None
    /\ UNCHANGED <<pages, stages, wording, records, site, build, reports>>

Next ==
    \/ Refresh
    \/ \E t \in Reported : Report(t) \/ PublishByRuling(t)
    \/ \E f \in Forms : EditWording(f)
    \/ Plan \/ WriteFile \/ CutShort

Spec == Init /\ [][Next]_vars

TypeOK ==
    /\ pages \in [Tokens -> Page]
    /\ stages \in [Tokens -> Page \cup {None}] /\ wording \in Wording
    /\ records \in [Tokens -> [text : Nat, outcome : Outcomes]]
    /\ DOMAIN site = ToSet(OwnFiles)
    /\ DOMAIN build = {"left", "own", "pages"}
    /\ build.left \in Seq(Tokens \cup ToSet(OwnFiles))
    /\ built \in BOOLEAN /\ reports \in Nat
-------------------------------------------------------------------------------
\* A build stops at a rewrite only over a page that was rendered before the last edit
\* of the wording: one of today's templates takes its rewrites after any builds, cut
\* short or not, any change of snapshot and reader sentence, and a page published over
\* it or by a ruling (apply_rewrites undoes what it finds first, D8).
RewritesApply ==
    stop = "rewrite" =>
        \E t \in Tokens : ~Rewritable(t, pages[t]) /\ pages[t].wording # wording

\* Once a build has ended, what the selector says of a token is on its page:
\* the finding of a page another run's record has replaced is never shown (D5).
CardQuotesPage ==
    built => \A t \in Tokens :
                /\ site["index.html"].cards[t].finding = pages[t].text
                /\ site["methodology.html"].cards = site["index.html"].cards

\* Once a build has ended, every page with a block carries the not-refreshed
\* notice exactly when the last status says the fetch failed, and so does the
\* selector; a page has the block exactly when a snapshot is there, the pending literal
\* when none is, never both (A-20), and a reader sentence that names what it shows.
NoticeOnEveryPage ==
    LET failed == status # None /\ ~status.ok
    IN  built => /\ failed <=> site["index.html"].notice # None
                 /\ \A t \in Tokens :
                       /\ pages[t].region = None <=> StampsOf(t) = {}
                       /\ pages[t].literal <=> pages[t].region = None
                       /\ pages[t].region # None =>
                             /\ pages[t].region.notice = (IF failed THEN status ELSE None)
                             /\ pages[t].reader.kind = ReaderOf(t)

\* A page shows no snapshot older than the one the status names, also after a
\* fetch that was cut short between two tokens and a notice that names a date.
ShownNotOlder ==
    built /\ status # None /\ status.stamp # None =>
        \A t \in Tokens : /\ pages[t].region # None
                          /\ pages[t].region.stamp >= status.stamp

===============================================================================

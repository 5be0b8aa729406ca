---------------------------- MODULE MCReportGate ----------------------------
(* Small instances of ReportGate: which check results a run may meet. *)
EXTENDS PromotedFlags

Notices == {<<2, 1>>}

AllTriggers == {2, 23, 25, 28}

In(ok, prior, body, missing, flags) ==
    [ok |-> ok, prior |-> prior, body |-> body, missing |-> missing, flags |-> flags]

CleanRun == In(TRUE, "pass", "pass", FALSE, {})

\* A data flag that comes and goes with a page that fails or passes, and a prose slot that is
\* missing while an earlier stage errors.
RunInputs ==
    {CleanRun, In(TRUE, "pass", "fail", FALSE, Notices), In(TRUE, "pass", "pass", FALSE, Notices),
     In(TRUE, "error", "pass", TRUE, {})}

\* A failing stage before the report, over a page that passes.
PriorInputs == {CleanRun, In(TRUE, "fail", "pass", FALSE, {})}
==============================================================================

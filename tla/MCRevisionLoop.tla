---------------------------- MODULE MCRevisionLoop ----------------------------
(* A small instance of RevisionLoop: a summary slot and a split slot. *)
EXTENDS RevisionLoop

TwoParts == [s \in 1..2 |-> s]

\* The template text and slot 1 stand in one section, slot 2 in another.
TwoSections == [p \in 0..2 |-> IF p = 2 THEN "backing" ELSE "finding"]

\* "dash" is printed as "plain"; "stray" is a figure no row prints.
AllWords == {"figure", "plain", "dash", "stray"}

Printed == [x \in AllWords |-> IF x = "dash" THEN "plain" ELSE x]

Template == <<"plain">>

SomeDrafts == {<<"figure">>, <<"figure", "dash">>, <<"plain">>, <<"stray">>}

\* A span replaced by nothing, by a word of another span or by a stray figure.
SomeReplacements ==
    [quoted : {<<"figure">>, <<"plain">>, <<"figure", "plain">>},
     by : {<<>>, <<"figure">>, <<"stray">>}]

VerifiedFigures == {<<"figure">>}

Finding(criterion, kind, para, span) ==
    [criterion |-> criterion, kind |-> kind, para |-> para, span |-> span]

\* An LLM-03 contradiction in the template and one in a slot, a figure A-23
\* verifies, and generic spans, one of two words.
SomeFindings ==
    {Finding("LLM-03", "contradiction", 0, <<"plain">>),
     Finding("LLM-03", "contradiction", 1, <<"plain">>),
     Finding("LLM-01", "untraceable", 1, <<"figure">>),
     Finding("LLM-04", "generic_span", 1, <<"figure", "plain">>),
     Finding("LLM-04", "generic_span", 2, <<"figure">>)}

Run(prior, held, rerun) ==
    [withdrawn |-> FALSE, prior |-> prior, held |-> held, rerun |-> rerun]

\* A clean start, a failing or erring earlier stage, an older entry that the run
\* can or cannot resolve, and a report that is already published; the last two
\* with the judge withdrawn.
SomeInputs ==
    {Run("pass", "none", FALSE), Run("fail", "none", TRUE), Run("error", "none", FALSE),
     Run("pass", "changed", FALSE), Run("pass", "unchanged", FALSE),
     Run("pass", "changed", TRUE),
     [Run("pass", "none", FALSE) EXCEPT !.withdrawn = TRUE],
     [Run("pass", "unchanged", TRUE) EXCEPT !.withdrawn = TRUE]}
==============================================================================

------------------------------- MODULE MCChain -------------------------------
(* Small instances of Chain: how the tasks are started. *)
EXTENDS Chain, TLC

Monthly == [mode |-> "monthly", dry |-> FALSE]
Weekly == [mode |-> "weekly", dry |-> FALSE]
DryRun == [mode |-> "weekly", dry |-> TRUE]

AllKinds == {Monthly, Weekly, DryRun}
RealKinds == {Monthly, Weekly}
==============================================================================

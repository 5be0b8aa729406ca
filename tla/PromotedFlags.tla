---------------------------- MODULE PromotedFlags ----------------------------
(***************************************************************************)
(* ReportGate over bundles whose passing checks fire notices only.         *)
(* run_harness refuses a bundle whose S0/S1 checks fire anything above     *)
(* Level 1, and the later stages fire Level 1 alone; the report stage runs *)
(* S0/S1 again, and then DET-62, which asks its two sources anew, may fire *)
(* Level 3 over a promoted bundle: the one case this leaves out.           *)
(***************************************************************************)
EXTENDS ReportGate

ASSUME FlagsAreNotices == \A f \in Flags : f[2] = 1
==============================================================================

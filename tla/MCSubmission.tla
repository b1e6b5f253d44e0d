---------------------------- MODULE MCSubmission ----------------------------
(* Submission on small instances.                                          *)
EXTENDS Submission

\* quota_free_per_day, quota_pro_per_day, by tier.
TierQuota == [t \in Tiers |-> IF t = "free" THEN 1 ELSE 2]
=============================================================================

----------------------------- MODULE MCCronJobs -----------------------------
(* CronJobs for TLC: the scripts that back up are alike. *)
EXTENDS CronJobs, TLC

MCSymmetry == Permutations(Runs)
=============================================================================

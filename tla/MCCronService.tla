--------------------------- MODULE MCCronService ---------------------------
(* Small instances of CronService for TLC. *)
EXTENDS CronService, TLC

MCSchedules == {[kind |-> "every", n |-> 1], [kind |-> "at", n |-> 1]}

MCCatalogSchedules == {[kind |-> "cron", n |-> 2], [kind |-> "at", n |-> 1]}

\* Ordinary jobs are alike, and so are timer tasks.
MCCatalogSymmetry == Permutations(Jobs \ SysJobs) \cup Permutations(Tasks)
=============================================================================

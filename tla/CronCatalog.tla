---------------------------- MODULE CronCatalog ----------------------------
(***************************************************************************)
(* What the cron service promises about its durable list of jobs: the list *)
(* a restart would load changes one requested job at a time, and besides   *)
(* that only loses one-shot jobs to be deleted after their run, once they  *)
(* have run.  Loading, merging the action log, ticking, querying and       *)
(* crashing change nothing, and a protected job never goes away.  The      *)
(* promise is void for a job that an accident has harmed; the              *)
(* implementation says which those are.                                    *)
(***************************************************************************)
EXTENDS Integers

CONSTANTS Jobs, SysJobs, NoJob

VARIABLES
    cat,    \* class of each job: not there, there to stay, or one-shot
    calls,  \* number of calls made on the service
    named,  \* the job the last call named, or NoJob
    ran,    \* one-shots that have run since a call last named them
    harmed  \* jobs that an accident has happened to

Classes == {"none", "standing", "oneshot"}

Init ==
    /\ cat = [j \in Jobs |-> "none"]
    /\ calls = 0 /\ named = NoJob
    /\ ran = {} /\ harmed = {}

\* A call names a job, or none; whether that job has run is asked anew.
Call ==
    /\ calls' = calls + 1 /\ named' \in Jobs \cup {NoJob}
    /\ ran' = ran \ {named'}

\* A step the service takes on its own; a one-shot may have run in it.
Work ==
    /\ UNCHANGED <<calls, named>>
    /\ \/ ran' = ran
       \/ \E j \in Jobs : cat[j] = "oneshot" /\ ran' = ran \cup {j}

\* A one-shot that has run goes: on its own, or together with a call, because a
\* call made during a tick saves the tick's results too.
Retired(j) == j \in ran /\ cat'[j] = "none"

\* A call may change the job it names, but not take away a protected one.
Requested(j) ==
    /\ calls' # calls /\ named' = j
    /\ cat'[j] = "none" => j \notin SysJobs

Next ==
    /\ Call \/ Work
    /\ cat' \in [Jobs -> Classes]
    /\ harmed \subseteq harmed'
    /\ \A j \in Jobs \ harmed' : cat'[j] = cat[j] \/ Retired(j) \/ Requested(j)

Spec == Init /\ [][Next]_<<cat, calls, named, ran, harmed>>
=============================================================================

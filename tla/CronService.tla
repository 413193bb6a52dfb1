---------------------------- MODULE CronService ----------------------------
(***************************************************************************)
(* The cron service (crates/cron/src/service.rs).  One CronService is      *)
(* started by the gateway and owns the timer; every public call takes the  *)
(* `inner` mutex for its whole body except that run_job and on_timer give  *)
(* it up while a job's handler runs.  A second, never started CronService  *)
(* (the one the agent's cron tool holds, with a mutex of its own) shares   *)
(* the directory: its calls append to the action log, which the started    *)
(* service merges, and read jobs.json without a lock, also in the middle   *)
(* of the started service's fs::write.                                     *)
(*                                                                         *)
(* What is kept of a job: its schedule, `enabled`, `next_run_at_ms`,       *)
(* `delete_after_run`; whether it is a protected system job is a matter of *)
(* its id.  Job order in the Vec is not kept: merge_action rebuilds it     *)
(* from a HashMap.  A step of the model is one critical section of the     *)
(* mutex; a JoinHandle::abort takes effect at the aborted task's await,    *)
(* where that task holds no lock.                                          *)
(***************************************************************************)
EXTENDS Integers, Sequences, FiniteSets

CONSTANTS
    Jobs,       \* job ids
    SysJobs,    \* ids of protected system jobs (PayloadKind::SystemEvent)
    Schedules,  \* schedules a caller may ask for: [kind |-> .., n |-> ..]
    Tasks,      \* ids of tokio timer tasks
    Runners,    \* concurrent callers of run_job
    MaxSleep,   \* max_sleep_ms
    MaxTime,    \* bound: the clock
    MaxOps,     \* bound: public calls, external appends and crashes
    Absent, NoStore, Corrupt, NoTask, NoJob, Idle   \* distinct from all else

NoRun == -1                         \* next_run_at_ms: None

Kinds == {"at", "every", "cron"}

JobRec == [sched : Schedules, enabled : BOOLEAN, next : Nat \cup {NoRun},
           del : BOOLEAN]

Slot == JobRec \cup {Absent}

Catalogs == [Jobs -> Slot]          \* contents of jobs.json / CronStore

ActionRec == [id : Jobs, job : Slot]    \* a line of action.jsonl; "del" has no job

ASSUME CronAssumption ==
    /\ SysJobs \subseteq Jobs
    /\ Schedules \subseteq [kind : Kinds, n : Nat]
    /\ MaxSleep \in Nat /\ MaxTime \in Nat /\ MaxOps \in Nat
    /\ Absent \notin JobRec
    /\ NoStore \notin Catalogs /\ Corrupt \notin Catalogs
    /\ NoTask \notin Tasks
    /\ NoJob \notin Jobs
    /\ Idle \notin [id : Jobs, rec : JobRec, was : BOOLEAN]

VARIABLES
    now,            \* now_ms()
    disk,           \* jobs.json: a catalog, or Corrupt
    alog,           \* action.jsonl
    store,          \* Inner.store: NoStore or a catalog
    running,        \* Inner.running
    timerActive,    \* Inner.timer_active
    handle,         \* Inner.timer: the task the service can abort, or NoTask
    st,             \* state of each timer task
    wake,           \* when a sleeping task's sleep ends
    due,            \* clones of the due jobs a tick still has to execute
    cur,            \* the job a tick is executing
    rj,             \* run_job calls in flight: [id, rec, was] or Idle
    call,           \* number of calls so far and the job the last one named
    tool,           \* "torn": the tool's load_store has read half a jobs.json
    ran,            \* history: one-shots a tick ran since a call last named them
    harmed          \* history: jobs an accident happened to (see CronCatalog)

fileVars  == <<disk, alog>>
timerVars == <<handle, st, wake, due, cur>>
pastVars == <<ran, harmed>>
vars == <<now, disk, alog, store, running, timerActive, handle, st, wake,
          due, cur, rj, call, tool, ran, harmed>>

-----------------------------------------------------------------------------
(* Pure helpers *)

\* compute_next_run; a cron expression is a period n aligned to the epoch.
ComputeNextRun(s, t) ==
    CASE s.kind = "at"    -> IF s.n > t THEN s.n ELSE NoRun
      [] s.kind = "every" -> IF s.n <= 0 THEN NoRun ELSE t + s.n
      [] s.kind = "cron"  -> IF s.n <= 0 THEN NoRun ELSE (t \div s.n + 1) * s.n

NewJob(s, d) ==
    [sched |-> s, enabled |-> TRUE, next |-> ComputeNextRun(s, now), del |-> d]

\* merge_action: the last line about a job decides.
Replay(d, l) ==
    [j \in Jobs |->
        LET mine == {i \in DOMAIN l : l[i].id = j}
        IN  IF mine = {} THEN d[j]
            ELSE l[CHOOSE i \in mine : \A k \in mine : k <= i].job]

EmptyCatalog == [j \in Jobs |-> Absent]

IsDue(rec) == rec # Absent /\ rec.enabled /\ rec.next # NoRun /\ rec.next <= now

IsOneShot(rec) == rec.sched.kind = "at"

\* What the durable list tells apart of a job.
Class(rec) ==
    IF rec = Absent THEN "none"
    ELSE IF IsOneShot(rec) /\ rec.del THEN "oneshot" ELSE "standing"

\* What a restart would load: the catalog the files stand for.
Durable == IF disk = Corrupt THEN EmptyCatalog ELSE Replay(disk, alog)

DurableClass == [j \in Jobs |-> Class(Durable[j])]

\* Broken variant: a recurring job keeps the run time it had.
ExecutedKeepsNext(rec) ==
    IF IsOneShot(rec) /\ ~rec.del
    THEN [rec EXCEPT !.enabled = FALSE, !.next = NoRun]
    ELSE rec

\* What execute_job leaves in its clone of the job.
Executed(rec) ==
    IF IsOneShot(rec)
    THEN IF rec.del THEN rec ELSE [rec EXCEPT !.enabled = FALSE, !.next = NoRun]
    ELSE [rec EXCEPT !.next = ComputeNextRun(rec.sched, now)]

\* Broken variant: the merged actions are dropped from the log but not saved.
LoadStoreUnsaved(r) ==
    IF timerActive /\ store # NoStore
    THEN [s |-> store, d |-> disk, l |-> alog]
    ELSE IF disk = Corrupt
    THEN [s |-> store, d |-> EmptyCatalog, l |-> alog]
    ELSE [s |-> Replay(disk, alog), d |-> disk, l |-> IF r THEN <<>> ELSE alog]

\* load_store when Inner.running is r: cached during a tick; a store that does
\* not parse is moved aside; otherwise read and merge the action log, which a
\* running service then empties and saves.
LoadStore(r) ==
    IF timerActive /\ store # NoStore
    THEN [s |-> store, d |-> disk, l |-> alog]
    ELSE IF disk = Corrupt
    THEN [s |-> store, d |-> EmptyCatalog, l |-> alog]
    ELSE IF r /\ alog # <<>>
    THEN [s |-> Replay(disk, alog), d |-> Replay(disk, alog), l |-> <<>>]
    ELSE [s |-> Replay(disk, alog), d |-> disk, l |-> alog]

\* save_store
SaveStore(s, d) == IF s = NoStore THEN d ELSE s

\* fs::write truncates jobs.json before it writes: when main writes (w), a load of
\* the tool's service may read half of it.
MayTear(w) == tool' = tool \/ (w /\ tool' = "torn")

\* recompute_next_runs
RecomputeNextRuns(s) ==
    [j \in Jobs |->
        IF s[j] # Absent /\ s[j].enabled
        THEN [s[j] EXCEPT !.next = ComputeNextRun(s[j].sched, now)]
        ELSE s[j]]

\* next_wake_ms: the wake times that enabled jobs ask for
WakeTimes(s) ==
    IF s = NoStore THEN {}
    ELSE {s[j].next : j \in {k \in Jobs : s[k] # Absent /\ s[k].enabled}} \ {NoRun}

\* The end of the sleep arm_timer asks for.
WakeAt(s) ==
    LET soon == {t \in WakeTimes(s) : t < now + MaxSleep}
    IN  IF soon = {} THEN now + MaxSleep
        ELSE LET first == CHOOSE t \in soon : \A u \in soon : t <= u
             IN  IF first < now THEN now ELSE first

-----------------------------------------------------------------------------
(* Timer tasks *)

NoDue == [j \in Jobs |-> Absent]

\* JoinHandle::abort on the stored task forgets what it was doing.
AbortTimer ==
    /\ due' = [u \in Tasks |-> IF u = handle THEN NoDue ELSE due[u]]
    /\ cur' = [u \in Tasks |-> IF u = handle THEN NoJob ELSE cur[u]]

\* Broken variant: the new task is spawned without aborting the old one.
ArmTimerNoAbort(r, s) ==
    /\ UNCHANGED <<due, cur>>
    /\ \/ /\ r
          /\ \E t \in Tasks :
               /\ st[t] = "dead" /\ t # handle
               /\ handle' = t
               /\ st' = [st EXCEPT ![t] = "sleep"]
               /\ wake' = [wake EXCEPT ![t] = WakeAt(s)]
       \/ ~r /\ handle' = NoTask /\ UNCHANGED <<st, wake>>

\* arm_timer, with running = r and store = s: abort the current task, whatever
\* it is doing, and spawn a new one.
ArmTimer(r, s) ==
    /\ AbortTimer
    /\ \/ /\ r
          /\ \E t \in Tasks :
               /\ st[t] = "dead" /\ t # handle
               /\ handle' = t
               /\ st' = [u \in Tasks |-> IF u = t THEN "sleep"
                                         ELSE IF u = handle THEN "dead" ELSE st[u]]
               /\ wake' = [wake EXCEPT ![t] = WakeAt(s)]
       \/ /\ ~r
          /\ handle' = NoTask
          /\ st' = [u \in Tasks |-> IF u = handle THEN "dead" ELSE st[u]]
          /\ UNCHANGED wake

KeepTimer == UNCHANGED timerVars

\* A sleeping task's delay is over; it looks at `running` under the lock.
Wake(t) ==
    /\ st[t] = "sleep" /\ wake[t] <= now
    /\ st' = [st EXCEPT ![t] = IF running THEN "enter" ELSE "dead"]
    /\ UNCHANGED <<now, disk, alog, store, running, timerActive, handle, wake,
                   due, cur, rj, call, tool, pastVars>>

\* Broken variant: timer_active is not set.
EnterTickUncached(t) ==
    LET L == LoadStore(running) IN
    /\ st[t] = "enter"
    /\ store' = L.s /\ disk' = L.d /\ alog' = L.l /\ MayTear(L.l # alog)
    /\ due' = [due EXCEPT ![t] =
                 [j \in Jobs |-> IF L.s # NoStore /\ IsDue(L.s[j])
                                 THEN L.s[j] ELSE Absent]]
    /\ st' = [st EXCEPT ![t] = "tick"]
    /\ UNCHANGED <<now, running, timerActive, handle, wake, cur, rj, call, pastVars>>

\* on_timer, first critical section
EnterTick(t) ==
    LET L == LoadStore(running) IN
    /\ st[t] = "enter"
    /\ store' = L.s /\ disk' = L.d /\ alog' = L.l /\ MayTear(L.l # alog)
    /\ timerActive' = TRUE
    /\ due' = [due EXCEPT ![t] =
                 [j \in Jobs |-> IF L.s # NoStore /\ IsDue(L.s[j])
                                 THEN L.s[j] ELSE Absent]]
    /\ st' = [st EXCEPT ![t] = "tick"]
    /\ UNCHANGED <<now, running, handle, wake, cur, rj, call, pastVars>>

\* The handler of a due job starts, no lock held.
StartJob(t, j) ==
    /\ st[t] = "tick" /\ due[t][j] # Absent
    /\ st' = [st EXCEPT ![t] = "exec"]
    /\ cur' = [cur EXCEPT ![t] = j]
    /\ UNCHANGED <<now, disk, alog, store, running, timerActive, handle, wake,
                   due, rj, call, tool, pastVars>>

\* The handler returned: write the executed clone back, delete one-shots.
WriteBack(t) ==
    LET j == cur[t]
        c == due[t][j]
    IN
    /\ st[t] = "exec"
    /\ store' = IF store = NoStore THEN store
                ELSE IF IsOneShot(c) /\ c.del
                THEN [store EXCEPT ![j] = Absent]
                ELSE IF store[j] # Absent
                THEN [store EXCEPT ![j] = Executed(c)]
                ELSE store
    /\ due' = [due EXCEPT ![t][j] = Absent]
    /\ st' = [st EXCEPT ![t] = "tick"]
    /\ cur' = [cur EXCEPT ![t] = NoJob]
    /\ ran' = IF Class(c) = "oneshot" /\ DurableClass[j] = "oneshot"
              THEN ran \cup {j} ELSE ran
    /\ UNCHANGED <<now, disk, alog, running, timerActive, handle, wake, rj, call,
                   tool, harmed>>

\* Broken variant: the tick ends without arming the next one.
FinishTickNoRearm(t) ==
    /\ st[t] = "tick" /\ due[t] = NoDue
    /\ disk' = SaveStore(store, disk) /\ MayTear(store # NoStore)
    /\ timerActive' = FALSE
    /\ st' = [st EXCEPT ![t] = "dead"]
    /\ UNCHANGED <<now, alog, store, running, handle, wake, due, cur, rj, call,
                   pastVars>>

\* on_timer, last critical section: save, clear timer_active, re-arm.
FinishTick(t) ==
    /\ st[t] = "tick" /\ due[t] = NoDue
    /\ disk' = SaveStore(store, disk) /\ MayTear(store # NoStore)
    /\ timerActive' = FALSE
    /\ ArmTimer(running, store)
    /\ UNCHANGED <<now, alog, store, running, rj, call, pastVars>>

-----------------------------------------------------------------------------
(* Public calls: each is one critical section (run_job is two) *)

Call(j) ==
    /\ call.n < MaxOps /\ call' = [n |-> call.n + 1, job |-> j]
    /\ ran' = ran \ {j}

\* start()
Start ==
    LET L == LoadStore(TRUE) IN
    /\ Call(NoJob)
    /\ alog' = L.l
    /\ IF L.s = NoStore
       THEN /\ running' = FALSE /\ store' = L.s /\ disk' = L.d
            /\ KeepTimer /\ UNCHANGED tool
       ELSE /\ running' = TRUE
            /\ store' = RecomputeNextRuns(L.s)
            /\ disk' = store' /\ MayTear(TRUE)
            /\ ArmTimer(TRUE, store')
    /\ UNCHANGED <<now, timerActive, rj, harmed>>

\* stop(): nothing is saved and timer_active is left as it is.
Stop ==
    /\ Call(NoJob)
    /\ running' = FALSE
    /\ handle' = NoTask
    /\ st' = [u \in Tasks |-> IF u = handle THEN "dead" ELSE st[u]]
    /\ AbortTimer
    /\ UNCHANGED <<now, disk, alog, store, timerActive, wake, rj, tool, harmed>>

\* list_jobs, get_job, status, and every refused call: load_store and no more.
Query ==
    LET L == LoadStore(running) IN
    /\ Call(NoJob)
    /\ store' = L.s /\ disk' = L.d /\ alog' = L.l /\ MayTear(L.l # alog)
    /\ UNCHANGED <<now, running, timerActive, timerVars, rj, harmed>>

\* How add, remove, enable and update end after load_store gave L and the store
\* became s: a running service saves and re-arms, a stopped one logs the action.
Commit(L, s, j) ==
    /\ store' = s
    /\ IF running
       THEN /\ disk' = s /\ alog' = L.l /\ MayTear(TRUE)
            /\ ArmTimer(TRUE, s)
       ELSE /\ disk' = L.d /\ alog' = Append(L.l, [id |-> j, job |-> s[j]])
            /\ KeepTimer /\ UNCHANGED tool
    /\ UNCHANGED <<now, running, timerActive, rj, harmed>>

\* An id that add_job's fresh UUID may have: never seen in any file or memory.
Fresh(j) ==
    /\ j \notin SysJobs
    /\ disk # Corrupt => disk[j] = Absent
    /\ store # NoStore => store[j] = Absent
    /\ \A i \in DOMAIN alog : alog[i].id # j
    /\ \A t \in Tasks : due[t][j] = Absent
    /\ \A r \in Runners : rj[r] # Idle => rj[r].id # j

\* add_job; a stopped service appends without loading anything.
AddJob(j, s, d) ==
    LET L == LoadStore(TRUE) IN
    /\ Call(j) /\ Fresh(j)
    /\ IF running
       THEN /\ store' = IF L.s = NoStore THEN NoStore
                        ELSE [L.s EXCEPT ![j] = NewJob(s, d)]
            /\ disk' = SaveStore(store', L.d) /\ alog' = L.l
            /\ MayTear(store' # NoStore)
            /\ ArmTimer(TRUE, store')
       ELSE /\ alog' = Append(alog, [id |-> j, job |-> NewJob(s, d)])
            /\ UNCHANGED <<disk, store, tool>> /\ KeepTimer
    /\ UNCHANGED <<now, running, timerActive, rj, harmed>>

\* register_system_job: replaces the job by id and saves, running or not.
RegisterSystemJob(j, s) ==
    LET L == LoadStore(running) IN
    /\ Call(j) /\ j \in SysJobs
    /\ store' = IF L.s = NoStore THEN NoStore
                ELSE [L.s EXCEPT ![j] = NewJob(s, FALSE)]
    /\ disk' = SaveStore(store', L.d) /\ alog' = L.l
    /\ MayTear(store' # NoStore)
    /\ ArmTimer(running, store')
    /\ UNCHANGED <<now, running, timerActive, rj, harmed>>

\* remove_job, when it answers Removed; its refusals are Query.
RemoveJob(j) ==
    LET L == LoadStore(running) IN
    /\ Call(j)
    /\ L.s # NoStore /\ L.s[j] # Absent /\ j \notin SysJobs
    /\ Commit(L, [L.s EXCEPT ![j] = Absent], j)

\* enable_job, when the job exists
EnableJob(j, e) ==
    LET L == LoadStore(running)
        next == IF e THEN ComputeNextRun(L.s[j].sched, now) ELSE NoRun
    IN
    /\ Call(j)
    /\ L.s # NoStore /\ L.s[j] # Absent
    /\ Commit(L, [L.s EXCEPT ![j].enabled = e, ![j].next = next], j)

\* update_job, when it answers Updated
UpdateJob(j, s, d) ==
    LET L == LoadStore(running)
        next == IF L.s[j].enabled THEN ComputeNextRun(s, now) ELSE L.s[j].next
    IN
    /\ Call(j)
    /\ L.s # NoStore /\ L.s[j] # Absent /\ j \notin SysJobs
    /\ Commit(L, [L.s EXCEPT ![j].sched = s, ![j].del = d, ![j].next = next], j)

\* run_job up to the handler call.  A job that is missing, or disabled and not
\* forced, leaves only what load_store did with running set.
RunJobBegin(r, j, force) ==
    LET L == LoadStore(TRUE)
        go == L.s # NoStore /\ L.s[j] # Absent /\ (force \/ L.s[j].enabled)
    IN
    /\ Call(IF go THEN j ELSE NoJob) /\ rj[r] = Idle
    /\ store' = L.s /\ disk' = L.d /\ alog' = L.l /\ MayTear(L.l # alog)
    /\ running' = (running \/ go)
    /\ rj' = [rj EXCEPT ![r] = IF go THEN [id |-> j, rec |-> L.s[j], was |-> running]
                                     ELSE Idle]
    /\ UNCHANGED <<now, timerActive, timerVars, harmed>>

\* run_job after the handler returned: the executed clone replaces the job, which
\* is an accident if a call has changed it meanwhile, and `running` is put back to
\* what it was at the beginning.
RunJobEnd(r) ==
    LET j == rj[r].id
        back == store # NoStore /\ store[j] # Absent
    IN
    /\ rj[r] # Idle
    /\ store' = IF back THEN [store EXCEPT ![j] = Executed(rj[r].rec)] ELSE store
    /\ harmed' = IF back /\ Class(rj[r].rec) # Class(store[j])
                 THEN harmed \cup {j} ELSE harmed
    /\ disk' = SaveStore(store', disk) /\ MayTear(store # NoStore)
    /\ running' = rj[r].was
    /\ IF rj[r].was THEN ArmTimer(TRUE, store') ELSE KeepTimer
    /\ rj' = [rj EXCEPT ![r] = Idle]
    /\ UNCHANGED <<now, alog, timerActive, call, ran>>

-----------------------------------------------------------------------------
(* The rest of the world *)

\* The cron tool's own CronService, never started: add_job and remove_job append
\* to the log.  add_job loads nothing.
ToolAdd(j, s, d) ==
    /\ Call(j) /\ Fresh(j)
    /\ alog' = Append(alog, [id |-> j, job |-> NewJob(s, d)])
    /\ UNCHANGED <<now, disk, store, running, timerActive, timerVars, rj, tool, harmed>>

\* remove_job looks the job up in the store it loaded, which may be older than the
\* files by now: jobs.json and the log are read one after the other, and the log
\* is locked anew for the append.
ToolRemove(j) ==
    /\ Call(j)
    /\ j \notin SysJobs /\ ~Fresh(j)
    /\ alog' = Append(alog, [id |-> j, job |-> Absent])
    /\ UNCHANGED <<now, disk, store, running, timerActive, timerVars, rj, tool, harmed>>

\* load_store of the tool's list_jobs or remove_job on a jobs.json it cannot parse:
\* the file is moved aside, with whatever main has written into it by now, and the
\* call goes on with the store of an earlier load (ToolRemove).
ToolRename ==
    /\ Call(NoJob)
    /\ tool = "torn" \/ disk = Corrupt
    /\ disk' = EmptyCatalog
    /\ tool' = "idle"
    /\ harmed' = Jobs
    /\ UNCHANGED <<now, alog, store, running, timerActive, timerVars, rj>>

\* The process dies: memory and tasks are gone.
Dies ==
    /\ Call(NoJob)
    /\ store' = NoStore /\ running' = FALSE /\ timerActive' = FALSE
    /\ handle' = NoTask
    /\ st' = [t \in Tasks |-> "dead"]
    /\ due' = [t \in Tasks |-> NoDue] /\ cur' = [t \in Tasks |-> NoJob]
    /\ rj' = [r \in Runners |-> Idle]
    /\ tool' = "idle"
    /\ UNCHANGED <<now, wake>>

Crash == Dies /\ UNCHANGED <<fileVars, harmed>>

\* merge_action empties the log before it saves the merged store.
CrashInMerge ==
    /\ running /\ LoadStore(TRUE).l # alog
    /\ Dies
    /\ harmed' = harmed \cup {alog[i].id : i \in DOMAIN alog}
    /\ alog' = <<>> /\ UNCHANGED disk

\* save_store truncates jobs.json and then writes it.
CrashInSave ==
    /\ store # NoStore
    /\ Dies
    /\ harmed' = Jobs
    /\ disk' = Corrupt /\ UNCHANGED alog

Clock ==
    /\ now < MaxTime
    /\ now' = now + 1
    /\ UNCHANGED <<disk, alog, store, running, timerActive, timerVars, rj, call, tool,
                   pastVars>>

-----------------------------------------------------------------------------
Init ==
    /\ now = 0
    /\ disk = EmptyCatalog
    /\ alog = <<>>
    /\ store = NoStore
    /\ running = FALSE /\ timerActive = FALSE
    /\ handle = NoTask
    /\ st = [t \in Tasks |-> "dead"]
    /\ wake = [t \in Tasks |-> 0]
    /\ due = [t \in Tasks |-> NoDue]
    /\ cur = [t \in Tasks |-> NoJob]
    /\ rj = [r \in Runners |-> Idle]
    /\ call = [n |-> 0, job |-> NoJob]
    /\ tool = "idle" /\ ran = {} /\ harmed = {}

TimerStep(t) ==
    \/ Wake(t) \/ EnterTick(t) \/ WriteBack(t) \/ FinishTick(t)
    \/ \E j \in Jobs : StartJob(t, j)

JobCall(j) ==
    \/ RemoveJob(j) \/ ToolRemove(j)
    \/ \E e \in BOOLEAN : EnableJob(j, e)
    \/ \E s \in Schedules : RegisterSystemJob(j, s)
    \/ \E s \in Schedules, d \in BOOLEAN :
          AddJob(j, s, d) \/ UpdateJob(j, s, d) \/ ToolAdd(j, s, d)
    \/ \E r \in Runners, force \in BOOLEAN : RunJobBegin(r, j, force)

Next ==
    \/ Start \/ Stop \/ Query
    \/ \E j \in Jobs : JobCall(j)
    \/ \E r \in Runners : RunJobEnd(r)
    \/ \E t \in Tasks : TimerStep(t)
    \/ ToolRename
    \/ Crash \/ CrashInMerge \/ CrashInSave
    \/ Clock

Spec == Init /\ [][Next]_vars

\* The runtime polls every task that is ready, handlers return, time passes.
Fairness ==
    /\ \A t \in Tasks : WF_vars(TimerStep(t))
    /\ \A r \in Runners : WF_vars(RunJobEnd(r))
    /\ WF_vars(Clock)

FairSpec == Spec /\ Fairness

-----------------------------------------------------------------------------
(* Properties *)

Live(t) == st[t] # "dead"
InTick(t) == st[t] \in {"tick", "exec"}

StateOK ==
    /\ now \in Nat
    /\ disk \in Catalogs \cup {Corrupt}
    /\ alog \in Seq(ActionRec)
    /\ store \in Catalogs \cup {NoStore}
    /\ running \in BOOLEAN /\ timerActive \in BOOLEAN
    /\ handle \in Tasks \cup {NoTask}
    /\ st \in [Tasks -> {"dead", "sleep", "enter", "tick", "exec"}]
    /\ wake \in [Tasks -> Int]
    /\ due \in [Tasks -> Catalogs]
    /\ cur \in [Tasks -> Jobs \cup {NoJob}]
    /\ rj \in [Runners -> [id : Jobs, rec : JobRec, was : BOOLEAN] \cup {Idle}]
    /\ call \in [n : Nat, job : Jobs \cup {NoJob}]

\* The types of the service and of what is recorded beside it
TypeOK ==
    /\ StateOK
    /\ tool \in {"idle", "torn"} /\ ran \subseteq Jobs /\ harmed \subseteq Jobs

\* arm_timer and stop abort through the one stored JoinHandle, so no timer task
\* may outlive its handle: a second live task would run the same jobs again.
SingleTimer == \A t \in Tasks : Live(t) => t = handle

\* While on_timer is between its first and its last critical section the store
\* is the cached one: timer_active is set and a concurrent list_jobs, run_job or
\* add_job never reloads jobs.json over results that are not saved yet.
TickKeepsCache ==
    \A t \in Tasks : InTick(t) => timerActive /\ (due[t] # NoDue => store # NoStore)

\* A started service cannot fall asleep for good: unless a run_job call is in
\* flight, running means the stored handle is a live task, and a sleeping one
\* wakes within max_sleep_ms (arm_timer, on_timer, run_job's restore of running).
AlwaysArmed ==
    running /\ (\A r \in Runners : rj[r] = Idle) =>
        /\ handle # NoTask /\ Live(handle)
        /\ st[handle] = "sleep" => wake[handle] <= now + MaxSleep

DueInStore(j) == store # NoStore /\ IsDue(store[j])

\* Every due job of a running service is eventually executed, rescheduled,
\* disabled or removed, whatever calls abort the tick on the way: each of them
\* re-arms the timer (arm_timer, on_timer).
DueJobRuns ==
    \A j \in Jobs : (running /\ DueInStore(j) /\ now + MaxSleep <= MaxTime)
                        ~> ~(running /\ DueInStore(j))

CC == INSTANCE CronCatalog WITH cat <- DurableClass, calls <- call.n, named <- call.job

\* The durable job list is a CronCatalog: merging, ticking, reloading, run_job and
\* crashing neither lose a job nor bring one back, and only the job a call names or
\* a one-shot that ran changes (load_store, merge_action, on_timer, run_job, and the
\* log the tool's service appends to), except for jobs harmed by one of the four
\* accidents the code does not prevent: a crash that falls between emptying the log
\* and saving what it held, a crash inside fs::write, a tool call that reads
\* jobs.json inside fs::write and moves it aside, and a run_job that puts back a
\* clone of a job that a call has changed since.
CatalogRefined == CC!Spec

====
